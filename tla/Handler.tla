------------------------------ MODULE Handler ------------------------------
(***************************************************************************)
(* The node-side instance control handler of LuoYunCloud                  *)
(* (src/platform/src/compute/handler.c).                                   *)
(*                                                                         *)
(* ly_handler_instance_control, called by the node's main loop, admits a  *)
(* request and starts one thread running __instance_control_func, which   *)
(* dispatches to __domain_run / stop / reboot / destroy / query / suspend *)
(* / save.  Threads share three things: the thread counter, the file      *)
(* system (guarded by the hard-link locks of __file_lock_get/put) and the *)
(* process-wide current working directory, which __domain_run and        *)
(* __domain_dir_clean change with chdir and use for relative paths.      *)
(*                                                                         *)
(* Every worker step is one system call (or a run of calls that read the *)
(* working directory once); a step of another thread may fall between     *)
(* any two of them.                                                       *)
(***************************************************************************)
EXTENDS Integers, Sequences, FiniteSets

CONSTANTS
  Workers,        \* thread slots for __instance_control_func (model values)
  Ids,            \* numeric names: instance ids and appliance ids share them
  InstanceIds,    \* ids used as ins_id
  ApplianceIds,   \* ids used as app_id
  ThreadMax,      \* LY_NODE_THREAD_MAX
  WarnEvery,      \* time_warn of __file_lock_get: failed link()s per warning (30)
  WarnCycles,     \* time_warn_cnt: warnings before it gives up (20)
  StopWait,       \* LY_NODE_STOP_INSTANCE_WAIT polls in __domain_stop
  MaxRequests,    \* bound on the requests the controller sends
  Hypervisor,     \* g_c->node->hypervisor
  OtherActs,      \* non-run actions the controller may send
  RunValidity,    \* outcomes of __domain_run_data_check
  Jsons,          \* abstract osm_json documents of run requests
  ChdirUpFails,   \* whether chdir("..") in __domain_run may fail
  ToolFaults,     \* whether downloads, mounts, copies and libvirt may fail
  ReplyFaults,    \* whether building or sending a reply may fail
  Crashes,        \* whether the node daemon may die and be started again
  InitIns,        \* initial states an instance may be found in
  InitApps        \* initial states an appliance may be found in

ASSUME
  /\ InstanceIds \subseteq Ids /\ ApplianceIds \subseteq Ids
  /\ ThreadMax \in Nat /\ WarnEvery \in Nat \ {0} /\ WarnCycles \in Nat \ {0} /\ StopWait \in Nat
  /\ MaxRequests \in Nat
  /\ Hypervisor \in {"kvm", "xen"}
  /\ OtherActs \subseteq {"stop", "reboot", "destroy", "query", "suspend", "save"}
  /\ RunValidity \subseteq BOOLEAN
  \* "none": no osm_json; "disk": a storage array with one disk entry;
  \* "nodisk": a storage array without one; "bad": a document the parser
  \* or validator of __domain_xml_json rejects.
  /\ Jsons \subseteq {"none", "disk", "nodisk", "bad"}
  /\ ChdirUpFails \in BOOLEAN /\ ToolFaults \in BOOLEAN /\ ReplyFaults \in BOOLEAN /\ Crashes \in BOOLEAN
  /\ InitIns \subseteq {"absent", "stopped", "running"} /\ InitIns # {}
  /\ InitApps \subseteq {"absent", "good", "corrupt"} /\ InitApps # {}

-----------------------------------------------------------------------------
(* The file system.  A path is a sequence of names; <<>> is the parent of *)
(* the two data roots (config.ins_data_dir and config.app_data_dir) and   *)
(* the daemon's own working directory.  Instance directories and         *)
(* appliance directories are both named by a bare number, so a relative  *)
(* name resolved in the wrong directory can denote the other kind.       *)
(***************************************************************************)
Home    == << >>
InsRoot == <<"ins">>
AppRoot == <<"app">>
InsDir(i) == Append(InsRoot, i)
AppDir(a) == Append(AppRoot, a)
Parent(p) == IF p = << >> THEN << >> ELSE SubSeq(p, 1, Len(p) - 1)

\* LUOYUN_INSTANCE_DISK_FILE, _CONF_FILE, _STORAGE1/2_FILE, kernel, initrd
InsFiles == {"disk", "conf", "storage1", "storage2", "kernel", "initrd"}
AppImg   == "img"                          \* ci->app_name
FileNames == InsFiles \cup {AppImg}

\* A lock is the link {dir}/.forlock.{id}; dir is one of the two roots.
LockNames == ({"ins"} \X InstanceIds) \cup ({"app"} \X ApplianceIds)

\* Reply codes: LY_S_FINISHED_* and the return values of the __domain_*
\* functions, which __instance_control_func turns into a final reply.
Rets == {"ok", "fail", "running", "notrunning", "waitosm"}
Statuses == {"SUCCESS", "FAILURE", "INSTANCE_RUNNING", "INSTANCE_NOT_RUNNING",
             "WAITING_STARTING_OSM", "NODE_BUSY",
             "DOMAIN_START", "DOMAIN_STOP", "DOMAIN_NOT_EXIST"}

RunRequests ==
  [act: {"run"}, ins: InstanceIds, app: ApplianceIds, new: BOOLEAN,
   valid: RunValidity, json: Jsons]
OtherRequests ==
  [act: OtherActs, ins: InstanceIds, app: ApplianceIds, new: {FALSE},
   valid: {TRUE}, json: {"none"}]
Requests == RunRequests \cup OtherRequests
NoReq == [act |-> "none", ins |-> CHOOSE i \in InstanceIds : TRUE,
          app |-> CHOOSE a \in ApplianceIds : TRUE, new |-> FALSE,
          valid |-> TRUE, json |-> "none"]

-----------------------------------------------------------------------------
VARIABLES
  dirs,        \* existing directories
  files,       \* existing files, as <<directory, name>>
  corrupt,     \* directories whose appliance image fails its checksum
  links,       \* lock links present on disk
  active,      \* instances whose domain libvirt reports active
  cwd,         \* the process-wide current working directory
  threadNum,   \* g_handler_thread_num
  nreq,        \* requests sent by the controller so far
  replies,     \* final replies sent, as <<request, status>>
  th,          \* th[t]: the locals of the thread in slot t (see Idle)
  uncounted,   \* a thread is created and __update_thread_num(1) has not run
  lost         \* auxiliary: requests that get no final reply: no thread was
               \* created for them, a restart of the daemon ended it, or
               \* the reply could not be built or sent

fsVars == <<dirs, files, corrupt>>
counters == <<threadNum, uncounted, nreq, replies, lost>>
vars == <<fsVars, links, active, cwd, counters, th>>

-----------------------------------------------------------------------------
(* The locals of one thread, as they are when no thread runs in the slot. *)
(***************************************************************************)
Absolute(p) == [abs |-> TRUE, path |-> p]
Relative(n) == [abs |-> FALSE, path |-> <<n>>]

\* The loop counters of __file_lock_get when a wait begins.
LockWait0 == [warn |-> WarnEvery, cnt |-> WarnCycles]

Idle ==
  [pc |-> "idle",             \* where the thread is
   req |-> NoReq, rid |-> 0,  \* its copy of the request, and the request's number
   ret |-> "fail",            \* ret of __instance_control_func
   held |-> {},               \* the lock links it has made
   backoff |-> LockWait0,     \* time_warn and time_warn_cnt of the lock wait
   olddir |-> Home,           \* the cwd __domain_run saved (open("."))
   createNew |-> FALSE,       \* ins_create_new of __domain_run
   offset |-> 0,              \* the disk's partition offset
   wait |-> 0,                \* polls left in __domain_stop
   \* __domain_dir_clean: argument, keepdir, saved cwd, return label, result
   cleanArg |-> Absolute(Home), cleanKeep |-> FALSE, cleanSaved |-> Home,
   cleanNext |-> "idle", cres |-> "ok",
   hadDir |-> TRUE]           \* auxiliary: the instance dir existed when the run began

Goto(t, l) == th' = [th EXCEPT ![t].pc = l]
Return(t, r, l) == th' = [th EXCEPT ![t].ret = r, ![t].pc = l]
InsOf(t) == th[t].req.ins
AppOf(t) == th[t].req.app
Rel(n) == Append(cwd, n)                   \* a relative name, resolved now
CwdExists == cwd \in dirs                  \* relative creations need it

\* Mutant: time_warn is decremented before the zero test, so the first
\* warning comes one attempt early.
Backoff_EarlyWarn(c) ==
  IF c.warn - 1 = 0 THEN [warn |-> WarnEvery, cnt |-> c.cnt - 1]
  ELSE [warn |-> c.warn - 1, cnt |-> c.cnt]

\* The body of the retry loop after a failed link(): at time_warn == 0 warn,
\* reset time_warn and decrement time_warn_cnt; then sleep(1) and
\* time_warn--.  The loop gives up when time_warn_cnt <= 0.
Backoff(c) ==
  LET r == IF c.warn = 0 THEN [warn |-> WarnEvery, cnt |-> c.cnt - 1] ELSE c
  IN [warn |-> r.warn - 1, cnt |-> r.cnt]

\* __file_lock_get(root, id): link() {root}/.forlock to {root}/.forlock.{id}
\* until it succeeds, one attempt per step, with the back-off above.  The
\* link is atomic, which is what makes it a lock across threads and
\* processes.
LockGet(t, l, next, fail) ==
  /\ \/ /\ l \notin links
        /\ links' = links \cup {l}
        /\ th' = [th EXCEPT ![t].held = @ \cup {l}, ![t].backoff = LockWait0,
                            ![t].pc = next]
     \/ /\ l \in links
        /\ LET c == Backoff(th[t].backoff) IN
             th' = IF c.cnt <= 0
                   THEN [th EXCEPT ![t].backoff = LockWait0, ![t].pc = fail]
                   ELSE [th EXCEPT ![t].backoff = c]
        /\ UNCHANGED links
  /\ UNCHANGED <<fsVars, active, cwd, counters>>

\* __file_lock_put(root, id): unlink {root}/.forlock.{id}; when the link is
\* missing the unlink fails and the caller only logs it.  The caller then
\* goes on to label next.
LockPut(t, l, next) ==
  /\ links' = links \ {l}
  /\ th' = [th EXCEPT ![t].held = @ \ {l}, ![t].pc = next]

\* Entering __domain_dir_clean(arg, keepdir), returning to label next.  An
\* argument is an absolute path or a name relative to the cwd of the moment.
CallClean(t, arg, keep, next) ==
  th' = [th EXCEPT ![t].cleanArg = arg, ![t].cleanKeep = keep,
                   ![t].cleanNext = next, ![t].pc = "clean_enter"]
Resolve(arg) == IF arg.abs THEN arg.path ELSE cwd \o arg.path

ReplyOf == [ok |-> "SUCCESS", fail |-> "FAILURE",
            running |-> "INSTANCE_RUNNING", notrunning |-> "INSTANCE_NOT_RUNNING",
            waitosm |-> "WAITING_STARTING_OSM"]

FirstPc == [run |-> "run_check", stop |-> "stop_lock", reboot |-> "reboot_lock",
            destroy |-> "destroy_lock", query |-> "query",
            suspend |-> "unsupported", save |-> "unsupported"]

\* __send_response(wfd, ci, status), and the same build and send in
\* __domain_query: the reply reaches the controller, or lyxml_data_reply
\* or ly_packet_send fails, -1 is returned and the request is never
\* answered.
Send(r, status) ==
  \/ replies' = replies \cup {<<r, status>>} /\ UNCHANGED lost
  \/ ReplyFaults /\ lost' = lost \cup {r} /\ UNCHANGED replies

-----------------------------------------------------------------------------
(* ly_handler_instance_control, run by the node's single main loop.       *)
(***************************************************************************)
\* Mutant: the refused request is counted as a thread all the same.
AdmitBusy_Counted ==
  /\ nreq < MaxRequests /\ ~uncounted
  /\ RunRequests # {}
  /\ nreq' = nreq + 1
  /\ threadNum' = threadNum + 1
  /\ replies' = replies \cup {<<nreq + 1, "NODE_BUSY">>}
  /\ UNCHANGED <<fsVars, links, active, cwd, uncounted, th, lost>>

\* ly_handler_busy() || ly_node_busy(): a run request is refused with
\* LY_S_FINISHED_FAILURE_NODE_BUSY and no thread is started.  ly_node_busy
\* (node.c) reports the node's own resources and may say either.
AdmitBusy ==
  /\ nreq < MaxRequests /\ ~uncounted
  /\ RunRequests # {}
  /\ nreq' = nreq + 1
  /\ Send(nreq + 1, "NODE_BUSY")
  /\ UNCHANGED <<fsVars, links, active, cwd, threadNum, uncounted, th>>

\* A run request that ly_handler_busy lets through.
Admissible(r) == r.act = "run" => ~(threadNum > ThreadMax)

\* Mutant: a failed copy or pthread_create still counts a thread.
AdmitFail_Counted ==
  /\ nreq < MaxRequests /\ ~uncounted /\ ToolFaults
  /\ \E r \in Requests : Admissible(r)
  /\ nreq' = nreq + 1
  /\ threadNum' = threadNum + 1
  /\ lost' = lost \cup {nreq + 1}
  /\ UNCHANGED <<fsVars, links, active, cwd, uncounted, replies, th>>

\* luoyun_node_ctrl_instance_copy or pthread_create fails: return -1 with
\* no thread and no reply to the controller.
AdmitFail ==
  /\ nreq < MaxRequests /\ ~uncounted /\ ToolFaults
  /\ \E r \in Requests : Admissible(r)
  /\ nreq' = nreq + 1
  /\ lost' = lost \cup {nreq + 1}
  /\ UNCHANGED <<fsVars, links, active, cwd, threadNum, uncounted, replies, th>>

\* Otherwise the request is copied and a thread is created for it; it may
\* run, and even end, before the main loop goes on.
AdmitSpawn ==
  /\ nreq < MaxRequests /\ ~uncounted
  /\ \E r \in Requests, t \in Workers :
       /\ Admissible(r)
       /\ th[t].pc = "idle"
       /\ th' = [th EXCEPT ![t].pc = FirstPc[r.act], ![t].req = r,
                           ![t].rid = nreq + 1]
  /\ nreq' = nreq + 1
  /\ uncounted' = TRUE
  /\ UNCHANGED <<fsVars, links, active, cwd, threadNum, replies, lost>>

\* Only after pthread_create returns does the main loop increment
\* g_handler_thread_num under handler_mutex.
AdmitCount ==
  /\ uncounted
  /\ threadNum' = threadNum + 1
  /\ uncounted' = FALSE
  /\ UNCHANGED <<fsVars, links, active, cwd, nreq, replies, th, lost>>

\* done: free the request copy, decrement g_handler_thread_num under
\* handler_mutex and end the thread; its locals are gone (the model puts
\* them back to Idle).  Locks still held stay on disk.
ThreadExit(t) ==
  /\ threadNum' = threadNum - 1
  /\ th' = [th EXCEPT ![t] = [Idle EXCEPT !.held = th[t].held]]

\* The tail of __instance_control_func: the final reply from the return
\* value (0 success, negative failure, else the status itself), then done.
Finish(t) ==
  /\ th[t].pc = "finish"
  /\ Send(th[t].rid, ReplyOf[th[t].ret])
  /\ ThreadExit(t)
  /\ UNCHANGED <<fsVars, links, active, cwd, uncounted, nreq>>

\* __domain_query: no lock; reports started / stopped / absent and sends its
\* own reply, skipping the generic one (goto done).
Query(t) ==
  /\ th[t].pc = "query"
  /\ LET st == IF InsOf(t) \in active THEN "DOMAIN_START"
               ELSE IF InsDir(InsOf(t)) \in dirs THEN "DOMAIN_STOP"
               ELSE "DOMAIN_NOT_EXIST"
     IN Send(th[t].rid, st)
  /\ ThreadExit(t)
  /\ UNCHANGED <<fsVars, links, active, cwd, uncounted, nreq>>

\* __domain_suspend and __domain_save are not implemented: they return -1.
Unsupported(t) ==
  /\ th[t].pc = "unsupported"
  /\ Goto(t, "finish")
  /\ UNCHANGED <<fsVars, links, active, cwd, counters>>

-----------------------------------------------------------------------------
(* __domain_dir_clean(dir, keepdir).                                       *)
(***************************************************************************)
\* Save the cwd (open(".")) and chdir(dir); a missing dir returns -1.
CleanEnter(t) ==
  /\ th[t].pc = "clean_enter"
  /\ LET target == Resolve(th[t].cleanArg) IN
     \/ /\ target \in dirs
        /\ th' = [th EXCEPT ![t].cleanSaved = cwd, ![t].pc = "clean_unlink"]
        /\ cwd' = target
     \/ /\ target \notin dirs
        /\ th' = [th EXCEPT ![t].cres = "fail", ![t].pc = th[t].cleanNext]
        /\ UNCHANGED cwd
  /\ UNCHANGED <<fsVars, links, active, counters>>

\* Unlink each known instance file found in the cwd (relative names), then
\* fchdir back to the saved directory; with keepdir set that is all.
CleanUnlink(t) ==
  /\ th[t].pc = "clean_unlink"
  /\ files' = files \ ({cwd} \X InsFiles)
  /\ cwd' = th[t].cleanSaved
  /\ th' = IF th[t].cleanKeep
           THEN [th EXCEPT ![t].cres = "ok", ![t].pc = th[t].cleanNext]
           ELSE [th EXCEPT ![t].pc = "clean_rmdir"]
  /\ UNCHANGED <<dirs, corrupt, links, active, counters>>

\* rmdir(dir), resolved against the cwd restored just before; a failure
\* (directory not empty or gone) is logged and not treated as an error.
CleanRmdir(t) ==
  /\ th[t].pc = "clean_rmdir"
  /\ LET target == Resolve(th[t].cleanArg)
         empty  == /\ \A f \in files : f[1] # target
                   /\ \A d \in dirs : d = target \/ Parent(d) # target
     IN dirs' = IF target \in dirs /\ empty THEN dirs \ {target} ELSE dirs
  /\ th' = [th EXCEPT ![t].cres = "ok", ![t].pc = th[t].cleanNext]
  /\ UNCHANGED <<files, corrupt, links, active, cwd, counters>>

-----------------------------------------------------------------------------
(* __domain_stop, __domain_reboot and __domain_destroy.  All three lock   *)
(* {node_data_dir}/instances/.forlock.{ins_id}; that directory is          *)
(* config.ins_data_dir, the one __domain_run locks.                        *)
(***************************************************************************)
\* What a step of these three that touches no lock and no domain keeps.
ctlKeep == <<fsVars, links, active, cwd, counters>>

\* Lock timeout returns -1 without releasing anything.
StopLock(t) ==
  th[t].pc = "stop_lock" /\ LockGet(t, <<"ins", InsOf(t)>>, "stop_active", "finish")

\* Not active: LY_S_FINISHED_INSTANCE_NOT_RUNNING.  Otherwise ask for a
\* shutdown (libvirt_domain_stop); on failure its negative result stands.
StopActive(t) ==
  /\ th[t].pc = "stop_active"
  /\ \/ InsOf(t) \notin active /\ Return(t, "notrunning", "stop_unlock")
     \/ InsOf(t) \in active /\ ToolFaults /\ Return(t, "fail", "stop_unlock")
     \/ /\ InsOf(t) \in active
        /\ th' = [th EXCEPT ![t].ret = "ok", ![t].wait = StopWait,
                            ![t].pc = "stop_poll"]
  /\ UNCHANGED ctlKeep

\* Mutant: the poll loop forgets to count its rounds down.
StopPoll_NoCountdown(t) ==
  /\ th[t].pc = "stop_poll"
  /\ \/ /\ th[t].wait > 0
        /\ IF InsOf(t) \notin active THEN Return(t, "ok", "stop_unlock")
                                     ELSE UNCHANGED th
        /\ UNCHANGED active
     \/ /\ th[t].wait = 0
        /\ active' = active \ {InsOf(t)}
        /\ Return(t, "ok", "stop_unlock")
  /\ UNCHANGED <<fsVars, links, cwd, counters>>

\* Poll libvirt_domain_active once a second for LY_NODE_STOP_INSTANCE_WAIT
\* rounds; then force it off (libvirt_domain_poweroff).
StopPoll(t) ==
  /\ th[t].pc = "stop_poll"
  /\ \/ /\ th[t].wait > 0
        /\ th' = IF InsOf(t) \notin active
                 THEN [th EXCEPT ![t].wait = @ - 1, ![t].ret = "ok",
                                 ![t].pc = "stop_unlock"]
                 ELSE [th EXCEPT ![t].wait = @ - 1]
        /\ UNCHANGED active
     \/ /\ th[t].wait = 0
        /\ active' = active \ {InsOf(t)}
        /\ Return(t, "ok", "stop_unlock")
     \/ /\ th[t].wait = 0 /\ ToolFaults
        /\ Return(t, "fail", "stop_unlock")
        /\ UNCHANGED active
  /\ UNCHANGED <<fsVars, links, cwd, counters>>

\* Release the lock (a failure is only logged); on success the resource
\* report, which changes no state here, is sent.
StopUnlock(t) ==
  /\ th[t].pc = "stop_unlock"
  /\ LockPut(t, <<"ins", InsOf(t)>>, "finish")
  /\ UNCHANGED <<fsVars, active, cwd, counters>>

RebootLock(t) ==
  th[t].pc = "reboot_lock" /\ LockGet(t, <<"ins", InsOf(t)>>, "reboot_active", "finish")

\* Not active: not running.  Otherwise libvirt_domain_reboot, then a fixed
\* sleep; the domain stays active through a reboot.
RebootActive(t) ==
  /\ th[t].pc = "reboot_active"
  /\ \/ InsOf(t) \notin active /\ Return(t, "notrunning", "reboot_unlock")
     \/ InsOf(t) \in active /\ ToolFaults /\ Return(t, "fail", "reboot_unlock")
     \/ InsOf(t) \in active /\ Return(t, "ok", "reboot_unlock")
  /\ UNCHANGED ctlKeep

RebootUnlock(t) ==
  /\ th[t].pc = "reboot_unlock"
  /\ LockPut(t, <<"ins", InsOf(t)>>, "finish")
  /\ UNCHANGED <<fsVars, active, cwd, counters>>

\* Mutant: destroy goes ahead without taking the instance lock.
DestroyLock_Skip(t) ==
  th[t].pc = "destroy_lock" /\ Goto(t, "destroy_active") /\ UNCHANGED ctlKeep

DestroyLock(t) ==
  th[t].pc = "destroy_lock" /\ LockGet(t, <<"ins", InsOf(t)>>, "destroy_active", "finish")

\* Mutant: destroy without asking libvirt whether the domain is active.
DestroyActive_NoActiveCheck(t) ==
  /\ th[t].pc = "destroy_active"
  /\ \/ InsDir(InsOf(t)) \notin dirs /\ Return(t, "ok", "destroy_unlock")
     \/ /\ InsDir(InsOf(t)) \in dirs
        /\ CallClean(t, Absolute(InsDir(InsOf(t))), FALSE, "destroy_cleaned")
  /\ UNCHANGED ctlKeep

\* Active: refuse with LY_S_FINISHED_INSTANCE_RUNNING.  Directory absent:
\* return 0.  Otherwise clean the absolute instance path, keepdir = 0.
DestroyActive(t) ==
  /\ th[t].pc = "destroy_active"
  /\ LET i == InsOf(t) IN
     \/ i \in active /\ Return(t, "running", "destroy_unlock")
     \/ i \notin active /\ InsDir(i) \notin dirs /\ Return(t, "ok", "destroy_unlock")
     \/ /\ i \notin active /\ InsDir(i) \in dirs
        /\ CallClean(t, Absolute(InsDir(i)), FALSE, "destroy_cleaned")
  /\ UNCHANGED ctlKeep

\* ret = __domain_dir_clean(...); the resource report follows regardless.
DestroyCleaned(t) ==
  /\ th[t].pc = "destroy_cleaned"
  /\ Return(t, th[t].cres, "destroy_unlock")
  /\ UNCHANGED ctlKeep

\* Mutant: the lock is not put back after a destroy.
DestroyUnlock_NoPut(t) ==
  th[t].pc = "destroy_unlock" /\ Goto(t, "finish") /\ UNCHANGED ctlKeep

DestroyUnlock(t) ==
  /\ th[t].pc = "destroy_unlock"
  /\ LockPut(t, <<"ins", InsOf(t)>>, "finish")
  /\ UNCHANGED <<fsVars, active, cwd, counters>>

-----------------------------------------------------------------------------
(* __domain_run.  Labels follow the code; run_insclean, run_restore and   *)
(* run_unlock are its out_insclean, out_chdir and out_unlock.              *)
(***************************************************************************)
\* __domain_run_data_check fails: return -1 before any lock.
RunCheck(t) ==
  /\ th[t].pc = "run_check"
  /\ Goto(t, IF th[t].req.valid THEN "run_lock" ELSE "finish")
  /\ UNCHANGED ctlKeep

RunLock(t) ==
  th[t].pc = "run_lock" /\ LockGet(t, <<"ins", InsOf(t)>>, "run_active", "finish")

\* Already active: LY_S_FINISHED_INSTANCE_RUNNING.  Otherwise save the cwd
\* (open(".")) and chdir(ins_data_dir).
RunActive(t) ==
  /\ th[t].pc = "run_active"
  /\ \/ /\ InsOf(t) \in active
        /\ Return(t, "running", "run_unlock")
        /\ UNCHANGED cwd
     \/ /\ InsOf(t) \notin active
        /\ th' = [th EXCEPT ![t].olddir = cwd, ![t].pc = "run_need_app",
                            ![t].hadDir = InsDir(InsOf(t)) \in dirs]
        /\ cwd' = InsRoot
  /\ UNCHANGED <<fsVars, links, active, counters>>

\* ins_status == DOMAIN_S_NEW || access(ins_idstr): fetch the appliance,
\* working in app_data_dir.
RunNeedApp(t) ==
  /\ th[t].pc = "run_need_app"
  /\ \/ /\ th[t].req.new \/ Rel(InsOf(t)) \notin dirs
        /\ cwd' = AppRoot
        /\ Goto(t, "run_app_lock")
     \/ /\ ~th[t].req.new /\ Rel(InsOf(t)) \in dirs
        /\ Goto(t, "run_prep")
        /\ UNCHANGED cwd
  /\ UNCHANGED <<fsVars, links, active, counters>>

RunAppLock(t) ==
  th[t].pc = "run_app_lock" /\ LockGet(t, <<"app", AppOf(t)>>, "run_app_mkdir", "run_restore")

\* mkdir(app_idstr) if absent; on failure release the appliance lock.
RunAppMkdir(t) ==
  /\ th[t].pc = "run_app_mkdir"
  /\ LET d == Rel(AppOf(t)) IN
     \/ d \in dirs /\ Goto(t, "run_app_cd") /\ UNCHANGED <<dirs, links>>
     \/ /\ d \notin dirs /\ CwdExists
        /\ dirs' = dirs \cup {d}
        /\ Goto(t, "run_app_cd")
        /\ UNCHANGED links
     \/ /\ d \notin dirs /\ ~CwdExists
        /\ LockPut(t, <<"app", AppOf(t)>>, "run_restore")
        /\ UNCHANGED dirs
  /\ UNCHANGED <<files, corrupt, active, cwd, counters>>

\* chdir(app_idstr); on failure release the appliance lock.
RunAppCd(t) ==
  /\ th[t].pc = "run_app_cd"
  /\ LET d == Rel(AppOf(t)) IN
     \/ d \in dirs /\ cwd' = d /\ Goto(t, "run_app_access") /\ UNCHANGED links
     \/ d \notin dirs /\ LockPut(t, <<"app", AppOf(t)>>, "run_restore") /\ UNCHANGED cwd
  /\ UNCHANGED <<fsVars, active, counters>>

\* access(app_name): is the appliance here already?
RunAppAccess(t) ==
  /\ th[t].pc = "run_app_access"
  /\ Goto(t, IF <<cwd, AppImg>> \in files THEN "run_app_cksum" ELSE "run_app_download")
  /\ UNCHANGED ctlKeep

\* The appliance image in the cwd is there and passes lyutil_checksum.
AppGood == <<cwd, AppImg>> \in files /\ cwd \notin corrupt
\* unlink(app_name) after a failed download or checksum.
DropApp ==
  /\ files' = files \ {<<cwd, AppImg>>}
  /\ corrupt' = corrupt \ {cwd}

\* lyutil_checksum(app_name): a mismatch (or a vanished file) removes it and
\* downloads it again.
RunAppCksum(t) ==
  /\ th[t].pc = "run_app_cksum"
  /\ \/ AppGood /\ Goto(t, "run_app_unlock") /\ UNCHANGED <<files, corrupt>>
     \/ ~AppGood /\ DropApp /\ Goto(t, "run_app_download")
  /\ UNCHANGED <<dirs, links, active, cwd, counters>>

\* A completed download, whose content may still be bad.
Downloaded ==
  /\ CwdExists
  /\ \E bad \in IF ToolFaults THEN BOOLEAN ELSE {FALSE} :
       corrupt' = IF bad THEN corrupt \cup {cwd} ELSE corrupt \ {cwd}
  /\ files' = files \cup {<<cwd, AppImg>>}

\* Mutant: a failed download returns without __file_lock_put.
RunAppDownload_KeepLock(t) ==
  /\ th[t].pc = "run_app_download"
  /\ \/ Downloaded /\ Goto(t, "run_app_verify")
     \/ (~CwdExists \/ ToolFaults) /\ DropApp /\ Goto(t, "run_restore")
  /\ UNCHANGED <<dirs, links, active, cwd, counters>>

\* lyutil_download(app_uri, app_name) into the cwd.  A failed download
\* unlinks the partial file and releases the appliance lock.
RunAppDownload(t) ==
  /\ th[t].pc = "run_app_download"
  /\ \/ Downloaded /\ Goto(t, "run_app_verify") /\ UNCHANGED links
     \/ /\ ~CwdExists \/ ToolFaults
        /\ DropApp
        /\ LockPut(t, <<"app", AppOf(t)>>, "run_restore")
  /\ UNCHANGED <<dirs, active, cwd, counters>>

\* lyutil_checksum after the download; a mismatch unlinks the file,
\* releases the appliance lock and fails the run.
RunAppVerify(t) ==
  /\ th[t].pc = "run_app_verify"
  /\ \/ AppGood /\ Goto(t, "run_app_unlock") /\ UNCHANGED <<files, corrupt, links>>
     \/ ~AppGood /\ DropApp /\ LockPut(t, <<"app", AppOf(t)>>, "run_restore")
  /\ UNCHANGED <<dirs, active, cwd, counters>>

\* Mutant: the appliance lock is put but the cwd stays in app_data_dir.
RunAppUnlock_NoChdir(t) ==
  /\ th[t].pc = "run_app_unlock"
  /\ IF <<"app", AppOf(t)>> \in links
     THEN LockPut(t, <<"app", AppOf(t)>>, "run_prep")
     ELSE Goto(t, "run_restore") /\ UNCHANGED links
  /\ UNCHANGED <<fsVars, active, cwd, counters>>

\* Release the appliance lock (a missing link fails the run) and
\* chdir(ins_data_dir) again.
RunAppUnlock(t) ==
  /\ th[t].pc = "run_app_unlock"
  /\ IF <<"app", AppOf(t)>> \in links
     THEN LockPut(t, <<"app", AppOf(t)>>, "run_prep") /\ cwd' = InsRoot
     ELSE Goto(t, "run_restore") /\ UNCHANGED <<links, cwd>>
  /\ UNCHANGED <<fsVars, active, counters>>

\* A DOMAIN_S_NEW request on an existing directory cleans it first,
\* keeping the directory.
RunPrep(t) ==
  /\ th[t].pc = "run_prep"
  /\ IF th[t].req.new /\ Rel(InsOf(t)) \in dirs
     THEN CallClean(t, Relative(InsOf(t)), TRUE, "run_prep_cleaned")
     ELSE Goto(t, "run_mkdir")
  /\ UNCHANGED ctlKeep

\* __domain_dir_clean(ins_idstr, 1) == -1 goes to out_chdir.
RunPrepCleaned(t) ==
  /\ th[t].pc = "run_prep_cleaned"
  /\ Goto(t, IF th[t].cres = "fail" THEN "run_restore" ELSE "run_mkdir")
  /\ UNCHANGED ctlKeep

\* mkdir(ins_idstr) when access() says it is absent.
RunMkdir(t) ==
  /\ th[t].pc = "run_mkdir"
  /\ LET d == Rel(InsOf(t)) IN
     \/ d \in dirs /\ Goto(t, "run_cd_ins") /\ UNCHANGED dirs
     \/ d \notin dirs /\ CwdExists /\ dirs' = dirs \cup {d} /\ Goto(t, "run_cd_ins")
     \/ d \notin dirs /\ ~CwdExists /\ Goto(t, "run_restore") /\ UNCHANGED dirs
  /\ UNCHANGED <<files, corrupt, links, active, cwd, counters>>

\* chdir(ins_idstr): from here on the run works in the instance directory.
RunCdIns(t) ==
  /\ th[t].pc = "run_cd_ins"
  /\ LET d == Rel(InsOf(t)) IN
     \/ d \in dirs /\ cwd' = d /\ Goto(t, "run_disk_check")
     \/ d \notin dirs /\ Goto(t, "run_restore") /\ UNCHANGED cwd
  /\ UNCHANGED <<fsVars, links, active, counters>>

\* Mutant: the disk file is created without setting ins_create_new.
RunDiskCheck_NoCreateNew(t) ==
  /\ th[t].pc = "run_disk_check"
  /\ \/ <<cwd, "disk">> \in files /\ Goto(t, "run_offset") /\ UNCHANGED files
     \/ /\ <<cwd, "disk">> \notin files /\ CwdExists
        /\ files' = files \cup {<<cwd, "disk">>}
        /\ Goto(t, "run_extract")
     \/ <<cwd, "disk">> \notin files /\ ~CwdExists /\ Goto(t, "run_insclean") /\ UNCHANGED files
  /\ UNCHANGED <<dirs, corrupt, links, active, cwd, counters>>

\* No disk file yet: ins_create_new = 1 and creat() an empty one.
RunDiskCheck(t) ==
  /\ th[t].pc = "run_disk_check"
  /\ \/ <<cwd, "disk">> \in files /\ Goto(t, "run_offset") /\ UNCHANGED files
     \/ /\ <<cwd, "disk">> \notin files
        /\ files' = IF CwdExists THEN files \cup {<<cwd, "disk">>} ELSE files
        /\ th' = [th EXCEPT ![t].createNew = TRUE,
                            ![t].pc = IF CwdExists THEN "run_extract" ELSE "run_insclean"]
  /\ UNCHANGED <<dirs, corrupt, links, active, cwd, counters>>

\* lyutil_decompress_gz({app_data_dir}/{app_id}/{app_name}, "disk") reads the
\* appliance by absolute path, without its lock.  A failure (bad archive,
\* no space) unlinks the appliance file itself.
RunExtract(t) ==
  /\ th[t].pc = "run_extract"
  /\ LET src == <<AppDir(AppOf(t)), AppImg>>
         ok  == src \in files /\ AppDir(AppOf(t)) \notin corrupt /\ CwdExists
     IN \/ /\ ok
           /\ files' = files \cup {<<cwd, "disk">>}
           /\ Goto(t, "run_offset")
           /\ UNCHANGED corrupt
        \/ /\ ~ok \/ ToolFaults
           /\ files' = files \ {src}
           /\ corrupt' = corrupt \ {AppDir(AppOf(t))}
           /\ Goto(t, "run_insclean")
  /\ UNCHANGED <<dirs, links, active, cwd, counters>>

\* Every step from the disk probe to the domain start keeps these.
runTail == <<dirs, corrupt, links, cwd, counters>>

\* access("disk") then lyutil_get_disk_offset("disk"): a missing or
\* unreadable disk fails.  Offset 0 without kernel and initrd next to the
\* disk means they must be copied out of the image.
RunOffset(t) ==
  /\ th[t].pc = "run_offset"
  /\ LET boot == {<<cwd, "kernel">>, <<cwd, "initrd">>} \subseteq files IN
     \/ (<<cwd, "disk">> \notin files \/ ToolFaults) /\ Goto(t, "run_insclean")
     \/ /\ <<cwd, "disk">> \in files /\ ~boot
        /\ th' = [th EXCEPT ![t].offset = 0, ![t].pc = "run_mount"]
     \/ /\ <<cwd, "disk">> \in files
        /\ \E o \in {0, 1} : /\ o = 0 => boot
                             /\ th' = [th EXCEPT ![t].offset = o, ![t].pc = "run_conf"]
  /\ UNCHANGED <<runTail, files, active>>

\* mkdtemp and "mount disk <tmp> -o loop,offset=..." (relative to the cwd
\* the shell inherits); a failure removes the mount point.
RunMount(t) ==
  /\ th[t].pc = "run_mount"
  /\ \/ <<cwd, "disk">> \in files /\ Goto(t, "run_cp_kernel")
     \/ (<<cwd, "disk">> \notin files \/ ToolFaults) /\ Goto(t, "run_insclean")
  /\ UNCHANGED <<runTail, files, active>>

\* "cp <tmp>/$(readlink <tmp>/kernel) kernel" and the same for initrd.
CopyOut(t, f, next) ==
  \/ CwdExists /\ files' = files \cup {<<cwd, f>>} /\ Goto(t, next)
  \/ (~CwdExists \/ ToolFaults) /\ Goto(t, "run_out_umount") /\ UNCHANGED files

RunCpKernel(t) ==
  th[t].pc = "run_cp_kernel" /\ CopyOut(t, "kernel", "run_cp_initrd") /\ UNCHANGED <<runTail, active>>

RunCpInitrd(t) ==
  th[t].pc = "run_cp_initrd" /\ CopyOut(t, "initrd", "run_umount") /\ UNCHANGED <<runTail, active>>

\* "umount <tmp>" and remove the mount point.
RunUmount(t) ==
  /\ th[t].pc = "run_umount"
  /\ Goto(t, "run_conf") \/ (ToolFaults /\ Goto(t, "run_out_umount"))
  /\ UNCHANGED <<runTail, files, active>>

\* out_umount: a best-effort umount, then on to out_insclean.
RunOutUmount(t) ==
  th[t].pc = "run_out_umount" /\ Goto(t, "run_insclean") /\ UNCHANGED <<runTail, files, active>>

\* creat, fprintf and truncate of the config file, all relative.  A failed
\* fdopen, fprintf or truncate leaves the created file behind.
RunConf(t) ==
  /\ th[t].pc = "run_conf"
  /\ \/ CwdExists /\ files' = files \cup {<<cwd, "conf">>} /\ Goto(t, "run_xml")
     \/ CwdExists /\ ToolFaults /\ files' = files \cup {<<cwd, "conf">>}
        /\ Goto(t, "run_insclean")
     \/ ~CwdExists /\ Goto(t, "run_insclean") /\ UNCHANGED files
  /\ UNCHANGED <<runTail, active>>

\* __domain_xml(ci, hypervisor, fullvirt = offset != 0).  Its JSON part
\* first provisions {ins_data_dir}/{id}/storage1 (absolute path): created
\* for a disk entry, unlinked for a storage array without one.  Then a
\* rejected document, a storage file that cannot be created, or Xen with
\* full virtualisation (len = -2, line 575) fail the build.  The document
\* is one of three kinds here; what a rejected document does to storage1
\* on its way is modelled by DescriptorBuilder.
RunXml(t) ==
  /\ th[t].pc = "run_xml"
  /\ LET i  == InsOf(t)
         j  == th[t].req.json
         sp == <<InsDir(i), "storage1">>
         err == \/ j = "bad"
                \/ j = "disk" /\ InsDir(i) \notin dirs
                \/ Hypervisor = "xen" /\ th[t].offset # 0
     IN /\ files' = CASE j = "disk" /\ InsDir(i) \in dirs -> files \cup {sp}
                      [] j = "nodisk"                     -> files \ {sp}
                      [] OTHER                            -> files
        /\ Goto(t, IF err THEN "run_insclean" ELSE "run_start")
  /\ UNCHANGED <<runTail, active>>

\* libvirt_domain_create(xml): the domain boots from the absolute disk
\* path.  Success returns LY_S_WAITING_STARTING_OSM through out_chdir.
RunStart(t) ==
  /\ th[t].pc = "run_start"
  /\ \/ /\ <<InsDir(InsOf(t)), "disk">> \in files
        /\ active' = active \cup {InsOf(t)}
        /\ Return(t, "waitosm", "run_restore")
     \/ /\ <<InsDir(InsOf(t)), "disk">> \notin files \/ ToolFaults
        /\ Return(t, "fail", "run_insclean")
        /\ UNCHANGED active
  /\ UNCHANGED <<runTail, files>>

\* out_insclean: chdir(".."); if that fails, goto out, past out_chdir and
\* out_unlock.  A failed run that created the disk file removes the
\* instance directory, relative to the cwd of the moment.
RunInsclean(t) ==
  /\ th[t].pc = "run_insclean"
  /\ \/ ChdirUpFails /\ Goto(t, "finish") /\ UNCHANGED cwd
     \/ /\ cwd' = Parent(cwd)
        /\ IF th[t].ret = "fail" /\ th[t].createNew
           THEN CallClean(t, Relative(InsOf(t)), FALSE, "run_restore")
           ELSE Goto(t, "run_restore")
  /\ UNCHANGED <<fsVars, links, active, counters>>

\* out_chdir: fchdir(olddir).
RunRestore(t) ==
  /\ th[t].pc = "run_restore"
  /\ cwd' = th[t].olddir
  /\ Goto(t, "run_unlock")
  /\ UNCHANGED <<fsVars, links, active, counters>>

\* out_unlock: release the instance lock.
RunUnlock(t) ==
  /\ th[t].pc = "run_unlock"
  /\ LockPut(t, <<"ins", InsOf(t)>>, "finish")
  /\ UNCHANGED <<fsVars, active, cwd, counters>>

-----------------------------------------------------------------------------
(* The hypervisor and the specification.                                   *)
(***************************************************************************)
\* A guest may power itself off at any time; libvirt then reports the
\* domain inactive.
GuestShutdown(i) ==
  /\ i \in active
  /\ active' = active \ {i}
  /\ UNCHANGED <<fsVars, links, cwd, counters, th>>

\* The node daemon dies at any point and is started again.  Its threads
\* and their locals are gone; the new process starts with the static
\* g_handler_thread_num = 0 and in its own working directory.  The
\* directories, the files and the .forlock links stay on disk and the
\* domains keep running: nothing removes a link left by the old process.
Restart ==
  /\ Crashes
  /\ \E t \in Workers : th[t].pc # "idle"
  /\ threadNum' = 0 /\ uncounted' = FALSE
  /\ cwd' = Home
  /\ th' = [t \in Workers |-> Idle]
  /\ lost' = lost \cup {th[t].rid : t \in {u \in Workers : th[u].pc # "idle"}}
  /\ UNCHANGED <<fsVars, links, active, nreq, replies>>

\* The controller has sent all its requests and every thread has ended.
Quiesced ==
  /\ nreq = MaxRequests /\ ~uncounted
  /\ \A t \in Workers : th[t].pc = "idle"
  /\ UNCHANGED vars

Labels ==
  {"idle", "finish", "query", "unsupported",
   "clean_enter", "clean_unlink", "clean_rmdir",
   "stop_lock", "stop_active", "stop_poll", "stop_unlock",
   "reboot_lock", "reboot_active", "reboot_unlock",
   "destroy_lock", "destroy_active", "destroy_cleaned", "destroy_unlock",
   "run_check", "run_lock", "run_active", "run_need_app", "run_app_lock",
   "run_app_mkdir", "run_app_cd", "run_app_access", "run_app_cksum",
   "run_app_download", "run_app_verify", "run_app_unlock", "run_prep",
   "run_prep_cleaned", "run_mkdir", "run_cd_ins", "run_disk_check",
   "run_extract", "run_offset", "run_mount", "run_cp_kernel",
   "run_cp_initrd", "run_umount", "run_out_umount", "run_conf", "run_xml",
   "run_start", "run_insclean", "run_restore", "run_unlock"}

\* The state a node can be found in when the daemon starts: each instance
\* absent, stopped (disk and config on disk) or running; each appliance
\* absent, present, or present with content that fails its checksum.
Init ==
  /\ \E ins \in [InstanceIds -> InitIns], app \in [ApplianceIds -> InitApps] :
       LET I == {i \in InstanceIds : ins[i] # "absent"}
           A == {a \in ApplianceIds : app[a] # "absent"}
       IN /\ dirs = {Home, InsRoot, AppRoot} \cup {InsDir(i) : i \in I}
                    \cup {AppDir(a) : a \in A}
          /\ files = ({InsDir(i) : i \in I} \X {"disk", "conf"})
                     \cup ({AppDir(a) : a \in A} \X {AppImg})
          /\ corrupt = {AppDir(a) : a \in {b \in A : app[b] = "corrupt"}}
          /\ active = {i \in InstanceIds : ins[i] = "running"}
  /\ links = {}
  /\ cwd = Home
  /\ threadNum = 0 /\ uncounted = FALSE /\ nreq = 0 /\ replies = {} /\ lost = {}
  /\ th = [t \in Workers |-> Idle]

\* One step of the thread in slot t.
Step(t) ==
  \/ Finish(t) \/ Query(t) \/ Unsupported(t)
  \/ CleanEnter(t) \/ CleanUnlink(t) \/ CleanRmdir(t)
  \/ StopLock(t) \/ StopActive(t) \/ StopPoll(t) \/ StopUnlock(t)
  \/ RebootLock(t) \/ RebootActive(t) \/ RebootUnlock(t)
  \/ DestroyLock(t) \/ DestroyActive(t) \/ DestroyCleaned(t) \/ DestroyUnlock(t)
  \/ RunCheck(t) \/ RunLock(t) \/ RunActive(t) \/ RunNeedApp(t)
  \/ RunAppLock(t) \/ RunAppMkdir(t) \/ RunAppCd(t) \/ RunAppAccess(t)
  \/ RunAppCksum(t) \/ RunAppDownload(t) \/ RunAppVerify(t) \/ RunAppUnlock(t)
  \/ RunPrep(t) \/ RunPrepCleaned(t) \/ RunMkdir(t) \/ RunCdIns(t)
  \/ RunDiskCheck(t) \/ RunExtract(t) \/ RunOffset(t) \/ RunMount(t)
  \/ RunCpKernel(t) \/ RunCpInitrd(t) \/ RunUmount(t) \/ RunOutUmount(t)
  \/ RunConf(t) \/ RunXml(t) \/ RunStart(t) \/ RunInsclean(t)
  \/ RunRestore(t) \/ RunUnlock(t)

Next ==
  \/ AdmitBusy
  \/ AdmitSpawn
  \/ AdmitCount
  \/ AdmitFail
  \/ \E t \in Workers : Step(t)
  \/ \E i \in InstanceIds : GuestShutdown(i)
  \/ Restart
  \/ Quiesced

\* Every thread is a pthread the kernel keeps scheduling, so a thread that
\* can take a step eventually does, and so does the main loop once
\* pthread_create has returned; the controller and the guests are not
\* obliged to do anything.
Spec ==
  /\ Init /\ [][Next]_vars
  /\ \A t \in Workers : WF_vars(Step(t))
  /\ WF_vars(AdmitCount)

-----------------------------------------------------------------------------
(* Properties.                                                             *)
(***************************************************************************)
Paths == {Home, InsRoot, AppRoot} \cup {InsDir(i) : i \in Ids}
         \cup {AppDir(a) : a \in Ids}

\* Every variable holds a value of its intended kind.
TypeOK ==
  /\ dirs \subseteq Seq(Ids \cup {"ins", "app"})
  /\ files \subseteq Seq(Ids \cup {"ins", "app"}) \X FileNames
  /\ corrupt \subseteq Seq(Ids \cup {"ins", "app"})
  /\ cwd \in Seq(Ids \cup {"ins", "app"})
  /\ links \subseteq LockNames
  /\ active \subseteq InstanceIds
  /\ threadNum \in -1..Cardinality(Workers) /\ uncounted \in BOOLEAN
  /\ nreq \in 0..MaxRequests
  /\ replies \subseteq (1..MaxRequests) \X Statuses
  /\ lost \subseteq 1..MaxRequests
  /\ \A t \in Workers :
       /\ th[t].pc \in Labels /\ th[t].req \in Requests \cup {NoReq}
       /\ th[t].ret \in Rets /\ th[t].held \subseteq LockNames
       /\ th[t].backoff \in [warn : 0..WarnEvery, cnt : 1..WarnCycles] /\ th[t].wait \in 0..StopWait
       /\ th[t].cres \in {"ok", "fail"}

\* The lock links on disk are exactly the locks the running threads hold,
\* no lock is held by two threads, and a thread that has ended holds none:
\* every path out of __domain_run, _stop, _reboot and _destroy, the error
\* paths included, releases what it took, and nothing releases another
\* thread's lock.
LockDiscipline ==
  /\ links = UNION {th[t].held : t \in Workers}
  /\ \A t, u \in Workers : t # u => th[t].held \cap th[u].held = {}
  /\ \A t \in Workers : th[t].pc = "idle" => th[t].held = {}

\* A domain libvirt reports active has its disk file in its instance
\* directory: no destroy, clean-up or re-provisioning removes the disk of
\* a running instance.
ActiveHasDisk ==
  \A i \in active : <<InsDir(i), "disk">> \in files

\* The on-disk layout of spec section 6 is preserved: instance files only
\* in {ins_data_dir}/{id}, appliance images only in {app_data_dir}/{id},
\* and no directory anywhere else.  A relative name resolved against the
\* wrong working directory breaks it.
LayoutKept ==
  /\ dirs \subseteq Paths
  /\ \A f \in files :
       /\ f[2] \in InsFiles => \E i \in InstanceIds : f[1] = InsDir(i)
       /\ f[2] = AppImg => \E a \in ApplianceIds : f[1] = AppDir(a)

\* A run that fails after finding no instance directory leaves none behind
\* (out_insclean removes what this run created).  The one path of the code
\* that breaks it, chdir("..") failing at out_insclean, is switched off
\* where this is checked and reported by FailedRunUndone.
FreshRunCleanup ==
  \A t \in Workers :
    (th[t].pc = "finish" /\ th[t].req.act = "run" /\ th[t].ret = "fail" /\ ~th[t].hadDir)
      => InsDir(InsOf(t)) \notin dirs

\* Spec 4.1 and 4.3 together: a run that failed has undone its own work
\* by the time it ends: the link .forlock.{ins_id} it took is gone, and the
\* instance directory it created because it found none is gone too.
\* out_insclean, out_chdir and out_unlock are the code that undoes it.
FailedRunUndone ==
  \A t \in Workers :
    (th[t].pc = "finish" /\ th[t].req.act = "run" /\ th[t].ret = "fail")
      => /\ <<"ins", InsOf(t)>> \notin links
         /\ ~th[t].hadDir => InsDir(InsOf(t)) \notin dirs

\* Spec 4.3, cleanup scope: a failure against a pre-existing instance
\* directory never removes the directory.
PreexistingDirKept ==
  \A t \in Workers :
    (th[t].pc = "finish" /\ th[t].req.act = "run" /\ th[t].ret = "fail" /\ th[t].hadDir)
      => InsDir(InsOf(t)) \in dirs

\* Spec 3, ApplianceDirectory: the content of an appliance directory only
\* changes while some thread holds that appliance's lock.
AppDirChangesUnderLock ==
  [][\A a \in ApplianceIds :
       ({f \in files : f[1] = AppDir(a)} # {f \in files' : f[1] = AppDir(a)})
         => \E t \in Workers : <<"app", a>> \in th[t].held]_vars

\* Spec 8, AdmissionGate: with ThreadMax run requests in flight, the next
\* run request is refused, so no more than ThreadMax runs are in flight.
RunsWithinCeiling ==
  Cardinality({t \in Workers : th[t].req.act = "run"}) <= ThreadMax

\* g_handler_thread_num counts the threads in flight whenever the main loop
\* can read it in ly_handler_busy: the increment after pthread_create may
\* come after the new thread has already decremented it (a transient -1),
\* a failed copy or pthread_create must count nothing, and a restart
\* starts again from 0 with no thread.
CounterTracksThreads ==
  ~uncounted => threadNum = Cardinality({t \in Workers : th[t].pc # "idle"})

\* The labels at which a thread waits in __file_lock_get.
LockLabels == {"run_lock", "run_app_lock", "stop_lock", "reboot_lock", "destroy_lock"}

\* Failed link() calls of the current wait, read off the loop counters.
Attempts(t) ==
  (WarnCycles - th[t].backoff.cnt) * WarnEvery + WarnEvery - th[t].backoff.warn

\* Spec 4.1, PathLock: after each WarnEvery (30) consecutive failed
\* attempts one warning, and the wait fails at the WarnCycles-th (20th)
\* warning: a thread gives up a lock only on its failed attempt number
\* WarnEvery * WarnCycles + 1 (601, about 600 seconds of sleep(1)), never
\* earlier or later.  The order of the time_warn test, the sleep, the
\* decrement and the time_warn_cnt test in the loop decides the count.
LockWaitAsSpecified ==
  [][\A t \in Workers :
       (/\ th[t].pc \in LockLabels
        /\ th'[t].pc \notin LockLabels \cup {"idle"}
        /\ th'[t].held = th[t].held)
         => Attempts(t) + 1 = WarnEvery * WarnCycles + 1]_vars

\* Every request the controller sends is answered: a refusal, the final
\* reply of its thread, or the query reply, unless no thread could be
\* created for it, a restart of the daemon ended its thread first, or
\* the reply itself failed.  Lock waits and the stop poll are bounded, so
\* no thread runs forever, and a link a dead daemon left behind only
\* makes later requests time out and fail.
EveryRequestAnswered ==
  \A r \in 1..MaxRequests :
    (r <= nreq) ~> (r \in lost \/ \E s \in Statuses : <<r, s>> \in replies)

-----------------------------------------------------------------------------
(* Refinement: Handler implements InstanceLifecycle.  An instance is      *)
(* running while libvirt reports its domain active, stopped while its     *)
(* disk file exists, absent otherwise; the owner of its lock is the       *)
(* thread whose held set has the link .forlock.{ins_id}.                  *)
(***************************************************************************)
LifeStatus ==
  [i \in InstanceIds |->
     IF i \in active THEN "running"
     ELSE IF <<InsDir(i), "disk">> \in files THEN "stopped"
     ELSE "absent"]

LifeOwner ==
  [i \in InstanceIds |->
     IF \E t \in Workers : <<"ins", i>> \in th[t].held
     THEN CHOOSE t \in Workers : <<"ins", i>> \in th[t].held
     ELSE "none"]

Life == INSTANCE InstanceLifecycle
          WITH Instances <- InstanceIds, Threads <- Workers, NoOwner <- "none",
               status <- LifeStatus, owner <- LifeOwner

\* Every step of the handler is a step of InstanceLifecycle: an instance's
\* disk is created or removed and its domain started or forced off only
\* while some thread holds its lock (__domain_run, __domain_stop,
\* __domain_destroy), one state at a time, and only
\* __file_lock_get/__file_lock_put change who holds a lock.  The mapping
\* cannot tell which thread took a step; with one worker that is the
\* holder, and MovedOnlyByHolder checks it for several.
LifecycleRefined == Life!Spec

\* The thread that took a step is the one whose own record changed: every
\* thread action changes th[t], GuestShutdown changes no th, and Restart,
\* which changes all of them, moves no instance.
\* With several threads: whenever a step of thread t creates or removes an
\* instance's disk or starts or powers off its domain, t held that
\* instance's lock .forlock.{ins_id} before the step.  A thread that moves
\* an instance whose lock another thread holds violates it, which the
\* mapping of LifecycleRefined lets pass.
MovedOnlyByHolder ==
  [][\A i \in InstanceIds, t \in Workers :
       (LifeStatus'[i] # LifeStatus[i] /\ th'[t] # th[t])
         => <<"ins", i>> \in th[t].held]_vars

====

------------------------- MODULE DescriptorBuilder -------------------------
(***************************************************************************)
(* __domain_xml and __domain_xml_json (handler.c): the domain descriptor  *)
(* of one instance.  __domain_xml renders the OS and config disk          *)
(* fragments into disk[1024]; when the request carries an osm_json        *)
(* document, __domain_xml_json walks its members: "network" fills         *)
(* net[1024] with one interface fragment per entry, "storage" appends a   *)
(* fragment for the entry it takes for the extra disk and creates,       *)
(* resizes or deletes the backing file {ins_data_dir}/{id}/storage1.      *)
(* An empty net[] then gets one fragment from the request's ins_mac, and  *)
(* the top template is rendered into buf[2048].                           *)
(*                                                                         *)
(* A document is abstracted to what the code tells apart:                  *)
(*   - json: "none" (no osm_json), "bad" (json_parse_ex fails or the      *)
(*     value is not an object) or "ok", with its members in order;       *)
(*   - storage: not an array, or an array of entries; an entry is a       *)
(*     non-object (obj = FALSE) or an object whose members are <<key,     *)
(*     value>> pairs with keys "type", "size" or any other; a type is the *)
(*     string "disk", another string ("cdrom") or a JSON value that is   *)
(*     not a string ("num"); a size is an integer;                        *)
(*   - network: not an array, or an array of entries; an entry has a      *)
(*     string mac (or not: "num", which also stands for a non-object      *)
(*     entry) and a type that is absent, "nat", "bridge" (or "default",   *)
(*     the same path) or anything else ("other", a non-string too).      *)
(*   - mac: whether the request carries ins_mac.                          *)
(* A fragment is the interface it gives the guest: "nat" (libvirt's      *)
(* default network) or the bridge it names, and where its MAC came from. *)
(* The storage file is its size in GiB (st_size >> 30), or NoFile.         *)
(* String lengths depend on ins_data_dir and on the templates, which are  *)
(* configuration, so the model takes them from constants.                *)
(***************************************************************************)
EXTENDS Integers, Sequences, SequencesExt

CONSTANTS
  MaxEntries,   \* longest storage array
  MaxSize,      \* largest size in GiB a document or a file may carry
  MaxNets,      \* longest network array
  MaxMixed,     \* longest array of either kind in a document that has both
  DiskBuf,      \* disk_size and net_size, the caller's buffers (1024)
  StartLens,    \* strlen(disk) on entry: the OS and config disk fragments
  FragLens,     \* strlen(tmp) of the storage1 disk fragment
  NatLen,       \* strlen of a NAT interface fragment
  BridgeLen,    \* strlen of a bridge interface fragment
  XmlMax,       \* LIBVIRT_XML_DATA_MAX (2048)
  XmlBases,     \* the length of the top template with id, name, memory,
                \* vcpu (and the Xen path) substituted, without disk and net
  Hypervisor,   \* g_c->node->hypervisor: "kvm" or "xen"
  FullVirt,     \* the fullvirt argument
  VmXml,        \* whether g_c->config.vm_xml overrides the top template
  NetPrimary,   \* g_c->config.net_primary ("null" when not configured)
  NetSecondary, \* g_c->config.net_secondary (likewise)
  FsFaults      \* whether stat, creat, truncate and unlink may fail

ASSUME
  /\ Hypervisor \in {"kvm", "xen"} /\ FullVirt \in BOOLEAN /\ VmXml \in BOOLEAN
  /\ NetPrimary \in STRING /\ NetSecondary \in STRING

NoFile == -1

\* Bridge names that select the NAT fragment: NULL, "default" and those
\* strncmp(type, "virbr", 5) accepts.
NatNames == {"null", "default", "virbr0", "virbr1"}
Attach(name) == IF name \in NatNames THEN "nat" ELSE name

TypeVals == {"disk", "cdrom", "num"}
Fields == ({"type"} \X TypeVals) \cup ({"size"} \X (0..MaxSize))
            \cup {<<"other", 0>>}
DistinctKeys(fs) == \A a, b \in 1..Len(fs) : a # b => fs[a][1] # fs[b][1]
Entries == [obj : {TRUE}, fields : {fs \in BoundedSeq(Fields, 2) : DistinctKeys(fs)}]
             \cup [obj : {FALSE}, fields : {<<>>}]
Storages(len) == [kind : {"notarray"}, arr : {<<>>}]
                   \cup [kind : {"array"}, arr : BoundedSeq(Entries, len)]
NetEntries == [mac : {"str"}, type : {"absent", "nat", "bridge", "other"}]
                \cup {[mac |-> "num", type |-> "absent"]}
Nets(len) == [kind : {"notarray"}, arr : {<<>>}]
               \cup [kind : {"array"}, arr : BoundedSeq(NetEntries, len)]
Absent == [kind |-> "absent", arr |-> <<>>]

\* An object's members in order; ins_mac only matters when no network
\* entry is rendered, and __domain_run_data_check requires it when there
\* is no osm_json.
Orders == {<<>>, <<"storage">>, <<"network">>, <<"storage", "network">>,
           <<"network", "storage">>}
DocsIn(ms) ==
  LET both == Len(ms) = 2 IN
  [json : {"ok"}, members : {ms}, mac : BOOLEAN,
   storage : IF "storage" \in Range(ms)
             THEN Storages(IF both THEN MaxMixed ELSE MaxEntries) ELSE {Absent},
   net : IF "network" \in Range(ms)
         THEN Nets(IF both THEN MaxMixed ELSE MaxNets) ELSE {Absent}]
Docs ==
  {d \in UNION {DocsIn(ms) : ms \in Orders} :
     ~d.mac => d.net.kind # "array" \/ d.net.arr = <<>>}
    \cup [json : {"none", "bad"}, members : {<<>>}, mac : {TRUE},
          storage : {Absent}, net : {Absent}]
FileStates == {NoFile} \cup 0..MaxSize
Frags == [dev : {"nat"} \cup {NetPrimary, NetSecondary}, mac : {"json", "ins", "null"}]

VARIABLES
  doc,          \* the request: its osm_json and whether it has ins_mac
  file,         \* storage1: NoFile or its size in GiB
  file0,        \* storage1 when the call began (history, for the properties)
  pc,           \* where the call is
  i, j, k, n,   \* the member, storage entry, field and network entry indices
  diskFound,    \* disk_found (one per "storage" member, not per entry)
  storageSize,  \* storage_size (likewise)
  diskLen,      \* strlen(disk)
  frag,         \* strlen(tmp) for the storage1 fragment of this call
  net,          \* net[]: the interface fragments, in order
  xmlLen        \* the len snprintf returned for the whole descriptor

vars == <<doc, file, file0, pc, i, j, k, n, diskFound, storageSize, diskLen,
          frag, net, xmlLen>>
storeVars == <<j, k, diskFound, storageSize>>
netVars == <<i, n, net>>
loopVars == <<storeVars, netVars>>
fixedVars == <<doc, file0, frag, xmlLen>>

Arr == doc.storage.arr
Member == Arr[j].fields[k]
NetArr == doc.net.arr
FragLen(f) == IF f.dev = "nat" THEN NatLen ELSE BridgeLen
NetLen(s) == FoldLeft(LAMBDA acc, f : acc + FragLen(f), 0, s)

\* The OS and config disk fragments are rendered (their path and length
\* checks pass: disk[] holds both), buf is allocated, and net[] is empty.
Init ==
  /\ doc \in Docs
  /\ file \in FileStates
  /\ file0 = file
  /\ diskLen \in StartLens
  /\ frag \in FragLens
  /\ pc = "parse"
  /\ i = 1 /\ j = 1 /\ k = 1 /\ n = 1
  /\ diskFound = FALSE
  /\ storageSize = -1
  /\ net = <<>>
  /\ xmlLen = 0

\* if (ci->osm_json) __domain_xml_json(...): json_parse_ex and the object
\* check; without a document __domain_xml goes straight to the network.
Parse ==
  /\ pc = "parse"
  /\ pc' = CASE doc.json = "none" -> "xml_net"
             [] doc.json = "bad"  -> "error"
             [] OTHER             -> "top"
  /\ UNCHANGED <<fixedVars, file, loopVars, diskLen>>

\* The loop over the object's members has seen them all: return 0.
ObjectDone ==
  /\ pc = "top"
  /\ i > Len(doc.members)
  /\ pc' = "done"
  /\ UNCHANGED <<fixedVars, file, loopVars, diskLen>>

\* A "network" member: net[0] = '\0', and it must be an array.
NetStart ==
  /\ pc = "top"
  /\ i <= Len(doc.members) /\ doc.members[i] = "network"
  /\ net' = <<>>
  /\ IF doc.net.kind = "array" THEN pc' = "net" /\ n' = 1
                               ELSE pc' = "error" /\ UNCHANGED n
  /\ UNCHANGED <<fixedVars, file, i, j, k, diskFound, storageSize, diskLen>>

\* A "storage" member: storage_size = -1, disk_found = 0, and it must be an
\* array.
StorageStart ==
  /\ pc = "top"
  /\ i <= Len(doc.members) /\ doc.members[i] = "storage"
  /\ diskFound' = FALSE /\ storageSize' = -1
  /\ IF doc.storage.kind = "array" THEN pc' = "entry" /\ j' = 1
                                   ELSE pc' = "error" /\ UNCHANGED j
  /\ UNCHANGED <<fixedVars, file, i, k, n, diskLen, net>>

\* The head of the j loop: the array is done, or the entry is not an object.
EntryStart ==
  /\ pc = "entry"
  /\ \/ j > Len(Arr) /\ pc' = "shrink" /\ UNCHANGED k
     \/ j <= Len(Arr) /\ ~Arr[j].obj /\ pc' = "error" /\ UNCHANGED k
     \/ j <= Len(Arr) /\ Arr[j].obj /\ pc' = "member" /\ k' = 1
  /\ UNCHANGED <<fixedVars, netVars, file, j, diskFound, storageSize, diskLen>>

\* The k loop has seen every member of the entry.
MembersDone ==
  /\ pc = "member"
  /\ k > Len(Arr[j].fields)
  /\ pc' = "disk"
  /\ UNCHANGED <<fixedVars, netVars, file, storeVars, diskLen>>

\* Mutant: the duplicate test is dropped, so a second "disk" entry is taken.
MemberType_NoDupCheck ==
  /\ pc = "member"
  /\ k <= Len(Arr[j].fields)
  /\ Member[1] = "type"
  /\ \/ Member[2] = "num" /\ pc' = "error" /\ UNCHANGED <<k, diskFound>>
     \/ Member[2] = "disk" /\ diskFound' = TRUE /\ k' = k + 1 /\ UNCHANGED pc
     \/ Member[2] = "cdrom" /\ pc' = "disk" /\ UNCHANGED <<k, diskFound>>
  /\ UNCHANGED <<fixedVars, netVars, file, j, storageSize, diskLen>>

\* A "type" member: a non-string is an error, a second "disk" is a
\* duplicate, "disk" sets disk_found, and any other string breaks the loop.
MemberType ==
  /\ pc = "member"
  /\ k <= Len(Arr[j].fields)
  /\ Member[1] = "type"
  /\ \/ Member[2] = "num" /\ pc' = "error" /\ UNCHANGED <<k, diskFound>>
     \/ Member[2] = "disk" /\ diskFound /\ pc' = "error" /\ UNCHANGED <<k, diskFound>>
     \/ Member[2] = "disk" /\ ~diskFound /\ diskFound' = TRUE /\ k' = k + 1
          /\ UNCHANGED pc
     \/ Member[2] = "cdrom" /\ pc' = "disk" /\ UNCHANGED <<k, diskFound>>
  /\ UNCHANGED <<fixedVars, netVars, file, j, storageSize, diskLen>>

\* Mutant: the size test is "< 0", so a size of 0 is taken.
MemberSize_ZeroAllowed ==
  /\ pc = "member"
  /\ k <= Len(Arr[j].fields)
  /\ Member[1] = "size"
  /\ \/ Member[2] < 0 /\ pc' = "error" /\ UNCHANGED <<k, storageSize>>
     \/ Member[2] >= 0 /\ storageSize' = Member[2] /\ k' = k + 1 /\ UNCHANGED pc
  /\ UNCHANGED <<fixedVars, netVars, file, j, diskFound, diskLen>>

\* A "size" member must be a positive integer; it sets storage_size.
MemberSize ==
  /\ pc = "member"
  /\ k <= Len(Arr[j].fields)
  /\ Member[1] = "size"
  /\ \/ Member[2] <= 0 /\ pc' = "error" /\ UNCHANGED <<k, storageSize>>
     \/ Member[2] > 0 /\ storageSize' = Member[2] /\ k' = k + 1 /\ UNCHANGED pc
  /\ UNCHANGED <<fixedVars, netVars, file, j, diskFound, diskLen>>

\* Any other member is skipped.
MemberOther ==
  /\ pc = "member"
  /\ k <= Len(Arr[j].fields)
  /\ Member[1] = "other"
  /\ k' = k + 1
  /\ UNCHANGED <<fixedVars, netVars, file, pc, j, diskFound, storageSize, diskLen>>

NextEntry == j' = j + 1 /\ pc' = "entry"

\* Mutant: the "no disk size" test is dropped.
DiskFragment_NoSizeCheck ==
  /\ pc = "disk"
  /\ \/ ~diskFound /\ NextEntry /\ UNCHANGED diskLen
     \/ diskFound /\ diskLen + frag > DiskBuf /\ pc' = "error"
          /\ UNCHANGED <<j, diskLen>>
     \/ diskFound /\ diskLen + frag <= DiskBuf
          /\ diskLen' = diskLen + frag /\ pc' = "file" /\ UNCHANGED j
  /\ UNCHANGED <<fixedVars, netVars, file, k, diskFound, storageSize>>

\* After the members of an entry: without disk_found go on to the next
\* entry; otherwise storage_size must be set, and the storage1 fragment is
\* appended to disk[] unless strlen(disk) + strlen(tmp) > disk_size.
\* disk_found and storage_size are those of the whole array, so every entry
\* after the disk entry comes here again.
DiskFragment ==
  /\ pc = "disk"
  /\ \/ ~diskFound /\ NextEntry /\ UNCHANGED diskLen
     \/ diskFound /\ storageSize <= 0 /\ pc' = "error" /\ UNCHANGED <<j, diskLen>>
     \/ diskFound /\ storageSize > 0 /\ diskLen + frag > DiskBuf /\ pc' = "error"
          /\ UNCHANGED <<j, diskLen>>
     \/ diskFound /\ storageSize > 0 /\ diskLen + frag <= DiskBuf
          /\ diskLen' = diskLen + frag /\ pc' = "file" /\ UNCHANGED j
  /\ UNCHANGED <<fixedVars, netVars, file, k, diskFound, storageSize>>

\* storage1 exists: stat it, and truncate it unless its size in GiB already
\* equals storage_size.  stat and truncate may fail.
FileResize ==
  /\ pc = "file"
  /\ file # NoFile
  /\ \/ FsFaults /\ pc' = "error" /\ UNCHANGED <<file, j>>
     \/ file = storageSize /\ NextEntry /\ UNCHANGED file
     \/ file # storageSize /\ file' = storageSize /\ NextEntry
     \/ FsFaults /\ file # storageSize /\ pc' = "error" /\ UNCHANGED <<file, j>>
  /\ UNCHANGED <<fixedVars, netVars, k, diskFound, storageSize, diskLen>>

\* storage1 is missing: creat it (empty), then truncate it to storage_size.
\* If the truncate fails the empty file stays.
FileCreate ==
  /\ pc = "file"
  /\ file = NoFile
  /\ \/ FsFaults /\ pc' = "error" /\ UNCHANGED <<file, j>>
     \/ file' = storageSize /\ NextEntry
     \/ FsFaults /\ file' = 0 /\ pc' = "error" /\ UNCHANGED j
  /\ UNCHANGED <<fixedVars, netVars, k, diskFound, storageSize, diskLen>>

\* Mutant: the array ends without deleting an unused storage1.
Shrink_NoUnlink ==
  /\ pc = "shrink"
  /\ pc' = "top" /\ i' = i + 1
  /\ UNCHANGED <<fixedVars, n, net, file, storeVars, diskLen>>

\* After the array: with no disk entry, an existing storage1 is unlinked.
Shrink ==
  /\ pc = "shrink"
  /\ \/ (diskFound \/ file = NoFile) /\ pc' = "top" /\ i' = i + 1 /\ UNCHANGED file
     \/ ~diskFound /\ file # NoFile /\ file' = NoFile /\ pc' = "top" /\ i' = i + 1
     \/ FsFaults /\ ~diskFound /\ file # NoFile /\ pc' = "error" /\ UNCHANGED <<file, i>>
  /\ UNCHANGED <<fixedVars, n, net, storeVars, diskLen>>

NetType(idx) ==
  IF idx > 1 /\ NetSecondary # "null" THEN NetSecondary ELSE NetPrimary

\* One entry of the "network" array: it must be an object with a string
\* "mac"; a "type" must be a string, "nat" selects the NAT fragment and
\* anything but "bridge" or "default" is an error; the fragment for the
\* bridge name is NAT for NatNames; strlen(net) + strlen(tmp) >= net_size
\* is an error, else it is appended.  After the last entry, the next member.
NetEntry ==
  /\ pc = "net"
  /\ \/ n > Len(NetArr) /\ pc' = "top" /\ i' = i + 1 /\ UNCHANGED <<n, net>>
     \/ /\ n <= Len(NetArr)
        /\ LET e == NetArr[n]
               f == [dev |-> IF e.type = "nat" THEN "nat" ELSE Attach(NetType(n)),
                     mac |-> "json"]
           IN IF e.mac = "str" /\ e.type # "other" /\ NetLen(net) + FragLen(f) < DiskBuf
              THEN net' = Append(net, f) /\ n' = n + 1 /\ UNCHANGED <<pc, i>>
              ELSE pc' = "error" /\ UNCHANGED <<i, n, net>>
  /\ UNCHANGED <<fixedVars, file, storeVars, diskLen>>

\* Back in __domain_xml: a failed __domain_xml_json frees buf and returns
\* NULL ("error").  If net[] is still empty, one fragment for
\* net_primary is rendered with ci->ins_mac, which the data check lets be
\* NULL when there is an osm_json.  snprintf("%s", NULL) is undefined:
\* glibc prints "(null)", another C library may fault.
XmlNet ==
  /\ pc \in {"done", "xml_net"}
  /\ LET f(m) == <<[dev |-> Attach(NetPrimary), mac |-> m]>> IN
     \/ net # <<>> /\ pc' = "render" /\ UNCHANGED net
     \/ net = <<>> /\ doc.mac /\ net' = f("ins") /\ pc' = "render"
     \/ net = <<>> /\ ~doc.mac /\ net' = f("null") /\ pc' = "render"
     \/ net = <<>> /\ ~doc.mac /\ pc' = "crashed" /\ UNCHANGED net
  /\ UNCHANGED <<fixedVars, file, i, n, storeVars, diskLen>>

\* snprintf(buf, 2048, template, ...) returns the length of the whole
\* descriptor; the Xen full-virtualisation case has no template (len =
\* -2).  len < 0 or len >= size frees buf and returns NULL.
Render ==
  /\ pc = "render"
  /\ \E b \in XmlBases :
       LET len == IF ~VmXml /\ Hypervisor = "xen" /\ FullVirt THEN -2
                  ELSE b + diskLen + NetLen(net)
       IN /\ xmlLen' = len
          /\ pc' = IF len < 0 \/ len >= XmlMax THEN "error" ELSE "built"
  /\ UNCHANGED <<doc, file0, frag, file, loopVars, diskLen>>

\* __domain_xml has returned the descriptor ("built") or NULL ("error"),
\* or the process has faulted ("crashed").
Returned ==
  /\ pc \in {"built", "error", "crashed"}
  /\ UNCHANGED vars

Next ==
  \/ Parse \/ ObjectDone \/ NetStart \/ StorageStart
  \/ EntryStart \/ MembersDone \/ MemberType \/ MemberSize \/ MemberOther
  \/ DiskFragment \/ FileResize \/ FileCreate \/ Shrink
  \/ NetEntry \/ XmlNet \/ Render \/ Returned

Spec == Init /\ [][Next]_vars


-----------------------------------------------------------------------------
(***************************************************************************)
(* The reference: the storage rule of the descriptor contract, over the    *)
(* same documents.  Every entry is an object, at most one entry is tagged *)
(* type "disk", and that entry has a positive size.  An accepted array    *)
(* leaves storage1 at the disk entry's size, or deletes it when there is  *)
(* no disk entry; a rejected document leaves storage1 as it was.          *)
(***************************************************************************)
IsDiskEntry(e) ==
  \E m \in 1..Len(e.fields) : e.fields[m][1] = "type" /\ e.fields[m][2] = "disk"

SizeOf(e) ==
  IF \E m \in 1..Len(e.fields) : e.fields[m][1] = "size"
  THEN e.fields[CHOOSE m \in 1..Len(e.fields) : e.fields[m][1] = "size"][2]
  ELSE NoFile

\* The rule, applied to the entries from left to right.
RECURSIVE StorageRule(_, _)
StorageRule(es, acc) ==
  IF es = <<>> THEN acc
  ELSE LET e == Head(es)
           disk == e.obj /\ IsDiskEntry(e)
       IN  StorageRule(Tail(es),
             [valid |-> acc.valid /\ e.obj
                          /\ (disk => acc.disks = 0 /\ SizeOf(e) > 0),
              disks |-> acc.disks + (IF disk THEN 1 ELSE 0),
              size  |-> IF disk THEN SizeOf(e) ELSE acc.size])

Rule(d) == StorageRule(d.storage.arr, [valid |-> TRUE, disks |-> 0, size |-> NoFile])

\* The network rule: one fragment per entry, in order; "nat" selects the
\* NAT fragment, "bridge", "default" or no type the bridged one, on the
\* primary bridge for the first entry and on the secondary one, when
\* configured, after it; every entry has a mac, and the fragments fit the
\* 1024-byte buffer.  Without a document or without a "network" member,
\* one fragment for the primary bridge from request.mac, which must then
\* be present.
NetDefaulted(d) == d.json = "none" \/ "network" \notin Range(d.members)

SpecDev(e, m) ==
  IF e.type = "nat" THEN "nat"
  ELSE Attach(IF m = 1 \/ NetSecondary = "null" THEN NetPrimary ELSE NetSecondary)

SpecNet(d) ==
  IF NetDefaulted(d) THEN <<[dev |-> Attach(NetPrimary), mac |-> "ins"]>>
  ELSE [m \in 1..Len(d.net.arr) |-> [dev |-> SpecDev(d.net.arr[m], m), mac |-> "json"]]

NetAccepts(d) ==
  IF NetDefaulted(d) THEN d.mac
  ELSE /\ d.net.kind = "array"
       /\ \A m \in 1..Len(d.net.arr) : d.net.arr[m].mac = "str" /\ d.net.arr[m].type # "other"
       /\ NetLen(SpecNet(d)) < DiskBuf

\* The document part of the contract: a document that parses to an object,
\* whose storage and network members follow their rules.
SpecAccepts(d) ==
  /\ d.json = "ok"
  /\ d.storage.kind # "notarray"
  /\ d.storage.kind = "array" => Rule(d).valid
  /\ "network" \in Range(d.members) => NetAccepts(d)

SpecFile(d, f0) ==
  IF SpecAccepts(d) /\ d.storage.kind = "array" THEN Rule(d).size ELSE f0

-----------------------------------------------------------------------------
\* Every variable holds a value of its type.
TypeOK ==
  /\ doc.json \in {"none", "bad", "ok"} /\ doc.mac \in BOOLEAN
  /\ file \in FileStates /\ file0 \in FileStates
  /\ pc \in {"parse", "top", "net", "entry", "member", "disk", "file", "shrink",
             "done", "xml_net", "render", "built", "error", "crashed"}
  /\ i \in 1..3 /\ j \in 1..MaxEntries + 1 /\ k \in 1..3 /\ n \in 1..MaxNets + 1
  /\ diskFound \in BOOLEAN
  /\ storageSize \in {-1} \cup 1..MaxSize
  /\ diskLen \in Nat /\ frag \in FragLens
  /\ net \in Seq(Frags) /\ Len(net) <= MaxNets /\ xmlLen \in Int

\* Shrink-to-none: a call that returns 0 on a storage array with no entry
\* tagged "disk" leaves no storage1 behind, whatever an earlier request
\* created (the unlink after the j loop).
ShrinkToNone ==
  (pc = "done" /\ doc.storage.kind = "array"
     /\ \A m \in 1..Len(Arr) : ~(Arr[m].obj /\ IsDiskEntry(Arr[m])))
    => file = NoFile

\* A call that returns 0 never took two entries tagged "disk": the
\* disk_found test rejects the second one whichever entry it is in.
DupRejected ==
  pc = "done" => Rule(doc).disks <= 1

\* On storage arrays of at most one entry, a call that returns 0 agrees
\* with the reference: the document is valid and storage1 ends at the
\* size it asks for (or is gone).  Only the carry-over of disk_found and
\* storage_size between entries can make the code differ.
SingleEntryAsSpecified ==
  (pc = "done" /\ Len(Arr) <= 1)
    => SpecAccepts(doc) /\ file = SpecFile(doc, file0)

\* The call has the effect on storage1 the reference gives it: a call
\* that returns 0 was given a valid document and leaves storage1 as the
\* rule says, and a call that returns -1 leaves storage1 as it was ("no
\* backing file created or modified" for two disk entries).  The code may
\* reject more than the rule does (a non-string type, a size of 0 on a
\* non-disk entry), but not with a side effect.
StorageAsSpecified ==
  /\ pc = "done" => SpecAccepts(doc) /\ file = SpecFile(doc, file0)
  /\ pc = "error" => file = file0

\* strcat(disk, tmp) stays inside disk[disk_size]: the string and its
\* terminating NUL fit, i.e. strlen(disk) < disk_size.
NoDiskOverflow ==
  diskLen < DiskBuf

DescriptorAsSpecified ==
  /\ pc = "built" => /\ SpecAccepts(doc) \/ doc.json = "none"
                     /\ net = SpecNet(doc)
                     /\ file = SpecFile(doc, file0)
  /\ pc = "error" => file = file0
  /\ pc # "crashed"

====

------------------------- MODULE InstanceLifecycle -------------------------
(***************************************************************************)
(* What the node handler promises about its instances, with no threads,  *)
(* paths or system calls: an instance is absent, stopped (provisioned:    *)
(* its disk exists) or running, and only the holder of the instance's    *)
(* lock moves it between those states, one step at a time.  The one      *)
(* exception is the guest itself, which may power off whenever it runs.  *)
(* The lock is an atomic owner field: acquiring and releasing it are the *)
(* only steps that change it.                                             *)
(***************************************************************************)
CONSTANTS
  Instances,   \* instance ids
  Threads,     \* the workers that may hold an instance lock
  NoOwner      \* the owner of a free lock

ASSUME NoOwner \notin Threads

VARIABLES status, owner

States == {"absent", "stopped", "running"}

Init ==
  /\ status \in [Instances -> States]
  /\ owner = [i \in Instances |-> NoOwner]

\* Lock and unlock.
Acquire(t, i) ==
  /\ owner[i] = NoOwner
  /\ owner' = [owner EXCEPT ![i] = t]
  /\ UNCHANGED status

Release(t, i) ==
  /\ owner[i] = t
  /\ owner' = [owner EXCEPT ![i] = NoOwner]
  /\ UNCHANGED status

\* A lock holder moves its instance from one state to another.
Move(t, i, from, to) ==
  /\ owner[i] = t
  /\ status[i] = from
  /\ status' = [status EXCEPT ![i] = to]
  /\ UNCHANGED owner

Provision(t, i) == Move(t, i, "absent", "stopped")    \* disk created
Remove(t, i)    == Move(t, i, "stopped", "absent")    \* disk removed
Start(t, i)     == Move(t, i, "stopped", "running")   \* domain created
PowerOff(t, i)  == Move(t, i, "running", "stopped")   \* forced off

\* The guest shuts itself down; no lock is involved.
GuestOff(i) ==
  /\ status[i] = "running"
  /\ status' = [status EXCEPT ![i] = "stopped"]
  /\ UNCHANGED owner

Next ==
  \/ \E t \in Threads, i \in Instances :
       \/ Acquire(t, i) \/ Release(t, i)
       \/ Provision(t, i) \/ Remove(t, i) \/ Start(t, i) \/ PowerOff(t, i)
  \/ \E i \in Instances : GuestOff(i)

Spec == Init /\ [][Next]_<<status, owner>>

=============================================================================

\* Two threads: lock discipline under every interleaving of two handler
\* threads, over all actions and failures.
CONSTANTS
  n1 = n1
  n2 = n2
  w1 = w1
  w2 = w2
  Workers <- MCTwoWorkers
  Ids <- MCOneId
  InstanceIds <- MCOneId
  ApplianceIds <- MCApps
  ThreadMax = 1
  WarnEvery = 1
  WarnCycles = 1
  StopWait = 1
  MaxRequests = 2
  Hypervisor = "kvm"
  OtherActs = {"stop", "reboot", "destroy"}
  RunValidity = {TRUE, FALSE}
  Jsons = {"none", "disk", "nodisk", "bad"}
  ChdirUpFails = FALSE
  ToolFaults = TRUE
  ReplyFaults = FALSE
  Crashes = FALSE
  InitIns = {"absent", "stopped", "running"}
  InitApps = {"absent", "good", "corrupt"}
SPECIFICATION Spec
INVARIANT LockDiscipline
INVARIANT ActiveHasDisk
INVARIANT LayoutKept
INVARIANT CounterTracksThreads
SYMMETRY MCWorkerSymmetry
PROPERTY MovedOnlyByHolder

\* One thread at a time: the provisioning pipeline and the other actions
\* over every initial node state, with every failure the code handles and
\* restarts of the daemon at any step.
CONSTANTS
  n1 = n1
  n2 = n2
  w1 = w1
  w2 = w2
  Workers <- MCOneWorker
  Ids <- MCIds
  InstanceIds <- MCIds
  ApplianceIds <- MCApps
  ThreadMax = 1
  WarnEvery = 1
  WarnCycles = 1
  StopWait = 1
  MaxRequests = 2
  Hypervisor = "xen"
  OtherActs = {"stop", "reboot", "destroy", "query", "suspend"}
  RunValidity = {TRUE, FALSE}
  Jsons = {"disk", "bad"}
  ChdirUpFails = FALSE
  ToolFaults = TRUE
  ReplyFaults = FALSE
  Crashes = TRUE
  InitIns = {"absent", "stopped", "running"}
  InitApps = {"absent", "corrupt"}
SPECIFICATION Spec
INVARIANT TypeOK
INVARIANT ActiveHasDisk
INVARIANT LayoutKept
INVARIANT FreshRunCleanup
INVARIANT CounterTracksThreads
 
PROPERTY LifecycleRefined

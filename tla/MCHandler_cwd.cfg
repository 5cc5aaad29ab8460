\* Two threads on two instances: the process-wide working directory that
\* __domain_dir_clean and __domain_run both change with chdir().
CONSTANTS
  n1 = n1
  n2 = n2
  w1 = w1
  w2 = w2
  Workers <- MCTwoWorkers
  Ids <- MCIds
  InstanceIds <- MCIds
  ApplianceIds <- MCApps
  ThreadMax = 1
  WarnEvery = 1
  WarnCycles = 1
  StopWait = 1
  MaxRequests = 2
  Hypervisor = "kvm"
  OtherActs = {"destroy"}
  RunValidity = {TRUE}
  Jsons = {"none"}
  ChdirUpFails = FALSE
  ToolFaults = FALSE
  ReplyFaults = FALSE
  Crashes = FALSE
  InitIns = {"absent", "stopped"}
  InitApps = {"good"}
SPECIFICATION Spec
INVARIANT ActiveHasDisk
SYMMETRY MCWorkerSymmetry

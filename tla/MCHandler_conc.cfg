\* Two threads on one instance, chdir("..") may fail, and lock waits of two
\* warnings of two attempts each: every request the controller sends is still
\* answered, leaked lock links included, and a lock wait gives up only after
\* the number of attempts the retry policy gives.
CONSTANTS
  n1 = n1
  n2 = n2
  w1 = w1
  w2 = w2
  Workers <- MCTwoWorkers
  Ids <- MCOneId
  InstanceIds <- MCOneId
  ApplianceIds <- MCApps
  ThreadMax = 1
  WarnEvery = 2
  WarnCycles = 2
  StopWait = 1
  MaxRequests = 2
  Hypervisor = "kvm"
  OtherActs = {"stop", "destroy"}
  RunValidity = {TRUE}
  Jsons = {"none"}
  ChdirUpFails = TRUE
  ToolFaults = TRUE
  ReplyFaults = TRUE
  Crashes = FALSE
  InitIns = {"absent", "running"}
  InitApps = {"good"}
SPECIFICATION Spec
PROPERTY EveryRequestAnswered
PROPERTY LockWaitAsSpecified

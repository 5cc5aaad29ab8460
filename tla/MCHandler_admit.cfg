\* Two run requests against a ceiling of one thread: ly_handler_busy compares with >.
CONSTANTS
  n1 = n1
  n2 = n2
  w1 = w1
  w2 = w2
  Workers <- MCTwoWorkers
  Ids <- MCOneId
  InstanceIds <- MCOneId
  ApplianceIds <- MCApps
  ThreadMax = 1
  WarnEvery = 1
  WarnCycles = 1
  StopWait = 1
  MaxRequests = 2
  Hypervisor = "kvm"
  OtherActs = {"destroy"}
  RunValidity = {TRUE}
  Jsons = {"none"}
  ChdirUpFails = FALSE
  ToolFaults = FALSE
  ReplyFaults = FALSE
  Crashes = FALSE
  InitIns = {"absent"}
  InitApps = {"good"}
SPECIFICATION Spec
INVARIANT RunsWithinCeiling

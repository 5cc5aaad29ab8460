\* One thread, tools may fail: a failed decompress unlinks the appliance image after its lock was put.
CONSTANTS
  n1 = n1
  n2 = n2
  w1 = w1
  w2 = w2
  Workers <- MCOneWorker
  Ids <- MCOneId
  InstanceIds <- MCOneId
  ApplianceIds <- MCApps
  ThreadMax = 1
  WarnEvery = 1
  WarnCycles = 1
  StopWait = 1
  MaxRequests = 2
  Hypervisor = "kvm"
  OtherActs = {"destroy"}
  RunValidity = {TRUE}
  Jsons = {"none"}
  ChdirUpFails = FALSE
  ToolFaults = TRUE
  ReplyFaults = FALSE
  Crashes = FALSE
  InitIns = {"absent"}
  InitApps = {"good"}
SPECIFICATION Spec
PROPERTY AppDirChangesUnderLock

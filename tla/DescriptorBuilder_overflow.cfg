\* strcat must stay inside disk[1024], for storage1 fragments of 341 or 342 bytes.
CONSTANTS
  MaxEntries = 2
  MaxSize = 2
  DiskBuf = 1024
  MaxNets = 2
  MaxMixed = 1
  NatLen = 504
  BridgeLen = 520
  XmlMax = 2048
  XmlBases = {400}
  Hypervisor = "xen"
  FullVirt = FALSE
  VmXml = FALSE
  NetPrimary = "br0"
  NetSecondary = "br1"
  StartLens = {682}
  FragLens = {341, 342}
  FsFaults = FALSE
SPECIFICATION Spec
INVARIANT NoDiskOverflow

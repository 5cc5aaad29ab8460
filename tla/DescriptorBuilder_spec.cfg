\* Every call of __domain_xml must build the interfaces the network rule gives,
\* give storage1 the effect the storage rule gives it, and never fault.
CONSTANTS
  MaxEntries = 2
  MaxSize = 2
  DiskBuf = 1024
  MaxNets = 2
  MaxMixed = 1
  NatLen = 504
  BridgeLen = 520
  XmlMax = 2048
  XmlBases = {400}
  Hypervisor = "xen"
  FullVirt = FALSE
  VmXml = FALSE
  NetPrimary = "br0"
  NetSecondary = "br1"
  StartLens = {682}
  FragLens = {341}
  FsFaults = FALSE
SPECIFICATION Spec
INVARIANT DescriptorAsSpecified

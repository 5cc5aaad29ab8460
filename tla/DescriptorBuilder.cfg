\* Every action of __domain_xml, with file-system faults.  Two bridge fragments
\* (520 bytes), or a NAT (504) and a bridge one, fill net[1024]; two NAT ones
\* fit.  storage1 fragments short enough for two to fit in disk[], and one
\* that leaves no room for a second.
CONSTANTS
  MaxEntries = 2
  MaxSize = 2
  DiskBuf = 1024
  MaxNets = 2
  MaxMixed = 1
  NatLen = 504
  BridgeLen = 520
  XmlMax = 2048
  XmlBases = {400}
  Hypervisor = "xen"
  FullVirt = FALSE
  VmXml = FALSE
  NetPrimary = "br0"
  NetSecondary = "br1"
  StartLens = {682}
  FragLens = {170, 341}
  FsFaults = TRUE
SPECIFICATION Spec
INVARIANT TypeOK
INVARIANT ShrinkToNone
INVARIANT DupRejected
INVARIANT SingleEntryAsSpecified
 

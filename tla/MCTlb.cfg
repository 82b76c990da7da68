\* The processor's TLB: two handle slots that may share a PCID, memory
\* accesses that fill the TLB, switches between address spaces.
CONSTANTS
  Entries = 2
  PageSize = 2
  Frames <- MCFrames
  PFrames <- MCPFrames
  Handles = {1, 2}
  PCIDs = {1}
  VAddrs = {8}
  MapPAddrs = {101}
  MapTypes = {"KernelReadWrite"}
  SearchSizes = {2}
  SearchAligns = {4}
  SearchStarts = {0}
  SearchEnds = {4}
  AccessPages = {1, 4}
  HugeSupport = {TRUE}
  GlobalPages = FALSE
  Pcide = TRUE
  BootMem <- MCBootMem
  BootCr3 <- MCBootCr3
SPECIFICATION Spec
INVARIANTS
  TlbTaggedByActiveSpace

\* CR4.PGE set: the Global bit that get_flags puts on every leaf keeps a
\* translation in the TLB across mov cr3 to another address space, with
\* CR4.PCIDE clear, so that no PCID is involved.
CONSTANTS
  Entries = 2
  PageSize = 2
  Frames <- MCFrames
  PFrames <- MCPFrames
  Handles = {1, 2}
  PCIDs = {1, 2}
  VAddrs = {8}
  MapPAddrs = {101}
  MapTypes = {"KernelReadOnly"}
  SearchSizes = {2}
  SearchAligns = {4}
  SearchStarts = {0}
  SearchEnds = {4}
  AccessPages = {4}
  HugeSupport = {TRUE}
  GlobalPages = TRUE
  Pcide = FALSE
  BootMem <- MCBootMem
  BootCr3 <- MCBootCr3
SPECIFICATION Spec
INVARIANTS
  TlbTaggedByActiveSpace

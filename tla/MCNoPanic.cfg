\* map_page / unmap_page on any address: walk_pd hands back the PD, not the PT.
CONSTANTS
  Entries = 2
  PageSize = 2
  Frames <- MCFrames
  PFrames <- MCPFrames
  Handles = {1}
  PCIDs = {1}
  VAddrs = {2}
  MapPAddrs = {101}
  MapTypes = {"KernelReadWrite"}
  SearchSizes = {2}
  SearchAligns = {4}
  SearchStarts = {0}
  SearchEnds = {4}
  AccessPages = {}
  HugeSupport = {TRUE}
  GlobalPages = FALSE
  Pcide = TRUE
  BootMem <- MCBootMem
  BootCr3 <- MCBootCr3
SPECIFICATION Spec
INVARIANT
  NoPanic

\* find_available_region with a size of at least one huge page.
CONSTANTS
  Entries = 2
  PageSize = 2
  Frames <- MCFrames
  PFrames <- MCPFrames
  Handles = {1}
  PCIDs = {1}
  VAddrs = {2}
  MapPAddrs = {101}
  MapTypes = {"KernelReadWrite"}
  SearchSizes = {4}
  SearchAligns = {4}
  SearchStarts = {0}
  SearchEnds = {8}
  AccessPages = {}
  HugeSupport = {TRUE}
  GlobalPages = FALSE
  Pcide = TRUE
  BootMem <- MCBootMem
  BootCr3 <- MCBootCr3
SPECIFICATION Spec
PROPERTY
  SearchPreservesTranslations

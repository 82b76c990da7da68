\* find_available_region over a range whose page 1 the boot tables map.
CONSTANTS
  Entries = 2
  PageSize = 2
  Frames <- MCFrames
  PFrames <- MCPFrames
  Handles = {1}
  PCIDs = {1}
  VAddrs = {2}
  MapPAddrs = {101}
  MapTypes = {"KernelReadWrite"}
  SearchSizes = {2}
  SearchAligns = {2}
  SearchStarts = {2}
  SearchEnds = {8}
  AccessPages = {}
  HugeSupport = {TRUE}
  GlobalPages = FALSE
  Pcide = TRUE
  BootMem <- MCBootMem
  BootCr3 <- MCBootCr3
SPECIFICATION Spec
PROPERTY
  FoundRegionUnmapped

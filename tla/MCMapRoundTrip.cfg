\* map_large_page at an address that is not 2 MiB aligned (page 3 of a 2-page large page).
CONSTANTS
  Entries = 2
  PageSize = 2
  Frames <- MCFrames
  PFrames <- MCPFrames
  Handles = {1}
  PCIDs = {1}
  VAddrs = {6}
  MapPAddrs = {101}
  MapTypes = {"KernelReadWrite"}
  SearchSizes = {2}
  SearchAligns = {4}
  SearchStarts = {0}
  SearchEnds = {4}
  AccessPages = {}
  HugeSupport = {TRUE}
  GlobalPages = FALSE
  Pcide = TRUE
  BootMem <- MCBootMem
  BootCr3 <- MCBootCr3
SPECIFICATION Spec
PROPERTY
  MapRoundTrip

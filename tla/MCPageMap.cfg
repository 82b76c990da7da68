\* The core run: every operation of PageMap from the boot state on one
\* handle slot (fresh from try_new or adopted from CR3), huge pages
\* supported or not, addresses that reach both boot-populated and empty
\* parts of every level.
CONSTANTS
  Entries = 2
  PageSize = 2
  Frames <- MCFrames
  PFrames <- MCPFrames
  Handles = {1}
  PCIDs = {1}
  VAddrs = {2, 8}
  MapPAddrs = {101}
  MapTypes = {"KernelReadWrite"}
  SearchSizes = {2, 4}
  SearchAligns = {4}
  SearchStarts = {0}
  SearchEnds = {8}
  AccessPages = {}
  HugeSupport = {TRUE, FALSE}
  GlobalPages = FALSE
  Pcide = TRUE
  BootMem <- MCBootMem
  BootCr3 <- MCBootCr3
SPECIFICATION Spec
INVARIANTS
  TypeOK
  TableOwnership
PROPERTIES
  FailedEditPreservesTranslations
  UnmapRoundTrip
  SearchIdempotent

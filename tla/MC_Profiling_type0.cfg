CONSTANTS
  Kernels <- MCKernels
  Events <- MCEventsType0
  MaxEvents <- MCMaxEvents
  DumpDirs = {"report"}
  OldReports <- MCOldReports
  AllEventsCount <- MCAllEventsCount
  MemPlotCount <- MCMemPlotCount
INIT Init
NEXT Next
INVARIANT TableShowsCounters
CHECK_DEADLOCK FALSE

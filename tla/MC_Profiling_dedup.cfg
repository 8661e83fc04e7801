CONSTANTS
  Kernels <- MCKernels
  Events <- MCEventsOther
  MaxEvents <- MCMaxEvents
  DumpDirs = {"report"}
  OldReports <- MCOldReports
  AllEventsCount <- MCAllEventsCount
  MemPlotCount <- MCMemPlotCount
INIT Init
NEXT Next
INVARIANT AllEventsReported
CHECK_DEADLOCK FALSE

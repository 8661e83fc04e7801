CONSTANTS
  Kernels <- MCKernels
  Events <- MCEvents
  MaxEvents <- MCMaxEvents
  DumpDirs = {"report"}
  OldReports <- MCOldReports
  AllEventsCount <- MCAllEventsCount
  MemPlotCount <- MCMemPlotCount
INIT Init
NEXT Next
INVARIANT TableShowsCounters
INVARIANT ReportCompletes
INVARIANT AllEventsReported
CHECK_DEADLOCK FALSE

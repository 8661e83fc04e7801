CONSTANTS
  TV = TV
  VV = VV
  NoneV = NoneV
  StaleV = StaleV
  TypeVar <- TV
  VecdimVar <- VV
  None <- NoneV
  Stale <- StaleV
  Bases <- MCBases
  FuncNames <- MCFuncNames
  ArgNames <- MCArgNames
  Bodies <- MCBodies
  Functions <- MCFunctions
  MaxAdds <- MCMaxAdds
INIT GenInit
NEXT GenNext
INVARIANT NativeTiersConsistent SpecVecdim FilesHoldTheirKinds
 
CHECK_DEADLOCK FALSE

CONSTANTS
  TV = TV
  VV = VV
  NoneV = NoneV
  StaleV = StaleV
  NoDefV = NoDefV
  NoFuncV = NoFuncV
  TypeVar <- TV
  VecdimVar <- VV
  None <- NoneV
  Stale <- StaleV
  NoDef <- NoDefV
  NoFunc <- NoFuncV
  Bases = {"float", "int"}
  FuncNames = {"add"}
  ArgNames = {"a", "b"}
  DefNames = {"A", "B"}
  Bodies = {}
  Functions = {}
  InputLines <- MCInputLines
  MaxLines <- MCMaxLines
  MaxAdds <- MCMaxLines
INIT Init
NEXT Next
INVARIANT MangledNamesUnique
CHECK_DEADLOCK FALSE

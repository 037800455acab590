CONSTANTS
  Names = {"main", "x", "print"}
  FnNames = {"main", "x"}
  VarNames = {"x"}
  ParamLists <- MCParamLists
  Arities = {1}
  MaxFunctions = 2
  MaxNodes = 3
  TopLevel = TRUE
SPECIFICATION Spec
INVARIANTS
  ScopesAreUnambiguous
  NamesAreOwn
  
  NoFalseAlarms
PROPERTIES
  ScopingImplemented

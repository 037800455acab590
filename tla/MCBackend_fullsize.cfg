CONSTANTS
  NumCaller = 7
  NumCallee = 10
  Inputs = {}
  MaxFunctions = 1
  MaxNodes = 10
  NumParams = 1
  Arities = {0}
  Constants = {0}
  ReturnsValue = TRUE
  Nodes = {"AST_NAME", "AST_CMP_OP", "AST_EXIT"}
SPECIFICATION BackendSpec
INVARIANTS
  NoSharedPreg
  
  SpillsOnlyUnderPressure

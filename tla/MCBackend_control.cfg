CONSTANTS
  NumCaller = 1
  NumCallee = 1
  Inputs = {}
  MaxFunctions = 1
  MaxNodes = 5
  NumParams = 0
  Arities = {0, 1}
  Constants = {0}
  ReturnsValue = TRUE
  Nodes = {"AST_CMP_OP", "AST_FN_CALL", "AST_LOG_OP", "pending AST_LOG_OP", "AST_IF", "AST_WHILE", "AST_EXIT", "call statement", "bare declaration"}
SPECIFICATION BackendSpec
INVARIANTS
  NeverAborts
  RangesAreExact
  
  LivenessSolved

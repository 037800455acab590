CONSTANTS
  NumCaller = 4
  NumCallee = 3
  Inputs = {}
  MaxFunctions = 1
  MaxNodes = 5
  NumParams = 1
  Arities = {1}
  Constants = {0}
  ReturnsValue = TRUE
  Nodes = {"AST_NAME", "AST_INT_LIT", "pending AST_LOG_OP", "AST_LOG_OP", "AST_CMP_OP", "AST_FN_CALL", "AST_LOG_OP", "AST_IF", "AST_WHILE", "AST_EXIT"}
SPECIFICATION BackendSpec
INVARIANTS
  AssertionsHold

CONSTANTS
  MaxFunctions = 1
  MaxNodes = 4
  NumParams = 0
  Arities = {1}
  Constants = {0}
  ReturnsValue = TRUE
  Nodes = {"AST_INT_LIT", "AST_CMP_OP", "AST_FN_CALL", "AST_EXIT", "call statement"}
SPECIFICATION Spec
PROPERTIES
  NothingAfterExit

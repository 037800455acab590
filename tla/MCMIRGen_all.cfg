CONSTANTS
  MaxFunctions = 2
  MaxNodes = 4
  NumParams = 1
  Arities = {0, 1}
  Constants = {0}
  ReturnsValue = TRUE
  Nodes = {"AST_NAME", "AST_INT_LIT", "AST_UNARY_OP", "AST_BIN_OP", "AST_CMP_OP", "AST_FN_CALL", "AST_LOG_OP", "AST_VAR_DEC", "AST_ASSN", "AST_EXIT", "AST_IF", "AST_WHILE", "AST_BLOCK", "bare declaration", "bare return", "call statement", "pending AST_LOG_OP"}
SPECIFICATION Spec
INVARIANTS
  TypeOK
  TempsAreUsedOnce
  FunctionsAreSelfContained
  StatementsBalanceTheStack

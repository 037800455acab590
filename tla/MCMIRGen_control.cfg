CONSTANTS
  MaxFunctions = 1
  MaxNodes = 7
  NumParams = 1
  Arities = {2}
  Constants = {0}
  ReturnsValue = TRUE
  Nodes = {"AST_NAME", "AST_CMP_OP", "AST_LOG_OP", "AST_VAR_DEC", "AST_EXIT", "AST_IF", "AST_WHILE"}
SPECIFICATION Spec
INVARIANTS
  OpenBlocksAreAwaited
  LoadsFollowStores
  UsesAreLocal
  NoDeadBlocks
  VerifierAccepts
PROPERTIES
  LeftBlocksStay

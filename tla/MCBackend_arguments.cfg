CONSTANTS
  NumCaller = 4
  NumCallee = 3
  Inputs = {}
  MaxFunctions = 1
  MaxNodes = 7
  NumParams = 1
  Arities = {0, 3}
  Constants = {0}
  ReturnsValue = TRUE
  Nodes = {"AST_NAME", "AST_CMP_OP", "AST_FN_CALL", "AST_EXIT"}
SPECIFICATION FairBackendSpec
INVARIANTS
  ScanTypeOK
  SurvivesCalls
  CalleeSavedAreTracked
  CalleeSavedPreserved
  SpillSlotsAreFresh
  
PROPERTIES
  ScanTerminates

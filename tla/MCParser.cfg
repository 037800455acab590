CONSTANTS
  Tokens = {"IF", "ELSE", "WHILE", "FN", "RETURN", "INT", "IDENTIFIER", "CUR_BRACK_START", "CUR_BRACK_END", "PAREN_START", "PAREN_END", "SEMICOLON", "COLON", "COMMA", "MINUS", "MULT", "EQ"}
  MaxTokens = 6
SPECIFICATION Spec
INVARIANTS
  
  OperatorsGroup
  BracketsMatch
PROPERTIES
  ParserTerminates

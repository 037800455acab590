CONSTANTS
  Tokens = {"RETURN", "IDENTIFIER", "INT_LITERAL", "PAREN_START", "PAREN_END", "SEMICOLON", "MINUS"}
  MaxTokens = 7
SPECIFICATION Spec
INVARIANTS
  CalleesAreNames

CONSTANTS
  DEFAULT_BLOCK_SIZE = 7
  MAX_ALIGN = 2
  DEFAULT_VEC_SIZE = 1
  DEFAULT_PTR_TABLE_CAPACITY = 1
  PtrSize = 2
  ItemSize = 2
  NodeSize = 4
  Values = {a, b}
  NULL = NULL
  Garbage = Garbage
  MaxBlocks = 3
  MaxCount = 3
  MaxIndex = 2
SYMMETRY Symmetry
SPECIFICATION Spec
INVARIANTS
  PiecesAreApart
PROPERTIES
  ContainersImplemented

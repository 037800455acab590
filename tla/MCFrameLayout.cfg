CONSTANTS
  NumCallee = 10
  MaxSlots = 18
SPECIFICATION Spec
INVARIANTS
  HomesAreApart
  FrameCoversHomes
  StackStaysAligned
  SmallFramesAreAddressable
  SymbolsAreFound

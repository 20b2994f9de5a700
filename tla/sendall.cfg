SPECIFICATION SendSpec
CONSTANTS
  Params = {p, q}
  StdIds = {x, y}
  MaxMessages = 2
  MaxItems = 3
  SlotIndex = {0, 1}
  RemovesDuring = FALSE
SYMMETRY MCSymmetry
INVARIANTS
  CursorInArray
  DefinedSent

SPECIFICATION Spec
CONSTANTS
  Params = {p, q}
  StdIds = {x, y, z}
  MaxMessages = 2
  MaxItems = 3
  SlotIndex = {0, 1}
SYMMETRY MCSymmetry
INVARIANTS
  MapIntact
PROPERTIES
  ImplementsTable

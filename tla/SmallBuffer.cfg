SPECIFICATION Spec
CONSTANTS
  zero = zero
  a = a
  pointerByte = pointerByte
  Values <- TwoValues
  Zero = zero
  PointerByte = pointerByte
  outside = outside
  Outside = outside
  ElementBytes = 2
  InlineCells = 4
  PointerCells = 2
  W = 16
  Requests <- AllRequests
INVARIANTS TypeOK HeapExact
PROPERTY Promise

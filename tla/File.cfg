SPECIFICATION Spec
CONSTANTS
  MaxSize = 5
  Lengths = {1, 2, 3}
  Offsets <- SmallOffsets
  W = 16
  OsFails = TRUE
INVARIANTS TypeOK NoUnderflow NeverAhead InSync SeekExact

SPECIFICATION Spec
CONSTANTS
  p = p
  q = q
  Objects <- TwoObjects
  Pids <- ThreePids
  Self = 1
  Names <- TwoNames
  SelfName = "self"
  SelfElevated = FALSE
  Handles <- TwoHandles
INVARIANTS TypeOK OneOwner IdOfHandle SaysTheTruth NoneForgotten
SYMMETRY Alike

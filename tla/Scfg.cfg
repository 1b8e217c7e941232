SPECIFICATION Spec
CONSTANTS
  i1 = i1
  i2 = i2
  k1 = k1
  k2 = k2
  Ids <- TwoIds
  Values <- TwoTexts
  Keys <- TwoKeys
  Ivs = {"iv"}
  LengthLimit = 32
  MaxEntries = 2
  OsFails = TRUE
  Crashes = TRUE
SYMMETRY Symmetry
INVARIANTS TypeOK CleanMeansSaved WritesAtEnd
PROPERTY Promise
CONSTRAINT OneTooMany

SPECIFICATION Spec
CONSTANTS
  a1 = a1
  a2 = a2
  s1 = s1
  s2 = s2
  Accounts <- TwoAccounts
  Secrets <- TwoSecrets
  MaxEntries = 2
  OsFails = TRUE
  Crashes = TRUE
SYMMETRY Symmetry
INVARIANTS TypeOK CleanMeansSaved WritesAtEnd
PROPERTY Promise
CONSTRAINT OneTooMany

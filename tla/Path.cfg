SPECIFICATION Spec
CONSTANTS
  Chars <- SomeChars
  DriveLetters <- SomeLetters
  Inputs <- SomeInputs
  Folders <- SomeFolders
  Executables <- SomeExecutables
  MaxLength = 6
  W = 64
INVARIANTS PartsAddUp FixKeepsMeaning ReplacedIsFound MadeWhole

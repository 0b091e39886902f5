CONSTANTS
  Trees <- SmallTrees
  Options <- AllOptions
  MaxSkipped = 1
  RenameScore = 60
  NameScore <- LetterScore
  Similarity <- Resembling
SPECIFICATION DiffSpec
INVARIANTS
  DiffIsExact
  RenamesKeepChanges

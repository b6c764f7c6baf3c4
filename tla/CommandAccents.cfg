\* A name whose UTF-8 is longer than its characters.
SPECIFICATION Spec
CONSTANTS
  IntMax = 1
  States <- TwoStates
  Names <- AccentedName
  MaxCommands = 2
  MaxBatch = 2
INVARIANT ActualCountsCharacters

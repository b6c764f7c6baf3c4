\* Registration and lookup: up to four commands over all of four ids.
SPECIFICATION Spec
CONSTANTS
  IntMax = 1
  States <- NoStates
  Names <- PlainName
  MaxCommands = 4
  MaxBatch = 0
INVARIANTS
  Sorted
  LookupServes
PROPERTY ImplementsMap

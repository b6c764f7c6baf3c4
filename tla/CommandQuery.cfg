\* Batches of up to two, over up to two commands.
SPECIFICATION Spec
CONSTANTS
  IntMax = 1
  States <- TwoStates
  Names <- PlainName
  MaxCommands = 2
  MaxBatch = 2
INVARIANTS
  TypeOK
  BatchAnswered
  BaseIsSupported
  TextOfFirst

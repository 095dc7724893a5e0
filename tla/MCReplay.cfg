SPECIFICATION Spec
CONSTANTS
  Segments = {1, 2}
  Rows = {1, 2}
  PlainBound = 3
  MaxSeed = 2
  Databases <- ThreeDatabases
  InitialDb <- MCInitialDb
  MaxEpoch = 2
INVARIANTS
  ReplayRestoresEpochZero

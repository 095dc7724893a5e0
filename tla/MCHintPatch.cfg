SPECIFICATION Spec
CONSTANTS
  Segments = {1, 2}
  Rows = {1, 2}
  PlainBound = 3
  MaxSeed = 1
  Databases <- ThreeDatabases
  InitialDb <- MCInitialDb
  MaxEpoch = 3
  MaxPrepared = 1
INVARIANTS
  ClientMatchesSetup
  CachedMaterialIsFresh
  DecodeIsExact
  HintsEncodeDb
  DeltasBridgeSetups

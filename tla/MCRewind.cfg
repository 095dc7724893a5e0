SPECIFICATION Spec
CONSTANTS
  Segments = {1, 2}
  Rows = {1, 2}
  PlainBound = 3
  MaxSeed = 1
  Databases <- TwoDatabases
  InitialDb <- MCInitialDb
  MaxEpoch = 3
  MaxPrepared = 1
INVARIANTS
  PinPlusPendingIsHead
  DecodeIsExact
  NoFalseAlarm
PROPERTIES
  ImplementsHintPatch

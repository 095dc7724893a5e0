SPECIFICATION TableSpec
CONSTANTS
  HashBits = 2
  Multiplier <- MCMultiplier
  XOR3_CHUNK_DIGITS = 2
  Chunks = 2
  fingerprint_bits = 2
  BucketSize = 2
  Items <- FourAryItems
  scheme <- FourAry
  KickBudgets = {0, 2}
  MAX_KICKS_DEFAULT = 2
  ByteBits = 3
  Window = 3
INVARIANTS
  NoFalseNegatives
  CountMatchesTable
  BytesHoldTable
PROPERTIES
  ImplementsBag

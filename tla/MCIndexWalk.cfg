SPECIFICATION WalkSpec
CONSTANTS
  HashBits = 4
  Multiplier <- MCMultiplier
  XOR3_CHUNK_DIGITS = 1
  Chunks = 2
  fingerprint_bits = 5
  MaxExponent = 2
  HashedItems <- MCHashedItems
INVARIANTS
  SameCandidates
  InOwnSegment
  SumsAreDigitwise

SPECIFICATION ServerSpec
CONSTANTS
  Arity = 2
  SegmentSize = 2
  BucketSize = 1
  NumBuckets <- MCNumBuckets
  Offsets <- MCOffsets
  Keys <- MCKeys
  Fps = {1, 6}
  Values = {0, 1}
  ZeroValue = 0
  HashItem <- MCHashItem
  AllIndices <- MCAllIndices
  KickBudgets = {4}
  DefaultMaxKicks = 4
  MaxLog = 0
  fingerprint_bits = 3
  value_bits = 7
  plaintext_bits = 4
  ByteBits = 3
  BytesOf <- MCBytesOf
  InitialTable <- FullTable
  MaxSeed = 1
  MaxEpoch = 2
INVARIANTS
  PackedAsStored
  DecodeReadsStore
  HintsMatchServedCells
PROPERTIES
  ImplementsServer

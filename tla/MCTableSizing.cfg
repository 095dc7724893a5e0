SPECIFICATION SizingSpec
CONSTANTS
  WordBits = 6
  BucketSizes = {1, 4}
  MaxItems = 256
INVARIANTS
  SmallestTable
PROPERTIES
  FindsTable
CHECK_DEADLOCK FALSE

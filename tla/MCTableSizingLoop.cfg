SPECIFICATION SizingSpec
CONSTANTS
  WordBits = 6
  BucketSizes = {1, 4}
  MaxItems = 256
PROPERTIES
  AlwaysReturns
CHECK_DEADLOCK FALSE

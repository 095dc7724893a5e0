SPECIFICATION FairSpec
CONSTANTS
  Arity = 2
  SegmentSize = 2
  BucketSize = 1
  NumBuckets <- MCNumBuckets
  Offsets <- TwoAryOffsets
  Keys <- TwoAryKeys
  Fps = {1, 2}
  Values = {0, 1}
  ZeroValue = 0
  HashItem <- MCHashItem
  AllIndices <- MCAllIndices
  KickBudgets = {0, 2, 3}
  DefaultMaxKicks = 2
  MaxLog = 0
INVARIANTS
  TypeOK
  CountMatchesTable
  EmptySlotsAreZero
  KicksOnlyFullBuckets
  LogReplaysToTable
  LogTelescopes
PROPERTIES
  FailedCallLeavesNoTrace
  ImplementsBag
  InsertTerminates

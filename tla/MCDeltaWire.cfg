SPECIFICATION Spec
CONSTANTS
  Arity = 3
  segment_size = 2
  row_width = 4
  plaintext_bits = 2
  Epochs = {1}
  Codes = {0, 3, 6, 7}
  MaxRows = 2
  MaxDeltas = 3
INVARIANTS
  AcceptedIsCanonical
  SizeAsStated
  RunsAreShortest
PROPERTIES
  EncodedIsAccepted
CHECK_DEADLOCK FALSE

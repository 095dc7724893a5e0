SPECIFICATION Spec

CONSTANTS
  None = None
  q = 256
  plaintext_bits = 2
  n_rows = 14
  row_width = 2
  lwe_dim = 3
  CHACHA_BUFFER_WORDS = 2
  Keystream <- MCKeystream
  InitialDb <- MCInitialDb
  Batches <- MCBatches
  Secrets <- MCSecrets
  Errors <- MCErrors
  QueryRows = {0, 5, 13}
  BlockRows = {1, 3}
  Threads = {1, 2}
  MaxVersion = 3
  MaxPrepared = 2

INVARIANTS
  HintIsProduct
  MaterialIsProduct
  AnswerIsProduct
  RewoundIsOlderAnswer
  DecodesWithinMargin

SPECIFICATION Spec
CONSTANTS
  BlockIds = {b1, b2, b3, b4}
  Objs <- MCObjs
  Hashes <- MCHashes
  INVALID_BLOCKID = INVALID_BLOCKID
  INVALID_HASH_VALUE = INVALID_HASH_VALUE
  Seqs = {s1, s2}
  TokenIds = {t1}
  PLACEHOLDER_TOKEN = PLACEHOLDER_TOKEN
  blockSize = 2
  MaxPrompt = 4
  maxSeqLen = 5
  ChunkSize = 2
  AsyncSchedule = TRUE
SYMMETRY Symmetry
INVARIANTS
  AllocationsComplete
  

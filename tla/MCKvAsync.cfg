SPECIFICATION Spec
CONSTANTS
  BlockIds = {b1, b2, b3}
  Objs <- MCObjs
  Hashes <- MCHashes
  INVALID_BLOCKID = INVALID_BLOCKID
  INVALID_HASH_VALUE = INVALID_HASH_VALUE
  Seqs = {s1, s2}
  TokenIds = {t1, t2}
  PLACEHOLDER_TOKEN = PLACEHOLDER_TOKEN
  blockSize = 2
  MaxPrompt = 2
  maxSeqLen = 4
  ChunkSize = 4
  AsyncSchedule = TRUE
SYMMETRY Symmetry
INVARIANTS
  KvCoherent

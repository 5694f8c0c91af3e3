SPECIFICATION Spec
CONSTANTS
  BlockIds = {b1, b2}
  INVALID_BLOCKID = INVALID_BLOCKID
  Times = {0, 1, 2}
  Depths = {1, 2}
  Tolerance = 1
  CleanupThreshold = 2
INVARIANTS
  CandidatesQueued
  QueueBounded
PROPERTIES
  AbstractSpec

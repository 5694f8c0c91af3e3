SPECIFICATION FairSpec
CONSTANTS
  Seqs = {1, 2}
  base_capacity = 2
  PromptLen = 1
  max_seq_len = 4
  MaxPreempts = 1
  MaxCapacity = 4
INVARIANTS
  TypeOK
  SlotPartition
  DecodeFindsContext
  InFlightOwned
  NoLeak
  StreamExact
PROPERTIES
  Answered
  EverySequenceEnds

SPECIFICATION Spec
CONSTANTS
  Reqs <- MCReqs
  npuBlockNum = 3
  cpuBlockNum = 1
  cacheBlockSize = 2
  maxSeqLen = 5
  maxPrefillTokens = 5
  maxBatchSize = 2
  maxPrefillBatchSize = 1
  maxPreemptCount = 1
  queueDelayRaised = FALSE
  Prompts <- MCPromptsAndTooLong
INVARIANTS
  TypeOK
  EachInOnePlace
  BlocksConserved
  SequencesFit
  EndedNotExecuted
PROPERTIES
  FirstComeFirstServed

SPECIFICATION FairSpec
CONSTANTS
  Reqs <- MCTwoReqs
  npuBlockNum = 4
  cpuBlockNum = 2
  cacheBlockSize = 2
  maxSeqLen = 6
  maxPrefillTokens = 6
  maxBatchSize = 2
  maxPrefillBatchSize = 1
  maxPreemptCount = 1
  queueDelayRaised = TRUE
  Prompts <- MCPrompts
PROPERTIES
  EveryRequestEnds

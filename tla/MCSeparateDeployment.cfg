SPECIFICATION FairSpec
CONSTANTS
  Clusters = {1, 2}
  NoCluster = 0
  PdCommands <- MCPdCommands
  window_size = 1
  MaxCommands = 3
INVARIANTS
  
  WindowBounded
  SuccessIsUp
PROPERTIES
  EveryLinkSettles
CHECK_DEADLOCK FALSE

SPECIFICATION Spec
CONSTANTS
  N = 2
  Silent = {2}
  MaxRequests = 3
INVARIANTS
  OneToken
  RequestsInOrder
  AnswersInOrder
PROPERTIES
  BroadcastSpec
  EveryRequestAnswered
CHECK_DEADLOCK FALSE

CONSTANTS
  a1 = a1
  a2 = a2
  b = b
  bad = bad
  A = A
  B = B
  c1 = c1
  c2 = c2
  Orders <- MCOrders
  Invalid <- MCInvalid
  IdOf <- MCIdOf
  Conns <- MCConns
  Script <- MCScript
  MaxPipeline = 2
  MaxCrashes = 2
SPECIFICATION FairSpec
INVARIANT ConfirmedSurvives
INVARIANT AtMostOnce
INVARIANT IdsAccountedFor
INVARIANT AcksInOrder
PROPERTY FramesAnswered
CHECK_DEADLOCK FALSE

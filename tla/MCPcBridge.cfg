SPECIFICATION FairSpec
CONSTANTS
  Nobody = Nobody
  fuse = fuse
  c2 = c2
  b1 = b1
  b2 = b2
  Callers <- TwoCallers
  Browsers <- TwoBrowsers
  OperationTimeout = 1
  FinalizeTimeout = 3
  HeartbeatTimeout = 2
  MaxSequence = 2
  MaxSessions = 2
INVARIANTS AnswerAuthentic OneRequest
PROPERTIES FailStop CallReturns

SPECIFICATION FairSpec
CONSTANTS
  Lanes = 3
  Count = 4
INVARIANTS AllThreadsBeforeWork
PROPERTIES ImplementsPool EventuallyReturns

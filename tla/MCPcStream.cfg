SPECIFICATION MCSpec
CONSTANTS
  None = None
  h1 = h1
  h2 = h2
  p1 = p1
  p2 = p2
  Handles <- TwoHandles
  Paths <- TwoPaths
  Ops <- AllOps
  Block = 2
  ReadBlock = 2
  SmallCap = 0
  MaxOffset = 1
  MaxWrites = 3
SYMMETRY Symmetry
CONSTRAINT Bound
INVARIANTS CompleteMeansCommitted CloseDelivers ReadsAreCoherent

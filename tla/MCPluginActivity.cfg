SPECIFICATION FairSpec
CONSTANTS
  p1 = p1
  p2 = p2
  t1 = t1
  t2 = t2
  none = none
  data = data
  Plugins <- TwoPlugins
  Threads <- TwoThreads
  Storages <- TwoStorages
  Exempt <- NoneOnly
  NoStorage = none
  Ids = {1, 2}
  MaxActivities = 2
  MaxDepth = 2
INVARIANTS ExclusiveStorage OneOwner WorkIsShown
PROPERTIES ClaimIsFixed ClaimReturned

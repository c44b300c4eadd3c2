SPECIFICATION FairSpec
CONSTANTS
  home = home
  away = away
  None = None
  Networks <- TwoNetworks
  MaxInits = 1
INVARIANTS RadioAsAsked
PROPERTIES BringUpAfterUnlock DispatcherAnswers

SPECIFICATION FairSpec
CONSTANTS
  h1 = h1
  h2 = h2
  Handlers <- TwoHandlers
  Features <- Everything
  MaxTransfers = 2
  MaxToggles = 4
INVARIANTS NoOrphans FinishedIsClean ResultIsOwn
PROPERTIES InstallsVerified UserFileKept InstallIsKept TransferEnds

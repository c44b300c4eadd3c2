SPECIFICATION FairSpec
CONSTANTS
  MaxOperations = 3
  Overlap = FALSE
INVARIANTS CancelIsOwn NoLostCancel SuccessIsUncancelled CompletedIsUncancelled NoStraySignal
PROPERTIES CancelStopsChild

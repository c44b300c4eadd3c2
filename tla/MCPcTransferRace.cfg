SPECIFICATION Spec
CONSTANTS
  h1 = h1
  h2 = h2
  Handlers <- TwoHandlers
  Features <- Race
  MaxTransfers = 2
  MaxToggles = 4
SYMMETRY Symmetry
PROPERTIES InstallRunsToEnd

SPECIFICATION Spec
CONSTANTS
  MaxVMs = 1
  MaxDisturbs = 0
  MaxFaults = 1
  StaleReads = TRUE
  ProviderSpecs <- PlainOnly
PROPERTIES FailedGetsNoVM
CHECK_DEADLOCK FALSE

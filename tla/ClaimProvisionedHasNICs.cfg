SPECIFICATION Spec
CONSTANTS
  MaxVMs = 1
  MaxDisturbs = 0
  MaxFaults = 1
  StaleReads = FALSE
  ProviderSpecs <- FullOnly
INVARIANTS ProvisionedHasNICs
CHECK_DEADLOCK FALSE

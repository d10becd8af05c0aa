SPECIFICATION FairSpec
CONSTANTS
  MaxVMs = 1
  MaxDisturbs = 0
  MaxFaults = 0
  StaleReads = TRUE
  ProviderSpecs <- AllSpecs
PROPERTIES BecomesProvisioned
CHECK_DEADLOCK FALSE

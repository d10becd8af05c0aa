SPECIFICATION FairSpec
CONSTANTS
  MaxVMs = 2
  MaxDisturbs = 1
  MaxFaults = 1
  StaleReads = FALSE
  ProviderSpecs <- PlainOnly
PROPERTIES DeletionCompletes
CHECK_DEADLOCK FALSE

SPECIFICATION Spec
CONSTANTS
  MaxVMs = 1
  MaxDisturbs = 0
  MaxFaults = 0
  StaleReads = FALSE
  ProviderSpecs <- PlainOnly
INVARIANTS AddressHasIP
CHECK_DEADLOCK FALSE

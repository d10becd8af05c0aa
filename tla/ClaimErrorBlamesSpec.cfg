SPECIFICATION Spec
CONSTANTS
  MaxVMs = 1
  MaxDisturbs = 0
  MaxFaults = 1
  StaleReads = FALSE
  ProviderSpecs <- PlainOnly
INVARIANTS ErrorBlamesSpec
CHECK_DEADLOCK FALSE

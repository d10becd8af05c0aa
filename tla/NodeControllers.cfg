SPECIFICATION FairSpec
CONSTANTS
  MaxVMs = 3
  MaxMishaps = 2
  MaxNodes = 3
  MaxFaults = 2
INVARIANTS NodeInv
PROPERTIES ProviderIDOnce DeletesDeadOnly BareNodeKept OrphanNodeGoes ProviderIDArrives
CHECK_DEADLOCK FALSE

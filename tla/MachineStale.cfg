SPECIFICATION Spec
CONSTANTS
  MaxVMs = 2
  MaxDisturbs = 1
  MaxFaults = 2
  StaleReads = TRUE
  ProviderSpecs <- AllSpecs
INVARIANTS TypeOK NoOrphanVM OrphanInv ProvisionedHasID StartedConfigured ProvisionedIsComplete
PROPERTIES RemovesOnlyDeleted ImplementsLifecycle ReplacesOnlyLost FailsWithoutVM
CHECK_DEADLOCK FALSE

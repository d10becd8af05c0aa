SPECIFICATION FairSpec
CONSTANTS
  Clients <- TwoClients
  Listeners <- InOrder
  Callers <- TwoRequests
  ClientOf <- SharedClient
  MaxVersion = 3
  Malformed <- SecondIsBad
  MaxFaults = 1
INVARIANTS TypeOK ClientIsCurrent ClientInv
PROPERTIES CredentialsAdvance CredentialsArrive StartsUp ShutdownEnds
CHECK_DEADLOCK FALSE

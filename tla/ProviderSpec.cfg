SPECIFICATION Spec
CONSTANTS
  Cases <- AllCases
  Half = 128
  GB = 16
INVARIANTS AcceptedIsCreated DiskIsExtended AddressIsOwn
CHECK_DEADLOCK FALSE

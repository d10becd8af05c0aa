SPECIFICATION Spec
CONSTANTS
  Cases <- AllCases
  Half = 128
  GB = 16
INVARIANTS InvalidIsReported
CHECK_DEADLOCK FALSE

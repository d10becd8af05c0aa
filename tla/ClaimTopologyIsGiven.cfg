SPECIFICATION Spec
CONSTANTS
  Cases <- BaseCases
  Half = 128
  GB = 16
INVARIANTS TopologyIsGiven
CHECK_DEADLOCK FALSE

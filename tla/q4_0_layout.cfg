SPECIFICATION Spec
CONSTANTS
  Calls <- MCCalls
  InFloats = 32
  OutFloats = 2
  SerialRows = 1
  HwThreads = 2
  GpuWeightLimit = 80
CHECK_DEADLOCK FALSE
INVARIANT ProductsMatchLookups

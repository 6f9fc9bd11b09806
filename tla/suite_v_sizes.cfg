SPECIFICATION Spec
CONSTANTS
  WordBits = 5
  MaxSizes = 7
  Commands <- WrappingSweeps
  Measurements <- MCMeasurements
INVARIANT SizesAreExact
CHECK_DEADLOCK FALSE

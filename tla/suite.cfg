SPECIFICATION Spec
CONSTANTS
  WordBits = 5
  MaxSizes = 7
  Commands <- SoundCommands
  Measurements <- MCMeasurements
INVARIANTS
  IInv
  SizesAreExact
  CellsUnderTheirHeading
  TablesTellEveryRun
PROPERTIES
  MatrixSpec

SPECIFICATION FairSpec
CONSTANTS
  Suite <- MixedSuites
  Foreign <- D3os
  Listen <- AnyServer
  Faults <- NoFaults
INVARIANTS
  RowsUnderTheirHeader
  UdIsNeverBuilt
PROPERTIES
  EveryRunIsServed

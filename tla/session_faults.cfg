SPECIFICATION FairSpec
CONSTANTS
  Suite <- HardSuites
  Foreign <- D3os
  Listen <- Listening
  Faults <- RunFaults
INVARIANTS
  IInv
  StreamsStayFramed
  TrafficFindsPeerReady
PROPERTIES
  ServiceSpec
  ServerReturns
  EveryClientFinishes

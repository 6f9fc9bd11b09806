SPECIFICATION FairSpec
CONSTANTS
  Iterations = 4
  TxDepth = 3
  RxDepth = 2
  Faults <- AllFaults
INVARIANTS
  TypeOK
  QueuesNeverOverflow
  IInv
  FirstWindowIsReceivable
  RcDeliversAll
  ClientResultStands
PROPERTIES
  EveryRunEnds
  UndisturbedSucceeds
  RendezvousSpec

SPECIFICATION FairSpec
CONSTANTS
  Transports <- BothTransports
  Iterations = 3
  TxDepth = 2
  RxDepth = 2
  Faults <- AllFaults
  MaxMishaps = 1
INVARIANTS
  TypeOK
  IInv
  ReceiveSlotsHaveOnePlace
  ReportBalances
  NothingInvented
  RcReportIsPerfect
  ReportIsFinal
PROPERTIES
  EveryRunEnds
  UndisturbedSucceeds
  RendezvousSpec

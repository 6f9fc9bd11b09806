SPECIFICATION FairSpec
CONSTANTS
  Iterations = 3
  TxDepth = 2
  RxDepth = 1
  Faults <- AllFaults
  Prompts <- AnyPace
  Carriers <- OverEither
INVARIANTS
  IInv
  RoundTripsDoNotOverlap
  CompleteRunAgrees
  EchoBufferOutlivesSend
PROPERTIES
  EveryRunEnds
  UndisturbedSucceeds
  RendezvousSpec

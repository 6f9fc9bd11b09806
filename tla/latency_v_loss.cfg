SPECIFICATION Spec
CONSTANTS
  Carriers <- OverUc
  Iterations = 2
  TxDepth = 2
  RxDepth = 1
  Faults <- NoFaults
  Prompts <- AlwaysPrompt
INVARIANTS
  TimeoutMeansLoss

SPECIFICATION Spec
CONSTANTS
  Carriers <- OverRc
  Iterations = 2
  TxDepth = 1
  RxDepth = 1
  Faults <- NoFaults
  Prompts <- AlwaysPrompt
INVARIANTS
  DepthsDoNotApply

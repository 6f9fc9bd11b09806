SPECIFICATION Spec
CONSTANTS
  Suite <- LoneSuites
  Foreign <- D3os
  Listen <- Listening
  Faults <- AcceptFault
INVARIANT ListeningServerStays

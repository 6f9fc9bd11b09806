------------------------------- MODULE MCSession -------------------------------
(***************************************************************************)
(* Session.tla for TLC: who runs what.                                     *)
(***************************************************************************)
EXTENDS SessionInv

Run(t, m) == [transport |-> t, mode |-> m]

\* Runs of a client, two of them in a mode that may yield no numbers, while a
\* D3OS client asks for one-sided modes; each side rejects a run, UD ones among
\* them.
MixedSuites ==
  [linux |-> <<Run("Rc", "Bandwidth"), Run("Uc", "Latency"), Run("Ud", "Latency"), Run("Rc", "Latency")>>,
   d3os |-> <<Run("Uc", "RdmaRead"), Run("Ud", "Bandwidth"), Run("Rc", "RdmaWrite")>>]

\* A run the client abandons after the handshake, and both barrier patterns,
\* for the runs with faults.
HardSuites ==
  [linux |-> <<Run("Rc", "RdmaWrite"), Run("Rc", "Accuracy")>>,
   d3os |-> <<Run("Uc", "Latency")>>]

\* Two clients with a run each, after one that is rejected.
LoneSuites ==
  [linux |-> <<Run("Ud", "Latency"), Run("Rc", "Accuracy")>>,
   d3os |-> <<Run("Ud", "Bandwidth"), Run("Rc", "RdmaRead")>>]

D3os == {"d3os"}
Listening == {TRUE}
AnyServer == BOOLEAN
NoFaults == {}
RunFaults == {"verbs", "kill", "accept"}
AcceptFault == {"accept"}
===============================================================================

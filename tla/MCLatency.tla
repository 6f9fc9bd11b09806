------------------------------- MODULE MCLatency -------------------------------
(***************************************************************************)
(* Latency.tla for TLC: the faults, paces and transports the runs choose from. *)
(***************************************************************************)
EXTENDS LatencyInv

NoFaults == {}
FabricLoss == {"loss"}
AllFaults == {"kill", "hca", "loss"}

AlwaysPrompt == {TRUE}
HeldUp == {FALSE}
AnyPace == BOOLEAN

OverRc == {"Rc"}
OverUc == {"Uc"}
OverEither == Transports
===============================================================================

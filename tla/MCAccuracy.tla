------------------------------- MODULE MCAccuracy -------------------------------
(***************************************************************************)
(* Accuracy.tla for TLC: the transports and faults of the runs.            *)
(***************************************************************************)
EXTENDS AccuracyInv

BothTransports == {"Rc", "Uc"}
AllFaults == {"kill", "hca", "loss", "damage", "duplicate", "reorder"}
===============================================================================

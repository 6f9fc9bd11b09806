------------------------------ MODULE MCBandwidth ------------------------------
(***************************************************************************)
(* Bandwidth.tla for TLC: what may go wrong.                               *)
(***************************************************************************)
EXTENDS BandwidthInv

AllFaults == {"kill", "hca", "loss"}
===============================================================================

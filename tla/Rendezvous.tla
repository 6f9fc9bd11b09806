------------------------------ MODULE Rendezvous ------------------------------
(***************************************************************************)
(* What `Conn::sync` promises (comm.rs:145): "a one-byte round trip both   *)
(* sides call at the same logical point, so neither proceeds past it until *)
(* the other has reached it too".  A party arrives at barriers one after   *)
(* the other and leaves a barrier only when everybody has arrived there.   *)
(* A party may stop for good anywhere.                                     *)
(***************************************************************************)
EXTENDS Naturals

CONSTANTS Party,   \* who takes part
          Rounds   \* how many barriers a run has

VARIABLES arrived, \* arrived[p]: barriers p has reached
          left     \* left[p]: barriers p has gone past

vars == <<arrived, left>>

Init ==
  /\ arrived = [p \in Party |-> 0]
  /\ left = [p \in Party |-> 0]

Arrive(p) ==
  /\ arrived[p] = left[p]
  /\ arrived[p] < Rounds
  /\ arrived' = [arrived EXCEPT ![p] = @ + 1]
  /\ UNCHANGED left

Leave(p) ==
  /\ left[p] < arrived[p]
  /\ \A q \in Party : left[p] < arrived[q]
  /\ left' = [left EXCEPT ![p] = @ + 1]
  /\ UNCHANGED arrived

Next == \E p \in Party : Arrive(p) \/ Leave(p)

Spec == Init /\ [][Next]_vars
===============================================================================

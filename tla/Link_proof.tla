------------------------------- MODULE Link_proof -------------------------------
(***************************************************************************)
(* What the steps of a message do to the counters of its direction, for    *)
(* the proofs about the benchmarks that use Link.tla.                      *)
(***************************************************************************)
EXTENDS Link, TLAPS

(* Each step keeps the counters natural numbers when the counter it takes  *)
(* from is not zero.                                                       *)
LEMMA LinkTypes ==
  ASSUME NEW l \in LinkState, NEW t \in Transports
  PROVE  /\ PostSend(l) \in LinkState
         /\ PostReceive(l) \in LinkState
         /\ l.sq > 0 => Transmitted(l) \in LinkState
         /\ l.wire > 0 /\ l.rq > 0 => Delivered(t, l) \in LinkState
         /\ l.unacked > 0 => Acknowledged(l) \in LinkState
         /\ l.wire > 0 => Lost(l) \in LinkState
<1>1. PostSend(l) \in LinkState /\ PostReceive(l) \in LinkState
  BY DEF LinkState, PostSend, PostReceive
<1>2. ASSUME l.sq > 0 PROVE Transmitted(l) \in LinkState
  <2>1. l.sq - 1 \in Nat /\ l.wire + 1 \in Nat
    BY <1>2 DEF LinkState
  <2> QED
    BY <2>1 DEF LinkState, Transmitted
<1>3. ASSUME l.wire > 0, l.rq > 0 PROVE Delivered(t, l) \in LinkState
  <2>1. l.wire - 1 \in Nat /\ l.rq - 1 \in Nat /\ l.unacked + 1 \in Nat
    BY <1>3 DEF LinkState
  <2> QED
    BY <2>1 DEF LinkState, Delivered
<1>4. /\ l.unacked > 0 => Acknowledged(l) \in LinkState
      /\ l.wire > 0 => Lost(l) \in LinkState
  BY DEF LinkState, Acknowledged, Lost
<1> QED
  BY <1>1, <1>2, <1>3, <1>4

(* Posting touches one counter.                                            *)
LEMMA PostedFields ==
  ASSUME NEW l \in LinkState
  PROVE  /\ PostSend(l).sq = l.sq + 1 /\ PostSend(l).wire = l.wire
         /\ PostSend(l).unacked = l.unacked /\ PostSend(l).rq = l.rq
         /\ PostReceive(l).sq = l.sq /\ PostReceive(l).wire = l.wire
         /\ PostReceive(l).unacked = l.unacked /\ PostReceive(l).rq = l.rq + 1
  BY DEF LinkState, PostSend, PostReceive

(* The adapter puts a send on the wire.                                    *)
LEMMA TransmittedFields ==
  ASSUME NEW l \in LinkState
  PROVE  /\ Transmitted(l).sq = l.sq - 1 /\ Transmitted(l).wire = l.wire + 1
         /\ Transmitted(l).unacked = l.unacked /\ Transmitted(l).rq = l.rq
  BY DEF LinkState, Transmitted

(* A message leaves the wire for a receive; RC owes an acknowledgement.    *)
LEMMA DeliveredFields ==
  ASSUME NEW l \in LinkState, NEW t \in Transports
  PROVE  /\ Delivered(t, l).sq = l.sq /\ Delivered(t, l).wire = l.wire - 1
         /\ Delivered(t, l).unacked = IF t = "Rc" THEN l.unacked + 1 ELSE l.unacked
         /\ Delivered(t, l).rq = l.rq - 1
  BY DEF LinkState, Delivered

(* The acknowledgement settles one delivered message.                      *)
LEMMA AcknowledgedFields ==
  ASSUME NEW l \in LinkState
  PROVE  /\ Acknowledged(l).sq = l.sq /\ Acknowledged(l).wire = l.wire
         /\ Acknowledged(l).unacked = l.unacked - 1 /\ Acknowledged(l).rq = l.rq
  BY DEF LinkState, Acknowledged

(* A lost message is nowhere any more.                                     *)
LEMMA LostFields ==
  ASSUME NEW l \in LinkState
  PROVE  /\ Lost(l).sq = l.sq /\ Lost(l).wire = l.wire - 1
         /\ Lost(l).unacked = l.unacked /\ Lost(l).rq = l.rq
  BY DEF LinkState, Lost
===============================================================================

--------------------------------- MODULE Link ---------------------------------
(***************************************************************************)
(* One direction of RDMA SEND traffic between two connected queue pairs,   *)
(* as the benchmarks use it through the ibverbs crate.  The crate, the     *)
(* driver and the adapter are not part of the repository: this is their    *)
(* behaviour as far as transport/rc.rs, transport/uc.rs and bench/ rely on *)
(* it.  Messages are counted, not named: every benchmark that uses this    *)
(* module treats the messages of a direction alike.                        *)
(*                                                                         *)
(*   sq       sends the adapter has not put on the wire yet                *)
(*   wire     messages on their way to the receiving adapter               *)
(*   unacked  delivered, acknowledgement on its way back (RC only)         *)
(*   rq       receives posted at the other end and not yet filled          *)
(*                                                                         *)
(* A send completes on RC when it has been acknowledged, on UC as soon as  *)
(* the adapter has transmitted it: "UC acknowledges nothing and            *)
(* retransmits nothing" (uc.rs:8).                                         *)
(***************************************************************************)
EXTENDS Naturals

Transports == {"Rc", "Uc"}   \* the connected ones

LinkState == [sq : Nat, wire : Nat, unacked : Nat, rq : Nat]

QuietLink == [sq |-> 0, wire |-> 0, unacked |-> 0, rq |-> 0]

PostSend(l) == [l EXCEPT !.sq = @ + 1]

PostReceive(l) == [l EXCEPT !.rq = @ + 1]

Transmitted(l) == [l EXCEPT !.sq = @ - 1, !.wire = @ + 1]

\* A message fills the oldest posted receive.
Delivered(transport, l) ==
  [l EXCEPT !.wire = @ - 1,
            !.rq = @ - 1,
            !.unacked = IF transport = "Rc" THEN @ + 1 ELSE @]

Acknowledged(l) == [l EXCEPT !.unacked = @ - 1]

Lost(l) == [l EXCEPT !.wire = @ - 1]

\* Sends of this direction the adapters are not finished with.
Underway(l) == l.sq + l.wire + l.unacked
===============================================================================

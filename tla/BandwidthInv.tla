------------------------------ MODULE BandwidthInv ------------------------------
(***************************************************************************)
(* The inductive invariant behind the safety properties of Bandwidth.tla.  *)
(* None of those properties is inductive by itself: each follows from an   *)
(* account of where every message, completion, work request and barrier    *)
(* byte is.  TLC checks IInv (MCBandwidth.tla); Bandwidth_proof.tla proves *)
(* it for every number of messages and every depth.                        *)
(***************************************************************************)
EXTENDS Bandwidth

(* A side's place in the code and the barriers behind it go together.      *)
Shape ==
  \A r \in Role :
    /\ barriers[r] <= 4
    /\ phase[r] = "returned" <=> barriers[r] = 4
    /\ phase[r] = "post" => barriers[r] = IF r = "Server" THEN 2 ELSE 3
    /\ phase[r] \in {"poll", "refill"} => barriers[r] = 3

(* How a run can have ended.  "disconnected" blames the peer, and rightly. *)
Endings ==
  \A r \in Role :
    /\ outcome[r] = "ok" => phase[r] = "returned"
    /\ outcome[r] = "running" => phase[r] # "returned"
    /\ outcome[r] = "wc_error" => phase[r] = "poll"
    /\ outcome[r] # "queue_full"
    /\ outcome[r] = "disconnected" => dropped[Peer(r)]
    /\ dropped[r] => ~Running(r)

(* Each byte of a barrier is unread by the one side or counted by it.      *)
BarrierBytes ==
  \A r \in Role : inbox[r] + barriers[r] = Arrived[Peer(r)]

(* A side never has more work requests in its queue, or still to be posted *)
(* by the refill loop it is in, than its window.                           *)
WindowHeld ==
  \A r \in Role :
    /\ posted[r] + burst[r] <= completed[r] + Window(r)
    /\ burst[r] > 0 <=> phase[r] = "refill"

(* The server enters the third barrier with its first window posted; the   *)
(* client sends nothing before it is past that barrier.                    *)
FirstWindow ==
  /\ barriers["Server"] >= 3 \/ (barriers["Server"] = 2 /\ phase["Server"] # "post")
       => posted["Server"] >= Window("Server")
  /\ posted["Client"] > 0 => barriers["Client"] >= 3

(* Where the work requests are.  A receive is empty, or its completion is  *)
(* unpolled, or it has been polled; a send may also be lost.  Nobody       *)
(* acknowledges anything on UC.                                            *)
Credits ==
  /\ posted["Server"] = completed["Server"] + cqe["Server"] + link.rq
  /\ completed["Client"] + cqe["Client"] + Outstanding("Client") <= posted["Client"]
  /\ transport = "Uc" => link.unacked = 0

(* Every message the server saw was sent; over RC, none is missing as long *)
(* as the client's queue pair works.                                       *)
Messages ==
  LET seen == link.sq + link.wire + cqe["Server"] + completed["Server"]
  IN /\ seen <= posted["Client"]
     /\ transport = "Rc" /\ ~broken["Client"] /\ ~Failed("Client")
          => seen = posted["Client"]

(* The client leaves its loop with every send completed, and a send that   *)
(* failed is one that never will be.                                       *)
ClientDone ==
  /\ broken["Client"] => completed["Client"] + cqe["Client"] < Iterations
  /\ PastLoop("Client") => completed["Client"] >= Iterations

(* The inductive invariant, from which every safety property of the module *)
(* follows.                                                                *)
IInv ==
  /\ TypeOK /\ Shape /\ Endings /\ BarrierBytes /\ WindowHeld
  /\ FirstWindow /\ Credits /\ Messages /\ ClientDone
  /\ ClientResultStands
===============================================================================

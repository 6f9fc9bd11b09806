------------------------------- MODULE LatencyInv -------------------------------
(***************************************************************************)
(* The inductive invariant behind the safety properties of Latency.tla:    *)
(* where the one round trip is that a ping-pong has under way, and what    *)
(* the counts of both sides are counts of.  TLC checks IInv                *)
(* (MCLatency.tla); Latency_proof.tla proves it for every number of round  *)
(* trips and all depths.                                                   *)
(***************************************************************************)
EXTENDS Latency

(* A side's place in the code and the barriers behind it go together; a    *)
(* side that gave up is past its loop, and the server only ever waits for  *)
(* a message.                                                              *)
Shape ==
  /\ \A r \in Role :
       /\ phase[r] \in {"sync", "wait"} => barriers[r] < 4
       /\ phase[r] = "post" => barriers[r] = 2
       /\ phase[r] \in {"send", "poll", "repost"} => barriers[r] = 3
       /\ phase[r] = "returned" => barriers[r] = 4
       /\ outcome[r] = "ok" => phase[r] = "returned"
       /\ outcome[r] = "running" => phase[r] # "returned"
       /\ gaveUp[r] => barriers[r] >= 3 /\ phase[r] \in {"sync", "wait", "returned"}
  /\ phase["Server"] = "poll" => pending["Server"] = {WR_RECV}

(* Each byte of a barrier is unread by the one side or counted by it.      *)
BarrierBytes ==
  \A r \in Role : inbox[r] + barriers[r] = Arrived[Peer(r)]

\* Work requests of kind w in r's queues whose completion has not come.
Incomplete(r, w) ==
  IF w = WR_RECV THEN link[Peer(r)].rq
  ELSE IF transport = "Uc" THEN link[r].sq ELSE Underway(link[r])

(* A place in a work queue is taken from the post until the completion is  *)
(* polled, so the completions fit their queue.  UC acknowledges nothing.   *)
QueuesHeld ==
  /\ \A r \in Role, w \in WrId :
       /\ Incomplete(r, w) + CountOf(w, cq[r]) <= held[r][w]
       /\ held[r][w] <= Depth(w)
  /\ transport = "Uc" => \A r \in Role : link[r].unacked = 0

One(b) == IF b THEN 1 ELSE 0

\* Where a round trip may be: a message of r's, on its way or arrived and not
\* polled; in the server's hands; back in the client's.
Way(r) == link[r].sq + link[r].wire + CountOf(WR_RECV, cq[Peer(r)])
AtServer == One(phase["Server"] = "send")
AtClient == One(phase["Client"] = "poll" /\ WR_RECV \notin pending["Client"])

(* There is one round trip at a time, and between two of them none, unless *)
(* the client has given up on one.                                         *)
OneRoundTrip ==
  /\ Way("Client") + AtServer + Way("Server") + AtClient <= 1
  /\ phase["Client"] # "poll" /\ ~gaveUp["Client"]
       => Way("Client") = 0 /\ AtServer = 0 /\ Way("Server") = 0

(* The counts keep step with the loops: the client has timed each round    *)
(* trip it has begun but the one it is in, the server echoed what it was   *)
(* sent, and whatever came back was echoed.                                *)
Counts ==
  /\ \A r \in Role :
       /\ barriers[r] < 3 => rounds[r] = 0
       /\ phase[r] = "send" => rounds[r] < Iterations
  /\ phase["Client"] = "repost" => rounds["Client"] < Iterations
  /\ phase["Server"] = "poll" => rounds["Server"] < Iterations
  /\ samples + One(phase["Client"] = "poll" \/ gaveUp["Client"]) = rounds["Client"]
  /\ barriers["Client"] >= 3 /\ phase["Client"] \in {"sync", "wait", "returned"}
       => gaveUp["Client"] \/ rounds["Client"] = Iterations
  /\ echoed + One(phase["Server"] = "repost") = rounds["Server"]
  /\ gaveUp["Server"] => rounds["Server"] < Iterations
  /\ samples + Way("Server") + AtClient <= rounds["Server"]

(* The inductive invariant, from which every safety property of the module *)
(* follows.                                                                *)
IInv ==
  /\ TypeOK /\ Shape /\ BarrierBytes /\ QueuesHeld /\ OneRoundTrip /\ Counts
================================================================================

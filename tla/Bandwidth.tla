------------------------------- MODULE Bandwidth -------------------------------
(***************************************************************************)
(* The bandwidth benchmark (bench/bandwidth.rs): the client streams        *)
(* Iterations equal messages with at most TxDepth outstanding, the server  *)
(* keeps at most RxDepth receives posted, and four barriers frame the      *)
(* stream.  Both processes, the adapters between them and the ends of the  *)
(* out-of-band connection move independently.                              *)
(*                                                                         *)
(* Both sides run the same loop on their own queue, so posted, completed   *)
(* and burst are indexed by the side; burst counts the turns left of the   *)
(* `for _ in 0..n` loop that refills the queue after a poll.               *)
(***************************************************************************)
EXTENDS Conn, Link

CONSTANTS Iterations, TxDepth, RxDepth,
          Faults    \* what may go wrong: subset of {"kill", "hca", "loss"}

\* ClientArgs::plan refuses zero for each of the three (cli.rs:129-142).
ASSUME StreamAssumption ==
  /\ Iterations \in Nat \ {0}
  /\ TxDepth \in Nat \ {0}
  /\ RxDepth \in Nat \ {0}
  /\ Faults \subseteq {"kill", "hca", "loss"}

VARIABLES
  transport, \* of this run
  link,      \* the messages of the run, client to server
  cqe,       \* cqe[r]: completions in r's queue that r has not polled
  broken,    \* broken[r]: r's queue pair is in the error state and a failed
             \* completion waits in r's queue
  posted,    \* posted[r]: work requests r has posted
  completed, \* completed[r]: completions r has polled
  burst      \* burst[r]: turns left of r's refill loop

rdmaVars == <<link, cqe, broken>>
loopVars == <<posted, completed, burst>>
vars == <<transport, connVars, rdmaVars, loopVars>>

LeastOf(a, b) == IF a < b THEN a ELSE b

Depth(r) == IF r = "Client" THEN TxDepth ELSE RxDepth

\* A variant for the mutation runs: the first window ignores the depth.
WindowUnbounded(r) == Iterations

\* bandwidth.rs:45 and 106: let window = depth.min(iterations)
Window(r) == LeastOf(Depth(r), Iterations)

QpDown(r) == broken[r] \/ QpGone(r)

Init ==
  /\ transport \in Transports
  /\ ConnInit([r \in Role |-> "sync"])
  /\ link = QuietLink
  /\ cqe = [r \in Role |-> 0]
  /\ broken = [r \in Role |-> FALSE]
  /\ posted = [r \in Role |-> 0]
  /\ completed = [r \in Role |-> 0]
  /\ burst = [r \in Role |-> 0]

\* A variant for the mutation runs: the server posts its receives too late.
AfterBarrierUnready(r, b) ==
  CASE b <= 2 -> "sync"
    [] b = 3 -> "post"
    [] OTHER -> "returned"

\* Where r is after its b-th barrier: two barriers around the warm-up pause,
\* one between the server's first receives and the client's first sends, one
\* at the end.
AfterBarrier(r, b) ==
  CASE b < 2 -> "sync"
    [] b = 2 -> IF r = "Server" THEN "post" ELSE "sync"
    [] b = 3 -> IF r = "Server" THEN "poll" ELSE "post"
    [] OTHER -> "returned"

Sync(r) ==
  /\ \/ SyncWrite(r)
     \/ SyncRead(r, AfterBarrier(r, barriers[r] + 1))
     \/ SyncBroken(r)
  /\ UNCHANGED <<rdmaVars, loopVars>>

\* qp.post_send / qp.post_receive.  A work request keeps its place in the
\* queue until its completion has been polled; a full queue rejects the post.
HasRoom(r) == posted[r] - completed[r] < Depth(r)

Post(r) ==
  /\ link' = IF r = "Client" THEN PostSend(link) ELSE PostReceive(link)
  /\ posted' = [posted EXCEPT ![r] = @ + 1]
  /\ UNCHANGED <<cqe, broken, completed>>

PostRejected(r) ==
  /\ ~HasRoom(r)
  /\ Fail(r, "queue_full")
  /\ UNCHANGED <<rdmaVars, loopVars>>

\* for i in 0..window { qp.post_...(mr, .., i)? }
PostFirst(r) ==
  /\ Running(r) /\ phase[r] = "post"
  /\ posted[r] < Window(r)
  /\ \/ /\ HasRoom(r)
        /\ Post(r)
        /\ UNCHANGED <<connVars, burst>>
     \/ PostRejected(r)

FirstPosted(r) ==
  /\ Running(r) /\ phase[r] = "post"
  /\ posted[r] = Window(r)
  /\ Goto(r, IF r = "Server" THEN "sync" ELSE "poll")
  /\ UNCHANGED <<barriers, inbox, outcome, dropped, rdmaVars, loopVars>>

Looping(r) == Running(r) /\ phase[r] = "poll" /\ completed[r] < Iterations

\* A variant for the mutation runs: the refill loop runs once too often.
TurnsOneMore(n) == n + 1

\* for _ in 0..n
Turns(n) == n

\* cq.poll returned n > 0 completions, all of them good; wc holds Depth(r).
Poll(r) ==
  LET n == LeastOf(cqe[r], Depth(r))
  IN /\ Looping(r)
     /\ n > 0
     /\ cqe' = [cqe EXCEPT ![r] = @ - n]
     /\ completed' = [completed EXCEPT ![r] = @ + n]
     /\ burst' = [burst EXCEPT ![r] = Turns(n)]
     /\ Goto(r, "refill")
     /\ UNCHANGED <<barriers, inbox, outcome, dropped, link, broken, posted>>

\* One of the polled completions carries an error status.
PollError(r) ==
  /\ Looping(r)
  /\ broken[r]
  /\ Fail(r, "wc_error")
  /\ UNCHANGED <<rdmaVars, loopVars>>

\* A variant for the mutation runs: the test is missing.
MoreToPostAlways(r) == TRUE

MoreToPost(r) == posted[r] < Iterations

\* One turn of `for _ in 0..n { if posted < iterations { post } }`.
Refill(r) ==
  /\ Running(r) /\ phase[r] = "refill" /\ burst[r] > 0
  /\ \/ /\ IF MoreToPost(r) THEN HasRoom(r) /\ Post(r)
                           ELSE UNCHANGED <<link, posted, cqe, broken, completed>>
        /\ burst' = [burst EXCEPT ![r] = @ - 1]
        /\ Goto(r, IF burst[r] = 1 THEN "poll" ELSE "refill")
        /\ UNCHANGED <<barriers, inbox, outcome, dropped>>
     \/ MoreToPost(r) /\ PostRejected(r)

\* A variant for the mutation runs: the loop ends one completion early.
AllCompletedEarly(r) == completed[r] >= Iterations - 1

AllCompleted(r) == completed[r] >= Iterations

\* The loop condition `completed < iterations` is false.
LoopDone(r) ==
  /\ Running(r) /\ phase[r] = "poll"
  /\ AllCompleted(r)
  /\ Goto(r, "sync")
  /\ UNCHANGED <<barriers, inbox, outcome, dropped, rdmaVars, loopVars>>

\* A variant for the mutation runs: the receiver's loop has no idle timeout.
IdleTimeoutNever == FALSE

\* The server's poll came back empty and it has seen nothing for IDLE_TIMEOUT.
\* What is to come may still come: a process can be held up for longer.
IdleTimeout ==
  /\ Looping("Server")
  /\ cqe["Server"] = 0 /\ ~broken["Server"]
  /\ Goto("Server", "sync")
  /\ UNCHANGED <<barriers, inbox, outcome, dropped, rdmaVars, loopVars>>

Process(r) ==
  \/ Sync(r) \/ PostFirst(r) \/ FirstPosted(r)
  \/ Poll(r) \/ PollError(r) \/ Refill(r) \/ LoopDone(r)
  \/ r = "Server" /\ IdleTimeout
  \/ Drop(r) /\ UNCHANGED <<rdmaVars, loopVars>>
-------------------------------------------------------------------------------
(***************************************************************************)
(* The adapters and the fabric.                                            *)
(***************************************************************************)

Transmit ==
  /\ link.sq > 0 /\ ~QpDown("Client")
  /\ link' = Transmitted(link)
  /\ cqe' = IF transport = "Uc" THEN [cqe EXCEPT !["Client"] = @ + 1] ELSE cqe
  /\ UNCHANGED <<connVars, broken, loopVars>>

Deliver ==
  /\ link.wire > 0 /\ link.rq > 0 /\ ~QpDown("Server")
  /\ link' = Delivered(transport, link)
  /\ cqe' = [cqe EXCEPT !["Server"] = @ + 1]
  /\ UNCHANGED <<connVars, broken, loopVars>>

Acknowledge ==
  /\ link.unacked > 0 /\ ~QpDown("Client")
  /\ link' = Acknowledged(link)
  /\ cqe' = [cqe EXCEPT !["Client"] = @ + 1]
  /\ UNCHANGED <<connVars, broken, loopVars>>

\* UC drops what finds no receive; RC drops only what nobody retransmits.
Lose ==
  /\ link.wire > 0
  /\ \/ /\ transport = "Uc"
        /\ link.rq = 0 \/ QpDown("Server") \/ "loss" \in Faults
     \/ transport = "Rc" /\ QpDown("Client")
  /\ link' = Lost(link)
  /\ UNCHANGED <<connVars, cqe, broken, loopVars>>

RetriesEnd ==
  \/ link.wire > 0 /\ link.rq = 0
  \/ link.wire + link.unacked > 0 /\ QpDown("Server")

\* RC gives up after a bounded number of retries and fails the send.
RetryExceeded ==
  /\ transport = "Rc" /\ ~QpDown("Client")
  /\ RetriesEnd
  /\ broken' = [broken EXCEPT !["Client"] = TRUE]
  /\ UNCHANGED <<connVars, link, cqe, loopVars>>

\* Work requests of r that have not completed.
Outstanding(r) ==
  CASE r = "Server" -> link.rq
    [] r = "Client" /\ transport = "Uc" -> link.sq
    [] OTHER -> Underway(link)

HcaFault(r) ==
  /\ "hca" \in Faults /\ ~QpDown(r)
  /\ Outstanding(r) > 0
  /\ broken' = [broken EXCEPT ![r] = TRUE]
  /\ UNCHANGED <<connVars, link, cqe, loopVars>>

Killed(r) ==
  /\ "kill" \in Faults
  /\ Kill(r)
  /\ UNCHANGED <<rdmaVars, loopVars>>

\* The run is over for good.
Over == (\A r \in Role : dropped[r]) /\ UNCHANGED vars

Adapters == Transmit \/ Deliver \/ Acknowledge \/ Lose \/ RetryExceeded

Step ==
  \/ \E r \in Role : Process(r)
  \/ Adapters
  \/ \E r \in Role : HcaFault(r) \/ Killed(r)

Next == Over \/ (Step /\ UNCHANGED transport)

\* The scheduler runs both processes and the adapters work on what they have;
\* faults owe nothing.
Fairness ==
  /\ \A r \in Role : WF_vars(Process(r) /\ UNCHANGED transport)
  /\ WF_vars(Adapters /\ UNCHANGED transport)

Spec == Init /\ [][Next]_vars

FairSpec == Spec /\ Fairness
-------------------------------------------------------------------------------
(***************************************************************************)
(* Properties.                                                             *)
(***************************************************************************)

(* Types; neither side ever posts more work requests than the run has      *)
(* messages (the `posted < iterations` tests of both loops).               *)
TypeOK ==
  /\ transport \in Transports
  /\ phase \in [Role -> {"sync", "wait", "post", "poll", "refill", "returned"}]
  /\ barriers \in [Role -> Nat]
  /\ inbox \in [Role -> Nat]
  /\ outcome \in [Role -> Outcome]
  /\ dropped \in [Role -> BOOLEAN]
  /\ link \in LinkState
  /\ cqe \in [Role -> Nat]
  /\ broken \in [Role -> BOOLEAN]
  /\ posted \in [Role -> 0 .. Iterations]
  /\ completed \in [Role -> Nat]
  /\ burst \in [Role -> Nat]

(* No post is ever rejected by a full queue, and the completion queue of   *)
(* tx_depth + rx_depth entries (server.rs:45, client.rs:180) never         *)
(* overflows, although completions keep arriving while a loop refills.     *)
QueuesNeverOverflow ==
  \A r \in Role : outcome[r] # "queue_full" /\ cqe[r] <= TxDepth + RxDepth

(* The third barrier does its work (plan.md:216: "so the client doesn't    *)
(* start sending before the server has posted its initial batch of         *)
(* receives"): a message can find the receive queue empty only when the    *)
(* client has sent more than the server's first window.                    *)
FirstWindowIsReceivable ==
  link.wire > 0 /\ link.rq = 0 => posted["Client"] > Window("Server")

\* r has left its loop for good: it posts nothing any more.
PastLoop(r) == barriers[r] >= 3 /\ phase[r] \in {"sync", "wait", "returned"}

(* When the client reports a result over RC, every message it counted has  *)
(* filled a receive of the server, also one the server gave up on polling. *)
RcDeliversAll ==
  transport = "Rc" /\ outcome["Client"] = "ok" =>
    completed["Server"] + cqe["Server"] = Iterations

(* Once the client has its result, the server has stopped reposting        *)
(* (plan.md:220) and its own run cannot fail any more unless the process   *)
(* is killed: it has the client's last byte and no write left to fail.     *)
ClientResultStands ==
  outcome["Client"] = "ok" =>
    /\ PastLoop("Server")
    /\ outcome["Server"] \in {"running", "ok", "killed"}

(* The barriers keep the promise of `sync` (comm.rs:145), also when a side *)
(* fails or dies: the run implements the rendezvous of Rendezvous.tla.     *)
RunBarriers == INSTANCE Rendezvous
  WITH Party <- Role, Rounds <- 4, arrived <- Arrived, left <- barriers

RendezvousSpec == RunBarriers!Spec

(* Whatever fails, nobody waits for ever: both sides end their run and     *)
(* drop the connection, so the server gets back to accepting.              *)
EveryRunEnds == <>(\A r \in Role : dropped[r])

(* A run fails only if a process was killed or a send failed, and over RC  *)
(* it sees less than the whole stream only if the server was held up for   *)
(* as long as IDLE_TIMEOUT: lost messages fail no run, and a lost          *)
(* connection is never the first cause.                                    *)
Disturbed == \E r \in Role : outcome[r] = "killed" \/ broken[r]

GaveUp == PastLoop("Server") /\ completed["Server"] < Iterations

UndisturbedSucceeds ==
  <>(\/ Disturbed
     \/ /\ \A r \in Role : outcome[r] = "ok"
        /\ transport = "Rc" => GaveUp \/ completed["Server"] = Iterations)
===============================================================================

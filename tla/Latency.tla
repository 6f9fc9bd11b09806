-------------------------------- MODULE Latency --------------------------------
(***************************************************************************)
(* The latency benchmark (bench/latency.rs): a stop-and-wait ping-pong.    *)
(* The client sends a message and waits for its own send completion and    *)
(* the echo; the server waits for a message, sends it back and posts the   *)
(* next receive.  `wait_for` bounds every wait by IDLE_TIMEOUT; either     *)
(* side leaves its loop at its first timeout and goes on to the last       *)
(* barrier.  A failed completion ends the run for the client; the server   *)
(* takes it for a timeout.  Four barriers frame the exchange.              *)
(*                                                                         *)
(* link[r] carries the messages r sends.  cq[r] is r's completion queue,   *)
(* oldest completion first, shared by both directions: a completion is the *)
(* wr_id of its work request, WR_SEND or WR_RECV.                          *)
(***************************************************************************)
EXTENDS Conn, Link, Sequences, FiniteSets, Functions

CONSTANTS Iterations, TxDepth, RxDepth,
          Faults,   \* what may go wrong: subset of {"kill", "hca", "loss"}
          Prompts,  \* the values of prompt to consider
          Carriers  \* the transports to consider

\* latency.rs:40 refuses zero iterations, ClientArgs::plan zero depths.
ASSUME PingPongAssumption ==
  /\ Iterations \in Nat \ {0}
  /\ TxDepth \in Nat \ {0}
  /\ RxDepth \in Nat \ {0}
  /\ Faults \subseteq {"kill", "hca", "loss"}
  /\ Prompts \subseteq BOOLEAN
  /\ Carriers \subseteq Transports

VARIABLES
  transport,   \* of this run
  prompt,      \* fixed: no process is held up for as long as IDLE_TIMEOUT or the
               \* receiver-not-ready retries of RC last
  link,        \* link[r]: the messages r sends
  cq,          \* cq[r]: completions r has not polled
  broken,      \* broken[r]: a failed completion waits in r's queue
  held,        \* held[r][w]: work requests of kind w in r's queues: posted,
               \* their completion not polled
  pending,     \* pending[r]: what the wait r is in, or ended last, still misses
  rounds,      \* rounds[r]: round trips (echoes) r has begun
  samples,     \* round trips the client has timed
  echoed,      \* the server's count of echoes
  gaveUp       \* gaveUp[r]: r left its loop early, because a wait timed out or,
               \* for the server, polled a failed completion

given == <<transport, prompt>>
rdmaVars == <<link, cq, broken>>
loopVars == <<held, pending, rounds, samples, echoed, gaveUp>>
vars == <<given, connVars, rdmaVars, loopVars>>

WR_SEND == "send"
WR_RECV == "recv"
WrId == {WR_SEND, WR_RECV}

Depth(w) == IF w = WR_SEND THEN TxDepth ELSE RxDepth

QpDown(r) == broken[r] \/ QpGone(r)

Init ==
  /\ transport \in Carriers
  /\ prompt \in Prompts
  /\ ConnInit([r \in Role |-> "sync"])
  /\ link = [r \in Role |-> QuietLink]
  /\ cq = [r \in Role |-> <<>>]
  /\ broken = [r \in Role |-> FALSE]
  /\ held = [r \in Role |-> [w \in WrId |-> 0]]
  /\ pending = [r \in Role |-> {}]
  /\ rounds = [r \in Role |-> 0]
  /\ samples = 0
  /\ echoed = 0
  /\ gaveUp = [r \in Role |-> FALSE]

\* Where r is after its b-th barrier: two around the warm-up pause, one after
\* both have posted a receive, one at the end.
AfterBarrier(r, b) ==
  CASE b < 2 -> "sync"
    [] b = 2 -> "post"
    [] b = 3 -> IF r = "Client" THEN "send" ELSE "poll"
    [] OTHER -> "returned"

\* Entering wait_for from the barrier: only the server does, it waits for the
\* first message.
Sync(r) ==
  /\ \/ /\ \/ SyncWrite(r) \/ SyncBroken(r)
        /\ UNCHANGED pending
     \/ /\ SyncRead(r, AfterBarrier(r, barriers[r] + 1))
        /\ pending' = IF phase'[r] = "poll"
                        THEN [pending EXCEPT ![r] = {WR_RECV}] ELSE pending
  /\ UNCHANGED <<rdmaVars, held, rounds, samples, echoed, gaveUp>>

\* post_send and post_receive.  A work request keeps its place in the queue
\* until its completion has been polled; a full queue rejects the post.
HasRoom(r, w) == held[r][w] < Depth(w)

Post(r, w) ==
  /\ HasRoom(r, w)
  /\ held' = [held EXCEPT ![r][w] = @ + 1]
  /\ link' = IF w = WR_SEND THEN [link EXCEPT ![r] = PostSend(@)]
                            ELSE [link EXCEPT ![Peer(r)] = PostReceive(@)]
  /\ UNCHANGED <<cq, broken>>

PostRejected(r, w) ==
  /\ ~HasRoom(r, w)
  /\ Fail(r, "queue_full")
  /\ UNCHANGED <<rdmaVars, loopVars>>

\* The receive posted before the third barrier.
PostFirst(r) ==
  /\ Running(r) /\ phase[r] = "post"
  /\ \/ /\ Post(r, WR_RECV)
        /\ Goto(r, "sync")
        /\ UNCHANGED <<barriers, inbox, outcome, dropped,
                       pending, rounds, samples, echoed, gaveUp>>
     \/ PostRejected(r, WR_RECV)

\* A variant for the mutation runs: the client does not wait for the echo.
AwaitedSendOnly == {WR_SEND}

\* latency.rs:122: want = [WR_SEND, WR_RECV]
Awaited == WrId

\* The client's post_send opens round trip i; then it waits for both.
Ping ==
  /\ Running("Client") /\ phase["Client"] = "send"
  /\ \/ /\ Post("Client", WR_SEND)
        /\ pending' = [pending EXCEPT !["Client"] = Awaited]
        /\ rounds' = [rounds EXCEPT !["Client"] = @ + 1]
        /\ Goto("Client", "poll")
        /\ UNCHANGED <<barriers, inbox, outcome, dropped, samples, echoed, gaveUp>>
     \/ PostRejected("Client", WR_SEND)

\* The server's post_send of the echo.
Echo ==
  /\ Running("Server") /\ phase["Server"] = "send"
  /\ \/ /\ Post("Server", WR_SEND)
        /\ rounds' = [rounds EXCEPT !["Server"] = @ + 1]
        /\ Goto("Server", "repost")
        /\ UNCHANGED <<barriers, inbox, outcome, dropped,
                       pending, samples, echoed, gaveUp>>
     \/ PostRejected("Server", WR_SEND)

\* The post_receive at the end of a turn.  The client comes here only when
\* another round trip follows; the server posts one receive too many.
Repost(r) ==
  /\ Running(r) /\ phase[r] = "repost"
  /\ \/ /\ Post(r, WR_RECV)
        /\ echoed' = IF r = "Server" THEN echoed + 1 ELSE echoed
        /\ Goto(r, CASE r = "Client" -> "send"
                     [] r = "Server" /\ rounds[r] < Iterations -> "poll"
                     [] OTHER -> "sync")
        /\ pending' = IF phase'[r] = "poll"
                        THEN [pending EXCEPT ![r] = {WR_RECV}] ELSE pending
        /\ UNCHANGED <<barriers, inbox, outcome, dropped, rounds, samples, gaveUp>>
     \/ PostRejected(r, WR_RECV)
-------------------------------------------------------------------------------
(***************************************************************************)
(* wait_for.  One turn of its loop polls at most two completions, strikes  *)
(* their wr_ids off, and on some turns compares the clock with the         *)
(* deadline, after the poll and whatever the poll found (latency.rs:83).   *)
(***************************************************************************)

\* Nothing of r's is on its way, but for what its dead queue pair will never
\* send, and r does nothing about that.
Quiet(r) ==
  /\ link[r].wire = 0
  /\ QpDown(r) \/ (link[r].sq = 0 /\ link[r].unacked = 0)
  /\ \/ ~Running(r)
     \/ phase[r] = "poll" /\ cq[r] = <<>>
     \/ barriers[r] = 3 /\ phase[r] \in {"sync", "wait"}

\* A variant for the mutation runs: wait_for has no deadline.
NeverExpires == FALSE

\* How many completions of kind w are in q.
CountOf(w, q) == Cardinality({i \in DOMAIN q : q[i] = w})

\* Whether the deadline may have passed when r looks at the clock.
MayExpire == prompt => \A r \in Role : Quiet(r)

\* Variants for the mutation runs: one round trip too few, and no end of them.
LastOfLoopShort(r) ==
  IF r = "Client" THEN IF rounds[r] < Iterations - 1 THEN "repost" ELSE "sync"
                  ELSE "send"

LastOfLoopForever(r) == IF r = "Client" THEN "repost" ELSE "send"

LastOfLoop(r) ==
  IF r = "Client" THEN IF rounds[r] < Iterations THEN "repost" ELSE "sync"
                  ELSE "send"

Satisfied(r) ==
  /\ samples' = IF r = "Client" THEN samples + 1 ELSE samples
  /\ Goto(r, LastOfLoop(r))
  /\ UNCHANGED gaveUp

\* A variant for the mutation runs: a lost round trip does not end the loop.
LeaveLoopContinues(r) ==
  /\ gaveUp' = [gaveUp EXCEPT ![r] = TRUE]
  /\ Goto(r, LastOfLoop(r))
  /\ UNCHANGED samples

\* The break out of the loop, to the last barrier.
LeaveLoop(r) ==
  /\ gaveUp' = [gaveUp EXCEPT ![r] = TRUE]
  /\ Goto(r, "sync")
  /\ UNCHANGED samples

WaitFor(r) ==
  LET n == IF Len(cq[r]) < 2 THEN Len(cq[r]) ELSE 2
      got == SubSeq(cq[r], 1, n)
      missing == pending[r] \ Range(got)
  IN /\ Running(r) /\ phase[r] = "poll"
     /\ cq' = [cq EXCEPT ![r] = SubSeq(@, n + 1, Len(@))]
     /\ held' = [held EXCEPT ![r] =
                   [w \in WrId |-> @[w] - CountOf(w, got)]]
     /\ pending' = [pending EXCEPT ![r] = missing]
     /\ \/ MayExpire /\ LeaveLoop(r)
        \/ missing = {} /\ Satisfied(r)
        \/ missing # {} /\ n > 0 /\ UNCHANGED <<phase, samples, gaveUp>>
     /\ UNCHANGED <<barriers, inbox, outcome, dropped,
                    link, broken, rounds, echoed>>

\* A variant for the mutation runs: pong returns the error, as ping does.
PollErrorFails(r) ==
  /\ Running(r) /\ phase[r] = "poll"
  /\ broken[r]
  /\ Fail(r, "wc_error")
  /\ UNCHANGED <<rdmaVars, loopVars>>

\* One of the polled completions carries an error status.  ping returns the
\* error, pong prints it and breaks out of its loop, its queue pair and its
\* Conn still there.  Neither polls or posts again, so what else this poll
\* took is left where it was.
PollError(r) ==
  /\ Running(r) /\ phase[r] = "poll"
  /\ broken[r]
  /\ \/ /\ r = "Client"
        /\ Fail(r, "wc_error")
        /\ UNCHANGED loopVars
     \/ /\ r = "Server"
        /\ LeaveLoop(r)
        /\ UNCHANGED <<barriers, inbox, outcome, dropped,
                       held, pending, rounds, echoed>>
  /\ UNCHANGED rdmaVars

Process(r) ==
  \/ Sync(r) \/ PostFirst(r) \/ Repost(r) \/ WaitFor(r) \/ PollError(r)
  \/ r = "Client" /\ Ping
  \/ r = "Server" /\ Echo
  \/ Drop(r) /\ UNCHANGED <<rdmaVars, loopVars>>
-------------------------------------------------------------------------------
(***************************************************************************)
(* The adapters and the fabric.                                            *)
(***************************************************************************)

Complete(r, w) == cq' = [cq EXCEPT ![r] = Append(@, w)]

Transmit(r) ==
  /\ link[r].sq > 0 /\ ~QpDown(r)
  /\ link' = [link EXCEPT ![r] = Transmitted(@)]
  /\ IF transport = "Uc" THEN Complete(r, WR_SEND) ELSE UNCHANGED cq
  /\ UNCHANGED <<connVars, broken, loopVars>>

Deliver(r) ==
  /\ link[r].wire > 0 /\ link[r].rq > 0 /\ ~QpDown(Peer(r))
  /\ link' = [link EXCEPT ![r] = Delivered(transport, @)]
  /\ Complete(Peer(r), WR_RECV)
  /\ UNCHANGED <<connVars, broken, loopVars>>

\* Nothing orders the completions of the two queues: an acknowledgement may
\* come after the answer to the message it acknowledges.
Acknowledge(r) ==
  /\ link[r].unacked > 0 /\ ~QpDown(r)
  /\ link' = [link EXCEPT ![r] = Acknowledged(@)]
  /\ Complete(r, WR_SEND)
  /\ UNCHANGED <<connVars, broken, loopVars>>

\* UC drops what finds no receive; RC drops only what nobody retransmits.
Lose(r) ==
  /\ link[r].wire > 0
  /\ \/ /\ transport = "Uc"
        /\ link[r].rq = 0 \/ QpDown(Peer(r)) \/ "loss" \in Faults
     \/ transport = "Rc" /\ QpDown(r)
  /\ link' = [link EXCEPT ![r] = Lost(@)]
  /\ UNCHANGED <<connVars, cq, broken, loopVars>>

\* r has left its loop for good: it will post no more receives.
PastLoop(r) == barriers[r] >= 3 /\ phase[r] \in {"sync", "wait", "returned"}

RetriesEnd(r) ==
  \/ /\ link[r].wire > 0 /\ link[r].rq = 0
     /\ prompt => PastLoop(Peer(r))
  \/ link[r].wire + link[r].unacked > 0 /\ QpDown(Peer(r))

\* RC gives up after a bounded number of retries and fails the send.
RetryExceeded(r) ==
  /\ transport = "Rc" /\ ~QpDown(r)
  /\ RetriesEnd(r)
  /\ broken' = [broken EXCEPT ![r] = TRUE]
  /\ UNCHANGED <<connVars, link, cq, loopVars>>

\* Work requests of r that have not completed.
Outstanding(r) ==
  link[Peer(r)].rq + IF transport = "Uc" THEN link[r].sq ELSE Underway(link[r])

HcaFault(r) ==
  /\ "hca" \in Faults /\ ~QpDown(r)
  /\ Outstanding(r) > 0
  /\ broken' = [broken EXCEPT ![r] = TRUE]
  /\ UNCHANGED <<connVars, link, cq, loopVars>>

Killed(r) ==
  /\ "kill" \in Faults
  /\ Kill(r)
  /\ UNCHANGED <<rdmaVars, loopVars>>

Adapters ==
  \E r \in Role : Transmit(r) \/ Deliver(r) \/ Acknowledge(r) \/ Lose(r) \/ RetryExceeded(r)

\* The run is over for good.
Over == (\A r \in Role : dropped[r]) /\ UNCHANGED vars

Step ==
  \/ \E r \in Role : Process(r)
  \/ Adapters
  \/ \E r \in Role : HcaFault(r) \/ Killed(r)

Next == Over \/ (Step /\ UNCHANGED given)

\* The scheduler runs both processes and the adapters work on what they have;
\* faults owe nothing.
Fairness ==
  /\ \A r \in Role : WF_vars(Process(r) /\ UNCHANGED given)
  /\ WF_vars(Adapters /\ UNCHANGED given)

Spec == Init /\ [][Next]_vars

FairSpec == Spec /\ Fairness
-------------------------------------------------------------------------------
(***************************************************************************)
(* Properties.                                                             *)
(***************************************************************************)

ConnTypes ==
  /\ phase \in [Role -> {"sync", "wait", "post", "send", "poll", "repost", "returned"}]
  /\ barriers \in [Role -> Nat]
  /\ inbox \in [Role -> Nat]
  /\ outcome \in [Role -> Outcome]
  /\ dropped \in [Role -> BOOLEAN]

RdmaTypes ==
  /\ link \in [Role -> LinkState]
  /\ cq \in [Role -> Seq(WrId)]
  /\ broken \in [Role -> BOOLEAN]

LoopTypes ==
  /\ held \in [Role -> [WrId -> Nat]]
  /\ pending \in [Role -> SUBSET WrId]
  /\ rounds \in [Role -> 0 .. Iterations]
  /\ samples \in 0 .. Iterations
  /\ echoed \in 0 .. Iterations
  /\ gaveUp \in [Role -> BOOLEAN]

(* Types; a completion queue never holds more than its tx_depth + rx_depth *)
(* entries.                                                                *)
TypeOK ==
  /\ transport \in Carriers
  /\ prompt \in Prompts
  /\ ConnTypes /\ RdmaTypes /\ LoopTypes
  /\ \A r \in Role : Len(cq[r]) <= TxDepth + RxDepth

(* A sample times its own round trip: when the client is about to send, no *)
(* echo of an earlier message is on its way or waits unpolled, although    *)
(* echoes can come arbitrarily late.  (The module comment fears the        *)
(* opposite, latency.rs:14; leaving the loop at the first timeout is what  *)
(* rules it out.)                                                          *)
RoundTripsDoNotOverlap ==
  phase["Client"] = "send" =>
    /\ link["Server"].sq = 0 /\ link["Server"].wire = 0
    /\ WR_RECV \notin Range(cq["Client"])

(* A client that finished every round trip and a server that is past its   *)
(* loop agree: each of the Iterations messages was echoed and timed.       *)
CompleteRunAgrees ==
  outcome["Client"] = "ok" /\ ~gaveUp["Client"] =>
    samples = Iterations /\ echoed = Iterations /\ ~gaveUp["Server"]

(* The server does not wait for its last send to complete; the final       *)
(* barrier is what keeps send_mr registered until the echo is out          *)
(* (latency.rs:167 and 172): unless the client gave up or failed, no echo  *)
(* is left to send when the server's benchmark returns.                    *)
EchoBufferOutlivesSend ==
  outcome["Server"] = "ok" /\ ~gaveUp["Client"] =>
    link["Server"].sq = 0 /\ link["Server"].wire = 0

(* The barriers keep the promise of `sync` (comm.rs:145).                  *)
RunBarriers == INSTANCE Rendezvous
  WITH Party <- Role, Rounds <- 4, arrived <- Arrived, left <- barriers

RendezvousSpec == RunBarriers!Spec

(* Whatever is lost or fails, nobody waits for ever.                       *)
EveryRunEnds == <>(\A r \in Role : dropped[r])

(* A run fails only if a process was killed, a work request of the client  *)
(* failed or the send queue is too short (DepthsDoNotApply): lost messages *)
(* fail no run (latency.rs:136), nor does a failed work request of the     *)
(* server, whose dead queue pair waits out the client's timeout in the     *)
(* last barrier (latency.rs:165, 172); a lost connection is never the      *)
(* first cause.  Over RC the run then times fewer round trips than it was  *)
(* asked for only if somebody was held up or the server's queue pair       *)
(* failed: no completion is polled in vain, and with both at work nobody   *)
(* waits for what is never sent.                                           *)
Disturbed ==
  \/ \E r \in Role : outcome[r] \in {"killed", "queue_full"}
  \/ broken["Client"]

SomebodyHeldUp == ~prompt /\ \E r \in Role : gaveUp[r]

UndisturbedSucceeds ==
  <>(\/ Disturbed
     \/ /\ \A r \in Role : outcome[r] = "ok"
        /\ transport = "Rc" =>
             SomebodyHeldUp \/ broken["Server"] \/ samples = Iterations)

(* latency.rs:66: wait_for polls "until a completion has been seen for     *)
(* every wr_id in want, or until IDLE_TIMEOUT passes": a wait that times   *)
(* out misses something.                                                   *)
TimeoutMeansMissing ==
  \A r \in Role : gaveUp[r] /\ ~broken[r] => pending[r] # {}

(* latency.rs:12: "A round trip that hits the bound is counted as lost and *)
(* contributes no timing sample"; a late echo may meet "a subsequent       *)
(* iteration's wait": a lost round trip does not end the run.              *)
EveryRoundAttempted == outcome["Client"] = "ok" => rounds["Client"] = Iterations

(* latency.rs:8: exactly one message is in flight in each direction, "so   *)
(* neither --tx-depth nor --rx-depth applies here and both are ignored":   *)
(* no depth is too small.                                                  *)
DepthsDoNotApply == \A r \in Role : outcome[r] # "queue_full"

(* mod.rs:18: IDLE_TIMEOUT is far longer than any real gap, "so it only    *)
(* ever fires on actual loss": on a fabric that loses nothing, with nobody *)
(* held up, no wait times out.                                             *)
TimeoutMeansLoss == \A r \in Role : ~broken[r] => ~gaveUp[r]
===============================================================================

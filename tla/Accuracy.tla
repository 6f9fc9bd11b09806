------------------------------- MODULE Accuracy -------------------------------
(***************************************************************************)
(* The accuracy benchmark (bench/accuracy.rs): the client streams numbered *)
(* messages, each with a payload that follows from its number, and the     *)
(* server judges every message it receives.  Every message in flight has a *)
(* slot of its own, used again as soon as its work request has completed,  *)
(* so here the contents of the slots matter: the adapters read and write   *)
(* them while the two loops run.                                           *)
(*                                                                         *)
(* A message is a header, its number, and a body.  Both are one byte here: *)
(* of the bytes and bits check() counts, the properties need to tell apart *)
(* the header, which is right whenever the message is attributed, and the  *)
(* rest.                                                                   *)
(***************************************************************************)
EXTENDS Conn, Sequences, SequencesExt, FiniteSets

CONSTANTS Transports,   \* the transports considered: subset of {"Rc", "Uc"}
          Iterations, TxDepth, RxDepth,
          Faults,       \* what may go wrong: subset of
                        \* {"kill", "hca", "loss", "damage", "duplicate", "reorder"}
          MaxMishaps    \* bound: messages damaged or duplicated by the fabric,
                        \* processes killed and adapters failing

ASSUME AccuracyAssumption ==
  /\ Transports \subseteq {"Rc", "Uc"}
  /\ Iterations \in Nat \ {0}
  /\ TxDepth \in Nat \ {0}
  /\ RxDepth \in Nat \ {0}
  /\ Faults \subseteq {"kill", "hca", "loss", "damage", "duplicate", "reorder"}
  /\ MaxMishaps \in Nat

VARIABLES
  transport, \* of this run
  slots,     \* slots[r][k]: the message in slot k of r's memory region
  sq,        \* slots whose sends are posted and not on the wire yet
  wire,      \* messages on their way: [slot, content]
  unacked,   \* delivered, the acknowledgement on its way back (RC only)
  rq,        \* slots of the receives that wait for a message
  sent,      \* completed sends the client has not polled
  arrived,   \* slots of the received messages the server has not polled
  broken,    \* broken[r]: a failed completion waits in r's queue
  posted,    \* sends the client has posted
  completed, \* completions the client has polled
  burst,     \* turns left of the client's refill loop
  batch,     \* slots the server has polled and not checked
  seen,      \* numbers of the messages the server has attributed
  tally,     \* the counters of the server's AccuracyReport
  report,    \* the AccuracyReport sent to the client, or NoReport
  mishaps    \* messages the fabric has damaged or duplicated

clientVars == <<posted, completed, burst>>
serverVars == <<batch, seen, tally, report>>
wireVars == <<wire, unacked, mishaps>>
queueVars == <<sq, rq, sent, arrived, broken>>
vars == <<connVars, transport, slots, queueVars, wireVars, clientVars, serverVars>>

LeastOf(a, b) == IF a < b THEN a ELSE b

Number == 0 .. Iterations - 1
NoNumber == Iterations   \* a header that holds no number of this run

\* "short": the message was cut off behind its header.
Content == [number : Number \cup {NoNumber}, body : {"good", "bad", "short"}]

\* fill_payload
Payload(n) == [number |-> n, body |-> "good"]

Depth(r) == IF r = "Client" THEN TxDepth ELSE RxDepth

\* accuracy.rs:62: both sides size their memory region with it.
Window(r) == LeastOf(Depth(r), Iterations)

QpDown(r) == broken[r] \/ QpGone(r)

Report == [received : Nat, lost : Nat, duplicated : Nat, unidentifiable : Nat,
           truncated : Nat, corrupted : Nat, correct : Nat]
NoReport == [none |-> TRUE]

EmptyTally == [received |-> 0, lost |-> 0, duplicated |-> 0, unidentifiable |-> 0,
               truncated |-> 0, corrupted |-> 0, correct |-> 0]

Init ==
  /\ ConnInit([Client |-> "sync", Server |-> "post"])
  /\ transport \in Transports
  /\ slots = [r \in Role |-> [k \in 0 .. Window(r) - 1 |-> [number |-> NoNumber, body |-> "bad"]]]
  /\ sq = <<>> /\ rq = <<>> /\ sent = 0 /\ arrived = <<>>
  /\ broken = [r \in Role |-> FALSE]
  /\ wire = <<>> /\ unacked = 0 /\ mishaps = 0
  /\ posted = 0 /\ completed = 0 /\ burst = 0
  /\ batch = <<>> /\ seen = {} /\ tally = EmptyTally /\ report = NoReport

\* Where r is after its b-th barrier: the receives are posted before the
\* first, all is sent and checked before the second.
AfterBarrier(r, b) ==
  CASE b = 1 -> IF r = "Client" THEN "post" ELSE "poll"
    [] OTHER -> "report"

Sync(r) ==
  /\ SyncWrite(r) \/ SyncRead(r, AfterBarrier(r, barriers[r] + 1)) \/ SyncBroken(r)
  /\ UNCHANGED <<transport, slots, queueVars, wireVars, clientVars, serverVars>>

In(r, p) == Running(r) /\ phase[r] = p
-------------------------------------------------------------------------------
(***************************************************************************)
(* The client: send().                                                     *)
(***************************************************************************)

\* A variant for the mutation runs: the slot follows from the completions.
FreeSlotOfCompleted == completed % Window("Client")

\* accuracy.rs:132: "after `completed` completions every slot except the
\* `posted - completed` still outstanding is free".
FreeSlot == posted % Window("Client")

\* fill_payload and post_send.
SendNext ==
  /\ slots' = [slots EXCEPT !["Client"][FreeSlot] = Payload(posted)]
  /\ sq' = Append(sq, FreeSlot)
  /\ posted' = posted + 1
  /\ UNCHANGED <<rq, sent, arrived, broken>>

PostFirst ==
  /\ In("Client", "post")
  /\ SendNext
  /\ Goto("Client", IF posted + 1 < Window("Client") THEN "post" ELSE "poll")
  /\ UNCHANGED <<barriers, inbox, outcome, dropped, transport, wireVars,
                 completed, burst, serverVars>>

\* cq.poll returned n > 0 completions, all of them good.
PollSent ==
  LET n == LeastOf(sent, Window("Client"))
  IN /\ In("Client", "poll") /\ completed < Iterations
     /\ n > 0
     /\ sent' = sent - n
     /\ completed' = completed + n
     /\ burst' = n
     /\ Goto("Client", "refill")
     /\ UNCHANGED <<barriers, inbox, outcome, dropped, transport, slots,
                    sq, rq, arrived, broken, wireVars, posted, serverVars>>

\* A variant for the mutation runs: no test of `posted < iterations`.
MoreToPostAlways == TRUE

MoreToPost == posted < Iterations

\* One turn of `for _ in 0..n { if posted < iterations { .. } }`.
Refill ==
  /\ In("Client", "refill")
  /\ IF MoreToPost THEN SendNext ELSE UNCHANGED <<slots, queueVars, posted>>
  /\ burst' = burst - 1
  /\ Goto("Client", IF burst = 1 THEN "poll" ELSE "refill")
  /\ UNCHANGED <<barriers, inbox, outcome, dropped, transport, wireVars,
                 completed, serverVars>>

\* A variant for the mutation runs: the loop ends one completion early.
AllCompletedEarly == completed >= Iterations - 1

AllCompleted == completed >= Iterations

\* The loop condition `completed < iterations` is false.
AllSent ==
  /\ In("Client", "poll") /\ AllCompleted
  /\ Goto("Client", "sync")
  /\ UNCHANGED <<barriers, inbox, outcome, dropped, transport, slots, queueVars,
                 wireVars, clientVars, serverVars>>

\* conn.recv_msg of the AccuracyReport; the connection may break instead.
ReceiveReport ==
  /\ In("Client", "report")
  /\ \/ /\ report # NoReport
        /\ Goto("Client", "returned")
        /\ outcome' = [outcome EXCEPT !["Client"] = "ok"]
        /\ UNCHANGED <<barriers, inbox, dropped>>
     \/ /\ dropped["Server"]
        /\ report = NoReport \/ inbox["Server"] > 0
        /\ Fail("Client", "disconnected")
  /\ UNCHANGED <<transport, slots, queueVars, wireVars, clientVars, serverVars>>
-------------------------------------------------------------------------------
(***************************************************************************)
(* The server: receive() and check().                                      *)
(***************************************************************************)

\* All the first receives at once: no message comes before the barrier that
\* follows them.
PostReceives ==
  /\ In("Server", "post")
  /\ rq' = [i \in 1 .. Window("Server") |-> i - 1]
  /\ Goto("Server", "sync")
  /\ UNCHANGED <<barriers, inbox, outcome, dropped, transport, slots,
                 sq, sent, arrived, broken, wireVars, clientVars, serverVars>>

\* cq.poll returned messages; they count as received before they are judged.
PollArrived ==
  LET n == LeastOf(Len(arrived), Window("Server"))
  IN /\ In("Server", "poll") /\ tally.received < Iterations
     /\ n > 0
     /\ batch' = SubSeq(arrived, 1, n)
     /\ arrived' = SubSeq(arrived, n + 1, Len(arrived))
     /\ tally' = [tally EXCEPT !.received = @ + n]
     /\ Goto("Server", "check")
     /\ UNCHANGED <<barriers, inbox, outcome, dropped, transport, slots,
                    sq, rq, sent, broken, wireVars, clientVars, seen, report>>

\* A variant for the mutation runs: duplicates are judged like any message.
AlreadySeenNever(m) == FALSE

AlreadySeen(m) == m.number \in seen

\* check(): what one message adds to the counters.  A message is worth two
\* bytes, header and body.
Judged(t, m) ==
  CASE m.number = NoNumber -> [t EXCEPT !.unidentifiable = @ + 1]
    [] AlreadySeen(m) -> [t EXCEPT !.duplicated = @ + 1]
    [] OTHER -> [t EXCEPT !.truncated = @ + (IF m.body = "short" THEN 1 ELSE 0),
                          !.corrupted = @ + (IF m.body = "good" THEN 0 ELSE 1),
                          !.correct = @ + (IF m.body = "good" THEN 2 ELSE 1)]

\* A variant for the mutation runs: the wrong slot is posted again.
RepostedNext(slot) == (slot + 1) % Window("Server")

\* post_receive(mr, range, slot): the slot that was just checked.
Reposted(slot) == slot

\* One turn of the loop over the batch: check, then post the slot again.
CheckOne ==
  LET slot == Head(batch)
      m == slots["Server"][slot]
  IN /\ In("Server", "check")
     /\ tally' = Judged(tally, m)
     /\ seen' = seen \cup ({m.number} \cap Number)
     /\ rq' = Append(rq, Reposted(slot))
     /\ batch' = Tail(batch)
     /\ Goto("Server", IF Len(batch) = 1 THEN "poll" ELSE "check")
     /\ UNCHANGED <<barriers, inbox, outcome, dropped, transport, slots,
                    sq, sent, arrived, broken, wireVars, clientVars, report>>

\* A variant for the mutation runs: the receiver has no idle timeout.
IdleNever == FALSE

\* The last poll was empty, and nothing has come for IDLE_TIMEOUT.
Idle == arrived = <<>> /\ ~broken["Server"]

\* The loop condition is false, or the receiver gives up; what is to come may
\* still come.
Drained ==
  /\ In("Server", "poll")
  /\ tally.received >= Iterations \/ Idle
  /\ Goto("Server", "sync")
  /\ UNCHANGED <<barriers, inbox, outcome, dropped, transport, slots, queueVars,
                 wireVars, clientVars, serverVars>>

\* Messages never seen: seen.iter().filter(|s| !**s).count()
Lost == Iterations - Cardinality(seen)

\* conn.send_msg(&report); after the peer has closed, the write may fail.
SendReport ==
  /\ In("Server", "report")
  /\ \/ /\ report' = [tally EXCEPT !.lost = Lost]
        /\ Goto("Server", "returned")
        /\ outcome' = [outcome EXCEPT !["Server"] = "ok"]
        /\ UNCHANGED <<barriers, inbox, dropped>>
     \/ /\ dropped["Client"]
        /\ Fail("Server", "disconnected")
        /\ UNCHANGED report
  /\ UNCHANGED <<transport, slots, queueVars, wireVars, clientVars, batch, seen, tally>>

\* Either loop polls a completion with an error status.
PollError(r) ==
  /\ In(r, "poll") /\ broken[r]
  /\ IF r = "Client" THEN completed < Iterations ELSE tally.received < Iterations
  /\ Fail(r, "wc_error")
  /\ UNCHANGED <<transport, slots, queueVars, wireVars, clientVars, serverVars>>

Process(r) ==
  \/ Sync(r) \/ PollError(r)
  \/ r = "Client" /\ (PostFirst \/ PollSent \/ Refill \/ AllSent \/ ReceiveReport)
  \/ r = "Server" /\ (PostReceives \/ PollArrived \/ CheckOne \/ Drained \/ SendReport)
  \/ /\ Drop(r)
     /\ UNCHANGED <<transport, slots, queueVars, wireVars, clientVars, serverVars>>
-------------------------------------------------------------------------------
(***************************************************************************)
(* The adapters and the fabric.                                            *)
(***************************************************************************)

\* The adapter reads the slot.  Sends complete in the order they were posted.
Transmit ==
  /\ sq # <<>> /\ ~QpDown("Client")
  /\ wire' = Append(wire, [slot |-> Head(sq), content |-> slots["Client"][Head(sq)]])
  /\ sq' = Tail(sq)
  /\ sent' = IF transport = "Uc" THEN sent + 1 ELSE sent
  /\ UNCHANGED <<connVars, transport, slots, rq, arrived, broken, unacked, mishaps,
                 clientVars, serverVars>>

\* Whether something more may go wrong.
MayGoWrong(fault) ==
  /\ fault \in Faults
  /\ mishaps + Cardinality({r \in Role : outcome[r] = "killed" \/ broken[r]}) < MaxMishaps

\* What can become of a message: its number changed, its body damaged or cut.
Damaged(m) ==
  [number : Number \cup {NoNumber}, body : {"bad"}] \cup {[m EXCEPT !.body = "short"]}

\* An RC adapter may have to send a message again and then reads the slot
\* again: the contents that arrive are those of the last reading.
Contents(packet) ==
  CASE transport = "Rc" -> {slots["Client"][packet.slot]}
    [] transport = "Uc" ->
         {packet.content} \cup {m \in Damaged(packet.content) : MayGoWrong("damage")}

\* The message at place i of the wire fills the oldest receive.
Deliver(i, again) ==
  /\ rq # <<>> /\ ~QpDown("Server")
  /\ i > 1 => transport = "Uc" /\ "reorder" \in Faults
  /\ again => transport = "Uc" /\ MayGoWrong("duplicate")
  /\ \E m \in Contents(wire[i]) :
       /\ slots' = [slots EXCEPT !["Server"][Head(rq)] = m]
       /\ mishaps' = IF again \/ (transport = "Uc" /\ m # wire[i].content)
                       THEN mishaps + 1 ELSE mishaps
  /\ rq' = Tail(rq)
  /\ arrived' = Append(arrived, Head(rq))
  /\ wire' = IF again THEN wire ELSE RemoveAt(wire, i)
  /\ unacked' = IF transport = "Rc" THEN unacked + 1 ELSE unacked
  /\ UNCHANGED <<connVars, transport, sq, sent, broken, clientVars, serverVars>>

Acknowledge ==
  /\ unacked > 0 /\ ~QpDown("Client")
  /\ unacked' = unacked - 1
  /\ sent' = sent + 1
  /\ UNCHANGED <<connVars, transport, slots, sq, rq, arrived, broken, wire, mishaps,
                 clientVars, serverVars>>

\* UC drops what finds no receive; RC drops only what nobody retransmits.
Lose ==
  /\ wire # <<>>
  /\ CASE transport = "Uc" -> rq = <<>> \/ QpDown("Server") \/ "loss" \in Faults
       [] OTHER -> QpDown("Client")
  /\ wire' = Tail(wire)
  /\ UNCHANGED <<connVars, transport, slots, queueVars, unacked, mishaps,
                 clientVars, serverVars>>

Break(r) ==
  /\ ~QpDown(r)
  /\ broken' = [broken EXCEPT ![r] = TRUE]
  /\ UNCHANGED <<connVars, transport, slots, sq, rq, sent, arrived, wireVars,
                 clientVars, serverVars>>

\* RC gives up after a bounded number of retries and fails the send.
RetryExceeded ==
  /\ transport = "Rc"
  /\ \/ wire # <<>> /\ rq = <<>>
     \/ (wire # <<>> \/ unacked > 0) /\ QpDown("Server")
  /\ Break("Client")

\* A work request that has not completed fails.
HcaFault(r) ==
  /\ MayGoWrong("hca")
  /\ CASE r = "Server" -> rq # <<>>
       [] r = "Client" -> sq # <<>> \/ (transport = "Rc" /\ (wire # <<>> \/ unacked > 0))
  /\ Break(r)

Killed(r) ==
  /\ MayGoWrong("kill")
  /\ Kill(r)
  /\ UNCHANGED <<transport, slots, queueVars, wireVars, clientVars, serverVars>>

Adapters ==
  \/ Transmit \/ Acknowledge \/ Lose \/ RetryExceeded
  \/ \E i \in DOMAIN wire, again \in BOOLEAN : Deliver(i, again)

\* The run is over for good.
Over == (\A r \in Role : dropped[r]) /\ UNCHANGED vars

Next ==
  \/ \E r \in Role : Process(r)
  \/ Adapters
  \/ \E r \in Role : HcaFault(r) \/ Killed(r)
  \/ Over

\* The scheduler runs both processes and the adapters work on what they have;
\* faults owe nothing.
Fairness == WF_vars(Process("Client")) /\ WF_vars(Process("Server")) /\ WF_vars(Adapters)

Spec == Init /\ [][Next]_vars

FairSpec == Spec /\ Fairness
-------------------------------------------------------------------------------
(***************************************************************************)
(* Properties.                                                             *)
(***************************************************************************)

ConnTypes ==
  /\ phase \in [Role -> {"sync", "wait", "post", "poll", "refill", "check", "report", "returned"}]
  /\ barriers \in [Role -> 0 .. 2]
  /\ inbox \in [Role -> Nat]
  /\ outcome \in [Role -> Outcome]
  /\ dropped \in [Role -> BOOLEAN]

SlotTypes ==
  /\ slots \in [Role -> UNION {[0 .. Window(r) - 1 -> Content] : r \in Role}]
  /\ \A r \in Role : slots[r] \in [0 .. Window(r) - 1 -> Content]

QueueTypes ==
  /\ sq \in Seq(0 .. Window("Client") - 1) /\ Len(sq) <= TxDepth
  /\ rq \in Seq(0 .. Window("Server") - 1) /\ Len(rq) <= RxDepth
  /\ wire \in Seq([slot : 0 .. Window("Client") - 1, content : Content])
  /\ arrived \in Seq(0 .. Window("Server") - 1) /\ Len(arrived) <= TxDepth + RxDepth
  /\ batch \in Seq(0 .. Window("Server") - 1)

CountTypes ==
  /\ transport \in Transports /\ broken \in [Role -> BOOLEAN]
  /\ sent \in 0 .. TxDepth + RxDepth /\ unacked \in Nat /\ mishaps \in Nat
  /\ posted \in 0 .. Iterations /\ completed \in 0 .. Iterations /\ burst \in Nat
  /\ seen \subseteq Number
  /\ tally \in Report
  /\ report \in Report \cup {NoReport}

(* Types; the slots in a queue are slots of the memory region, no more     *)
(* work requests wait in a work queue than it has places, and no more      *)
(* completions than a completion queue of tx_depth + rx_depth entries.     *)
TypeOK == ConnTypes /\ SlotTypes /\ QueueTypes /\ CountTypes

(* Every receive slot is in one place: waiting for a message, holding one  *)
(* that is not polled, or one that is not checked.  A slot in two places   *)
(* would be written by the adapter while check() reads it.                 *)
ReceiveSlotsHaveOnePlace ==
  LET used == rq \o arrived \o batch
  IN In("Server", "poll") \/ In("Server", "check") =>
       /\ Len(used) = Window("Server")
       /\ IsInjective(used)

(* The report accounts for everything: what was received is a duplicate,   *)
(* unidentifiable or attributed to a message, each message is either seen  *)
(* or lost, and neither loss, damage, duplicates nor messages that borrow  *)
(* another's number make the correct bytes exceed what was sent.           *)
ReportBalances ==
  report # NoReport =>
    LET identified == report.received - report.duplicated - report.unidentifiable
    IN /\ identified + report.lost = Iterations
       /\ report.truncated <= report.corrupted /\ report.corrupted <= identified
       /\ report.correct = 2 * identified - report.corrupted
       /\ report.correct = 2 * Iterations <=> report.lost = 0 /\ report.corrupted = 0

(* The benchmark blames the fabric only for what the fabric did: as long   *)
(* as nothing was damaged or duplicated on the way, whatever was lost or   *)
(* came in another order, each message that was received is judged whole.  *)
(* (A slot refilled too early, on either side, would show here.)           *)
NothingInvented ==
  mishaps = 0 =>
    /\ tally.duplicated = 0 /\ tally.unidentifiable = 0
    /\ tally.corrupted = 0 /\ tally.truncated = 0
    /\ report # NoReport => report.lost = Iterations - report.received

(* accuracy.rs:8: "Over RC this should always come out at 100%": the only  *)
(* RC report below that is one of a server that was held up for            *)
(* IDLE_TIMEOUT, and then the messages are missing, not wrong.             *)
RcReportIsPerfect ==
  transport = "Rc" /\ report # NoReport /\ report.received = Iterations =>
    report.correct = 2 * Iterations

(* The client returns the report of a stream that is over: nothing is left *)
(* to be sent.                                                             *)
ReportIsFinal ==
  outcome["Client"] = "ok" =>
    sq = <<>> /\ completed = Iterations /\ report = [tally EXCEPT !.lost = Lost]

(* The barriers keep the promise of `sync` (comm.rs:145).                  *)
RunBarriers == INSTANCE Rendezvous
  WITH Party <- Role, Rounds <- 2, arrived <- Arrived, left <- barriers

RendezvousSpec == RunBarriers!Spec

(* Whatever is lost or fails, nobody waits for ever.                       *)
EveryRunEnds == <>(\A r \in Role : dropped[r])

(* Loss, damage, duplicates and a held up server never fail a run, only a  *)
(* killed process or a failed work request does.                           *)
UndisturbedSucceeds ==
  <>(\/ \E r \in Role : outcome[r] = "killed" \/ broken[r]
     \/ \A r \in Role : outcome[r] = "ok")
===============================================================================

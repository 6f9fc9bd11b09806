---------------------------- MODULE Bandwidth_proof ----------------------------
EXTENDS BandwidthInv, Link_proof, TLAPS

(***************************************************************************)
(* Types.                                                                  *)
(***************************************************************************)

(* The run starts well typed.                                              *)
LEMMA TypeInitial == Init => TypeOK
  BY StreamAssumption DEF Init, ConnInit, TypeOK, Role, Outcome, LinkState, QuietLink

(* Every step keeps the types: what is taken from a counter is in it.      *)
LEMMA TypeStep == TypeOK /\ [Next]_vars => TypeOK'
<1> SUFFICES ASSUME TypeOK, [Next]_vars PROVE TypeOK'
  OBVIOUS
<1>0. UNCHANGED transport
  BY DEF Next, Over, vars
<1> USE <1>0, StreamAssumption DEF TypeOK, Goto, Fail, connVars, rdmaVars, loopVars, PostRejected
<1>1. ASSUME NEW r \in Role, Sync(r) PROVE TypeOK'
  BY <1>1 DEF Sync, SyncWrite, SyncRead, SyncBroken, Peer, AfterBarrier, Role, Outcome
<1>2. ASSUME NEW r \in Role, PostFirst(r) PROVE TypeOK'
  BY <1>2, LinkTypes DEF PostFirst, Post, Window, Depth, LeastOf, Role, Outcome, Transports
<1>3. ASSUME NEW r \in Role, FirstPosted(r) \/ LoopDone(r) \/ PollError(r) PROVE TypeOK'
  BY <1>3 DEF FirstPosted, LoopDone, PollError, Role, Outcome
<1>4. ASSUME NEW r \in Role, Poll(r) PROVE TypeOK'
  BY <1>4 DEF Poll, Turns, LeastOf, Depth, Role
<1>5. ASSUME NEW r \in Role, Refill(r) PROVE TypeOK'
  BY <1>5, LinkTypes DEF Refill, MoreToPost, Post, Role, Outcome, Transports
<1>6. CASE IdleTimeout
  BY <1>6 DEF IdleTimeout, Role
<1>7. ASSUME NEW r \in Role, Drop(r), UNCHANGED <<rdmaVars, loopVars>> PROVE TypeOK'
  BY <1>7 DEF Drop, Role
<1>8. CASE Transmit
  BY <1>8, LinkTypes DEF Transmit, Role
<1>9. CASE Deliver
  BY <1>9, LinkTypes DEF Deliver, Role
<1>10. CASE Acknowledge
  BY <1>10, LinkTypes DEF Acknowledge, Role
<1>11. CASE Lose
  BY <1>11, LinkTypes DEF Lose
<1>12. CASE RetryExceeded
  BY <1>12 DEF RetryExceeded, Role
<1>13. ASSUME NEW r \in Role, HcaFault(r) PROVE TypeOK'
  BY <1>13 DEF HcaFault, Role
<1>14. ASSUME NEW r \in Role, Killed(r) PROVE TypeOK'
  BY <1>14 DEF Killed, Kill, Role, Outcome
<1>15. CASE UNCHANGED vars
  BY <1>15 DEF vars
<1> QED
  BY <1>1, <1>2, <1>3, <1>4, <1>5, <1>6, <1>7, <1>8, <1>9, <1>10, <1>11, <1>12,
     <1>13, <1>14, <1>15 DEF Next, Step, Process, Adapters, Over, Role

(* Types and the bound on posted work requests, for every number of        *)
(* messages, every depth and either transport.                             *)
THEOREM TypeInvariant == Spec => []TypeOK
<1>1. Init => TypeOK
  BY TypeInitial
<1>2. TypeOK /\ [Next]_vars => TypeOK'
  BY TypeStep
<1> QED
  BY <1>1, <1>2, PTL DEF Spec
-------------------------------------------------------------------------------
(***************************************************************************)
(* The inductive invariant: one lemma per action or group of actions that  *)
(* disturb the same conjuncts.                                             *)
(***************************************************************************)

(* The run starts with nothing posted and no byte written.                 *)
LEMMA InvInitial == Init => IInv
<1> SUFFICES ASSUME Init PROVE IInv
  OBVIOUS
<1> USE StreamAssumption DEF Init, ConnInit, Role, QuietLink
<1>1. TypeOK
  BY DEF TypeOK, Outcome, LinkState
<1>2. Shape /\ Endings /\ BarrierBytes
  BY DEF Shape, Endings, BarrierBytes, Arrived, Peer, Running
<1>3. WindowHeld /\ FirstWindow
  BY DEF WindowHeld, FirstWindow, Window, Depth, LeastOf
<1>4. Credits /\ Messages
  BY DEF Credits, Messages, Outstanding, Underway
<1>5. ClientDone /\ ClientResultStands
  BY DEF ClientDone, PastLoop, ClientResultStands
<1> QED
  BY <1>1, <1>2, <1>3, <1>4, <1>5 DEF IInv

(* What the other lemmas need of the types: the numbers are numbers.       *)
LEMMA Numbers ==
  ASSUME TypeOK
  PROVE  /\ link.sq \in Nat /\ link.wire \in Nat /\ link.unacked \in Nat /\ link.rq \in Nat
         /\ \A r \in Role : /\ cqe[r] \in Nat /\ completed[r] \in Nat /\ burst[r] \in Nat
                            /\ posted[r] \in Nat /\ posted[r] <= Iterations
                            /\ barriers[r] \in Nat /\ inbox[r] \in Nat
                            /\ Window(r) \in Nat
         /\ Iterations \in Nat /\ Iterations > 0
  BY StreamAssumption DEF TypeOK, LinkState, Window, LeastOf, Depth

(* The case that matters is the client reading the last byte: the server   *)
(* is in the last barrier or past it, and its connection is whole.         *)
LEMMA SyncResult ==
  ASSUME IInv, TypeOK', UNCHANGED transport, NEW r \in Role, Sync(r)
  PROVE  ClientResultStands'
<1> USE DEF IInv, TypeOK, Goto, Fail, Running, Role, Peer, rdmaVars, loopVars, PastLoop
<1>1. /\ inbox["Client"] + barriers["Client"]
           = barriers["Server"] + IF phase["Server"] = "wait" THEN 1 ELSE 0
      /\ inbox["Server"] + barriers["Server"]
           = barriers["Client"] + IF phase["Client"] = "wait" THEN 1 ELSE 0
  BY DEF BarrierBytes, Arrived
<1>2. CASE SyncWrite(r)
  <2>1. CASE r = "Client"
    BY <1>2, <2>1 DEF SyncWrite, ClientResultStands
  <2>2. CASE r = "Server"
    BY <1>1, <1>2, <2>2 DEF SyncWrite, ClientResultStands, Shape, Endings
  <2> QED
    BY <2>1, <2>2
<1>3. CASE SyncRead(r, AfterBarrier(r, barriers[r] + 1))
  <2>1. CASE r = "Client"
    <3> SUFFICES ASSUME outcome'["Client"] = "ok"
                 PROVE  /\ PastLoop("Server")'
                        /\ outcome'["Server"] \in {"running", "ok", "killed"}
      BY DEF ClientResultStands
    <3>1. barriers["Client"] = 3 /\ inbox["Client"] > 0 /\ ~dropped["Client"]
      BY <1>3, <2>1 DEF SyncRead, AfterBarrier, Shape, Endings
    <3>2. barriers["Server"] >= 3 /\ phase["Server"] \in {"wait", "returned"}
      BY <1>1, <3>1 DEF Shape
    <3>3. outcome["Server"] \in {"running", "ok", "killed"}
      BY <3>1, <3>2 DEF Endings, Outcome
    <3> QED
      BY <1>3, <2>1, <3>2, <3>3 DEF SyncRead
  <2>2. CASE r = "Server"
    BY <1>3, <2>2 DEF SyncRead, AfterBarrier, ClientResultStands, Shape
  <2> QED
    BY <2>1, <2>2
<1>4. CASE SyncBroken(r)
  <2>1. CASE r = "Client"
    BY <1>4, <2>1 DEF SyncBroken, ClientResultStands
  <2>2. CASE r = "Server"
    BY <1>1, <1>4, <2>2 DEF SyncBroken, ClientResultStands, Shape, Endings
  <2> QED
    BY <2>1, <2>2
<1> QED
  BY <1>2, <1>3, <1>4 DEF Sync

(* A step of a barrier moves bytes and places in the code, no messages.    *)
LEMMA SyncStep == ASSUME IInv, TypeOK', UNCHANGED transport, NEW r \in Role, Sync(r) PROVE IInv'
<1> USE StreamAssumption
    DEF IInv, TypeOK, Sync, SyncWrite, SyncRead, SyncBroken, AfterBarrier,
        Goto, Fail, Running, Role, Peer, rdmaVars, loopVars
<1>1. Shape' /\ Endings'
  BY DEF Shape, Endings
<1>2. BarrierBytes'
  BY DEF BarrierBytes, Arrived
<1>3. WindowHeld' /\ FirstWindow'
  BY DEF WindowHeld, FirstWindow, Window, Depth
<1>4. Credits' /\ Messages'
  BY DEF Credits, Messages, Outstanding, Failed
<1>5. ClientDone'
  BY DEF ClientDone, PastLoop
<1>6. ClientResultStands'
  BY SyncResult
<1> QED
  BY <1>1, <1>2, <1>3, <1>4, <1>5, <1>6

(* The first window never meets a full queue.                              *)
LEMMA PostFirstStep == ASSUME IInv, TypeOK', UNCHANGED transport, NEW r \in Role, PostFirst(r) PROVE IInv'
<1> USE StreamAssumption
    DEF IInv, TypeOK, PostFirst, Post, Running, Role, connVars
<1>1. ~PostRejected(r)
  BY DEF PostRejected, HasRoom, Window, Depth, LeastOf
<1>2. Shape' /\ Endings' /\ BarrierBytes' /\ ClientResultStands'
  BY <1>1 DEF Shape, Endings, BarrierBytes, Arrived, ClientResultStands, PastLoop, Peer
<1>3. WindowHeld' /\ FirstWindow'
  BY <1>1 DEF WindowHeld, FirstWindow, Window, Depth, LeastOf, Shape
<1>4. Credits'
  BY <1>1, PostedFields DEF Credits, Outstanding, Underway, LinkState
<1>5. Messages'
  BY <1>1, PostedFields DEF Messages, Failed, LinkState
<1>6. ClientDone'
  BY <1>1 DEF ClientDone, PastLoop
<1> QED
  BY <1>2, <1>3, <1>4, <1>5, <1>6

(* The server goes to the third barrier, the client into its loop.         *)
LEMMA FirstPostedStep == ASSUME IInv, TypeOK', UNCHANGED transport, NEW r \in Role, FirstPosted(r) PROVE IInv'
<1> USE StreamAssumption
    DEF IInv, TypeOK, FirstPosted, Goto, Running, Role, rdmaVars, loopVars
<1>1. Shape' /\ Endings' /\ BarrierBytes' /\ ClientResultStands'
  BY DEF Shape, Endings, BarrierBytes, Arrived, ClientResultStands, PastLoop, Peer
<1>2. WindowHeld' /\ FirstWindow'
  BY DEF WindowHeld, FirstWindow, Window, Depth, LeastOf, Shape
<1>3. Credits' /\ Messages'
  BY DEF Credits, Messages, Outstanding, Failed
<1>4. ClientDone'
  BY DEF ClientDone, PastLoop
<1> QED
  BY <1>1, <1>2, <1>3, <1>4

(* Polling n completions makes room for the n posts of the refill loop.    *)
LEMMA PollStep == ASSUME IInv, TypeOK', UNCHANGED transport, NEW r \in Role, Poll(r) PROVE IInv'
<1> USE StreamAssumption
    DEF IInv, TypeOK, Poll, Turns, Goto, Looping, Running, Role, LeastOf
<1>1. Shape' /\ Endings' /\ BarrierBytes' /\ ClientResultStands'
  BY DEF Shape, Endings, BarrierBytes, Arrived, ClientResultStands, PastLoop, Peer
<1>2. WindowHeld' /\ FirstWindow'
  BY DEF WindowHeld, FirstWindow, Window, Depth
<1>3. Credits'
  BY DEF Credits, Outstanding, Underway, LinkState, Depth
<1>4. Messages'
  BY DEF Messages, Failed, LinkState, Depth
<1>5. ClientDone'
  BY DEF ClientDone, PastLoop, Depth
<1> QED
  BY <1>1, <1>2, <1>3, <1>4, <1>5

(* A turn of the refill loop uses room a polled completion has made.       *)
LEMMA RefillStep == ASSUME IInv, TypeOK', UNCHANGED transport, NEW r \in Role, Refill(r) PROVE IInv'
<1> USE StreamAssumption DEF IInv, Running, Role
<1>1. ~PostRejected(r)
  BY Numbers DEF Refill, MoreToPost, PostRejected, HasRoom, WindowHeld, Window, Depth, LeastOf
<1>2. /\ posted'[r] + burst'[r] <= posted[r] + burst[r]
      /\ posted'[r] >= posted[r]
      /\ \A q \in Role \ {r} : posted'[q] = posted[q] /\ burst'[q] = burst[q]
      /\ completed' = completed
  BY <1>1, Numbers DEF Refill, MoreToPost, Post, TypeOK
<1>3. Shape' /\ Endings' /\ BarrierBytes' /\ ClientResultStands'
  BY <1>1 DEF Refill, MoreToPost, Goto, TypeOK, Shape, Endings, BarrierBytes, Arrived, ClientResultStands,
        PastLoop, Peer
<1>4. WindowHeld'
  <2>1. \A q \in Role : burst'[q] > 0 <=> phase'[q] = "refill"
    BY <1>1, Numbers DEF WindowHeld, Refill, MoreToPost, Goto, TypeOK
  <2>2. \A q \in Role : posted'[q] + burst'[q] <= completed'[q] + Window(q)
    <3>1. \A q \in Role : /\ completed[q] \in Nat /\ Window(q) \in Nat
                         /\ posted[q] \in Nat /\ burst[q] \in Nat
                         /\ posted'[q] \in Nat /\ burst'[q] \in Nat
      BY Numbers DEF TypeOK
    <3>2. posted'[r] + burst'[r] <= completed'[r] + Window(r)
      BY <1>2, <3>1 DEF WindowHeld
    <3>3. \A q \in Role \ {r} : posted'[q] + burst'[q] <= completed'[q] + Window(q)
      BY <1>2, <3>1 DEF WindowHeld
    <3> QED
      BY <3>2, <3>3
  <2> QED
    BY <2>1, <2>2 DEF WindowHeld
<1>5. FirstWindow'
  BY <1>1, <1>2 DEF FirstWindow, TypeOK, Refill, MoreToPost, Goto, Shape, Window, LeastOf, Depth
<1>6. Credits'
  BY <1>1, PostedFields DEF Refill, MoreToPost, Post, TypeOK, Credits, Outstanding, Underway, LinkState
<1>7. Messages'
  BY <1>1, PostedFields DEF Refill, MoreToPost, Post, TypeOK, Messages, Failed, LinkState
<1>8. ClientDone'
  BY <1>1 DEF Refill, MoreToPost, Post, Goto, TypeOK, ClientDone, PastLoop
<1> QED
  BY <1>3, <1>4, <1>5, <1>6, <1>7, <1>8

(* Leaving the loop: the client has everything, the server may give up.    *)
LEMMA LeaveLoopStep ==
  ASSUME IInv, TypeOK', UNCHANGED transport, NEW r \in Role, LoopDone(r) \/ (r = "Server" /\ IdleTimeout)
  PROVE  IInv'
<1> USE StreamAssumption
    DEF IInv, TypeOK, LoopDone, AllCompleted, IdleTimeout, Looping, Goto, Running, Role, rdmaVars, loopVars
<1>1. Shape' /\ Endings' /\ BarrierBytes' /\ ClientResultStands'
  BY DEF Shape, Endings, BarrierBytes, Arrived, ClientResultStands, PastLoop, Peer
<1>2. WindowHeld' /\ FirstWindow'
  BY DEF WindowHeld, FirstWindow, Window, Depth, LeastOf, Shape
<1>3. Credits' /\ Messages'
  BY DEF Credits, Messages, Outstanding, Failed
<1>4. ClientDone'
  BY DEF ClientDone, PastLoop
<1> QED
  BY <1>1, <1>2, <1>3, <1>4

(* Ends of a run other than its last barrier.                              *)
LEMMA EndStep ==
  ASSUME IInv, TypeOK', UNCHANGED transport, NEW r \in Role,
         PollError(r) \/ Killed(r) \/ (Drop(r) /\ UNCHANGED <<rdmaVars, loopVars>>)
  PROVE  IInv'
<1> USE StreamAssumption
    DEF IInv, TypeOK, PollError, Killed, Kill, Drop, Fail, Looping, Running, Role, rdmaVars, loopVars
<1>1. Shape' /\ Endings' /\ BarrierBytes'
  BY DEF Shape, Endings, BarrierBytes, Arrived, Peer
<1>2. WindowHeld' /\ FirstWindow'
  BY DEF WindowHeld, FirstWindow, Window, Depth
<1>3. Credits' /\ Messages'
  BY DEF Credits, Messages, Outstanding, Failed
<1>4. ClientDone'
  BY DEF ClientDone, PastLoop
<1>5. ClientResultStands'
  BY DEF ClientResultStands, PastLoop, Shape
<1> QED
  BY <1>1, <1>2, <1>3, <1>4, <1>5

(* The adapters move messages; the processes stand still.                  *)
LEMMA AdaptersStep == ASSUME IInv, TypeOK', UNCHANGED transport, Adapters PROVE IInv'
<1> USE StreamAssumption
    DEF IInv, TypeOK, Role, connVars, loopVars
<1>1. UNCHANGED <<connVars, loopVars>>
  BY DEF Adapters, Transmit, Deliver, Acknowledge, Lose, RetryExceeded
<1>2. Shape' /\ Endings' /\ BarrierBytes' /\ ClientResultStands'
  BY <1>1 DEF Shape, Endings, BarrierBytes, Arrived, ClientResultStands, PastLoop, Peer, Running
<1>3. WindowHeld' /\ FirstWindow'
  BY <1>1 DEF WindowHeld, FirstWindow, Window, Depth
<1>4. CASE Transmit
  <2>1. Credits'
    BY <1>4, TransmittedFields DEF Transmit, Credits, Outstanding, Underway, LinkState
  <2>2. Messages'
    BY <1>4, TransmittedFields DEF Transmit, Messages, Failed, LinkState
  <2>3. ClientDone'
    BY <1>4 DEF Transmit, ClientDone, PastLoop, QpDown
  <2> QED
    BY <1>2, <1>3, <2>1, <2>2, <2>3
<1>5. CASE Deliver
  <2>1. Credits'
    <3>1. /\ link'.sq = link.sq /\ link'.wire = link.wire - 1 /\ link'.rq = link.rq - 1
          /\ link'.unacked = IF transport = "Rc" THEN link.unacked + 1 ELSE link.unacked
          /\ cqe'["Client"] = cqe["Client"] /\ cqe'["Server"] = cqe["Server"] + 1
          /\ posted' = posted /\ completed' = completed
      BY <1>5, DeliveredFields DEF Deliver
    <3>2. CASE transport = "Rc"
      BY <3>1, <3>2, Numbers DEF Credits, Outstanding, Underway
    <3>3. CASE transport = "Uc"
      BY <3>1, <3>3, Numbers DEF Credits, Outstanding
    <3> QED
      BY <3>2, <3>3 DEF Transports
  <2>2. Messages'
    <3>1. /\ link'.sq = link.sq /\ link'.wire = link.wire - 1
          /\ cqe' = [cqe EXCEPT !["Server"] = @ + 1]
          /\ broken' = broken /\ outcome' = outcome
          /\ posted' = posted /\ completed' = completed
      BY <1>5, DeliveredFields DEF Deliver
    <3> QED
      BY <3>1, Numbers DEF Messages, Failed
  <2>3. ClientDone'
    BY <1>5 DEF Deliver, ClientDone, PastLoop
  <2> QED
    BY <1>2, <1>3, <2>1, <2>2, <2>3
<1>6. CASE Acknowledge
  <2>1. /\ link'.sq = link.sq /\ link'.wire = link.wire
        /\ link'.unacked = link.unacked - 1 /\ link'.rq = link.rq
        /\ cqe'["Client"] = cqe["Client"] + 1 /\ cqe'["Server"] = cqe["Server"]
        /\ posted' = posted /\ completed' = completed
    BY <1>6, AcknowledgedFields DEF Acknowledge
  <2>2. Credits'
    <3>1. CASE transport = "Rc"
      BY <2>1, <3>1, Numbers DEF Credits, Outstanding, Underway
    <3>2. CASE transport = "Uc"
      BY <1>6, <3>2 DEF Acknowledge, Credits
    <3> QED
      BY <3>1, <3>2 DEF Transports
  <2>3. Messages'
    BY <1>6, <2>1 DEF Acknowledge, Messages, Failed
  <2>4. ClientDone'
    BY <1>6 DEF Acknowledge, ClientDone, PastLoop, QpDown
  <2> QED
    BY <1>2, <1>3, <2>2, <2>3, <2>4
<1>7. CASE Lose
  <2>1. /\ link'.sq = link.sq /\ link'.wire = link.wire - 1 /\ link.wire > 0
        /\ cqe' = cqe /\ broken' = broken /\ outcome' = outcome
        /\ posted' = posted /\ completed' = completed
    BY <1>7, LostFields DEF Lose
  <2>2. Credits' /\ ClientDone'
    BY <1>7, LostFields DEF Lose, Credits, Outstanding, Underway, ClientDone, PastLoop, LinkState
  <2>3. transport = "Rc" => broken["Client"] \/ Failed("Client")
    <3> SUFFICES ASSUME transport = "Rc", dropped["Client"], ~Failed("Client") PROVE FALSE
      BY <1>7 DEF Lose, QpDown, QpGone
    <3>1. completed["Client"] >= Iterations
      BY Numbers DEF Failed, Endings, Shape, ClientDone, PastLoop, Running
    <3> QED
      BY <2>1, <3>1, Numbers DEF Credits, Outstanding, Underway
  <2>4. Messages'
    BY <2>1, <2>3, Numbers DEF Messages, Failed
  <2> QED
    BY <1>2, <1>3, <2>2, <2>4
<1>8. CASE RetryExceeded
  <2>1. Credits' /\ Messages'
    BY <1>8 DEF RetryExceeded, Credits, Messages, Outstanding, Failed
  <2>2. ClientDone'
    BY <1>8 DEF RetryExceeded, RetriesEnd, ClientDone, PastLoop, Credits, Outstanding, Underway, LinkState
  <2> QED
    BY <1>2, <1>3, <2>1, <2>2
<1> QED
  BY <1>4, <1>5, <1>6, <1>7, <1>8 DEF Adapters

(* A work request that fails has not completed.                            *)
LEMMA HcaFaultStep == ASSUME IInv, TypeOK', UNCHANGED transport, NEW r \in Role, HcaFault(r) PROVE IInv'
<1> USE StreamAssumption DEF IInv, TypeOK, Role, HcaFault, connVars, loopVars
<1>1. Shape' /\ Endings' /\ BarrierBytes' /\ ClientResultStands'
  BY DEF Shape, Endings, BarrierBytes, Arrived, ClientResultStands, PastLoop, Peer, Running
<1>2. WindowHeld' /\ FirstWindow'
  BY DEF WindowHeld, FirstWindow, Window, Depth
<1>3. Credits' /\ Messages'
  BY DEF Credits, Messages, Outstanding, Failed
<1>4. ClientDone'
  BY DEF ClientDone, PastLoop, Credits, Outstanding, Underway, LinkState
<1> QED
  BY <1>1, <1>2, <1>3, <1>4

(* Every step of the run keeps the whole account.                          *)
LEMMA InvStep == IInv /\ [Next]_vars => IInv'
<1> SUFFICES ASSUME IInv, [Next]_vars PROVE IInv'
  OBVIOUS
<1>1. TypeOK' /\ UNCHANGED transport
  BY TypeStep DEF IInv, Next, Over, vars
<1>2. ASSUME NEW r \in Role, Process(r) PROVE IInv'
  BY <1>1, <1>2, SyncStep, PostFirstStep, FirstPostedStep, PollStep, RefillStep,
     LeaveLoopStep, EndStep DEF Process
<1>3. CASE Adapters
  BY <1>1, <1>3, AdaptersStep
<1>4. ASSUME NEW r \in Role, HcaFault(r) \/ Killed(r) PROVE IInv'
  BY <1>1, <1>4, HcaFaultStep, EndStep
<1>5. CASE UNCHANGED vars
  BY <1>5 DEF vars, connVars, rdmaVars, loopVars, IInv, TypeOK, Shape, Endings, Running,
        BarrierBytes, Arrived, WindowHeld, FirstWindow, Credits, Outstanding, Messages, Failed,
        ClientDone, PastLoop, ClientResultStands
<1> QED
  BY <1>2, <1>3, <1>4, <1>5 DEF Next, Step, Over

(* The account of messages, completions, work requests and barrier bytes   *)
(* holds for every number of messages and every depth, on RC and UC, with  *)
(* and without faults.                                                     *)
THEOREM Invariant == Spec => []IInv
<1>1. Init => IInv
  BY InvInitial
<1>2. IInv /\ [Next]_vars => IInv'
  BY InvStep
<1> QED
  BY <1>1, <1>2, PTL DEF Spec
-------------------------------------------------------------------------------
(***************************************************************************)
(* The safety properties of Bandwidth.tla.                                 *)
(***************************************************************************)

(* The receive, send and completion queues the two sides ask for are large *)
(* enough whatever the depths are: min(depth, iterations) work requests,   *)
(* replaced one for one.                                                   *)
THEOREM QueuesAreLargeEnough == Spec => []QueuesNeverOverflow
<1>1. ASSUME IInv PROVE QueuesNeverOverflow
  <2>1. TypeOK /\ Endings /\ WindowHeld /\ Credits
    BY <1>1 DEF IInv
  <2>2. \A r \in Role : completed[r] + cqe[r] <= posted[r]
    BY <2>1, Numbers DEF Credits, Outstanding, Underway, Role
  <2>3. \A r \in Role : Window(r) <= TxDepth + RxDepth
    BY StreamAssumption DEF Window, Depth, LeastOf
  <2>4. \A r \in Role : cqe[r] <= Window(r)
    BY <2>1, <2>2, Numbers DEF WindowHeld
  <2>5. \A r \in Role : cqe[r] <= TxDepth + RxDepth
    BY <2>1, <2>3, <2>4, Numbers, StreamAssumption
  <2> QED
    BY <2>1, <2>5 DEF QueuesNeverOverflow, Endings
<1> QED
  BY <1>1, Invariant, PTL

(* No message of the first window can find the receive queue empty, so no  *)
(* UC run loses one of them to the start of the stream and no RC run needs *)
(* a receiver-not-ready retry for it.                                      *)
THEOREM FirstWindowFindsReceives == Spec => []FirstWindowIsReceivable
<1>1. ASSUME IInv, link.wire > 0, link.rq = 0 PROVE posted["Client"] > Window("Server")
  <2>1. posted["Client"] > posted["Server"]
    BY <1>1, Numbers DEF IInv, Messages, Credits, Role
  <2>2. barriers["Client"] >= 3
    BY <1>1, <2>1, Numbers DEF IInv, FirstWindow, Role
  <2>3. barriers["Server"] >= 3 \/ (barriers["Server"] = 2 /\ phase["Server"] = "wait")
    BY <1>1, <2>2, Numbers DEF IInv, BarrierBytes, Arrived, Peer, Role
  <2>4. posted["Server"] >= Window("Server")
    BY <1>1, <2>3 DEF IInv, FirstWindow
  <2> QED
    BY <1>1, <2>1, <2>4, Numbers DEF IInv, Role
<1>2. IInv => FirstWindowIsReceivable
  BY <1>1 DEF FirstWindowIsReceivable
<1> QED
  BY <1>2, Invariant, PTL

(* A client's result over RC is about messages that all arrived, also the  *)
(* ones a server that was held up stopped waiting for.                     *)
THEOREM RcResultIsComplete == Spec => []RcDeliversAll
<1>1. ASSUME IInv, transport = "Rc", outcome["Client"] = "ok"
      PROVE  completed["Server"] + cqe["Server"] = Iterations
  <2>1. PastLoop("Client") /\ ~Failed("Client")
    BY <1>1, Numbers DEF IInv, Endings, Shape, PastLoop, Failed, Role
  <2>2. completed["Client"] >= Iterations
    BY <1>1, <2>1 DEF IInv, ClientDone
  <2>3. ~broken["Client"]
    BY <1>1, <2>2, Numbers DEF IInv, TypeOK, ClientDone, Role
  <2>4. posted["Client"] = Iterations /\ link.sq = 0 /\ link.wire = 0
    BY <1>1, <2>2, Numbers DEF IInv, Credits, Outstanding, Underway, Role
  <2> QED
    BY <1>1, <2>1, <2>3, <2>4, Numbers DEF IInv, Messages, Role
<1>2. IInv => RcDeliversAll
  BY <1>1 DEF RcDeliversAll
<1> QED
  BY <1>2, Invariant, PTL

(* The server cannot disown a run the client has a result for.             *)
THEOREM ResultStands == Spec => []ClientResultStands
<1>1. IInv => ClientResultStands
  BY DEF IInv
<1> QED
  BY <1>1, Invariant, PTL
-------------------------------------------------------------------------------
(***************************************************************************)
(* The four barriers of a run are the rendezvous of Rendezvous.tla.        *)
(***************************************************************************)

(* Writing the byte arrives at a barrier, reading the peer's leaves it.    *)
LEMMA SyncIsRendezvous ==
  ASSUME IInv, TypeOK', NEW r \in Role, Sync(r)
  PROVE  [RunBarriers!Next]_(RunBarriers!vars)
<1> USE DEF IInv, TypeOK, Role, Peer, Running
<1>1. CASE SyncWrite(r) /\ phase' # phase
  <2>1. barriers' = barriers /\ phase' = [phase EXCEPT ![r] = "wait"] /\ phase[r] = "sync"
    BY <1>1 DEF SyncWrite, Goto, Fail
  <2>2. barriers[r] < 4
    BY <2>1, Numbers DEF Shape
  <2>3. Arrived[r] = barriers[r]
    BY <2>1, Numbers DEF Arrived
  <2>4. Arrived' = [Arrived EXCEPT ![r] = @ + 1]
    <3>1. Arrived'[r] = Arrived[r] + 1
      BY <2>1, <2>3 DEF Arrived
    <3>2. \A q \in Role \ {r} : Arrived'[q] = Arrived[q]
      BY <2>1 DEF Arrived
    <3>3. Arrived' = [q \in Role |-> Arrived'[q]] /\ Arrived = [q \in Role |-> Arrived[q]]
      BY DEF Arrived
    <3> QED
      BY <3>1, <3>2, <3>3
  <2>5. RunBarriers!Arrive(r)
    BY <2>1, <2>2, <2>3, <2>4 DEF RunBarriers!Arrive
  <2> QED
    BY <2>5 DEF RunBarriers!Next
<1>2. CASE SyncRead(r, AfterBarrier(r, barriers[r] + 1))
  <2>1. \A q \in Role : barriers[r] < Arrived[q]
    BY <1>2, Numbers DEF SyncRead, BarrierBytes, Arrived
  <2>2. Arrived' = Arrived
    BY <1>2 DEF SyncRead, AfterBarrier, Goto, Arrived
  <2>3. RunBarriers!Leave(r)
    BY <1>2, <2>1, <2>2 DEF SyncRead, RunBarriers!Leave
  <2> QED
    BY <2>3 DEF RunBarriers!Next
<1>3. CASE phase' = phase /\ barriers' = barriers
  BY <1>3 DEF Arrived, RunBarriers!vars
<1> QED
  BY <1>1, <1>2, <1>3 DEF Sync, SyncWrite, SyncBroken, Fail

(* Every other step leaves the barriers alone.                             *)
LEMMA RestIsStutter ==
  ASSUME IInv, [Next]_vars, \A r \in Role : ~Sync(r)
  PROVE  UNCHANGED RunBarriers!vars
<1>1. barriers' = barriers
  BY DEF Next, Step, Process, Adapters, Over, vars, connVars, PostFirst, PostRejected, FirstPosted,
         Poll, PollError, Refill, LoopDone, IdleTimeout, Drop, Transmit, Deliver, Acknowledge,
         Lose, RetryExceeded, HcaFault, Killed, Kill, Fail
<1>2. \A q \in Role : phase'[q] = "wait" <=> phase[q] = "wait"
  BY DEF IInv, TypeOK, Goto,
         Next, Step, Process, Adapters, Over, vars, connVars, PostFirst, PostRejected, FirstPosted,
         Poll, PollError, Refill, LoopDone, IdleTimeout, Drop, Transmit, Deliver, Acknowledge,
         Lose, RetryExceeded, HcaFault, Killed, Kill, Fail, Looping
<1> QED
  BY <1>1, <1>2 DEF RunBarriers!vars, Arrived

(* `sync` keeps its promise in every run of the benchmark (comm.rs:145):   *)
(* nobody is past a barrier the other side has not reached, whatever       *)
(* fails.                                                                  *)
THEOREM BarriersAreRendezvous == Spec => RendezvousSpec
<1>1. Init => RunBarriers!Init
  BY DEF Init, ConnInit, Arrived, RunBarriers!Init
<1>2. IInv /\ [Next]_vars => [RunBarriers!Next]_(RunBarriers!vars)
  BY SyncIsRendezvous, RestIsStutter, TypeStep DEF IInv
<1> QED
  BY <1>1, <1>2, Invariant, PTL DEF Spec, RendezvousSpec, RunBarriers!Spec
===============================================================================

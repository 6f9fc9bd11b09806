----------------------------- MODULE Accuracy_proof -----------------------------
(***************************************************************************)
(* Proofs about the accuracy benchmark: IInv is inductive, and what it     *)
(* says of the slots, the report and the barriers.                         *)
(*                                                                         *)
(* The lemma of an action first states what the action does to each        *)
(* variable and then goes through the conjuncts of IInv.                   *)
(***************************************************************************)
EXTENDS AccuracyInv, QueueLemmas, FiniteSetTheorems

(***************************************************************************)
(* Numbers: the windows, and how many messages have been seen.             *)
(***************************************************************************)

(* A window is not empty and no larger than the stream or the queue.       *)
LEMMA Windows ==
  /\ \A r \in Role : /\ Window(r) \in Nat \ {0}
                     /\ Window(r) <= Iterations
                     /\ Window(r) <= TxDepth + RxDepth
  /\ Window("Client") \in Nat \ {0} /\ Window("Client") <= TxDepth /\ Window("Client") <= Iterations
  /\ Window("Server") \in Nat \ {0} /\ Window("Server") <= RxDepth
  /\ Iterations \in Nat \ {0} /\ TxDepth \in Nat \ {0} /\ RxDepth \in Nat \ {0}
  BY AccuracyAssumption DEF Window, Depth, LeastOf, Role

(* The seen messages can be counted; one more is one more unless it was    *)
(* seen before.                                                            *)
LEMMA SeenCount ==
  ASSUME seen \subseteq Number
  PROVE  /\ Cardinality(seen) \in 0 .. Iterations
         /\ \A n : Cardinality(seen \cup {n})
                     = IF n \in seen THEN Cardinality(seen) ELSE Cardinality(seen) + 1
<1>1. IsFiniteSet(Number) /\ Cardinality(Number) = Iterations
  <2>1. 0 \in Int /\ Iterations - 1 \in Int /\ ~(0 > Iterations - 1)
        /\ Iterations - 1 - 0 + 1 = Iterations
    BY Windows
  <2> QED
    BY <2>1, FS_Interval DEF Number
<1>2. IsFiniteSet(seen) /\ Cardinality(seen) <= Iterations
  BY <1>1, FS_Subset
<1>3. Cardinality(seen) \in Nat
  BY <1>2, FS_CardinalityType
<1> QED
  BY <1>2, <1>3, FS_AddElement, Windows

(* No message seen, none counted.                                          *)
LEMMA NothingSeen == Cardinality({}) = 0
  BY FS_EmptySet

(***************************************************************************)
(* The inductive invariant: one lemma per action, or for all that disturb  *)
(* the same conjuncts.                                                     *)
(***************************************************************************)

(* The run starts with nothing posted, seen or counted.                    *)
LEMMA InvInitial == Init => IInv
<1> SUFFICES ASSUME Init PROVE IInv
  OBVIOUS
<1> USE Windows, AccuracyAssumption DEF Init, ConnInit, Role
<1>1. TypeOK
  <2>1. ConnTypes
    BY DEF ConnTypes, Outcome
  <2>2. SlotTypes
    BY DEF SlotTypes, Content, NoNumber
  <2>3. QueueTypes
    BY DEF QueueTypes
  <2>4. CountTypes
    BY DEF CountTypes, EmptyTally, Report, Number
  <2> QED
    BY <2>1, <2>2, <2>3, <2>4 DEF TypeOK
<1>2. Shape /\ BarrierBytes /\ WindowHeld
  BY DEF Shape, BarrierBytes, Arrived, Peer, WindowHeld
<1>3. Sends /\ SendSlots /\ Reported
  BY DEF Sends, Outstanding, SendSlots, Reported, NotTransmitted, NotReceived
<1>4. ReceiveSlots
  BY DEF ReceiveSlots, IsInjective, Range
<1>5. Faithful
  BY DEF Faithful, UncheckedSlots, Range
<1>6. Sums /\ Blameless
  BY NothingSeen DEF Sums, Blameless, EmptyTally
<1> QED
  BY <1>1, <1>2, <1>3, <1>4, <1>5, <1>6 DEF IInv

Numerical ==
  /\ posted \in Nat /\ posted <= Iterations /\ completed \in Nat /\ completed <= Iterations
  /\ burst \in Nat /\ sent \in Nat /\ unacked \in Nat /\ mishaps \in Nat
  /\ Len(sq) \in Nat /\ Len(rq) \in Nat /\ Len(wire) \in Nat
  /\ Len(arrived) \in Nat /\ Len(batch) \in Nat
  /\ Iterations \in Nat \ {0} /\ TxDepth \in Nat \ {0} /\ RxDepth \in Nat \ {0}
  /\ Window("Client") \in Nat \ {0} /\ Window("Client") <= TxDepth /\ Window("Client") <= Iterations
  /\ Window("Server") \in Nat \ {0} /\ Window("Server") <= RxDepth

(* What the lemmas need of the types: the numbers are numbers.             *)
LEMMA Numbers ==
  ASSUME IInv
  PROVE  /\ Numerical
         /\ \A r \in Role : barriers[r] \in Nat /\ inbox[r] \in Nat
         /\ tally.received \in Nat /\ tally.duplicated \in Nat /\ tally.unidentifiable \in Nat
         /\ tally.truncated \in Nat /\ tally.corrupted \in Nat /\ tally.correct \in Nat
<1>1. /\ Len(sq) \in Nat /\ Len(rq) \in Nat /\ Len(wire) \in Nat
      /\ Len(arrived) \in Nat /\ Len(batch) \in Nat
  BY LenProperties DEF IInv, TypeOK, QueueTypes
<1>2. \A r \in Role : barriers[r] \in Nat /\ inbox[r] \in Nat
  BY DEF IInv, TypeOK, ConnTypes
<1>3. /\ tally.received \in Nat /\ tally.duplicated \in Nat /\ tally.unidentifiable \in Nat
      /\ tally.truncated \in Nat /\ tally.corrupted \in Nat /\ tally.correct \in Nat
  BY DEF IInv, TypeOK, CountTypes, Report
<1> QED
  BY <1>1, <1>2, <1>3, Windows DEF IInv, TypeOK, CountTypes, Numerical

(* Which transports there are, and how many sends are where.               *)
LEMMA Progress ==
  ASSUME IInv
  PROVE  /\ transport = "Rc" \/ transport = "Uc"
         /\ NotTransmitted \in Nat /\ NotReceived \in Int
         /\ completed + sent + unacked <= NotReceived
         /\ NotReceived <= NotTransmitted /\ NotTransmitted <= posted
         /\ completed <= NotTransmitted
         /\ posted - completed <= Window("Client")
<1>1. Numerical
  BY Numbers
<1>2. transport = "Rc" \/ transport = "Uc"
  BY AccuracyAssumption DEF IInv, TypeOK, CountTypes
<1>3. posted - completed <= Window("Client")
  BY <1>1 DEF IInv, WindowHeld, Numerical
<1>4. CASE transport = "Rc"
  BY <1>1, <1>2, <1>3, <1>4 DEF IInv, Sends, Outstanding, NotTransmitted, NotReceived, Numerical
<1>5. CASE transport # "Rc"
  BY <1>1, <1>2, <1>3, <1>5 DEF IInv, Sends, Outstanding, NotTransmitted, NotReceived, Numerical
<1> QED
  BY <1>4, <1>5

(* The steps that touch neither queues, slots nor counters keep what is    *)
(* said about those.                                                       *)
LEMMA DataUntouched ==
  ASSUME IInv, UNCHANGED <<transport, slots, queueVars, wireVars, clientVars, serverVars>>,
         phase'["Server"] = "post" <=> phase["Server"] = "post"
  PROVE  Sends' /\ ReceiveSlots' /\ SendSlots' /\ Faithful' /\ Sums' /\ Blameless'
<1> USE DEF IInv, queueVars, wireVars, clientVars, serverVars
<1>1. Sends'
  BY DEF Sends, Outstanding
<1>2. ReceiveSlots'
  BY DEF ReceiveSlots
<1>3. SendSlots'
  BY DEF SendSlots, NotTransmitted, NotReceived
<1>4. Faithful'
  BY DEF Faithful, Genuine, UncheckedSlots, NotTransmitted, NotReceived
<1>5. Sums' /\ Blameless'
  BY DEF Sums, Blameless
<1> QED
  BY <1>1, <1>2, <1>3, <1>4, <1>5

(* A step of a barrier moves bytes and places in the code, no messages.    *)
LEMMA SyncStep == ASSUME IInv, NEW r \in Role, Sync(r) PROVE IInv'
<1> USE Windows DEF IInv, TypeOK, Goto, Fail, Running, Role, Peer
<1>1. UNCHANGED <<transport, slots, queueVars, wireVars, clientVars, serverVars>>
  BY DEF Sync
<1>5. SlotTypes' /\ QueueTypes' /\ CountTypes'
  BY <1>1 DEF SlotTypes, QueueTypes, CountTypes, queueVars, wireVars, clientVars, serverVars
<1>2. CASE SyncWrite(r)
  <2>1. ConnTypes'
    BY <1>1, <1>2 DEF SyncWrite, ConnTypes, Outcome
  <2>2. phase'["Server"] = "post" <=> phase["Server"] = "post"
    BY <1>2 DEF SyncWrite, ConnTypes
  <2>3. Sends' /\ ReceiveSlots' /\ SendSlots' /\ Faithful' /\ Sums' /\ Blameless'
    BY <1>1, <2>2, DataUntouched
  <2>4. Shape'
    BY <1>1, <1>2 DEF SyncWrite, ConnTypes, Shape, clientVars, serverVars
  <2>5. BarrierBytes'
    BY <1>2 DEF SyncWrite, ConnTypes, BarrierBytes, Arrived
  <2>6. WindowHeld'
    BY <1>1, <1>2 DEF SyncWrite, ConnTypes, WindowHeld, clientVars
  <2>7. Reported'
    BY <1>1, <1>2 DEF SyncWrite, ConnTypes, Reported, serverVars, Lost
  <2> QED
    BY <1>5, <2>1, <2>3, <2>4, <2>5, <2>6, <2>7
<1>3. CASE SyncRead(r, AfterBarrier(r, barriers[r] + 1))
  <2>0. AfterBarrier(r, barriers[r] + 1)
          = IF barriers[r] = 0 THEN IF r = "Client" THEN "post" ELSE "poll" ELSE "report"
    BY DEF AfterBarrier, ConnTypes
  <2>1. ConnTypes'
    BY <1>1, <1>3, <2>0 DEF SyncRead, ConnTypes, Shape, Outcome
  <2>2. phase'["Server"] = "post" <=> phase["Server"] = "post"
    BY <1>3, <2>0 DEF SyncRead, ConnTypes
  <2>3. Sends' /\ ReceiveSlots' /\ SendSlots' /\ Faithful' /\ Sums' /\ Blameless'
    BY <1>1, <2>2, DataUntouched
  <2>4. Shape'
    BY <1>1, <1>3, <2>0 DEF SyncRead, ConnTypes, Shape, clientVars, serverVars
  <2>5. BarrierBytes'
    BY <1>3, <2>0 DEF SyncRead, ConnTypes, BarrierBytes, Arrived
  <2>6. WindowHeld'
    BY <1>1, <1>3, <2>0 DEF SyncRead, ConnTypes, WindowHeld, clientVars
  <2>7. Reported'
    BY <1>1, <1>3, <2>0 DEF SyncRead, ConnTypes, Reported, Shape, serverVars, Lost
  <2> QED
    BY <1>5, <2>1, <2>3, <2>4, <2>5, <2>6, <2>7
<1>4. CASE SyncBroken(r)
  <2>1. ConnTypes'
    BY <1>1, <1>4 DEF SyncBroken, ConnTypes, Outcome
  <2>2. phase'["Server"] = "post" <=> phase["Server"] = "post"
    BY <1>4 DEF SyncBroken
  <2>3. Sends' /\ ReceiveSlots' /\ SendSlots' /\ Faithful' /\ Sums' /\ Blameless'
    BY <1>1, <2>2, DataUntouched
  <2>4. Shape' /\ BarrierBytes' /\ WindowHeld' /\ Reported'
    BY <1>1, <1>4 DEF SyncBroken, ConnTypes, Shape, BarrierBytes, Arrived, WindowHeld, Reported,
          clientVars, serverVars, Lost
  <2> QED
    BY <1>5, <2>1, <2>3, <2>4
<1> QED
  BY <1>2, <1>3, <1>4 DEF Sync

(* Posting a message: the slot it takes is that of no message still        *)
(* outstanding, because fewer than a window of messages are.               *)
LEMMA SendNextStep ==
  ASSUME IInv, SendNext, posted < Iterations, posted - completed < Window("Client"),
         UNCHANGED <<transport, wireVars, completed, serverVars>>
  PROVE  SlotTypes' /\ QueueTypes' /\ Sends' /\ SendSlots' /\ Faithful'
<1>1. Numerical
  BY Numbers
<1>2. /\ posted' = posted + 1 /\ completed' = completed /\ transport' = transport
      /\ rq' = rq /\ sent' = sent /\ arrived' = arrived /\ batch' = batch /\ seen' = seen
      /\ wire' = wire /\ unacked' = unacked /\ mishaps' = mishaps
  BY DEF SendNext, wireVars, serverVars
<1>3. FreeSlot \in 0 .. Window("Client") - 1
  BY <1>1 DEF FreeSlot, Numerical
<1>4. Payload(posted) \in Content
  BY <1>1 DEF Payload, Content, Number, Numerical
<1>5. /\ slots'["Client"] = [slots["Client"] EXCEPT ![FreeSlot] = Payload(posted)]
      /\ slots'["Server"] = slots["Server"]
      /\ slots["Client"] \in [0 .. Window("Client") - 1 -> Content]
      /\ slots' = [slots EXCEPT !["Client"] = slots'["Client"]]
  BY DEF IInv, TypeOK, SendNext, SlotTypes, Role
<1>6. /\ slots'["Client"][FreeSlot] = Payload(posted)
      /\ \A k \in 0 .. Window("Client") - 1 \ {FreeSlot} : slots'["Client"][k] = slots["Client"][k]
      /\ slots'["Client"] \in [0 .. Window("Client") - 1 -> Content]
  BY <1>3, <1>4, <1>5
<1>7. SlotTypes'
  BY <1>5, <1>6 DEF IInv, TypeOK, SlotTypes, Role
<1>8. /\ sq' \in Seq(0 .. Window("Client") - 1) /\ Len(sq') = Len(sq) + 1
      /\ \A i \in 1 .. Len(sq) : sq'[i] = sq[i]
      /\ sq'[Len(sq) + 1] = FreeSlot
  BY <1>3, AppendFacts DEF IInv, TypeOK, SendNext, QueueTypes
<1>0. PICK l, q, a, b, c, d \in Nat :
         l = Len(sq) /\ q = Len(wire) /\ a = posted /\ b = completed /\ c = sent /\ d = unacked
  BY <1>1 DEF Numerical
<1>9. NotTransmitted' = NotTransmitted
  BY <1>0, <1>2, <1>8 DEF NotTransmitted
<1>10. NotReceived' = NotReceived
  BY <1>2, <1>9 DEF NotReceived
<1>11. Sends' /\ Len(sq') <= posted' - completed'
  <2>0. Len(sq') = l + 1 /\ posted' = a + 1 /\ completed' = b /\ sent' = c /\ unacked' = d
        /\ Len(wire') = q /\ transport' = transport
    BY <1>0, <1>2, <1>8
  <2>1. CASE transport = "Rc"
    <3>1. b + (l + c + d + q) <= a
      BY <1>0, <2>1 DEF IInv, Sends, Outstanding
    <3> QED
      BY <2>0, <2>1, <3>1 DEF Sends, Outstanding
  <2>2. CASE transport # "Rc"
    <3>1. b + (l + c + d + 0) <= a
      BY <1>0, <2>2 DEF IInv, Sends, Outstanding
    <3> QED
      BY <2>0, <2>2, <3>1 DEF Sends, Outstanding
  <2> QED
    BY <2>1, <2>2
<1>12. QueueTypes'
  <2>1. Len(sq') <= TxDepth
    BY <1>1, <1>2, <1>8, <1>11 DEF Numerical
  <2> QED
    BY <1>2, <1>8, <2>1 DEF IInv, TypeOK, QueueTypes
<1>13. SendSlots'
  <2>1. ASSUME NEW n \in completed .. posted
        PROVE  slots'["Client"][n % Window("Client")] = Payload(n)
    <3>1. CASE n = posted
      BY <1>6, <3>1 DEF FreeSlot
    <3>2. CASE n < posted
      <4>1. n \in Nat /\ n % Window("Client") \in 0 .. Window("Client") - 1
        <5>1. PICK w \in Nat \ {0} : w = Window("Client")
          BY <1>1 DEF Numerical
        <5>2. n \in Nat
          BY <1>0
        <5>3. n % w \in 0 .. w - 1
          BY <5>2
        <5> QED
          BY <5>1, <5>2, <5>3
      <4>2. n % Window("Client") # FreeSlot
        <5>1. posted - n < Window("Client") /\ posted \in Nat /\ Window("Client") \in Nat \ {0}
          BY <1>1 DEF Numerical
        <5> QED
          BY <3>2, <4>1, <5>1, Residues DEF FreeSlot
      <4>3. slots["Client"][n % Window("Client")] = Payload(n)
        BY <1>1, <3>2 DEF IInv, SendSlots, Numerical
      <4> QED
        BY <1>6, <4>1, <4>2, <4>3
    <3> QED
      BY <1>1, <3>1, <3>2 DEF Numerical
  <2>2. ASSUME NEW i \in 1 .. Len(sq')
        PROVE  sq'[i] = (NotTransmitted + i - 1) % Window("Client")
    <3>1. CASE i = Len(sq) + 1
      <4>1. NotTransmitted + i - 1 = posted
        BY <1>1, <3>1 DEF NotTransmitted, Numerical
      <4> QED
        BY <1>8, <3>1, <4>1 DEF FreeSlot
    <3>2. CASE i \in 1 .. Len(sq)
      BY <1>8, <3>2 DEF IInv, SendSlots
    <3> QED
      BY <1>1, <1>8, <3>1, <3>2 DEF Numerical
  <2>3. posted' - 1 = posted
    BY <1>1, <1>2 DEF Numerical
  <2>4. transport = "Rc" =>
          \A i \in 1 .. Len(wire) : wire[i].slot = (NotReceived + i - 1) % Window("Client")
    BY DEF IInv, SendSlots
  <2> QED
    BY <1>2, <1>9, <1>10, <2>1, <2>2, <2>3, <2>4 DEF SendSlots, Window, Depth
<1>14. Faithful'
  BY <1>2, <1>5, <1>10 DEF IInv, Faithful, Genuine, UncheckedSlots
<1> QED
  BY <1>7, <1>11, <1>12, <1>13, <1>14

(* The first window: as many messages as there are slots.                  *)
LEMMA PostFirstStep == ASSUME IInv, PostFirst PROVE IInv'
<1>1. Numerical
  BY Numbers
<1>2. /\ posted' = posted + 1 /\ completed' = completed /\ burst' = burst
      /\ phase["Client"] = "post" /\ outcome["Client"] = "running"
      /\ phase' = [phase EXCEPT !["Client"] = IF posted + 1 < Window("Client") THEN "post" ELSE "poll"]
      /\ barriers' = barriers /\ inbox' = inbox /\ outcome' = outcome /\ dropped' = dropped
      /\ transport' = transport /\ unacked' = unacked /\ mishaps' = mishaps /\ wire' = wire
      /\ rq' = rq /\ sent' = sent /\ arrived' = arrived /\ broken' = broken
      /\ batch' = batch /\ seen' = seen /\ tally' = tally /\ report' = report
  BY DEF PostFirst, SendNext, In, Running, Goto, wireVars, serverVars
<1>3. posted < Window("Client") /\ posted < Iterations /\ posted - completed < Window("Client")
  BY <1>1, <1>2 DEF IInv, WindowHeld, Numerical
<1>4. SlotTypes' /\ QueueTypes' /\ Sends' /\ SendSlots' /\ Faithful'
  BY <1>3, SendNextStep DEF PostFirst
<1>5. CountTypes'
  BY <1>1, <1>2, <1>3 DEF IInv, TypeOK, CountTypes, Numerical
<1>6. ConnTypes' /\ Shape' /\ BarrierBytes' /\ Reported'
  BY <1>2 DEF IInv, TypeOK, ConnTypes, Role, Shape, BarrierBytes, Arrived, Peer, Reported, Lost
<1>7. WindowHeld'
  <2>1. phase' = [phase EXCEPT !["Client"] = phase'["Client"]] /\ barriers["Client"] = 1
        /\ phase'["Client"] = IF posted + 1 < Window("Client") THEN "post" ELSE "poll"
    BY <1>2 DEF IInv, TypeOK, ConnTypes, Role, Shape
  <2>2. burst = 0
    BY <1>1, <1>2 DEF IInv, Shape, Numerical
  <2>3. posted' + burst' <= completed' + Window("Client")
    BY <1>1, <1>2, <1>3, <2>2 DEF Numerical
  <2> QED
    BY <1>2, <2>1, <2>3 DEF WindowHeld, Window, Depth
<1>8. ReceiveSlots' /\ Sums' /\ Blameless'
  BY <1>2 DEF IInv, TypeOK, ConnTypes, Role, ReceiveSlots, Sums, Blameless, Window, Depth
<1> QED
  BY <1>4, <1>5, <1>6, <1>7, <1>8 DEF IInv, TypeOK

(* A turn of the refill loop: a completion polled is a slot to use again.  *)
LEMMA RefillStep == ASSUME IInv, Refill PROVE IInv'
<1>1. Numerical
  BY Numbers
<1>2. /\ completed' = completed /\ burst' = burst - 1
      /\ phase["Client"] = "refill" /\ outcome["Client"] = "running"
      /\ phase' = [phase EXCEPT !["Client"] = IF burst = 1 THEN "poll" ELSE "refill"]
      /\ barriers' = barriers /\ inbox' = inbox /\ outcome' = outcome /\ dropped' = dropped
      /\ transport' = transport /\ unacked' = unacked /\ mishaps' = mishaps /\ wire' = wire
      /\ batch' = batch /\ seen' = seen /\ tally' = tally /\ report' = report
  BY DEF Refill, In, Running, Goto, wireVars, serverVars
<1>3. rq' = rq /\ sent' = sent /\ arrived' = arrived /\ broken' = broken
  BY DEF Refill, SendNext, queueVars
<1>4. burst > 0 /\ posted - completed < Window("Client") /\ posted + burst <= completed + Window("Client")
  BY <1>1, <1>2 DEF IInv, WindowHeld, Shape, Numerical
<1>5. posted' = IF posted < Iterations THEN posted + 1 ELSE posted
  BY DEF Refill, MoreToPost, SendNext
<1>6. SlotTypes' /\ QueueTypes' /\ Sends' /\ SendSlots' /\ Faithful'
  <2>1. CASE MoreToPost
    BY <1>4, <2>1, SendNextStep DEF Refill, MoreToPost
  <2>2. CASE ~MoreToPost
    <3>1. sq' = sq /\ slots' = slots /\ posted' = posted
      BY <2>2 DEF Refill, queueVars
    <3>2. SlotTypes' /\ QueueTypes' /\ Sends'
      BY <1>2, <1>3, <3>1 DEF IInv, TypeOK, SlotTypes, QueueTypes, Sends, Outstanding
    <3>3. SendSlots' /\ Faithful'
      BY <1>2, <1>3, <3>1
         DEF IInv, SendSlots, Faithful, Genuine, UncheckedSlots, NotTransmitted, NotReceived
    <3> QED
      BY <3>2, <3>3
  <2> QED
    BY <2>1, <2>2
<1>7. CountTypes'
  BY <1>1, <1>2, <1>3, <1>4, <1>5 DEF IInv, TypeOK, CountTypes, Numerical
<1>8. ConnTypes' /\ Shape' /\ BarrierBytes' /\ Reported'
  <2>1. burst' > 0 <=> burst # 1
    BY <1>1, <1>2, <1>4 DEF Numerical
  <2>2. ConnTypes' /\ BarrierBytes' /\ Reported'
    BY <1>2 DEF IInv, TypeOK, ConnTypes, Role, BarrierBytes, Arrived, Peer, Reported, Lost
  <2> QED
    BY <1>2, <2>1, <2>2 DEF IInv, TypeOK, ConnTypes, Role, Shape
<1>9. WindowHeld'
  BY <1>1, <1>2, <1>4, <1>5 DEF IInv, TypeOK, ConnTypes, Role, Numerical, WindowHeld, Shape,
        Window, Depth
<1>10. ReceiveSlots' /\ Sums' /\ Blameless'
  BY <1>2, <1>3 DEF IInv, TypeOK, ConnTypes, Role, ReceiveSlots, Sums, Blameless, Window, Depth
<1> QED
  BY <1>6, <1>7, <1>8, <1>9, <1>10 DEF IInv, TypeOK

(* Polling n completions frees n slots and makes the refill loop n turns.  *)
LEMMA PollSentStep == ASSUME IInv, PollSent PROVE IInv'
<1>1. Numerical
  BY Numbers
<1>2. PICK n \in Nat : /\ n > 0 /\ n <= sent
                       /\ sent' = sent - n /\ completed' = completed + n /\ burst' = n
  BY <1>1 DEF PollSent, LeastOf, Numerical
<1>3. /\ phase["Client"] = "poll" /\ outcome["Client"] = "running"
      /\ phase' = [phase EXCEPT !["Client"] = "refill"]
      /\ barriers' = barriers /\ inbox' = inbox /\ outcome' = outcome /\ dropped' = dropped
      /\ transport' = transport /\ slots' = slots /\ posted' = posted
      /\ unacked' = unacked /\ mishaps' = mishaps /\ wire' = wire
      /\ sq' = sq /\ rq' = rq /\ arrived' = arrived /\ broken' = broken
      /\ batch' = batch /\ seen' = seen /\ tally' = tally /\ report' = report
  BY DEF PollSent, In, Running, Goto, wireVars, serverVars
<1>4. Sends' /\ completed' <= posted
  <2>1. CASE transport = "Rc"
    BY <1>1, <1>2, <1>3, <2>1 DEF IInv, Sends, Outstanding, Numerical
  <2>2. CASE transport # "Rc"
    BY <1>1, <1>2, <1>3, <2>2 DEF IInv, Sends, Outstanding, Numerical
  <2> QED
    BY <2>1, <2>2
<1>5. CountTypes'
  BY <1>1, <1>2, <1>3, <1>4 DEF IInv, TypeOK, CountTypes, Numerical
<1>6. SlotTypes' /\ QueueTypes'
  BY <1>3 DEF IInv, TypeOK, SlotTypes, QueueTypes
<1>7. ConnTypes' /\ Shape' /\ BarrierBytes' /\ Reported'
  <2>1. burst' > 0
    BY <1>2
  <2>2. ConnTypes' /\ BarrierBytes' /\ Reported'
    BY <1>3 DEF IInv, TypeOK, ConnTypes, Role, Shape, BarrierBytes, Arrived, Peer, Reported, Lost
  <2> QED
    BY <1>3, <2>1, <2>2 DEF IInv, TypeOK, ConnTypes, Role, Shape
<1>8. WindowHeld'
  <2>1. burst = 0 /\ barriers["Client"] = 1
    BY <1>1, <1>3 DEF IInv, Shape, Numerical, Role
  <2>2. posted' + burst' <= completed' + Window("Client")
    BY <1>1, <1>2, <1>3, <2>1 DEF IInv, WindowHeld, Numerical
  <2> QED
    BY <1>3, <2>1, <2>2 DEF IInv, TypeOK, ConnTypes, Role, WindowHeld, Window, Depth
<1>9. ReceiveSlots' /\ Sums' /\ Blameless'
  BY <1>3 DEF IInv, TypeOK, ConnTypes, Role, ReceiveSlots, Sums, Blameless, Window, Depth
<1>10. NotTransmitted' = NotTransmitted /\ NotReceived' = NotReceived
  BY <1>3 DEF NotTransmitted, NotReceived
<1>11. SendSlots'
  BY <1>1, <1>2, <1>3, <1>10 DEF IInv, SendSlots, Numerical, Window, Depth
<1>12. Faithful'
  BY <1>3, <1>10 DEF IInv, Faithful, Genuine, UncheckedSlots
<1> QED
  BY <1>4, <1>5, <1>6, <1>7, <1>8, <1>9, <1>11, <1>12 DEF IInv, TypeOK

(* Ends of loops and of runs: the data stay as they are.                   *)
LEMMA ControlStep ==
  ASSUME IInv, NEW r \in Role,
         \/ AllSent \/ ReceiveReport \/ Drained \/ PollError(r) \/ Killed(r)
         \/ /\ Drop(r)
            /\ UNCHANGED <<transport, slots, queueVars, wireVars, clientVars, serverVars>>
  PROVE  IInv'
<1>1. Numerical
  BY Numbers
<1>2. /\ UNCHANGED <<transport, slots, queueVars, wireVars, clientVars, serverVars>>
      /\ phase'["Server"] = "post" <=> phase["Server"] = "post"
  BY DEF IInv, TypeOK, ConnTypes, Role, AllSent, ReceiveReport, Drained, PollError, Killed, Kill, Drop,
         Fail, Goto, In
<1>3. Sends' /\ ReceiveSlots' /\ SendSlots' /\ Faithful' /\ Sums' /\ Blameless'
  BY <1>2, DataUntouched
<1>4. SlotTypes' /\ QueueTypes' /\ CountTypes'
  BY <1>2 DEF IInv, TypeOK, SlotTypes, QueueTypes, CountTypes, queueVars, wireVars, clientVars, serverVars
<1>5. /\ posted' = posted /\ completed' = completed /\ burst' = burst
      /\ batch' = batch /\ report' = report /\ tally' = tally /\ seen' = seen
  BY <1>2 DEF clientVars, serverVars
<1>6. ConnTypes' /\ Shape' /\ BarrierBytes' /\ WindowHeld' /\ Reported'
  <2> USE DEF IInv, TypeOK, ConnTypes, Role, Outcome, Shape, BarrierBytes, Arrived, Peer,
          WindowHeld, Window, Depth, Reported, Lost, In, Running, Goto, Fail
  <2>1. CASE AllSent
    <3>1. completed = Iterations
      <4>1. completed \in Nat /\ completed <= Iterations /\ Iterations \in Nat
        BY <1>1 DEF Numerical
      <4>2. AllCompleted
        BY <2>1 DEF AllSent
      <4> QED
        BY <4>1, <4>2 DEF AllCompleted
    <3> QED
      BY <1>5, <2>1, <3>1 DEF AllSent
  <2>2. CASE ReceiveReport
    BY <1>5, <2>2 DEF ReceiveReport
  <2>3. CASE Drained
    BY <1>5, <2>3 DEF Drained
  <2>4. CASE PollError(r)
    BY <1>5, <2>4 DEF PollError
  <2>5. CASE Killed(r)
    BY <1>5, <2>5 DEF Killed, Kill
  <2>6. CASE Drop(r)
    BY <1>5, <2>6 DEF Drop
  <2> QED
    BY <2>1, <2>2, <2>3, <2>4, <2>5, <2>6
<1> QED
  BY <1>3, <1>4, <1>6 DEF IInv, TypeOK

(* The report is the counters, and nothing changes them any more.          *)
LEMMA SendReportStep == ASSUME IInv, SendReport PROVE IInv'
<1>1. /\ transport' = transport /\ slots' = slots
      /\ sq' = sq /\ rq' = rq /\ sent' = sent /\ arrived' = arrived /\ broken' = broken
      /\ wire' = wire /\ unacked' = unacked /\ mishaps' = mishaps
      /\ posted' = posted /\ completed' = completed /\ burst' = burst
      /\ batch' = batch /\ seen' = seen /\ tally' = tally
      /\ barriers' = barriers /\ inbox' = inbox /\ dropped' = dropped
      /\ phase["Server"] = "report" /\ outcome["Server"] = "running"
  BY DEF SendReport, In, Running, queueVars, wireVars, clientVars, Fail
<1>2. \/ /\ report' = [tally EXCEPT !.lost = Lost]
         /\ phase' = [phase EXCEPT !["Server"] = "returned"]
         /\ outcome' = [outcome EXCEPT !["Server"] = "ok"]
      \/ /\ report' = report /\ phase' = phase
         /\ outcome' = [outcome EXCEPT !["Server"] = "disconnected"]
  BY DEF SendReport, Goto, Fail
<1>3. report = NoReport
  BY <1>1 DEF IInv, Reported
<1>4. [tally EXCEPT !.lost = Lost] \in Report
  BY SeenCount, Windows DEF IInv, TypeOK, CountTypes, Report, Lost
<1>5. SlotTypes' /\ QueueTypes' /\ CountTypes'
  BY <1>1, <1>2, <1>4 DEF IInv, TypeOK, SlotTypes, QueueTypes, CountTypes
<1>6. ConnTypes' /\ Shape' /\ BarrierBytes' /\ WindowHeld'
  BY <1>1, <1>2 DEF IInv, TypeOK, ConnTypes, Outcome, Role, Shape, BarrierBytes, Arrived, Peer,
        WindowHeld, Window, Depth
<1>7. Reported'
  <2>1. Lost' = Lost
    BY <1>1 DEF Lost
  <2>2. [tally EXCEPT !.lost = Lost] # NoReport
    BY DEF IInv, TypeOK, CountTypes, Report, NoReport
  <2>3. phase["Client"] = "returned" => report # NoReport
    BY DEF IInv, Reported
  <2> QED
    BY <1>1, <1>2, <1>3, <2>1, <2>2, <2>3 DEF IInv, TypeOK, ConnTypes, Role, Reported
<1>8. Sends' /\ ReceiveSlots' /\ SendSlots' /\ Faithful' /\ Sums' /\ Blameless'
  BY <1>1, <1>2 DEF IInv, TypeOK, ConnTypes, Role, Sends, Outstanding, ReceiveSlots, SendSlots, Faithful, Genuine,
        UncheckedSlots, NotTransmitted, NotReceived, Sums, Blameless, Window, Depth
<1> QED
  BY <1>5, <1>6, <1>7, <1>8 DEF IInv, TypeOK

(* The first receives: each slot once.                                     *)
LEMMA PostReceivesStep == ASSUME IInv, PostReceives PROVE IInv'
<1>1. Numerical
  BY Numbers
<1>2. /\ transport' = transport /\ slots' = slots
      /\ sq' = sq /\ sent' = sent /\ arrived' = arrived /\ broken' = broken
      /\ wire' = wire /\ unacked' = unacked /\ mishaps' = mishaps
      /\ posted' = posted /\ completed' = completed /\ burst' = burst
      /\ batch' = batch /\ seen' = seen /\ tally' = tally /\ report' = report
      /\ barriers' = barriers /\ inbox' = inbox /\ dropped' = dropped /\ outcome' = outcome
      /\ phase["Server"] = "post" /\ outcome["Server"] = "running"
      /\ phase' = [phase EXCEPT !["Server"] = "sync"]
      /\ rq' = [i \in 1 .. Window("Server") |-> i - 1]
  BY DEF PostReceives, In, Running, Goto, wireVars, clientVars, serverVars
<1>3. /\ rq' \in Seq(0 .. Window("Server") - 1) /\ Len(rq') = Window("Server")
      /\ DOMAIN rq' = 1 .. Window("Server")
  <2>1. rq' \in [1 .. Window("Server") -> 0 .. Window("Server") - 1]
    BY <1>1, <1>2 DEF Numerical
  <2>2. DOMAIN rq' = 1 .. Window("Server")
    BY <1>2
  <2>3. rq' \in Seq(0 .. Window("Server") - 1)
    BY <1>1, <2>1, SeqDef DEF Numerical
  <2> QED
    BY <1>1, <2>2, <2>3, LenProperties DEF Numerical
<1>4. arrived = <<>> /\ batch = <<>>
  BY <1>1, <1>2, EmptySeq DEF IInv, TypeOK, QueueTypes, ReceiveSlots, Numerical
<1>5. SlotTypes' /\ QueueTypes' /\ CountTypes'
  BY <1>1, <1>2, <1>3 DEF IInv, TypeOK, SlotTypes, QueueTypes, CountTypes, Numerical
<1>6. ConnTypes' /\ Shape' /\ BarrierBytes' /\ WindowHeld' /\ Reported'
  BY <1>2 DEF IInv, TypeOK, ConnTypes, Outcome, Role, Shape, BarrierBytes, Arrived, Peer,
        WindowHeld, Window, Depth, Reported, Lost
<1>7. ReceiveSlots'
  <2>1. IsInjective(rq')
    BY <1>1, <1>2, <1>3 DEF IsInjective, Numerical
  <2>2. Range(arrived) = {} /\ Range(batch) = {} /\ IsInjective(arrived) /\ IsInjective(batch)
        /\ Len(arrived) = 0 /\ Len(batch) = 0
    BY <1>4 DEF Range, IsInjective
  <2>3. phase'["Server"] # "post"
    BY <1>2 DEF IInv, TypeOK, ConnTypes, Role
  <2> QED
    BY <1>1, <1>2, <1>3, <2>1, <2>2, <2>3 DEF ReceiveSlots, Window, Depth, Numerical
<1>8. Sends' /\ SendSlots' /\ Faithful' /\ Sums' /\ Blameless'
  BY <1>2 DEF IInv, Sends, Outstanding, SendSlots, Faithful, Genuine,
        UncheckedSlots, NotTransmitted, NotReceived, Sums, Blameless, Window, Depth
<1> QED
  BY <1>5, <1>6, <1>7, <1>8 DEF IInv, TypeOK

(* The batch is the first part of what has arrived.                        *)
LEMMA PollArrivedStep == ASSUME IInv, PollArrived PROVE IInv'
<1>1. Numerical
  BY Numbers
<1>2. PICK n \in 1 .. Len(arrived) :
        /\ batch' = SubSeq(arrived, 1, n)
        /\ arrived' = SubSeq(arrived, n + 1, Len(arrived))
        /\ tally' = [tally EXCEPT !.received = @ + n]
  <2> DEFINE n == LeastOf(Len(arrived), Window("Server"))
  <2>1. n \in 1 .. Len(arrived)
    <3>1. PICK a, w : a = Len(arrived) /\ w = Window("Server")
      OBVIOUS
    <3>2. a \in Nat /\ w \in Nat /\ w > 0
      BY <1>1, <3>1 DEF Numerical
    <3>3. a > 0
      <4>1. LeastOf(a, w) > 0
        BY <3>1 DEF PollArrived
      <4> QED
        BY <3>2, <4>1 DEF LeastOf
    <3>4. LeastOf(a, w) \in 1 .. a
      BY <3>2, <3>3 DEF LeastOf
    <3> QED
      BY <3>1, <3>4
  <2>2. /\ batch' = SubSeq(arrived, 1, n)
        /\ arrived' = SubSeq(arrived, n + 1, Len(arrived))
        /\ tally' = [tally EXCEPT !.received = @ + n]
    BY DEF PollArrived
  <2> QED
    BY <2>1, <2>2
<1>3. /\ transport' = transport /\ slots' = slots
      /\ sq' = sq /\ rq' = rq /\ sent' = sent /\ broken' = broken
      /\ wire' = wire /\ unacked' = unacked /\ mishaps' = mishaps
      /\ posted' = posted /\ completed' = completed /\ burst' = burst
      /\ seen' = seen /\ report' = report
      /\ barriers' = barriers /\ inbox' = inbox /\ dropped' = dropped /\ outcome' = outcome
      /\ phase["Server"] = "poll" /\ outcome["Server"] = "running"
      /\ phase' = [phase EXCEPT !["Server"] = "check"]
  BY DEF PollArrived, In, Running, Goto, wireVars, clientVars
<1>4. batch = <<>>
  BY <1>3 DEF IInv, Shape
<1>5. /\ batch' \in Seq(0 .. Window("Server") - 1) /\ arrived' \in Seq(0 .. Window("Server") - 1)
      /\ Len(batch') = n /\ Len(arrived') = Len(arrived) - n
      /\ Range(arrived) = Range(batch') \cup Range(arrived')
      /\ IsInjective(batch') /\ IsInjective(arrived')
      /\ Range(batch') \cap Range(arrived') = {}
  <2>1. PICK S : S = 0 .. Window("Server") - 1
    OBVIOUS
  <2>2. arrived \in Seq(S) /\ IsInjective(arrived) /\ n \in 0 .. Len(arrived)
    <3>1. arrived \in Seq(S)
      BY <2>1 DEF IInv, TypeOK, QueueTypes
    <3>2. IsInjective(arrived)
      BY DEF IInv, ReceiveSlots
    <3>3. Len(arrived) \in Nat
      BY <1>1 DEF Numerical
    <3>4. n \in 0 .. Len(arrived)
      BY <3>3
    <3> QED
      BY <3>1, <3>2, <3>4
  <2>3. batch' = SubSeq(arrived, 1, n) /\ arrived' = SubSeq(arrived, n + 1, Len(arrived))
    BY <1>2
  <2>4. /\ batch' \in Seq(S) /\ arrived' \in Seq(S)
        /\ Len(batch') = n /\ Len(arrived') = Len(arrived) - n
        /\ \A i \in 1 .. Len(batch') : batch'[i] = arrived[i]
        /\ \A i \in 1 .. Len(arrived') : arrived'[i] = arrived[n + i]
    BY <2>2, <2>3, SplitEntries
  <2>5. Len(arrived) = Len(batch') + Len(arrived')
    BY <1>1, <2>2, <2>4 DEF Numerical
  <2>6. /\ Range(arrived) = Range(batch') \cup Range(arrived')
        /\ IsInjective(batch') /\ IsInjective(arrived')
        /\ Range(batch') \cap Range(arrived') = {}
    <3>1. \A i \in 1 .. Len(arrived') : arrived'[i] = arrived[Len(batch') + i]
      BY <2>4
    <3>2. \A i \in 1 .. Len(batch') : batch'[i] = arrived[i]
      BY <2>4
    <3>3. batch' \in Seq(S) /\ arrived' \in Seq(S)
      BY <2>4
    <3>4. /\ Range(arrived) = Range(batch') \cup Range(arrived')
          /\ IsInjective(arrived) => /\ IsInjective(batch') /\ IsInjective(arrived')
                                     /\ Range(batch') \cap Range(arrived') = {}
      BY <2>2, <2>5, <3>1, <3>2, <3>3, SplitFacts, Zenon
    <3> QED
      BY <2>2, <3>4
  <2> QED
    BY <2>1, <2>4, <2>6
<1>6. batch' # <<>> /\ Len(batch) = 0 /\ Range(batch) = {} /\ n \in Nat /\ n > 0
  <2>1. n \in Nat /\ n > 0
    <3>1. Len(arrived) \in Nat
      BY <1>1 DEF Numerical
    <3> QED
      BY <3>1
  <2>2. batch' # <<>>
    BY <1>5, <2>1
  <2> QED
    BY <1>4, <2>1, <2>2 DEF Range
<1>7. /\ tally' \in Report /\ tally'.received = tally.received + n
      /\ tally'.duplicated = tally.duplicated /\ tally'.unidentifiable = tally.unidentifiable
      /\ tally'.truncated = tally.truncated /\ tally'.corrupted = tally.corrupted
      /\ tally'.correct = tally.correct
  <2>1. tally \in Report
    BY DEF IInv, TypeOK, CountTypes
  <2>2. tally' = [tally EXCEPT !.received = @ + n] /\ n \in Nat
    BY <1>2, <1>6
  <2> QED
    BY <2>1, <2>2 DEF Report
<1>8. SlotTypes' /\ QueueTypes' /\ CountTypes'
  <2>1. Len(arrived') <= TxDepth + RxDepth
    BY <1>1, <1>5, <1>6 DEF IInv, TypeOK, QueueTypes, Numerical
  <2>2. QueueTypes'
    BY <1>3, <1>5, <2>1 DEF IInv, TypeOK, QueueTypes
  <2> QED
    BY <1>3, <1>7, <2>2 DEF IInv, TypeOK, SlotTypes, CountTypes
<1>9. ConnTypes' /\ Shape' /\ BarrierBytes' /\ WindowHeld' /\ Reported'
  BY <1>3, <1>6 DEF IInv, TypeOK, ConnTypes, Outcome, Role, Shape, BarrierBytes, Arrived, Peer,
        WindowHeld, Window, Depth, Reported, Lost
<1>10. ReceiveSlots'
  <2>1. phase'["Server"] # "post" /\ phase["Server"] # "post"
    BY <1>3 DEF IInv, TypeOK, ConnTypes, Role
  <2> QED
    BY <1>1, <1>3, <1>5, <1>6, <2>1 DEF IInv, ReceiveSlots, Window, Depth, Numerical
<1>11. UncheckedSlots' = UncheckedSlots
  BY <1>5, <1>6 DEF UncheckedSlots
<1>12. Sends' /\ SendSlots' /\ Faithful'
  BY <1>3, <1>11 DEF IInv, Sends, Outstanding, SendSlots, Faithful, Genuine,
        NotTransmitted, NotReceived, Window, Depth
<1>13. Sums' /\ Blameless'
  <2>1. Cardinality(seen) \in Nat
    BY SeenCount DEF IInv, TypeOK, CountTypes
  <2>2. tally.received \in Nat /\ tally.duplicated \in Nat /\ tally.unidentifiable \in Nat
        /\ n \in Nat /\ Len(batch) = 0 /\ Len(batch') = n
    BY <1>5, <1>6, Numbers
  <2>3. tally.received = Cardinality(seen) + tally.duplicated + tally.unidentifiable
    BY <2>1, <2>2 DEF IInv, Sums
  <2> QED
    BY <1>3, <1>7, <2>1, <2>2, <2>3 DEF IInv, Sums, Blameless
<1> QED
  BY <1>8, <1>9, <1>10, <1>12, <1>13 DEF IInv, TypeOK

(* What is left to check after the head of the batch.                      *)
LEMMA BatchFacts ==
  ASSUME IInv, CheckOne
  PROVE  /\ Head(batch) \in 0 .. Window("Server") - 1
         /\ batch' \in Seq(0 .. Window("Server") - 1) /\ Len(batch') = Len(batch) - 1
         /\ Len(batch) > 0 /\ batch' = Tail(batch)
         /\ Range(batch) = Range(batch') \cup {Head(batch)}
         /\ IsInjective(batch') /\ Head(batch) \notin Range(batch')
<1>1. batch # <<>> /\ batch' = Tail(batch)
  BY DEF IInv, Shape, CheckOne, In
<1>2. PICK S : S = 0 .. Window("Server") - 1
  OBVIOUS
<1>3. batch \in Seq(S) /\ IsInjective(batch)
  BY <1>2 DEF IInv, TypeOK, QueueTypes, ReceiveSlots
<1>4. /\ Head(batch) \in S /\ Tail(batch) \in Seq(S) /\ Len(batch) > 0
      /\ Len(Tail(batch)) = Len(batch) - 1
      /\ Range(batch) = Range(Tail(batch)) \cup {Head(batch)}
      /\ IsInjective(Tail(batch)) /\ Head(batch) \notin Range(Tail(batch))
  BY <1>1, <1>3, TailFacts
<1> QED
  BY <1>1, <1>2, <1>4

(* A whole message that was not seen before is held against nobody.        *)
LEMMA GoodMessage ==
  ASSUME NEW t \in Report, NEW m, m.number # NoNumber, m.number \notin seen, m.body = "good"
  PROVE  /\ Judged(t, m).duplicated = t.duplicated
         /\ Judged(t, m).unidentifiable = t.unidentifiable
         /\ Judged(t, m).corrupted = t.corrupted /\ Judged(t, m).truncated = t.truncated
<1>1. Judged(t, m) = [t EXCEPT !.truncated = @ + 0, !.corrupted = @ + 0, !.correct = @ + 2]
  BY DEF Judged, AlreadySeen
<1> QED
  BY <1>1 DEF Report

(* What the counters are after something was added to three of them.       *)
Added(t, x, y, z) ==
  [t EXCEPT !.truncated = @ + x, !.corrupted = @ + y, !.correct = @ + z]

LEMMA AddedCounters ==
  ASSUME NEW t \in Report, NEW x \in Nat, NEW y \in Nat, NEW z \in Nat
  PROVE  /\ Added(t, x, y, z) \in Report
         /\ Added(t, x, y, z).received = t.received
         /\ Added(t, x, y, z).duplicated = t.duplicated
         /\ Added(t, x, y, z).unidentifiable = t.unidentifiable
         /\ Added(t, x, y, z).truncated = t.truncated + x
         /\ Added(t, x, y, z).corrupted = t.corrupted + y
         /\ Added(t, x, y, z).correct = t.correct + z
<1>1. PICK a, b, c : a = t.truncated + x /\ b = t.corrupted + y /\ c = t.correct + z
  OBVIOUS
<1>2. a \in Nat /\ b \in Nat /\ c \in Nat
  BY <1>1 DEF Report
<1>3. Added(t, x, y, z) = [t EXCEPT !.truncated = a, !.corrupted = b, !.correct = c]
  BY <1>1 DEF Report, Added
<1>4. [t EXCEPT !.truncated = a, !.corrupted = b, !.correct = c] \in Report
  BY <1>2 DEF Report
<1>5. /\ Added(t, x, y, z).received = t.received
      /\ Added(t, x, y, z).duplicated = t.duplicated
      /\ Added(t, x, y, z).unidentifiable = t.unidentifiable
      /\ Added(t, x, y, z).truncated = a /\ Added(t, x, y, z).corrupted = b
      /\ Added(t, x, y, z).correct = c
  BY <1>3 DEF Report
<1> QED
  BY <1>1, <1>3, <1>4, <1>5

(* Each message is counted once, under the one heading it falls under.     *)
LEMMA CheckOneSums ==
  ASSUME IInv, CheckOne
  PROVE  tally' \in Report /\ seen' \subseteq Number /\ Sums'
<1> DEFINE m == slots["Server"][Head(batch)]
<1>1. m \in Content
  BY BatchFacts DEF IInv, TypeOK, SlotTypes, Role
<1>2. /\ tally' = Judged(tally, m) /\ seen' = seen \cup ({m.number} \cap Number)
  BY DEF CheckOne
<1> HIDE DEF m
<1>3. tally \in Report /\ seen \subseteq Number
  BY DEF IInv, TypeOK, CountTypes
<1>4. PICK c \in Nat, l \in Nat, k \in Nat :
        c = Cardinality(seen) /\ l = Len(batch) /\ k = Len(batch') /\ k = l - 1
  <2>1. Len(batch) \in Nat /\ Len(batch) > 0 /\ Len(batch') = Len(batch) - 1
    BY Numbers, BatchFacts DEF Numerical
  <2>2. Cardinality(seen) \in Nat
    BY <1>3, SeenCount
  <2>3. Len(batch') \in Nat
    BY <2>1
  <2> QED
    BY <2>1, <2>2, <2>3
<1>10. k = l - 1
  BY <1>4
<1>5. /\ tally.received \in Nat /\ tally.duplicated \in Nat /\ tally.unidentifiable \in Nat
      /\ tally.truncated \in Nat /\ tally.corrupted \in Nat /\ tally.correct \in Nat
  BY Numbers
<1>6. /\ tally.received = c + tally.duplicated + tally.unidentifiable + l
      /\ tally.truncated <= tally.corrupted /\ tally.corrupted <= c
      /\ tally.correct + tally.corrupted = 2 * c
  BY <1>4 DEF IInv, Sums
<1>7. CASE m.number = NoNumber
  <2>1. seen' = seen
    BY <1>2, <1>7 DEF Number, NoNumber
  <2>0. NoNumber \notin seen
    BY <1>3, Windows DEF Number, NoNumber
  <2>2. tally' = [tally EXCEPT !.unidentifiable = @ + 1]
    BY <1>2, <1>3, <1>7, <2>0 DEF Judged, AlreadySeen
  <2>3. /\ tally' \in Report
        /\ tally'.received = tally.received /\ tally'.duplicated = tally.duplicated
        /\ tally'.unidentifiable = tally.unidentifiable + 1
        /\ tally'.truncated = tally.truncated /\ tally'.corrupted = tally.corrupted
        /\ tally'.correct = tally.correct
    BY <1>3, <2>2 DEF Report
  <2>4. Cardinality(seen') = c /\ seen' \subseteq Number
    BY <1>3, <1>4, <2>1
  <2>5. /\ tally'.received = c + tally'.duplicated + tally'.unidentifiable + k
        /\ tally'.truncated <= tally'.corrupted /\ tally'.corrupted <= c
        /\ tally'.correct + tally'.corrupted = 2 * c
    <3>1. PICK d \in Nat, u \in Nat : d = tally.duplicated /\ u = tally.unidentifiable
      BY <1>5
    <3>2. tally.received = c + d + u + l
      BY <1>6, <3>1
    <3>3. c + d + u + l = c + d + (u + 1) + k
      BY <1>10
    <3> QED
      BY <1>6, <2>3, <3>1, <3>2, <3>3
  <2> QED
    BY <1>4, <2>3, <2>4, <2>5 DEF Sums
<1>8. CASE m.number # NoNumber /\ m.number \in seen
  <2>1. seen' = seen
    BY <1>2, <1>3, <1>8
  <2>2. tally' = [tally EXCEPT !.duplicated = @ + 1]
    BY <1>2, <1>8 DEF Judged, AlreadySeen
  <2>3. /\ tally' \in Report
        /\ tally'.received = tally.received /\ tally'.duplicated = tally.duplicated + 1
        /\ tally'.unidentifiable = tally.unidentifiable
        /\ tally'.truncated = tally.truncated /\ tally'.corrupted = tally.corrupted
        /\ tally'.correct = tally.correct
    BY <1>3, <2>2 DEF Report
  <2>4. Cardinality(seen') = c /\ seen' \subseteq Number
    BY <1>3, <1>4, <2>1
  <2>5. /\ tally'.received = c + tally'.duplicated + tally'.unidentifiable + k
        /\ tally'.truncated <= tally'.corrupted /\ tally'.corrupted <= c
        /\ tally'.correct + tally'.corrupted = 2 * c
    <3>1. tally'.received = c + tally'.duplicated + tally'.unidentifiable + k
      BY <1>10, <1>5, <1>6, <2>3
    <3> QED
      BY <1>6, <2>3, <3>1
  <2> QED
    BY <1>4, <2>3, <2>4, <2>5 DEF Sums
<1>9. CASE m.number # NoNumber /\ m.number \notin seen
  <2>1. seen' = seen \cup {m.number} /\ seen' \subseteq Number
    BY <1>1, <1>2, <1>3, <1>9 DEF Content
  <2>2. Cardinality(seen') = c + 1
    BY <1>3, <1>4, <1>9, <2>1, SeenCount
  <2>3. PICK short \in {0, 1}, bad \in {0, 1}, good \in {1, 2} :
          /\ tally' = Added(tally, short, bad, good)
          /\ short <= bad /\ good + bad = 2
    <3>1. tally' = Added(tally, IF m.body = "short" THEN 1 ELSE 0,
                         IF m.body = "good" THEN 0 ELSE 1, IF m.body = "good" THEN 2 ELSE 1)
      BY <1>2, <1>9 DEF Judged, AlreadySeen, Added
    <3>2. CASE m.body = "good"
      BY <1>5, <3>1, <3>2
    <3>3. CASE m.body = "short"
      BY <1>5, <3>1, <3>3
    <3>4. CASE m.body = "bad"
      BY <1>5, <3>1, <3>4
    <3> QED
      BY <1>1, <3>2, <3>3, <3>4 DEF Content
  <2>4. /\ tally' \in Report
        /\ tally'.received = tally.received /\ tally'.duplicated = tally.duplicated
        /\ tally'.unidentifiable = tally.unidentifiable
        /\ tally'.truncated = tally.truncated + short /\ tally'.corrupted = tally.corrupted + bad
        /\ tally'.correct = tally.correct + good
    <3>1. short \in Nat /\ bad \in Nat /\ good \in Nat
      OBVIOUS
    <3> DEFINE u == Added(tally, short, bad, good)
    <3>2. u \in Report
      BY <1>3, <3>1, AddedCounters
    <3>3. u.received = tally.received
      BY <1>3, <3>1, AddedCounters
    <3>4. u.duplicated = tally.duplicated
      BY <1>3, <3>1, AddedCounters
    <3>5. u.unidentifiable = tally.unidentifiable
      BY <1>3, <3>1, AddedCounters
    <3>6. u.truncated = tally.truncated + short
      BY <1>3, <3>1, AddedCounters
    <3>7. u.corrupted = tally.corrupted + bad
      BY <1>3, <3>1, AddedCounters
    <3>8. u.correct = tally.correct + good
      BY <1>3, <3>1, AddedCounters
    <3>9. tally' = u
      BY <2>3
    <3> HIDE DEF u
    <3> QED
      BY <3>2, <3>3, <3>4, <3>5, <3>6, <3>7, <3>8, <3>9
  <2>5. /\ tally'.received = (c + 1) + tally'.duplicated + tally'.unidentifiable + k
        /\ tally'.truncated <= tally'.corrupted /\ tally'.corrupted <= c + 1
        /\ tally'.correct + tally'.corrupted = 2 * (c + 1)
    BY <1>10, <1>5, <1>6, <2>3, <2>4
  <2> QED
    BY <1>4, <2>1, <2>2, <2>4, <2>5 DEF Sums
<1> QED
  BY <1>7, <1>8, <1>9

(* The slot that was checked goes from the batch to the receive queue.     *)
LEMMA CheckOneStep == ASSUME IInv, CheckOne PROVE IInv'
<1> DEFINE slot == Head(batch)
           m == slots["Server"][slot]
<1>1. Numerical
  BY Numbers
<1>2. /\ transport' = transport /\ slots' = slots
      /\ sq' = sq /\ sent' = sent /\ arrived' = arrived /\ broken' = broken
      /\ wire' = wire /\ unacked' = unacked /\ mishaps' = mishaps
      /\ posted' = posted /\ completed' = completed /\ burst' = burst
      /\ report' = report
      /\ barriers' = barriers /\ inbox' = inbox /\ dropped' = dropped /\ outcome' = outcome
      /\ phase["Server"] = "check" /\ outcome["Server"] = "running"
      /\ phase' = [phase EXCEPT !["Server"] = IF Len(batch) = 1 THEN "poll" ELSE "check"]
      /\ rq' = Append(rq, slot)
      /\ tally' = Judged(tally, m) /\ seen' = seen \cup ({m.number} \cap Number)
  BY DEF CheckOne, In, Running, Goto, Reposted, wireVars, clientVars
<1>3. /\ slot \in 0 .. Window("Server") - 1
      /\ batch' \in Seq(0 .. Window("Server") - 1) /\ Len(batch') = Len(batch) - 1
      /\ Len(batch) > 0
      /\ Range(batch) = Range(batch') \cup {slot}
      /\ IsInjective(batch') /\ slot \notin Range(batch')
  BY BatchFacts
<1> HIDE DEF slot
<1>4. /\ Range(rq) \cap Range(arrived) = {} /\ Range(rq) \cap Range(batch) = {}
      /\ Range(arrived) \cap Range(batch) = {} /\ IsInjective(rq) /\ IsInjective(arrived)
      /\ Len(rq) + Len(arrived) + Len(batch) = Window("Server")
  BY <1>2 DEF IInv, ReceiveSlots
<1>5. /\ rq' \in Seq(0 .. Window("Server") - 1) /\ Len(rq') = Len(rq) + 1
      /\ Range(rq') = Range(rq) \cup {slot} /\ IsInjective(rq')
  <2>1. PICK S : S = 0 .. Window("Server") - 1
    OBVIOUS
  <2>2. rq \in Seq(S) /\ slot \in S
    BY <1>3, <2>1 DEF IInv, TypeOK, QueueTypes
  <2>3. slot \notin Range(rq)
    BY <1>3, <1>4
  <2> QED
    BY <1>2, <1>4, <2>1, <2>2, <2>3, AppendFacts
<1>6. ReceiveSlots'
  <2>1. phase'["Server"] # "post"
    BY <1>2 DEF IInv, TypeOK, ConnTypes, Role
  <2>2. Len(rq') + Len(arrived') + Len(batch') = Window("Server")
    BY <1>1, <1>2, <1>3, <1>4, <1>5 DEF Numerical
  <2>3. /\ Range(rq') \cap Range(arrived') = {} /\ Range(rq') \cap Range(batch') = {}
        /\ Range(arrived') \cap Range(batch') = {}
    BY <1>2, <1>3, <1>4, <1>5
  <2> QED
    BY <1>2, <1>3, <1>4, <1>5, <2>1, <2>2, <2>3 DEF ReceiveSlots, Window, Depth
<1>7. tally' \in Report /\ seen' \subseteq Number /\ Sums'
  BY CheckOneSums
<1>8. SlotTypes' /\ QueueTypes' /\ CountTypes'
  <2>1. Len(rq') <= RxDepth
    BY <1>1, <1>3, <1>4, <1>5 DEF Numerical
  <2> QED
    BY <1>2, <1>3, <1>5, <1>7, <2>1 DEF IInv, TypeOK, SlotTypes, QueueTypes, CountTypes
<1>9. batch' # <<>> <=> Len(batch) # 1
  <2>1. Len(batch) \in Nat
    BY <1>1 DEF Numerical
  <2>2. Len(batch') = 0 <=> batch' = <<>>
    BY <1>3, EmptySeq
  <2> QED
    BY <1>3, <2>1, <2>2
<1>10. ConnTypes' /\ Shape' /\ BarrierBytes' /\ WindowHeld'
  BY <1>2, <1>9 DEF IInv, TypeOK, ConnTypes, Outcome, Role, Shape, BarrierBytes, Arrived, Peer,
        WindowHeld, Window, Depth
<1>11. Reported'
  BY <1>2 DEF IInv, TypeOK, ConnTypes, Role, Reported
<1>12. Sends' /\ SendSlots'
  BY <1>2 DEF IInv, Sends, Outstanding, SendSlots, NotTransmitted, NotReceived, Window, Depth
<1>13. NotReceived' = NotReceived /\ NotReceived \in Int /\ NotReceived <= Iterations
  <2>1. NotReceived' = NotReceived
    BY <1>2 DEF NotReceived, NotTransmitted
  <2>2. NotReceived <= NotTransmitted /\ NotTransmitted <= posted /\ posted <= Iterations
        /\ NotReceived \in Int /\ NotTransmitted \in Int /\ posted \in Int /\ Iterations \in Int
    BY <1>1, Progress DEF Numerical
  <2> QED
    BY <2>1, <2>2
<1>14. ASSUME mishaps = 0
       PROVE  /\ m = Payload(m.number) /\ m.number \in Number /\ m.number \notin seen
              /\ m.number < NotReceived /\ seen' = seen \cup {m.number}
  <2>1. Genuine(m)
    BY <1>3, <1>14 DEF IInv, Faithful, UncheckedSlots
  <2>2. m = Payload(m.number) /\ m.number \in 0 .. NotReceived - 1 /\ m.number \notin seen
    BY <2>1 DEF Genuine
  <2>3. Iterations \in Nat
    BY <1>1 DEF Numerical
  <2>4. m.number \in Number /\ m.number < NotReceived
    BY <1>13, <2>2, <2>3 DEF Number
  <2>5. m.number # NoNumber
    BY <2>3, <2>4 DEF Number, NoNumber
  <2> QED
    BY <1>2, <2>2, <2>4, <2>5
<1>15. Blameless'
  <2>1. ASSUME mishaps = 0
        PROVE  /\ tally'.duplicated = tally.duplicated
               /\ tally'.unidentifiable = tally.unidentifiable
               /\ tally'.corrupted = tally.corrupted /\ tally'.truncated = tally.truncated
    <3>1. m.number # NoNumber /\ m.number \notin seen /\ m.body = "good"
      BY <1>1, <1>14, <2>1 DEF Number, NoNumber, Payload, Numerical
    <3> QED
      BY <1>2, <3>1, GoodMessage DEF IInv, TypeOK, CountTypes
  <2> QED
    BY <1>2, <2>1 DEF IInv, Blameless
<1>16. Faithful'
  <2> SUFFICES ASSUME mishaps = 0 PROVE Faithful'
    BY <1>2 DEF Faithful
  <2>1. UncheckedSlots' = UncheckedSlots \ {slot} /\ slot \in UncheckedSlots
    BY <1>2, <1>3, <1>4 DEF UncheckedSlots
  <2>2. \A k \in UncheckedSlots' : slots["Server"][k].number # m.number
    BY <1>14, <2>1 DEF IInv, Faithful
  <2>3. transport = "Uc" => \A i \in 1 .. Len(wire) : wire[i].content.number # m.number
    BY <2>1 DEF IInv, Faithful
  <2> QED
    BY <1>2, <1>13, <1>14, <2>1, <2>2, <2>3 DEF IInv, Faithful, Genuine
<1> QED
  BY <1>6, <1>7, <1>8, <1>10, <1>11, <1>12, <1>15, <1>16 DEF IInv, TypeOK

(* The adapters neither move a side in the code nor count anything.        *)
LEMMA AdapterRest ==
  ASSUME IInv, UNCHANGED <<connVars, transport, clientVars, serverVars>>
  PROVE  ConnTypes' /\ Shape' /\ BarrierBytes' /\ WindowHeld' /\ Sums' /\ Reported'
<1>1. /\ phase' = phase /\ barriers' = barriers /\ inbox' = inbox /\ outcome' = outcome
      /\ dropped' = dropped /\ posted' = posted /\ completed' = completed /\ burst' = burst
      /\ batch' = batch /\ seen' = seen /\ tally' = tally /\ report' = report
  BY DEF connVars, clientVars, serverVars
<1>2. ConnTypes' /\ Shape' /\ BarrierBytes'
  BY <1>1 DEF IInv, TypeOK, ConnTypes, Shape, BarrierBytes, Arrived
<1>3. WindowHeld' /\ Sums' /\ Reported'
  BY <1>1 DEF IInv, WindowHeld, Window, Depth, Sums, Reported, Lost
<1> QED
  BY <1>2, <1>3

(* An acknowledged send is a completed one.                                *)
LEMMA AcknowledgeStep == ASSUME IInv, Acknowledge PROVE IInv'
<1>1. Numerical
  BY Numbers
<1>2. /\ UNCHANGED <<connVars, transport, clientVars, serverVars>>
      /\ transport' = transport /\ slots' = slots /\ posted' = posted /\ completed' = completed
      /\ sq' = sq /\ rq' = rq /\ arrived' = arrived /\ broken' = broken /\ wire' = wire
      /\ mishaps' = mishaps /\ batch' = batch /\ seen' = seen /\ tally' = tally /\ phase' = phase
      /\ unacked > 0 /\ unacked' = unacked - 1 /\ sent' = sent + 1
  BY DEF Acknowledge, connVars, clientVars, serverVars
<1>3. ConnTypes' /\ Shape' /\ BarrierBytes' /\ WindowHeld' /\ Sums' /\ Reported'
  BY <1>2, AdapterRest
<1>4. Outstanding' = Outstanding
  <2>1. CASE transport = "Rc"
    BY <1>1, <1>2, <2>1 DEF Outstanding, Numerical
  <2>2. CASE transport # "Rc"
    BY <1>1, <1>2, <2>2 DEF Outstanding, Numerical
  <2> QED
    BY <2>1, <2>2
<1>5. Sends'
  BY <1>2, <1>4 DEF IInv, Sends
<1>6. SlotTypes' /\ QueueTypes' /\ CountTypes'
  <2>1. sent' <= TxDepth + RxDepth
    BY <1>1, <1>2, Progress DEF Numerical
  <2> QED
    BY <1>1, <1>2, <2>1 DEF IInv, TypeOK, SlotTypes, QueueTypes, CountTypes, clientVars, serverVars, Numerical
<1>7. NotTransmitted' = NotTransmitted /\ NotReceived' = NotReceived
  BY <1>2 DEF NotTransmitted, NotReceived
<1>8. ReceiveSlots' /\ SendSlots' /\ Blameless'
  BY <1>2, <1>7 DEF IInv, ReceiveSlots, SendSlots, Blameless, Window, Depth
<1>9. Faithful'
  BY <1>2, <1>7 DEF IInv, Faithful, Genuine, UncheckedSlots
<1> QED
  BY <1>3, <1>5, <1>6, <1>8, <1>9 DEF IInv, TypeOK

(* A failed work request is for the process to find out.                   *)
LEMMA BreakStep == ASSUME IInv, NEW r \in Role, Break(r) PROVE IInv'
<1>1. /\ UNCHANGED <<connVars, transport, clientVars, serverVars>>
      /\ transport' = transport /\ slots' = slots /\ posted' = posted /\ completed' = completed
      /\ sq' = sq /\ rq' = rq /\ sent' = sent /\ arrived' = arrived
      /\ wire' = wire /\ unacked' = unacked
      /\ mishaps' = mishaps /\ batch' = batch /\ seen' = seen /\ tally' = tally /\ phase' = phase
      /\ broken' = [broken EXCEPT ![r] = TRUE]
  BY DEF Break, connVars, wireVars, clientVars, serverVars
<1>2. ConnTypes' /\ Shape' /\ BarrierBytes' /\ WindowHeld' /\ Sums' /\ Reported'
  BY <1>1, AdapterRest
<1>3. SlotTypes' /\ QueueTypes' /\ CountTypes'
  BY <1>1 DEF IInv, TypeOK, SlotTypes, QueueTypes, CountTypes, clientVars, serverVars
<1>4. Sends' /\ ReceiveSlots' /\ SendSlots' /\ Blameless'
  BY <1>1 DEF IInv, Sends, Outstanding, ReceiveSlots, SendSlots, NotTransmitted, NotReceived,
        Blameless, Window, Depth
<1>5. Faithful'
  BY <1>1 DEF IInv, Faithful, Genuine, UncheckedSlots, NotTransmitted, NotReceived
<1> QED
  BY <1>2, <1>3, <1>4, <1>5 DEF IInv, TypeOK

(* Putting a message on the wire: it is the one its slot was filled with,  *)
(* for its send is not complete.                                           *)
LEMMA TransmitStep == ASSUME IInv, Transmit PROVE IInv'
<1> DEFINE W == Window("Client")
           Packet == [slot : 0 .. W - 1, content : Content]
<1>1. Numerical
  BY Numbers
<1>2. /\ UNCHANGED <<connVars, transport, clientVars, serverVars>>
      /\ transport' = transport /\ slots' = slots /\ posted' = posted /\ completed' = completed
      /\ rq' = rq /\ arrived' = arrived /\ broken' = broken /\ unacked' = unacked
      /\ mishaps' = mishaps /\ batch' = batch /\ seen' = seen /\ tally' = tally /\ phase' = phase
      /\ sq # <<>> /\ sq' = Tail(sq)
      /\ sent' = IF transport = "Uc" THEN sent + 1 ELSE sent
      /\ wire' = Append(wire, [slot |-> Head(sq), content |-> slots["Client"][Head(sq)]])
  BY DEF Transmit, connVars, clientVars, serverVars
<1>3. ConnTypes' /\ Shape' /\ BarrierBytes' /\ WindowHeld' /\ Sums' /\ Reported'
  BY <1>2, AdapterRest
<1>4. /\ Head(sq) \in 0 .. W - 1 /\ sq' \in Seq(0 .. W - 1) /\ Len(sq) > 0
      /\ Len(sq') = Len(sq) - 1 /\ Head(sq) = sq[1]
      /\ \A i \in 1 .. Len(sq') : sq'[i] = sq[i + 1]
  <2>1. PICK S : S = 0 .. W - 1
    OBVIOUS
  <2>2. sq \in Seq(S)
    BY <2>1 DEF IInv, TypeOK, QueueTypes
  <2>3. /\ Head(sq) \in S /\ Tail(sq) \in Seq(S) /\ Len(sq) > 0
        /\ Len(Tail(sq)) = Len(sq) - 1 /\ Head(sq) = sq[1]
        /\ \A i \in 1 .. Len(Tail(sq)) : Tail(sq)[i] = sq[i + 1]
    BY <1>2, <2>2, TailFacts
  <2> QED
    BY <1>2, <2>1, <2>3
<1>5. NotTransmitted' = NotTransmitted + 1
  <2>1. PICK l, a \in Nat : l = Len(sq) /\ a = posted
    BY <1>1 DEF Numerical
  <2>2. Len(sq') = l - 1 /\ posted' = a
    BY <1>2, <1>4, <2>1
  <2> QED
    BY <2>1, <2>2 DEF NotTransmitted
<1>6. NotTransmitted \in completed .. posted - 1
  BY <1>1, <1>4, Progress DEF NotTransmitted, Numerical
<1>7. Head(sq) = NotTransmitted % W
  <2>1. sq[1] = (NotTransmitted + 1 - 1) % W
    BY <1>1, <1>4 DEF IInv, SendSlots, Numerical
  <2>2. NotTransmitted + 1 - 1 = NotTransmitted
    BY <1>1, <1>6 DEF Numerical
  <2> QED
    BY <1>4, <2>1, <2>2
<1>8. slots["Client"][Head(sq)] = Payload(NotTransmitted)
  BY <1>6, <1>7 DEF IInv, SendSlots
<1>9. PICK p : p = [slot |-> Head(sq), content |-> Payload(NotTransmitted)]
  OBVIOUS
<1>10. p \in Packet /\ p.slot = NotTransmitted % W /\ p.content = Payload(NotTransmitted)
  <2>1. Payload(NotTransmitted) \in Content
    BY <1>1, <1>6 DEF Payload, Content, Number, Numerical
  <2> QED
    BY <1>4, <1>7, <1>9, <2>1
<1>11. /\ wire' \in Seq(Packet) /\ Len(wire') = Len(wire) + 1
       /\ \A i \in 1 .. Len(wire) : wire'[i] = wire[i]
       /\ wire'[Len(wire) + 1] = p
  <2>1. PICK S : S = Packet
    OBVIOUS
  <2>2. wire \in Seq(S) /\ p \in S
    BY <1>10, <2>1 DEF IInv, TypeOK, QueueTypes
  <2>3. wire' = Append(wire, p)
    BY <1>2, <1>8, <1>9
  <2> QED
    BY <2>1, <2>2, <2>3, AppendFacts
<1> HIDE DEF Packet
<1>12. Sends'
  <2>1. CASE transport = "Rc"
    BY <1>1, <1>2, <1>4, <1>11, <2>1 DEF IInv, Sends, Outstanding, Numerical
  <2>2. CASE transport = "Uc"
    BY <1>1, <1>2, <1>4, <1>11, <2>2 DEF IInv, Sends, Outstanding, Numerical
  <2> QED
    BY <2>1, <2>2, Progress
<1>13. SlotTypes' /\ QueueTypes' /\ CountTypes'
  <2>1. Len(sq') <= TxDepth
    BY <1>1, <1>4 DEF IInv, TypeOK, QueueTypes, Numerical
  <2>2. sent' \in Nat /\ sent' <= TxDepth + RxDepth
    <3>1. completed + sent + unacked <= NotReceived /\ NotReceived <= NotTransmitted
          /\ NotTransmitted < posted /\ posted <= completed + W
          /\ NotReceived \in Int /\ NotTransmitted \in Nat
      BY <1>1, <1>6, Progress DEF Numerical
    <3> QED
      BY <1>1, <1>2, <3>1 DEF Numerical
  <2>3. QueueTypes'
    BY <1>2, <1>4, <1>11, <2>1 DEF IInv, TypeOK, QueueTypes, Packet, Window, Depth
  <2> QED
    BY <1>1, <1>2, <2>2, <2>3 DEF IInv, TypeOK, SlotTypes, CountTypes, clientVars, serverVars, Numerical
<1>14. ReceiveSlots' /\ Blameless'
  BY <1>2 DEF IInv, ReceiveSlots, Blameless, Window, Depth
<1>15. transport = "Rc" => NotReceived' = NotReceived
  BY <1>1, <1>2, <1>5, <1>6, <1>11 DEF NotReceived, Numerical
<1>16. transport = "Uc" => NotReceived = NotTransmitted /\ NotReceived' = NotReceived + 1
  BY <1>2, <1>5 DEF NotReceived
<1>17. SendSlots'
  <2>1. \A n \in completed' .. posted' - 1 : slots'["Client"][n % W] = Payload(n)
    BY <1>2 DEF IInv, SendSlots
  <2>2. ASSUME NEW i \in 1 .. Len(sq') PROVE sq'[i] = (NotTransmitted' + i - 1) % W
    <3>1. i + 1 \in 1 .. Len(sq) /\ NotTransmitted' + i - 1 = NotTransmitted + (i + 1) - 1
      BY <1>1, <1>4, <1>5, <1>6 DEF Numerical
    <3>2. sq[i + 1] = (NotTransmitted + (i + 1) - 1) % W
      BY <3>1 DEF IInv, SendSlots
    <3> QED
      BY <1>4, <3>1, <3>2
  <2>3. ASSUME transport = "Rc", NEW i \in 1 .. Len(wire')
        PROVE  wire'[i].slot = (NotReceived' + i - 1) % W
    <3>1. CASE i = Len(wire) + 1
      <4>1. NotReceived + i - 1 = NotTransmitted
        BY <1>1, <1>6, <2>3, <3>1 DEF NotReceived, Numerical
      <4> QED
        BY <1>10, <1>11, <1>15, <2>3, <3>1, <4>1
    <3>2. CASE i \in 1 .. Len(wire)
      BY <1>11, <1>15, <2>3, <3>2 DEF IInv, SendSlots
    <3> QED
      BY <1>1, <1>11, <3>1, <3>2 DEF Numerical
  <2> QED
    BY <1>2, <2>1, <2>2, <2>3 DEF SendSlots, Window, Depth
<1>18. Faithful'
  <2> SUFFICES ASSUME mishaps = 0 PROVE Faithful'
    BY <1>2 DEF Faithful
  <2>1. UncheckedSlots' = UncheckedSlots
    BY <1>2 DEF UncheckedSlots
  <2>2. CASE transport = "Rc"
    BY <1>2, <1>15, <2>1, <2>2 DEF IInv, Faithful, Genuine
  <2>3. CASE transport = "Uc"
    <3>1. NotReceived \in Nat /\ 0 .. NotReceived - 1 \subseteq 0 .. NotReceived' - 1
          /\ NotReceived \in 0 .. NotReceived' - 1 /\ NotReceived \notin 0 .. NotReceived - 1
      BY <1>6, <1>16, <2>3, Progress
    <3>2. p.content = Payload(NotReceived) /\ p.content.number = NotReceived
      BY <1>10, <1>16, <2>3 DEF Payload
    <3>3. \A n \in seen : n < NotReceived /\ n < NotReceived'
      BY <1>16, <2>3, <3>1 DEF IInv, Faithful, TypeOK, CountTypes, Number
    <3>4. \A k \in UncheckedSlots : Genuine(slots["Server"][k])
      BY DEF IInv, Faithful
    <3>5. \A i \in 1 .. Len(wire) : Genuine(wire[i].content)
      BY <2>3 DEF IInv, Faithful
    <3>6. NotReceived \notin seen
      BY <3>1, <3>3
    <3>7. Genuine(p.content)'
      BY <1>2, <3>1, <3>2, <3>6 DEF Genuine
    <3>8. \A k \in UncheckedSlots' : Genuine(slots["Server"][k])'
      BY <1>2, <2>1, <3>1, <3>4 DEF Genuine
    <3>9. \A i \in 1 .. Len(wire) : Genuine(wire[i].content)' /\ wire[i].content.number # NotReceived
      BY <1>2, <1>11, <3>1, <3>5 DEF Genuine
    <3>10. \A k \in UncheckedSlots : slots["Server"][k].number # NotReceived
      BY <3>1, <3>4 DEF Genuine
    <3>11. \A i \in 1 .. Len(wire') : i \in 1 .. Len(wire) \/ i = Len(wire) + 1
      BY <1>1, <1>11 DEF Numerical
    <3>12. \A i \in 1 .. Len(wire') : Genuine(wire[i].content)'
      BY <1>11, <3>7, <3>9, <3>11
    <3>13. \A i, j \in 1 .. Len(wire') : wire'[i].content.number = wire'[j].content.number => i = j
      BY <1>11, <2>3, <3>2, <3>9, <3>11 DEF IInv, Faithful
    <3>14. \A i \in 1 .. Len(wire'), k \in UncheckedSlots' :
             wire'[i].content.number # slots'["Server"][k].number
      BY <1>2, <1>11, <2>1, <2>3, <3>2, <3>10, <3>11 DEF IInv, Faithful
    <3> QED
      BY <1>2, <2>1, <3>3, <3>8, <3>12, <3>13, <3>14 DEF IInv, Faithful
  <2> QED
    BY <2>2, <2>3, Progress
<1> QED
  BY <1>3, <1>12, <1>13, <1>14, <1>17, <1>18 DEF IInv, TypeOK

(* Losing a message: nothing appears that was not there.  A lost RC        *)
(* message is one whose sender is gone.                                    *)
LEMMA LoseStep == ASSUME IInv, Lose PROVE IInv'
<1> DEFINE W == Window("Client")
           Packet == [slot : 0 .. W - 1, content : Content]
<1>1. Numerical
  BY Numbers
<1>2. /\ UNCHANGED <<connVars, transport, clientVars, serverVars>>
      /\ transport' = transport /\ slots' = slots /\ posted' = posted /\ completed' = completed
      /\ sq' = sq /\ rq' = rq /\ sent' = sent /\ arrived' = arrived /\ broken' = broken
      /\ unacked' = unacked /\ mishaps' = mishaps /\ batch' = batch /\ seen' = seen
      /\ tally' = tally /\ phase' = phase
      /\ wire # <<>> /\ wire' = Tail(wire)
  BY DEF Lose, connVars, clientVars, serverVars, queueVars
<1>3. ConnTypes' /\ Shape' /\ BarrierBytes' /\ WindowHeld' /\ Sums' /\ Reported'
  BY <1>2, AdapterRest
<1>4. /\ wire' \in Seq(Packet) /\ Len(wire) > 0 /\ Len(wire') = Len(wire) - 1
      /\ \A i \in 1 .. Len(wire') : wire'[i] = wire[i + 1]
  <2>1. PICK S : S = Packet
    OBVIOUS
  <2>2. wire \in Seq(S)
    BY <2>1 DEF IInv, TypeOK, QueueTypes
  <2>3. /\ Tail(wire) \in Seq(S) /\ Len(wire) > 0 /\ Len(Tail(wire)) = Len(wire) - 1
        /\ \A i \in 1 .. Len(Tail(wire)) : Tail(wire)[i] = wire[i + 1]
    BY <1>2, <2>2, TailFacts
  <2> QED
    BY <1>2, <2>1, <2>3
<1> HIDE DEF Packet
<1>5. \A i \in 1 .. Len(wire') : i + 1 \in 1 .. Len(wire) /\ i \in Nat
  BY <1>1, <1>4 DEF Numerical
<1>6. Sends'
  <2>1. CASE transport = "Rc"
    BY <1>1, <1>2, <1>4, <2>1 DEF IInv, Sends, Outstanding, Numerical
  <2>2. CASE transport # "Rc"
    BY <1>1, <1>2, <2>2 DEF IInv, Sends, Outstanding, Numerical
  <2> QED
    BY <2>1, <2>2
<1>7. SlotTypes' /\ QueueTypes' /\ CountTypes'
  BY <1>2, <1>4 DEF IInv, TypeOK, SlotTypes, QueueTypes, CountTypes, clientVars, serverVars,
        Packet, Window, Depth
<1>8. ReceiveSlots' /\ Blameless'
  BY <1>2 DEF IInv, ReceiveSlots, Blameless, Window, Depth
<1>9. NotTransmitted' = NotTransmitted /\ NotReceived \in Int
  BY <1>2, Progress DEF NotTransmitted
<1>10. NotReceived' = IF transport = "Rc" THEN NotReceived + 1 ELSE NotReceived
  BY <1>1, <1>2, <1>4, <1>9, Progress DEF NotReceived, Numerical
<1>11. SendSlots'
  <2>1. \A n \in completed' .. posted' - 1 : slots'["Client"][n % W] = Payload(n)
    BY <1>2 DEF IInv, SendSlots
  <2>2. \A i \in 1 .. Len(sq') : sq'[i] = (NotTransmitted' + i - 1) % W
    BY <1>2, <1>9 DEF IInv, SendSlots
  <2>3. ASSUME transport = "Rc", NEW i \in 1 .. Len(wire')
        PROVE  wire'[i].slot = (NotReceived' + i - 1) % W
    <3>1. i + 1 \in 1 .. Len(wire) /\ NotReceived' + i - 1 = NotReceived + (i + 1) - 1
      BY <1>5, <1>9, <1>10, <2>3
    <3>2. wire[i + 1].slot = (NotReceived + (i + 1) - 1) % W
      BY <2>3, <3>1 DEF IInv, SendSlots
    <3> QED
      BY <1>4, <3>1, <3>2
  <2> QED
    BY <1>2, <2>1, <2>2, <2>3 DEF SendSlots, Window, Depth
<1>12. Faithful'
  <2> SUFFICES ASSUME mishaps = 0 PROVE Faithful'
    BY <1>2 DEF Faithful
  <2>1. UncheckedSlots' = UncheckedSlots
    BY <1>2 DEF UncheckedSlots
  <2>2. 0 .. NotReceived - 1 \subseteq 0 .. NotReceived' - 1 /\ NotReceived <= NotReceived'
    BY <1>9, <1>10
  <2>3. \A n \in seen : n < NotReceived'
    <3>1. \A n \in seen : n \in Int /\ n < NotReceived
      BY Windows DEF IInv, TypeOK, CountTypes, Number, Faithful
    <3> QED
      BY <1>9, <1>10, <3>1
  <2>4. \A c : Genuine(c) => c = Payload(c.number) /\ c.number \in 0 .. NotReceived' - 1
                             /\ c.number \notin seen
    BY <2>2 DEF Genuine
  <2>5. \A k \in UncheckedSlots' : Genuine(slots["Server"][k])'
    BY <1>2, <2>1, <2>4 DEF IInv, Faithful, Genuine
  <2>6. ASSUME transport = "Uc"
        PROVE  /\ \A i \in 1 .. Len(wire') : Genuine(wire[i].content)'
               /\ \A i, j \in 1 .. Len(wire') :
                    wire'[i].content.number = wire'[j].content.number => i = j
               /\ \A i \in 1 .. Len(wire'), k \in UncheckedSlots' :
                    wire'[i].content.number # slots'["Server"][k].number
    <3>1. \A i \in 1 .. Len(wire') : Genuine(wire[i].content)'
      <4>1. \A i \in 1 .. Len(wire') : Genuine(wire[i + 1].content)
        BY <1>5, <2>6 DEF IInv, Faithful
      <4> QED
        BY <1>2, <1>4, <2>4, <4>1 DEF Genuine
    <3>2. \A i, j \in 1 .. Len(wire') :
            wire'[i].content.number = wire'[j].content.number => i = j
      <4>1. ASSUME NEW i \in 1 .. Len(wire'), NEW j \in 1 .. Len(wire'),
                   wire'[i].content.number = wire'[j].content.number
            PROVE  i = j
        <5>1. i + 1 = j + 1
          BY <1>4, <1>5, <2>6, <4>1 DEF IInv, Faithful
        <5> QED
          BY <1>5, <5>1
      <4> QED
        BY <4>1
    <3>3. \A i \in 1 .. Len(wire'), k \in UncheckedSlots' :
            wire'[i].content.number # slots'["Server"][k].number
      BY <1>2, <1>4, <1>5, <2>1, <2>6 DEF IInv, Faithful
    <3> QED
      BY <3>1, <3>2, <3>3
  <2> QED
    BY <1>2, <2>1, <2>3, <2>5, <2>6 DEF IInv, Faithful
<1> QED
  BY <1>3, <1>6, <1>7, <1>8, <1>11, <1>12 DEF IInv, TypeOK

(* What a receiver finds in its slot: something of the right shape; the    *)
(* message itself, unless the fabric has had its hands on it; and over RC  *)
(* the next one of the stream.                                             *)
LEMMA Delivered ==
  ASSUME IInv, NEW i \in DOMAIN wire, NEW again \in BOOLEAN,
         i > 1 => transport = "Uc", again => transport = "Uc",
         NEW m \in Contents(wire[i]),
         mishaps' = IF again \/ (transport = "Uc" /\ m # wire[i].content)
                      THEN mishaps + 1 ELSE mishaps
  PROVE  /\ m \in Content /\ mishaps' \in Nat
         /\ mishaps' = 0 => mishaps = 0
         /\ transport = "Uc" /\ mishaps' = 0 => ~again /\ m = wire[i].content
         /\ transport = "Rc" => /\ i = 1 /\ ~again /\ mishaps' = mishaps
                                /\ m = Payload(NotReceived)
<1>1. Numerical
  BY Numbers
<1>2. /\ DOMAIN wire = 1 .. Len(wire) /\ i \in 1 .. Len(wire)
      /\ wire[i].slot \in 0 .. Window("Client") - 1 /\ wire[i].content \in Content
  <2>1. PICK S : S = [slot : 0 .. Window("Client") - 1, content : Content]
    OBVIOUS
  <2>2. wire \in Seq(S)
    BY <2>1 DEF IInv, TypeOK, QueueTypes
  <2>3. DOMAIN wire = 1 .. Len(wire) /\ wire[i] \in S
    BY <2>2, LenProperties, ElementOfSeq
  <2> QED
    BY <2>1, <2>3
<1>3. mishaps' \in Nat /\ (mishaps' = 0 => mishaps = 0)
  BY <1>1 DEF Numerical
<1>4. CASE transport = "Rc"
  <2>1. i = 1 /\ again = FALSE /\ transport # "Uc"
    BY <1>1, <1>2, <1>4 DEF Numerical
  <2>2. m = slots["Client"][wire[1].slot]
    <3>1. Contents(wire[i]) = {slots["Client"][wire[i].slot]}
      BY <1>4 DEF Contents
    <3> QED
      BY <2>1, <3>1
  <2>3. m \in Content
    BY <1>2, <2>1, <2>2 DEF IInv, TypeOK, SlotTypes, Role
  <2>4. wire[1].slot = NotReceived % Window("Client")
    <3>1. wire[1].slot = (NotReceived + 1 - 1) % Window("Client")
      BY <1>2, <1>4, <2>1 DEF IInv, SendSlots
    <3>2. NotReceived + 1 - 1 = NotReceived
      BY Progress
    <3> QED
      BY <3>1, <3>2
  <2>5. NotReceived \in completed .. posted - 1
    <3>1. NotReceived = NotTransmitted - Len(wire) /\ Len(wire) > 0 /\ Len(wire) \in Nat
      BY <1>1, <1>2, <1>4 DEF NotReceived, Numerical
    <3>2. /\ completed \in Nat /\ sent \in Nat /\ unacked \in Nat /\ posted \in Nat
          /\ completed + sent + unacked <= NotReceived /\ NotTransmitted <= posted
          /\ NotReceived \in Int /\ NotTransmitted \in Nat
      BY <1>1, Progress DEF Numerical
    <3> QED
      BY <3>1, <3>2
  <2>6. m = Payload(NotReceived)
    BY <2>2, <2>4, <2>5 DEF IInv, SendSlots
  <2> QED
    BY <1>3, <1>4, <2>1, <2>3, <2>6
<1>5. CASE transport = "Uc"
  <2>1. m \in {wire[i].content} \cup Damaged(wire[i].content)
    BY <1>5 DEF Contents
  <2>2. m \in Content
    <3>1. Damaged(wire[i].content) \subseteq Content
      BY <1>2 DEF Damaged, Content
    <3> QED
      BY <1>2, <2>1, <3>1
  <2>3. mishaps' = 0 => ~again /\ m = wire[i].content
    BY <1>1, <1>5 DEF Numerical
  <2> QED
    BY <1>3, <1>5, <2>2, <2>3
<1> QED
  BY <1>4, <1>5, Progress

(* What is still on the wire is what was there before, at another place.   *)
LEMMA StillOnTheWire ==
  ASSUME IInv, NEW i \in DOMAIN wire, NEW again \in BOOLEAN,
         wire' = IF again THEN wire ELSE RemoveAt(wire, i)
  PROVE  /\ wire' \in Seq([slot : 0 .. Window("Client") - 1, content : Content])
         /\ ~again => /\ Len(wire') = Len(wire) - 1
                      /\ \A j \in 1 .. Len(wire') : wire'[j] = wire[IF j < i THEN j ELSE j + 1]
<1>1. PICK S : S = [slot : 0 .. Window("Client") - 1, content : Content]
  OBVIOUS
<1>2. wire \in Seq(S) /\ DOMAIN wire = 1 .. Len(wire) /\ Len(wire) \in Nat
  <2>1. wire \in Seq(S)
    BY <1>1 DEF IInv, TypeOK, QueueTypes
  <2> QED
    BY <2>1, LenProperties
<1>3. CASE again
  BY <1>1, <1>2, <1>3
<1>4. CASE ~again
  <2>1. /\ RemoveAt(wire, i) \in Seq(S)
        /\ Len(RemoveAt(wire, i)) = Len(wire) - 1
        /\ \A j \in 1 .. Len(wire) - 1 : RemoveAt(wire, i)[j] = wire[IF j < i THEN j ELSE j + 1]
    BY <1>2, RemoveFacts
  <2>2. wire' = RemoveAt(wire, i)
    BY <1>4
  <2> HIDE DEF RemoveAt
  <2> QED
    BY <1>1, <1>4, <2>1, <2>2
<1> QED
  BY <1>3, <1>4

(* The receive that is filled goes from the receive queue to those that    *)
(* have arrived.                                                           *)
LEMMA ReceiveFilled ==
  ASSUME IInv, rq # <<>>, rq' = Tail(rq), arrived' = Append(arrived, Head(rq)), batch' = batch,
         phase' = phase
  PROVE  /\ Head(rq) \in 0 .. Window("Server") - 1 /\ Head(rq) \notin UncheckedSlots
         /\ UncheckedSlots' = UncheckedSlots \cup {Head(rq)}
         /\ rq' \in Seq(0 .. Window("Server") - 1) /\ Len(rq') <= RxDepth
         /\ arrived' \in Seq(0 .. Window("Server") - 1) /\ Len(arrived') <= TxDepth + RxDepth
         /\ ReceiveSlots'
<1>1. Numerical
  BY Numbers
<1>2. PICK S : S = 0 .. Window("Server") - 1
  OBVIOUS
<1>3. rq \in Seq(S) /\ arrived \in Seq(S) /\ batch \in Seq(S) /\ Len(rq) <= RxDepth
  BY <1>2 DEF IInv, TypeOK, QueueTypes
<1>4. PICK h : h = Head(rq)
  OBVIOUS
<1>5. /\ h \in S /\ rq' \in Seq(S) /\ Len(rq) > 0 /\ Len(rq') = Len(rq) - 1
      /\ Range(rq) = Range(rq') \cup {h}
      /\ IsInjective(rq) => IsInjective(rq') /\ h \notin Range(rq')
  <2>1. /\ Head(rq) \in S /\ Tail(rq) \in Seq(S) /\ Len(rq) > 0 /\ Len(Tail(rq)) = Len(rq) - 1
        /\ Range(rq) = Range(Tail(rq)) \cup {Head(rq)}
        /\ IsInjective(rq) => IsInjective(Tail(rq)) /\ Head(rq) \notin Range(Tail(rq))
    BY <1>3, TailFacts
  <2> QED
    BY <1>4, <2>1
<1>6. /\ IsInjective(rq) /\ IsInjective(arrived) /\ IsInjective(batch)
      /\ Range(rq) \cap Range(arrived) = {} /\ Range(rq) \cap Range(batch) = {}
      /\ Range(arrived) \cap Range(batch) = {}
      /\ Len(rq) + Len(arrived) + Len(batch)
           = IF phase["Server"] = "post" THEN 0 ELSE Window("Server")
  BY DEF IInv, ReceiveSlots
<1>7. /\ arrived' \in Seq(S) /\ Len(arrived') = Len(arrived) + 1
      /\ Range(arrived') = Range(arrived) \cup {h} /\ IsInjective(arrived')
  <2>1. h \notin Range(arrived)
    BY <1>5, <1>6
  <2>2. /\ Append(arrived, h) \in Seq(S) /\ Len(Append(arrived, h)) = Len(arrived) + 1
        /\ Range(Append(arrived, h)) = Range(arrived) \cup {h}
        /\ IsInjective(Append(arrived, h))
    BY <1>3, <1>5, <1>6, <2>1, AppendFacts
  <2> QED
    BY <1>4, <2>2
<1>8. Len(rq') + Len(arrived') + Len(batch) = Window("Server") /\ phase["Server"] # "post"
  BY <1>1, <1>5, <1>6, <1>7 DEF Numerical
<1>9. ReceiveSlots'
  <2>1. /\ Range(rq') \cap Range(arrived') = {} /\ Range(rq') \cap Range(batch) = {}
        /\ Range(arrived') \cap Range(batch) = {}
    BY <1>5, <1>6, <1>7
  <2> QED
    BY <1>5, <1>6, <1>7, <1>8, <2>1 DEF ReceiveSlots, Window, Depth
<1>10. Len(rq') <= RxDepth /\ Len(arrived') <= TxDepth + RxDepth
  <2>1. Len(arrived') \in Nat /\ Len(rq') \in Nat
    BY <1>5, <1>7, LenProperties
  <2> QED
    BY <1>1, <1>3, <1>5, <1>8, <2>1 DEF Numerical
<1>11. h \notin UncheckedSlots /\ UncheckedSlots' = UncheckedSlots \cup {h}
  BY <1>5, <1>6, <1>7 DEF UncheckedSlots
<1> QED
  BY <1>2, <1>4, <1>5, <1>7, <1>9, <1>10, <1>11

(* A message goes from the wire into the oldest receive.                   *)
LEMMA DeliverStep ==
  ASSUME IInv, NEW i \in DOMAIN wire, NEW again \in BOOLEAN, Deliver(i, again)
  PROVE  IInv'
<1> DEFINE W == Window("Client")
           h == Head(rq)
<1>1. Numerical
  BY Numbers
<1>2. /\ UNCHANGED <<connVars, transport, clientVars, serverVars>>
      /\ transport' = transport /\ posted' = posted /\ completed' = completed
      /\ sq' = sq /\ sent' = sent /\ broken' = broken
      /\ batch' = batch /\ seen' = seen /\ tally' = tally /\ phase' = phase
      /\ rq # <<>> /\ rq' = Tail(rq) /\ arrived' = Append(arrived, Head(rq))
      /\ wire' = (IF again THEN wire ELSE RemoveAt(wire, i))
      /\ unacked' = (IF transport = "Rc" THEN unacked + 1 ELSE unacked)
      /\ (i > 1 => transport = "Uc") /\ (again => transport = "Uc")
  BY DEF Deliver, connVars, clientVars, serverVars
<1>3. PICK m \in Contents(wire[i]) :
        /\ slots' = [slots EXCEPT !["Server"][h] = m]
        /\ mishaps' = IF again \/ (transport = "Uc" /\ m # wire[i].content)
                        THEN mishaps + 1 ELSE mishaps
  BY DEF Deliver
<1>4. ConnTypes' /\ Shape' /\ BarrierBytes' /\ WindowHeld' /\ Sums' /\ Reported'
  BY <1>2, AdapterRest
<1>5. /\ m \in Content /\ mishaps' \in Nat
      /\ mishaps' = 0 => mishaps = 0
      /\ transport = "Uc" /\ mishaps' = 0 => ~again /\ m = wire[i].content
      /\ transport = "Rc" => /\ i = 1 /\ ~again /\ mishaps' = mishaps
                             /\ m = Payload(NotReceived)
  BY <1>2, <1>3, Delivered
<1>6. /\ wire' \in Seq([slot : 0 .. W - 1, content : Content])
      /\ ~again => /\ Len(wire') = Len(wire) - 1
                   /\ \A j \in 1 .. Len(wire') : wire'[j] = wire[IF j < i THEN j ELSE j + 1]
  BY <1>2, StillOnTheWire
<1>7. /\ h \in 0 .. Window("Server") - 1 /\ h \notin UncheckedSlots
      /\ UncheckedSlots' = UncheckedSlots \cup {h}
      /\ rq' \in Seq(0 .. Window("Server") - 1) /\ Len(rq') <= RxDepth
      /\ arrived' \in Seq(0 .. Window("Server") - 1) /\ Len(arrived') <= TxDepth + RxDepth
      /\ ReceiveSlots'
  BY <1>2, ReceiveFilled
<1> HIDE DEF h
<1>8. /\ slots'["Client"] = slots["Client"]
      /\ slots'["Server"][h] = m
      /\ \A k \in 0 .. Window("Server") - 1 : k # h => slots'["Server"][k] = slots["Server"][k]
      /\ SlotTypes'
  <2>1. /\ slots["Server"] \in [0 .. Window("Server") - 1 -> Content]
        /\ slots["Client"] \in [0 .. Window("Client") - 1 -> Content]
        /\ DOMAIN slots = Role
    BY DEF IInv, TypeOK, SlotTypes, Role
  <2>2. /\ slots'["Client"] = slots["Client"]
        /\ slots'["Server"] = [slots["Server"] EXCEPT ![h] = m]
        /\ slots' = [slots EXCEPT !["Server"] = slots'["Server"]]
    BY <1>3, <2>1 DEF Role
  <2>3. slots'["Server"] \in [0 .. Window("Server") - 1 -> Content]
    BY <1>5, <1>7, <2>1, <2>2
  <2>4. SlotTypes'
    BY <2>1, <2>2, <2>3 DEF IInv, TypeOK, SlotTypes, Role
  <2> QED
    BY <1>7, <2>1, <2>2, <2>4
<1>9. DOMAIN wire = 1 .. Len(wire) /\ i \in 1 .. Len(wire)
  BY LenProperties DEF IInv, TypeOK, QueueTypes
<1>10. QueueTypes' /\ CountTypes'
  <2>1. unacked' \in Nat
    BY <1>1, <1>2 DEF Numerical
  <2> QED
    BY <1>2, <1>5, <1>6, <1>7, <2>1
       DEF IInv, TypeOK, QueueTypes, CountTypes, clientVars, serverVars, Window, Depth
<1>11. Sends'
  <2>1. CASE transport = "Rc"
    BY <1>1, <1>2, <1>5, <1>6, <2>1 DEF IInv, Sends, Outstanding, Numerical
  <2>2. CASE transport = "Uc"
    BY <1>1, <1>2, <2>2 DEF IInv, Sends, Outstanding, Numerical
  <2> QED
    BY <2>1, <2>2, Progress
<1>12. Blameless'
  BY <1>2, <1>5 DEF IInv, Blameless
<1>13. NotTransmitted' = NotTransmitted /\ NotReceived \in Int
  BY <1>2, Progress DEF NotTransmitted
<1>14. NotReceived' = IF transport = "Rc" THEN NotReceived + 1 ELSE NotReceived
  <2>1. CASE transport = "Rc"
    <3>1. NotReceived' = NotTransmitted - Len(wire') /\ NotReceived = NotTransmitted - Len(wire)
      BY <1>2, <1>13, <2>1 DEF NotReceived
    <3>2. Len(wire') = Len(wire) - 1
      BY <1>5, <1>6, <2>1
    <3>3. NotTransmitted \in Nat /\ Len(wire) \in Nat
      BY <1>1, Progress DEF Numerical
    <3> HIDE DEF NotReceived, NotTransmitted
    <3> QED
      BY <2>1, <3>1, <3>2, <3>3
  <2>2. CASE transport # "Rc"
    BY <1>2, <1>13, <2>2 DEF NotReceived
  <2> QED
    BY <2>1, <2>2
<1>15. SendSlots'
  <2>1. \A n \in completed' .. posted' - 1 : slots'["Client"][n % W] = Payload(n)
    BY <1>2, <1>8 DEF IInv, SendSlots
  <2>2. \A j \in 1 .. Len(sq') : sq'[j] = (NotTransmitted' + j - 1) % W
    BY <1>2, <1>13 DEF IInv, SendSlots
  <2>3. ASSUME transport = "Rc", NEW j \in 1 .. Len(wire')
        PROVE  wire'[j].slot = (NotReceived' + j - 1) % W
    <3>1. /\ j + 1 \in 1 .. Len(wire) /\ ~(j < i)
          /\ NotReceived' + j - 1 = NotReceived + (j + 1) - 1
      BY <1>1, <1>5, <1>6, <1>13, <1>14, <2>3 DEF Numerical
    <3>2. wire[j + 1].slot = (NotReceived + (j + 1) - 1) % W
      BY <2>3, <3>1 DEF IInv, SendSlots
    <3> QED
      BY <1>5, <1>6, <2>3, <3>1, <3>2
  <2> QED
    BY <1>2, <2>1, <2>2, <2>3 DEF SendSlots, Window, Depth
<1>16. Faithful'
  <2> SUFFICES ASSUME mishaps' = 0 PROVE Faithful'
    BY DEF Faithful
  <2>1. /\ mishaps = 0 /\ ~again
        /\ transport = "Uc" => m = wire[i].content
        /\ transport = "Rc" => m = Payload(NotReceived)
    BY <1>5, Progress
  <2>2. 0 .. NotReceived - 1 \subseteq 0 .. NotReceived' - 1 /\ NotReceived <= NotReceived'
    BY <1>13, <1>14
  <2>3. \A n \in seen : n \in Int /\ n < NotReceived /\ n < NotReceived'
    <3>1. \A n \in seen : n \in Int /\ n < NotReceived
      BY <2>1, Windows DEF IInv, TypeOK, CountTypes, Number, Faithful
    <3> QED
      BY <1>13, <1>14, <3>1
  <2>4. \A c : Genuine(c) => c = Payload(c.number) /\ c.number \in 0 .. NotReceived' - 1
                             /\ c.number \notin seen
    BY <2>2 DEF Genuine
  <2>5. /\ m = Payload(m.number) /\ m.number \in 0 .. NotReceived' - 1 /\ m.number \notin seen
        /\ \A k \in UncheckedSlots : slots["Server"][k].number # m.number
    <3>1. CASE transport = "Uc"
      <4>1. Genuine(m)
        BY <1>9, <2>1, <3>1 DEF IInv, Faithful
      <4>2. \A k \in UncheckedSlots : slots["Server"][k].number # m.number
        BY <1>9, <2>1, <3>1 DEF IInv, Faithful
      <4> QED
        BY <2>4, <4>1, <4>2
    <3>2. CASE transport = "Rc"
      <4>1. m = Payload(NotReceived) /\ m.number = NotReceived
        BY <2>1, <3>2 DEF Payload
      <4>2. NotReceived \in 0 .. NotReceived' - 1 /\ NotReceived \notin 0 .. NotReceived - 1
        <5>1. NotReceived \in Nat
          <6>1. completed \in Nat /\ sent \in Nat /\ unacked \in Nat
            BY <1>1 DEF Numerical
          <6> QED
            BY <6>1, Progress
        <5>2. NotReceived' = NotReceived + 1
          BY <1>14, <3>2
        <5> QED
          BY <5>1, <5>2
      <4>3. NotReceived \notin seen
        BY <1>13, <2>3
      <4>4. \A k \in UncheckedSlots : slots["Server"][k].number # m.number
        BY <2>1, <4>1, <4>2 DEF IInv, Faithful, Genuine
      <4> QED
        BY <4>1, <4>2, <4>3, <4>4
    <3> QED
      BY <3>1, <3>2, Progress
  <2>6. \A k \in UncheckedSlots : k # h /\ slots'["Server"][k] = slots["Server"][k]
    <3>1. UncheckedSlots \subseteq 0 .. Window("Server") - 1
      <4>1. PICK S : S = 0 .. Window("Server") - 1
        OBVIOUS
      <4>2. arrived \in Seq(S) /\ batch \in Seq(S)
        BY <4>1 DEF IInv, TypeOK, QueueTypes
      <4>3. Range(arrived) \subseteq S /\ Range(batch) \subseteq S
        BY <4>2, RangeOfSeq, Zenon DEF Range
      <4> QED
        BY <4>1, <4>3 DEF UncheckedSlots
    <3> QED
      BY <1>7, <1>8, <3>1
  <2>7. \A k \in UncheckedSlots' : Genuine(slots["Server"][k])'
    <3>1. \A k \in UncheckedSlots : Genuine(slots["Server"][k])
      BY <2>1 DEF IInv, Faithful
    <3> QED
      BY <1>2, <1>7, <1>8, <2>4, <2>5, <2>6, <3>1 DEF Genuine
  <2>8. \A k, l \in UncheckedSlots' :
          slots'["Server"][k].number = slots'["Server"][l].number => k = l
    BY <1>7, <1>8, <2>1, <2>5, <2>6 DEF IInv, Faithful
  <2>9. ASSUME transport = "Uc"
        PROVE  /\ \A j \in 1 .. Len(wire') : Genuine(wire[j].content)'
               /\ \A j, l \in 1 .. Len(wire') :
                    wire'[j].content.number = wire'[l].content.number => j = l
               /\ \A j \in 1 .. Len(wire'), k \in UncheckedSlots' :
                    wire'[j].content.number # slots'["Server"][k].number
    <3> DEFINE at(j) == IF j < i THEN j ELSE j + 1
    <3>1. /\ \A j \in 1 .. Len(wire') : at(j) \in 1 .. Len(wire) /\ at(j) # i
          /\ \A j, l \in 1 .. Len(wire') : at(j) = at(l) => j = l
      <4>1. PICK n \in Nat : n = Len(wire)
        BY <1>1 DEF Numerical
      <4>2. i \in 1 .. n /\ Len(wire') = n - 1
        BY <1>6, <1>9, <2>1, <4>1
      <4>3. /\ \A j \in 1 .. n - 1 : at(j) \in 1 .. n /\ at(j) # i
            /\ \A j, l \in 1 .. n - 1 : at(j) = at(l) => j = l
        BY <4>1, <4>2
      <4> QED
        BY <4>1, <4>2, <4>3
    <3>2. \A j \in 1 .. Len(wire') : wire'[j] = wire[at(j)]
      BY <1>6, <2>1
    <3> HIDE DEF at
    <3>3. /\ \A j \in 1 .. Len(wire) : Genuine(wire[j].content)
          /\ \A j, l \in 1 .. Len(wire) :
               wire[j].content.number = wire[l].content.number => j = l
          /\ \A j \in 1 .. Len(wire), k \in UncheckedSlots :
               wire[j].content.number # slots["Server"][k].number
      BY <2>1, <2>9 DEF IInv, Faithful
    <3>4. \A j \in 1 .. Len(wire') : Genuine(wire[j].content)'
      <4>1. \A j \in 1 .. Len(wire') : Genuine(wire[at(j)].content)
        BY <3>1, <3>3
      <4> QED
        BY <1>2, <2>4, <3>2, <4>1 DEF Genuine
    <3>5. \A j, l \in 1 .. Len(wire') :
            wire'[j].content.number = wire'[l].content.number => j = l
      BY <3>1, <3>2, <3>3
    <3>6. ASSUME NEW j \in 1 .. Len(wire'), NEW k \in UncheckedSlots'
          PROVE  wire'[j].content.number # slots'["Server"][k].number
      <4>1. CASE k = h
        <5>1. slots'["Server"][k].number = wire[i].content.number
          BY <1>8, <2>1, <2>9, <4>1
        <5>2. wire[at(j)].content.number # wire[i].content.number
          BY <1>9, <3>1, <3>3
        <5> QED
          BY <3>2, <5>1, <5>2
      <4>2. CASE k \in UncheckedSlots
        BY <2>6, <3>1, <3>2, <3>3, <4>2
      <4> QED
        BY <1>7, <4>1, <4>2
    <3> QED
      BY <3>4, <3>5, <3>6
  <2> QED
    BY <1>2, <2>3, <2>7, <2>8, <2>9 DEF Faithful
<1> QED
  BY <1>4, <1>7, <1>8, <1>10, <1>11, <1>12, <1>15, <1>16 DEF IInv, TypeOK

(* Every step preserves the invariant.                                     *)
LEMMA InvStep == IInv /\ [Next]_vars => IInv'
<1> SUFFICES ASSUME IInv, [Next]_vars PROVE IInv'
  OBVIOUS
<1>1. ASSUME NEW r \in Role, Process(r) PROVE IInv'
  BY <1>1, SyncStep, ControlStep, PostFirstStep, PollSentStep, RefillStep, PostReceivesStep,
     PollArrivedStep, CheckOneStep, SendReportStep DEF Process
<1>2. ASSUME Adapters PROVE IInv'
  BY <1>2, TransmitStep, AcknowledgeStep, LoseStep, BreakStep, DeliverStep
     DEF Adapters, RetryExceeded, Role
<1>3. ASSUME NEW r \in Role, HcaFault(r) \/ Killed(r) PROVE IInv'
  BY <1>3, BreakStep, ControlStep DEF HcaFault
<1>4. ASSUME UNCHANGED vars PROVE IInv'
  <2>1. UNCHANGED <<connVars, transport, clientVars, serverVars>>
        /\ UNCHANGED <<transport, slots, queueVars, wireVars, clientVars, serverVars>>
        /\ phase' = phase
    BY <1>4 DEF vars, connVars
  <2>2. ConnTypes' /\ Shape' /\ BarrierBytes' /\ WindowHeld' /\ Sums' /\ Reported'
    BY <2>1, AdapterRest
  <2>3. Sends' /\ ReceiveSlots' /\ SendSlots' /\ Faithful' /\ Blameless'
    BY <2>1, DataUntouched
  <2>4. SlotTypes' /\ QueueTypes' /\ CountTypes'
    BY <2>1 DEF IInv, TypeOK, SlotTypes, QueueTypes, CountTypes, queueVars, wireVars,
          clientVars, serverVars
  <2> QED
    BY <2>2, <2>3, <2>4 DEF IInv, TypeOK
<1> QED
  BY <1>1, <1>2, <1>3, <1>4 DEF Next, Over

(* The inductive invariant holds in every run, for every stream, window,   *)
(* transport and set of faults.                                            *)
THEOREM Invariant == Spec => []IInv
  BY InvInitial, InvStep, PTL DEF Spec

(* Types; no queue of the adapters overflows, as the code sizes them       *)
(* (accuracy.rs:62, transport/mod.rs).                                     *)
THEOREM TypeInvariant == Spec => []TypeOK
<1>1. IInv => TypeOK
  BY DEF IInv
<1> QED
  BY <1>1, Invariant, PTL

(* A receive slot is never both in the adapter's hands and in check()'s    *)
(* (accuracy.rs:186-231).                                                  *)
THEOREM SlotsHaveOnePlace == Spec => []ReceiveSlotsHaveOnePlace
<1>1. IInv => ReceiveSlotsHaveOnePlace
  <2> SUFFICES ASSUME IInv, phase["Server"] # "post"
               PROVE  /\ Len(rq \o arrived \o batch) = Window("Server")
                      /\ IsInjective(rq \o arrived \o batch)
    BY DEF ReceiveSlotsHaveOnePlace, In
  <2>1. PICK S : S = 0 .. Window("Server") - 1
    OBVIOUS
  <2>2. rq \in Seq(S) /\ arrived \in Seq(S) /\ batch \in Seq(S)
    BY <2>1 DEF IInv, TypeOK, QueueTypes
  <2>3. /\ rq \o arrived \in Seq(S) /\ Len(rq \o arrived) = Len(rq) + Len(arrived)
        /\ Range(rq \o arrived) = Range(rq) \cup Range(arrived)
        /\ IsInjective(rq \o arrived)
    BY <2>2, ConcatFacts DEF IInv, ReceiveSlots
  <2>4. /\ Len(rq \o arrived \o batch) = Len(rq \o arrived) + Len(batch)
        /\ IsInjective(rq \o arrived \o batch)
    <3>1. Range(rq \o arrived) \cap Range(batch) = {}
      BY <2>3 DEF IInv, ReceiveSlots
    <3>2. IsInjective(batch)
      BY DEF IInv, ReceiveSlots
    <3>3. PICK a : a = rq \o arrived
      OBVIOUS
    <3>4. a \in Seq(S) /\ IsInjective(a) /\ Range(a) \cap Range(batch) = {}
      BY <2>3, <3>1, <3>3
    <3>5. Len(a \o batch) = Len(a) + Len(batch) /\ IsInjective(a \o batch)
      BY <2>2, <3>2, <3>4, ConcatFacts
    <3> QED
      BY <3>3, <3>5
  <2> QED
    BY <2>3, <2>4 DEF IInv, ReceiveSlots
<1> QED
  BY <1>1, Invariant, PTL

(* The counters of the report, in numbers.                                 *)
LEMMA ReportSums ==
  ASSUME IInv, report # NoReport
  PROVE  /\ report.received \in Nat /\ report.lost \in Nat /\ report.duplicated \in Nat
         /\ report.unidentifiable \in Nat /\ report.truncated \in Nat
         /\ report.corrupted \in Nat /\ report.correct \in Nat
         /\ report.received + report.lost
              = Iterations + report.duplicated + report.unidentifiable
         /\ report.truncated <= report.corrupted
         /\ report.corrupted + report.lost <= Iterations
         /\ report.correct + report.corrupted + 2 * report.lost = 2 * Iterations
         /\ mishaps = 0 => /\ report.duplicated = 0 /\ report.unidentifiable = 0
                           /\ report.corrupted = 0
<1>1. report = [tally EXCEPT !.lost = Lost] /\ phase["Server"] = "returned"
  BY DEF IInv, Reported
<1>2. tally \in Report
  BY DEF IInv, TypeOK, CountTypes
<1>3. PICK c \in Nat : c = Cardinality(seen) /\ c <= Iterations /\ Lost = Iterations - c
  BY SeenCount, Windows DEF IInv, TypeOK, CountTypes, Lost
<1>4. /\ report.received = tally.received /\ report.lost = Iterations - c
      /\ report.duplicated = tally.duplicated /\ report.unidentifiable = tally.unidentifiable
      /\ report.truncated = tally.truncated /\ report.corrupted = tally.corrupted
      /\ report.correct = tally.correct
  BY <1>1, <1>2, <1>3 DEF Report
<1>5. Len(batch) = 0
  BY <1>1 DEF IInv, Shape
<1>6. /\ tally.received \in Nat /\ tally.duplicated \in Nat /\ tally.unidentifiable \in Nat
      /\ tally.truncated \in Nat /\ tally.corrupted \in Nat /\ tally.correct \in Nat
  BY Numbers
<1>7. /\ tally.received = c + tally.duplicated + tally.unidentifiable
      /\ tally.truncated <= tally.corrupted /\ tally.corrupted <= c
      /\ tally.correct + tally.corrupted = 2 * c
  BY <1>3, <1>5, <1>6 DEF IInv, Sums
<1>8. mishaps = 0 => /\ tally.duplicated = 0 /\ tally.unidentifiable = 0
                     /\ tally.corrupted = 0
  BY DEF IInv, Blameless
<1> QED
  BY <1>3, <1>4, <1>6, <1>7, <1>8, Windows

(* The report accounts for every message and every byte (accuracy.rs:      *)
(* 251-305), whatever was lost, damaged, duplicated or reordered.          *)
THEOREM ReportsBalance == Spec => []ReportBalances
<1>1. IInv => ReportBalances
  BY ReportSums, Windows DEF ReportBalances
<1> QED
  BY <1>1, Invariant, PTL

(* Nothing is held against the fabric that it did not do: a slot is never  *)
(* filled again while its contents are still of use.                       *)
THEOREM NothingIsInvented == Spec => []NothingInvented
<1>1. IInv => NothingInvented
  <2> SUFFICES ASSUME IInv, mishaps = 0 PROVE NothingInvented
    BY DEF NothingInvented
  <2>1. report # NoReport => report.lost = Iterations - report.received
    BY ReportSums, Windows
  <2> QED
    BY <2>1 DEF IInv, Blameless, NothingInvented
<1> QED
  BY <1>1, Invariant, PTL

(* accuracy.rs:8: over RC the accuracy is 100% whenever the server got to  *)
(* see all messages.                                                       *)
THEOREM RcReportsArePerfect == Spec => []RcReportIsPerfect
<1>1. IInv => RcReportIsPerfect
  <2> SUFFICES ASSUME IInv, transport = "Rc", report # NoReport, report.received = Iterations
               PROVE  report.correct = 2 * Iterations
    BY DEF RcReportIsPerfect
  <2>1. mishaps = 0
    BY DEF IInv, Blameless
  <2> QED
    BY <2>1, ReportSums, Windows
<1> QED
  BY <1>1, Invariant, PTL

(* A client that returns has sent everything, and returns what the server  *)
(* has counted to the end (accuracy.rs:84-118).                            *)
THEOREM ReportsAreFinal == Spec => []ReportIsFinal
<1>1. IInv => ReportIsFinal
  <2> SUFFICES ASSUME IInv, outcome["Client"] = "ok" PROVE ReportIsFinal
    BY DEF ReportIsFinal
  <2>1. phase["Client"] = "returned" /\ barriers["Client"] = 2
    BY DEF IInv, Shape, Role
  <2>2. completed = Iterations /\ report = [tally EXCEPT !.lost = Lost]
    BY <2>1 DEF IInv, WindowHeld, Reported
  <2>3. Len(sq) = 0
    <3>1. NotTransmitted = posted - Len(sq) /\ NotTransmitted \in Nat
          /\ completed <= NotTransmitted
      BY Progress DEF NotTransmitted
    <3>2. posted \in Nat /\ posted <= Iterations /\ Len(sq) \in Nat /\ Iterations \in Nat
      BY Numbers DEF Numerical
    <3> QED
      BY <2>2, <3>1, <3>2
  <2>4. sq = <<>>
    BY <2>3, EmptySeq DEF IInv, TypeOK, QueueTypes
  <2> QED
    BY <2>2, <2>4 DEF ReportIsFinal
<1> QED
  BY <1>1, Invariant, PTL

(* A step of `sync` arrives at a barrier, leaves one or does neither.      *)
LEMMA SyncIsRendezvous ==
  ASSUME IInv, NEW r \in Role, Sync(r)
  PROVE  [RunBarriers!Next]_(RunBarriers!vars)
<1> USE DEF Role, Peer, Running
<1>0. /\ phase \in [Role -> {"sync", "wait", "post", "poll", "refill", "check", "report", "returned"}]
      /\ barriers \in [Role -> 0 .. 2] /\ \A q \in Role : inbox[q] \in Nat
  BY DEF IInv, TypeOK, ConnTypes
<1>1. CASE SyncWrite(r) /\ phase' # phase
  <2>1. barriers' = barriers /\ phase' = [phase EXCEPT ![r] = "wait"] /\ phase[r] = "sync"
    BY <1>1 DEF SyncWrite, Goto, Fail
  <2>2. barriers[r] < 2
    BY <2>1 DEF IInv, Shape
  <2>3. Arrived[r] = barriers[r]
    BY <1>0, <2>1 DEF Arrived
  <2>4. Arrived' = [Arrived EXCEPT ![r] = @ + 1]
    <3>1. Arrived'[r] = Arrived[r] + 1
      BY <1>0, <2>1, <2>3 DEF Arrived
    <3>2. \A q \in Role \ {r} : Arrived'[q] = Arrived[q]
      BY <1>0, <2>1 DEF Arrived
    <3>3. Arrived' = [q \in Role |-> Arrived'[q]] /\ Arrived = [q \in Role |-> Arrived[q]]
      BY DEF Arrived
    <3> QED
      BY <3>1, <3>2, <3>3
  <2>5. RunBarriers!Arrive(r)
    BY <2>1, <2>2, <2>3, <2>4 DEF RunBarriers!Arrive
  <2> QED
    BY <2>5 DEF RunBarriers!Next
<1>2. CASE SyncRead(r, AfterBarrier(r, barriers[r] + 1))
  <2>1. \A q \in Role : barriers[r] < Arrived[q]
    BY <1>0, <1>2 DEF SyncRead, IInv, BarrierBytes, Arrived
  <2>2. Arrived' = Arrived
    <3>1. AfterBarrier(r, barriers[r] + 1) # "wait"
      BY <1>0 DEF AfterBarrier
    <3> QED
      BY <1>0, <1>2, <3>1 DEF SyncRead, Goto, Arrived
  <2>3. RunBarriers!Leave(r)
    BY <1>2, <2>1, <2>2 DEF SyncRead, RunBarriers!Leave
  <2> QED
    BY <2>3 DEF RunBarriers!Next
<1>3. CASE phase' = phase /\ barriers' = barriers
  BY <1>3 DEF Arrived, RunBarriers!vars
<1> QED
  BY <1>1, <1>2, <1>3 DEF Sync, SyncWrite, SyncBroken, Fail

(* Every other step leaves the barriers alone.                             *)
LEMMA RestIsStutter ==
  ASSUME IInv, [Next]_vars, \A r \in Role : ~Sync(r)
  PROVE  UNCHANGED RunBarriers!vars
<1> DEFINE Keeps == /\ barriers' = barriers
                    /\ \A q \in Role : phase'[q] = "wait" <=> phase[q] = "wait"
<1>0. ASSUME barriers' = barriers, NEW q \in Role, NEW p, p # "wait", Goto(q, p), phase[q] # "wait"
      PROVE  Keeps
  BY <1>0 DEF Goto, IInv, TypeOK, ConnTypes
<1>1. ASSUME NEW r \in Role, Process(r) PROVE Keeps
  <2>1. CASE PostFirst \/ PollSent \/ Refill
    <3>1. PICK p \in {"post", "poll", "refill"} :
            Goto("Client", p) /\ barriers' = barriers /\ phase["Client"] # "wait"
      BY <2>1 DEF PostFirst, PollSent, Refill, In
    <3> QED
      BY <1>0, <3>1 DEF Role
  <2>2. CASE AllSent \/ ReceiveReport \/ SendReport
    <3>1. /\ barriers' = barriers
          /\ \/ phase' = phase
             \/ \E q \in Role : \E p \in {"sync", "returned"} : Goto(q, p) /\ phase[q] # "wait"
      BY <2>2 DEF AllSent, ReceiveReport, SendReport, In, Role, Fail
    <3> QED
      BY <1>0, <3>1
  <2>3. CASE PostReceives \/ PollArrived \/ CheckOne \/ Drained
    <3>1. PICK p \in {"sync", "poll", "check"} :
            Goto("Server", p) /\ barriers' = barriers /\ phase["Server"] # "wait"
      BY <2>3 DEF PostReceives, PollArrived, CheckOne, Drained, In
    <3> QED
      BY <1>0, <3>1 DEF Role
  <2>4. CASE PollError(r) \/ Drop(r)
    BY <1>0, <2>4 DEF PollError, Drop, Fail
  <2> QED
    BY <1>1, <2>1, <2>2, <2>3, <2>4 DEF Process
<1>2. ASSUME Adapters \/ Over \/ UNCHANGED vars PROVE Keeps
  BY <1>2 DEF Adapters, Over, vars, connVars, Transmit, Deliver, Acknowledge, Lose, RetryExceeded,
         Break
<1>3. ASSUME NEW r \in Role, HcaFault(r) \/ Killed(r) PROVE Keeps
  BY <1>3 DEF connVars, Break, HcaFault, Killed, Kill, Fail
<1>4. Keeps
  BY <1>1, <1>2, <1>3 DEF Next
<1> QED
  BY <1>4 DEF RunBarriers!vars, Arrived

(* `sync` keeps its promise in every run of the benchmark (comm.rs:145):   *)
(* nobody is past a barrier the other side has not reached, whatever       *)
(* fails.                                                                  *)
THEOREM BarriersAreRendezvous == Spec => RendezvousSpec
<1>1. Init => RunBarriers!Init
  BY DEF Init, ConnInit, Role, Arrived, RunBarriers!Init
<1>2. IInv /\ [Next]_vars => [RunBarriers!Next]_(RunBarriers!vars)
  BY SyncIsRendezvous, RestIsStutter
<1> QED
  BY <1>1, <1>2, Invariant, PTL DEF Spec, RendezvousSpec, RunBarriers!Spec
===============================================================================

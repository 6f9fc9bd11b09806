----------------------------- MODULE Latency_proof -----------------------------
(***************************************************************************)
(* Proofs about the ping-pong: IInv is inductive, and what it says of the  *)
(* round trips, the echo buffer, a complete run and the barriers.          *)
(*                                                                         *)
(* The lemma of an action first states what the action does to each        *)
(* variable and then goes through the conjuncts of IInv.                   *)
(***************************************************************************)
EXTENDS LatencyInv, Link_proof, QueueLemmas, FiniteSetTheorems, FunctionTheorems

(***************************************************************************)
(* Counting the completions in a queue.                                    *)
(***************************************************************************)

(* The places of a queue that hold a completion of one kind.               *)
LEMMA CountType ==
  ASSUME NEW S, NEW q \in Seq(S), NEW w
  PROVE  /\ IsFiniteSet({i \in DOMAIN q : q[i] = w})
         /\ CountOf(w, q) \in Nat
         /\ CountOf(w, q) > 0 <=> w \in Range(q)
<1> DEFINE places == {i \in DOMAIN q : q[i] = w}
<1>1. Len(q) \in Nat /\ DOMAIN q = 1 .. Len(q)
  BY LenProperties
<1>2. IsFiniteSet(1 .. Len(q))
  BY <1>1, FS_Interval
<1>3. IsFiniteSet(places)
  BY <1>1, <1>2, FS_Subset
<1>4. Cardinality(places) \in Nat
  BY <1>3, FS_CardinalityType
<1>5. Cardinality(places) = 0 <=> places = {}
  BY <1>3, FS_EmptySet
<1>6. places # {} <=> w \in Range(q)
  BY DEF Range
<1> QED
  BY <1>3, <1>4, <1>5, <1>6 DEF CountOf

(* Nothing is in an empty queue.                                           *)
LEMMA CountEmpty == ASSUME NEW w PROVE CountOf(w, <<>>) = 0
<1>1. {i \in DOMAIN <<>> : <<>>[i] = w} = {}
  OBVIOUS
<1> QED
  BY <1>1, FS_EmptySet DEF CountOf

(* One completion more.                                                    *)
LEMMA CountAppend ==
  ASSUME NEW S, NEW q \in Seq(S), NEW e \in S, NEW w
  PROVE  CountOf(w, Append(q, e)) = CountOf(w, q) + One(e = w)
<1> DEFINE old == {i \in DOMAIN q : q[i] = w}
           new == {i \in DOMAIN Append(q, e) : Append(q, e)[i] = w}
           last == Len(q) + 1
<1>1. /\ Len(q) \in Nat /\ DOMAIN q = 1 .. Len(q)
      /\ DOMAIN Append(q, e) = 1 .. Len(q) + 1
      /\ \A i \in 1 .. Len(q) : Append(q, e)[i] = q[i]
      /\ Append(q, e)[Len(q) + 1] = e
  BY LenProperties, AppendProperties
<1>2. IsFiniteSet(old) /\ Cardinality(old) \in Nat
  BY CountType DEF CountOf
<1>3. last \notin old
  BY <1>1
<1>4. CountOf(w, q) = Cardinality(old) /\ CountOf(w, Append(q, e)) = Cardinality(new)
  BY DEF CountOf
<1> HIDE DEF old, new
<1>5. CASE e = w
  <2>1. new = old \cup {last}
    <3>1. \A i \in 1 .. Len(q) + 1 : i \in 1 .. Len(q) \/ i = last
      BY <1>1
    <3>2. 1 .. Len(q) \subseteq 1 .. Len(q) + 1 /\ last \in 1 .. Len(q) + 1
      BY <1>1
    <3> QED
      BY <1>1, <1>5, <3>1, <3>2 DEF old, new
  <2>2. Cardinality(new) = Cardinality(old) + 1
    BY <1>2, <1>3, <2>1, FS_AddElement
  <2> QED
    BY <1>5, <1>4, <2>2 DEF One
<1>6. CASE e # w
  <2>1. new = old
    <3>1. \A i \in 1 .. Len(q) + 1 : i \in 1 .. Len(q) \/ i = last
      BY <1>1
    <3> QED
      BY <1>1, <1>6, <3>1 DEF old, new
  <2> QED
    BY <1>2, <1>6, <1>4, <2>1 DEF One
<1> QED
  BY <1>5, <1>6

(* A queue in two parts.                                                   *)
LEMMA CountSplit ==
  ASSUME NEW S, NEW q \in Seq(S), NEW n \in 0 .. Len(q), NEW w
  PROVE  CountOf(w, q) = CountOf(w, SubSeq(q, 1, n)) + CountOf(w, SubSeq(q, n + 1, Len(q)))
<1> DEFINE a == SubSeq(q, 1, n)
           b == SubSeq(q, n + 1, Len(q))
           all == {i \in DOMAIN q : q[i] = w}
           first == {i \in DOMAIN a : a[i] = w}
           rest == {i \in DOMAIN b : b[i] = w}
           moved == {i \in n + 1 .. Len(q) : q[i] = w}
<1>1. /\ a \in Seq(S) /\ Len(a) = n /\ \A i \in 1 .. n : a[i] = q[i]
      /\ b \in Seq(S) /\ Len(b) = Len(q) - n /\ \A i \in 1 .. Len(q) - n : b[i] = q[n + i]
  BY SplitEntries
<1> HIDE DEF a, b
<1>2. /\ Len(q) \in Nat /\ n \in Nat /\ n <= Len(q)
      /\ DOMAIN q = 1 .. Len(q) /\ DOMAIN a = 1 .. n /\ DOMAIN b = 1 .. Len(q) - n
  BY <1>1, LenProperties
<1>3. IsFiniteSet(all) /\ IsFiniteSet(first) /\ IsFiniteSet(rest)
  <2>1. IsFiniteSet(all)
    BY CountType
  <2>0. a \in Seq(S) /\ b \in Seq(S)
    BY <1>1
  <2>2. IsFiniteSet(first)
    BY <2>0, CountType, Zenon
  <2>3. IsFiniteSet(rest)
    BY <2>0, CountType, Zenon
  <2> QED
    BY <2>1, <2>2, <2>3
<1>4. all = first \cup moved /\ first \cap moved = {}
  BY <1>1, <1>2
<1>5. IsFiniteSet(moved) /\ Cardinality(moved) = Cardinality(rest)
  <2>1. IsFiniteSet(moved)
    BY <1>3, <1>4, FS_Subset
  <2> DEFINE f == [i \in rest |-> n + i]
  <2>2. f \in Bijection(rest, moved)
    <3>1. \A i \in rest : n + i \in moved /\ i \in Nat
      BY <1>1, <1>2
    <3>2. \A j \in moved : j - n \in rest /\ n + (j - n) = j
      BY <1>1, <1>2
    <3>3. f \in [rest -> moved] /\ \A i, j \in rest : f[i] = f[j] => i = j
      BY <1>2, <3>1
    <3>4. \A j \in moved : \E i \in rest : f[i] = j
      BY <3>2
    <3> QED
      BY <3>3, <3>4, Fun_IsBij
  <2>3. ExistsBijection(rest, moved)
    BY <2>2 DEF ExistsBijection
  <2> QED
    BY <1>3, <2>1, <2>3, FS_Bijection
<1>6. Cardinality(all) = Cardinality(first) + Cardinality(moved) - Cardinality(first \cap moved)
  BY <1>3, <1>4, <1>5, FS_Union
<1>7. Cardinality(first \cap moved) = 0
  BY <1>4, FS_EmptySet
<1>8. Cardinality(first) \in Nat /\ Cardinality(rest) \in Nat
  BY <1>3, FS_CardinalityType
<1>9. /\ CountOf(w, q) = Cardinality(all) /\ CountOf(w, a) = Cardinality(first)
      /\ CountOf(w, b) = Cardinality(rest)
  BY DEF CountOf
<1>10. Cardinality(all) = Cardinality(first) + Cardinality(rest)
  BY <1>5, <1>6, <1>7, <1>8
<1> QED
  BY <1>9, <1>10 DEF a, b

(* Each completion is of one of the two kinds.                             *)
LEMMA CountTotal ==
  ASSUME NEW q \in Seq(WrId)
  PROVE  CountOf(WR_SEND, q) + CountOf(WR_RECV, q) = Len(q)
<1> DEFINE sends == {i \in DOMAIN q : q[i] = WR_SEND}
           recvs == {i \in DOMAIN q : q[i] = WR_RECV}
<1>1. Len(q) \in Nat /\ DOMAIN q = 1 .. Len(q) /\ \A i \in 1 .. Len(q) : q[i] \in WrId
  BY LenProperties, ElementOfSeq
<1>2. IsFiniteSet(sends) /\ IsFiniteSet(recvs)
  BY CountType
<1>3. CountOf(WR_SEND, q) = Cardinality(sends) /\ CountOf(WR_RECV, q) = Cardinality(recvs)
  BY DEF CountOf
<1>4. sends \cup recvs = 1 .. Len(q) /\ sends \cap recvs = {}
  <2>1. \A i \in 1 .. Len(q) : q[i] = WR_SEND \/ q[i] = WR_RECV
    BY <1>1 DEF WrId
  <2>2. WR_SEND # WR_RECV
    BY DEF WR_SEND, WR_RECV
  <2> QED
    BY <1>1, <2>1, <2>2
<1> HIDE DEF sends, recvs
<1>5. Cardinality(1 .. Len(q)) = Len(q)
  <2>1. PICK l \in Nat : l = Len(q)
    BY <1>1
  <2>2. Cardinality(1 .. l) = IF 1 > l THEN 0 ELSE l - 1 + 1
    BY FS_Interval
  <2> QED
    BY <2>1, <2>2
<1>6. Cardinality(sends \cup recvs)
        = Cardinality(sends) + Cardinality(recvs) - Cardinality(sends \cap recvs)
  BY <1>2, FS_Union
<1>7. Cardinality(sends \cap recvs) = 0
  BY <1>4, FS_EmptySet
<1>8. Cardinality(sends) \in Nat /\ Cardinality(recvs) \in Nat
  BY <1>2, FS_CardinalityType
<1>9. Cardinality(sends \cup recvs) = Len(q)
  BY <1>4, <1>5
<1> QED
  BY <1>6, <1>3, <1>7, <1>8, <1>9

(***************************************************************************)
(* The inductive invariant: what its parts are made of.                    *)
(***************************************************************************)

(* The two sides and the two kinds of work requests.                       *)
LEMMA Kinds ==
  /\ Role = {"Client", "Server"} /\ Peer("Client") = "Server" /\ Peer("Server") = "Client"
  /\ WrId = {WR_SEND, WR_RECV} /\ WR_SEND # WR_RECV
  /\ Depth(WR_SEND) = TxDepth /\ Depth(WR_RECV) = RxDepth
  /\ Iterations \in Nat \ {0} /\ TxDepth \in Nat \ {0} /\ RxDepth \in Nat \ {0}
  BY PingPongAssumption DEF Role, Peer, WrId, WR_SEND, WR_RECV, Depth

(* The quantities the invariant counts are natural numbers, before a step  *)
(* and after it.                                                           *)
Natural ==
  \A r \in Role :
    /\ link[r] \in LinkState /\ cq[r] \in Seq(WrId)
    /\ link[r].sq \in Nat /\ link[r].wire \in Nat
    /\ link[r].unacked \in Nat /\ link[r].rq \in Nat
    /\ \A w \in WrId : CountOf(w, cq[r]) \in Nat /\ Incomplete(r, w) \in Nat
    /\ Way(r) \in Nat

LEMMA Quantities == RdmaTypes => Natural
<1> SUFFICES ASSUME RdmaTypes PROVE Natural
  OBVIOUS
<1>1. ASSUME NEW r \in Role
      PROVE  /\ link[r] \in LinkState /\ cq[r] \in Seq(WrId)
             /\ link[r].sq \in Nat /\ link[r].wire \in Nat
             /\ link[r].unacked \in Nat /\ link[r].rq \in Nat
             /\ \A w : CountOf(w, cq[r]) \in Nat
  <2>1. link[r] \in LinkState /\ cq[r] \in Seq(WrId)
    BY DEF RdmaTypes
  <2>2. \A w : CountOf(w, cq[r]) \in Nat
    BY <2>1, CountType
  <2> QED
    BY <2>1, <2>2 DEF LinkState
<1>2. \A r \in Role : Peer(r) \in Role
  BY DEF Role, Peer
<1>3. ASSUME NEW r \in Role, NEW w \in WrId PROVE Incomplete(r, w) \in Nat
  BY <1>1, <1>2 DEF Incomplete, Underway
<1>4. ASSUME NEW r \in Role PROVE Way(r) \in Nat
  <2>1. PICK a, b, c \in Nat :
          a = link[r].sq /\ b = link[r].wire /\ c = CountOf(WR_RECV, cq[Peer(r)])
    BY <1>1, <1>2
  <2> QED
    BY <2>1 DEF Way
<1> QED
  BY <1>1, <1>3, <1>4 DEF Natural

LEMMA QuantitiesPrimed == RdmaTypes' => Natural'
  BY Quantities, PTL

(* A place in a work queue bounds the completions of its kind, and both    *)
(* kinds together fit the completion queue.                                *)
LEMMA CompletionsFit ==
  ASSUME RdmaTypes', LoopTypes', QueuesHeld'
  PROVE  \A r \in Role : Len(cq'[r]) <= TxDepth + RxDepth
<1> SUFFICES ASSUME NEW r \in Role PROVE Len(cq'[r]) <= TxDepth + RxDepth
  OBVIOUS
<1>1. PICK q \in Seq(WrId) : q = cq'[r]
  BY QuantitiesPrimed DEF Natural
<1>2. ASSUME NEW w \in WrId PROVE CountOf(w, q) <= Depth(w)
  <2>1. PICK i, h, c \in Nat : i = Incomplete(r, w)' /\ h = held'[r][w] /\ c = CountOf(w, cq'[r])
    BY QuantitiesPrimed DEF Natural, LoopTypes
  <2>2. i + c <= h /\ h <= Depth(w)
    BY <2>1 DEF QueuesHeld
  <2>3. Depth(w) \in Nat
    BY Kinds
  <2> QED
    BY <1>1, <2>1, <2>2, <2>3
<1>3. CountOf(WR_SEND, q) <= TxDepth /\ CountOf(WR_RECV, q) <= RxDepth
  BY <1>2, Kinds
<1>4. CountOf(WR_SEND, q) + CountOf(WR_RECV, q) = Len(q)
  BY CountTotal
<1>5. CountOf(WR_SEND, q) \in Nat /\ CountOf(WR_RECV, q) \in Nat
  BY CountType
<1> QED
  BY <1>1, <1>3, <1>4, <1>5, Kinds

(* The run starts with nothing posted, under way or counted.               *)
LEMMA InvInitial == Init => IInv
<1> SUFFICES ASSUME Init PROVE IInv
  OBVIOUS
<1>1. /\ \A r \in Role : /\ phase[r] = "sync" /\ barriers[r] = 0 /\ inbox[r] = 0
                         /\ outcome[r] = "running" /\ dropped[r] = FALSE
                         /\ link[r] = QuietLink /\ cq[r] = <<>> /\ broken[r] = FALSE
                         /\ \A w \in WrId : held[r][w] = 0
                         /\ pending[r] = {} /\ rounds[r] = 0 /\ gaveUp[r] = FALSE
      /\ samples = 0 /\ echoed = 0
  BY DEF Init, ConnInit
<1>2. ConnTypes /\ RdmaTypes /\ LoopTypes
  <2>1. QuietLink \in LinkState
    BY DEF QuietLink, LinkState
  <2>2. 0 \in 0 .. Iterations
    BY Kinds
  <2> QED
    BY <2>1, <2>2 DEF Init, ConnInit, ConnTypes, RdmaTypes, LoopTypes, Outcome
<1>3. \A r \in Role : \A w : CountOf(w, cq[r]) = 0
  BY <1>1, CountEmpty
<1>4. TypeOK
  <2>1. \A r \in Role : Len(cq[r]) = 0
    BY <1>1
  <2> QED
    BY <1>2, <2>1, Kinds DEF TypeOK, Init
<1>5. Shape /\ BarrierBytes
  BY <1>1 DEF Shape, BarrierBytes, Arrived, Peer, Role
<1>6. \A r \in Role, w \in WrId : Incomplete(r, w) = 0
  <2>1. \A r \in Role : Peer(r) \in Role
    BY DEF Role, Peer
  <2> QED
    BY <1>1, <2>1 DEF Incomplete, Underway, QuietLink
<1>7. QueuesHeld
  BY <1>1, <1>3, <1>6, Kinds DEF QueuesHeld, QuietLink
<1>8. Way("Client") = 0 /\ Way("Server") = 0 /\ AtServer = 0 /\ AtClient = 0
  BY <1>1, <1>3 DEF Way, AtServer, AtClient, One, QuietLink, Role, Peer
<1>9. OneRoundTrip
  BY <1>8 DEF OneRoundTrip
<1>10. Counts
  BY <1>1, <1>8, Kinds DEF Counts, One
<1> QED
  BY <1>4, <1>5, <1>7, <1>9, <1>10 DEF IInv

(***************************************************************************)
(* Each action preserves the invariant.                                    *)
(***************************************************************************)

(* The steps that leave the adapters and the counts of the loops alone     *)
(* keep what is said about those.                                          *)
LEMMA TrafficUntouched ==
  ASSUME IInv, UNCHANGED <<given, rdmaVars, held>>
  PROVE  /\ RdmaTypes' /\ QueuesHeld' /\ transport' \in Carriers /\ prompt' \in Prompts
         /\ \A r \in Role : Len(cq'[r]) <= TxDepth + RxDepth
         /\ Way("Client")' = Way("Client") /\ Way("Server")' = Way("Server")
<1>1. /\ link' = link /\ cq' = cq /\ broken' = broken /\ held' = held
      /\ transport' = transport /\ prompt' = prompt
  BY DEF given, rdmaVars
<1> QED
  BY <1>1 DEF IInv, TypeOK, RdmaTypes, QueuesHeld, Incomplete, Way

(* A step of a barrier moves bytes and places in the code, no messages.    *)
LEMMA SyncStep == ASSUME IInv, NEW r \in Role, Sync(r), UNCHANGED given PROVE IInv'
<1>1. /\ RdmaTypes' /\ QueuesHeld' /\ transport' \in Carriers /\ prompt' \in Prompts
      /\ \A q \in Role : Len(cq'[q]) <= TxDepth + RxDepth
      /\ Way("Client")' = Way("Client") /\ Way("Server")' = Way("Server")
  BY TrafficUntouched DEF Sync, rdmaVars
<1>2. /\ held' = held /\ rounds' = rounds /\ samples' = samples /\ echoed' = echoed
      /\ gaveUp' = gaveUp
  BY DEF Sync
<1>3. ConnTypes /\ LoopTypes /\ Shape /\ BarrierBytes /\ OneRoundTrip /\ Counts
  BY DEF IInv, TypeOK
<1> USE Kinds DEF Running, Goto, Fail
<1>4. CASE SyncWrite(r) /\ UNCHANGED pending
  <2>1. ConnTypes' /\ LoopTypes'
    BY <1>2, <1>3, <1>4 DEF SyncWrite, ConnTypes, LoopTypes, Outcome, Peer
  <2>2. Shape' /\ BarrierBytes'
    BY <1>2, <1>3, <1>4 DEF SyncWrite, ConnTypes, Shape, BarrierBytes, Arrived, Peer
  <2>3. OneRoundTrip' /\ Counts'
    BY <1>1, <1>2, <1>3, <1>4 DEF SyncWrite, ConnTypes, OneRoundTrip, Counts, AtServer, AtClient, One
  <2> QED
    BY <1>1, <2>1, <2>2, <2>3 DEF IInv, TypeOK
<1>5. CASE SyncBroken(r) /\ UNCHANGED pending
  <2>1. ConnTypes' /\ LoopTypes'
    BY <1>2, <1>3, <1>5 DEF SyncBroken, ConnTypes, LoopTypes, Outcome
  <2>2. Shape' /\ BarrierBytes'
    BY <1>2, <1>3, <1>5 DEF SyncBroken, ConnTypes, Shape, BarrierBytes, Arrived
  <2>3. OneRoundTrip' /\ Counts'
    BY <1>1, <1>2, <1>3, <1>5 DEF SyncBroken, OneRoundTrip, Counts, AtServer, AtClient
  <2> QED
    BY <1>1, <2>1, <2>2, <2>3 DEF IInv, TypeOK
<1>6. CASE /\ SyncRead(r, AfterBarrier(r, barriers[r] + 1))
           /\ pending' = IF phase'[r] = "poll" THEN [pending EXCEPT ![r] = {WR_RECV}] ELSE pending
  <2>1. PICK next : next = AfterBarrier(r, barriers[r] + 1)
    OBVIOUS
  <2>2. /\ phase[r] = "wait" /\ barriers[r] \in 0 .. 3 /\ inbox[r] > 0 /\ outcome[r] = "running"
        /\ next = CASE barriers[r] = 0 -> "sync"
                    [] barriers[r] = 1 -> "post"
                    [] barriers[r] = 2 -> IF r = "Client" THEN "send" ELSE "poll"
                    [] barriers[r] = 3 -> "returned"
    <3>1. phase[r] = "wait" /\ barriers[r] \in 0 .. 3 /\ inbox[r] > 0 /\ outcome[r] = "running"
      BY <1>3, <1>6 DEF SyncRead, ConnTypes, Shape
    <3> QED
      BY <2>1, <3>1 DEF AfterBarrier
  <2>3. /\ phase' = [phase EXCEPT ![r] = next]
        /\ barriers' = [barriers EXCEPT ![r] = @ + 1]
        /\ inbox' = [inbox EXCEPT ![r] = @ - 1]
        /\ outcome' = [outcome EXCEPT ![r] = IF next = "returned" THEN "ok" ELSE @]
        /\ dropped' = dropped
        /\ pending' = IF next = "poll" THEN [pending EXCEPT ![r] = {WR_RECV}] ELSE pending
    <3>1. phase'[r] = next
      BY <1>3, <1>6, <2>1 DEF SyncRead, ConnTypes
    <3> QED
      BY <1>6, <2>1, <3>1 DEF SyncRead
  <2>4. next \in {"sync", "post", "send", "poll", "returned"}
    BY <2>2
  <2>5. ConnTypes'
    BY <1>3, <2>2, <2>3, <2>4 DEF ConnTypes, Outcome
  <2>6. LoopTypes'
    BY <1>2, <1>3, <2>3 DEF LoopTypes
  <2>7. Shape'
    BY <1>2, <1>3, <2>2, <2>3 DEF ConnTypes, LoopTypes, Shape
  <2>8. BarrierBytes'
    BY <1>3, <2>2, <2>3, <2>4 DEF ConnTypes, BarrierBytes, Arrived
  <2>9. r = "Client" => next # "poll"
    BY <2>2
  <2>10. OneRoundTrip'
    BY <1>1, <1>2, <1>3, <2>2, <2>3, <2>9 DEF ConnTypes, OneRoundTrip, AtServer, AtClient, One
  <2>11. Counts'
    <3>1. \A q \in Role :
            /\ barriers'[q] < 3 => rounds'[q] = 0
            /\ phase'[q] = "send" => rounds'[q] < Iterations
      BY <1>2, <1>3, <2>2, <2>3 DEF ConnTypes, Counts
    <3>2. /\ phase'["Client"] = "repost" => rounds'["Client"] < Iterations
          /\ phase'["Server"] = "poll" => rounds'["Server"] < Iterations
          /\ gaveUp'["Server"] => rounds'["Server"] < Iterations
      BY <1>2, <1>3, <2>2, <2>3 DEF ConnTypes, Counts
    <3>3. /\ phase'["Client"] = "poll" <=> phase["Client"] = "poll"
          /\ phase'["Server"] = "repost" <=> phase["Server"] = "repost"
          /\ AtClient' = AtClient
      BY <1>3, <2>2, <2>3, <2>9 DEF ConnTypes, AtClient, One
    <3>4. /\ samples' + One(phase'["Client"] = "poll" \/ gaveUp'["Client"]) = rounds'["Client"]
          /\ echoed' + One(phase'["Server"] = "repost") = rounds'["Server"]
          /\ samples' + Way("Server")' + AtClient' <= rounds'["Server"]
      BY <1>1, <1>2, <1>3, <3>3 DEF Counts, One
    <3>5. barriers'["Client"] >= 3 /\ phase'["Client"] \in {"sync", "wait", "returned"}
            => gaveUp'["Client"] \/ rounds'["Client"] = Iterations
      BY <1>2, <1>3, <2>2, <2>3 DEF ConnTypes, Counts
    <3> QED
      BY <3>1, <3>2, <3>4, <3>5 DEF Counts
  <2> QED
    BY <1>1, <2>5, <2>6, <2>7, <2>8, <2>10, <2>11 DEF IInv, TypeOK
<1> QED
  BY <1>4, <1>5, <1>6 DEF Sync

(* A side that fails, is killed or drops its connection stays where it is. *)
LEMMA ControlStep ==
  ASSUME IInv, NEW r \in Role, UNCHANGED <<given, rdmaVars, loopVars, phase, barriers, inbox>>,
         \/ dropped' = dropped /\ \E why \in Outcome \ {"running", "ok"} :
                                    outcome' = [outcome EXCEPT ![r] = why]
         \/ outcome' = outcome /\ dropped' = [dropped EXCEPT ![r] = TRUE]
  PROVE  IInv'
<1>1. /\ RdmaTypes' /\ QueuesHeld' /\ transport' \in Carriers /\ prompt' \in Prompts
      /\ \A q \in Role : Len(cq'[q]) <= TxDepth + RxDepth
      /\ Way("Client")' = Way("Client") /\ Way("Server")' = Way("Server")
  BY TrafficUntouched DEF loopVars
<1>2. /\ pending' = pending /\ rounds' = rounds /\ samples' = samples /\ echoed' = echoed
      /\ gaveUp' = gaveUp /\ held' = held
      /\ phase' = phase /\ barriers' = barriers /\ inbox' = inbox
  BY DEF loopVars
<1>3. ConnTypes /\ LoopTypes /\ Shape /\ BarrierBytes /\ OneRoundTrip /\ Counts
  BY DEF IInv, TypeOK
<1>4. ConnTypes' /\ LoopTypes'
  BY <1>2, <1>3 DEF ConnTypes, LoopTypes
<1>5. Shape'
  <2>1. \A q \in Role : outcome'[q] \in {"running", "ok"} => outcome'[q] = outcome[q]
    BY <1>3 DEF ConnTypes
  <2> QED
    BY <1>2, <1>3, <2>1 DEF Shape
<1>6. BarrierBytes'
  BY <1>2, <1>3 DEF BarrierBytes, Arrived
<1>7. OneRoundTrip' /\ Counts'
  BY <1>1, <1>2, <1>3 DEF OneRoundTrip, Counts, AtServer, AtClient
<1> QED
  BY <1>1, <1>4, <1>5, <1>6, <1>7 DEF IInv, TypeOK

(* The adapters and the fabric move messages and completions on, and post  *)
(* nothing: no queue holds more than before, and no message turns up.      *)
LEMMA TrafficMoves ==
  ASSUME IInv, UNCHANGED <<given, connVars, loopVars>>, RdmaTypes',
         \A r \in Role, w \in WrId :
           Incomplete(r, w)' + CountOf(w, cq'[r]) <= Incomplete(r, w) + CountOf(w, cq[r]),
         \A r \in Role : Way(r)' <= Way(r),
         transport = "Uc" => \A r \in Role : link'[r].unacked = 0
  PROVE  IInv'
<1>1. /\ phase' = phase /\ barriers' = barriers /\ inbox' = inbox
      /\ outcome' = outcome /\ dropped' = dropped
      /\ held' = held /\ pending' = pending /\ rounds' = rounds
      /\ samples' = samples /\ echoed' = echoed /\ gaveUp' = gaveUp
      /\ transport' = transport /\ prompt' = prompt
  BY DEF given, connVars, loopVars
<1>2. /\ transport \in Carriers /\ prompt \in Prompts /\ ConnTypes /\ LoopTypes /\ RdmaTypes
      /\ Shape /\ BarrierBytes /\ QueuesHeld /\ OneRoundTrip /\ Counts
  BY DEF IInv, TypeOK
<1>3. ConnTypes' /\ LoopTypes' /\ Shape' /\ BarrierBytes'
  BY <1>1, <1>2 DEF ConnTypes, LoopTypes, Shape, BarrierBytes, Arrived
<1>4. QueuesHeld'
  <2>1. ASSUME NEW r \in Role, NEW w \in WrId
        PROVE  /\ Incomplete(r, w)' + CountOf(w, cq'[r]) <= held'[r][w]
               /\ held'[r][w] <= Depth(w)
    <3>1. PICK i, c, j, d, h \in Nat :
            /\ i = Incomplete(r, w) /\ c = CountOf(w, cq[r])
            /\ j = Incomplete(r, w)' /\ d = CountOf(w, cq'[r]) /\ h = held[r][w]
      BY <1>2, Quantities, QuantitiesPrimed DEF Natural, LoopTypes
    <3>2. j + d <= i + c /\ i + c <= h /\ h <= Depth(w)
      BY <1>2, <3>1 DEF QueuesHeld
    <3>3. j + d <= h
      BY <3>2
    <3> QED
      BY <1>1, <3>1, <3>2, <3>3
  <2> QED
    BY <1>1, <2>1 DEF QueuesHeld
<1>5. PICK mc, ms, oc, os, s, c \in Nat :
        /\ mc = Way("Client")' /\ ms = Way("Server")' /\ oc = Way("Client") /\ os = Way("Server")
        /\ s = AtServer /\ c = AtClient
  BY <1>2, Quantities, QuantitiesPrimed, Kinds DEF Natural, AtServer, AtClient, One
<1>6. mc <= oc /\ ms <= os /\ s = AtServer' /\ c = AtClient'
  BY <1>1, <1>5, Kinds DEF AtServer, AtClient
<1>7. OneRoundTrip'
  <2>1. oc + s + os + c <= 1 /\ mc + s + ms + c <= 1
    BY <1>2, <1>5, <1>6 DEF OneRoundTrip
  <2>2. phase["Client"] # "poll" /\ ~gaveUp["Client"] => oc = 0 /\ s = 0 /\ os = 0
    BY <1>2, <1>5 DEF OneRoundTrip
  <2>3. phase'["Client"] # "poll" /\ ~gaveUp'["Client"] => mc = 0 /\ s = 0 /\ ms = 0
    BY <1>1, <1>5, <1>6, <2>2
  <2> QED
    BY <1>5, <1>6, <2>1, <2>3 DEF OneRoundTrip
<1>8. Counts'
  <2>1. samples + os + c <= rounds["Server"] /\ samples \in Nat /\ rounds["Server"] \in Nat
    BY <1>2, <1>5, Kinds DEF Counts, LoopTypes
  <2>2. samples + ms + c <= rounds["Server"]
    BY <1>6, <2>1
  <2>3. samples' + Way("Server")' + AtClient' <= rounds'["Server"]
    BY <1>1, <1>5, <1>6, <2>2
  <2> QED
    BY <1>1, <1>2, <2>3 DEF Counts
<1>9. \A r \in Role : Len(cq'[r]) <= TxDepth + RxDepth
  BY <1>3, <1>4, CompletionsFit
<1> QED
  BY <1>1, <1>2, <1>3, <1>4, <1>7, <1>8, <1>9 DEF IInv, TypeOK

(* What holds of r holds of both when it holds of r and of its peer.       *)
LEMMA TwoSides ==
  ASSUME NEW r \in Role
  PROVE  /\ Peer(r) \in Role /\ Peer(r) # r /\ Peer(Peer(r)) = r
         /\ \A q \in Role : q = r \/ q = Peer(r)
         /\ transport \in Carriers => transport = "Rc" \/ transport = "Uc"
  BY PingPongAssumption DEF Role, Peer, Transports

(* The sends of a direction that have not completed.                       *)
Outgoing(l) == IF transport = "Uc" THEN l.sq ELSE Underway(l)

(* The same for a step that moves the messages of one direction.           *)
LEMMA DirectionMoves ==
  ASSUME IInv, UNCHANGED <<given, connVars, broken, loopVars>>, cq' \in [Role -> Seq(WrId)],
         NEW r \in Role, NEW p \in Role, p = Peer(r),
         NEW l \in LinkState, l = link[r],
         NEW m \in LinkState, link' = [link EXCEPT ![r] = m],
         m.rq + CountOf(WR_RECV, cq'[p]) <= l.rq + CountOf(WR_RECV, cq[p]),
         Outgoing(m) + CountOf(WR_SEND, cq'[r]) <= Outgoing(l) + CountOf(WR_SEND, cq[r]),
         CountOf(WR_SEND, cq'[p]) = CountOf(WR_SEND, cq[p]),
         CountOf(WR_RECV, cq'[r]) = CountOf(WR_RECV, cq[r]),
         m.sq + m.wire + CountOf(WR_RECV, cq'[p]) <= l.sq + l.wire + CountOf(WR_RECV, cq[p]),
         transport = "Uc" => m.unacked = 0
  PROVE  IInv'
<1>1. /\ RdmaTypes /\ transport' = transport /\ broken' = broken
      /\ UNCHANGED <<given, connVars, loopVars>>
  BY DEF IInv, TypeOK, given
<1>2. p # r /\ r = Peer(p) /\ \A q \in Role : q = r \/ q = p
  BY TwoSides
<1>3. link'[r] = m /\ link'[p] = link[p] /\ link' \in [Role -> LinkState]
  BY <1>1, <1>2 DEF RdmaTypes
<1>4. RdmaTypes'
  BY <1>1, <1>3 DEF RdmaTypes
<1>5. Natural /\ Natural'
  BY <1>1, <1>4, Quantities, QuantitiesPrimed
<1>6. /\ Incomplete(r, WR_SEND) = Outgoing(l) /\ Incomplete(r, WR_SEND)' = Outgoing(m)
      /\ Incomplete(p, WR_RECV) = l.rq /\ Incomplete(p, WR_RECV)' = m.rq
  BY <1>1, <1>2, <1>3, Kinds DEF Incomplete, Outgoing
<1>7. /\ Incomplete(p, WR_SEND)' = Incomplete(p, WR_SEND)
      /\ Incomplete(r, WR_RECV)' = Incomplete(r, WR_RECV)
  BY <1>1, <1>2, <1>3, Kinds DEF Incomplete, Outgoing
<1>8. \A q \in Role, w \in WrId :
        Incomplete(q, w)' + CountOf(w, cq'[q]) <= Incomplete(q, w) + CountOf(w, cq[q])
  <2>1. Incomplete(r, WR_SEND)' + CountOf(WR_SEND, cq'[r]) <= Incomplete(r, WR_SEND) + CountOf(WR_SEND, cq[r])
    BY <1>6
  <2>2. Incomplete(p, WR_RECV)' + CountOf(WR_RECV, cq'[p]) <= Incomplete(p, WR_RECV) + CountOf(WR_RECV, cq[p])
    BY <1>6
  <2>3. Incomplete(p, WR_SEND)' + CountOf(WR_SEND, cq'[p]) <= Incomplete(p, WR_SEND) + CountOf(WR_SEND, cq[p])
    <3>1. PICK i, c \in Nat : i = Incomplete(p, WR_SEND) /\ c = CountOf(WR_SEND, cq[p])
      BY <1>5, Kinds DEF Natural
    <3> QED
      BY <1>7, <3>1
  <2>4. Incomplete(r, WR_RECV)' + CountOf(WR_RECV, cq'[r]) <= Incomplete(r, WR_RECV) + CountOf(WR_RECV, cq[r])
    <3>1. PICK i, c \in Nat : i = Incomplete(r, WR_RECV) /\ c = CountOf(WR_RECV, cq[r])
      BY <1>5, Kinds DEF Natural
    <3> QED
      BY <1>7, <3>1
  <2> QED
    BY <1>2, <2>1, <2>2, <2>3, <2>4, Kinds
<1>9. Way(r)' <= Way(r)
  BY <1>3 DEF Way
<1>10. Way(p)' <= Way(p)
  <2>1. Way(p)' = Way(p)
    BY <1>2, <1>3 DEF Way
  <2> QED
    BY <1>5, <2>1 DEF Natural
<1>11. \A q \in Role : Way(q)' <= Way(q)
  BY <1>2, <1>9, <1>10
<1>12. transport = "Uc" => \A q \in Role : link'[q].unacked = 0
  BY <1>2, <1>3 DEF IInv, QueuesHeld
<1> QED
  BY <1>1, <1>4, <1>8, <1>11, <1>12, TrafficMoves

(* What the adapters' steps start from.                                    *)
LEMMA Direction ==
  ASSUME IInv, NEW r \in Role
  PROVE  /\ transport \in Transports /\ (transport = "Rc" \/ transport = "Uc")
         /\ link \in [Role -> LinkState] /\ cq \in [Role -> Seq(WrId)]
         /\ link[r] \in LinkState
         /\ link[r].sq \in Nat /\ link[r].wire \in Nat
         /\ link[r].unacked \in Nat /\ link[r].rq \in Nat
         /\ transport = "Uc" => link[r].unacked = 0
         /\ Peer(r) \in Role /\ Peer(r) # r /\ Peer(Peer(r)) = r
         /\ \A q \in Role : /\ cq[q] \in Seq(WrId)
                            /\ CountOf(WR_SEND, cq[q]) \in Nat /\ CountOf(WR_RECV, cq[q]) \in Nat
<1>1. RdmaTypes /\ transport \in Carriers /\ Natural
  BY Quantities DEF IInv, TypeOK
<1>2. transport \in Transports
  BY <1>1, PingPongAssumption
<1>3. transport = "Rc" \/ transport = "Uc"
  BY <1>2 DEF Transports
<1>4. transport = "Uc" => link[r].unacked = 0
  BY DEF IInv, QueuesHeld
<1> QED
  BY <1>1, <1>2, <1>3, <1>4, TwoSides, Kinds DEF Natural, RdmaTypes

(* A completion joins one queue.                                           *)
LEMMA Completed ==
  ASSUME NEW r \in Role, NEW e \in WrId, NEW other \in WrId, other # e,
         cq \in [Role -> Seq(WrId)], Complete(r, e)
  PROVE  /\ cq' \in [Role -> Seq(WrId)]
         /\ CountOf(e, cq'[r]) = CountOf(e, cq[r]) + 1
         /\ CountOf(other, cq'[r]) = CountOf(other, cq[r])
         /\ \A q \in Role : q # r => cq'[q] = cq[q]
<1>1. PICK a \in Seq(WrId) : a = cq[r]
  OBVIOUS
<1>2. Append(a, e) \in Seq(WrId)
  BY AppendProperties
<1>3. cq'[r] = Append(a, e)
  BY <1>1 DEF Complete
<1>4. CountOf(e, Append(a, e)) = CountOf(e, a) + 1
  BY CountAppend DEF One
<1>5. CountOf(other, Append(a, e)) = CountOf(other, a)
  <2>1. CountOf(other, Append(a, e)) = CountOf(other, a) + 0
    BY CountAppend DEF One
  <2>2. PICK c \in Nat : c = CountOf(other, a)
    BY CountType
  <2> QED
    BY <2>1, <2>2
<1> QED
  BY <1>1, <1>2, <1>3, <1>4, <1>5 DEF Complete

(* A send goes out; over UC that completes it.                             *)
LEMMA TransmitStep == ASSUME IInv, NEW r \in Role, Transmit(r), UNCHANGED given PROVE IInv'
<1>1. PICK p \in Role, l \in LinkState : p = Peer(r) /\ p # r /\ l = link[r]
  BY Direction
<1>2. PICK m : m = Transmitted(l)
  OBVIOUS
<1>3. /\ l.sq > 0 /\ link' = [link EXCEPT ![r] = m]
      /\ UNCHANGED <<given, connVars, broken, loopVars>>
  BY <1>1, <1>2 DEF Transmit
<1>4. m \in LinkState
  BY <1>2, <1>3, LinkTypes DEF Transports
<1>5. /\ m.sq = l.sq - 1 /\ m.wire = l.wire + 1 /\ m.unacked = l.unacked /\ m.rq = l.rq
      /\ l.sq \in Nat /\ l.wire \in Nat /\ l.unacked \in Nat /\ l.rq \in Nat
  BY <1>2, TransmittedFields DEF LinkState
<1>6. /\ cq' \in [Role -> Seq(WrId)] /\ cq'[p] = cq[p]
      /\ CountOf(WR_RECV, cq'[r]) = CountOf(WR_RECV, cq[r])
      /\ CountOf(WR_SEND, cq'[r]) = CountOf(WR_SEND, cq[r]) + IF transport = "Uc" THEN 1 ELSE 0
  <2>1. CASE transport = "Uc"
    <3>1. Complete(r, WR_SEND)
      BY <2>1 DEF Transmit
    <3> QED
      BY <1>1, <2>1, <3>1, Direction, Completed, Kinds
  <2>2. CASE transport # "Uc"
    <3>1. cq' = cq
      BY <2>2 DEF Transmit
    <3>2. PICK n \in Nat : n = CountOf(WR_SEND, cq[r])
      BY Direction
    <3>3. n + 0 = n
      OBVIOUS
    <3> QED
      BY <2>2, <3>1, <3>2, <3>3, Direction
  <2> QED
    BY <2>1, <2>2
<1>7. PICK s, c \in Nat :
        /\ s = CountOf(WR_SEND, cq[r])
        /\ CountOf(WR_SEND, cq'[r]) = s + IF transport = "Uc" THEN 1 ELSE 0
        /\ c = CountOf(WR_RECV, cq[p]) /\ c = CountOf(WR_RECV, cq'[p])
  BY <1>6, Direction
<1>8. Outgoing(m) + CountOf(WR_SEND, cq'[r]) <= Outgoing(l) + CountOf(WR_SEND, cq[r])
  BY <1>5, <1>7 DEF Outgoing, Underway
<1>9. /\ m.rq + CountOf(WR_RECV, cq'[p]) <= l.rq + CountOf(WR_RECV, cq[p])
      /\ m.sq + m.wire + CountOf(WR_RECV, cq'[p]) <= l.sq + l.wire + CountOf(WR_RECV, cq[p])
  BY <1>5, <1>7
<1>10. transport = "Uc" => m.unacked = 0
  BY <1>1, <1>5, Direction
<1>11. CountOf(WR_SEND, cq'[p]) = CountOf(WR_SEND, cq[p])
  BY <1>6
<1> QED
  BY <1>1, <1>3, <1>4, <1>6, <1>8, <1>9, <1>10, <1>11, DirectionMoves

(* A message fills a receive and completes it; RC owes the acknowledgement. *)
LEMMA DeliverStep == ASSUME IInv, NEW r \in Role, Deliver(r), UNCHANGED given PROVE IInv'
<1>1. PICK p \in Role, l \in LinkState : p = Peer(r) /\ p # r /\ l = link[r]
  BY Direction
<1>2. PICK m : m = Delivered(transport, l)
  OBVIOUS
<1>3. /\ l.wire > 0 /\ l.rq > 0 /\ link' = [link EXCEPT ![r] = m] /\ Complete(p, WR_RECV)
      /\ UNCHANGED <<given, connVars, broken, loopVars>>
  BY <1>1, <1>2 DEF Deliver
<1>4. m \in LinkState
  BY <1>2, <1>3, Direction, LinkTypes
<1>5. /\ m.sq = l.sq /\ m.wire = l.wire - 1 /\ m.rq = l.rq - 1
      /\ m.unacked = IF transport = "Rc" THEN l.unacked + 1 ELSE l.unacked
      /\ l.sq \in Nat /\ l.wire \in Nat /\ l.unacked \in Nat /\ l.rq \in Nat
  <2>1. transport \in Transports
    BY Direction
  <2> QED
    BY <1>2, <2>1, DeliveredFields DEF LinkState
<1>6. /\ cq' \in [Role -> Seq(WrId)] /\ cq'[r] = cq[r]
      /\ CountOf(WR_SEND, cq'[p]) = CountOf(WR_SEND, cq[p])
      /\ CountOf(WR_RECV, cq'[p]) = CountOf(WR_RECV, cq[p]) + 1
  BY <1>1, <1>3, Direction, Completed, Kinds
<1>7. PICK s, c \in Nat :
        /\ s = CountOf(WR_SEND, cq[r]) /\ s = CountOf(WR_SEND, cq'[r])
        /\ c = CountOf(WR_RECV, cq[p]) /\ CountOf(WR_RECV, cq'[p]) = c + 1
  BY <1>6, Direction
<1>8. Outgoing(m) + CountOf(WR_SEND, cq'[r]) <= Outgoing(l) + CountOf(WR_SEND, cq[r])
  BY <1>5, <1>7 DEF Outgoing, Underway
<1>9. /\ m.rq + CountOf(WR_RECV, cq'[p]) <= l.rq + CountOf(WR_RECV, cq[p])
      /\ m.sq + m.wire + CountOf(WR_RECV, cq'[p]) <= l.sq + l.wire + CountOf(WR_RECV, cq[p])
  BY <1>5, <1>7
<1>10. CountOf(WR_RECV, cq'[r]) = CountOf(WR_RECV, cq[r])
  BY <1>6
<1>11. transport = "Uc" => m.unacked = 0
  BY <1>1, <1>5, Direction
<1> QED
  BY <1>1, <1>3, <1>4, <1>6, <1>8, <1>9, <1>10, <1>11, DirectionMoves

(* The acknowledgement completes the send.                                 *)
LEMMA AcknowledgeStep == ASSUME IInv, NEW r \in Role, Acknowledge(r), UNCHANGED given PROVE IInv'
<1>1. PICK p \in Role, l \in LinkState : p = Peer(r) /\ p # r /\ l = link[r]
  BY Direction
<1>2. PICK m : m = Acknowledged(l)
  OBVIOUS
<1>3. /\ l.unacked > 0 /\ link' = [link EXCEPT ![r] = m] /\ Complete(r, WR_SEND)
      /\ UNCHANGED <<given, connVars, broken, loopVars>>
  BY <1>1, <1>2 DEF Acknowledge
<1>4. /\ m \in LinkState /\ m.sq = l.sq /\ m.wire = l.wire /\ m.rq = l.rq
      /\ m.unacked = l.unacked - 1
  BY <1>2, <1>3, LinkTypes, AcknowledgedFields DEF Transports
<1>5. l.sq \in Nat /\ l.wire \in Nat /\ l.unacked \in Nat /\ l.rq \in Nat
  BY DEF LinkState
<1>6. /\ cq' \in [Role -> Seq(WrId)] /\ cq'[p] = cq[p]
      /\ CountOf(WR_RECV, cq'[r]) = CountOf(WR_RECV, cq[r])
      /\ CountOf(WR_SEND, cq'[r]) = CountOf(WR_SEND, cq[r]) + 1
  BY <1>1, <1>3, Direction, Completed, Kinds
<1>7. PICK s, c \in Nat : s = CountOf(WR_SEND, cq[r]) /\ c = CountOf(WR_RECV, cq[p])
  BY Direction
<1>8. transport = "Rc" /\ Outgoing(l) = Underway(l) /\ Outgoing(m) = Underway(m)
  BY <1>1, <1>3, Direction DEF Outgoing
<1>9. Outgoing(m) + CountOf(WR_SEND, cq'[r]) <= Outgoing(l) + CountOf(WR_SEND, cq[r])
  BY <1>4, <1>5, <1>6, <1>7, <1>8 DEF Underway
<1>10. /\ m.rq + CountOf(WR_RECV, cq'[p]) <= l.rq + CountOf(WR_RECV, cq[p])
       /\ m.sq + m.wire + CountOf(WR_RECV, cq'[p]) <= l.sq + l.wire + CountOf(WR_RECV, cq[p])
  BY <1>4, <1>5, <1>6, <1>7
<1>11. CountOf(WR_SEND, cq'[p]) = CountOf(WR_SEND, cq[p])
  BY <1>6
<1> QED
  BY <1>1, <1>3, <1>4, <1>6, <1>8, <1>9, <1>10, <1>11, DirectionMoves

(* A lost message is nowhere; nobody is told.                              *)
LEMMA LoseStep == ASSUME IInv, NEW r \in Role, Lose(r), UNCHANGED given PROVE IInv'
<1>1. PICK p \in Role, l \in LinkState : p = Peer(r) /\ p # r /\ l = link[r]
  BY Direction
<1>2. PICK m : m = Lost(l)
  OBVIOUS
<1>3. /\ l.wire > 0 /\ link' = [link EXCEPT ![r] = m] /\ cq' = cq
      /\ UNCHANGED <<given, connVars, broken, loopVars>>
  BY <1>1, <1>2 DEF Lose
<1>4. /\ m \in LinkState /\ m.sq = l.sq /\ m.wire = l.wire - 1 /\ m.rq = l.rq
      /\ m.unacked = l.unacked
  BY <1>2, <1>3, LinkTypes, LostFields DEF Transports
<1>5. l.sq \in Nat /\ l.wire \in Nat /\ l.unacked \in Nat /\ l.rq \in Nat
  BY DEF LinkState
<1>6. PICK s, c \in Nat : s = CountOf(WR_SEND, cq[r]) /\ c = CountOf(WR_RECV, cq[p])
  BY Direction
<1>7. Outgoing(m) + CountOf(WR_SEND, cq'[r]) <= Outgoing(l) + CountOf(WR_SEND, cq[r])
  <2>1. Outgoing(m) <= Outgoing(l) /\ Outgoing(m) \in Int /\ Outgoing(l) \in Int
    BY <1>3, <1>4, <1>5 DEF Outgoing, Underway
  <2> QED
    BY <1>3, <1>6, <2>1
<1>8. /\ m.rq + CountOf(WR_RECV, cq'[p]) <= l.rq + CountOf(WR_RECV, cq[p])
      /\ m.sq + m.wire + CountOf(WR_RECV, cq'[p]) <= l.sq + l.wire + CountOf(WR_RECV, cq[p])
  BY <1>3, <1>4, <1>5, <1>6
<1>9. /\ cq' \in [Role -> Seq(WrId)] /\ CountOf(WR_SEND, cq'[p]) = CountOf(WR_SEND, cq[p])
      /\ CountOf(WR_RECV, cq'[r]) = CountOf(WR_RECV, cq[r])
  BY <1>3, Direction
<1>10. transport = "Uc" => m.unacked = 0
  BY <1>1, <1>4, Direction
<1> QED
  BY <1>1, <1>3, <1>4, <1>7, <1>8, <1>9, <1>10, DirectionMoves

(* A failed send or adapter moves nothing.                                 *)
LEMMA BreakStep ==
  ASSUME IInv, NEW r \in Role, RetryExceeded(r) \/ HcaFault(r), UNCHANGED given PROVE IInv'
<1>1. /\ UNCHANGED <<given, connVars, loopVars>> /\ link' = link /\ cq' = cq
      /\ broken' = [broken EXCEPT ![r] = TRUE] /\ transport' = transport
  BY DEF RetryExceeded, HcaFault, given
<1>2. RdmaTypes /\ RdmaTypes'
  BY <1>1 DEF IInv, TypeOK, RdmaTypes
<1>3. Natural
  BY <1>2, Quantities
<1>4. /\ \A q \in Role, w \in WrId : Incomplete(q, w)' = Incomplete(q, w)
      /\ \A q \in Role : Way(q)' = Way(q)
  BY <1>1 DEF Incomplete, Way
<1>5. ASSUME NEW q \in Role, NEW w \in WrId
      PROVE  Incomplete(q, w)' + CountOf(w, cq'[q]) <= Incomplete(q, w) + CountOf(w, cq[q])
  <2>1. PICK i, c \in Nat : i = Incomplete(q, w) /\ c = CountOf(w, cq[q])
    BY <1>3 DEF Natural
  <2> QED
    BY <1>1, <1>4, <2>1
<1>6. \A q \in Role : Way(q)' <= Way(q)
  BY <1>3, <1>4 DEF Natural
<1>7. transport = "Uc" => \A q \in Role : link'[q].unacked = 0
  BY <1>1 DEF IInv, QueuesHeld
<1> QED
  BY <1>1, <1>2, <1>5, <1>6, <1>7, TrafficMoves

(* A post takes one place in its queue; a send is a message on its way.    *)
LEMMA PostStep ==
  ASSUME IInv, NEW r \in Role, NEW w \in WrId, Post(r, w), UNCHANGED given
  PROVE  /\ RdmaTypes' /\ held' \in [Role -> [WrId -> Nat]] /\ QueuesHeld'
         /\ Way(Peer(r))' = Way(Peer(r))
         /\ Way(r)' = IF w = WR_SEND THEN Way(r) + 1 ELSE Way(r)
<1>1. /\ RdmaTypes /\ LoopTypes /\ Natural /\ transport' = transport
      /\ cq' = cq /\ broken' = broken
  BY Quantities DEF IInv, TypeOK, given, Post
<1>2. PICK p \in Role : p = Peer(r) /\ p # r /\ Peer(p) = r /\ \A q \in Role : q = r \/ q = p
  BY TwoSides
<1>3. PICK l \in LinkState, k \in LinkState : l = link[r] /\ k = link[p]
  BY <1>1 DEF Natural
<1>4. /\ PostSend(l) \in LinkState /\ PostSend(l).sq = l.sq + 1
      /\ PostSend(l).wire = l.wire /\ PostSend(l).unacked = l.unacked /\ PostSend(l).rq = l.rq
  BY PostedFields, LinkTypes DEF Transports
<1>5. /\ PostReceive(k) \in LinkState /\ PostReceive(k).sq = k.sq
      /\ PostReceive(k).wire = k.wire /\ PostReceive(k).unacked = k.unacked
      /\ PostReceive(k).rq = k.rq + 1
  BY PostedFields, LinkTypes DEF Transports
<1>6. /\ l.sq \in Nat /\ l.wire \in Nat /\ l.unacked \in Nat /\ l.rq \in Nat
      /\ k.sq \in Nat /\ k.wire \in Nat /\ k.unacked \in Nat /\ k.rq \in Nat
  BY DEF LinkState
<1>7. PICK h \in Nat : h = held[r][w] /\ h < Depth(w)
  BY <1>1 DEF LoopTypes, Post, HasRoom
<1>8. /\ held' \in [Role -> [WrId -> Nat]] /\ held'[r][w] = h + 1
      /\ \A q \in Role, v \in WrId : (q = r /\ v = w) \/ held'[q][v] = held[q][v]
  <2>1. held' = [held EXCEPT ![r] = [held[r] EXCEPT ![w] = h + 1]]
    BY <1>7 DEF Post
  <2>2. [held[r] EXCEPT ![w] = h + 1] \in [WrId -> Nat]
    BY <1>1, <1>7 DEF LoopTypes
  <2>3. held \in [Role -> [WrId -> Nat]]
    BY <1>1 DEF LoopTypes
  <2>4. held'[r] = [held[r] EXCEPT ![w] = h + 1] /\ \A q \in Role : q # r => held'[q] = held[q]
    BY <2>1, <2>3
  <2>5. held[r] \in [WrId -> Nat]
    BY <2>3
  <2>6. held' \in [Role -> [WrId -> Nat]]
    BY <2>1, <2>2, <2>3
  <2>7. held'[r][w] = h + 1 /\ \A v \in WrId : v # w => held'[r][v] = held[r][v]
    BY <2>4, <2>5
  <2> QED
    BY <2>4, <2>6, <2>7
<1>9. /\ RdmaTypes'
      /\ \A q \in Role, v \in WrId :
           Incomplete(q, v)' = IF q = r /\ v = w THEN Incomplete(q, v) + 1 ELSE Incomplete(q, v)
      /\ Way(p)' = Way(p)
      /\ Way(r)' = IF w = WR_SEND THEN Way(r) + 1 ELSE Way(r)
      /\ \A q \in Role : link'[q].unacked = link[q].unacked
  <2>1. CASE w = WR_SEND
    <3>1. link' = [link EXCEPT ![r] = PostSend(l)]
      BY <1>3, <2>1 DEF Post
    <3>2. /\ link'[r] = PostSend(l) /\ link'[p] = k
          /\ link' \in [Role -> LinkState]
      BY <1>1, <1>2, <1>3, <1>4, <3>1 DEF RdmaTypes
    <3>3. RdmaTypes'
      BY <1>1, <3>2 DEF RdmaTypes
    <3>4. /\ Incomplete(p, WR_SEND)' = Incomplete(p, WR_SEND)
          /\ Incomplete(r, WR_RECV)' = Incomplete(r, WR_RECV)
      BY <1>1, <1>2, <1>3, <3>2, Kinds DEF Incomplete, Underway
    <3>5. Incomplete(p, WR_RECV)' = Incomplete(p, WR_RECV)
      BY <1>2, <1>3, <1>4, <3>2, Kinds DEF Incomplete
    <3>6. Incomplete(r, WR_SEND)' = Incomplete(r, WR_SEND) + 1
      BY <1>1, <1>3, <1>4, <1>6, <3>2, Kinds DEF Incomplete, Underway
    <3>7. Way(p)' = Way(p)
      BY <1>1, <1>2, <1>3, <3>2 DEF Way
    <3>8. Way(r)' = Way(r) + 1
      <4>1. PICK c \in Nat : c = CountOf(WR_RECV, cq[Peer(r)]) /\ c = CountOf(WR_RECV, cq'[Peer(r)])
        BY <1>1, <1>2, Kinds DEF Natural
      <4> QED
        BY <1>3, <1>4, <1>6, <3>2, <4>1 DEF Way
    <3>9. \A q \in Role : link'[q].unacked = link[q].unacked
      BY <1>2, <1>3, <1>4, <3>2
    <3> QED
      BY <1>2, <2>1, <3>3, <3>4, <3>5, <3>6, <3>7, <3>8, <3>9, Kinds
  <2>2. CASE w = WR_RECV
    <3>1. link' = [link EXCEPT ![p] = PostReceive(k)]
      BY <1>2, <1>3, <2>2, Kinds DEF Post
    <3>2. /\ link'[r] = l /\ link'[p] = PostReceive(k)
          /\ link' \in [Role -> LinkState]
      BY <1>1, <1>2, <1>3, <1>5, <3>1 DEF RdmaTypes
    <3>3. RdmaTypes'
      BY <1>1, <3>2 DEF RdmaTypes
    <3>4. /\ Incomplete(r, WR_SEND)' = Incomplete(r, WR_SEND)
          /\ Incomplete(p, WR_SEND)' = Incomplete(p, WR_SEND)
      BY <1>1, <1>2, <1>3, <1>5, <3>2, Kinds DEF Incomplete, Underway
    <3>5. Incomplete(p, WR_RECV)' = Incomplete(p, WR_RECV)
      BY <1>2, <1>3, <3>2, Kinds DEF Incomplete
    <3>6. Incomplete(r, WR_RECV)' = Incomplete(r, WR_RECV) + 1
      BY <1>2, <1>3, <1>5, <3>2, Kinds DEF Incomplete
    <3>7. Way(p)' = Way(p) /\ Way(r)' = Way(r)
      BY <1>1, <1>2, <1>3, <1>5, <3>2 DEF Way
    <3>8. \A q \in Role : link'[q].unacked = link[q].unacked
      BY <1>2, <1>3, <1>5, <3>2
    <3> QED
      BY <1>2, <2>2, <3>3, <3>4, <3>5, <3>6, <3>7, <3>8, Kinds
  <2> QED
    BY <2>1, <2>2, Kinds
<1>10. ASSUME NEW q \in Role, NEW v \in WrId
       PROVE  Incomplete(q, v)' + CountOf(v, cq'[q]) <= held'[q][v] /\ held'[q][v] <= Depth(v)
  <2>1. PICK i, c, g \in Nat : i = Incomplete(q, v) /\ c = CountOf(v, cq[q]) /\ g = held[q][v]
    BY <1>1 DEF Natural, LoopTypes
  <2>2. i + c <= g /\ g <= Depth(v) /\ CountOf(v, cq'[q]) = c
    BY <1>1, <2>1 DEF IInv, QueuesHeld
  <2>3. CASE q = r /\ v = w
    <3>1. Incomplete(q, v)' = i + 1 /\ held'[q][v] = h + 1 /\ g = h
      BY <1>7, <1>8, <1>9, <2>1, <2>3
    <3>2. Depth(v) \in Nat
      BY Kinds
    <3> QED
      BY <1>7, <2>2, <2>3, <3>1, <3>2
  <2>4. CASE ~(q = r /\ v = w)
    <3>1. Incomplete(q, v)' = i /\ held'[q][v] = g
      BY <1>8, <1>9, <2>1, <2>4
    <3> QED
      BY <2>2, <3>1
  <2> QED
    BY <2>3, <2>4
<1>11. QueuesHeld'
  <2>1. transport = "Uc" => \A q \in Role : link'[q].unacked = 0
    BY <1>9 DEF IInv, QueuesHeld
  <2> QED
    BY <1>1, <1>10, <2>1 DEF QueuesHeld
<1> QED
  BY <1>2, <1>8, <1>9, <1>11

(* An error of r's own: a full queue, a failed completion, a kill.         *)
LEMMA FailStep ==
  ASSUME IInv, NEW r \in Role, NEW why \in Outcome \ {"running", "ok"}, Fail(r, why),
         UNCHANGED <<given, rdmaVars, loopVars>>
  PROVE  IInv'
BY ControlStep DEF Fail

LEMMA RejectedStep ==
  ASSUME IInv, NEW r \in Role, NEW w \in WrId, PostRejected(r, w), UNCHANGED given
  PROVE  IInv'
<1>1. "queue_full" \in Outcome \ {"running", "ok"}
  BY DEF Outcome
<1> QED
  BY <1>1, FailStep DEF PostRejected

(* What the lemmas of the posting steps start from.                        *)
LEMMA InvParts ==
  ASSUME IInv
  PROVE  /\ transport \in Carriers /\ prompt \in Prompts /\ ConnTypes /\ LoopTypes /\ RdmaTypes
         /\ Shape /\ BarrierBytes /\ QueuesHeld /\ OneRoundTrip /\ Counts
         /\ Way("Client") \in Nat /\ Way("Server") \in Nat
         /\ AtServer \in Nat /\ AtClient \in Nat
BY Quantities, Kinds DEF IInv, TypeOK, Natural, AtServer, AtClient, One

(* What is left to show once the traffic is done with.                     *)
LEMMA InvAssembled ==
  ASSUME IInv, UNCHANGED given, RdmaTypes', QueuesHeld',
         ConnTypes', LoopTypes', Shape', BarrierBytes', OneRoundTrip', Counts'
  PROVE  IInv'
<1>1. transport' \in Carriers /\ prompt' \in Prompts
  BY InvParts DEF given
<1>2. \A r \in Role : Len(cq'[r]) <= TxDepth + RxDepth
  BY CompletionsFit
<1> QED
  BY <1>1, <1>2 DEF IInv, TypeOK

(* Both post a receive before the third barrier.                           *)
LEMMA PostFirstStep == ASSUME IInv, NEW r \in Role, PostFirst(r), UNCHANGED given PROVE IInv'
<1>1. CASE PostRejected(r, WR_RECV)
  BY <1>1, RejectedStep, Kinds
<1>2. CASE /\ Post(r, WR_RECV) /\ Goto(r, "sync")
           /\ UNCHANGED <<barriers, inbox, outcome, dropped, pending, rounds, samples, echoed, gaveUp>>
  <2>1. ConnTypes /\ LoopTypes /\ Shape /\ BarrierBytes /\ OneRoundTrip /\ Counts
    BY InvParts
  <2>2. /\ RdmaTypes' /\ held' \in [Role -> [WrId -> Nat]] /\ QueuesHeld'
        /\ Way("Client")' = Way("Client") /\ Way("Server")' = Way("Server")
    BY <1>2, PostStep, Kinds
  <2>3. /\ outcome[r] = "running" /\ phase[r] = "post" /\ barriers[r] = 2
        /\ phase' = [phase EXCEPT ![r] = "sync"]
        /\ barriers' = barriers /\ inbox' = inbox /\ outcome' = outcome /\ dropped' = dropped
        /\ pending' = pending /\ rounds' = rounds /\ samples' = samples /\ echoed' = echoed
        /\ gaveUp' = gaveUp
    BY <1>2, <2>1 DEF PostFirst, Running, Goto, Shape
  <2>4. phase'[r] = "sync" /\ \A q \in Role : q # r => phase'[q] = phase[q]
    BY <2>1, <2>3 DEF ConnTypes
  <2>5. ConnTypes' /\ LoopTypes'
    BY <2>1, <2>2, <2>3 DEF ConnTypes, LoopTypes
  <2>6. Shape' /\ BarrierBytes'
    BY <2>1, <2>3, <2>4, Kinds DEF Shape, BarrierBytes, Arrived
  <2>7. AtServer' = AtServer /\ AtClient' = AtClient
    BY <2>3, <2>4, Kinds DEF AtServer, AtClient
  <2>8. OneRoundTrip'
    BY <2>1, <2>2, <2>3, <2>4, <2>7, Kinds DEF OneRoundTrip
  <2>9. Counts'
    BY <2>1, <2>2, <2>3, <2>4, <2>7, Kinds DEF Counts, One
  <2> QED
    BY <2>2, <2>5, <2>6, <2>8, <2>9, InvAssembled
<1> QED
  BY <1>1, <1>2 DEF PostFirst

(* The client's message opens a round trip: there was none.                *)
LEMMA PingStep == ASSUME IInv, Ping, UNCHANGED given PROVE IInv'
<1>1. CASE PostRejected("Client", WR_SEND)
  BY <1>1, RejectedStep, Kinds
<1>2. CASE /\ Post("Client", WR_SEND) /\ Goto("Client", "poll")
           /\ pending' = [pending EXCEPT !["Client"] = Awaited]
           /\ rounds' = [rounds EXCEPT !["Client"] = @ + 1]
           /\ UNCHANGED <<barriers, inbox, outcome, dropped, samples, echoed, gaveUp>>
  <2>1. ConnTypes /\ LoopTypes /\ Shape /\ BarrierBytes /\ OneRoundTrip /\ Counts
    BY InvParts
  <2>2. /\ RdmaTypes' /\ held' \in [Role -> [WrId -> Nat]] /\ QueuesHeld'
        /\ Way("Client")' = Way("Client") + 1 /\ Way("Server")' = Way("Server")
    BY <1>2, PostStep, Kinds
  <2>3. /\ outcome["Client"] = "running" /\ phase["Client"] = "send" /\ barriers["Client"] = 3
        /\ phase' = [phase EXCEPT !["Client"] = "poll"]
        /\ barriers' = barriers /\ inbox' = inbox /\ outcome' = outcome /\ dropped' = dropped
        /\ samples' = samples /\ echoed' = echoed /\ gaveUp' = gaveUp
        /\ gaveUp["Client"] = FALSE
    BY <1>2, <2>1, Kinds DEF Ping, Running, Goto, Shape, LoopTypes
  <2>4. phase'["Client"] = "poll" /\ phase'["Server"] = phase["Server"]
    BY <2>1, <2>3, Kinds DEF ConnTypes
  <2>5. /\ pending' \in [Role -> SUBSET WrId]
        /\ pending'["Client"] = WrId /\ pending'["Server"] = pending["Server"]
    BY <1>2, <2>1, Kinds DEF LoopTypes, Awaited
  <2>6. PICK n \in Nat : /\ n = rounds["Client"] /\ n < Iterations
                         /\ rounds'["Client"] = n + 1 /\ rounds'["Server"] = rounds["Server"]
                         /\ rounds' \in [Role -> 0 .. Iterations]
    BY <1>2, <2>1, <2>3, Kinds DEF LoopTypes, Counts
  <2>7. ConnTypes' /\ LoopTypes'
    BY <2>1, <2>2, <2>3, <2>5, <2>6 DEF ConnTypes, LoopTypes
  <2>8. Shape' /\ BarrierBytes'
    BY <2>1, <2>3, <2>4, <2>5, Kinds DEF Shape, BarrierBytes, Arrived
  <2>9. Way("Client") = 0 /\ AtServer = 0 /\ Way("Server") = 0
    BY <2>1, <2>3 DEF OneRoundTrip
  <2>10. AtServer' = 0 /\ AtClient' = 0 /\ AtClient = 0
    BY <2>3, <2>4, <2>5, <2>9, Kinds DEF AtServer, AtClient, One
  <2>11. OneRoundTrip'
    BY <2>2, <2>4, <2>9, <2>10 DEF OneRoundTrip
  <2>12. Counts'
    <3>1. \A q \in Role : /\ barriers'[q] < 3 => rounds'[q] = 0
                          /\ phase'[q] = "send" => rounds'[q] < Iterations
      BY <2>1, <2>3, <2>4, <2>6, Kinds DEF Counts
    <3>2. samples = n
      BY <2>1, <2>3, <2>6 DEF Counts, One, LoopTypes
    <3>3. samples' + One(phase'["Client"] = "poll" \/ gaveUp'["Client"]) = rounds'["Client"]
      BY <2>3, <2>4, <2>6, <3>2 DEF One
    <3>4. n <= rounds'["Server"]
      BY <2>1, <2>6, <2>9, <2>10, <3>2, Kinds DEF Counts, LoopTypes
    <3>5. samples' + Way("Server")' + AtClient' <= rounds'["Server"]
      BY <2>2, <2>3, <2>6, <2>9, <2>10, <3>2, <3>4
    <3>6. /\ phase'["Client"] # "repost" /\ phase'["Client"] \notin {"sync", "wait", "returned"}
          /\ phase'["Server"] = "poll" => rounds'["Server"] < Iterations
          /\ gaveUp'["Server"] => rounds'["Server"] < Iterations
      BY <2>1, <2>3, <2>4, <2>6 DEF Counts
    <3>7. echoed' + One(phase'["Server"] = "repost") = rounds'["Server"]
      BY <2>1, <2>3, <2>4, <2>6 DEF Counts
    <3> QED
      BY <3>1, <3>3, <3>5, <3>6, <3>7 DEF Counts
  <2> QED
    BY <2>2, <2>7, <2>8, <2>11, <2>12, InvAssembled
<1> QED
  BY <1>1, <1>2 DEF Ping

(* The server's echo: the round trip leaves its hands.                     *)
LEMMA EchoStep == ASSUME IInv, Echo, UNCHANGED given PROVE IInv'
<1>1. CASE PostRejected("Server", WR_SEND)
  BY <1>1, RejectedStep, Kinds
<1>2. CASE /\ Post("Server", WR_SEND) /\ Goto("Server", "repost")
           /\ rounds' = [rounds EXCEPT !["Server"] = @ + 1]
           /\ UNCHANGED <<barriers, inbox, outcome, dropped, pending, samples, echoed, gaveUp>>
  <2>1. ConnTypes /\ LoopTypes /\ Shape /\ BarrierBytes /\ OneRoundTrip /\ Counts
    BY InvParts
  <2>2. /\ RdmaTypes' /\ held' \in [Role -> [WrId -> Nat]] /\ QueuesHeld'
        /\ Way("Client")' = Way("Client") /\ Way("Server")' = Way("Server") + 1
    BY <1>2, PostStep, Kinds
  <2>3. /\ outcome["Server"] = "running" /\ phase["Server"] = "send" /\ barriers["Server"] = 3
        /\ phase' = [phase EXCEPT !["Server"] = "repost"]
        /\ barriers' = barriers /\ inbox' = inbox /\ outcome' = outcome /\ dropped' = dropped
        /\ samples' = samples /\ echoed' = echoed /\ gaveUp' = gaveUp /\ pending' = pending
        /\ gaveUp["Server"] = FALSE
    BY <1>2, <2>1, Kinds DEF Echo, Running, Goto, Shape, LoopTypes
  <2>4. phase'["Server"] = "repost" /\ phase'["Client"] = phase["Client"]
    BY <2>1, <2>3, Kinds DEF ConnTypes
  <2>5. PICK n \in Nat : /\ n = rounds["Server"] /\ n < Iterations
                         /\ rounds'["Server"] = n + 1 /\ rounds'["Client"] = rounds["Client"]
                         /\ rounds' \in [Role -> 0 .. Iterations]
    BY <1>2, <2>1, <2>3, Kinds DEF LoopTypes, Counts
  <2>6. ConnTypes' /\ LoopTypes'
    BY <2>1, <2>2, <2>3, <2>5 DEF ConnTypes, LoopTypes
  <2>7. Shape' /\ BarrierBytes'
    BY <2>1, <2>3, <2>4, Kinds DEF Shape, BarrierBytes, Arrived
  <2>8. AtServer = 1 /\ AtServer' = 0 /\ AtClient' = AtClient
    BY <2>3, <2>4, Kinds DEF AtServer, AtClient, One
  <2>9. Way("Client") = 0 /\ Way("Server") = 0 /\ AtClient = 0
    BY <2>1, <2>8, InvParts DEF OneRoundTrip
  <2>10. phase["Client"] = "poll" \/ gaveUp["Client"]
    BY <2>1, <2>8 DEF OneRoundTrip
  <2>11. OneRoundTrip'
    BY <2>2, <2>3, <2>4, <2>8, <2>9, <2>10 DEF OneRoundTrip
  <2>12. Counts'
    <3>1. \A q \in Role : /\ barriers'[q] < 3 => rounds'[q] = 0
                          /\ phase'[q] = "send" => rounds'[q] < Iterations
      BY <2>1, <2>3, <2>4, <2>5, Kinds DEF Counts
    <3>2. /\ samples' + One(phase'["Client"] = "poll" \/ gaveUp'["Client"]) = rounds'["Client"]
          /\ phase'["Client"] = "repost" => rounds'["Client"] < Iterations
          /\ barriers'["Client"] >= 3 /\ phase'["Client"] \in {"sync", "wait", "returned"}
               => gaveUp'["Client"] \/ rounds'["Client"] = Iterations
      BY <2>1, <2>3, <2>4, <2>5 DEF Counts
    <3>3. samples <= n /\ samples \in Nat
      BY <2>1, <2>5, <2>9, Kinds DEF Counts, LoopTypes
    <3>4. samples' + Way("Server")' + AtClient' <= rounds'["Server"]
      BY <2>2, <2>3, <2>5, <2>8, <2>9, <3>3
    <3>5. echoed = n
      BY <2>1, <2>3, <2>5 DEF Counts, One, LoopTypes
    <3>6. echoed' + One(phase'["Server"] = "repost") = rounds'["Server"]
      BY <2>3, <2>4, <2>5, <3>5 DEF One
    <3> QED
      BY <2>3, <2>4, <3>1, <3>2, <3>4, <3>6 DEF Counts
  <2> QED
    BY <2>2, <2>6, <2>7, <2>11, <2>12, InvAssembled
<1> QED
  BY <1>1, <1>2 DEF Echo

(* The receive for the next message.                                       *)
LEMMA RepostStep == ASSUME IInv, NEW r \in Role, Repost(r), UNCHANGED given PROVE IInv'
<1>1. CASE PostRejected(r, WR_RECV)
  BY <1>1, RejectedStep, Kinds
<1>2. CASE /\ Post(r, WR_RECV)
           /\ echoed' = IF r = "Server" THEN echoed + 1 ELSE echoed
           /\ Goto(r, CASE r = "Client" -> "send"
                        [] r = "Server" /\ rounds[r] < Iterations -> "poll"
                        [] OTHER -> "sync")
           /\ pending' = IF phase'[r] = "poll" THEN [pending EXCEPT ![r] = {WR_RECV}] ELSE pending
           /\ UNCHANGED <<barriers, inbox, outcome, dropped, rounds, samples, gaveUp>>
  <2>1. ConnTypes /\ LoopTypes /\ Shape /\ BarrierBytes /\ OneRoundTrip /\ Counts
    BY InvParts
  <2>2. /\ RdmaTypes' /\ held' \in [Role -> [WrId -> Nat]] /\ QueuesHeld'
        /\ Way("Client")' = Way("Client") /\ Way("Server")' = Way("Server")
    BY <1>2, PostStep, Kinds
  <2>3. PICK next : next = CASE r = "Client" -> "send"
                             [] r = "Server" /\ rounds[r] < Iterations -> "poll"
                             [] OTHER -> "sync"
    OBVIOUS
  <2>4. next = IF r = "Client" THEN "send" ELSE IF rounds[r] < Iterations THEN "poll" ELSE "sync"
    BY <2>3, Kinds
  <2>5. /\ outcome[r] = "running" /\ phase[r] = "repost" /\ barriers[r] = 3
        /\ phase' = [phase EXCEPT ![r] = next]
        /\ barriers' = barriers /\ inbox' = inbox /\ outcome' = outcome /\ dropped' = dropped
        /\ rounds' = rounds /\ samples' = samples /\ gaveUp' = gaveUp
        /\ gaveUp[r] = FALSE
    BY <1>2, <2>1, <2>3 DEF Repost, Running, Goto, Shape, LoopTypes
  <2>6. phase'[r] = next /\ \A q \in Role : q # r => phase'[q] = phase[q]
    BY <2>1, <2>5 DEF ConnTypes
  <2>7. /\ pending' \in [Role -> SUBSET WrId]
        /\ next = "poll" => pending'[r] = {WR_RECV}
        /\ next # "poll" => pending'[r] = pending[r]
        /\ \A q \in Role : q # r => pending'[q] = pending[q]
    BY <1>2, <2>1, <2>6, Kinds DEF LoopTypes
  <2>8. next \in {"send", "poll", "sync"}
    BY <2>4
  <2>9. AtServer' = AtServer /\ AtClient' = AtClient
    BY <2>4, <2>5, <2>6, <2>7, Kinds DEF AtServer, AtClient, One
  <2>10. OneRoundTrip'
    BY <2>1, <2>2, <2>4, <2>5, <2>6, <2>9, Kinds DEF OneRoundTrip
  <2>11. Shape' /\ BarrierBytes'
    BY <2>1, <2>4, <2>5, <2>6, <2>7, Kinds DEF Shape, BarrierBytes, Arrived
  <2>12. samples' + Way("Server")' + AtClient' <= rounds'["Server"]
    BY <2>1, <2>2, <2>5, <2>9 DEF Counts
  <2>13. CASE r = "Client"
    <3>1. /\ next = "send" /\ echoed' = echoed /\ rounds["Client"] < Iterations
          /\ phase'["Client"] = "send" /\ phase'["Server"] = phase["Server"]
      BY <1>2, <2>1, <2>4, <2>5, <2>6, <2>13, Kinds DEF Counts
    <3>2. ConnTypes' /\ LoopTypes'
      BY <2>1, <2>2, <2>5, <2>7, <3>1 DEF ConnTypes, LoopTypes
    <3>3. Counts'
      BY <2>1, <2>5, <2>12, <2>13, <3>1, Kinds DEF Counts, One
    <3> QED
      BY <2>2, <2>10, <2>11, <3>2, <3>3, InvAssembled
  <2>14. CASE r = "Server"
    <3>1. PICK n \in 0 .. Iterations : n = rounds["Server"]
      BY <2>1, Kinds DEF LoopTypes
    <3>2. /\ echoed' = echoed + 1 /\ echoed + 1 = n
          /\ phase'["Server"] = next /\ phase'["Client"] = phase["Client"]
          /\ next = IF n < Iterations THEN "poll" ELSE "sync"
      BY <1>2, <2>1, <2>4, <2>5, <2>6, <2>14, <3>1, Kinds DEF Counts, One
    <3>3. echoed' \in 0 .. Iterations
      BY <2>1, <3>2, Kinds DEF LoopTypes
    <3>4. ConnTypes' /\ LoopTypes'
      BY <2>1, <2>2, <2>5, <2>7, <2>8, <3>3 DEF ConnTypes, LoopTypes
    <3>5. echoed' + One(phase'["Server"] = "repost") = rounds'["Server"]
      BY <2>5, <3>1, <3>2, Kinds DEF One
    <3>6. \A q \in Role : /\ barriers'[q] < 3 => rounds'[q] = 0
                          /\ phase'[q] = "send" => rounds'[q] < Iterations
      BY <2>1, <2>5, <2>6, <2>14, <3>2, Kinds DEF Counts
    <3>7. /\ phase'["Server"] = "poll" => rounds'["Server"] < Iterations
          /\ ~gaveUp'["Server"]
      BY <2>5, <2>14, <3>1, <3>2
    <3>8. /\ samples' + One(phase'["Client"] = "poll" \/ gaveUp'["Client"]) = rounds'["Client"]
          /\ phase'["Client"] = "repost" => rounds'["Client"] < Iterations
          /\ barriers'["Client"] >= 3 /\ phase'["Client"] \in {"sync", "wait", "returned"}
               => gaveUp'["Client"] \/ rounds'["Client"] = Iterations
      BY <2>1, <2>5, <3>2 DEF Counts
    <3>9. Counts'
      BY <2>12, <3>5, <3>6, <3>7, <3>8 DEF Counts
    <3> QED
      BY <2>2, <2>10, <2>11, <3>4, <3>9, InvAssembled
  <2> QED
    BY <2>13, <2>14, Kinds
<1> QED
  BY <1>1, <1>2 DEF Repost

(* A turn of wait_for takes completions from the front of the queue, gives *)
(* their places back and strikes them off.                                 *)
LEMMA Polled ==
  ASSUME IInv, NEW r \in Role, WaitFor(r), UNCHANGED given
  PROVE  /\ RdmaTypes' /\ held' \in [Role -> [WrId -> Nat]] /\ QueuesHeld'
         /\ UNCHANGED <<barriers, inbox, outcome, dropped, rounds, echoed>>
         /\ \E got \in Seq(WrId), missing \in SUBSET WrId :
              /\ missing = pending[r] \ Range(got)
              /\ pending' = [pending EXCEPT ![r] = missing]
              /\ Way(Peer(r)) = Way(Peer(r))' + CountOf(WR_RECV, got)
              /\ Way(r)' = Way(r)
              /\ \/ LeaveLoop(r)
                 \/ missing = {} /\ Satisfied(r)
                 \/ missing # {} /\ UNCHANGED <<phase, samples, gaveUp>>
<1>1. /\ RdmaTypes /\ LoopTypes /\ Natural /\ transport' = transport
      /\ link' = link /\ broken' = broken
  BY InvParts, Quantities DEF given, WaitFor
<1>2. PICK a \in Seq(WrId) : a = cq[r]
  BY <1>1 DEF Natural
<1>3. PICK n : n = IF Len(a) < 2 THEN Len(a) ELSE 2
  OBVIOUS
<1>4. PICK got, rest : got = SubSeq(a, 1, n) /\ rest = SubSeq(a, n + 1, Len(a))
  OBVIOUS
<1>5. n \in 0 .. Len(a)
  BY <1>2, <1>3, LenProperties
<1>6. got \in Seq(WrId) /\ rest \in Seq(WrId)
  BY <1>2, <1>4, <1>5, SplitEntries
<1>7. \A w : /\ CountOf(w, a) = CountOf(w, got) + CountOf(w, rest)
             /\ CountOf(w, got) \in Nat /\ CountOf(w, rest) \in Nat
  BY <1>2, <1>4, <1>5, <1>6, CountSplit, CountType
<1>8. PICK missing : missing = pending[r] \ Range(got)
  OBVIOUS
<1>9. missing \in SUBSET WrId
  BY <1>1, <1>8 DEF LoopTypes
<1>10. /\ cq' = [cq EXCEPT ![r] = rest]
       /\ held' = [held EXCEPT ![r] = [w \in WrId |-> held[r][w] - CountOf(w, got)]]
       /\ pending' = [pending EXCEPT ![r] = missing]
       /\ UNCHANGED <<barriers, inbox, outcome, dropped, rounds, echoed>>
       /\ \/ LeaveLoop(r)
          \/ missing = {} /\ Satisfied(r)
          \/ missing # {} /\ UNCHANGED <<phase, samples, gaveUp>>
  BY <1>2, <1>3, <1>4, <1>8, Zenon DEF WaitFor
<1>11. /\ cq'[r] = rest /\ \A q \in Role : q # r => cq'[q] = cq[q]
       /\ cq' \in [Role -> Seq(WrId)]
  BY <1>1, <1>6, <1>10 DEF RdmaTypes
<1>12. RdmaTypes'
  BY <1>1, <1>11 DEF RdmaTypes
<1>13. \A q \in Role, w \in WrId : Incomplete(q, w)' = Incomplete(q, w)
  BY <1>1 DEF Incomplete
<1>14. ASSUME NEW w \in WrId
       PROVE  /\ held[r][w] - CountOf(w, got) \in Nat
              /\ Incomplete(r, w) + CountOf(w, rest) <= held[r][w] - CountOf(w, got)
              /\ held[r][w] - CountOf(w, got) <= Depth(w)
  <2>1. PICK i, g, c, h \in Nat : /\ i = Incomplete(r, w) /\ g = CountOf(w, got)
                                  /\ c = CountOf(w, rest) /\ h = held[r][w]
    BY <1>1, <1>7 DEF Natural, LoopTypes
  <2>2. i + (g + c) <= h /\ h <= Depth(w)
    BY <1>2, <1>7, <2>1, InvParts DEF QueuesHeld
  <2>3. PICK d \in Nat : d = Depth(w)
    BY Kinds
  <2>4. h - g \in Nat /\ i + c <= h - g /\ h - g <= d
    BY <2>2, <2>3
  <2> QED
    BY <2>1, <2>3, <2>4
<1>15. /\ held' \in [Role -> [WrId -> Nat]]
       /\ \A q \in Role, w \in WrId :
            held'[q][w] = IF q = r THEN held[q][w] - CountOf(w, got) ELSE held[q][w]
  <2>1. PICK left : left = [w \in WrId |-> held[r][w] - CountOf(w, got)]
    OBVIOUS
  <2>2. left \in [WrId -> Nat] /\ \A w \in WrId : left[w] = held[r][w] - CountOf(w, got)
    BY <1>14, <2>1
  <2>3. held' = [held EXCEPT ![r] = left] /\ held \in [Role -> [WrId -> Nat]]
    BY <1>1, <1>10, <2>1 DEF LoopTypes
  <2>4. held'[r] = left /\ \A q \in Role : q # r => held'[q] = held[q]
    BY <2>3
  <2>5. held' \in [Role -> [WrId -> Nat]]
    BY <2>2, <2>3
  <2> QED
    BY <2>2, <2>4, <2>5
<1>16. ASSUME NEW q \in Role, NEW w \in WrId
       PROVE  /\ Incomplete(q, w)' + CountOf(w, cq'[q]) <= held'[q][w]
              /\ held'[q][w] <= Depth(w)
  <2>1. CASE q = r
    BY <1>11, <1>13, <1>14, <1>15, <2>1
  <2>2. CASE q # r
    BY <1>11, <1>13, <1>15, <2>2, InvParts DEF QueuesHeld
  <2> QED
    BY <2>1, <2>2
<1>17. QueuesHeld'
  BY <1>1, <1>16, InvParts DEF QueuesHeld
<1>18. Way(Peer(r)) = Way(Peer(r))' + CountOf(WR_RECV, got) /\ Way(r)' = Way(r)
  <2>1. PICK p \in Role : p = Peer(r) /\ p # r /\ Peer(p) = r
    BY TwoSides
  <2>2. Way(r)' = Way(r)
    BY <1>1, <1>11, <2>1 DEF Way
  <2>3. PICK s, t, g, c \in Nat :
          /\ s = link[p].sq /\ t = link[p].wire
          /\ g = CountOf(WR_RECV, got) /\ c = CountOf(WR_RECV, rest)
    BY <1>1, <1>7 DEF Natural
  <2>4. Way(p) = s + t + (g + c)
    BY <1>2, <1>7, <2>1, <2>3 DEF Way
  <2>5. Way(p)' = s + t + c
    BY <1>1, <1>11, <2>1, <2>3 DEF Way
  <2> QED
    BY <2>1, <2>2, <2>3, <2>4, <2>5
<1> QED
  BY <1>6, <1>8, <1>9, <1>10, <1>12, <1>15, <1>17, <1>18

(* What the two lemmas of wait_for start from.                             *)
LEMMA PolledCount ==
  ASSUME NEW got \in Seq(WrId)
  PROVE  /\ CountOf(WR_RECV, got) \in Nat
         /\ CountOf(WR_RECV, got) > 0 <=> WR_RECV \in Range(got)
BY CountType

(* The client's wait: it takes the echo out of its queue into its hands,   *)
(* and a wait that is over hands it to the sample.                         *)
LEMMA ClientWaits == ASSUME IInv, WaitFor("Client"), UNCHANGED given PROVE IInv'
<1>1. PICK got \in Seq(WrId), missing \in SUBSET WrId :
        /\ missing = pending["Client"] \ Range(got)
        /\ pending' = [pending EXCEPT !["Client"] = missing]
        /\ Way("Server") = Way("Server")' + CountOf(WR_RECV, got)
        /\ Way("Client")' = Way("Client")
        /\ \/ LeaveLoop("Client")
           \/ missing = {} /\ Satisfied("Client")
           \/ missing # {} /\ UNCHANGED <<phase, samples, gaveUp>>
  BY Polled, Kinds
<1>2. /\ RdmaTypes' /\ held' \in [Role -> [WrId -> Nat]] /\ QueuesHeld'
      /\ barriers' = barriers /\ inbox' = inbox /\ outcome' = outcome /\ dropped' = dropped
      /\ rounds' = rounds /\ echoed' = echoed
  BY Polled, Kinds
<1>3. ConnTypes /\ LoopTypes /\ Shape /\ BarrierBytes /\ OneRoundTrip /\ Counts
  BY InvParts
<1>4. /\ outcome["Client"] = "running" /\ phase["Client"] = "poll" /\ barriers["Client"] = 3
      /\ gaveUp["Client"] = FALSE
  BY <1>3, Kinds DEF WaitFor, Running, Shape, LoopTypes
<1>5. PICK k, wc, vs, cl, sv \in Nat :
        /\ k = CountOf(WR_RECV, got) /\ wc = Way("Client") /\ Way("Server") = vs + k
        /\ vs = Way("Server")' /\ cl = AtClient /\ sv = AtServer /\ wc = Way("Client")'
  <2>1. Way("Server")' \in Nat
    BY <1>2, QuantitiesPrimed, Kinds DEF Natural
  <2> QED
    BY <1>1, <2>1, PolledCount, InvParts
<1>6. wc + sv + (vs + k) + cl <= 1
  BY <1>3, <1>5 DEF OneRoundTrip
<1>7. PICK n, m, x \in 0 .. Iterations :
        n = rounds["Client"] /\ m = rounds["Server"] /\ x = samples
  BY <1>3, Kinds DEF LoopTypes
<1>8. x + 1 = n /\ x + (vs + k) + cl <= m
  BY <1>3, <1>4, <1>5, <1>7, Kinds DEF Counts, One
<1>9. /\ pending' \in [Role -> SUBSET WrId]
      /\ pending'["Client"] = missing /\ pending'["Server"] = pending["Server"]
  BY <1>1, <1>3, Kinds DEF LoopTypes
<1>10. One(WR_RECV \notin missing) <= cl + k
  <2>1. k > 0 <=> WR_RECV \in Range(got)
    BY <1>5, PolledCount
  <2>2. cl = One(WR_RECV \notin pending["Client"])
    BY <1>4, <1>5 DEF AtClient, One
  <2> QED
    BY <1>1, <1>5, <2>1, <2>2 DEF One
<1>11. CASE LeaveLoop("Client")
  <2>1. /\ phase' = [phase EXCEPT !["Client"] = "sync"] /\ samples' = samples
        /\ gaveUp' = [gaveUp EXCEPT !["Client"] = TRUE]
    BY <1>11 DEF LeaveLoop, Goto
  <2>2. /\ phase'["Client"] = "sync" /\ phase'["Server"] = phase["Server"]
        /\ gaveUp'["Client"] = TRUE /\ gaveUp'["Server"] = gaveUp["Server"]
    BY <1>3, <2>1, Kinds DEF ConnTypes, LoopTypes
  <2>3. ConnTypes' /\ LoopTypes'
    BY <1>2, <1>3, <1>9, <2>1 DEF ConnTypes, LoopTypes
  <2>4. Shape' /\ BarrierBytes'
    BY <1>2, <1>3, <1>4, <1>9, <2>2, Kinds DEF Shape, BarrierBytes, Arrived
  <2>5. AtClient' = 0 /\ AtServer' = sv
    BY <1>5, <2>2 DEF AtClient, AtServer, One
  <2>6. OneRoundTrip'
    <3>1. wc + sv + vs + 0 <= 1
      BY <1>6
    <3>2. Way("Client")' + AtServer' + Way("Server")' + AtClient' <= 1
      BY <1>5, <2>5, <3>1
    <3> QED
      BY <2>2, <3>2 DEF OneRoundTrip
  <2>7. Counts'
    <3>1. samples' + Way("Server")' + AtClient' <= rounds'["Server"]
      <4>1. x + vs + 0 <= m
        BY <1>6, <1>7, <1>8
      <4> QED
        BY <1>2, <1>5, <1>7, <2>1, <2>5, <4>1
    <3>2. samples' + One(phase'["Client"] = "poll" \/ gaveUp'["Client"]) = rounds'["Client"]
      BY <1>2, <1>7, <1>8, <2>1, <2>2 DEF One
    <3> QED
      BY <1>2, <1>3, <1>4, <2>2, <3>1, <3>2, Kinds DEF Counts
  <2> QED
    BY <1>2, <2>3, <2>4, <2>6, <2>7, InvAssembled
<1>12. CASE missing = {} /\ Satisfied("Client")
  <2>1. cl + k = 1 /\ wc = 0 /\ sv = 0 /\ vs = 0
    <3>1. cl + k >= 1
      BY <1>10, <1>12 DEF One
    <3> QED
      BY <1>6, <3>1
  <2>2. PICK next : next = IF n < Iterations THEN "repost" ELSE "sync"
    OBVIOUS
  <2>3. /\ phase' = [phase EXCEPT !["Client"] = next] /\ samples' = samples + 1
        /\ gaveUp' = gaveUp
    BY <1>7, <1>12, <2>2 DEF Satisfied, LastOfLoop, Goto
  <2>4. phase'["Client"] = next /\ phase'["Server"] = phase["Server"]
    BY <1>3, <2>3, Kinds DEF ConnTypes
  <2>5. samples' = n
    BY <1>7, <1>8, <2>3
  <2>6. ConnTypes' /\ LoopTypes'
    BY <1>2, <1>3, <1>7, <1>9, <2>2, <2>3, <2>5 DEF ConnTypes, LoopTypes
  <2>7. Shape' /\ BarrierBytes'
    BY <1>2, <1>3, <1>4, <1>9, <2>2, <2>3, <2>4, Kinds DEF Shape, BarrierBytes, Arrived
  <2>8. AtClient' = 0 /\ AtServer' = 0
    BY <1>5, <2>1, <2>2, <2>4 DEF AtClient, AtServer, One
  <2>9. OneRoundTrip'
    BY <1>5, <2>1, <2>8 DEF OneRoundTrip
  <2>10. Counts'
    <3>1. samples' + Way("Server")' + AtClient' <= rounds'["Server"]
      <4>1. n + 0 + 0 <= m
        BY <1>6, <1>7, <1>8, <2>1
      <4> QED
        BY <1>2, <1>5, <1>7, <2>1, <2>5, <2>8, <4>1
    <3>2. samples' + One(phase'["Client"] = "poll" \/ gaveUp'["Client"]) = rounds'["Client"]
      BY <1>2, <1>4, <1>7, <2>2, <2>3, <2>4, <2>5, Kinds DEF One
    <3>3. \A q \in Role : /\ barriers'[q] < 3 => rounds'[q] = 0
                          /\ phase'[q] = "send" => rounds'[q] < Iterations
      BY <1>2, <1>3, <1>4, <2>2, <2>4, Kinds DEF Counts
    <3>4. /\ phase'["Client"] = "repost" => rounds'["Client"] < Iterations
          /\ phase'["Client"] \in {"sync", "wait", "returned"} => rounds'["Client"] = Iterations
      BY <1>2, <1>7, <2>2, <2>4, Kinds
    <3> QED
      BY <1>2, <1>3, <2>3, <2>4, <3>1, <3>2, <3>3, <3>4 DEF Counts
  <2> QED
    BY <1>2, <2>6, <2>7, <2>9, <2>10, InvAssembled
<1>13. CASE missing # {} /\ UNCHANGED <<phase, samples, gaveUp>>
  <2>1. phase' = phase /\ samples' = samples /\ gaveUp' = gaveUp
    BY <1>13
  <2>2. ConnTypes' /\ LoopTypes'
    BY <1>2, <1>3, <1>9, <2>1 DEF ConnTypes, LoopTypes
  <2>3. Shape' /\ BarrierBytes'
    BY <1>2, <1>3, <1>9, <2>1 DEF Shape, BarrierBytes, Arrived
  <2>4. PICK ncl \in Nat : ncl = AtClient' /\ ncl <= cl + k
    BY <1>4, <1>9, <1>10, <2>1 DEF AtClient, One
  <2>5. AtServer' = sv
    BY <1>5, <2>1 DEF AtServer
  <2>6. OneRoundTrip'
    <3>1. wc + sv + vs + ncl <= 1
      <4>1. ncl <= cl + k
        BY <2>4
      <4> QED
        BY <1>6, <4>1
    <3>2. Way("Client")' + AtServer' + Way("Server")' + AtClient' <= 1
      BY <1>5, <2>4, <2>5, <3>1
    <3> QED
      BY <1>4, <2>1, <3>2 DEF OneRoundTrip
  <2>7. Counts'
    <3>1. samples' + Way("Server")' + AtClient' <= rounds'["Server"]
      <4>1. x + vs + ncl <= m
        BY <1>6, <1>7, <1>8, <2>4
      <4> QED
        BY <1>2, <1>5, <1>7, <2>1, <2>4, <4>1
    <3> QED
      BY <1>2, <1>3, <2>1, <3>1 DEF Counts
  <2> QED
    BY <1>2, <2>2, <2>3, <2>6, <2>7, InvAssembled
<1> QED
  BY <1>1, <1>11, <1>12, <1>13

(* The server's wait: a message that has come puts the round trip in its   *)
(* hands.                                                                  *)
LEMMA ServerWaits == ASSUME IInv, WaitFor("Server"), UNCHANGED given PROVE IInv'
<1>1. PICK got \in Seq(WrId), missing \in SUBSET WrId :
        /\ missing = pending["Server"] \ Range(got)
        /\ pending' = [pending EXCEPT !["Server"] = missing]
        /\ Way("Client") = Way("Client")' + CountOf(WR_RECV, got)
        /\ Way("Server")' = Way("Server")
        /\ \/ LeaveLoop("Server")
           \/ missing = {} /\ Satisfied("Server")
           \/ missing # {} /\ UNCHANGED <<phase, samples, gaveUp>>
  BY Polled, Kinds
<1>2. /\ RdmaTypes' /\ held' \in [Role -> [WrId -> Nat]] /\ QueuesHeld'
      /\ barriers' = barriers /\ inbox' = inbox /\ outcome' = outcome /\ dropped' = dropped
      /\ rounds' = rounds /\ echoed' = echoed
  BY Polled, Kinds
<1>3. ConnTypes /\ LoopTypes /\ Shape /\ BarrierBytes /\ OneRoundTrip /\ Counts
  BY InvParts
<1>4. /\ outcome["Server"] = "running" /\ phase["Server"] = "poll" /\ barriers["Server"] = 3
      /\ gaveUp["Server"] = FALSE /\ pending["Server"] = {WR_RECV}
      /\ rounds["Server"] < Iterations
  BY <1>3, Kinds DEF WaitFor, Running, Shape, LoopTypes, Counts
<1>5. PICK k, wc, ws, cl \in Nat :
        /\ k = CountOf(WR_RECV, got) /\ Way("Client") = wc + k /\ wc = Way("Client")'
        /\ ws = Way("Server") /\ ws = Way("Server")' /\ cl = AtClient
  <2>1. Way("Client")' \in Nat
    BY <1>2, QuantitiesPrimed, Kinds DEF Natural
  <2> QED
    BY <1>1, <2>1, PolledCount, InvParts
<1>6. AtServer = 0 /\ (wc + k) + ws + cl <= 1
  <2>1. AtServer = 0
    BY <1>4 DEF AtServer, One
  <2>2. (wc + k) + 0 + ws + cl <= 1
    BY <1>3, <1>5, <2>1 DEF OneRoundTrip
  <2> QED
    BY <2>1, <2>2
<1>7. phase["Client"] # "poll" /\ ~gaveUp["Client"] => wc = 0 /\ k = 0 /\ ws = 0
  <2>1. phase["Client"] # "poll" /\ ~gaveUp["Client"] => wc + k = 0 /\ ws = 0
    BY <1>3, <1>5 DEF OneRoundTrip
  <2> QED
    BY <2>1
<1>8. /\ pending' \in [Role -> SUBSET WrId]
      /\ pending'["Server"] = missing /\ pending'["Client"] = pending["Client"]
  BY <1>1, <1>3, Kinds DEF LoopTypes
<1>9. WR_RECV \notin missing <=> k > 0
  BY <1>1, <1>4, <1>5, PolledCount
<1>10. missing \subseteq {WR_RECV}
  BY <1>1, <1>4
<1>11. CASE LeaveLoop("Server")
  <2>1. /\ phase' = [phase EXCEPT !["Server"] = "sync"] /\ samples' = samples
        /\ gaveUp' = [gaveUp EXCEPT !["Server"] = TRUE]
    BY <1>11 DEF LeaveLoop, Goto
  <2>2. /\ phase'["Server"] = "sync" /\ phase'["Client"] = phase["Client"]
        /\ gaveUp'["Server"] = TRUE /\ gaveUp'["Client"] = gaveUp["Client"]
    BY <1>3, <2>1, Kinds DEF ConnTypes, LoopTypes
  <2>3. ConnTypes' /\ LoopTypes'
    BY <1>2, <1>3, <1>8, <2>1 DEF ConnTypes, LoopTypes
  <2>4. Shape' /\ BarrierBytes'
    BY <1>2, <1>3, <1>4, <1>8, <2>2, Kinds DEF Shape, BarrierBytes, Arrived
  <2>5. AtServer' = 0 /\ AtClient' = cl
    BY <1>5, <1>8, <2>2 DEF AtServer, AtClient, One
  <2>6. OneRoundTrip'
    <3>1. wc + 0 + ws + cl <= 1
      BY <1>6
    <3>2. Way("Client")' + AtServer' + Way("Server")' + AtClient' <= 1
      BY <1>5, <2>5, <3>1
    <3> QED
      BY <1>5, <1>7, <2>2, <2>5, <3>2 DEF OneRoundTrip
  <2>7. Counts'
    <3>1. samples' + Way("Server")' + AtClient' <= rounds'["Server"]
      BY <1>2, <1>3, <1>5, <2>1, <2>5 DEF Counts
    <3>2. echoed' + One(phase'["Server"] = "repost") = rounds'["Server"]
      BY <1>2, <1>3, <1>4, <2>2 DEF Counts, One
    <3> QED
      BY <1>2, <1>3, <1>4, <2>1, <2>2, <3>1, <3>2, Kinds DEF Counts
  <2> QED
    BY <1>2, <2>3, <2>4, <2>6, <2>7, InvAssembled
<1>12. CASE missing = {} /\ Satisfied("Server")
  <2>1. k = 1 /\ wc = 0 /\ ws = 0 /\ cl = 0
    <3>1. k > 0
      BY <1>9, <1>12
    <3> QED
      BY <1>6, <3>1
  <2>2. /\ phase' = [phase EXCEPT !["Server"] = "send"] /\ samples' = samples
        /\ gaveUp' = gaveUp
    BY <1>12 DEF Satisfied, LastOfLoop, Goto
  <2>3. phase'["Server"] = "send" /\ phase'["Client"] = phase["Client"]
    BY <1>3, <2>2, Kinds DEF ConnTypes
  <2>4. ConnTypes' /\ LoopTypes'
    BY <1>2, <1>3, <1>8, <2>2 DEF ConnTypes, LoopTypes
  <2>5. Shape' /\ BarrierBytes'
    BY <1>2, <1>3, <1>4, <1>8, <2>2, <2>3, Kinds DEF Shape, BarrierBytes, Arrived
  <2>6. AtServer' = 1 /\ AtClient' = 0
    BY <1>5, <1>8, <2>1, <2>3 DEF AtServer, AtClient, One
  <2>7. OneRoundTrip'
    <3>1. Way("Client")' + AtServer' + Way("Server")' + AtClient' <= 1
      BY <1>5, <2>1, <2>6
    <3>2. phase'["Client"] = "poll" \/ gaveUp'["Client"]
      BY <1>7, <2>1, <2>2, <2>3
    <3> QED
      BY <3>1, <3>2 DEF OneRoundTrip
  <2>8. Counts'
    <3>1. samples' + Way("Server")' + AtClient' <= rounds'["Server"]
      <4>1. AtClient' = AtClient
        BY <1>5, <2>1, <2>6
      <4> QED
        BY <1>2, <1>3, <1>5, <2>2, <4>1 DEF Counts
    <3>2. echoed' + One(phase'["Server"] = "repost") = rounds'["Server"]
      BY <1>2, <1>3, <1>4, <2>3 DEF Counts, One
    <3> QED
      BY <1>2, <1>3, <1>4, <2>2, <2>3, <3>1, <3>2, Kinds DEF Counts
  <2> QED
    BY <1>2, <2>4, <2>5, <2>7, <2>8, InvAssembled
<1>13. CASE missing # {} /\ UNCHANGED <<phase, samples, gaveUp>>
  <2>1. phase' = phase /\ samples' = samples /\ gaveUp' = gaveUp
    BY <1>13
  <2>2. ConnTypes' /\ LoopTypes'
    BY <1>2, <1>3, <1>8, <2>1 DEF ConnTypes, LoopTypes
  <2>3. missing = {WR_RECV}
    BY <1>10, <1>13
  <2>4. Shape' /\ BarrierBytes'
    BY <1>2, <1>3, <1>8, <2>1, <2>3 DEF Shape, BarrierBytes, Arrived
  <2>5. AtServer' = 0 /\ AtClient' = cl
    BY <1>5, <1>6, <1>8, <2>1 DEF AtServer, AtClient
  <2>6. OneRoundTrip'
    <3>1. wc + 0 + ws + cl <= 1
      BY <1>6
    <3>2. Way("Client")' + AtServer' + Way("Server")' + AtClient' <= 1
      BY <1>5, <2>5, <3>1
    <3> QED
      BY <1>5, <1>7, <2>1, <2>5, <3>2 DEF OneRoundTrip
  <2>7. Counts'
    <3>1. samples' + Way("Server")' + AtClient' <= rounds'["Server"]
      BY <1>2, <1>3, <1>5, <2>1, <2>5 DEF Counts
    <3> QED
      BY <1>2, <1>3, <2>1, <3>1 DEF Counts
  <2> QED
    BY <1>2, <2>2, <2>4, <2>6, <2>7, InvAssembled
<1> QED
  BY <1>1, <1>11, <1>12, <1>13

(* A failed completion takes the server out of its loop, where it waits    *)
(* for a message: no traffic moves, and the counts stand as they did.      *)
LEMMA ServerBreaksOff ==
  ASSUME IInv, PollError("Server"), UNCHANGED given
  PROVE  IInv'
<1>1. /\ phase["Server"] = "poll" /\ outcome["Server"] = "running"
      /\ LeaveLoop("Server")
      /\ UNCHANGED <<barriers, inbox, outcome, dropped, held, pending, rounds, echoed>>
      /\ UNCHANGED rdmaVars
  BY DEF PollError, Running
<1>2. ConnTypes /\ LoopTypes /\ Shape /\ BarrierBytes /\ OneRoundTrip /\ Counts
  BY InvParts
<1>3. /\ RdmaTypes' /\ QueuesHeld'
      /\ Way("Client")' = Way("Client") /\ Way("Server")' = Way("Server")
  BY <1>1, TrafficUntouched
<1>4. barriers["Server"] = 3 /\ rounds["Server"] < Iterations
  BY <1>1, <1>2, Kinds DEF Shape, Counts
<1>5. /\ phase' = [phase EXCEPT !["Server"] = "sync"] /\ samples' = samples
      /\ gaveUp' = [gaveUp EXCEPT !["Server"] = TRUE]
  BY <1>1 DEF LeaveLoop, Goto
<1>6. /\ phase'["Server"] = "sync" /\ phase'["Client"] = phase["Client"]
      /\ gaveUp'["Server"] = TRUE /\ gaveUp'["Client"] = gaveUp["Client"]
  BY <1>2, <1>5, Kinds DEF ConnTypes, LoopTypes
<1>7. ConnTypes' /\ LoopTypes'
  BY <1>1, <1>2, <1>5 DEF ConnTypes, LoopTypes
<1>8. Shape' /\ BarrierBytes'
  BY <1>1, <1>2, <1>4, <1>6, Kinds DEF Shape, BarrierBytes, Arrived
<1>9. AtServer = 0 /\ AtServer' = 0 /\ AtClient' = AtClient
  BY <1>1, <1>6 DEF AtServer, AtClient, One
<1>10. OneRoundTrip'
  BY <1>2, <1>3, <1>6, <1>9 DEF OneRoundTrip
<1>11. Counts'
  <2>1. samples' + Way("Server")' + AtClient' <= rounds'["Server"]
    BY <1>1, <1>2, <1>3, <1>5, <1>9 DEF Counts
  <2>2. echoed' + One(phase'["Server"] = "repost") = rounds'["Server"]
    BY <1>1, <1>2, <1>6 DEF Counts, One
  <2> QED
    BY <1>1, <1>2, <1>4, <1>5, <1>6, <2>1, <2>2, Kinds DEF Counts
<1> QED
  BY <1>3, <1>7, <1>8, <1>10, <1>11, InvAssembled

(* Every step preserves the invariant.                                     *)
LEMMA InvStep == IInv /\ [Next]_vars => IInv'
<1> SUFFICES ASSUME IInv, [Next]_vars PROVE IInv'
  OBVIOUS
<1>1. CASE UNCHANGED vars
  <2>1. UNCHANGED <<given, connVars, rdmaVars, loopVars>>
    BY <1>1 DEF vars
  <2>2. UNCHANGED <<given, rdmaVars, held>>
    BY <2>1 DEF loopVars
  <2>3. /\ RdmaTypes' /\ QueuesHeld'
        /\ Way("Client")' = Way("Client") /\ Way("Server")' = Way("Server")
    BY <2>2, TrafficUntouched
  <2>4. ConnTypes' /\ LoopTypes' /\ Shape' /\ BarrierBytes'
    BY <2>1, InvParts
       DEF connVars, loopVars, ConnTypes, LoopTypes, Shape, BarrierBytes, Arrived
  <2>5. OneRoundTrip' /\ Counts'
    BY <2>1, <2>3, InvParts DEF connVars, loopVars, OneRoundTrip, Counts, AtServer, AtClient
  <2> QED
    BY <2>1, <2>3, <2>4, <2>5, InvAssembled
<1>2. CASE Over
  BY <1>1, <1>2 DEF Over
<1>3. ASSUME NEW r \in Role, Process(r), UNCHANGED given PROVE IInv'
  <2>1. CASE WaitFor(r)
    BY <1>3, <2>1, ClientWaits, ServerWaits, Kinds
  <2>2. CASE PollError(r)
    <3>1. "wc_error" \in Outcome \ {"running", "ok"}
      BY DEF Outcome
    <3>2. CASE r = "Client"
      BY <1>3, <2>2, <3>1, <3>2, FailStep DEF PollError
    <3>3. CASE r = "Server"
      BY <1>3, <2>2, <3>3, ServerBreaksOff
    <3> QED
      BY <3>2, <3>3, Kinds
  <2>3. CASE Drop(r) /\ UNCHANGED <<rdmaVars, loopVars>>
    BY <1>3, <2>3, ControlStep DEF Drop
  <2> QED
    BY <1>3, <2>1, <2>2, <2>3, SyncStep, PostFirstStep, RepostStep, PingStep, EchoStep
       DEF Process
<1>4. ASSUME Adapters, UNCHANGED given PROVE IInv'
  BY <1>4, TransmitStep, DeliverStep, AcknowledgeStep, LoseStep, BreakStep DEF Adapters
<1>5. ASSUME NEW r \in Role, HcaFault(r) \/ Killed(r), UNCHANGED given PROVE IInv'
  <2>1. CASE HcaFault(r)
    BY <1>5, <2>1, BreakStep
  <2>2. CASE Killed(r)
    <3>1. "killed" \in Outcome \ {"running", "ok"}
      BY DEF Outcome
    <3> QED
      BY <1>5, <2>2, <3>1, FailStep DEF Killed, Kill
  <2> QED
    BY <1>5, <2>1, <2>2
<1> QED
  BY <1>1, <1>2, <1>3, <1>4, <1>5 DEF Next, Step

(***************************************************************************)
(* What the invariant says of every behaviour.                             *)
(***************************************************************************)

(* The invariant holds in every state, whatever Iterations and the depths. *)
THEOREM Invariant == Spec => []IInv
  BY InvInitial, InvStep, PTL DEF Spec

(* Types, and completion queues that are never overrun (latency.rs:167).   *)
THEOREM TypeInvariant == Spec => []TypeOK
<1>1. IInv => TypeOK
  BY DEF IInv
<1> QED
  BY <1>1, Invariant, PTL

(* A sample times its own round trip: nothing of an earlier one is left    *)
(* when the client sends (latency.rs:14 fears the opposite).               *)
THEOREM NoOverlap == Spec => []RoundTripsDoNotOverlap
<1>1. ASSUME IInv, phase["Client"] = "send"
      PROVE  /\ link["Server"].sq = 0 /\ link["Server"].wire = 0
             /\ WR_RECV \notin Range(cq["Client"])
  <2>1. ~gaveUp["Client"]
    BY <1>1, InvParts, Kinds DEF Shape
  <2>2. Way("Server") = 0
    BY <1>1, <2>1, InvParts DEF OneRoundTrip
  <2>3. PICK s, t, c \in Nat :
          s = link["Server"].sq /\ t = link["Server"].wire /\ c = CountOf(WR_RECV, cq["Client"])
    BY <1>1, InvParts, Quantities, Kinds DEF Natural
  <2>4. s + t + c = 0
    BY <2>2, <2>3, Kinds DEF Way
  <2>5. s = 0 /\ t = 0 /\ c = 0
    BY <2>4
  <2>6. cq["Client"] \in Seq(WrId)
    BY <1>1, InvParts, Kinds DEF RdmaTypes
  <2>7. WR_RECV \notin Range(cq["Client"])
    <3>1. CountOf(WR_RECV, cq["Client"]) > 0 <=> WR_RECV \in Range(cq["Client"])
      BY <2>6, CountType
    <3>2. ~(CountOf(WR_RECV, cq["Client"]) > 0)
      BY <2>3, <2>5
    <3> QED
      BY <3>1, <3>2
  <2> QED
    BY <2>3, <2>5, <2>7
<1>2. IInv => RoundTripsDoNotOverlap
  BY <1>1 DEF RoundTripsDoNotOverlap
<1> QED
  BY <1>2, Invariant, PTL

(* The final barrier keeps the echo's buffer registered until the echo is  *)
(* out (latency.rs:167 and 172).                                           *)
THEOREM EchoBufferKept == Spec => []EchoBufferOutlivesSend
<1>1. ASSUME IInv, outcome["Server"] = "ok", ~gaveUp["Client"]
      PROVE  link["Server"].sq = 0 /\ link["Server"].wire = 0
  <2>1. ConnTypes /\ Shape /\ BarrierBytes /\ OneRoundTrip
    BY <1>1, InvParts
  <2>2. barriers["Server"] = 4
    BY <1>1, <2>1, Kinds DEF Shape
  <2>3. Arrived["Client"] >= 4
    <3>1. /\ inbox["Server"] \in Nat
          /\ inbox["Server"] + barriers["Server"] = Arrived["Client"]
      BY <2>1, Kinds DEF ConnTypes, BarrierBytes
    <3> QED
      BY <2>2, <3>1
  <2>4. phase["Client"] # "poll"
    BY <2>1, <2>3, Kinds DEF Arrived, Shape
  <2>5. Way("Server") = 0
    BY <1>1, <2>1, <2>4 DEF OneRoundTrip
  <2>6. PICK s, t, c \in Nat :
          s = link["Server"].sq /\ t = link["Server"].wire /\ c = CountOf(WR_RECV, cq["Client"])
    BY <1>1, InvParts, Quantities, Kinds DEF Natural
  <2>7. s + t + c = 0
    BY <2>5, <2>6, Kinds DEF Way
  <2>8. s = 0 /\ t = 0
    BY <2>7
  <2> QED
    BY <2>6, <2>8
<1>2. IInv => EchoBufferOutlivesSend
  BY <1>1 DEF EchoBufferOutlivesSend
<1> QED
  BY <1>2, Invariant, PTL

(* A client that finished every round trip and the server agree on all of  *)
(* them.                                                                   *)
THEOREM CompleteRunsAgree == Spec => []CompleteRunAgrees
<1>1. ASSUME IInv, outcome["Client"] = "ok", ~gaveUp["Client"]
      PROVE  samples = Iterations /\ echoed = Iterations /\ ~gaveUp["Server"]
  <2>1. ConnTypes /\ LoopTypes /\ Shape /\ BarrierBytes /\ Counts
    BY <1>1, InvParts
  <2>2. phase["Client"] = "returned" /\ barriers["Client"] = 4
    BY <1>1, <2>1, Kinds DEF Shape
  <2>3. phase["Server"] # "repost"
    <3>1. Arrived["Server"] >= 4
      <4>1. /\ inbox["Client"] \in Nat
            /\ inbox["Client"] + barriers["Client"] = Arrived["Server"]
        BY <2>1, Kinds DEF ConnTypes, BarrierBytes
      <4> QED
        BY <2>2, <4>1
    <3> QED
      BY <2>1, <3>1, Kinds DEF Arrived, Shape
  <2>4. PICK n, x, e \in 0 .. Iterations : n = rounds["Server"] /\ x = samples /\ e = echoed
    BY <2>1, Kinds DEF LoopTypes
  <2>5. x = Iterations
    <3>1. x + 0 = rounds["Client"] /\ rounds["Client"] = Iterations
      BY <1>1, <2>1, <2>2, <2>4 DEF Counts, One
    <3> QED
      BY <3>1
  <2>6. n = Iterations
    <3>1. PICK w, c \in Nat : w = Way("Server") /\ c = AtClient
      BY <1>1, InvParts
    <3>2. x + w + c <= n
      BY <2>1, <2>4, <3>1 DEF Counts
    <3> QED
      BY <2>4, <2>5, <3>2, Kinds
  <2>7. e = n
    <3>1. e + 0 = n
      BY <2>1, <2>3, <2>4 DEF Counts, One
    <3> QED
      BY <3>1, Kinds
  <2>8. ~gaveUp["Server"]
    BY <2>1, <2>4, <2>6, Kinds DEF Counts
  <2> QED
    BY <2>4, <2>5, <2>6, <2>7, <2>8
<1>2. IInv => CompleteRunAgrees
  BY <1>1 DEF CompleteRunAgrees
<1> QED
  BY <1>2, Invariant, PTL

(* A step of `sync` is a step of the rendezvous: the write arrives, the    *)
(* read leaves, and leaves only behind a peer that has arrived.            *)
LEMMA SyncIsRendezvous ==
  ASSUME IInv, NEW r \in Role, Sync(r)
  PROVE  [RunBarriers!Next]_(RunBarriers!vars)
<1> USE Kinds DEF Running
<1>0. ConnTypes /\ Shape /\ BarrierBytes
  BY InvParts
<1>1. CASE SyncWrite(r) /\ phase' # phase
  <2>1. barriers' = barriers /\ phase' = [phase EXCEPT ![r] = "wait"] /\ phase[r] = "sync"
    BY <1>1 DEF SyncWrite, Goto, Fail
  <2>2. barriers[r] < 4 /\ barriers[r] \in Nat
    BY <1>0, <2>1 DEF Shape, ConnTypes
  <2>3. Arrived[r] = barriers[r]
    BY <2>1, <2>2 DEF Arrived
  <2>4. Arrived' = [Arrived EXCEPT ![r] = @ + 1]
    <3>1. Arrived'[r] = Arrived[r] + 1
      BY <1>0, <2>1, <2>2, <2>3 DEF ConnTypes, Arrived
    <3>2. \A q \in Role \ {r} : Arrived'[q] = Arrived[q]
      BY <1>0, <2>1 DEF ConnTypes, Arrived
    <3>3. Arrived' = [q \in Role |-> Arrived'[q]] /\ Arrived = [q \in Role |-> Arrived[q]]
      BY DEF Arrived
    <3> QED
      BY <3>1, <3>2, <3>3
  <2>5. RunBarriers!Arrive(r)
    BY <2>1, <2>2, <2>3, <2>4 DEF RunBarriers!Arrive
  <2> QED
    BY <2>5 DEF RunBarriers!Next
<1>2. CASE SyncRead(r, AfterBarrier(r, barriers[r] + 1))
  <2>1. PICK next : next = AfterBarrier(r, barriers[r] + 1)
    OBVIOUS
  <2>2. /\ phase[r] = "wait" /\ inbox[r] > 0 /\ barriers[r] \in 0 .. 3
        /\ phase' = [phase EXCEPT ![r] = next]
        /\ barriers' = [barriers EXCEPT ![r] = @ + 1]
    BY <1>0, <1>2, <2>1 DEF SyncRead, Goto, ConnTypes, Shape
  <2>3. next # "wait"
    BY <2>1, <2>2 DEF AfterBarrier
  <2>4. \A q \in Role : barriers[r] < Arrived[q]
    BY <1>0, <2>2 DEF ConnTypes, BarrierBytes, Arrived
  <2>5. Arrived' = Arrived
    BY <1>0, <2>2, <2>3 DEF ConnTypes, Arrived
  <2>6. RunBarriers!Leave(r)
    BY <2>2, <2>4, <2>5 DEF RunBarriers!Leave
  <2> QED
    BY <2>6 DEF RunBarriers!Next
<1>3. CASE phase' = phase /\ barriers' = barriers
  BY <1>3 DEF Arrived, RunBarriers!vars
<1> QED
  BY <1>1, <1>2, <1>3 DEF Sync, SyncWrite, SyncBroken, Fail

(* Every other step leaves the barriers alone.                             *)
LEMMA RestIsStutter ==
  ASSUME IInv, [Next]_vars, \A r \in Role : ~Sync(r)
  PROVE  UNCHANGED RunBarriers!vars
<1> DEFINE Keeps == /\ barriers' = barriers
                    /\ \A q \in Role : phase'[q] = "wait" <=> phase[q] = "wait"
<1>0. ASSUME barriers' = barriers, NEW q \in Role, NEW p, p # "wait", Goto(q, p), phase[q] # "wait"
      PROVE  Keeps
  BY <1>0, InvParts DEF Goto, ConnTypes
<1>1. ASSUME NEW r \in Role, Process(r) PROVE Keeps
  <2>1. CASE PostFirst(r) \/ (r = "Client" /\ Ping) \/ (r = "Server" /\ Echo)
    <3>1. CASE /\ barriers' = barriers /\ phase[r] # "wait"
               /\ Goto(r, "sync") \/ Goto(r, "poll") \/ Goto(r, "repost")
      BY <1>0, <3>1
    <3>2. CASE phase' = phase /\ barriers' = barriers
      BY <3>2
    <3> QED
      BY <2>1, <3>1, <3>2 DEF PostFirst, Ping, Echo, PostRejected, Fail
  <2>2. CASE Repost(r)
    <3>1. PICK next : next = CASE r = "Client" -> "send"
                               [] r = "Server" /\ rounds[r] < Iterations -> "poll"
                               [] OTHER -> "sync"
      OBVIOUS
    <3>2. next # "wait"
      BY <3>1
    <3>3. CASE barriers' = barriers /\ phase[r] # "wait" /\ Goto(r, next)
      BY <1>0, <3>2, <3>3
    <3>4. CASE phase' = phase /\ barriers' = barriers
      BY <3>4
    <3> QED
      BY <2>2, <3>1, <3>3, <3>4 DEF Repost, PostRejected, Fail
  <2>3. CASE WaitFor(r)
    <3>1. /\ barriers' = barriers /\ phase[r] # "wait"
          /\ LeaveLoop(r) \/ Satisfied(r) \/ phase' = phase
      BY <2>3 DEF WaitFor
    <3>2. LastOfLoop(r) # "wait"
      BY DEF LastOfLoop
    <3> QED
      BY <1>0, <3>1, <3>2 DEF LeaveLoop, Satisfied
  <2>4. CASE PollError(r)
    <3>1. phase[r] # "wait" /\ barriers' = barriers
      BY <2>4 DEF PollError, Fail
    <3>2. Goto(r, "sync") \/ phase' = phase
      BY <2>4 DEF PollError, Fail, LeaveLoop
    <3> QED
      BY <1>0, <3>1, <3>2
  <2>5. CASE Drop(r) /\ UNCHANGED <<rdmaVars, loopVars>>
    BY <2>5 DEF Drop
  <2> QED
    BY <1>1, <2>1, <2>2, <2>3, <2>4, <2>5 DEF Process
<1>2. ASSUME Adapters \/ Over \/ UNCHANGED vars PROVE Keeps
  BY <1>2 DEF Adapters, Over, vars, connVars, Transmit, Deliver, Acknowledge, Lose, RetryExceeded
<1>3. ASSUME NEW r \in Role, HcaFault(r) \/ Killed(r) PROVE Keeps
  BY <1>3 DEF connVars, HcaFault, Killed, Kill, Fail
<1>4. Keeps
  BY <1>1, <1>2, <1>3 DEF Next, Step
<1> QED
  BY <1>4 DEF RunBarriers!vars, Arrived

(* `sync` keeps its promise in every run of the benchmark (comm.rs:145):   *)
(* nobody is past a barrier the other side has not reached, whatever       *)
(* fails.                                                                  *)
THEOREM BarriersAreRendezvous == Spec => RendezvousSpec
<1>1. Init => RunBarriers!Init
  BY DEF Init, ConnInit, Role, Arrived, RunBarriers!Init
<1>2. IInv /\ [Next]_vars => [RunBarriers!Next]_(RunBarriers!vars)
  BY SyncIsRendezvous, RestIsStutter
<1> QED
  BY <1>1, <1>2, Invariant, PTL DEF Spec, RendezvousSpec, RunBarriers!Spec
================================================================================

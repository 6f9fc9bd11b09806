------------------------------ MODULE AccuracyInv ------------------------------
(***************************************************************************)
(* The inductive invariant behind the safety properties of Accuracy.tla:   *)
(* which message is in which slot of either side, and what the counters of *)
(* the report are sums of.  TLC checks IInv (MCAccuracy.tla);              *)
(* Accuracy_proof.tla proves it for every stream and every window.         *)
(***************************************************************************)
EXTENDS Accuracy

(* A side's place in the code and the barriers behind it go together, and  *)
(* what a side has in its hands belongs to its place.                      *)
Shape ==
  /\ \A r \in Role :
       /\ phase[r] \in {"sync", "wait"} => barriers[r] < 2
       /\ phase[r] \in {"poll", "refill", "check"} => barriers[r] = 1
       /\ phase[r] \in {"report", "returned"} => barriers[r] = 2
       /\ outcome[r] = "ok" => phase[r] = "returned"
       /\ outcome[r] = "running" => phase[r] # "returned"
  /\ phase["Client"] # "check" /\ phase["Server"] # "refill"
  /\ phase["Client"] = "post" => barriers["Client"] = 1
  /\ phase["Server"] = "post" => barriers["Server"] = 0
  /\ burst > 0 <=> phase["Client"] = "refill"
  /\ batch # <<>> <=> phase["Server"] = "check"

(* Each byte of a barrier is unread by the one side or counted by it.      *)
BarrierBytes ==
  \A r \in Role : inbox[r] + barriers[r] = Arrived[Peer(r)]

(* The client never has more sends outstanding, or still to be posted by   *)
(* the refill loop it is in, than slots, and leaves its loop only when all *)
(* of them have completed.                                                 *)
WindowHeld ==
  /\ barriers["Client"] = 0 => posted = 0
  /\ phase["Client"] = "post" => posted < Window("Client")
  /\ posted + burst <= completed + Window("Client")
  /\ barriers["Client"] = 2 \/ (barriers["Client"] = 1 /\ phase["Client"] \in {"sync", "wait"})
       => completed = Iterations

(* Each send is posted, on its way, or completed, once; over UC it is      *)
(* complete as soon as it is on its way.                                   *)
Outstanding == Len(sq) + sent + unacked + IF transport = "Rc" THEN Len(wire) ELSE 0

Sends == completed + Outstanding <= posted

(* A receive slot is in one place, once.                                   *)
ReceiveSlots ==
  /\ IsInjective(rq) /\ IsInjective(arrived) /\ IsInjective(batch)
  /\ Range(rq) \cap Range(arrived) = {}
  /\ Range(rq) \cap Range(batch) = {}
  /\ Range(arrived) \cap Range(batch) = {}
  /\ Len(rq) + Len(arrived) + Len(batch)
       = IF phase["Server"] = "post" THEN 0 ELSE Window("Server")

\* The number of the first message that is in neither place: handed to the
\* adapter but not transmitted, or over RC not received.
NotTransmitted == posted - Len(sq)
NotReceived == IF transport = "Rc" THEN NotTransmitted - Len(wire) ELSE NotTransmitted

(* A slot of the client holds its message until the send has completed,    *)
(* and the adapter goes through the slots in the order of the messages.    *)
SendSlots ==
  /\ \A n \in completed .. posted - 1 : slots["Client"][n % Window("Client")] = Payload(n)
  /\ \A i \in 1 .. Len(sq) : sq[i] = (NotTransmitted + i - 1) % Window("Client")
  /\ transport = "Rc" =>
       \A i \in 1 .. Len(wire) : wire[i].slot = (NotReceived + i - 1) % Window("Client")

\* The slots of what the server has received and not checked.
UncheckedSlots == Range(arrived) \cup Range(batch)

(* As long as nothing has gone wrong on the way but loss and reordering,   *)
(* every message that is on the wire or waits to be checked is one that    *)
(* was sent, whole, and there is no other with its number.                 *)
Genuine(m) == m = Payload(m.number) /\ m.number \in 0 .. NotReceived - 1 /\ m.number \notin seen

Faithful ==
  mishaps = 0 =>
    /\ \A n \in seen : n < NotReceived
    /\ \A k \in UncheckedSlots : Genuine(slots["Server"][k])
    /\ \A k, l \in UncheckedSlots :
         slots["Server"][k].number = slots["Server"][l].number => k = l
    /\ transport = "Uc" =>
         /\ \A i \in 1 .. Len(wire) : Genuine(wire[i].content)
         /\ \A i, j \in 1 .. Len(wire) :
              wire[i].content.number = wire[j].content.number => i = j
         /\ \A i \in 1 .. Len(wire), k \in UncheckedSlots :
              wire[i].content.number # slots["Server"][k].number

(* What the counters are sums of: each message received is waiting to be   *)
(* checked, a duplicate, unidentifiable, or the only one of its number;    *)
(* without mishaps it is the last, and good.                               *)
Sums ==
  LET attributed == Cardinality(seen)
  IN /\ tally.received
          = attributed + tally.duplicated + tally.unidentifiable + Len(batch)
     /\ tally.truncated <= tally.corrupted /\ tally.corrupted <= attributed
     /\ tally.correct + tally.corrupted = 2 * attributed

Blameless ==
  /\ transport = "Rc" => mishaps = 0
  /\ mishaps = 0 => /\ tally.duplicated = 0 /\ tally.unidentifiable = 0
                    /\ tally.corrupted = 0 /\ tally.truncated = 0

(* The report is the counters at the end of the server's loop, and the     *)
(* client has no other.                                                    *)
Reported ==
  /\ report # NoReport =>
       phase["Server"] = "returned" /\ report = [tally EXCEPT !.lost = Lost]
  /\ phase["Client"] = "returned" => report # NoReport

(* The inductive invariant, from which every safety property of the module *)
(* follows.                                                                *)
IInv ==
  /\ TypeOK /\ Shape /\ BarrierBytes /\ WindowHeld /\ Sends /\ ReceiveSlots
  /\ SendSlots /\ Faithful /\ Sums /\ Blameless /\ Reported
================================================================================

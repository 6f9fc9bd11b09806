-------------------------------- MODULE Service --------------------------------
(***************************************************************************)
(* What the benchmark server promises its clients (server.rs, plan.md:48): *)
(* it takes their connections one at a time, in the order they came and    *)
(* each at most once; a client has a result only for a run the server has  *)
(* set up a queue pair for, no verdict on a run is ever revised; and the   *)
(* server shows the run it is at, once, when it is through with it, and    *)
(* never one that failed for its client.                                   *)
(***************************************************************************)
EXTENDS Sequences, Functions

CONSTANTS Run, Nobody

VARIABLES
  open,      \* the server runs
  queue,     \* the runs whose connection has not been accepted
  current,   \* the run being served, or Nobody
  equipped,  \* the runs the server has set up a queue pair for
  over,      \* the runs whose connection the server has closed or reset
  verdict,   \* verdict[r]: how r ended for its client, "pending" till then
  shown      \* the runs whose row has been printed

vars == <<open, queue, current, equipped, over, verdict, shown>>

Init ==
  /\ open = TRUE
  /\ queue = <<>>
  /\ current = Nobody
  /\ equipped = {}
  /\ over = {}
  /\ verdict = [r \in Run |-> "pending"]
  /\ shown = <<>>

Arrive(r) ==
  /\ open
  /\ r \notin Range(queue) \cup {current} \cup over
  /\ queue' = Append(queue, r)
  /\ UNCHANGED <<open, current, equipped, over, verdict, shown>>

Serve ==
  /\ open /\ current = Nobody /\ queue # <<>>
  /\ current' = Head(queue)
  /\ queue' = Tail(queue)
  /\ UNCHANGED <<open, equipped, over, verdict, shown>>

Equip ==
  /\ current # Nobody
  /\ equipped' = equipped \cup {current}
  /\ UNCHANGED <<open, queue, current, over, verdict, shown>>

\* The server goes on, or ends and resets the connections it has not accepted.
StayOrQuit(left) ==
  \/ UNCHANGED <<open, queue>> /\ over' = over \cup left
  \/ open' = FALSE /\ queue' = <<>> /\ over' = over \cup left \cup Range(queue)

Leave ==
  /\ open /\ current # Nobody
  /\ current' = Nobody
  /\ StayOrQuit({current})
  /\ \/ UNCHANGED shown
     \/ /\ current \in equipped /\ verdict[current] \notin {"failed", "rejected"}
        /\ shown' = Append(shown, current)
  /\ UNCHANGED <<equipped, verdict>>

Quit ==
  /\ open /\ current = Nobody
  /\ StayOrQuit({})
  /\ UNCHANGED <<current, equipped, verdict, shown>>

Judge(r, v) ==
  /\ verdict[r] = "pending"
  /\ v = "ok" => r \in equipped
  /\ v \in {"failed", "rejected"} => r \notin Range(shown)
  /\ verdict' = [verdict EXCEPT ![r] = v]
  /\ UNCHANGED <<open, queue, current, equipped, over, shown>>

Next ==
  \/ \E r \in Run : Arrive(r) \/ \E v \in {"ok", "failed", "rejected", "killed"} : Judge(r, v)
  \/ Serve \/ Equip \/ Leave \/ Quit

Spec == Init /\ [][Next]_vars
================================================================================

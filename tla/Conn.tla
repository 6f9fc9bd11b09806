--------------------------------- MODULE Conn ---------------------------------
(***************************************************************************)
(* The out-of-band TCP connection of one benchmark run (comm.rs) as the    *)
(* barriers of the run use it, and how the run ends on either side.        *)
(*                                                                         *)
(* Inside a benchmark only `sync` talks over the connection, so a stream   *)
(* of its zero bytes is known by its length.  Each half of `sync` is a     *)
(* step of its own: the byte written, then the blocking read.              *)
(*                                                                         *)
(* A side that returns an error drops its queue pair at once (it is a      *)
(* local of the handler) and its Conn a little later; so does the kernel   *)
(* for a process that is killed.                                           *)
(***************************************************************************)
EXTENDS Naturals

VARIABLES
  phase,     \* phase[r]: where r is; "sync" before, "wait" inside a barrier
  barriers,  \* barriers[r]: calls of sync() that have returned to r
  inbox,     \* inbox[r]: zero bytes written by r's peer that r has not read
  outcome,   \* outcome[r]: how the run ended for r, "running" until then
  dropped    \* dropped[r]: r's Conn has been dropped

connVars == <<phase, barriers, inbox, outcome, dropped>>

Role == {"Client", "Server"}

Peer(r) == IF r = "Client" THEN "Server" ELSE "Client"

\* "ok": the report was returned.  The rest are errors, named by their cause:
\* a work request rejected by a full queue, a failed completion, a lost
\* connection, and the end of the process from outside.
Outcome == {"running", "ok", "queue_full", "wc_error", "disconnected", "killed"}

\* start: where the code of the two sides begins.
ConnInit(start) ==
  /\ phase = start
  /\ barriers = [r \in Role |-> 0]
  /\ inbox = [r \in Role |-> 0]
  /\ outcome = [r \in Role |-> "running"]
  /\ dropped = [r \in Role |-> FALSE]

Running(r) == outcome[r] = "running"

Failed(r) == outcome[r] \notin {"running", "ok"}

\* r no longer has its queue pair.
QpGone(r) == Failed(r) \/ dropped[r]

Goto(r, p) == phase' = [phase EXCEPT ![r] = p]

Fail(r, why) ==
  /\ outcome' = [outcome EXCEPT ![r] = why]
  /\ UNCHANGED <<phase, barriers, inbox, dropped>>

\* write_all of the zero byte.  Once the peer has closed, the byte may still
\* be accepted by the kernel or the write may fail.
SyncWrite(r) ==
  /\ Running(r) /\ phase[r] = "sync"
  /\ \/ /\ inbox' = [inbox EXCEPT ![Peer(r)] = @ + 1]
        /\ Goto(r, "wait")
        /\ UNCHANGED <<barriers, outcome, dropped>>
     \/ /\ dropped[Peer(r)]
        /\ Fail(r, "disconnected")

\* A variant for the mutation runs: sync does not wait for the peer's byte.
SyncReadNoWait(r, next) ==
  /\ Running(r) /\ phase[r] = "wait"
  /\ inbox' = [inbox EXCEPT ![r] = IF @ > 0 THEN @ - 1 ELSE 0]
  /\ barriers' = [barriers EXCEPT ![r] = @ + 1]
  /\ Goto(r, next)
  /\ outcome' = [outcome EXCEPT ![r] = IF next = "returned" THEN "ok" ELSE @]
  /\ UNCHANGED dropped

\* read_exact of one byte; `next` is the code after this call of sync.
SyncRead(r, next) ==
  /\ Running(r) /\ phase[r] = "wait"
  /\ inbox[r] > 0
  /\ inbox' = [inbox EXCEPT ![r] = @ - 1]
  /\ barriers' = [barriers EXCEPT ![r] = @ + 1]
  /\ Goto(r, next)
  /\ outcome' = [outcome EXCEPT ![r] = IF next = "returned" THEN "ok" ELSE @]
  /\ UNCHANGED dropped

\* read_exact fails: end of stream, or the peer closed with bytes it had not
\* read, which resets the connection and may discard bytes still in flight.
SyncBroken(r) ==
  /\ Running(r) /\ phase[r] = "wait"
  /\ dropped[Peer(r)]
  /\ inbox[r] = 0 \/ inbox[Peer(r)] > 0
  /\ Fail(r, "disconnected")

\* The Conn goes out of scope.  A server that finished its benchmark first
\* waits for the client's result row (server.rs:72), so it outlives the
\* client's run.
Drop(r) ==
  /\ ~Running(r) /\ ~dropped[r]
  /\ (r = "Server" /\ outcome[r] = "ok") => ~Running("Client")
  /\ dropped' = [dropped EXCEPT ![r] = TRUE]
  /\ UNCHANGED <<phase, barriers, inbox, outcome>>

\* The process dies at any moment before it has dropped the Conn.
Kill(r) ==
  /\ outcome[r] \in {"running", "ok"} /\ ~dropped[r]
  /\ Fail(r, "killed")

\* Barriers r has reached: the one it is waiting in counts.
Arrived == [r \in Role |-> barriers[r] + IF phase[r] = "wait" THEN 1 ELSE 0]
===============================================================================

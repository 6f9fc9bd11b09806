--------------------------------- MODULE Matrix ---------------------------------
(***************************************************************************)
(* What a client's command line stands for: a matrix of runs (cli.rs:103), *)
(* each made once and in order, a failing one no reason to leave out the   *)
(* rest (client.rs:61).  A run is a pair <<mode, size>>.                   *)
(***************************************************************************)
EXTENDS Naturals, Sequences

VARIABLES
  matrix,  \* the runs asked for, in their order
  lone,    \* it is a single run, whose failure is the client's
  due,     \* the runs still to be made
  failed,  \* the runs that were made and failed
  exit     \* "none", or how the client ended: "ok" or "error"

vars == <<matrix, lone, due, failed, exit>>

Init ==
  /\ due = matrix
  /\ failed = <<>>
  /\ exit = "none"

\* The next run is made.
Make ==
  /\ exit = "none" /\ due # <<>>
  /\ due' = Tail(due)
  /\ \/ UNCHANGED <<failed, exit>>
     \/ /\ failed' = Append(failed, Head(due))
        /\ exit' = IF lone THEN "error" ELSE exit

Finish ==
  /\ exit = "none" /\ due = <<>>
  /\ exit' = "ok"
  /\ UNCHANGED <<due, failed>>

\* Nothing can be run, or no run was asked for.
Refuse ==
  /\ exit = "none" /\ due = matrix
  /\ exit' = "error"
  /\ UNCHANGED <<due, failed>>

Next == (Make \/ Finish \/ Refuse) /\ UNCHANGED <<matrix, lone>>

Spec == Init /\ [][Next]_vars /\ <>(exit # "none")
==================================================================================

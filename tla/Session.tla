-------------------------------- MODULE Session --------------------------------
(***************************************************************************)
(* Whole runs of the benchmark: a server (server.rs) that serves one       *)
(* connection after the other, client processes (client.rs) that make the  *)
(* runs of their suites, each over a connection of its own, and the        *)
(* messages on these connections (comm.rs), handshake to result row.       *)
(*                                                                         *)
(* todo[p] is the rest of the code process p runs through for its          *)
(* connection: what it sends, what it waits for, and what it does in       *)
(* between.  The RDMA part of a run is the one step "traffic" here;        *)
(* Bandwidth.tla and Latency.tla are about what happens inside it.         *)
(***************************************************************************)
EXTENDS Naturals, Sequences, FiniteSets

CONSTANTS Suite,    \* Suite[c]: the runs client c makes, [transport, mode]
          Foreign,  \* the clients that are D3OS peers (comm.rs:1-3)
          Listen,   \* how the server may have been started: subset of BOOLEAN
          Faults    \* what may go wrong: subset of {"verbs", "kill", "accept"}

Client == DOMAIN Suite
Srv == "server"
Transports == {"Rc", "Uc", "Ud"}
Modes == {"Bandwidth", "Latency", "Accuracy", "RdmaWrite", "RdmaRead"}

ASSUME SuiteAssumption ==
  /\ \A c \in Client : Suite[c] \in Seq([transport : Transports, mode : Modes])
  /\ Foreign \subseteq Client /\ Srv \notin Client
  /\ Listen \subseteq BOOLEAN
  /\ Faults \subseteq {"verbs", "kill", "accept"}

\* A connection is named after the run it is for, an endpoint after the queue
\* pair it belongs to.
Conn == UNION {{c} \X (1 .. Len(Suite[c])) : c \in Client}
Side == {"Client", "Server"}
Endpoint == Conn \X Side
NoConn == <<>>
NoQp == <<>>
Built == <<"built">>   \* not connected yet

Req(conn) == Suite[conn[1]][conn[2]]

VARIABLES
  listen,   \* the server was started with --listen
  up,       \* the processes that run
  todo,     \* todo[p]: what p has still to do for its connection
  at,       \* at[c]: number of the run client c is at or has ended, 0 at first
  serving,  \* the connection the server serves, or NoConn
  backlog,  \* connections the server has not accepted yet
  mail,     \* mail[conn][s]: messages on their way to side s, not read
  closed,   \* closed[conn]: the sides that have closed the connection
  qp,       \* qp[conn][s]: NoQp, Built, or the endpoint it is connected to
  armed,    \* connections the server has posted receives, or a buffer, for
  result,   \* result[conn]: how the run ended for the client, "pending" till then
  lastMode, \* mode of the last row the server printed, or "none"
  printed   \* the result rows the server has printed, titled: with a header

connVars == <<serving, backlog, mail, closed>>
vars == <<listen, up, todo, at, connVars, qp, armed, result, lastMode, printed>>

\* A variant for the mutation runs: UD is taken for implemented.
SupportedUd(req) == ~(req.transport = "Uc" /\ req.mode = "RdmaRead")

\* bench::supported
Supported(req) ==
  /\ req.transport # "Ud"
  /\ ~(req.transport = "Uc" /\ req.mode = "RdmaRead")
-------------------------------------------------------------------------------
(***************************************************************************)
(* What the two sides do, in the order of their code.                      *)
(***************************************************************************)

Do(what) == << <<"do", what>> >>
Send(kind) == << <<"send", kind>> >>
Recv(kind) == << <<"recv", kind>> >>

\* A variant for the mutation runs: the peer's byte is left unread.
SyncUnread == Send("byte")

Sync == Send("byte") \o Recv("byte")

\* bench::run with Role::Client.  Of the RDMA modes this crate has only the
\* server's half; a D3OS client has the other.
ClientBench(c, mode) ==
  CASE mode = "Bandwidth" -> Sync \o Sync \o Sync \o Do("traffic") \o Sync
    [] mode = "Latency" -> Sync \o Sync \o Do("post") \o Sync \o Do("traffic") \o Sync
    [] mode = "Accuracy" -> Sync \o Do("traffic") \o Sync \o Recv("report")
    [] c \in Foreign /\ mode \in {"RdmaWrite", "RdmaRead"} ->
         Recv("buffer") \o Sync \o Do("traffic") \o Sync
    [] OTHER -> Do("refuse")

\* A variant for the mutation runs: the row is sent before the run is over.
ConcludeEarly == Send("row") \o Do("traffic") \o Do("return")

\* report_row, and run_once is over.
Conclude == Send("row") \o Do("return")

ClientSteps(c, mode) ==
  Do("build") \o Do("connect") \o Send("request") \o Recv("ack") \o Send("endpoint")
    \o ClientBench(c, mode) \o Conclude

\* Variants for the mutation runs: the receives are posted after the barrier,
\* or without one.
AnnouncedLate == Sync \o Do("post")
AnnouncedNever == Do("post")

\* The first receives, and the barrier that tells the client of them.
Announced == Do("post") \o Sync

\* bench::run with Role::Server.  For the RDMA modes "post" is the buffer that
\* the initiator reads or writes.
ServerBench(mode) ==
  CASE mode \in {"Bandwidth", "Latency"} -> Sync \o Sync \o Announced \o Do("traffic") \o Sync
    [] mode = "Accuracy" -> Announced \o Do("traffic") \o Sync \o Send("report")
    [] OTHER -> Do("post") \o Send("buffer") \o Sync \o Sync

\* handle_connection after it has read the request.
ServerSteps(req) ==
  IF Supported(req)
    THEN Do("build") \o Send("ok") \o Recv("endpoint") \o ServerBench(req.mode) \o Recv("row")
    ELSE Send("unsupported") \o Do("return")
-------------------------------------------------------------------------------
Init ==
  /\ listen \in Listen
  /\ up = Client \cup {Srv}
  /\ todo = [p \in Client \cup {Srv} |-> <<>>]
  /\ at = [c \in Client |-> 0]
  /\ serving = NoConn
  /\ backlog = <<>>
  /\ mail = [conn \in Conn |-> [s \in Side |-> <<>>]]
  /\ closed = [conn \in Conn |-> {}]
  /\ qp = [conn \in Conn |-> [s \in Side |-> NoQp]]
  /\ armed = {}
  /\ result = [conn \in Conn |-> "pending"]
  /\ lastMode = "none"
  /\ printed = <<>>

ConnOf(p) == IF p = Srv THEN serving ELSE <<p, at[p]>>
SideOf(p) == IF p = Srv THEN "Server" ELSE "Client"
Other(s) == IF s = "Client" THEN "Server" ELSE "Client"

At(p, verb, what) == p \in up /\ todo[p] # <<>> /\ Head(todo[p]) = <<verb, what>>

Advance(p) == todo' = [todo EXCEPT ![p] = Tail(@)]

Close(conns, s) ==
  closed' = [conn \in Conn |-> IF conn \in conns THEN closed[conn] \cup {s} ELSE closed[conn]]

\* The client's run_once returns; its Conn and queue pair are gone.
EndRun(c, how) ==
  /\ todo' = [todo EXCEPT ![c] = <<>>]
  /\ result' = [result EXCEPT ![ConnOf(c)] = how]
  /\ Close({ConnOf(c)}, "Client")
  /\ UNCHANGED <<up, at, serving, backlog, lastMode>>

\* The server process leaves `run`: connections it has not accepted are reset.
Exit(conns) ==
  /\ up' = up \ {Srv}
  /\ backlog' = <<>>
  /\ Close(conns \cup {backlog[i] : i \in DOMAIN backlog}, "Server")

\* A variant for the mutation runs: the server ignores --listen.
ListensNever == FALSE

Listens == listen

\* handle_connection returns, with an error or not; without --listen that was
\* the server's only connection.
EndServe ==
  /\ todo' = [todo EXCEPT ![Srv] = <<>>]
  /\ serving' = NoConn
  /\ IF Listens THEN Close({serving}, "Server") /\ UNCHANGED <<up, backlog>>
                ELSE Exit({serving})
  /\ UNCHANGED <<at, result>>

Abort(p) ==
  /\ IF p = Srv THEN EndServe /\ UNCHANGED lastMode ELSE EndRun(p, "failed")
  /\ UNCHANGED <<qp, armed, printed>>
-------------------------------------------------------------------------------
(***************************************************************************)
(* The connection.                                                         *)
(***************************************************************************)

\* What is written: only the contents the other side acts on are modelled.  A
\* latency run may have no sample and then no numbers to show.
Message(p, kind) ==
  LET conn == ConnOf(p)
  IN [kind : {kind},
      body : CASE kind = "request" -> {Req(conn)}
               [] kind \in {"ok", "endpoint"} -> {<<conn, SideOf(p)>>}
               [] kind = "row" /\ Req(conn).mode = "Latency" -> {"numbers", "nothing"}
               [] OTHER -> {"numbers"}]

\* send_msg, or the first half of sync.  Once the peer has closed, the kernel
\* may still accept the bytes or the write may fail.
Write(p, kind) ==
  LET conn == ConnOf(p)  peer == Other(SideOf(p))
  IN /\ At(p, "send", kind)
     /\ \/ /\ \E m \in Message(p, kind) : mail' = [mail EXCEPT ![conn][peer] = Append(@, m)]
           /\ Advance(p)
           /\ UNCHANGED <<up, at, serving, backlog, closed, qp, armed, result, lastMode, printed>>
        \/ peer \in closed[conn] /\ Abort(p) /\ UNCHANGED mail

\* recv_msg, or the second half of sync, gets its message.
Take(p, kinds) ==
  LET conn == ConnOf(p)  s == SideOf(p)
  IN /\ mail[conn][s] # <<>>
     /\ Head(mail[conn][s]).kind \in kinds
     /\ mail' = [mail EXCEPT ![conn][s] = Tail(@)]

Incoming(p) == Head(mail[ConnOf(p)][SideOf(p)])

\* A variant for the mutation runs: end of stream is not noticed.
NothingLeftMissed(conn, s) == FALSE

NothingLeft(conn, s) == mail[conn][s] = <<>>

\* End of stream; or the peer closed with bytes it had not read, which resets
\* the connection and may discard bytes still in flight.
ReadFails(p) ==
  LET conn == ConnOf(p)  s == SideOf(p)
  IN /\ p \in up /\ todo[p] # <<>> /\ Head(todo[p])[1] = "recv"
     /\ Other(s) \in closed[conn]
     /\ NothingLeft(conn, s) \/ mail[conn][Other(s)] # <<>>
     /\ Abort(p) /\ UNCHANGED mail

\* Messages only waited for: barrier bytes, the buffer's address, a report.
Read(p, kind) ==
  /\ At(p, "recv", kind)
  /\ Take(p, {kind})
  /\ Advance(p)
  /\ UNCHANGED <<up, at, serving, backlog, closed, qp, armed, result, lastMode, printed>>

\* The peer's endpoint arrives and PreparedQueuePair::handshake connects to it.
ReadEndpoint(p, what, kind) ==
  /\ At(p, "recv", what)
  /\ Take(p, {kind})
  /\ \/ /\ qp' = [qp EXCEPT ![ConnOf(p)][SideOf(p)] = Incoming(p).body]
        /\ Advance(p)
        /\ UNCHANGED <<up, at, serving, backlog, closed, armed, result, lastMode, printed>>
     \/ "verbs" \in Faults /\ Abort(p)
-------------------------------------------------------------------------------
(***************************************************************************)
(* The steps between the messages.                                         *)
(***************************************************************************)

\* create_cq and transport::build; UD has no implementation to build with.
Build(p) ==
  /\ At(p, "do", "build")
  /\ qp' = [qp EXCEPT ![ConnOf(p)][SideOf(p)] = Built]
  /\ Advance(p)
  /\ UNCHANGED <<up, at, connVars, armed, result, lastMode, printed>>

\* post_receive, or the registration of the buffer.
Post(p) ==
  /\ At(p, "do", "post")
  /\ armed' = IF p = Srv THEN armed \cup {serving} ELSE armed
  /\ Advance(p)
  /\ UNCHANGED <<up, at, connVars, qp, result, lastMode, printed>>

\* The benchmark's loop, over in bounded time whatever the peer does.
Traffic(p) ==
  /\ At(p, "do", "traffic")
  /\ Advance(p)
  /\ UNCHANGED <<up, at, connVars, qp, armed, result, lastMode, printed>>

\* p is at the head of its benchmark, where the buffers are allocated.
Allocating(p) ==
  /\ p \in up /\ todo[p] # <<>>
  /\ todo[p] = IF p = Srv THEN ServerBench(Req(serving).mode) \o Recv("row")
                          ELSE ClientBench(p, Req(ConnOf(p)).mode) \o Conclude

VerbsFail(p) ==
  /\ "verbs" \in Faults
  /\ \/ Allocating(p)
     \/ \E what \in {"build", "post", "traffic"} : At(p, "do", what)
  /\ Abort(p) /\ UNCHANGED mail
  /\ Abort(p) /\ UNCHANGED mail

\* A variant for the mutation runs: a failure ends the sweep.
MoreRunsUnlessFailed(c) ==
  at[c] < Len(Suite[c]) /\ (at[c] > 0 => result[<<c, at[c]>>] = "ok")

MoreRuns(c) == at[c] < Len(Suite[c])

\* The client process makes its next run, whatever became of the last.  What
\* is not supported ends here, before anything is built (client.rs:170).
StartRun(c) ==
  LET conn == <<c, at[c] + 1>>
  IN /\ c \in up /\ todo[c] = <<>>
     /\ MoreRuns(c)
     /\ at' = [at EXCEPT ![c] = @ + 1]
     /\ IF c \in Foreign \/ Supported(Req(conn))
          THEN /\ todo' = [todo EXCEPT ![c] = ClientSteps(c, Req(conn).mode)]
               /\ UNCHANGED result
          ELSE /\ result' = [result EXCEPT ![conn] = "rejected"]
               /\ UNCHANGED todo
     /\ UNCHANGED <<up, connVars, qp, armed, lastMode, printed>>

\* comm::connect: the kernel queues the connection until it is accepted.
Connect(c) ==
  /\ At(c, "do", "connect")
  /\ \/ /\ Srv \in up
        /\ backlog' = Append(backlog, ConnOf(c))
        /\ Advance(c)
        /\ UNCHANGED <<up, at, serving, mail, closed, qp, armed, result, lastMode, printed>>
     \/ Srv \notin up /\ Abort(c) /\ UNCHANGED mail

\* The server's answer is that it does not support the request.
ReadRejection(c) ==
  /\ At(c, "recv", "ack")
  /\ Take(c, {"unsupported"})
  /\ EndRun(c, "rejected")
  /\ UNCHANGED <<qp, armed, printed>>

Return(c) ==
  /\ At(c, "do", "return")
  /\ EndRun(c, "ok")
  /\ UNCHANGED <<mail, qp, armed, printed>>

\* rdma::run refuses to be the initiator (rdma.rs:32).
Refuse(c) ==
  /\ At(c, "do", "refuse")
  /\ Abort(c) /\ UNCHANGED mail

Accept ==
  /\ Srv \in up /\ serving = NoConn /\ backlog # <<>>
  /\ serving' = Head(backlog)
  /\ backlog' = Tail(backlog)
  /\ todo' = [todo EXCEPT ![Srv] = Recv("request")]
  /\ UNCHANGED <<up, at, mail, closed, qp, armed, result, lastMode, printed>>

\* accept_one failed; unlike an error of handle_connection, this one leaves
\* the loop (server.rs:18).
AcceptFails ==
  /\ "accept" \in Faults
  /\ Srv \in up /\ serving = NoConn /\ backlog # <<>>
  /\ Exit({})
  /\ UNCHANGED <<todo, at, serving, mail, qp, armed, result, lastMode, printed>>

ReadRequest ==
  /\ At(Srv, "recv", "request")
  /\ Take(Srv, {"request"})
  /\ todo' = [todo EXCEPT ![Srv] = ServerSteps(Incoming(Srv).body)]
  /\ UNCHANGED <<up, at, serving, backlog, closed, qp, armed, result, lastMode, printed>>

\* After HandshakeAck::Unsupported.
ReturnRejected ==
  /\ At(Srv, "do", "return")
  /\ EndServe
  /\ UNCHANGED <<mail, qp, armed, lastMode, printed>>

\* A variant for the mutation runs: only the first row gets a header.
NewTableOnce(mode) == lastMode = "none"

NewTable(mode) == lastMode # mode

\* The result row, below a header of its mode unless the last row was of that
\* mode already.
ReadRow ==
  LET mode == Req(serving).mode
      row == [mode |-> mode, conn |-> serving, titled |-> NewTable(mode)]
  IN /\ At(Srv, "recv", "row")
     /\ Take(Srv, {"row"})
     /\ IF Incoming(Srv).body = "nothing"
          THEN UNCHANGED <<lastMode, printed>>
          ELSE lastMode' = mode /\ printed' = Append(printed, row)
     /\ EndServe
     /\ UNCHANGED <<qp, armed>>

Exchange(p) ==
  \/ \E kind \in {"request", "ok", "unsupported", "endpoint", "byte", "buffer", "report", "row"} :
       Write(p, kind)
  \/ \E kind \in {"byte", "buffer", "report"} : Read(p, kind)
  \/ ReadFails(p)
  \/ Build(p) \/ Post(p) \/ Traffic(p) \/ VerbsFail(p)

ClientStep(c) ==
  \/ Exchange(c) \/ ReadEndpoint(c, "ack", "ok") \/ ReadRejection(c)
  \/ StartRun(c) \/ Connect(c) \/ Refuse(c) \/ Return(c)

ServerStep ==
  \/ Exchange(Srv) \/ ReadEndpoint(Srv, "endpoint", "endpoint")
  \/ Accept \/ ReadRequest \/ ReturnRejected \/ ReadRow

\* A process is killed; the kernel closes its connections.
Kill(p) ==
  /\ "kill" \in Faults /\ p \in up
  /\ todo' = [todo EXCEPT ![p] = <<>>]
  /\ IF p = Srv
       THEN /\ Exit({serving})
            /\ serving' = NoConn
            /\ UNCHANGED result
       ELSE /\ up' = up \ {p}
            /\ IF todo[p] = <<>> THEN UNCHANGED <<result, closed>>
                 ELSE /\ result' = [result EXCEPT ![ConnOf(p)] = "killed"]
                      /\ Close({ConnOf(p)}, "Client")
            /\ UNCHANGED <<serving, backlog>>
  /\ UNCHANGED <<at, mail, qp, armed, lastMode, printed>>

\* Every client has made its runs; the server waits in accept or has exited.
Finished(c) == c \notin up \/ (at[c] = Len(Suite[c]) /\ todo[c] = <<>>)

Over ==
  /\ \A c \in Client : Finished(c)
  /\ Srv \in up => serving = NoConn /\ backlog = <<>>
  /\ UNCHANGED vars

Step ==
  \/ \E c \in Client : ClientStep(c)
  \/ ServerStep
  \/ AcceptFails
  \/ \E p \in Client \cup {Srv} : Kill(p)
  \/ Over

Next == Step /\ UNCHANGED listen

\* The scheduler runs every process; faults owe nothing.
Fairness ==
  /\ WF_vars(ServerStep /\ UNCHANGED listen)
  /\ \A c \in Client : WF_vars(ClientStep(c) /\ UNCHANGED listen)

Spec == Init /\ [][Next]_vars

FairSpec == Spec /\ Fairness
-------------------------------------------------------------------------------
(***************************************************************************)
(* Properties.                                                             *)
(***************************************************************************)

(* Types; a process that is doing something for a connection has one, and  *)
(* a connection waits or is served, once.                                  *)
TypeOK ==
  /\ up \subseteq Client \cup {Srv}
  /\ at \in [Client -> Nat] /\ \A c \in Client : at[c] <= Len(Suite[c])
  /\ serving \in Conn \cup {NoConn}
  /\ \A i \in DOMAIN backlog : backlog[i] \in Conn
  /\ closed \in [Conn -> SUBSET Side]
  /\ qp \in [Conn -> [Side -> {NoQp, Built} \cup Endpoint]]
  /\ armed \subseteq Conn
  /\ result \in [Conn -> {"pending", "ok", "failed", "rejected", "killed"}]
  /\ lastMode \in Modes \cup {"none"}
  /\ todo[Srv] # <<>> => serving \in Conn
  /\ \A i \in DOMAIN backlog : backlog[i] # serving

(* The connection carries lines and single bytes without a length or a     *)
(* type: a side that reads always finds at the head of the stream what it  *)
(* is about to read, in every mode and after every failure of the other    *)
(* side (comm.rs:15: "An unmatched sync() deadlocks the run").             *)
Readable(what) == IF what = "ack" THEN {"ok", "unsupported"} ELSE {what}

StreamsStayFramed ==
  \A p \in up :
    todo[p] # <<>> /\ Head(todo[p])[1] = "recv" /\ mail[ConnOf(p)][SideOf(p)] # <<>>
      => Incoming(p).kind \in Readable(Head(todo[p])[2])

(* The barriers order what the verbs do not: a client starts its traffic   *)
(* only when both queue pairs of its own run are connected to each other   *)
(* and the server has posted its receives or registered its buffer         *)
(* (plan.md:198 and 216).                                                  *)
TrafficFindsPeerReady ==
  \A c \in Client :
    At(c, "do", "traffic") =>
      /\ \A s \in Side : qp[ConnOf(c)][s] = <<ConnOf(c), Other(s)>>
      /\ ConnOf(c) \in armed

(* transport::ud::build panics, which would take the server down with it:  *)
(* neither program of this crate gets there, whatever a client asks for.   *)
UdIsNeverBuilt ==
  \A conn \in Conn :
    Req(conn).transport = "Ud" =>
      /\ qp[conn]["Server"] = NoQp
      /\ conn[1] \notin Foreign => qp[conn]["Client"] = NoQp

(* Whoever reads the server's terminal finds each row below a header of    *)
(* its own mode, with no other header in between, although the mode that   *)
(* was printed last is remembered across connections, rejected requests,   *)
(* failed runs and runs without numbers.                                   *)
RowsUnderTheirHeader ==
  \A i \in DOMAIN printed :
    \E j \in 1 .. i :
      /\ printed[j].titled /\ printed[j].mode = printed[i].mode
      /\ \A k \in j + 1 .. i : ~printed[k].titled

(* The server keeps the promise of Service.tla, whatever the verbs do and  *)
(* whoever is killed: connections one at a time, in order and once, a      *)
(* result only for a run the server was set up for, and a row, once, only  *)
(* of a run that does not fail for its client.                             *)
Serving == INSTANCE Service
  WITH Run <- Conn, Nobody <- NoConn, open <- Srv \in up, queue <- backlog,
       current <- serving, equipped <- {conn \in Conn : qp[conn]["Server"] # NoQp},
       over <- {conn \in Conn : "Server" \in closed[conn]}, verdict <- result,
       shown <- [i \in DOMAIN printed |-> printed[i].conn]

ServiceSpec == Serving!Spec

(* A listening server is always back in accept after a connection, however *)
(* its client ended.                                                       *)
ServerReturns == serving # NoConn ~> serving = NoConn

(* A failing run does not abort the rest of the sweep (client.rs:62): every*)
(* client process that is not killed ends all its runs with a result.      *)
EveryClientFinishes ==
  <>(\A c \in Client :
       c \in up => at[c] = Len(Suite[c]) /\ \A k \in 1 .. at[c] : result[<<c, k>>] # "pending")

(* With nothing failing, a listening server serves every run that is       *)
(* supported, also of clients that come while it is busy, and rejects the  *)
(* others; only the RDMA modes have no initiator here.                     *)
EveryRunIsServed ==
  listen => <>(\A conn \in Conn :
       result[conn] = IF ~Supported(Req(conn)) THEN "rejected"
                      ELSE IF Req(conn).mode \in {"RdmaWrite", "RdmaRead"} /\ conn[1] \notin Foreign
                        THEN "failed" ELSE "ok")

(* plan.md:48: with --listen "the server loops, accepting and serving one  *)
(* client connection at a time, indefinitely, until killed".               *)
ListeningServerStays == listen /\ "kill" \notin Faults => Srv \in up
===============================================================================

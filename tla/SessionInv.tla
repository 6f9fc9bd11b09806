------------------------------ MODULE SessionInv ------------------------------
(***************************************************************************)
(* The inductive invariants of Session.tla.  Base, proved in               *)
(* Session_proof.tla, is behind the type invariant, the table the server   *)
(* prints and the queue pairs nobody builds: what may be left to do for a  *)
(* connection, which connections the server has heard of, and what a       *)
(* message says.  Promised, proved in Session_proof.tla, is behind the     *)
(* promise of Service.tla, and Framed, proved in Framing_proof.tla, behind *)
(* the framing of the streams.  TLC checks them (MCSession.tla).           *)
(***************************************************************************)
EXTENDS Session

Kinds == {"request", "ok", "unsupported", "endpoint", "byte", "buffer", "report", "row"}
Words == Kinds \cup {"ack", "build", "connect", "post", "traffic", "refuse", "return"}
Item == {"do", "send", "recv"} \X Words
ConnectItem == <<"do", "connect">>
BuildItem == <<"do", "build">>
AckItem == <<"recv", "ack">>
RowItem == <<"send", "row">>
ReturnItem == <<"do", "return">>

\* What a side does with a queue pair of its own.
QpItems == {BuildItem, <<"recv", "endpoint">>}

\* What the server does for a run only with a queue pair of its own.
SetUpItems == {<<"send", "ok">>, <<"recv", "row">>}

\* The messages written over a connection.
Letters(conn) ==
  UNION {[kind : {kind}, body : CASE kind = "request" -> {Req(conn)}
                                  [] kind \in {"ok", "endpoint"} -> Endpoint
                                  [] OTHER -> {"numbers", "nothing"}] : kind \in Kinds}

Rows == [mode : Modes, conn : Conn, titled : BOOLEAN]

\* Client c has not to connect (any more) for the run it is at.
Connected(c) == \A i \in DOMAIN todo[c] : todo[c][i] # ConnectItem

\* The server may know of connection conn: its client has been there.
Begun(conn) ==
  /\ conn[2] <= at[conn[1]]
  /\ conn[2] = at[conn[1]] => Connected(conn[1])

(* A process at work has a connection, and its run is one that this side   *)
(* has a benchmark for as soon as a queue pair comes into it.              *)
WorkTypes ==
  /\ up \subseteq Client \cup {Srv}
  /\ at \in [Client -> Nat] /\ \A c \in Client : at[c] <= Len(Suite[c])
  /\ todo \in [Client \cup {Srv} -> Seq(Item)]
  /\ serving \in Conn \cup {NoConn}
  /\ backlog \in Seq(Conn)
  /\ todo[Srv] # <<>> => serving \in Conn
  /\ \A c \in Client :
       todo[c] # <<>> => at[c] > 0 /\ (c \in Foreign \/ Supported(Req(<<c, at[c]>>)))
  /\ \A i \in DOMAIN todo[Srv] : todo[Srv][i] \in QpItems => Supported(Req(serving))

(* A connection is made once, and waits in one place or is served.         *)
HeardOnce ==
  /\ \A c \in Client : \A i, j \in DOMAIN todo[c] :
       todo[c][i] = ConnectItem /\ todo[c][j] = ConnectItem => i = j
  /\ \A i \in DOMAIN backlog : backlog[i] # serving /\ Begun(backlog[i])
  /\ \A i, j \in DOMAIN backlog : backlog[i] = backlog[j] => i = j
  /\ serving \in Conn => Begun(serving)

(* A request is the client's, an endpoint somebody's.                      *)
MailHeld ==
  /\ mail \in [Conn -> [Side -> Seq(UNION {Letters(conn) : conn \in Conn})]]
  /\ \A conn \in Conn : mail[conn] \in [Side -> Seq(Letters(conn))]

EndTypes ==
  /\ closed \in [Conn -> SUBSET Side]
  /\ result \in [Conn -> {"pending", "ok", "failed", "rejected", "killed"}]
  /\ armed \subseteq Conn

QpHeld ==
  /\ qp \in [Conn -> [Side -> {NoQp, Built} \cup Endpoint]]
  /\ UdIsNeverBuilt

(* The mode remembered is that of the last header, whatever happened since.*)
TableHeld ==
  /\ lastMode \in Modes \cup {"none"}
  /\ printed \in Seq(Rows)
  /\ lastMode # "none" =>
       \E j \in DOMAIN printed :
         /\ printed[j].titled /\ printed[j].mode = lastMode
         /\ \A k \in DOMAIN printed : k > j => ~printed[k].titled
  /\ RowsUnderTheirHeader

Base == WorkTypes /\ HeardOnce /\ MailHeld /\ EndTypes /\ QpHeld /\ TableHeld
-------------------------------------------------------------------------------
(***************************************************************************)
(* What the promise of Service.tla rests on: each side's steps come in an  *)
(* order, and a message is proof of what its sender has behind it.         *)
(***************************************************************************)

(* The acknowledgement comes before the end of a run, and behind the row   *)
(* nothing is left that could fail; the server builds before it says so.   *)
Ordered ==
  /\ \A c \in Client : \A i, j \in DOMAIN todo[c] :
       /\ todo[c][i] = AckItem /\ todo[c][j] = ReturnItem => i < j
       /\ todo[c][i] = RowItem /\ i < j => todo[c][j] = ReturnItem
  /\ \A i, j \in DOMAIN todo[Srv] :
       todo[Srv][i] = BuildItem /\ todo[Srv][j] \in SetUpItems => i < j

\* The server has set up a queue pair for conn.
Equipped(conn) == qp[conn]["Server"] # NoQp

(* Who is past the acknowledgement, or the build, has an equipped server.  *)
SetUpFirst ==
  /\ \A c \in Client :
       todo[c] # <<>> => (\E i \in DOMAIN todo[c] : todo[c][i] = AckItem) \/ Equipped(<<c, at[c]>>)
  /\ (\E i \in DOMAIN todo[Srv] : todo[Srv][i] \in SetUpItems) =>
       (\E i \in DOMAIN todo[Srv] : todo[Srv][i] = BuildItem) \/ Equipped(serving)
  /\ \A conn \in Conn : \A i \in DOMAIN mail[conn]["Client"] :
       mail[conn]["Client"][i].kind = "ok" => Equipped(conn)

\* The client of conn has sent its row.
Concluded(conn) ==
  /\ conn[2] <= at[conn[1]]
  /\ conn[2] = at[conn[1]] =>
       \A i \in DOMAIN todo[conn[1]] : todo[conn[1]][i] = ReturnItem
  /\ result[conn] \notin {"failed", "rejected"}

(* A row on its way or printed is one of a run that does not fail any more.*)
RowsAreFinal ==
  /\ \A conn \in Conn : \A i \in DOMAIN mail[conn]["Server"] :
       mail[conn]["Server"][i].kind = "row" => Concluded(conn)
  /\ \A i \in DOMAIN printed : Concluded(printed[i].conn)

(* A run has no result before its end.                                     *)
PendingTillEnd ==
  \A conn \in Conn :
    conn[2] > at[conn[1]] \/ (conn[2] = at[conn[1]] /\ todo[conn[1]] # <<>>)
      => result[conn] = "pending"

(* The server closes connections it has heard of.                          *)
ClosedAreBegun == \A conn \in Conn : "Server" \in closed[conn] => Begun(conn)

Promised == Ordered /\ SetUpFirst /\ RowsAreFinal /\ PendingTillEnd /\ ClosedAreBegun
-------------------------------------------------------------------------------
(***************************************************************************)
(* Why the two sides never lose step with each other: the rests of their   *)
(* code still fit, message by message.                                     *)
(***************************************************************************)

RequestItem == <<"recv", "request">>
EndpointItem == <<"recv", "endpoint">>
PostItem == <<"do", "post">>
TrafficItem == <<"do", "traffic">>
RefuseItem == <<"do", "refuse">>

\* What the two sides have still to do for conn; a connection the server has
\* not accepted, or not read the request of, has all of its code before it.
ClientTodo(conn) == IF conn[2] = at[conn[1]] THEN todo[conn[1]] ELSE <<>>

ServerTodo(conn) ==
  CASE serving = conn /\ todo[Srv] # Recv("request") -> todo[Srv]
    [] serving # conn /\ "Server" \in closed[conn] -> <<>>
    [] OTHER -> Recv("request") \o ServerSteps(Req(conn))

\* How many sends, or receives, are before place i.
Before(s, verb, i) == Cardinality({k \in 1 .. i - 1 : s[k][1] = verb})

(* What one side reads is what the other has written (q) or will write (a),*)
(* each message the one it waits for at that place (b).  Nothing is written*)
(* behind a refusal.                                                       *)
Agree(a, q, b) ==
  \A j \in DOMAIN b : b[j][1] = "recv" =>
    LET n == Before(b, "recv", j)
    IN /\ n < Len(q) => q[n + 1].kind \in Readable(b[j][2])
       /\ \A i \in DOMAIN a :
            /\ a[i][1] = "send" /\ (\A k \in 1 .. i : a[k] # RefuseItem)
            /\ Len(q) + Before(a, "send", i) = n
            => a[i][2] \in Readable(b[j][2])

\* How many messages side a may still write before it posts.
Unposted(a) ==
  Cardinality({k \in DOMAIN a : a[k][1] = "send" /\ \A i \in 1 .. k : a[i] # PostItem})

(* Side b reads more messages before its traffic than a writes before it   *)
(* has posted.                                                             *)
Gated(a, q, b) ==
  \A j \in DOMAIN b : b[j] = TrafficItem => Len(q) + Unposted(a) < Before(b, "recv", j)

\* Of connection conn, what its client (c) and its server (a) have left to do,
\* the messages on their way (m), its queue pairs (q), the armed connections (on).
InStep(conn, c, a, m, on) ==
  /\ Agree(c, m["Server"], a)
  /\ Agree(a, m["Client"], c)
  /\ conn \in on \/ Gated(a, m["Client"], c)

\* x comes before y wherever both are left; y is left where x is, behind it.
Precedes(s, x, y) == \A i, j \in DOMAIN s : s[i] = x /\ s[j] = y => i < j
Leads(s, x, y) == \A i \in DOMAIN s : s[i] = x => \E j \in DOMAIN s : i < j /\ s[j] = y

Has(s, x) == \E i \in DOMAIN s : s[i] = x

(* Each side takes the other's endpoint for what it is.                    *)
Signed(conn, m) ==
  \A s \in Side : \A i \in DOMAIN m[s] :
    m[s][i].kind \in {"ok", "endpoint"} => m[s][i].body = <<conn, Other(s)>>

(* Each side builds, then connects, then uses its queue pair.              *)
QpInOrder(conn, c, a, q, on) ==
  /\ Leads(c, BuildItem, AckItem) /\ Precedes(c, AckItem, TrafficItem)
  /\ c = <<>> \/ Has(c, AckItem) \/ q["Client"] = <<conn, "Server">>
  /\ Leads(a, BuildItem, EndpointItem) /\ Precedes(a, EndpointItem, PostItem)
  /\ Has(a, PostItem) => Has(a, EndpointItem) \/ q["Server"] = <<conn, "Client">>
  /\ conn \in on => ~Has(a, BuildItem) /\ ~Has(a, EndpointItem) /\ q["Server"] = <<conn, "Client">>

Fits(conn, c, a, m, q, on) == InStep(conn, c, a, m, on) /\ Signed(conn, m) /\ QpInOrder(conn, c, a, q, on)

(* A connection starts empty, and is open while it waits or is served; the *)
(* request is read first.                                                  *)
Opened ==
  /\ \A conn \in Conn : conn[2] > at[conn[1]] => \A s \in Side : mail[conn][s] = <<>>
  /\ serving \in Conn => "Server" \notin closed[serving]
  /\ \A i \in DOMAIN backlog : "Server" \notin closed[backlog[i]]
  /\ Has(todo[Srv], RequestItem) => todo[Srv] = Recv("request")

FitsAll ==
  \A conn \in Conn :
    Fits(conn, ClientTodo(conn), ServerTodo(conn), mail[conn], qp[conn], armed)

Framed == Opened /\ FitsAll

IInv == Base /\ Promised /\ Framed
===============================================================================

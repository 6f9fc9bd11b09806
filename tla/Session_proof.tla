----------------------------- MODULE Session_proof -----------------------------
(***************************************************************************)
(* Proofs about Session.tla: Base is inductive, and what it says of the    *)
(* table on the server's terminal and of queue pairs nobody can build;     *)
(* then that the sessions implement the abstract service.                  *)
(*                                                                         *)
(* What a process does next comes from the sequences ClientSteps and       *)
(* ServerSteps; the first lemmas say what is in them.  Base is a           *)
(* conjunction over few variables each, so that one action at a time and   *)
(* one conjunct at a time can be looked at.                                *)
(***************************************************************************)
EXTENDS SessionInv, SequenceTheorems, TLAPS

Process == Client \cup {Srv}

(***************************************************************************)
(* Connections, and the code of the two sides.                             *)
(***************************************************************************)

(* A connection is a client and the number of one of its runs.             *)
LEMMA ConnIs ==
  /\ \A c \in Client : \A k \in 1 .. Len(Suite[c]) : <<c, k>> \in Conn
  /\ \A conn \in Conn : /\ conn[1] \in Client /\ conn[2] \in Nat
                        /\ conn = <<conn[1], conn[2]>>
                        /\ Req(conn) \in [transport : Transports, mode : Modes]
  /\ NoConn \notin Conn
  /\ \A c \in Client : Len(Suite[c]) \in Nat
<1>1. \A c \in Client : Suite[c] \in Seq([transport : Transports, mode : Modes])
  BY SuiteAssumption
<1>2. \A c \in Client : Len(Suite[c]) \in Nat
  BY <1>1
<1>3. \A c \in Client : \A k \in 1 .. Len(Suite[c]) :
        Suite[c][k] \in [transport : Transports, mode : Modes]
  BY <1>1, ElementOfSeq
<1>4. \A conn \in Conn : \E c \in Client : \E k \in 1 .. Len(Suite[c]) : conn = <<c, k>>
  BY DEF Conn
<1>5. \A c \in Client : \A k \in 1 .. Len(Suite[c]) : <<c, k>> \in Conn
  BY DEF Conn
<1> QED
  BY <1>2, <1>3, <1>4, <1>5 DEF Req, NoConn

(* What is in one sequence or the other is in the two together.            *)
LEMMA ConcatIn ==
  ASSUME NEW S, NEW s \in Seq(S), NEW t \in Seq(S) PROVE s \o t \in Seq(S)
  BY ConcatProperties

(* Two steps, one after the other.                                         *)
LEMMA TwoSteps ==
  ASSUME NEW S, NEW a \in S, NEW b \in S
  PROVE  /\ <<a>> \o <<b>> \in Seq(S)
         /\ DOMAIN (<<a>> \o <<b>>) = 1 .. 2
         /\ (<<a>> \o <<b>>)[1] = a /\ (<<a>> \o <<b>>)[2] = b
<1>1. /\ <<a>> \in Seq(S) /\ Len(<<a>>) = 1 /\ <<a>>[1] = a
      /\ <<b>> \in Seq(S) /\ Len(<<b>>) = 1 /\ <<b>>[1] = b
  OBVIOUS
<1> DEFINE one == <<a>>
           other == <<b>>
<1> HIDE DEF one, other
<1>2. /\ one \o other \in Seq(S) /\ Len(one \o other) = 2
      /\ (one \o other)[1] = one[1] /\ (one \o other)[2] = other[1]
  <2>1. one \in Seq(S) /\ other \in Seq(S) /\ Len(one) = 1 /\ Len(other) = 1
    BY <1>1 DEF one, other
  <2>2. /\ one \o other \in Seq(S) /\ Len(one \o other) = Len(one) + Len(other)
        /\ \A i \in 1 .. Len(one) + Len(other) :
             (one \o other)[i] = IF i <= Len(one) THEN one[i] ELSE other[i - Len(one)]
    BY <2>1, ConcatProperties
  <2> QED
    BY <2>1, <2>2
<1>3. DOMAIN (one \o other) = 1 .. 2
  BY <1>2, LenProperties
<1> QED
  BY <1>1, <1>2, <1>3 DEF one, other

Quiet == Item \ {ConnectItem}

\* What a benchmark does, between the handshake and the row.
Inner == Quiet \ {BuildItem, RowItem, ReturnItem}

(* Single steps.                                                           *)
LEMMA StepTypes ==
  ASSUME NEW what \in Words
  PROVE  /\ Do(what) \in Seq(Item) /\ Send(what) \in Seq(Item) /\ Recv(what) \in Seq(Item)
         /\ Send(what) \in Seq(Quiet) /\ Recv(what) \in Seq(Quiet)
         /\ what # "connect" => Do(what) \in Seq(Quiet)
         /\ Recv(what) \in Seq(Inner)
         /\ what # "row" => Send(what) \in Seq(Inner)
         /\ what \notin {"build", "connect", "return"} => Do(what) \in Seq(Inner)
<1>1. /\ <<"do", what>> \in Item /\ <<"send", what>> \in Item /\ <<"recv", what>> \in Item
  BY DEF Item
<1>2. <<"send", what>> # ConnectItem /\ <<"recv", what>> # ConnectItem
  BY DEF ConnectItem
<1>3. what # "connect" => <<"do", what>> # ConnectItem
  BY DEF ConnectItem
<1>4. /\ <<"recv", what>> \notin {BuildItem, RowItem, ReturnItem}
      /\ what # "row" => <<"send", what>> \notin {BuildItem, RowItem, ReturnItem}
      /\ what \notin {"build", "return"} => <<"do", what>> \notin {BuildItem, RowItem, ReturnItem}
  BY DEF BuildItem, RowItem, ReturnItem
<1> QED
  BY <1>1, <1>2, <1>3, <1>4 DEF Do, Send, Recv, Quiet, Inner

(* No benchmark makes a connection or a queue pair, or ends the run.       *)
LEMMA BenchTypes ==
  ASSUME NEW mode \in Modes
  PROVE  /\ \A c \in Client : ClientBench(c, mode) \in Seq(Inner)
         /\ ServerBench(mode) \in Seq(Inner)
<1>1. Sync \in Seq(Inner)
  <2>1. Send("byte") \in Seq(Inner) /\ Recv("byte") \in Seq(Inner)
    BY StepTypes DEF Words, Kinds
  <2> QED
    BY <2>1, ConcatIn DEF Sync
<1>2. /\ Do("traffic") \in Seq(Inner) /\ Do("post") \in Seq(Inner) /\ Do("refuse") \in Seq(Inner)
      /\ Recv("report") \in Seq(Inner) /\ Send("report") \in Seq(Inner)
      /\ Recv("buffer") \in Seq(Inner) /\ Send("buffer") \in Seq(Inner)
  BY StepTypes DEF Words, Kinds
<1>3. Announced \in Seq(Inner)
  BY <1>1, <1>2, ConcatIn DEF Announced
<1> DEFINE bw == Sync \o Sync \o Sync \o Do("traffic") \o Sync
           lat == Sync \o Sync \o Do("post") \o Sync \o Do("traffic") \o Sync
           acc == Sync \o Do("traffic") \o Sync \o Recv("report")
           rdma == Recv("buffer") \o Sync \o Do("traffic") \o Sync
<1>4. bw \in Seq(Inner)
  BY <1>1, <1>2, ConcatIn
<1>5. lat \in Seq(Inner)
  BY <1>1, <1>2, ConcatIn
<1>6. acc \in Seq(Inner)
  BY <1>1, <1>2, ConcatIn
<1>7. rdma \in Seq(Inner)
  BY <1>1, <1>2, ConcatIn
<1> HIDE DEF bw, lat, acc, rdma
<1>8. ASSUME NEW c \in Client PROVE ClientBench(c, mode) \in Seq(Inner)
  <2>1. ClientBench(c, mode) \in {bw, lat, acc, rdma, Do("refuse")}
    BY DEF ClientBench, Modes, bw, lat, acc, rdma
  <2> QED
    BY <2>1, <1>2, <1>4, <1>5, <1>6, <1>7
<1> DEFINE win == Sync \o Sync \o Announced \o Do("traffic") \o Sync
           count == Announced \o Do("traffic") \o Sync \o Send("report")
           serve == Do("post") \o Send("buffer") \o Sync \o Sync
<1>9. win \in Seq(Inner)
  BY <1>1, <1>2, <1>3, ConcatIn
<1>10. count \in Seq(Inner)
  BY <1>1, <1>2, <1>3, ConcatIn
<1>11. serve \in Seq(Inner)
  BY <1>1, <1>2, <1>3, ConcatIn
<1> HIDE DEF win, count, serve
<1>12. ServerBench(mode) \in {win, count, serve}
  BY DEF ServerBench, Modes, win, count, serve
<1> QED
  BY <1>8, <1>9, <1>10, <1>11, <1>12

\* At most one connect.
Once(s) == \A i, j \in DOMAIN s : s[i] = ConnectItem /\ s[j] = ConnectItem => i = j

(* Nor does what follows it in the client's code.                          *)
LEMMA OnceConcat ==
  ASSUME NEW s \in Seq(Item), Once(s), NEW t \in Seq(Quiet)
  PROVE  s \o t \in Seq(Item) /\ Once(s \o t)
<1>1. t \in Seq(Item)
  BY SeqMonotonic DEF Quiet
<1>2. /\ Len(s) \in Nat /\ Len(t) \in Nat /\ DOMAIN s = 1 .. Len(s)
      /\ \A i \in 1 .. Len(t) : t[i] # ConnectItem
  BY LenProperties, ElementOfSeq DEF Quiet
<1>3. /\ s \o t \in Seq(Item) /\ DOMAIN (s \o t) = 1 .. Len(s) + Len(t)
      /\ \A i \in 1 .. Len(s) + Len(t) :
           (s \o t)[i] = IF i <= Len(s) THEN s[i] ELSE t[i - Len(s)]
  BY <1>1, ConcatProperties, LenProperties
<1>4. \A i \in 1 .. Len(s) + Len(t) : (s \o t)[i] = ConnectItem => i \in 1 .. Len(s) /\ s[i] = ConnectItem
  <2> SUFFICES ASSUME NEW i \in 1 .. Len(s) + Len(t), (s \o t)[i] = ConnectItem
               PROVE  i \in 1 .. Len(s) /\ s[i] = ConnectItem
    OBVIOUS
  <2>1. CASE i > Len(s)
    <3>1. i - Len(s) \in 1 .. Len(t)
      BY <1>2, <2>1
    <3> QED
      BY <1>2, <1>3, <2>1, <3>1
  <2>2. CASE i <= Len(s)
    BY <1>2, <1>3, <2>2
  <2> QED
    BY <1>2, <2>1, <2>2
<1> QED
  BY <1>2, <1>3, <1>4 DEF Once

(* A client connects once for a run.                                       *)
LEMMA ClientStepsTypes ==
  ASSUME NEW c \in Client, NEW mode \in Modes
  PROVE  ClientSteps(c, mode) \in Seq(Item) /\ Once(ClientSteps(c, mode))
<1> DEFINE start == Do("build") \o Do("connect")
           asked == start \o Send("request")
           heard == asked \o Recv("ack")
           told == heard \o Send("endpoint")
           ran == told \o ClientBench(c, mode)
<1>1. start \in Seq(Item) /\ Once(start)
  <2>1. <<"do", "build">> \in Item /\ <<"do", "connect">> \in Item
    BY DEF Item, Words
  <2>2. /\ start \in Seq(Item) /\ DOMAIN start = 1 .. 2
        /\ start[1] = <<"do", "build">> /\ start[2] = <<"do", "connect">>
    BY <2>1, TwoSteps DEF Do
  <2>3. start[1] # ConnectItem
    BY <2>2 DEF ConnectItem
  <2> QED
    BY <2>2, <2>3 DEF Once
<1> HIDE DEF start
<1>2. asked \in Seq(Item) /\ Once(asked)
  BY <1>1, StepTypes, OnceConcat DEF Words, Kinds
<1> HIDE DEF asked
<1>3. heard \in Seq(Item) /\ Once(heard)
  BY <1>2, StepTypes, OnceConcat DEF Words, Kinds
<1> HIDE DEF heard
<1>4. told \in Seq(Item) /\ Once(told)
  BY <1>3, StepTypes, OnceConcat DEF Words, Kinds
<1> HIDE DEF told
<1>5. ran \in Seq(Item) /\ Once(ran)
  <2>1. ClientBench(c, mode) \in Seq(Quiet)
    BY BenchTypes, SeqMonotonic DEF Inner
  <2> QED
    BY <1>4, <2>1, OnceConcat
<1>6. Conclude \in Seq(Quiet)
  <2>1. Send("row") \in Seq(Quiet) /\ Do("return") \in Seq(Quiet)
    BY StepTypes DEF Words, Kinds
  <2> QED
    BY <2>1, ConcatIn DEF Conclude
<1> HIDE DEF ran
<1>7. ran \o Conclude \in Seq(Item) /\ Once(ran \o Conclude)
  BY <1>5, <1>6, OnceConcat
<1>8. ClientSteps(c, mode) = ran \o Conclude
  BY DEF ClientSteps, ran, told, heard, asked, start
<1> QED
  BY <1>7, <1>8

(* The server has a queue pair only for what it supports.                  *)
LEMMA ServerStepsTypes ==
  ASSUME NEW req \in [transport : Transports, mode : Modes]
  PROVE  /\ ServerSteps(req) \in Seq(Item)
         /\ \A i \in DOMAIN ServerSteps(req) : ServerSteps(req)[i] \in QpItems => Supported(req)
<1>1. CASE Supported(req)
  <2>1. ServerBench(req.mode) \in Seq(Item)
    BY BenchTypes, SeqMonotonic DEF Quiet, Inner
  <2>2. /\ Do("build") \in Seq(Item) /\ Send("ok") \in Seq(Item)
        /\ Recv("endpoint") \in Seq(Item) /\ Recv("row") \in Seq(Item)
    BY StepTypes DEF Words, Kinds
  <2>3. Do("build") \o Send("ok") \o Recv("endpoint") \o ServerBench(req.mode) \o Recv("row")
          \in Seq(Item)
    BY <2>1, <2>2, ConcatIn
  <2> QED
    BY <1>1, <2>3 DEF ServerSteps
<1>2. CASE ~Supported(req)
  <2> DEFINE steps == Send("unsupported") \o Do("return")
  <2>1. ServerSteps(req) = steps
    BY <1>2 DEF ServerSteps
  <2>2. <<"send", "unsupported">> \in Item /\ <<"do", "return">> \in Item
    BY DEF Item, Words, Kinds
  <2>3. /\ steps \in Seq(Item) /\ DOMAIN steps = 1 .. 2
        /\ steps[1] = <<"send", "unsupported">> /\ steps[2] = <<"do", "return">>
    BY <2>2, TwoSteps DEF Send, Do
  <2> HIDE DEF steps
  <2>4. \A i \in 1 .. 2 : steps[i] \notin QpItems
    BY <2>3 DEF QpItems, BuildItem
  <2> QED
    BY <2>1, <2>3, <2>4
<1> QED
  BY <1>1, <1>2
--------------------------------------------------------------------------------
(***************************************************************************)
(* What is left to do, and the connections the server has heard of.        *)
(***************************************************************************)

Work == WorkTypes /\ HeardOnce

(* The steps left, after the first of them.                                *)
LEMMA AdvanceIs ==
  ASSUME WorkTypes, NEW p \in Process, todo[p] # <<>>, Advance(p)
  PROVE  /\ todo' \in [Process -> Seq(Item)]
         /\ \A q \in Process : q # p => todo'[q] = todo[q]
         /\ \A i \in DOMAIN todo'[p] :
              i \in Nat \ {0} /\ i + 1 \in DOMAIN todo[p] /\ todo'[p][i] = todo[p][i + 1]
<1>1. todo \in [Process -> Seq(Item)] /\ todo[p] \in Seq(Item)
  BY DEF WorkTypes, Process
<1> DEFINE s == todo[p]
<1>2. s \in Seq(Item) /\ s # <<>>
  BY <1>1
<1>3. /\ Len(s) \in Nat /\ DOMAIN s = 1 .. Len(s)
      /\ Tail(s) \in Seq(Item) /\ Len(Tail(s)) = Len(s) - 1
      /\ \A i \in 1 .. Len(Tail(s)) : Tail(s)[i] = s[i + 1]
  BY <1>2, HeadTailProperties, LenProperties
<1>4. DOMAIN Tail(s) = 1 .. Len(s) - 1
  BY <1>3, LenProperties
<1>5. /\ todo' \in [Process -> Seq(Item)] /\ todo'[p] = Tail(s)
      /\ \A q \in Process : q # p => todo'[q] = todo[q]
  BY <1>1, <1>3 DEF Advance
<1> QED
  BY <1>3, <1>4, <1>5

(* A step of a process that only the step itself is behind of.             *)
LEMMA AdvanceKeeps ==
  ASSUME Work, NEW p \in Process, todo[p] # <<>>, Advance(p),
         UNCHANGED <<up, at, serving, backlog>>
  PROVE  Work'
<1>1. /\ todo' \in [Process -> Seq(Item)]
      /\ \A q \in Process : q # p => todo'[q] = todo[q]
      /\ \A i \in DOMAIN todo'[p] :
           i \in Nat \ {0} /\ i + 1 \in DOMAIN todo[p] /\ todo'[p][i] = todo[p][i + 1]
  BY AdvanceIs DEF Work
<1>2. up' = up /\ at' = at /\ serving' = serving /\ backlog' = backlog
  OBVIOUS
<1>3. Srv \in Process /\ \A c \in Client : c \in Process
  BY DEF Process
<1>4. \A q \in Process : todo'[q] # <<>> => todo[q] # <<>>
  BY <1>1
<1>5. WorkTypes'
  <2>1. \A i \in DOMAIN todo'[Srv] : todo'[Srv][i] \in QpItems => Supported(Req(serving))
    BY <1>1, <1>3 DEF Work, WorkTypes
  <2> QED
    BY <1>1, <1>2, <1>3, <1>4, <2>1 DEF Work, WorkTypes, Process, Supported, Req
<1>6. \A c \in Client : Connected(c) => Connected(c)'
  BY <1>1, <1>3 DEF Connected
<1>7. \A conn : conn[1] \in Client /\ Begun(conn) => Begun(conn)'
  BY <1>2, <1>6 DEF Begun
<1>8. \A c \in Client : \A i, j \in DOMAIN todo'[c] :
        todo'[c][i] = ConnectItem /\ todo'[c][j] = ConnectItem => i = j
  <2> SUFFICES ASSUME NEW c \in Client, NEW i \in DOMAIN todo'[c], NEW j \in DOMAIN todo'[c],
                      todo'[c][i] = ConnectItem, todo'[c][j] = ConnectItem
               PROVE  i = j
    OBVIOUS
  <2>1. CASE c # p
    BY <1>1, <1>3, <2>1 DEF Work, HeardOnce
  <2>2. CASE c = p
    <3>1. i + 1 = j + 1
      BY <1>1, <2>2 DEF Work, HeardOnce
    <3> QED
      BY <1>1, <2>2, <3>1
  <2> QED
    BY <2>1, <2>2
<1>9. HeardOnce'
  <2>1. \A i \in DOMAIN backlog : backlog[i] \in Conn
    BY ElementOfSeq, LenProperties DEF Work, WorkTypes
  <2> QED
    BY <1>2, <1>7, <1>8, <2>1, ConnIs DEF Work, HeardOnce
<1> QED
  BY <1>5, <1>9 DEF Work

(* A process that has done with its connection, or drops all of them.      *)
LEMMA StopKeeps ==
  ASSUME Work, NEW p \in Process, todo' \in {todo, [todo EXCEPT ![p] = <<>>]},
         up' \subseteq up, at' = at, backlog' \in {backlog, <<>>},
         serving' \in {serving, NoConn}, serving' # serving => todo'[Srv] = <<>>
  PROVE  Work'
<1>1. todo \in [Process -> Seq(Item)]
  BY DEF Work, WorkTypes, Process
<1>2. /\ todo' \in [Process -> Seq(Item)]
      /\ \A q \in Process : todo'[q] = todo[q] \/ todo'[q] = <<>>
  <2>1. <<>> \in Seq(Item)
    BY EmptySeq
  <2>2. CASE todo' = todo
    BY <1>1, <2>2
  <2>3. CASE todo' = [todo EXCEPT ![p] = <<>>]
    BY <1>1, <2>1, <2>3
  <2> QED
    BY <2>2, <2>3
<1>3. Srv \in Process /\ \A c \in Client : c \in Process
  BY DEF Process
<1>4. DOMAIN <<>> = {}
  OBVIOUS
<1>5. backlog' \in Seq(Conn) /\ (backlog' = backlog \/ DOMAIN backlog' = {})
  <2>1. <<>> \in Seq(Conn)
    BY EmptySeq
  <2> QED
    BY <1>4, <2>1 DEF Work, WorkTypes
<1>6. WorkTypes'
  <2>1. /\ up' \subseteq Client \cup {Srv} /\ at' = at /\ at \in [Client -> Nat]
        /\ \A c \in Client : at[c] <= Len(Suite[c])
        /\ serving' \in Conn \cup {NoConn}
    BY DEF Work, WorkTypes
  <2>2. todo'[Srv] # <<>> => serving' \in Conn
    BY <1>2, <1>3 DEF Work, WorkTypes
  <2>3. \A c \in Client :
          todo'[c] # <<>> => at[c] > 0 /\ (c \in Foreign \/ Supported(Req(<<c, at[c]>>)))
    BY <1>2, <1>3 DEF Work, WorkTypes
  <2>4. ASSUME NEW i \in DOMAIN todo'[Srv], todo'[Srv][i] \in QpItems
        PROVE  Supported(Req(serving'))
    <3>1. todo'[Srv] = todo[Srv] /\ todo'[Srv] # <<>>
      BY <1>2, <1>3, <1>4, <2>4
    <3> QED
      BY <2>4, <3>1 DEF Work, WorkTypes
  <2> QED
    BY <1>2, <1>5, <2>1, <2>2, <2>3, <2>4 DEF WorkTypes, Process, Supported, Req
<1>7. \A c \in Client : Connected(c) => Connected(c)'
  BY <1>2, <1>3, <1>4 DEF Connected
<1>8. \A conn : conn[1] \in Client /\ Begun(conn) => Begun(conn)'
  BY <1>7 DEF Begun
<1>9. \A i \in DOMAIN backlog : backlog[i] \in Conn
  BY ElementOfSeq, LenProperties DEF Work, WorkTypes
<1>10. HeardOnce'
  <2>1. \A c \in Client : \A i, j \in DOMAIN todo'[c] :
          todo'[c][i] = ConnectItem /\ todo'[c][j] = ConnectItem => i = j
    BY <1>2, <1>3, <1>4 DEF Work, HeardOnce
  <2>2. (\A i \in DOMAIN backlog : backlog[i] # serving /\ Begun(backlog[i]))'
    BY <1>5, <1>8, <1>9, ConnIs DEF Work, HeardOnce
  <2>3. \A i, j \in DOMAIN backlog' : backlog'[i] = backlog'[j] => i = j
    BY <1>5 DEF Work, HeardOnce
  <2>4. serving' \in Conn => Begun(serving)'
    BY <1>8, ConnIs DEF Work, HeardOnce
  <2> QED
    BY <2>1, <2>2, <2>3, <2>4 DEF HeardOnce
<1> QED
  BY <1>6, <1>10 DEF Work

(* A message says what its kind and its connection allow.                  *)
LEMMA HeadLetter ==
  ASSUME MailHeld, NEW conn \in Conn, NEW s \in Side, mail[conn][s] # <<>>
  PROVE  LET m == Head(mail[conn][s])
         IN /\ m.kind = "request" => m.body = Req(conn)
            /\ m.kind \in {"ok", "endpoint"} => m.body \in Endpoint
<1> DEFINE m == Head(mail[conn][s])
<1>1. mail[conn][s] \in Seq(Letters(conn))
  BY DEF MailHeld
<1>2. m \in Letters(conn)
  BY <1>1, HeadTailProperties
<1>3. PICK kind \in Kinds :
        m \in [kind : {kind}, body : CASE kind = "request" -> {Req(conn)}
                                       [] kind \in {"ok", "endpoint"} -> Endpoint
                                       [] OTHER -> {"numbers", "nothing"}]
  BY <1>2 DEF Letters
<1>4. m.kind = kind
  BY <1>3
<1>5. m.body \in CASE kind = "request" -> {Req(conn)}
                   [] kind \in {"ok", "endpoint"} -> Endpoint
                   [] OTHER -> {"numbers", "nothing"}
  BY <1>3
<1> QED
  BY <1>4, <1>5

(* The next run of a client is one the server has not heard of.            *)
LEMMA StartRunKeeps == ASSUME Work, NEW c \in Client, StartRun(c) PROVE Work'
<1>1. /\ todo[c] = <<>> /\ at[c] < Len(Suite[c]) /\ at' = [at EXCEPT ![c] = @ + 1]
      /\ up' = up /\ serving' = serving /\ backlog' = backlog
  BY DEF StartRun, MoreRuns, connVars
<1>2. /\ at \in [Client -> Nat] /\ todo \in [Process -> Seq(Item)]
      /\ c \in Process /\ Srv \in Process /\ Srv # c /\ \A d \in Client : d \in Process /\ d # Srv
  BY SuiteAssumption DEF Work, WorkTypes, Process
<1>3. /\ at' \in [Client -> Nat] /\ at'[c] = at[c] + 1
      /\ \A d \in Client : d # c => at'[d] = at[d]
  BY <1>1, <1>2
<1> DEFINE conn == <<c, at[c] + 1>>
<1>4. at[c] \in Nat /\ at[c] + 1 \in 1 .. Len(Suite[c]) /\ conn \in Conn
  BY <1>1, <1>2, ConnIs
<1>5. Req(conn).mode \in Modes
  BY <1>4, ConnIs
<1>6. /\ todo' \in [Process -> Seq(Item)] /\ Once(todo'[c])
      /\ \A q \in Process : q # c => todo'[q] = todo[q]
      /\ todo'[c] # <<>> => c \in Foreign \/ Supported(Req(conn))
  <2>1. CASE c \in Foreign \/ Supported(Req(conn))
    <3>1. todo' = [todo EXCEPT ![c] = ClientSteps(c, Req(conn).mode)]
      BY <2>1 DEF StartRun
    <3> QED
      BY <1>2, <1>5, <2>1, <3>1, ClientStepsTypes
  <2>2. CASE ~(c \in Foreign \/ Supported(Req(conn)))
    <3>1. todo' = todo
      BY <2>2 DEF StartRun
    <3> QED
      BY <1>1, <1>2, <3>1 DEF Once
  <2> QED
    BY <2>1, <2>2
<1>7. WorkTypes'
  <2>1. todo'[Srv] = todo[Srv]
    BY <1>2, <1>6
  <2>2. \A d \in Client : at'[d] <= Len(Suite[d])
    <3>1. at[c] + 1 <= Len(Suite[c])
      BY <1>4, ConnIs
    <3> QED
      BY <1>3, <3>1 DEF Work, WorkTypes
  <2>3. ASSUME NEW d \in Client, todo'[d] # <<>>
        PROVE  at'[d] > 0 /\ (d \in Foreign \/ Supported(Req(<<d, at'[d]>>)))
    <3>1. CASE d = c
      <4>1. at'[d] = at[c] + 1 /\ at[c] + 1 > 0
        BY <1>3, <1>4, <3>1
      <4>2. c \in Foreign \/ Supported(Req(conn))
        BY <1>6, <2>3, <3>1
      <4> QED
        BY <3>1, <4>1, <4>2
    <3>2. CASE d # c
      BY <1>2, <1>3, <1>6, <2>3, <3>2 DEF Work, WorkTypes
    <3> QED
      BY <3>1, <3>2
  <2> QED
    BY <1>1, <1>3, <1>6, <2>1, <2>2, <2>3 DEF Work, WorkTypes, Process, Supported, Req
<1>8. \A other \in Conn : Begun(other) => Begun(other)'
  <2> SUFFICES ASSUME NEW other \in Conn, Begun(other) PROVE Begun(other)'
    OBVIOUS
  <2>1. other[1] \in Client /\ other[2] \in Nat
    BY ConnIs
  <2>2. CASE other[1] = c
    <3>1. other[2] < at'[c]
      BY <1>3, <1>4, <2>1, <2>2 DEF Begun
    <3>2. at'[c] \in Nat /\ other[2] \in Nat
      BY <1>3, <2>1
    <3>3. other[2] <= at'[c] /\ other[2] # at'[c]
      BY <3>1, <3>2
    <3> QED
      BY <2>2, <3>3 DEF Begun
  <2>3. CASE other[1] # c
    BY <1>2, <1>3, <1>6, <2>1, <2>3 DEF Begun, Connected
  <2> QED
    BY <2>2, <2>3
<1>9. HeardOnce'
  <2>1. \A i \in DOMAIN backlog : backlog[i] \in Conn
    BY ElementOfSeq, LenProperties DEF Work, WorkTypes
  <2>2. \A d \in Client : Once(todo'[d])
    BY <1>2, <1>6 DEF Work, HeardOnce, Once
  <2> QED
    BY <1>1, <1>8, <2>1, <2>2 DEF Work, HeardOnce, Once
<1> QED
  BY <1>7, <1>9 DEF Work

(* A connection comes into the backlog once.                               *)
LEMMA ConnectKeeps ==
  ASSUME Work, NEW c \in Client, At(c, "do", "connect"), Advance(c),
         backlog' = Append(backlog, ConnOf(c)), UNCHANGED <<up, at, serving>>
  PROVE  Work'
<1> DEFINE conn == <<c, at[c]>>
<1>1. c \in Process /\ Srv \in Process /\ c # Srv /\ \A d \in Client : d \in Process
  BY SuiteAssumption DEF Process
<1>2. ConnOf(c) = conn /\ backlog' = Append(backlog, conn)
  BY <1>1 DEF ConnOf
<1>3. todo[c] # <<>> /\ Head(todo[c]) = ConnectItem
  BY DEF At, ConnectItem
<1>4. todo[c] \in Seq(Item) /\ Len(todo[c]) \in Nat /\ DOMAIN todo[c] = 1 .. Len(todo[c])
  BY <1>1, LenProperties DEF Work, WorkTypes, Process
<1>5. 1 \in DOMAIN todo[c] /\ todo[c][1] = ConnectItem
  <2> DEFINE s == todo[c]
  <2>1. s \in Seq(Item) /\ s # <<>> /\ Head(s) = ConnectItem /\ DOMAIN s = 1 .. Len(s)
    BY <1>3, <1>4
  <2> HIDE DEF s
  <2>2. Len(s) \in Nat \ {0} /\ Head(s) = s[1]
    BY <2>1, EmptySeq, HeadTailProperties
  <2>3. 1 \in DOMAIN s /\ s[1] = ConnectItem
    BY <2>1, <2>2
  <2> QED
    BY <2>3 DEF s
<1>6. at[c] \in Nat /\ conn \in Conn
  <2>1. at[c] \in Nat /\ at[c] > 0 /\ at[c] <= Len(Suite[c]) /\ Len(Suite[c]) \in Nat
    BY <1>3, ConnIs DEF Work, WorkTypes
  <2>2. at[c] \in 1 .. Len(Suite[c])
    BY <2>1
  <2> QED
    BY <2>1, <2>2, ConnIs
<1>7. /\ todo' \in [Process -> Seq(Item)]
      /\ \A q \in Process : q # c => todo'[q] = todo[q]
      /\ \A i \in DOMAIN todo'[c] :
           i \in Nat \ {0} /\ i + 1 \in DOMAIN todo[c] /\ todo'[c][i] = todo[c][i + 1]
  BY <1>1, <1>3, AdvanceIs DEF Work
<1>8. \A i \in DOMAIN todo'[c] : todo'[c][i] # ConnectItem
  <2> SUFFICES ASSUME NEW i \in DOMAIN todo'[c], todo'[c][i] = ConnectItem PROVE FALSE
    OBVIOUS
  <2>1. i \in Nat \ {0} /\ i + 1 \in DOMAIN todo[c] /\ todo[c][i + 1] = ConnectItem
    BY <1>7
  <2>2. \A j, k \in DOMAIN todo[c] :
          todo[c][j] = ConnectItem /\ todo[c][k] = ConnectItem => j = k
    BY DEF Work, HeardOnce
  <2>3. i + 1 = 1
    BY <1>5, <2>1, <2>2
  <2> QED
    BY <2>1, <2>3
<1>9. ~Begun(conn) /\ Begun(conn)'
  BY <1>5, <1>6, <1>8 DEF Begun, Connected
<1>10. \A other \in Conn : Begun(other) => Begun(other)'
  <2> SUFFICES ASSUME NEW other \in Conn, Begun(other) PROVE Begun(other)'
    OBVIOUS
  <2>1. other[1] \in Client
    BY ConnIs
  <2> QED
    BY <1>1, <1>7, <1>8, <2>1 DEF Begun, Connected
<1>11. /\ backlog \in Seq(Conn) /\ Len(backlog) \in Nat /\ DOMAIN backlog = 1 .. Len(backlog)
       /\ \A i \in DOMAIN backlog : backlog[i] \in Conn
  BY ElementOfSeq, LenProperties DEF Work, WorkTypes
<1>12. /\ backlog' \in Seq(Conn) /\ DOMAIN backlog' = 1 .. Len(backlog) + 1
       /\ \A i \in 1 .. Len(backlog) : backlog'[i] = backlog[i]
       /\ backlog'[Len(backlog) + 1] = conn
  BY <1>2, <1>6, <1>11, AppendProperties, LenProperties
<1>13. \A i \in DOMAIN backlog' : i \in DOMAIN backlog \/ i = Len(backlog) + 1
  BY <1>11, <1>12
<1>14. serving' = serving /\ serving # conn /\ \A i \in DOMAIN backlog : backlog[i] # conn
  BY <1>9, <1>6 DEF Work, HeardOnce
<1>15. WorkTypes'
  <2>1. todo'[Srv] = todo[Srv] /\ \A d \in Client : todo'[d] # <<>> => todo[d] # <<>>
    BY <1>1, <1>3, <1>7
  <2>2. up' = up /\ at' = at
    OBVIOUS
  <2> QED
    BY <1>7, <1>12, <1>14, <2>1, <2>2 DEF Work, WorkTypes, Process, Supported, Req
<1>16. \A d \in Client : Once(todo'[d])
  BY <1>1, <1>7, <1>8 DEF Work, HeardOnce, Once
<1>17. (\A i \in DOMAIN backlog : backlog[i] # serving /\ Begun(backlog[i]))'
  BY <1>9, <1>10, <1>11, <1>12, <1>13, <1>14 DEF Work, HeardOnce
<1>18. \A i, j \in DOMAIN backlog' : backlog'[i] = backlog'[j] => i = j
  BY <1>11, <1>12, <1>13, <1>14 DEF Work, HeardOnce
<1>19. serving \in Conn => Begun(serving)'
  BY <1>10 DEF Work, HeardOnce
<1>20. HeardOnce'
  BY <1>14, <1>16, <1>17, <1>18, <1>19 DEF HeardOnce, Once
<1> QED
  BY <1>15, <1>20 DEF Work

(* The connection served is one that waited, and waits no longer.          *)
LEMMA AcceptKeeps == ASSUME Work, Accept PROVE Work'
<1>1. /\ backlog # <<>> /\ serving' = Head(backlog) /\ backlog' = Tail(backlog)
      /\ todo' = [todo EXCEPT ![Srv] = Recv("request")] /\ up' = up /\ at' = at
  BY DEF Accept
<1>2. Srv \in Process /\ todo \in [Process -> Seq(Item)] /\ \A c \in Client : c \in Process /\ c # Srv
  BY SuiteAssumption DEF Work, WorkTypes, Process
<1>3. Recv("request") \in Seq(Item) /\ Recv("request") = << <<"recv", "request">> >>
  BY StepTypes DEF Recv, Words, Kinds
<1>4. /\ todo' \in [Process -> Seq(Item)] /\ todo'[Srv] = << <<"recv", "request">> >>
      /\ \A c \in Client : todo'[c] = todo[c]
  BY <1>1, <1>2, <1>3
<1>5. \A i \in DOMAIN todo'[Srv] : todo'[Srv][i] \notin QpItems
  <2>1. <<"recv", "request">> \notin QpItems
    BY DEF QpItems, BuildItem
  <2>2. \A i \in DOMAIN << <<"recv", "request">> >> :
          << <<"recv", "request">> >>[i] = <<"recv", "request">>
    OBVIOUS
  <2> QED
    BY <1>4, <2>1, <2>2
<1> DEFINE q == backlog
<1>6. q \in Seq(Conn) /\ q # <<>>
  BY <1>1 DEF Work, WorkTypes
<1> HIDE DEF q
<1>7. /\ Len(q) \in Nat \ {0} /\ DOMAIN q = 1 .. Len(q) /\ Head(q) = q[1]
      /\ Tail(q) \in Seq(Conn) /\ Len(Tail(q)) = Len(q) - 1
      /\ \A i \in 1 .. Len(Tail(q)) : Tail(q)[i] = q[i + 1]
      /\ \A i \in DOMAIN q : q[i] \in Conn
  BY <1>6, EmptySeq, HeadTailProperties, LenProperties, ElementOfSeq
<1>8. DOMAIN Tail(q) = 1 .. Len(q) - 1
  BY <1>7, LenProperties
<1>9. /\ serving' = q[1] /\ 1 \in DOMAIN q /\ backlog' \in Seq(Conn)
      /\ \A i \in DOMAIN backlog' : /\ i \in Nat \ {0} /\ i + 1 \in DOMAIN q
                                    /\ backlog'[i] = q[i + 1]
  BY <1>1, <1>7, <1>8 DEF q
<1>10. /\ \A i, j \in DOMAIN q : q[i] = q[j] => i = j
       /\ \A i \in DOMAIN q : Begun(q[i]) /\ q[i] \in Conn
  BY <1>7 DEF Work, HeardOnce, q
<1>11. \A other \in Conn : Begun(other) => Begun(other)'
  BY <1>1, <1>4, ConnIs DEF Begun, Connected
<1>12. WorkTypes'
  BY <1>1, <1>4, <1>5, <1>9, <1>10 DEF Work, WorkTypes, Process
<1>13. \A c \in Client : Once(todo'[c])
  BY <1>4 DEF Work, HeardOnce, Once
<1>14. (\A i \in DOMAIN backlog : backlog[i] # serving /\ Begun(backlog[i]))'
  <2>1. ASSUME NEW i \in DOMAIN backlog', NEW other, other = backlog'[i]
        PROVE  other # serving' /\ other \in Conn /\ Begun(other)
    <3>1. other = q[i + 1] /\ i + 1 \in DOMAIN q /\ i + 1 # 1
      BY <1>9, <2>1
    <3> QED
      BY <1>9, <1>10, <3>1
  <2> QED
    BY <1>11, <2>1
<1>15. \A i, j \in DOMAIN backlog' : backlog'[i] = backlog'[j] => i = j
  <2> SUFFICES ASSUME NEW i \in DOMAIN backlog', NEW j \in DOMAIN backlog', backlog'[i] = backlog'[j]
               PROVE  i = j
    OBVIOUS
  <2>1. i + 1 = j + 1
    BY <1>9, <1>10
  <2> QED
    BY <1>9, <2>1
<1>16. Begun(serving)'
  BY <1>9, <1>10, <1>11 DEF q
<1>17. HeardOnce'
  BY <1>13, <1>14, <1>15, <1>16 DEF HeardOnce, Once
<1> QED
  BY <1>12, <1>17 DEF Work

(* Whoever has something to do does it for a connection.                   *)
LEMMA AtWork ==
  ASSUME Work, NEW p \in Process, todo[p] # <<>>
  PROVE  ConnOf(p) \in Conn /\ SideOf(p) \in Side /\ Other(SideOf(p)) \in Side
<1>1. SideOf(p) \in Side /\ Other(SideOf(p)) \in Side
  BY DEF SideOf, Other, Side
<1>2. CASE p = Srv
  BY <1>1, <1>2 DEF ConnOf, Work, WorkTypes
<1>3. CASE p # Srv
  <2>1. p \in Client
    BY <1>3 DEF Process
  <2>2. at[p] \in Nat /\ at[p] > 0 /\ at[p] <= Len(Suite[p]) /\ Len(Suite[p]) \in Nat
    BY <2>1, ConnIs DEF Work, WorkTypes
  <2>3. at[p] \in 1 .. Len(Suite[p])
    BY <2>2
  <2> QED
    BY <1>1, <1>3, <2>1, <2>3, ConnIs DEF ConnOf
<1> QED
  BY <1>2, <1>3

(* The server goes by the request of the client it serves.                 *)
LEMMA ReadRequestKeeps == ASSUME Work, MailHeld, ReadRequest PROVE Work'
<1>1. /\ todo[Srv] # <<>> /\ mail[serving]["Server"] # <<>>
      /\ Head(mail[serving]["Server"]).kind = "request"
      /\ todo' = [todo EXCEPT ![Srv] = ServerSteps(Incoming(Srv).body)]
      /\ up' = up /\ at' = at /\ serving' = serving /\ backlog' = backlog
  BY DEF ReadRequest, At, Take, ConnOf, SideOf
<1>2. serving \in Conn /\ Req(serving) \in [transport : Transports, mode : Modes]
  BY <1>1, ConnIs DEF Work, WorkTypes
<1>3. Incoming(Srv).body = Req(serving)
  BY <1>1, <1>2, HeadLetter DEF Incoming, ConnOf, SideOf, Side
<1>4. Srv \in Process /\ todo \in [Process -> Seq(Item)] /\ \A c \in Client : c \in Process /\ c # Srv
  BY SuiteAssumption DEF Work, WorkTypes, Process
<1>5. /\ todo' \in [Process -> Seq(Item)] /\ todo'[Srv] = ServerSteps(Req(serving))
      /\ \A c \in Client : todo'[c] = todo[c]
  BY <1>1, <1>2, <1>3, <1>4, ServerStepsTypes
<1>6. \A i \in DOMAIN todo'[Srv] : todo'[Srv][i] \in QpItems => Supported(Req(serving'))
  BY <1>1, <1>2, <1>5, ServerStepsTypes
<1>7. WorkTypes'
  BY <1>1, <1>2, <1>5, <1>6 DEF Work, WorkTypes, Process, Supported, Req
<1>8. \A other \in Conn : Begun(other) => Begun(other)'
  BY <1>1, <1>5, ConnIs DEF Begun, Connected
<1>9. HeardOnce'
  <2>1. \A i \in DOMAIN backlog : backlog[i] \in Conn
    BY ElementOfSeq, LenProperties DEF Work, WorkTypes
  <2> QED
    BY <1>1, <1>2, <1>5, <1>8, <2>1 DEF Work, HeardOnce
<1> QED
  BY <1>7, <1>9 DEF Work
--------------------------------------------------------------------------------
(***************************************************************************)
(* The messages, the queue pairs and the table.                            *)
(***************************************************************************)

(* Writing at the one end and reading at the other.                        *)
LEMMA MailChange ==
  ASSUME MailHeld, NEW conn \in Conn, NEW s \in Side, NEW q \in Seq(Letters(conn)),
         mail' = [mail EXCEPT ![conn][s] = q]
  PROVE  MailHeld'
<1> DEFINE Letter == UNION {Letters(other) : other \in Conn}
<1>1. q \in Seq(Letter)
  BY SeqMonotonic
<1> HIDE DEF Letter
<1>2. mail \in [Conn -> [Side -> Seq(Letter)]]
  BY DEF MailHeld, Letter
<1>3. mail' = [mail EXCEPT ![conn] = [mail[conn] EXCEPT ![s] = q]]
  BY <1>2
<1>4. [mail[conn] EXCEPT ![s] = q] \in [Side -> Seq(Letter)]
  BY <1>1, <1>2
<1>5. /\ mail' \in [Conn -> [Side -> Seq(Letter)]]
      /\ mail'[conn] = [mail[conn] EXCEPT ![s] = q]
      /\ \A other \in Conn : other # conn => mail'[other] = mail[other]
  BY <1>2, <1>3, <1>4
<1>6. \A other \in Conn : mail'[other] \in [Side -> Seq(Letters(other))]
  <2>1. mail[conn] \in [Side -> Seq(Letters(conn))]
    BY DEF MailHeld
  <2>2. mail'[conn] \in [Side -> Seq(Letters(conn))]
    BY <1>5, <2>1
  <2> QED
    BY <1>5, <2>2 DEF MailHeld
<1>7. /\ (mail \in [Conn -> [Side -> Seq(UNION {Letters(other) : other \in Conn})]])'
      /\ (\A other \in Conn : mail[other] \in [Side -> Seq(Letters(other))])'
  BY <1>5, <1>6 DEF Letter, Letters, Req
<1> QED
  BY <1>7 DEF MailHeld, Letters, Req

(* What a process writes is a message of its connection.                   *)
LEMMA MessageIs ==
  ASSUME Work, NEW p \in Process, todo[p] # <<>>, NEW kind \in Kinds, NEW m \in Message(p, kind)
  PROVE  m \in Letters(ConnOf(p))
<1> DEFINE conn == ConnOf(p)
           B(k) == CASE k = "request" -> {Req(conn)}
                     [] k \in {"ok", "endpoint"} -> Endpoint
                     [] OTHER -> {"numbers", "nothing"}
<1>1. conn \in Conn /\ SideOf(p) \in Side
  BY AtWork
<1>2. <<conn, SideOf(p)>> \in Endpoint
  BY <1>1 DEF Endpoint
<1>3. m \in [kind : {kind},
             body : CASE kind = "request" -> {Req(conn)}
                      [] kind \in {"ok", "endpoint"} -> {<<conn, SideOf(p)>>}
                      [] kind = "row" /\ Req(conn).mode = "Latency" -> {"numbers", "nothing"}
                      [] OTHER -> {"numbers"}]
  BY DEF Message
<1> HIDE DEF conn
<1>4. m \in [kind : {kind}, body : B(kind)]
  <2>1. CASE kind = "request"
    BY <1>3, <2>1
  <2>2. CASE kind \in {"ok", "endpoint"}
    <3>1. m \in [kind : {kind}, body : {<<conn, SideOf(p)>>}]
      BY <1>3, <2>2
    <3> QED
      BY <1>2, <2>2, <3>1
  <2>3. CASE kind \notin {"request", "ok", "endpoint"}
    <3>1. m \in [kind : {kind}, body : {"numbers", "nothing"}]
      <4>1. CASE kind = "row" /\ Req(conn).mode = "Latency"
        BY <1>3, <4>1
      <4>2. CASE ~(kind = "row" /\ Req(conn).mode = "Latency")
        BY <1>3, <2>3, <4>2
      <4> QED
        BY <4>1, <4>2
    <3>2. B(kind) = {"numbers", "nothing"}
      BY <2>3
    <3> QED
      BY <3>1, <3>2
  <2> QED
    BY <2>1, <2>2, <2>3
<1>5. [kind : {kind}, body : B(kind)] \in {[kind : {k}, body : B(k)] : k \in Kinds}
  OBVIOUS
<1>6. m \in UNION {[kind : {k}, body : B(k)] : k \in Kinds}
  BY <1>4, <1>5
<1>7. UNION {[kind : {k}, body : B(k)] : k \in Kinds} = Letters(conn)
  BY DEF Letters
<1> QED
  BY <1>6, <1>7 DEF conn

(* A message more, at its end of the stream.                               *)
LEMMA WriteMail ==
  ASSUME Work, MailHeld, NEW p \in Process, todo[p] # <<>>, NEW kind \in Kinds,
         NEW m \in Message(p, kind),
         mail' = [mail EXCEPT ![ConnOf(p)][Other(SideOf(p))] = Append(@, m)]
  PROVE  MailHeld'
<1> DEFINE conn == ConnOf(p)
           s == Other(SideOf(p))
<1>1. conn \in Conn /\ s \in Side /\ m \in Letters(conn)
  BY AtWork, MessageIs
<1>2. mail[conn][s] \in Seq(Letters(conn))
  BY <1>1 DEF MailHeld
<1>3. Append(mail[conn][s], m) \in Seq(Letters(conn))
  BY <1>1, <1>2, AppendProperties
<1>4. mail' = [mail EXCEPT ![conn][s] = Append(mail[conn][s], m)]
  BY <1>1 DEF MailHeld
<1> HIDE DEF conn, s
<1> QED
  BY <1>1, <1>3, <1>4, MailChange

(* One message less.                                                       *)
LEMMA TakeMail ==
  ASSUME Work, MailHeld, NEW p \in Process, todo[p] # <<>>, NEW kinds, Take(p, kinds)
  PROVE  MailHeld'
<1> DEFINE conn == ConnOf(p)
           s == SideOf(p)
<1>1. conn \in Conn /\ s \in Side
  BY AtWork
<1>2. mail[conn][s] \in Seq(Letters(conn)) /\ mail[conn][s] # <<>>
  BY <1>1 DEF MailHeld, Take
<1>3. Tail(mail[conn][s]) \in Seq(Letters(conn))
  BY <1>2, HeadTailProperties
<1>4. mail' = [mail EXCEPT ![conn][s] = Tail(mail[conn][s])]
  BY <1>1 DEF MailHeld, Take
<1> HIDE DEF conn, s
<1> QED
  BY <1>1, <1>3, <1>4, MailChange

(* A queue pair is built, or connected, only where UD has been turned down.*)
LEMMA QpChange ==
  ASSUME QpHeld, NEW conn \in Conn, NEW s \in Side, NEW v \in {Built} \cup Endpoint,
         qp' = [qp EXCEPT ![conn][s] = v],
         Req(conn).transport = "Ud" => s = "Client" /\ conn[1] \in Foreign
  PROVE  QpHeld'
<1> DEFINE Value == {NoQp, Built} \cup Endpoint
<1>1. qp \in [Conn -> [Side -> Value]] /\ v \in Value
  BY DEF QpHeld
<1> HIDE DEF Value
<1>2. qp' = [qp EXCEPT ![conn] = [qp[conn] EXCEPT ![s] = v]]
  BY <1>1
<1>3. /\ qp' \in [Conn -> [Side -> Value]]
      /\ qp'[conn] = [qp[conn] EXCEPT ![s] = v]
      /\ \A other \in Conn : other # conn => qp'[other] = qp[other]
  BY <1>1, <1>2
<1>4. \A t \in Side : qp'[conn][t] = IF t = s THEN v ELSE qp[conn][t]
  BY <1>1, <1>3
<1>5. ASSUME NEW other \in Conn, Req(other).transport = "Ud"
      PROVE  /\ qp'[other]["Server"] = NoQp
             /\ other[1] \notin Foreign => qp'[other]["Client"] = NoQp
  <2>1. /\ qp[other]["Server"] = NoQp
        /\ other[1] \notin Foreign => qp[other]["Client"] = NoQp
    BY <1>5 DEF QpHeld, UdIsNeverBuilt
  <2>2. CASE other # conn
    BY <1>3, <2>1, <2>2
  <2>3. CASE other = conn
    <3>1. "Server" \in Side /\ "Client" \in Side /\ s = "Client" /\ other[1] \in Foreign
      BY <1>5, <2>3 DEF Side
    <3> QED
      BY <1>4, <2>1, <2>3, <3>1
  <2> QED
    BY <2>2, <2>3
<1>6. UdIsNeverBuilt'
  BY <1>5 DEF UdIsNeverBuilt, Req
<1> QED
  BY <1>3, <1>6 DEF QpHeld, Value

(* Who builds or connects a queue pair has one the run may have.           *)
LEMMA QpAllowed ==
  ASSUME Work, NEW p \in Process, todo[p] # <<>>, p = Srv => Head(todo[p]) \in QpItems,
         Req(ConnOf(p)).transport = "Ud"
  PROVE  SideOf(p) = "Client" /\ ConnOf(p)[1] \in Foreign
<1>1. ~Supported(Req(ConnOf(p)))
  BY DEF Supported
<1>2. CASE p = Srv
  <2> DEFINE s == todo[Srv]
  <2>1. s \in Seq(Item) /\ s # <<>> /\ Head(s) \in QpItems
    BY <1>2 DEF Work, WorkTypes
  <2> HIDE DEF s
  <2>2. 1 \in DOMAIN s /\ Head(s) = s[1]
    BY <2>1, EmptySeq, HeadTailProperties, LenProperties
  <2>3. Supported(Req(serving))
    BY <2>1, <2>2 DEF s, Work, WorkTypes
  <2> QED
    BY <1>1, <1>2, <2>3 DEF ConnOf
<1>3. CASE p # Srv
  <2>1. p \in Client /\ ConnOf(p) = <<p, at[p]>> /\ SideOf(p) = "Client"
    BY <1>3 DEF Process, ConnOf, SideOf
  <2>2. p \in Foreign
    BY <1>1, <2>1 DEF Work, WorkTypes
  <2> QED
    BY <2>1, <2>2
<1> QED
  BY <1>2, <1>3

\* The mode a reader of the table takes a row at its end for.
LastHeader(table, mode) ==
  \E j \in DOMAIN table :
    /\ table[j].titled /\ table[j].mode = mode
    /\ \A k \in DOMAIN table : k > j => ~table[k].titled

\* RowsUnderTheirHeader of a table.
Headed(table) ==
  \A i \in DOMAIN table :
    \E j \in 1 .. i :
      /\ table[j].titled /\ table[j].mode = table[i].mode
      /\ \A k \in j + 1 .. i : ~table[k].titled

(* One row more: it comes with a header, or the last one is of its mode.   *)
LEMMA RowAppended ==
  ASSUME NEW table \in Seq(Rows), Headed(table), NEW row \in Rows,
         row.titled \/ LastHeader(table, row.mode)
  PROVE  LET new == Append(table, row)
         IN new \in Seq(Rows) /\ Headed(new) /\ LastHeader(new, row.mode)
<1> DEFINE n == Len(table)
           new == Append(table, row)
<1>1. n \in Nat /\ DOMAIN table = 1 .. n
  BY LenProperties
<1>2. /\ new \in Seq(Rows) /\ Len(new) = n + 1
      /\ \A i \in 1 .. n : new[i] = table[i]
      /\ new[n + 1] = row
  BY AppendProperties
<1>3. DOMAIN new = 1 .. n + 1
  BY <1>2, LenProperties
<1>4. /\ \A i \in 1 .. n : i \in 1 .. n + 1
      /\ n + 1 \in 1 .. n + 1
      /\ \A i \in 1 .. n + 1 : i \in Nat /\ ~(i > n + 1) /\ (i \in 1 .. n \/ i = n + 1)
  BY <1>1
<1> HIDE DEF n, new
<1>5. LastHeader(new, row.mode)
  <2>1. CASE row.titled
    BY <1>2, <1>3, <1>4, <2>1 DEF LastHeader
  <2>2. CASE ~row.titled
    <3>1. PICK j \in 1 .. n :
            /\ table[j].titled /\ table[j].mode = row.mode
            /\ \A k \in 1 .. n : k > j => ~table[k].titled
      BY <1>1, <2>2 DEF LastHeader
    <3>2. /\ j \in DOMAIN new /\ new[j].titled /\ new[j].mode = row.mode
          /\ \A k \in DOMAIN new : k > j => ~new[k].titled
      BY <1>2, <1>3, <1>4, <2>2, <3>1
    <3> QED
      BY <3>2 DEF LastHeader
  <2> QED
    BY <2>1, <2>2
<1>6. Headed(new)
  <2> SUFFICES ASSUME NEW i \in 1 .. n + 1
               PROVE  \E m \in 1 .. i :
                        /\ new[m].titled /\ new[m].mode = new[i].mode
                        /\ \A k \in m + 1 .. i : ~new[k].titled
    BY <1>3 DEF Headed
  <2>1. CASE i \in 1 .. n
    <3>1. PICK m \in 1 .. i :
            /\ table[m].titled /\ table[m].mode = table[i].mode
            /\ \A k \in m + 1 .. i : ~table[k].titled
      BY <1>1, <2>1 DEF Headed
    <3>2. /\ \A k \in 1 .. i : new[k] = table[k]
          /\ m + 1 .. i \subseteq 1 .. i /\ i \in 1 .. i
      BY <1>1, <1>2, <2>1
    <3> QED
      BY <3>1, <3>2
  <2>2. CASE i = n + 1
    <3>1. PICK j \in 1 .. n + 1 :
            /\ new[j].titled /\ new[j].mode = row.mode
            /\ \A k \in 1 .. n + 1 : k > j => ~new[k].titled
      BY <1>3, <1>5 DEF LastHeader
    <3>2. j \in 1 .. i /\ \A k \in j + 1 .. i : k \in 1 .. n + 1 /\ k > j
      BY <1>1, <2>2
    <3> QED
      BY <1>2, <2>2, <3>1, <3>2
  <2> QED
    BY <1>4, <2>1, <2>2
<1> QED
  BY <1>2, <1>5, <1>6 DEF new

(* The row of the run that ends.                                           *)
LEMMA ReadRowKeepsTable == ASSUME Work, TableHeld, ReadRow PROVE TableHeld'
<1> DEFINE mode == Req(serving).mode
           row == [mode |-> mode, conn |-> serving, titled |-> NewTable(mode)]
<1>1. serving \in Conn /\ mode \in Modes
  BY ConnIs DEF ReadRow, At, Work, WorkTypes
<1>2. row \in Rows /\ row.mode = mode /\ (row.titled <=> lastMode # mode)
  BY <1>1 DEF Rows, NewTable
<1>3. mode # "none"
  BY <1>1 DEF Modes
<1>4. /\ printed \in Seq(Rows) /\ Headed(printed)
      /\ lastMode # "none" => LastHeader(printed, lastMode)
  BY DEF TableHeld, RowsUnderTheirHeader, Headed, LastHeader
<1>5. /\ printed' \in Seq(Rows) /\ Headed(printed') /\ lastMode' \in Modes \cup {"none"}
      /\ lastMode' # "none" => LastHeader(printed', lastMode')
  <2>1. CASE lastMode' = lastMode /\ printed' = printed
    BY <1>4, <2>1 DEF TableHeld
  <2>2. CASE lastMode' = mode /\ printed' = Append(printed, row)
    <3> HIDE DEF row
    <3>1. row.titled \/ LastHeader(printed, row.mode)
      BY <1>2, <1>3, <1>4
    <3> QED
      BY <1>1, <1>2, <1>4, <2>2, <3>1, RowAppended
  <2> QED
    BY <2>1, <2>2 DEF ReadRow
<1>6. (/\ lastMode \in Modes \cup {"none"} /\ printed \in Seq(Rows)
       /\ lastMode # "none" => LastHeader(printed, lastMode)
       /\ Headed(printed))'
  BY <1>5 DEF Rows, Conn, LastHeader, Headed
<1> QED
  BY <1>6 DEF TableHeld, LastHeader, Headed, RowsUnderTheirHeader
--------------------------------------------------------------------------------
(***************************************************************************)
(* The steps.                                                              *)
(***************************************************************************)

(* A conjunct is about its own variables only.                             *)
LEMMA Kept ==
  /\ MailHeld /\ mail' = mail => MailHeld'
  /\ EndTypes /\ closed' = closed /\ result' = result /\ armed' = armed => EndTypes'
  /\ QpHeld /\ qp' = qp => QpHeld'
  /\ TableHeld /\ lastMode' = lastMode /\ printed' = printed => TableHeld'
<1>1. MailHeld /\ mail' = mail => MailHeld'
  BY DEF MailHeld, Letters, Req
<1>2. EndTypes /\ closed' = closed /\ result' = result /\ armed' = armed => EndTypes'
  BY DEF EndTypes, Conn
<1>3. QpHeld /\ qp' = qp => QpHeld'
  BY DEF QpHeld, UdIsNeverBuilt, Req
<1>4. TableHeld /\ lastMode' = lastMode /\ printed' = printed => TableHeld'
  BY DEF TableHeld, RowsUnderTheirHeader, Rows, Conn
<1> QED
  BY <1>1, <1>2, <1>3, <1>4

Results == {"pending", "ok", "failed", "rejected", "killed"}

(* How a run ends, and who has closed its connection.                      *)
LEMMA EndKeeps ==
  ASSUME EndTypes,
         closed' = closed \/ (\E s \in Side : \E conns : Close(conns, s)),
         result' = result \/ (\E how \in Results : \E conn : result' = [result EXCEPT ![conn] = how]),
         armed' = armed \/ (\E conn \in Conn : armed' = armed \cup {conn})
  PROVE  EndTypes'
<1>1. closed' \in [Conn -> SUBSET Side]
  <2>1. CASE closed' = closed
    BY <2>1 DEF EndTypes
  <2>2. ASSUME NEW s \in Side, NEW conns, Close(conns, s) PROVE closed' \in [Conn -> SUBSET Side]
    BY <2>2 DEF EndTypes, Close
  <2> QED
    BY <2>1, <2>2
<1>2. result' \in [Conn -> Results]
  BY DEF EndTypes, Results
<1>3. armed' \subseteq Conn
  BY DEF EndTypes
<1> QED
  BY <1>1, <1>2, <1>3 DEF EndTypes, Results

(* The end of a run for its client.                                        *)
LEMMA EndRunKeeps ==
  ASSUME Work, EndTypes, NEW c \in Client, NEW how \in Results, EndRun(c, how), armed' = armed
  PROVE  Work' /\ EndTypes'
<1>1. c \in Process /\ "Client" \in Side
  BY DEF Process, Side
<1>2. Work'
  BY <1>1, StopKeeps DEF EndRun
<1>3. (\E s \in Side : \E conns : Close(conns, s)) /\ result' = [result EXCEPT ![ConnOf(c)] = how]
  BY <1>1 DEF EndRun
<1>4. EndTypes'
  BY <1>3, EndKeeps
<1> QED
  BY <1>2, <1>4

(* The end of a connection for the server.                                 *)
LEMMA EndServeKeeps ==
  ASSUME Work, EndTypes, EndServe, armed' = armed
  PROVE  Work' /\ EndTypes'
<1>1. Srv \in Process /\ "Server" \in Side
  BY DEF Process, Side
<1>2. /\ up' \subseteq up /\ backlog' \in {backlog, <<>>} /\ at' = at /\ result' = result
      /\ \E s \in Side : \E conns : Close(conns, s)
  BY <1>1 DEF EndServe, Exit
<1>3. todo' = [todo EXCEPT ![Srv] = <<>>] /\ serving' = NoConn
  BY DEF EndServe
<1>4. todo'[Srv] = <<>>
  BY <1>1, <1>3 DEF Work, WorkTypes, Process
<1>5. Work'
  BY <1>1, <1>2, <1>3, <1>4, StopKeeps
<1>6. EndTypes'
  BY <1>2, EndKeeps
<1> QED
  BY <1>5, <1>6

(* A run that fails for a side.                                            *)
LEMMA AbortKeeps ==
  ASSUME Work, EndTypes, QpHeld, TableHeld, NEW p \in Process, Abort(p)
  PROVE  Work' /\ EndTypes' /\ QpHeld' /\ TableHeld'
<1>1. qp' = qp /\ armed' = armed /\ printed' = printed
  BY DEF Abort
<1>2. CASE p = Srv
  <2>1. EndServe /\ lastMode' = lastMode
    BY <1>2 DEF Abort
  <2> QED
    BY <1>1, <2>1, EndServeKeeps, Kept
<1>3. CASE p # Srv
  <2>1. p \in Client /\ EndRun(p, "failed") /\ "failed" \in Results
    BY <1>3 DEF Abort, Process, Results
  <2>2. lastMode' = lastMode
    BY <2>1 DEF EndRun
  <2> QED
    BY <1>1, <2>1, <2>2, EndRunKeeps, Kept
<1> QED
  BY <1>2, <1>3

(* What both sides do.                                                     *)
LEMMA ExchangeKeeps == ASSUME Base, NEW p \in Process, Exchange(p) PROVE Base'
<1>1. Work /\ MailHeld /\ EndTypes /\ QpHeld /\ TableHeld
  BY DEF Base, Work
<1> SUFFICES Work' /\ MailHeld' /\ EndTypes' /\ QpHeld' /\ TableHeld'
  BY DEF Base, Work
<1>2. ASSUME NEW kind \in Kinds, Write(p, kind)
      PROVE  Work' /\ MailHeld' /\ EndTypes' /\ QpHeld' /\ TableHeld'
  <2>1. todo[p] # <<>>
    BY <1>2 DEF Write, At
  <2>2. CASE Abort(p) /\ UNCHANGED mail
    BY <1>1, <2>2, AbortKeeps, Kept
  <2>3. ASSUME NEW m \in Message(p, kind),
               mail' = [mail EXCEPT ![ConnOf(p)][Other(SideOf(p))] = Append(@, m)],
               Advance(p),
               UNCHANGED <<up, at, serving, backlog, closed, qp, armed, result, lastMode, printed>>
        PROVE  Work' /\ MailHeld' /\ EndTypes' /\ QpHeld' /\ TableHeld'
    <3>1. Work'
      BY <1>1, <2>1, <2>3, AdvanceKeeps
    <3>2. MailHeld'
      BY <1>1, <2>1, <2>3, WriteMail
    <3> QED
      BY <1>1, <2>3, <3>1, <3>2, Kept
  <2> QED
    BY <1>2, <2>2, <2>3 DEF Write
<1>3. ASSUME NEW kind, Read(p, kind)
      PROVE  Work' /\ MailHeld' /\ EndTypes' /\ QpHeld' /\ TableHeld'
  <2>1. todo[p] # <<>> /\ Take(p, {kind}) /\ Advance(p)
    BY <1>3 DEF Read, At
  <2>2. UNCHANGED <<up, at, serving, backlog, closed, qp, armed, result, lastMode, printed>>
    BY <1>3 DEF Read
  <2>3. Work'
    BY <1>1, <2>1, <2>2, AdvanceKeeps
  <2>4. MailHeld'
    BY <1>1, <2>1, TakeMail
  <2> QED
    BY <1>1, <2>2, <2>3, <2>4, Kept
<1>4. CASE ReadFails(p) \/ VerbsFail(p)
  <2>1. Abort(p) /\ mail' = mail
    BY <1>4 DEF ReadFails, VerbsFail
  <2> QED
    BY <1>1, <2>1, AbortKeeps, Kept
<1>5. CASE Build(p)
  <2>1. /\ todo[p] # <<>> /\ Head(todo[p]) \in QpItems /\ Advance(p)
        /\ qp' = [qp EXCEPT ![ConnOf(p)][SideOf(p)] = Built]
    BY <1>5 DEF Build, At, QpItems, BuildItem
  <2>2. UNCHANGED <<up, at, connVars, armed, result, lastMode, printed>>
    BY <1>5 DEF Build
  <2>3. Work'
    BY <1>1, <2>1, <2>2, AdvanceKeeps DEF connVars
  <2>4. QpHeld'
    BY <1>1, <2>1, AtWork, QpAllowed, QpChange
  <2> QED
    BY <1>1, <2>2, <2>3, <2>4, Kept DEF connVars
<1>6. CASE Post(p)
  <2>1. /\ todo[p] # <<>> /\ Advance(p)
        /\ armed' = IF p = Srv THEN armed \cup {serving} ELSE armed
    BY <1>6 DEF Post, At
  <2>2. UNCHANGED <<up, at, connVars, qp, result, lastMode, printed>>
    BY <1>6 DEF Post
  <2>3. Work'
    BY <1>1, <2>1, <2>2, AdvanceKeeps DEF connVars
  <2>4. armed' = armed \/ \E conn \in Conn : armed' = armed \cup {conn}
    BY <1>1, <2>1 DEF Work, WorkTypes
  <2>5. EndTypes'
    BY <1>1, <2>2, <2>4, EndKeeps DEF connVars
  <2> QED
    BY <1>1, <2>2, <2>3, <2>5, Kept DEF connVars
<1>7. CASE Traffic(p)
  <2>1. todo[p] # <<>> /\ Advance(p)
    BY <1>7 DEF Traffic, At
  <2>2. UNCHANGED <<up, at, connVars, qp, armed, result, lastMode, printed>>
    BY <1>7 DEF Traffic
  <2>3. Work'
    BY <1>1, <2>1, <2>2, AdvanceKeeps DEF connVars
  <2> QED
    BY <1>1, <2>2, <2>3, Kept DEF connVars
<1> QED
  BY <1>2, <1>3, <1>4, <1>5, <1>6, <1>7 DEF Exchange, Kinds

(* The queue pair is connected to an endpoint somebody sent.               *)
LEMMA ReadEndpointKeeps ==
  ASSUME Base, NEW p \in Process, NEW what, NEW kind \in {"ok", "endpoint"},
         ReadEndpoint(p, what, kind), p = Srv => <<"recv", what>> \in QpItems
  PROVE  Base'
<1>1. Work /\ MailHeld /\ EndTypes /\ QpHeld /\ TableHeld
  BY DEF Base, Work
<1>2. /\ todo[p] # <<>> /\ Head(todo[p]) = <<"recv", what>> /\ Take(p, {kind})
  BY DEF ReadEndpoint, At
<1>3. MailHeld'
  BY <1>1, <1>2, TakeMail
<1>4. CASE Abort(p)
  BY <1>1, <1>3, <1>4, AbortKeeps DEF Base, Work
<1>5. CASE /\ qp' = [qp EXCEPT ![ConnOf(p)][SideOf(p)] = Incoming(p).body]
           /\ Advance(p)
           /\ UNCHANGED <<up, at, serving, backlog, closed, armed, result, lastMode, printed>>
  <2>1. Work'
    BY <1>1, <1>2, <1>5, AdvanceKeeps
  <2>2. ConnOf(p) \in Conn /\ SideOf(p) \in Side
    BY <1>1, <1>2, AtWork
  <2>3. Incoming(p).body \in Endpoint
    BY <1>1, <1>2, <2>2, HeadLetter DEF Take, Incoming
  <2>4. Req(ConnOf(p)).transport = "Ud" => SideOf(p) = "Client" /\ ConnOf(p)[1] \in Foreign
    BY <1>1, <1>2, QpAllowed
  <2>5. QpHeld'
    BY <1>1, <1>5, <2>2, <2>3, <2>4, QpChange
  <2> QED
    BY <1>1, <1>3, <1>5, <2>1, <2>5, Kept DEF Base, Work
<1> QED
  BY <1>4, <1>5 DEF ReadEndpoint

(* A client process.                                                       *)
LEMMA ClientKeeps == ASSUME Base, NEW c \in Client, ClientStep(c) PROVE Base'
<1>1. Work /\ MailHeld /\ EndTypes /\ QpHeld /\ TableHeld
  BY DEF Base, Work
<1>2. c \in Process /\ c # Srv
  BY SuiteAssumption DEF Process
<1>3. CASE Exchange(c)
  BY <1>2, <1>3, ExchangeKeeps
<1>4. CASE ReadEndpoint(c, "ack", "ok")
  BY <1>2, <1>4, ReadEndpointKeeps
<1>5. CASE ReadRejection(c)
  <2>1. /\ todo[c] # <<>> /\ Take(c, {"unsupported"}) /\ EndRun(c, "rejected")
        /\ UNCHANGED <<qp, armed, printed>>
    BY <1>5 DEF ReadRejection, At
  <2>2. Work' /\ EndTypes'
    BY <1>1, <2>1, EndRunKeeps DEF Results
  <2>3. MailHeld'
    BY <1>1, <1>2, <2>1, TakeMail
  <2>4. lastMode' = lastMode
    BY <2>1 DEF EndRun
  <2> QED
    BY <1>1, <2>1, <2>2, <2>3, <2>4, Kept DEF Base, Work
<1>6. CASE Return(c)
  <2>1. EndRun(c, "ok") /\ UNCHANGED <<mail, qp, armed, printed>>
    BY <1>6 DEF Return
  <2>2. Work' /\ EndTypes'
    BY <1>1, <2>1, EndRunKeeps DEF Results
  <2>3. lastMode' = lastMode
    BY <2>1 DEF EndRun
  <2> QED
    BY <1>1, <2>1, <2>2, <2>3, Kept DEF Base, Work
<1>7. CASE StartRun(c)
  <2>1. UNCHANGED <<up, connVars, qp, armed, lastMode, printed>>
    BY <1>7 DEF StartRun
  <2>2. Work'
    BY <1>1, <1>7, StartRunKeeps
  <2>3. result' = result \/ \E how \in Results : \E conn : result' = [result EXCEPT ![conn] = how]
    BY <1>7 DEF StartRun, Results
  <2>4. EndTypes'
    BY <1>1, <2>1, <2>3, EndKeeps DEF connVars
  <2> QED
    BY <1>1, <2>1, <2>2, <2>4, Kept DEF Base, Work, connVars
<1>8. CASE Connect(c)
  <2>1. At(c, "do", "connect") /\ todo[c] # <<>>
    BY <1>8 DEF Connect, At
  <2>2. CASE Abort(c) /\ UNCHANGED mail
    BY <1>1, <1>2, <2>2, AbortKeeps, Kept DEF Base, Work
  <2>3. CASE /\ backlog' = Append(backlog, ConnOf(c)) /\ Advance(c)
             /\ UNCHANGED <<up, at, serving, mail, closed, qp, armed, result, lastMode, printed>>
    <3>1. Work'
      BY <1>1, <2>1, <2>3, ConnectKeeps
    <3> QED
      BY <1>1, <2>3, <3>1, Kept DEF Base, Work
  <2> QED
    BY <1>8, <2>2, <2>3 DEF Connect
<1>9. CASE Refuse(c)
  <2>1. Abort(c) /\ mail' = mail
    BY <1>9 DEF Refuse
  <2> QED
    BY <1>1, <1>2, <2>1, AbortKeeps, Kept DEF Base, Work
<1> QED
  BY <1>3, <1>4, <1>5, <1>6, <1>7, <1>8, <1>9 DEF ClientStep

(* The server process.                                                     *)
LEMMA ServerKeeps == ASSUME Base, ServerStep PROVE Base'
<1>1. Work /\ MailHeld /\ EndTypes /\ QpHeld /\ TableHeld
  BY DEF Base, Work
<1>2. Srv \in Process
  BY DEF Process
<1>3. CASE Exchange(Srv)
  BY <1>2, <1>3, ExchangeKeeps
<1>4. CASE ReadEndpoint(Srv, "endpoint", "endpoint")
  BY <1>2, <1>4, ReadEndpointKeeps DEF QpItems, BuildItem
<1>5. CASE Accept
  <2>1. UNCHANGED <<up, at, mail, closed, qp, armed, result, lastMode, printed>>
    BY <1>5 DEF Accept
  <2>2. Work'
    BY <1>1, <1>5, AcceptKeeps
  <2> QED
    BY <1>1, <2>1, <2>2, Kept DEF Base, Work
<1>6. CASE ReadRequest
  <2>1. /\ todo[Srv] # <<>> /\ Take(Srv, {"request"})
        /\ UNCHANGED <<up, at, serving, backlog, closed, qp, armed, result, lastMode, printed>>
    BY <1>6 DEF ReadRequest, At
  <2>2. Work'
    BY <1>1, <1>6, ReadRequestKeeps
  <2>3. MailHeld'
    BY <1>1, <1>2, <2>1, TakeMail
  <2> QED
    BY <1>1, <2>1, <2>2, <2>3, Kept DEF Base, Work
<1>7. CASE ReturnRejected
  <2>1. EndServe /\ UNCHANGED <<mail, qp, armed, lastMode, printed>>
    BY <1>7 DEF ReturnRejected
  <2>2. Work' /\ EndTypes'
    BY <1>1, <2>1, EndServeKeeps
  <2> QED
    BY <1>1, <2>1, <2>2, Kept DEF Base, Work
<1>8. CASE ReadRow
  <2>1. todo[Srv] # <<>> /\ Take(Srv, {"row"}) /\ EndServe /\ UNCHANGED <<qp, armed>>
    BY <1>8 DEF ReadRow, At
  <2>2. Work' /\ EndTypes'
    BY <1>1, <2>1, EndServeKeeps
  <2>3. MailHeld'
    BY <1>1, <1>2, <2>1, TakeMail
  <2>4. TableHeld'
    BY <1>1, <1>8, ReadRowKeepsTable
  <2> QED
    BY <1>1, <2>1, <2>2, <2>3, <2>4, Kept DEF Base, Work
<1> QED
  BY <1>3, <1>4, <1>5, <1>6, <1>7, <1>8 DEF ServerStep

(* What goes wrong from outside.                                           *)
LEMMA FaultKeeps ==
  ASSUME Base, AcceptFails \/ \E p \in Process : Kill(p)
  PROVE  Base'
<1>1. Work /\ MailHeld /\ EndTypes /\ QpHeld /\ TableHeld
  BY DEF Base, Work
<1>2. Srv \in Process /\ "Server" \in Side /\ "Client" \in Side /\ todo \in [Process -> Seq(Item)]
  BY <1>1 DEF Process, Side, Work, WorkTypes
<1>3. CASE AcceptFails
  <2>1. Exit({}) /\ UNCHANGED <<todo, at, serving, mail, qp, armed, result, lastMode, printed>>
    BY <1>3 DEF AcceptFails
  <2>2. /\ up' \subseteq up /\ backlog' \in {backlog, <<>>}
        /\ \E s \in Side : \E conns : Close(conns, s)
    BY <1>2, <2>1 DEF Exit
  <2>3. Work'
    BY <1>1, <1>2, <2>1, <2>2, StopKeeps
  <2>4. EndTypes'
    BY <1>1, <2>1, <2>2, EndKeeps
  <2> QED
    BY <1>1, <2>1, <2>3, <2>4, Kept DEF Base, Work
<1>4. ASSUME NEW p \in Process, Kill(p) PROVE Base'
  <2>1. /\ todo' = [todo EXCEPT ![p] = <<>>]
        /\ UNCHANGED <<at, mail, qp, armed, lastMode, printed>>
    BY <1>4 DEF Kill
  <2>2. CASE p = Srv
    <3>1. Exit({serving}) /\ serving' = NoConn /\ result' = result
      BY <1>4, <2>2 DEF Kill
    <3>2. /\ up' \subseteq up /\ backlog' \in {backlog, <<>>}
          /\ \E s \in Side : \E conns : Close(conns, s)
      BY <1>2, <3>1 DEF Exit
    <3>3. todo'[Srv] = <<>>
      BY <1>2, <2>1, <2>2
    <3>4. Work'
      BY <1>1, <2>1, <3>1, <3>2, <3>3, StopKeeps
    <3>5. EndTypes'
      BY <1>1, <2>1, <3>1, <3>2, EndKeeps
    <3> QED
      BY <1>1, <2>1, <3>4, <3>5, Kept DEF Base, Work
  <2>3. CASE p # Srv
    <3>1. up' \subseteq up /\ serving' = serving /\ backlog' = backlog
      BY <1>4, <2>3 DEF Kill
    <3>2. /\ closed' = closed \/ \E s \in Side : \E conns : Close(conns, s)
          /\ result' = result \/ \E how \in Results : \E conn : result' = [result EXCEPT ![conn] = how]
      BY <1>2, <1>4, <2>3 DEF Kill, Results
    <3>3. Work'
      BY <1>1, <2>1, <3>1, StopKeeps
    <3>4. EndTypes'
      BY <1>1, <2>1, <3>2, EndKeeps
    <3> QED
      BY <1>1, <2>1, <3>3, <3>4, Kept DEF Base, Work
  <2> QED
    BY <2>2, <2>3
<1> QED
  BY <1>3, <1>4

(* Nobody is at work at first.                                             *)
LEMMA InitBase == Init => Base
<1> SUFFICES ASSUME Init PROVE Base
  OBVIOUS
<1>1. <<>> \in Seq(Item) /\ <<>> \in Seq(Conn) /\ <<>> \in Seq(Rows) /\ DOMAIN <<>> = {}
      /\ \A conn \in Conn : <<>> \in Seq(Letters(conn))
      /\ <<>> \in Seq(UNION {Letters(other) : other \in Conn})
  BY EmptySeq
<1>2. \A c \in Client : c \in Client \cup {Srv} /\ todo[c] = <<>>
  BY DEF Init
<1>3. todo[Srv] = <<>> /\ serving \notin Conn
  BY ConnIs DEF Init
<1>4. WorkTypes
  BY <1>1, <1>2, <1>3, ConnIs DEF Init, WorkTypes
<1>5. HeardOnce
  BY <1>1, <1>2, <1>3 DEF Init, HeardOnce
<1>6. MailHeld
  BY <1>1 DEF Init, MailHeld
<1>7. EndTypes
  BY DEF Init, EndTypes
<1>8. QpHeld
  BY DEF Init, QpHeld, UdIsNeverBuilt, Side
<1>9. TableHeld
  BY <1>1 DEF Init, TableHeld, RowsUnderTheirHeader
<1> QED
  BY <1>4, <1>5, <1>6, <1>7, <1>8, <1>9 DEF Base

(* Every step keeps Base.                                                  *)
LEMMA BaseStep == Base /\ [Next]_vars => Base'
<1> SUFFICES ASSUME Base, [Next]_vars PROVE Base'
  OBVIOUS
<1>1. CASE Over \/ UNCHANGED vars
  <2>1. UNCHANGED vars
    BY <1>1 DEF Over
  <2>2. Work'
    BY <2>1, StopKeeps DEF Base, Work, vars, connVars, Process
  <2> QED
    BY <2>1, <2>2, Kept DEF Base, Work, vars, connVars
<1> QED
  BY <1>1, ClientKeeps, ServerKeeps, FaultKeeps DEF Next, Step, Process

(* What may be left to do for a connection, which connections the server   *)
(* knows, what a message says and what the table shows, in every run of    *)
(* server.rs and client.rs, whatever fails.                                *)
THEOREM BaseInvariant == Spec => []Base
  BY InitBase, BaseStep, PTL DEF Spec

(* Types; a connection waits for the server or is served, once             *)
(* (server.rs:18).                                                         *)
THEOREM TypeInvariant == Spec => []TypeOK
<1>1. Base => TypeOK
  <2> SUFFICES ASSUME Base PROVE TypeOK
    OBVIOUS
  <2>1. \A i \in DOMAIN backlog : backlog[i] \in Conn
    BY ElementOfSeq, LenProperties DEF Base, WorkTypes
  <2> QED
    BY <2>1 DEF Base, TypeOK, WorkTypes, HeardOnce, EndTypes, QpHeld, TableHeld
<1> QED
  BY <1>1, BaseInvariant, PTL

(* Each row on the server's terminal is below a header of its mode, however*)
(* many connections, rejections and failures came between                  *)
(* (server.rs:71).                                                         *)
THEOREM TableIsReadable == Spec => []RowsUnderTheirHeader
<1>1. Base => RowsUnderTheirHeader
  BY DEF Base, TableHeld
<1> QED
  BY <1>1, BaseInvariant, PTL

(* Neither side gets to the panic of transport::ud, whatever the clients   *)
(* ask for (client.rs:170, server.rs:40).                                  *)
THEOREM UdStaysUnbuilt == Spec => []UdIsNeverBuilt
<1>1. Base => UdIsNeverBuilt
  BY DEF Base, QpHeld
<1> QED
  BY <1>1, BaseInvariant, PTL

(* A server with --listen stays if accept_one never fails: no error of a   *)
(* connection gets past handle_connection (server.rs:19).                  *)
THEOREM OnlyAcceptStopsListener == "accept" \notin Faults => (Spec => []ListeningServerStays)
<1> SUFFICES ASSUME "accept" \notin Faults PROVE Spec => []ListeningServerStays
  OBVIOUS
<1>1. Init => ListeningServerStays
  BY DEF Init, ListeningServerStays
<1>2. ListeningServerStays /\ [Next]_vars => ListeningServerStays'
  <2> SUFFICES ASSUME Srv \in up, listen, "kill" \notin Faults, [Next]_vars
               PROVE  Srv \in up'
    BY DEF ListeningServerStays, Next, vars
  <2>1. EndServe => up' = up
    BY DEF EndServe, Listens
  <2>2. ASSUME NEW p, Abort(p) PROVE up' = up
    BY <2>1, <2>2 DEF Abort, EndRun
  <2>3. ASSUME NEW p, Exchange(p) PROVE up' = up
    BY <2>2, <2>3 DEF Exchange, Write, Read, ReadFails, Build, Post, Traffic, VerbsFail
  <2>4. ASSUME NEW p, NEW what, NEW kind, ReadEndpoint(p, what, kind) PROVE up' = up
    BY <2>2, <2>4 DEF ReadEndpoint
  <2>5. ASSUME NEW c \in Client, ClientStep(c) PROVE up' = up
    BY <2>2, <2>3, <2>4, <2>5
       DEF ClientStep, ReadRejection, StartRun, Connect, Refuse, Return, EndRun
  <2>6. CASE ServerStep
    BY <2>1, <2>3, <2>4, <2>6 DEF ServerStep, Accept, ReadRequest, ReturnRejected, ReadRow
  <2>7. CASE Over \/ UNCHANGED vars
    BY <2>7 DEF Over, vars
  <2> QED
    BY <2>5, <2>6, <2>7 DEF Next, Step, AcceptFails, Kill
<1> QED
  BY <1>1, <1>2, PTL DEF Spec
-------------------------------------------------------------------------------
(***************************************************************************)
(* The sessions keep the promise of Service.tla.  Promised joins Base: the *)
(* order of each side's steps makes a message a proof of what its sender   *)
(* has behind it, and a row one of a run that cannot fail any more.  With  *)
(* it, every step of a session is one of the service or none.              *)
(***************************************************************************)

(***************************************************************************)
(* The order in the code of the two sides.                                 *)
(***************************************************************************)

(* Where the elements of two sequences are in the two together.            *)
LEMMA Places ==
  ASSUME NEW S, NEW s \in Seq(S), NEW t \in Seq(S)
  PROVE  /\ s \o t \in Seq(S)
         /\ \A i \in DOMAIN s : i \in DOMAIN (s \o t) /\ (s \o t)[i] = s[i]
         /\ \A i \in DOMAIN t : i + Len(s) \in DOMAIN (s \o t) /\ (s \o t)[i + Len(s)] = t[i]
         /\ \A i \in DOMAIN (s \o t) :
              \/ i \in DOMAIN s
              \/ i \in Nat /\ i > Len(s) /\ i - Len(s) \in DOMAIN t /\ (s \o t)[i] = t[i - Len(s)]
         /\ \A x : Has(s, x) \/ Has(t, x) => Has(s \o t, x)
<1>1. /\ Len(s) \in Nat /\ Len(t) \in Nat /\ DOMAIN s = 1 .. Len(s) /\ DOMAIN t = 1 .. Len(t)
  BY LenProperties
<1> DEFINE u == s \o t
<1>2. /\ u \in Seq(S) /\ Len(u) = Len(s) + Len(t)
      /\ \A i \in 1 .. Len(s) + Len(t) : u[i] = IF i <= Len(s) THEN s[i] ELSE t[i - Len(s)]
  BY ConcatProperties
<1>3. DOMAIN u = 1 .. Len(s) + Len(t)
  BY <1>2, LenProperties
<1> HIDE DEF u
<1>4. \A i \in DOMAIN s : i \in DOMAIN u /\ u[i] = s[i]
  BY <1>1, <1>2, <1>3
<1>5. \A i \in DOMAIN t : i + Len(s) \in DOMAIN u /\ u[i + Len(s)] = t[i]
  <2> SUFFICES ASSUME NEW i \in 1 .. Len(t)
               PROVE  i + Len(s) \in 1 .. Len(s) + Len(t) /\ u[i + Len(s)] = t[i]
    BY <1>1, <1>3
  <2>1. /\ i + Len(s) \in 1 .. Len(s) + Len(t) /\ ~(i + Len(s) <= Len(s))
        /\ (i + Len(s)) - Len(s) = i
    BY <1>1
  <2> QED
    BY <1>2, <2>1
<1>6. \A i \in DOMAIN u :
        \/ i \in DOMAIN s
        \/ i \in Nat /\ i > Len(s) /\ i - Len(s) \in DOMAIN t /\ u[i] = t[i - Len(s)]
  BY <1>1, <1>2, <1>3
<1>7. \A x : Has(s, x) \/ Has(t, x) => Has(u, x)
  BY <1>4, <1>5 DEF Has
<1> QED
  BY <1>2, <1>4, <1>5, <1>6, <1>7 DEF u

(* One step is in its own sequence.                                        *)
LEMMA HasOne == ASSUME NEW x PROVE Has(<<x>>, x)
<1>1. 1 \in DOMAIN <<x>> /\ <<x>>[1] = x
  OBVIOUS
<1> QED
  BY <1>1 DEF Has

Body == Item \ {RowItem, ReturnItem}

(* The end of a run is behind everything else, and only the return is      *)
(* behind the row.                                                         *)
LEMMA ClientOrder ==
  ASSUME NEW c \in Client, NEW mode \in Modes
  PROVE  LET s == ClientSteps(c, mode)
         IN /\ Has(s, AckItem)
            /\ \A i, j \in DOMAIN s :
                 /\ s[i] = AckItem /\ s[j] = ReturnItem => i < j
                 /\ s[i] = RowItem /\ i < j => s[j] = ReturnItem
<1> DEFINE start == Do("build") \o Do("connect")
           asked == start \o Send("request")
           heard == asked \o Recv("ack")
           told == heard \o Send("endpoint")
           ran == told \o ClientBench(c, mode)
           s == ran \o Conclude
<1>1. /\ Do("build") \in Seq(Body) /\ Do("connect") \in Seq(Body) /\ Send("request") \in Seq(Body)
      /\ Recv("ack") \in Seq(Body) /\ Send("endpoint") \in Seq(Body)
  <2>1. /\ <<"do", "build">> \in Body /\ <<"do", "connect">> \in Body
        /\ <<"send", "request">> \in Body /\ <<"recv", "ack">> \in Body
        /\ <<"send", "endpoint">> \in Body
    BY DEF Body, Item, Words, Kinds, RowItem, ReturnItem
  <2> QED
    BY <2>1 DEF Do, Send, Recv
<1>2. ClientBench(c, mode) \in Seq(Body)
  BY BenchTypes, SeqMonotonic DEF Inner, Quiet, Body
<1>3. start \in Seq(Body)
  BY <1>1, Places
<1> HIDE DEF start
<1>4. asked \in Seq(Body)
  BY <1>1, <1>3, Places
<1> HIDE DEF asked
<1>5. heard \in Seq(Body) /\ Has(heard, AckItem)
  <2>1. Has(Recv("ack"), AckItem)
    BY HasOne DEF Recv, AckItem
  <2> QED
    BY <1>1, <1>4, <2>1, Places
<1> HIDE DEF heard
<1>6. told \in Seq(Body) /\ Has(told, AckItem)
  BY <1>1, <1>5, Places
<1> HIDE DEF told
<1>7. ran \in Seq(Body) /\ Has(ran, AckItem)
  BY <1>2, <1>6, Places
<1> HIDE DEF ran
<1>8. /\ Conclude \in Seq(Item) /\ DOMAIN Conclude = 1 .. 2
      /\ Conclude[1] = RowItem /\ Conclude[2] = ReturnItem
  <2>1. RowItem \in Item /\ ReturnItem \in Item
    BY DEF RowItem, ReturnItem, Item, Words, Kinds
  <2>2. Conclude = <<RowItem>> \o <<ReturnItem>>
    BY DEF Conclude, Send, Do, RowItem, ReturnItem
  <2> HIDE DEF RowItem, ReturnItem
  <2> QED
    BY <2>1, <2>2, TwoSteps
<1>9. ran \in Seq(Item) /\ Len(ran) \in Nat /\ DOMAIN ran = 1 .. Len(ran)
      /\ \A i \in DOMAIN ran : ran[i] \notin {RowItem, ReturnItem}
  BY <1>7, SeqMonotonic, LenProperties, ElementOfSeq DEF Body
<1>10. /\ Has(s, AckItem)
       /\ \A i \in DOMAIN s : \/ i \in DOMAIN ran /\ s[i] = ran[i]
                              \/ i \in Nat /\ i > Len(ran) /\ i - Len(ran) \in 1 .. 2
                                   /\ s[i] = Conclude[i - Len(ran)]
  BY <1>7, <1>8, <1>9, Places
<1> HIDE DEF s
<1>11. ASSUME NEW i \in DOMAIN s, NEW j \in DOMAIN s
       PROVE  /\ s[i] = AckItem /\ s[j] = ReturnItem => i < j
              /\ s[i] = RowItem /\ i < j => s[j] = ReturnItem
  <2>1. AckItem # RowItem /\ AckItem # ReturnItem /\ RowItem # ReturnItem
    BY DEF AckItem, RowItem, ReturnItem
  <2>2. CASE j \in DOMAIN ran /\ s[j] = ran[j]
    <3>1. s[j] # ReturnItem
      BY <1>9, <2>2
    <3>2. ASSUME i < j PROVE s[i] # RowItem
      <4>1. ~(i \in Nat /\ i > Len(ran))
        BY <1>9, <2>2, <3>2
      <4> QED
        BY <1>9, <1>10, <4>1
    <3> QED
      BY <3>1, <3>2
  <2>3. CASE j \in Nat /\ j > Len(ran) /\ j - Len(ran) \in 1 .. 2 /\ s[j] = Conclude[j - Len(ran)]
    <3>1. CASE i \in DOMAIN ran /\ s[i] = ran[i]
      <4>1. i < j /\ s[i] # RowItem
        BY <1>9, <2>3, <3>1
      <4> QED
        BY <4>1
    <3>2. CASE i \in Nat /\ i > Len(ran) /\ i - Len(ran) \in 1 .. 2 /\ s[i] = Conclude[i - Len(ran)]
      <4>1. s[i] # AckItem
        <5>1. i - Len(ran) = 1 \/ i - Len(ran) = 2
          BY <1>9, <3>2
        <5> QED
          BY <1>8, <2>1, <3>2, <5>1
      <4>2. ASSUME i < j PROVE s[j] = ReturnItem
        <5>1. j - Len(ran) = 2
          BY <1>9, <2>3, <3>2, <4>2
        <5> QED
          BY <1>8, <2>3, <5>1
      <4> QED
        BY <4>1, <4>2
    <3> QED
      BY <1>10, <3>1, <3>2
  <2> QED
    BY <1>10, <2>2, <2>3
<1>12. ClientSteps(c, mode) = s
  BY DEF ClientSteps, s, ran, told, heard, asked, start
<1> QED
  BY <1>10, <1>11, <1>12

\* The queue pair is built first, and never again.
BuildsFirst(s) ==
  /\ 1 \in DOMAIN s /\ s[1] = BuildItem
  /\ \A i \in DOMAIN s : s[i] = BuildItem => i = 1

Unbuilt == Item \ {BuildItem}

(* Nor does what follows it change that.                                   *)
LEMMA BuildsFirstConcat ==
  ASSUME NEW s \in Seq(Item), BuildsFirst(s), NEW t \in Seq(Unbuilt)
  PROVE  s \o t \in Seq(Item) /\ BuildsFirst(s \o t)
<1>1. t \in Seq(Item) /\ \A i \in DOMAIN t : t[i] # BuildItem
  BY SeqMonotonic, ElementOfSeq, LenProperties DEF Unbuilt
<1> QED
  BY <1>1, Places DEF BuildsFirst

(* The server says "ok" and waits for a row only behind its build.         *)
LEMMA ServerOrder ==
  ASSUME NEW req \in [transport : Transports, mode : Modes]
  PROVE  LET s == ServerSteps(req)
         IN /\ \A i, j \in DOMAIN s : s[i] = BuildItem /\ s[j] \in SetUpItems => i < j
            /\ (\E i \in DOMAIN s : s[i] \in SetUpItems) => Has(s, BuildItem)
<1>1. CASE Supported(req)
  <2> DEFINE said == Do("build") \o Send("ok")
             met == said \o Recv("endpoint")
             ran == met \o ServerBench(req.mode)
             s == ran \o Recv("row")
  <2>1. /\ Send("ok") \in Seq(Unbuilt) /\ Recv("endpoint") \in Seq(Unbuilt)
        /\ Recv("row") \in Seq(Unbuilt)
    <3>1. /\ <<"send", "ok">> \in Unbuilt /\ <<"recv", "endpoint">> \in Unbuilt
          /\ <<"recv", "row">> \in Unbuilt
      BY DEF Unbuilt, Item, Words, Kinds, BuildItem
    <3> QED
      BY <3>1 DEF Send, Recv
  <2>2. ServerBench(req.mode) \in Seq(Unbuilt)
    BY BenchTypes, SeqMonotonic DEF Inner, Quiet, Unbuilt
  <2>3. Do("build") \in Seq(Item) /\ BuildsFirst(Do("build"))
    <3>1. BuildItem \in Item
      BY DEF BuildItem, Item, Words
    <3>2. Do("build") = <<BuildItem>>
      BY DEF Do, BuildItem
    <3>3. /\ <<BuildItem>> \in Seq(Item) /\ DOMAIN <<BuildItem>> = {1} /\ <<BuildItem>>[1] = BuildItem
      BY <3>1
    <3> QED
      BY <3>2, <3>3 DEF BuildsFirst
  <2>4. said \in Seq(Item) /\ BuildsFirst(said)
    BY <2>1, <2>3, BuildsFirstConcat
  <2> HIDE DEF said
  <2>5. met \in Seq(Item) /\ BuildsFirst(met)
    BY <2>1, <2>4, BuildsFirstConcat
  <2> HIDE DEF met
  <2>6. ran \in Seq(Item) /\ BuildsFirst(ran)
    BY <2>2, <2>5, BuildsFirstConcat
  <2> HIDE DEF ran
  <2>7. s \in Seq(Item) /\ BuildsFirst(s)
    BY <2>1, <2>6, BuildsFirstConcat
  <2> HIDE DEF s
  <2>8. DOMAIN s = 1 .. Len(s) /\ Len(s) \in Nat /\ BuildItem \notin SetUpItems
    BY <2>7, LenProperties DEF SetUpItems, BuildItem
  <2>9. \A i, j \in DOMAIN s : s[i] = BuildItem /\ s[j] \in SetUpItems => i < j
    BY <2>7, <2>8 DEF BuildsFirst
  <2>10. Has(s, BuildItem)
    BY <2>7 DEF BuildsFirst, Has
  <2>11. ServerSteps(req) = s
    BY <1>1 DEF ServerSteps, s, ran, met, said
  <2> QED
    BY <2>9, <2>10, <2>11
<1>2. CASE ~Supported(req)
  <2> DEFINE s == Send("unsupported") \o Do("return")
  <2>1. ServerSteps(req) = s
    BY <1>2 DEF ServerSteps
  <2>2. <<"send", "unsupported">> \in Item /\ <<"do", "return">> \in Item
    BY DEF Item, Words, Kinds
  <2>3. /\ DOMAIN s = 1 .. 2
        /\ s[1] = <<"send", "unsupported">> /\ s[2] = <<"do", "return">>
    BY <2>2, TwoSteps DEF Send, Do
  <2> HIDE DEF s
  <2>4. \A i \in 1 .. 2 : s[i] \notin SetUpItems
    BY <2>3 DEF SetUpItems
  <2> QED
    BY <2>1, <2>3, <2>4
<1> QED
  BY <1>1, <1>2
--------------------------------------------------------------------------------
(***************************************************************************)
(* Promised is inductive.                                                  *)
(***************************************************************************)

\* Side s of conn has no message it had not before.
OldMail(conn, s) ==
  \A i \in DOMAIN mail'[conn][s] : \E k \in DOMAIN mail[conn][s] : mail'[conn][s][i] = mail[conn][s][k]

\* Nor has it one from anybody but p, at work on its next step.
MailBy(p) ==
  \A conn \in Conn : \A s \in Side : \A i \in DOMAIN mail'[conn][s] :
    \/ \E k \in DOMAIN mail[conn][s] : mail'[conn][s][i] = mail[conn][s][k]
    \/ /\ conn = ConnOf(p) /\ s = Other(SideOf(p))
       /\ Head(todo[p]) = <<"send", mail'[conn][s][i].kind>>

AllOldMail == \A conn \in Conn : \A s \in Side : OldMail(conn, s)

(* What is behind a message is not undone.                                 *)
LEMMA MailKept == mail' = mail => AllOldMail
  BY DEF AllOldMail, OldMail

(* Reading a message brings none.                                          *)
LEMMA TakeIsOld ==
  ASSUME Work, MailHeld, NEW p \in Process, todo[p] # <<>>, NEW kinds, Take(p, kinds)
  PROVE  AllOldMail
<1> DEFINE here == ConnOf(p)
           side == SideOf(p)
           q == mail[here][side]
<1>1. here \in Conn /\ side \in Side
  BY AtWork
<1>2. q \in Seq(Letters(here)) /\ q # <<>>
  BY <1>1 DEF MailHeld, Take
<1>3. mail' = [mail EXCEPT ![here][side] = Tail(q)]
  BY DEF Take
<1>4. \A conn \in Conn : mail[conn] \in [Side -> Seq(Letters(conn))]
  BY DEF MailHeld
<1>5. DOMAIN mail = Conn
  BY DEF MailHeld
<1> HIDE DEF here, side
<1>6. /\ mail'[here][side] = Tail(q)
      /\ \A conn \in Conn : \A s \in Side :
           ~(conn = here /\ s = side) => mail'[conn][s] = mail[conn][s]
  BY <1>1, <1>3, <1>4, <1>5
<1> HIDE DEF q
<1>7. \A i \in DOMAIN Tail(q) : \E k \in DOMAIN q : Tail(q)[i] = q[k]
  <2>1. /\ Len(q) \in Nat \ {0} /\ DOMAIN q = 1 .. Len(q) /\ Tail(q) \in Seq(Letters(here))
        /\ Len(Tail(q)) = Len(q) - 1
        /\ \A i \in 1 .. Len(Tail(q)) : Tail(q)[i] = q[i + 1]
    BY <1>2, EmptySeq, HeadTailProperties, LenProperties
  <2>2. DOMAIN Tail(q) = 1 .. Len(q) - 1
    BY <2>1, LenProperties
  <2>3. \A i \in 1 .. Len(q) - 1 : i + 1 \in 1 .. Len(q)
    BY <2>1
  <2> QED
    BY <2>1, <2>2, <2>3
<1>8. ASSUME NEW conn \in Conn, NEW s \in Side PROVE OldMail(conn, s)
  <2>1. CASE conn = here /\ s = side
    <3> DEFINE left == Tail(q)
    <3>1. mail'[conn][s] = left /\ mail[conn][s] = q
      BY <1>6, <2>1 DEF q
    <3>2. \A i \in DOMAIN left : \E k \in DOMAIN q : left[i] = q[k]
      BY <1>7
    <3> HIDE DEF left
    <3> QED
      BY <3>1, <3>2 DEF OldMail
  <2>2. CASE ~(conn = here /\ s = side)
    BY <1>6, <2>2 DEF OldMail
  <2> QED
    BY <2>1, <2>2
<1> QED
  BY <1>8 DEF AllOldMail

(* Writing one brings no other.                                            *)
LEMMA WriteIsBy ==
  ASSUME Work, MailHeld, NEW p \in Process, todo[p] # <<>>, NEW kind,
         Head(todo[p]) = <<"send", kind>>, NEW m \in Message(p, kind),
         mail' = [mail EXCEPT ![ConnOf(p)][Other(SideOf(p))] = Append(@, m)]
  PROVE  MailBy(p)
<1> DEFINE here == ConnOf(p)
           side == Other(SideOf(p))
           q == mail[here][side]
<1>1. here \in Conn /\ side \in Side
  BY AtWork
<1>2. m.kind = kind
  BY DEF Message
<1>3. \A conn \in Conn : mail[conn] \in [Side -> Seq(Letters(conn))]
  BY DEF MailHeld
<1>4. DOMAIN mail = Conn /\ mail' = [mail EXCEPT ![here][side] = Append(@, m)]
  BY DEF MailHeld
<1> HIDE DEF here, side
<1>5. /\ mail'[here][side] = Append(q, m)
      /\ \A conn \in Conn : \A s \in Side :
           ~(conn = here /\ s = side) => mail'[conn][s] = mail[conn][s]
  BY <1>1, <1>3, <1>4
<1>6. q \in Seq(Letters(here))
  BY <1>1, <1>3
<1> HIDE DEF q
<1>7. \A i \in DOMAIN Append(q, m) :
        (\E k \in DOMAIN q : Append(q, m)[i] = q[k]) \/ Append(q, m)[i] = m
  <2> DEFINE S == Letters(here) \cup {m}
  <2>1. q \in Seq(S) /\ m \in S
    BY <1>6, SeqMonotonic
  <2> HIDE DEF S
  <2>2. /\ Len(q) \in Nat /\ DOMAIN q = 1 .. Len(q)
        /\ Append(q, m) \in Seq(S) /\ Len(Append(q, m)) = Len(q) + 1
        /\ \A i \in 1 .. Len(q) : Append(q, m)[i] = q[i]
        /\ Append(q, m)[Len(q) + 1] = m
    BY <2>1, AppendProperties, LenProperties
  <2>3. DOMAIN Append(q, m) = 1 .. Len(q) + 1
    BY <2>2, LenProperties
  <2>4. \A i \in 1 .. Len(q) + 1 : i \in 1 .. Len(q) \/ i = Len(q) + 1
    BY <2>2
  <2> QED
    BY <2>2, <2>3, <2>4
<1>8. ASSUME NEW conn \in Conn, NEW s \in Side, NEW i \in DOMAIN mail'[conn][s]
      PROVE  \/ \E k \in DOMAIN mail[conn][s] : mail'[conn][s][i] = mail[conn][s][k]
             \/ conn = here /\ s = side /\ mail'[conn][s][i] = m
  BY <1>5, <1>7, <1>8 DEF q
<1> QED
  BY <1>2, <1>8 DEF MailBy, here, side

\* What is true of a connection once, stays true of it.
Lasting ==
  \A conn \in Conn : /\ Begun(conn) => Begun(conn)'
                     /\ Concluded(conn) => Concluded(conn)'

RowsOnTheirWay ==
  \A conn \in Conn : \A i \in DOMAIN mail[conn]["Server"] :
    mail[conn]["Server"][i].kind = "row" => Concluded(conn)

(* The server goes on closing only what it has heard of.                   *)
LEMMA ClosedKeep ==
  ASSUME ClosedAreBegun, Lasting,
         \A conn \in Conn : "Server" \in closed'[conn] => "Server" \in closed[conn] \/ Begun(conn)
  PROVE  ClosedAreBegun'
<1>1. \A conn \in Conn : "Server" \in closed'[conn] => Begun(conn)'
  BY DEF ClosedAreBegun, Lasting
<1> QED
  BY <1>1 DEF ClosedAreBegun, Conn

(* Rows on their way stay rows of runs that cannot fail any more.          *)
LEMMA OldRows ==
  ASSUME RowsAreFinal, Lasting, AllOldMail
  PROVE  RowsOnTheirWay'
<1>1. \A conn \in Conn : \A i \in DOMAIN mail'[conn]["Server"] :
        mail'[conn]["Server"][i].kind = "row" => Concluded(conn)'
  BY DEF RowsAreFinal, Lasting, AllOldMail, OldMail, Side
<1> QED
  BY <1>1 DEF RowsOnTheirWay, Conn

\* The table shows runs that have come to their end.
TableOfFinal == \A i \in DOMAIN printed' : \E conn \in Conn : printed'[i].conn = conn /\ Concluded(conn)

(* So do those printed,                                                    *)
LEMMA OldTable == ASSUME RowsAreFinal, TableHeld, printed' = printed PROVE TableOfFinal
<1>1. \A i \in DOMAIN printed : printed[i].conn \in Conn
  <2>1. \A i \in DOMAIN printed : printed[i] \in Rows
    BY ElementOfSeq, LenProperties DEF TableHeld
  <2> QED
    BY <2>1 DEF Rows
<1> QED
  BY <1>1 DEF TableOfFinal, RowsAreFinal

(* which is all there is to RowsAreFinal.                                  *)
LEMMA RowsKeep ==
  ASSUME Lasting, RowsOnTheirWay', TableOfFinal
  PROVE  RowsAreFinal'
<1>1. ASSUME NEW i \in DOMAIN printed' PROVE Concluded(printed[i].conn)'
  <2>1. PICK conn \in Conn : printed'[i].conn = conn /\ Concluded(conn)
    BY <1>1 DEF TableOfFinal
  <2>2. Concluded(conn)'
    BY <2>1 DEF Lasting
  <2> QED
    BY <2>1, <2>2 DEF Concluded
<1> QED
  BY <1>1 DEF RowsAreFinal, RowsOnTheirWay, Conn

\* The third conjunct of SetUpFirst.
AcksAreTrue ==
  \A conn \in Conn : \A i \in DOMAIN mail[conn]["Client"] :
    mail[conn]["Client"][i].kind = "ok" => Equipped(conn)

(* An "ok" that is on its way stays true.                                  *)
LEMMA OldAcks ==
  ASSUME SetUpFirst, AllOldMail, \A conn \in Conn : Equipped(conn) => Equipped(conn)'
  PROVE  AcksAreTrue'
<1>1. \A conn \in Conn : \A i \in DOMAIN mail'[conn]["Client"] :
        mail'[conn]["Client"][i].kind = "ok" => Equipped(conn)'
  BY DEF SetUpFirst, AllOldMail, OldMail, Side
<1> QED
  BY <1>1 DEF AcksAreTrue, Conn

(* The order of the steps left is that of the steps.                       *)
LEMMA AdvanceOrdered ==
  ASSUME Work, Ordered, NEW p \in Process, todo[p] # <<>>, Advance(p)
  PROVE  Ordered'
<1>1. /\ \A q \in Process : q # p => todo'[q] = todo[q]
      /\ \A i \in DOMAIN todo'[p] :
           i \in Nat \ {0} /\ i + 1 \in DOMAIN todo[p] /\ todo'[p][i] = todo[p][i + 1]
  BY AdvanceIs DEF Work
<1>2. Srv \in Process /\ \A c \in Client : c \in Process
  BY DEF Process
<1>3. ASSUME NEW c \in Client, NEW i \in DOMAIN todo'[c], NEW j \in DOMAIN todo'[c]
      PROVE  /\ todo'[c][i] = AckItem /\ todo'[c][j] = ReturnItem => i < j
             /\ todo'[c][i] = RowItem /\ i < j => todo'[c][j] = ReturnItem
  <2>1. CASE c # p
    BY <1>1, <1>2, <1>3, <2>1 DEF Ordered
  <2>2. CASE c = p
    <3>1. /\ todo[c][i + 1] = AckItem /\ todo[c][j + 1] = ReturnItem => i + 1 < j + 1
          /\ todo[c][i + 1] = RowItem /\ i + 1 < j + 1 => todo[c][j + 1] = ReturnItem
      BY <1>1, <1>3, <2>2 DEF Ordered
    <3> QED
      BY <1>1, <1>3, <2>2, <3>1
  <2> QED
    BY <2>1, <2>2
<1>4. ASSUME NEW i \in DOMAIN todo'[Srv], NEW j \in DOMAIN todo'[Srv],
             todo'[Srv][i] = BuildItem, todo'[Srv][j] \in SetUpItems
      PROVE  i < j
  <2>1. CASE Srv # p
    BY <1>1, <1>2, <1>4, <2>1 DEF Ordered
  <2>2. CASE Srv = p
    <3>1. i + 1 < j + 1
      BY <1>1, <1>4, <2>2 DEF Ordered
    <3> QED
      BY <1>1, <1>4, <2>2, <3>1
  <2> QED
    BY <2>1, <2>2
<1> QED
  BY <1>3, <1>4 DEF Ordered

(* The first of the steps left.                                            *)
LEMMA HeadIs ==
  ASSUME Work, NEW p \in Process, todo[p] # <<>>
  PROVE  /\ 1 \in DOMAIN todo[p] /\ Head(todo[p]) = todo[p][1]
         /\ \A i \in DOMAIN todo[p] : i \in Nat \ {0}
         /\ Advance(p) => \A i \in DOMAIN todo[p] :
              i # 1 => i - 1 \in DOMAIN todo'[p] /\ todo'[p][i - 1] = todo[p][i]
<1> DEFINE s == todo[p]
<1>1. s \in Seq(Item) /\ s # <<>> /\ todo \in [Process -> Seq(Item)]
  BY DEF Work, WorkTypes, Process
<1>2. Advance(p) => todo'[p] = Tail(s)
  BY <1>1 DEF Advance
<1> HIDE DEF s
<1>3. /\ Len(s) \in Nat \ {0} /\ DOMAIN s = 1 .. Len(s) /\ Head(s) = s[1]
      /\ Tail(s) \in Seq(Item) /\ Len(Tail(s)) = Len(s) - 1
      /\ \A i \in 1 .. Len(Tail(s)) : Tail(s)[i] = s[i + 1]
  BY <1>1, EmptySeq, HeadTailProperties, LenProperties
<1>4. DOMAIN Tail(s) = 1 .. Len(s) - 1
  BY <1>3, LenProperties
<1>5. \A i \in 1 .. Len(s) : i # 1 => i - 1 \in 1 .. Len(s) - 1 /\ (i - 1) + 1 = i
  BY <1>3
<1>6. ASSUME NEW i \in DOMAIN s, i # 1
      PROVE  i - 1 \in DOMAIN Tail(s) /\ Tail(s)[i - 1] = s[i]
  BY <1>3, <1>4, <1>5, <1>6
<1>7. /\ 1 \in DOMAIN s /\ Head(s) = s[1]
      /\ \A i \in DOMAIN s : i \in Nat \ {0}
  BY <1>3
<1>8. ASSUME Advance(p)
      PROVE  \A i \in DOMAIN s : i # 1 => i - 1 \in DOMAIN todo'[p] /\ todo'[p][i - 1] = s[i]
  BY <1>2, <1>6, <1>8
<1> QED
  BY <1>7, <1>8 DEF s

(* What a step that only its process sees leaves true.                     *)
LEMMA AdvanceLasts ==
  ASSUME Work, NEW p \in Process, todo[p] # <<>>, Advance(p), at' = at, result' = result
  PROVE  Lasting
<1>1. /\ \A q \in Process : q # p => todo'[q] = todo[q]
      /\ \A i \in DOMAIN todo'[p] : i + 1 \in DOMAIN todo[p] /\ todo'[p][i] = todo[p][i + 1]
  BY AdvanceIs DEF Work
<1>2. ASSUME NEW conn \in Conn PROVE conn[1] \in Process
  BY ConnIs DEF Process
<1> QED
  BY <1>1, <1>2 DEF Lasting, Begun, Connected, Concluded

(* One step done, and what it says is true.                                *)
LEMMA AdvancePromise ==
  ASSUME Base, Promised, NEW p \in Process, todo[p] # <<>>, Advance(p), MailBy(p),
         UNCHANGED <<at, serving, closed, result, printed>>,
         \A conn \in Conn : Equipped(conn) => Equipped(conn)',
         p # Srv /\ Head(todo[p]) = AckItem => Equipped(ConnOf(p))',
         p = Srv /\ Head(todo[p]) = BuildItem => Equipped(ConnOf(p))'
  PROVE  Promised'
<1>1. Work /\ TableHeld /\ Ordered /\ SetUpFirst /\ RowsAreFinal /\ PendingTillEnd /\ ClosedAreBegun
  BY DEF Base, Work, Promised
<1>2. Ordered'
  BY <1>1, AdvanceOrdered
<1>3. Lasting
  BY <1>1, AdvanceLasts
<1>4. ClosedAreBegun'
  BY <1>1, <1>3, ClosedKeep
<1>5. /\ \A q \in Process : q # p => todo'[q] = todo[q]
      /\ todo[p] # <<>>
      /\ \A i \in DOMAIN todo'[p] :
           i \in Nat \ {0} /\ i + 1 \in DOMAIN todo[p] /\ todo'[p][i] = todo[p][i + 1]
  BY <1>1, AdvanceIs DEF Work
<1>6. Srv \in Process /\ (\A c \in Client : c \in Process /\ c # Srv) /\ ConnOf(p) \in Conn
  BY <1>1, SuiteAssumption, AtWork DEF Process
<1>7. PendingTillEnd'
  <2>1. \A conn \in Conn : todo'[conn[1]] # <<>> => todo[conn[1]] # <<>>
    BY <1>5, <1>6, ConnIs
  <2>2. \A conn \in Conn :
          conn[2] > at'[conn[1]] \/ (conn[2] = at'[conn[1]] /\ todo'[conn[1]] # <<>>)
            => result'[conn] = "pending"
    BY <1>1, <2>1 DEF PendingTillEnd
  <2> QED
    BY <2>2 DEF PendingTillEnd, Conn
<1>8. /\ 1 \in DOMAIN todo[p] /\ Head(todo[p]) = todo[p][1]
      /\ \A i \in DOMAIN todo[p] : i \in Nat \ {0}
      /\ \A i \in DOMAIN todo[p] : i # 1 => i - 1 \in DOMAIN todo'[p] /\ todo'[p][i - 1] = todo[p][i]
  BY <1>1, HeadIs
<1>9. RowsAreFinal'
  <2>1. ASSUME p # Srv, Head(todo[p]) = RowItem PROVE Concluded(ConnOf(p))'
    <3>1. p \in Client /\ ConnOf(p) = <<p, at[p]>> /\ at[p] \in Nat
      BY <1>1, <2>1 DEF Process, ConnOf, Work, WorkTypes
    <3>2. \A i \in DOMAIN todo'[p] : todo'[p][i] = ReturnItem
      <4> SUFFICES ASSUME NEW i \in DOMAIN todo'[p] PROVE todo[p][i + 1] = ReturnItem
        BY <1>5
      <4>1. i + 1 \in DOMAIN todo[p] /\ 1 < i + 1
        BY <1>5
      <4> QED
        BY <1>1, <1>8, <2>1, <3>1, <4>1 DEF Ordered
    <3>3. result[<<p, at[p]>>] = "pending"
      BY <1>1, <1>5, <1>6, <3>1 DEF PendingTillEnd
    <3>4. at' = at /\ result' = result
      OBVIOUS
    <3> DEFINE here == <<p, at[p]>>
    <3>5. here[1] = p /\ here[2] = at[p] /\ at'[p] = at[p] /\ result'[here] = "pending"
      BY <3>3, <3>4
    <3> HIDE DEF here
    <3>6. Concluded(here)'
      BY <3>1, <3>2, <3>5 DEF Concluded, here
    <3> QED
      BY <3>1, <3>4, <3>6, <1>6 DEF here, Concluded, ConnOf
  <2>2. ASSUME NEW conn \in Conn, NEW i \in DOMAIN mail'[conn]["Server"],
               mail'[conn]["Server"][i].kind = "row"
        PROVE  Concluded(conn)'
    <3>1. CASE \E k \in DOMAIN mail[conn]["Server"] :
                 mail'[conn]["Server"][i] = mail[conn]["Server"][k]
      BY <1>1, <1>3, <2>2, <3>1 DEF RowsAreFinal, Lasting
    <3>2. CASE /\ conn = ConnOf(p) /\ "Server" = Other(SideOf(p))
               /\ Head(todo[p]) = <<"send", "row">>
      <4>1. p # Srv /\ Head(todo[p]) = RowItem
        BY <3>2 DEF Other, SideOf, RowItem
      <4>2. Concluded(ConnOf(p))'
        BY <2>1, <4>1
      <4>3. ConnOf(p)' = ConnOf(p)
        BY DEF ConnOf
      <4> QED
        BY <3>2, <4>2, <4>3 DEF Concluded
    <3> QED
      BY <2>2, <3>1, <3>2 DEF MailBy, Side
  <2>3. RowsOnTheirWay'
    BY <2>2 DEF RowsOnTheirWay, Conn
  <2> QED
    BY <1>1, <1>3, <2>3, OldTable, RowsKeep
<1>10. ASSUME NEW c \in Client, todo'[c] # <<>>
       PROVE  (\E i \in DOMAIN todo'[c] : todo'[c][i] = AckItem) \/ Equipped(<<c, at[c]>>)'
  <2> DEFINE here == <<c, at[c]>>
  <2>1. c \in Process /\ c # Srv /\ todo[c] # <<>>
    BY <1>5, <1>6, <1>10
  <2>2. here \in Conn /\ here = ConnOf(c)
    BY <1>1, <2>1, AtWork DEF ConnOf
  <2>3. CASE Equipped(here)
    BY <2>2, <2>3 DEF Equipped
  <2>4. CASE \E i \in DOMAIN todo[c] : todo[c][i] = AckItem
    <3>1. PICK i \in DOMAIN todo[c] : todo[c][i] = AckItem
      BY <2>4
    <3>2. CASE c # p
      BY <1>5, <2>1, <3>1, <3>2
    <3>3. CASE c = p /\ i # 1
      BY <1>8, <3>1, <3>3
    <3>4. CASE c = p /\ i = 1
      <4>1. Equipped(ConnOf(p))'
        BY <1>8, <2>1, <3>1, <3>4
      <4> QED
        BY <2>1, <3>4, <4>1 DEF ConnOf, Equipped
    <3> QED
      BY <3>2, <3>3, <3>4
  <2> QED
    BY <1>1, <2>1, <2>3, <2>4 DEF SetUpFirst
<1>11. ASSUME NEW j \in DOMAIN todo'[Srv], todo'[Srv][j] \in SetUpItems
       PROVE  (\E i \in DOMAIN todo'[Srv] : todo'[Srv][i] = BuildItem) \/ Equipped(serving)'
  <2>1. (\E i \in DOMAIN todo[Srv] : todo[Srv][i] = BuildItem) \/ Equipped(serving)
    <3>1. \E i \in DOMAIN todo[Srv] : todo[Srv][i] \in SetUpItems
      BY <1>5, <1>6, <1>11
    <3> QED
      BY <1>1, <3>1 DEF SetUpFirst
  <2>2. serving \in Conn
    <3>1. todo[Srv] # <<>>
      BY <1>5, <1>6, <1>11
    <3> QED
      BY <1>1, <3>1 DEF Work, WorkTypes
  <2>3. CASE Equipped(serving)
    BY <2>2, <2>3 DEF Equipped
  <2>4. CASE \E i \in DOMAIN todo[Srv] : todo[Srv][i] = BuildItem
    <3>1. PICK i \in DOMAIN todo[Srv] : todo[Srv][i] = BuildItem
      BY <2>4
    <3>2. CASE Srv # p
      BY <1>5, <1>6, <3>1, <3>2
    <3>3. CASE Srv = p /\ i # 1
      BY <1>8, <3>1, <3>3
    <3>4. CASE Srv = p /\ i = 1
      <4>1. Equipped(ConnOf(p))'
        BY <1>8, <3>1, <3>4
      <4> QED
        BY <3>4, <4>1 DEF ConnOf, Equipped
    <3> QED
      BY <3>2, <3>3, <3>4
  <2> QED
    BY <2>1, <2>3, <2>4
<1>12. ASSUME NEW conn \in Conn, NEW i \in DOMAIN mail'[conn]["Client"],
              mail'[conn]["Client"][i].kind = "ok"
       PROVE  Equipped(conn)'
  <2>1. CASE \E k \in DOMAIN mail[conn]["Client"] :
               mail'[conn]["Client"][i] = mail[conn]["Client"][k]
    BY <1>1, <1>12, <2>1 DEF SetUpFirst
  <2>2. CASE /\ conn = ConnOf(p) /\ "Client" = Other(SideOf(p))
             /\ Head(todo[p]) = <<"send", "ok">>
    <3>1. p = Srv /\ conn = serving
      BY <2>2 DEF Other, SideOf, ConnOf
    <3>2. todo[Srv][1] \in SetUpItems /\ ~\E j \in DOMAIN todo[Srv] : j < 1
      <4>1. todo[Srv][1] = <<"send", "ok">> /\ \A j \in DOMAIN todo[Srv] : j \in Nat \ {0}
        BY <1>8, <2>2, <3>1
      <4>2. \A j \in Nat \ {0} : ~(j < 1)
        OBVIOUS
      <4>3. <<"send", "ok">> \in SetUpItems
        BY DEF SetUpItems
      <4> QED
        BY <4>1, <4>2, <4>3
    <3>3. ~\E j \in DOMAIN todo[Srv] : todo[Srv][j] = BuildItem
      BY <1>1, <1>8, <3>1, <3>2 DEF Ordered
    <3>4. Equipped(serving)
      BY <1>1, <1>8, <3>1, <3>2, <3>3 DEF SetUpFirst
    <3> QED
      BY <3>1, <3>4
  <2> QED
    BY <1>12, <2>1, <2>2 DEF MailBy, Side
<1>13. AcksAreTrue'
  BY <1>12 DEF AcksAreTrue, Conn
<1>14. SetUpFirst'
  BY <1>10, <1>11, <1>13 DEF SetUpFirst, AcksAreTrue, Equipped
<1> QED
  BY <1>2, <1>4, <1>7, <1>9, <1>14 DEF Promised

(* The end of what p does; it closes nothing the server has not heard of,  *)
(* and a run whose row is on its way does not fail.                        *)
LEMMA StopPromise ==
  ASSUME Base, Promised, NEW p \in Process, todo' \in {todo, [todo EXCEPT ![p] = <<>>]},
         at' = at, qp' = qp, AllOldMail, TableOfFinal, serving' \in {serving, NoConn},
         serving' # serving => todo'[Srv] = <<>>,
         \A conn \in Conn :
           \/ result'[conn] = result[conn]
           \/ /\ p \in Client /\ conn = <<p, at[p]>> /\ todo'[p] = <<>>
              /\ Concluded(conn) => result'[conn] \notin {"failed", "rejected"},
         \A conn \in Conn : "Server" \in closed'[conn] => "Server" \in closed[conn] \/ Begun(conn)
  PROVE  Promised'
<1>1. Work /\ TableHeld /\ Ordered /\ SetUpFirst /\ RowsAreFinal /\ PendingTillEnd /\ ClosedAreBegun
  BY DEF Base, Work, Promised
<1>2. Srv \in Process /\ (\A c \in Client : c \in Process) /\ DOMAIN <<>> = {}
  BY DEF Process
<1>3. \A q \in Process : todo'[q] = todo[q] \/ todo'[q] = <<>>
  <2>1. todo \in [Process -> Seq(Item)]
    BY <1>1 DEF Work, WorkTypes, Process
  <2>2. CASE todo' = todo
    BY <2>2
  <2>3. CASE todo' = [todo EXCEPT ![p] = <<>>]
    BY <2>1, <2>3
  <2> QED
    BY <2>2, <2>3
<1>4. Ordered'
  BY <1>1, <1>2, <1>3 DEF Ordered
<1>5. Lasting
  <2> SUFFICES ASSUME NEW conn \in Conn
               PROVE  (Begun(conn) => Begun(conn)') /\ (Concluded(conn) => Concluded(conn)')
    BY DEF Lasting
  <2>1. todo'[conn[1]] = todo[conn[1]] \/ todo'[conn[1]] = <<>>
    BY <1>2, <1>3, ConnIs
  <2>2. Begun(conn) => Begun(conn)'
    BY <1>2, <2>1 DEF Begun, Connected
  <2>3. Concluded(conn) => result'[conn] \notin {"failed", "rejected"}
    BY DEF Concluded
  <2>4. Concluded(conn) => Concluded(conn)'
    BY <1>2, <2>1, <2>3 DEF Concluded
  <2> QED
    BY <2>2, <2>4
<1>6. ClosedAreBegun'
  BY <1>1, <1>5, ClosedKeep
<1>7. RowsAreFinal'
  BY <1>1, <1>5, OldRows, RowsKeep
<1>8. PendingTillEnd'
  <2>1. ASSUME NEW conn \in Conn,
               conn[2] > at[conn[1]] \/ (conn[2] = at[conn[1]] /\ todo'[conn[1]] # <<>>)
        PROVE  result'[conn] = "pending"
    <3>1. todo'[conn[1]] # <<>> => todo[conn[1]] # <<>>
      BY <1>2, <1>3, ConnIs
    <3>2. result[conn] = "pending"
      BY <1>1, <2>1, <3>1 DEF PendingTillEnd
    <3>3. ~(p \in Client /\ conn = <<p, at[p]>> /\ todo'[p] = <<>>)
      <4> SUFFICES ASSUME p \in Client, conn = <<p, at[p]>>, todo'[p] = <<>> PROVE FALSE
        OBVIOUS
      <4>1. conn[1] = p /\ conn[2] = at[p] /\ at[p] \in Nat
        BY <1>1 DEF Work, WorkTypes
      <4> QED
        BY <2>1, <4>1
    <3> QED
      BY <3>2, <3>3
  <2> QED
    BY <2>1 DEF PendingTillEnd, Conn
<1>9. \A conn : Equipped(conn)' <=> qp[conn]["Server"] # NoQp
  BY DEF Equipped
<1>10. AcksAreTrue'
  BY <1>1, OldAcks DEF Equipped
<1>11. \A c \in Client :
         todo'[c] # <<>> => (\E i \in DOMAIN todo'[c] : todo'[c][i] = AckItem) \/ Equipped(<<c, at[c]>>)'
  BY <1>1, <1>2, <1>3 DEF SetUpFirst, Equipped
<1>12. (\E i \in DOMAIN todo'[Srv] : todo'[Srv][i] \in SetUpItems) =>
         (\E i \in DOMAIN todo'[Srv] : todo'[Srv][i] = BuildItem) \/ Equipped(serving)'
  <2> SUFFICES ASSUME \E i \in DOMAIN todo'[Srv] : todo'[Srv][i] \in SetUpItems
               PROVE  (\E i \in DOMAIN todo'[Srv] : todo'[Srv][i] = BuildItem) \/ Equipped(serving)'
    OBVIOUS
  <2>1. todo'[Srv] = todo[Srv] /\ serving' = serving
    BY <1>2, <1>3
  <2> QED
    BY <1>1, <2>1 DEF SetUpFirst, Equipped
<1>13. SetUpFirst'
  BY <1>10, <1>11, <1>12 DEF SetUpFirst, AcksAreTrue, Equipped
<1> QED
  BY <1>4, <1>6, <1>7, <1>8, <1>13 DEF Promised

(* A run that begins has nothing behind it.                                *)
LEMMA StartRunPromise == ASSUME Base, Promised, NEW c \in Client, StartRun(c) PROVE Promised'
<1>1. Work /\ TableHeld /\ Ordered /\ SetUpFirst /\ RowsAreFinal /\ PendingTillEnd /\ ClosedAreBegun
  BY DEF Base, Work, Promised
<1>2. /\ todo[c] = <<>> /\ at[c] < Len(Suite[c]) /\ at' = [at EXCEPT ![c] = @ + 1]
      /\ serving' = serving /\ mail' = mail /\ closed' = closed /\ qp' = qp /\ printed' = printed
  BY DEF StartRun, MoreRuns, connVars
<1>3. /\ at \in [Client -> Nat] /\ todo \in [Process -> Seq(Item)]
      /\ c \in Process /\ Srv \in Process /\ Srv # c /\ \A d \in Client : d \in Process /\ d # Srv
  BY <1>1, SuiteAssumption DEF Work, WorkTypes, Process
<1>4. /\ at'[c] = at[c] + 1 /\ at[c] \in Nat
      /\ \A d \in Client : d # c => at'[d] = at[d]
  BY <1>2, <1>3
<1> DEFINE new == <<c, at[c] + 1>>
<1>5. new \in Conn /\ Req(new).mode \in Modes /\ new[1] = c /\ new[2] = at[c] + 1
  <2>1. at[c] + 1 \in 1 .. Len(Suite[c])
    BY <1>2, <1>4, ConnIs
  <2>2. new \in Conn
    BY <2>1, ConnIs
  <2> QED
    BY <2>2, ConnIs
<1>6. \/ /\ todo' = [todo EXCEPT ![c] = ClientSteps(c, Req(new).mode)] /\ result' = result
      \/ /\ todo' = todo /\ result' = [result EXCEPT ![new] = "rejected"]
  BY DEF StartRun
<1> HIDE DEF new
<1>7. \A q \in Process : q # c => todo'[q] = todo[q]
  BY <1>3, <1>6
<1>8. todo'[c] = ClientSteps(c, Req(new).mode) \/ todo'[c] = <<>>
  BY <1>2, <1>3, <1>6
<1>9. Ordered'
  <2>1. ASSUME NEW d \in Client, NEW i \in DOMAIN todo'[d], NEW j \in DOMAIN todo'[d]
        PROVE  /\ todo'[d][i] = AckItem /\ todo'[d][j] = ReturnItem => i < j
               /\ todo'[d][i] = RowItem /\ i < j => todo'[d][j] = ReturnItem
    <3>1. CASE d # c
      BY <1>1, <1>3, <1>7, <2>1, <3>1 DEF Ordered
    <3>2. CASE d = c
      <4>1. todo'[c] = ClientSteps(c, Req(new).mode)
        BY <1>8, <2>1, <3>2
      <4> QED
        BY <1>5, <2>1, <3>2, <4>1, ClientOrder
    <3> QED
      BY <3>1, <3>2
  <2>2. todo'[Srv] = todo[Srv]
    BY <1>3, <1>7
  <2> QED
    BY <1>1, <2>1, <2>2 DEF Ordered
<1>10. Lasting
  <2> SUFFICES ASSUME NEW conn \in Conn
               PROVE  (Begun(conn) => Begun(conn)') /\ (Concluded(conn) => Concluded(conn)')
    BY DEF Lasting
  <2>1. conn[1] \in Client /\ conn[2] \in Nat
    BY ConnIs
  <2>2. CASE conn[1] # c
    <3>1. at'[conn[1]] = at[conn[1]] /\ todo'[conn[1]] = todo[conn[1]]
      BY <1>3, <1>4, <1>7, <2>1, <2>2
    <3>2. result'[conn] = result[conn]
      BY <1>5, <1>6, <2>2, <1>1 DEF Base, EndTypes
    <3> QED
      BY <3>1, <3>2 DEF Begun, Connected, Concluded
  <2>3. CASE conn[1] = c /\ conn[2] <= at[c]
    <3>1. conn[2] < at'[c] /\ conn # new /\ at'[c] \in Nat
      BY <1>4, <1>5, <2>1, <2>3
    <3>2. result'[conn] = result[conn]
      BY <1>6, <3>1 DEF Base, EndTypes
    <3>3. conn[2] <= at'[conn[1]] /\ conn[2] # at'[conn[1]]
      BY <2>1, <2>3, <3>1
    <3> QED
      BY <3>2, <3>3 DEF Begun, Concluded
  <2>4. CASE conn[1] = c /\ ~(conn[2] <= at[c])
    BY <2>4 DEF Begun, Concluded
  <2> QED
    BY <2>2, <2>3, <2>4
<1>11. ClosedAreBegun'
  BY <1>1, <1>2, <1>10, ClosedKeep
<1>12. RowsAreFinal'
  BY <1>1, <1>2, <1>10, MailKept, OldRows, OldTable, RowsKeep
<1>13. PendingTillEnd'
  <2>1. ASSUME NEW conn \in Conn,
               conn[2] > at'[conn[1]] \/ (conn[2] = at'[conn[1]] /\ todo'[conn[1]] # <<>>)
        PROVE  result'[conn] = "pending"
    <3>1. conn[1] \in Client /\ conn[2] \in Nat /\ conn = <<conn[1], conn[2]>>
      BY ConnIs
    <3>2. CASE conn[1] # c
      <4>1. result[conn] = "pending"
        BY <1>1, <1>3, <1>4, <1>7, <2>1, <3>1, <3>2 DEF PendingTillEnd
      <4>2. conn # new
        BY <1>5, <3>2
      <4> QED
        BY <1>6, <4>1, <4>2 DEF Base, EndTypes
    <3>3. CASE conn[1] = c
      <4>1. conn[2] > at[c]
        BY <1>4, <2>1, <3>1, <3>3
      <4>2. result[conn] = "pending"
        BY <1>1, <3>3, <4>1 DEF PendingTillEnd
      <4>3. CASE result' = result
        BY <4>2, <4>3
      <4>4. CASE todo' = todo /\ result' = [result EXCEPT ![new] = "rejected"]
        <5>1. conn[2] > at[c] + 1
          BY <1>2, <1>4, <2>1, <3>3, <4>4
        <5>2. conn # new
          BY <1>4, <1>5, <3>1, <5>1
        <5> QED
          BY <4>2, <4>4, <5>2 DEF Base, EndTypes
      <4> QED
        BY <1>6, <4>3, <4>4
    <3> QED
      BY <3>2, <3>3
  <2> QED
    BY <2>1 DEF PendingTillEnd, Conn
<1>14. AcksAreTrue'
  BY <1>1, <1>2, MailKept, OldAcks DEF Equipped
<1>15. ASSUME NEW d \in Client, todo'[d] # <<>>
       PROVE  (\E i \in DOMAIN todo'[d] : todo'[d][i] = AckItem) \/ Equipped(<<d, at[d]>>)'
  <2>1. CASE d # c
    BY <1>1, <1>2, <1>3, <1>4, <1>7, <1>15, <2>1 DEF SetUpFirst, Equipped
  <2>2. CASE d = c
    <3>1. todo'[c] = ClientSteps(c, Req(new).mode)
      BY <1>8, <1>15, <2>2
    <3> QED
      BY <1>5, <2>2, <3>1, ClientOrder DEF Has
  <2> QED
    BY <2>1, <2>2
<1>16. todo'[Srv] = todo[Srv]
  BY <1>3, <1>7
<1>17. SetUpFirst'
  BY <1>1, <1>2, <1>14, <1>15, <1>16 DEF SetUpFirst, AcksAreTrue, Equipped
<1> QED
  BY <1>9, <1>11, <1>12, <1>13, <1>17 DEF Promised

(* The server turns to another connection, or to what its client asks for. *)
LEMMA ServePromise ==
  ASSUME Base, Promised, NEW steps, todo' = [todo EXCEPT ![Srv] = steps],
         \A i, j \in DOMAIN steps : steps[i] = BuildItem /\ steps[j] \in SetUpItems => i < j,
         (\E i \in DOMAIN steps : steps[i] \in SetUpItems) => Has(steps, BuildItem),
         UNCHANGED <<at, closed, qp, result, printed>>, AllOldMail
  PROVE  Promised'
<1>1. Work /\ TableHeld /\ Ordered /\ SetUpFirst /\ RowsAreFinal /\ PendingTillEnd /\ ClosedAreBegun
  BY DEF Base, Work, Promised
<1>2. todo'[Srv] = steps /\ \A c \in Client : todo'[c] = todo[c] /\ c # Srv
  BY <1>1, SuiteAssumption DEF Work, WorkTypes
<1>3. Ordered'
  BY <1>1, <1>2 DEF Ordered
<1>4. Lasting
  BY <1>2, ConnIs DEF Lasting, Begun, Connected, Concluded
<1>5. ClosedAreBegun'
  BY <1>1, <1>4, ClosedKeep
<1>6. RowsAreFinal'
  BY <1>1, <1>4, OldRows, OldTable, RowsKeep
<1>7. PendingTillEnd'
  <2>1. \A conn \in Conn :
          conn[2] > at'[conn[1]] \/ (conn[2] = at'[conn[1]] /\ todo'[conn[1]] # <<>>)
            => result'[conn] = "pending"
    BY <1>1, <1>2, ConnIs DEF PendingTillEnd
  <2> QED
    BY <2>1 DEF PendingTillEnd, Conn
<1>8. AcksAreTrue'
  BY <1>1, OldAcks DEF Equipped
<1>9. \A c \in Client :
        todo'[c] # <<>> => (\E i \in DOMAIN todo'[c] : todo'[c][i] = AckItem) \/ Equipped(<<c, at[c]>>)'
  BY <1>1, <1>2 DEF SetUpFirst, Equipped
<1>10. SetUpFirst'
  BY <1>2, <1>8, <1>9 DEF SetUpFirst, AcksAreTrue, Equipped, Has
<1> QED
  BY <1>3, <1>5, <1>6, <1>7, <1>10 DEF Promised
--------------------------------------------------------------------------------
(***************************************************************************)
(* The steps of the service.                                               *)
(***************************************************************************)

\* Session's state as Service.tla sees it.
SetUp == {conn \in Conn : qp[conn]["Server"] # NoQp}
Left == {conn \in Conn : "Server" \in closed[conn]}
Shown == [i \in DOMAIN printed |-> printed[i].conn]

Stays == UNCHANGED <<SetUp, Left, Shown, backlog, serving, result>> /\ (Srv \in up') = (Srv \in up)

(* What is unchanged is unchanged for the service.                         *)
LEMMA StaysIs ==
  /\ qp' = qp => SetUp' = SetUp
  /\ closed' = closed => Left' = Left
  /\ printed' = printed => Shown' = Shown
  /\ Stays => UNCHANGED Serving!vars
<1>1. qp' = qp => SetUp' = SetUp
  BY DEF SetUp, Conn
<1>2. closed' = closed => Left' = Left
  BY DEF Left, Conn
<1>3. printed' = printed => Shown' = Shown
  BY DEF Shown
<1>4. Stays => UNCHANGED Serving!vars
  BY DEF Stays, Serving!vars, SetUp, Left, Shown
<1> QED
  BY <1>1, <1>2, <1>3, <1>4

(* What a client may be told.                                              *)
LEMMA JudgeIs ==
  ASSUME NEW conn \in Conn, NEW v \in {"ok", "failed", "rejected", "killed"},
         result[conn] = "pending", v = "ok" => conn \in SetUp,
         v \in {"failed", "rejected"} => ~Concluded(conn),
         RowsAreFinal, result' = [result EXCEPT ![conn] = v],
         UNCHANGED <<SetUp, Left, Shown, backlog, serving>>, (Srv \in up') = (Srv \in up)
  PROVE  Serving!Next
<1>1. v \in {"failed", "rejected"} => conn \notin Serving!Range(Shown)
  BY DEF RowsAreFinal, Shown, Serving!Range
<1>2. Serving!Judge(conn, v)
  BY <1>1 DEF Serving!Judge, SetUp, Left, Shown
<1> QED
  BY <1>2 DEF Serving!Next

(* The end of a connection, or of the server.                              *)
LEMMA LeaveIs ==
  ASSUME Srv \in up, serving \in Conn, serving' = NoConn, result' = result, SetUp' = SetUp,
         \/ Shown' = Shown
         \/ /\ serving \in SetUp /\ Concluded(serving)
            /\ Shown' = Append(Shown, serving),
         \/ Srv \in up' /\ backlog' = backlog /\ Left' = Left \cup {serving}
         \/ Srv \notin up' /\ backlog' = <<>> /\ Left' = Left \cup {serving} \cup Range(backlog)
  PROVE  Serving!Next
<1>1. serving # NoConn
  BY ConnIs
<1>2. Concluded(serving) => result[serving] \notin {"failed", "rejected"}
  BY DEF Concluded
<1>3. Serving!StayOrQuit({serving})
  BY DEF Serving!StayOrQuit, Serving!Range, Range, Left
<1>4. Serving!Leave
  BY <1>1, <1>2, <1>3 DEF Serving!Leave, SetUp, Shown
<1> QED
  BY <1>4 DEF Serving!Next

(* The end of a server that is in accept.                                  *)
LEMMA QuitIs ==
  ASSUME Srv \in up, serving = NoConn, UNCHANGED <<serving, result, SetUp, Shown>>,
         Srv \notin up', backlog' = <<>>, Left' = Left \cup Range(backlog)
  PROVE  Serving!Next
<1>1. Serving!StayOrQuit({})
  BY DEF Serving!StayOrQuit, Serving!Range, Range, Left
<1>2. Serving!Quit
  BY <1>1 DEF Serving!Quit, SetUp, Shown
<1> QED
  BY <1>2 DEF Serving!Next

(* Another queue pair of the server, or the same in its next state.        *)
LEMMA EquipIs ==
  ASSUME serving \in Conn, SetUp' = SetUp \cup {serving},
         UNCHANGED <<Left, Shown, backlog, serving, result, up>>
  PROVE  Serving!Next
<1>1. serving # NoConn
  BY ConnIs
<1>2. Serving!Equip
  BY <1>1 DEF Serving!Equip, SetUp, Left, Shown
<1> QED
  BY <1>2 DEF Serving!Next

(* Who has closed which connections.                                       *)
LEMMA LeftIs ==
  ASSUME EndTypes, NEW conns
  PROVE  /\ Close(conns, "Client") => Left' = Left
         /\ Close(conns, "Server") => Left' = Left \cup (conns \cap Conn)
<1>1. DOMAIN closed = Conn
  BY DEF EndTypes
<1>2. ASSUME Close(conns, "Client") PROVE Left' = Left
  <2>1. \A conn \in Conn : "Server" \in closed'[conn] <=> "Server" \in closed[conn]
    BY <1>1, <1>2 DEF Close
  <2> QED
    BY <2>1 DEF Left, Conn
<1>3. ASSUME Close(conns, "Server") PROVE Left' = Left \cup (conns \cap Conn)
  <2>1. \A conn \in Conn : "Server" \in closed'[conn] <=> "Server" \in closed[conn] \/ conn \in conns
    BY <1>1, <1>3 DEF Close
  <2> QED
    BY <2>1 DEF Left, Conn
<1> QED
  BY <1>2, <1>3
--------------------------------------------------------------------------------
(***************************************************************************)
(* Session's steps: each keeps Promised and is a step of the service.      *)
(***************************************************************************)

Fine == Promised' /\ (Serving!Next \/ UNCHANGED Serving!vars)

(* The client's end of a run, which fails before its row or not at all.    *)
LEMMA EndRunFine ==
  ASSUME Base, Promised, NEW c \in Client, todo[c] # <<>>, NEW how \in {"ok", "failed", "rejected"},
         EndRun(c, how), how = "ok" => Equipped(ConnOf(c)), how # "ok" => Head(todo[c]) # ReturnItem,
         UNCHANGED <<qp, printed>>, AllOldMail
  PROVE  Fine
<1>1. Work /\ TableHeld /\ RowsAreFinal /\ PendingTillEnd /\ EndTypes
  BY DEF Base, Work, Promised
<1> DEFINE here == <<c, at[c]>>
<1>2. c \in Process /\ c # Srv
  BY SuiteAssumption DEF Process
<1>3. ConnOf(c) = here /\ here \in Conn /\ here[1] = c /\ here[2] = at[c]
  BY <1>1, <1>2, AtWork DEF ConnOf
<1>4. /\ todo' = [todo EXCEPT ![c] = <<>>] /\ result' = [result EXCEPT ![here] = how]
      /\ Close({here}, "Client")
      /\ up' = up /\ at' = at /\ serving' = serving /\ backlog' = backlog
  BY <1>3 DEF EndRun
<1> HIDE DEF here
<1>5. result[here] = "pending"
  BY <1>1, <1>3 DEF PendingTillEnd
<1>6. how # "ok" => ~Concluded(here)
  <2>1. 1 \in DOMAIN todo[c] /\ Head(todo[c]) = todo[c][1]
    BY <1>1, <1>2, HeadIs
  <2> QED
    BY <1>3, <2>1 DEF Concluded
<1>7. Left' = Left /\ \A conn \in Conn : "Server" \in closed'[conn] => "Server" \in closed[conn]
  <2>1. Left' = Left
    BY <1>1, <1>4, LeftIs
  <2>2. \A conn \in Conn : "Server" \in closed'[conn] => "Server" \in closed[conn]
    BY <1>4 DEF Close
  <2> QED
    BY <2>1, <2>2
<1>8. Promised'
  <2>1. todo'[c] = <<>>
    BY <1>1, <1>2, <1>4 DEF Work, WorkTypes
  <2>2. \A conn \in Conn : conn = here \/ result'[conn] = result[conn]
    BY <1>1, <1>4 DEF EndTypes
  <2>3. result'[here] = how
    BY <1>1, <1>3, <1>4 DEF EndTypes
  <2>4. \A conn \in Conn :
          \/ result'[conn] = result[conn]
          \/ /\ c \in Client /\ conn = <<c, at[c]>> /\ todo'[c] = <<>>
             /\ Concluded(conn) => result'[conn] \notin {"failed", "rejected"}
    BY <1>6, <2>1, <2>2, <2>3 DEF here
  <2>5. TableOfFinal
    BY <1>1, OldTable
  <2> QED
    BY <1>2, <1>4, <1>7, <2>4, <2>5, StopPromise
<1>9. Serving!Next
  <2>1. how = "ok" => here \in SetUp
    BY <1>3 DEF Equipped, SetUp
  <2>2. SetUp' = SetUp /\ Shown' = Shown
    BY StaysIs
  <2> QED
    BY <1>1, <1>3, <1>4, <1>5, <1>6, <1>7, <2>1, <2>2, JudgeIs
<1> QED
  BY <1>8, <1>9 DEF Fine

(* What the server leaves with, it has heard of.                           *)
LEMMA ExitIs ==
  ASSUME Base, NEW conns, conns \subseteq {serving}, Exit(conns)
  PROVE  /\ up' = up \ {Srv} /\ backlog' = <<>>
         /\ Left' = Left \cup (conns \cap Conn) \cup Range(backlog)
         /\ \A conn \in Conn : "Server" \in closed'[conn] => "Server" \in closed[conn] \/ Begun(conn)
<1>1. Work /\ EndTypes
  BY DEF Base, Work
<1> DEFINE waiting == {backlog[i] : i \in DOMAIN backlog}
<1>2. waiting \subseteq Conn /\ waiting = Range(backlog) /\ \A conn \in waiting : Begun(conn)
  <2>1. \A i \in DOMAIN backlog : backlog[i] \in Conn /\ Begun(backlog[i])
    BY <1>1, ElementOfSeq, LenProperties DEF Work, WorkTypes, HeardOnce
  <2>2. waiting = Range(backlog)
    BY DEF Range
  <2> QED
    BY <2>1, <2>2
<1>3. Close(conns \cup waiting, "Server") /\ up' = up \ {Srv} /\ backlog' = <<>>
  BY DEF Exit
<1> HIDE DEF waiting
<1>4. Left' = Left \cup ((conns \cup waiting) \cap Conn)
  BY <1>1, <1>3, LeftIs
<1>5. \A conn \in Conn :
        "Server" \in closed'[conn] => "Server" \in closed[conn] \/ conn \in conns \cup waiting
  BY <1>3 DEF Close
<1>6. \A conn \in Conn : conn \in conns => Begun(conn)
  BY <1>1 DEF Work, HeardOnce
<1> QED
  BY <1>2, <1>3, <1>4, <1>5, <1>6

(* The server's end of a connection, with a row or without.                *)
LEMMA EndServeFine ==
  ASSUME Base, Promised, Srv \in up, todo[Srv] # <<>>, EndServe, qp' = qp, AllOldMail, TableOfFinal,
         \/ Shown' = Shown
         \/ serving \in SetUp /\ Concluded(serving) /\ Shown' = Append(Shown, serving)
  PROVE  Fine
<1>1. Work /\ EndTypes
  BY DEF Base, Work
<1>2. serving \in Conn /\ Srv \in Process /\ Begun(serving)
  BY <1>1 DEF Work, WorkTypes, HeardOnce, Process
<1>3. /\ todo' = [todo EXCEPT ![Srv] = <<>>] /\ serving' = NoConn /\ at' = at /\ result' = result
  BY DEF EndServe
<1>4. todo'[Srv] = <<>>
  BY <1>1, <1>2, <1>3 DEF Work, WorkTypes, Process
<1>5. /\ \/ Srv \in up' /\ backlog' = backlog /\ Left' = Left \cup {serving}
         \/ Srv \notin up' /\ backlog' = <<>> /\ Left' = Left \cup {serving} \cup Range(backlog)
      /\ \A conn \in Conn : "Server" \in closed'[conn] => "Server" \in closed[conn] \/ Begun(conn)
  <2>1. CASE Close({serving}, "Server") /\ UNCHANGED <<up, backlog>>
    <3>1. Left' = Left \cup {serving}
      BY <1>1, <1>2, <2>1, LeftIs
    <3>2. \A conn \in Conn : "Server" \in closed'[conn] => "Server" \in closed[conn] \/ conn = serving
      BY <2>1 DEF Close
    <3> QED
      BY <1>2, <2>1, <3>1, <3>2
  <2>2. CASE Exit({serving})
    BY <1>2, <2>2, ExitIs
  <2> QED
    BY <2>1, <2>2 DEF EndServe
<1>6. Promised'
  BY <1>2, <1>3, <1>4, <1>5, StopPromise
<1>7. SetUp' = SetUp
  BY StaysIs
<1>8. Serving!Next
  BY <1>2, <1>3, <1>5, <1>7, LeaveIs
<1> QED
  BY <1>6, <1>8 DEF Fine

(* Either side's failure.                                                  *)
LEMMA AbortFine ==
  ASSUME Base, Promised, NEW p \in Process, p \in up, todo[p] # <<>>, Head(todo[p]) # ReturnItem,
         Abort(p), AllOldMail
  PROVE  Fine
<1>1. qp' = qp /\ printed' = printed
  BY DEF Abort
<1>2. CASE p = Srv
  <2>1. TableOfFinal /\ Shown' = Shown
    BY <1>1, OldTable, StaysIs DEF Base, Promised
  <2> QED
    BY <1>1, <1>2, <2>1, EndServeFine DEF Abort
<1>3. CASE p # Srv
  <2>1. p \in Client /\ EndRun(p, "failed")
    BY <1>3 DEF Abort, Process
  <2> QED
    BY <1>1, <2>1, EndRunFine
<1> QED
  BY <1>2, <1>3

(* Steps the service does not see.                                         *)
LEMMA AdvanceFine ==
  ASSUME Base, Promised, NEW p \in Process, todo[p] # <<>>, Advance(p), MailBy(p),
         Head(todo[p]) \notin {AckItem, BuildItem},
         UNCHANGED <<up, at, serving, backlog, closed, result, printed, qp>>
  PROVE  Fine
<1>1. \A conn \in Conn : Equipped(conn) => Equipped(conn)'
  BY DEF Equipped
<1>2. Promised'
  BY <1>1, AdvancePromise
<1>3. Stays
  BY StaysIs DEF Stays
<1> QED
  BY <1>2, <1>3, StaysIs DEF Fine

(* A step that writes nothing writes only what its process may.            *)
LEMMA OldIsBy == AllOldMail => \A p : MailBy(p)
  BY DEF AllOldMail, OldMail, MailBy

(* A queue pair of p's, after its step.                                    *)
LEMMA QpFine ==
  ASSUME Base, Promised, NEW p \in Process, todo[p] # <<>>, Advance(p), AllOldMail,
         NEW v \in {Built} \cup Endpoint, qp' = [qp EXCEPT ![ConnOf(p)][SideOf(p)] = v],
         p # Srv /\ Head(todo[p]) = AckItem => Equipped(ConnOf(p)),
         UNCHANGED <<up, at, serving, backlog, closed, result, printed>>
  PROVE  Fine
<1>1. Work /\ QpHeld
  BY DEF Base, Work
<1> DEFINE here == ConnOf(p)
           side == SideOf(p)
<1>2. here \in Conn /\ side \in Side /\ (p = Srv => here = serving /\ side = "Server")
      /\ (p # Srv => side = "Client")
  BY <1>1, AtWork DEF ConnOf, SideOf
<1>3. v # NoQp
  BY DEF Built, NoQp, Endpoint
<1>4. ConnOf(p)' = here
  BY DEF ConnOf
<1> HIDE DEF here, side
<1>5. qp' = [qp EXCEPT ![here][side] = v] /\ qp \in [Conn -> [Side -> {NoQp, Built} \cup Endpoint]]
  BY <1>1 DEF QpHeld, here, side
<1>6. \A conn \in Conn :
        qp'[conn]["Server"] = IF conn = here /\ side = "Server" THEN v ELSE qp[conn]["Server"]
  BY <1>2, <1>5 DEF Side
<1>7. \A conn \in Conn : Equipped(conn) => Equipped(conn)'
  BY <1>3, <1>6 DEF Equipped
<1>8. Promised'
  <2>1. p # Srv /\ Head(todo[p]) = AckItem => Equipped(ConnOf(p))'
    <3> SUFFICES ASSUME p # Srv, Head(todo[p]) = AckItem PROVE Equipped(ConnOf(p))'
      OBVIOUS
    <3>1. Equipped(here)
      BY DEF here
    <3>2. qp'[here]["Server"] # NoQp
      BY <1>2, <1>6, <3>1, <1>3 DEF Equipped
    <3> QED
      BY <1>4, <3>2 DEF Equipped
  <2>2. p = Srv => Equipped(ConnOf(p))'
    <3> SUFFICES ASSUME p = Srv PROVE Equipped(ConnOf(p))'
      OBVIOUS
    <3>1. qp'[here]["Server"] # NoQp
      BY <1>2, <1>3, <1>6
    <3> QED
      BY <1>4, <3>1 DEF Equipped
  <2> QED
    BY <1>7, <2>1, <2>2, OldIsBy, AdvancePromise
<1>9. Left' = Left /\ Shown' = Shown
  BY StaysIs
<1>10. CASE p = Srv
  <2>1. \A conn \in Conn : qp'[conn]["Server"] # NoQp <=> qp[conn]["Server"] # NoQp \/ conn = serving
    BY <1>2, <1>3, <1>6, <1>10
  <2>2. SetUp' = SetUp \cup {serving}
    BY <1>2, <1>10, <2>1 DEF SetUp, Conn
  <2>3. Serving!Next
    BY <1>2, <1>9, <1>10, <2>2, EquipIs
  <2> QED
    BY <1>8, <2>3 DEF Fine
<1>11. CASE p # Srv
  <2>1. \A conn \in Conn : qp'[conn]["Server"] = qp[conn]["Server"]
    BY <1>2, <1>6, <1>11
  <2>2. SetUp' = SetUp
    BY <2>1 DEF SetUp, Conn
  <2>3. Stays
    BY <1>9, <2>2 DEF Stays
  <2> QED
    BY <1>8, <2>3, StaysIs DEF Fine
<1> QED
  BY <1>10, <1>11

(* At the head of its benchmark a side still has all of it before it.      *)
LEMMA AllocatingIs ==
  ASSUME Work, NEW p \in Process, Allocating(p)
  PROVE  Head(todo[p]) # ReturnItem
<1>1. ConnOf(p) \in Conn
  BY AtWork DEF Allocating
<1>2. Req(ConnOf(p)).mode \in Modes
  BY <1>1, ConnIs
<1> DEFINE rest == IF p = Srv THEN Recv("row") ELSE Conclude
<1>3. rest \in Seq(Item) /\ Len(rest) > 0 /\ rest[1] # ReturnItem
  <2>1. /\ Recv("row") \in Seq(Item) /\ Len(Recv("row")) = 1
        /\ Recv("row")[1] = <<"recv", "row">> /\ <<"recv", "row">> # ReturnItem
    BY StepTypes DEF Words, Kinds, Recv, ReturnItem
  <2>2. /\ RowItem \in Item /\ ReturnItem \in Item /\ RowItem # ReturnItem
        /\ Conclude = <<RowItem>> \o <<ReturnItem>>
    BY DEF Item, Words, Kinds, RowItem, ReturnItem, Conclude, Send, Do
  <2>3. Conclude \in Seq(Item) /\ DOMAIN Conclude = 1 .. 2 /\ Conclude[1] = RowItem
    BY <2>2, TwoSteps
  <2>4. Len(Conclude) = 2
    BY <2>3, LenProperties
  <2> QED
    BY <2>1, <2>2, <2>3, <2>4
<1> HIDE DEF rest
<1>4. PICK bench \in Seq(Inner) : todo[p] = bench \o rest
  <2>1. CASE p = Srv
    BY <1>2, <2>1, BenchTypes DEF Allocating, ConnOf, rest
  <2>2. CASE p # Srv
    <3>1. p \in Client
      BY <2>2 DEF Process
    <3> QED
      BY <1>2, <2>2, <3>1, BenchTypes DEF Allocating, rest
  <2> QED
    BY <2>1, <2>2
<1>5. bench \in Seq(Item) /\ Len(bench) \in Nat /\ Len(rest) \in Nat
  BY <1>3, <1>4 DEF Inner, Quiet
<1>6. Len(bench) > 0 => bench[1] # ReturnItem
  <2> SUFFICES ASSUME Len(bench) > 0 PROVE bench[1] # ReturnItem
    OBVIOUS
  <2>1. bench[1] \in Inner
    BY <1>4, <1>5, ElementOfSeq
  <2> QED
    BY <2>1 DEF Inner
<1>7. /\ bench \o rest \in Seq(Item) /\ Len(bench \o rest) = Len(bench) + Len(rest)
      /\ \A i \in 1 .. Len(bench) + Len(rest) :
           (bench \o rest)[i] = IF i <= Len(bench) THEN bench[i] ELSE rest[i - Len(bench)]
  BY <1>3, <1>5, ConcatProperties
<1>8. (bench \o rest)[1] # ReturnItem
  BY <1>3, <1>5, <1>6, <1>7
<1>9. todo[p] \in Seq(Item) /\ todo[p] # <<>> /\ todo[p][1] # ReturnItem
  BY <1>4, <1>7, <1>8 DEF Allocating
<1> QED
  BY <1>9, HeadTailProperties

(* What both sides do.                                                     *)
LEMMA ExchangeFine == ASSUME Base, Promised, NEW p \in Process, Exchange(p) PROVE Fine
<1>1. Work /\ MailHeld
  BY DEF Base, Work
<1>2. ASSUME NEW kind \in Kinds, Write(p, kind) PROVE Fine
  <2>1. p \in up /\ todo[p] # <<>> /\ Head(todo[p]) = <<"send", kind>>
    BY <1>2 DEF Write, At
  <2>2. Head(todo[p]) \notin {ReturnItem, AckItem, BuildItem}
    BY <2>1 DEF ReturnItem, AckItem, BuildItem
  <2>3. CASE Abort(p) /\ UNCHANGED mail
    BY <2>1, <2>2, <2>3, AbortFine, MailKept
  <2>4. ASSUME NEW m \in Message(p, kind),
               mail' = [mail EXCEPT ![ConnOf(p)][Other(SideOf(p))] = Append(@, m)],
               Advance(p),
               UNCHANGED <<up, at, serving, backlog, closed, qp, armed, result, lastMode, printed>>
        PROVE  Fine
    <3>1. MailBy(p)
      BY <1>1, <2>1, <2>4, WriteIsBy
    <3> QED
      BY <2>1, <2>2, <2>4, <3>1, AdvanceFine
  <2> QED
    BY <1>2, <2>3, <2>4 DEF Write
<1>3. ASSUME NEW kind \in {"byte", "buffer", "report"}, Read(p, kind) PROVE Fine
  <2>1. todo[p] # <<>> /\ Head(todo[p]) = <<"recv", kind>> /\ Take(p, {kind}) /\ Advance(p)
        /\ UNCHANGED <<up, at, serving, backlog, closed, qp, armed, result, lastMode, printed>>
    BY <1>3 DEF Read, At
  <2>2. Head(todo[p]) \notin {AckItem, BuildItem}
    BY <2>1 DEF AckItem, BuildItem
  <2>3. MailBy(p)
    BY <1>1, <2>1, TakeIsOld, OldIsBy
  <2> QED
    BY <2>1, <2>2, <2>3, AdvanceFine
<1>4. CASE ReadFails(p)
  <2>1. p \in up /\ todo[p] # <<>> /\ Head(todo[p])[1] = "recv" /\ Abort(p) /\ mail' = mail
    BY <1>4 DEF ReadFails
  <2>2. Head(todo[p]) # ReturnItem
    BY <2>1 DEF ReturnItem
  <2> QED
    BY <2>1, <2>2, AbortFine, MailKept
<1>5. CASE VerbsFail(p)
  <2>1. p \in up /\ todo[p] # <<>> /\ Abort(p) /\ mail' = mail
    BY <1>5 DEF VerbsFail, At, Allocating
  <2>2. Head(todo[p]) # ReturnItem
    <3>1. ASSUME NEW what \in {"build", "post", "traffic"}, At(p, "do", what)
          PROVE  Head(todo[p]) # ReturnItem
      BY <3>1 DEF At, ReturnItem
    <3> QED
      BY <1>1, <1>5, <3>1, AllocatingIs DEF VerbsFail
  <2> QED
    BY <2>1, <2>2, AbortFine, MailKept
<1>6. CASE Build(p)
  <2>1. /\ todo[p] # <<>> /\ Head(todo[p]) = BuildItem /\ Advance(p)
        /\ qp' = [qp EXCEPT ![ConnOf(p)][SideOf(p)] = Built]
        /\ UNCHANGED <<up, at, connVars, armed, result, lastMode, printed>>
    BY <1>6 DEF Build, At, BuildItem
  <2>2. Head(todo[p]) # AckItem
    BY <2>1 DEF AckItem, BuildItem
  <2> QED
    BY <2>1, <2>2, MailKept, QpFine DEF connVars
<1>7. CASE Post(p) \/ Traffic(p)
  <2>1. /\ todo[p] # <<>> /\ Head(todo[p]) \in {<<"do", "post">>, <<"do", "traffic">>} /\ Advance(p)
        /\ UNCHANGED <<up, at, connVars, qp, result, lastMode, printed>>
    BY <1>7 DEF Post, Traffic, At
  <2>2. Head(todo[p]) \notin {AckItem, BuildItem}
    BY <2>1 DEF AckItem, BuildItem
  <2> QED
    BY <2>1, <2>2, MailKept, OldIsBy, AdvanceFine DEF connVars
<1> QED
  BY <1>2, <1>3, <1>4, <1>5, <1>6, <1>7 DEF Exchange, Kinds

(* The message read is the first.                                          *)
LEMMA FirstLetter ==
  ASSUME MailHeld, NEW conn \in Conn, NEW s \in Side, mail[conn][s] # <<>>
  PROVE  1 \in DOMAIN mail[conn][s] /\ Head(mail[conn][s]) = mail[conn][s][1]
<1> DEFINE q == mail[conn][s]
<1>1. q \in Seq(Letters(conn)) /\ q # <<>>
  BY DEF MailHeld
<1> HIDE DEF q
<1>2. Len(q) \in Nat \ {0} /\ DOMAIN q = 1 .. Len(q) /\ Head(q) = q[1]
  BY <1>1, EmptySeq, HeadTailProperties, LenProperties
<1> QED
  BY <1>2 DEF q

(* The endpoint the other side sent; an "ok" is that of an equipped server.*)
LEMMA ReadEndpointFine ==
  ASSUME Base, Promised, NEW p \in Process, NEW what, NEW kind \in {"ok", "endpoint"},
         ReadEndpoint(p, what, kind), p # Srv => kind = "ok"
  PROVE  Fine
<1>1. Work /\ MailHeld /\ SetUpFirst
  BY DEF Base, Work, Promised
<1>2. p \in up /\ todo[p] # <<>> /\ Head(todo[p]) = <<"recv", what>> /\ Take(p, {kind})
  BY DEF ReadEndpoint, At
<1>3. AllOldMail
  BY <1>1, <1>2, TakeIsOld
<1>4. CASE Abort(p)
  <2>1. Head(todo[p]) # ReturnItem
    BY <1>2 DEF ReturnItem
  <2> QED
    BY <1>2, <1>3, <1>4, <2>1, AbortFine
<1>5. CASE /\ qp' = [qp EXCEPT ![ConnOf(p)][SideOf(p)] = Incoming(p).body]
           /\ Advance(p)
           /\ UNCHANGED <<up, at, serving, backlog, closed, armed, result, lastMode, printed>>
  <2>1. ConnOf(p) \in Conn /\ SideOf(p) \in Side
    BY <1>1, <1>2, AtWork
  <2>2. mail[ConnOf(p)][SideOf(p)] # <<>> /\ Incoming(p).kind = kind
    BY <1>2 DEF Take, Incoming
  <2>3. Incoming(p).body \in Endpoint
    BY <1>1, <2>1, <2>2, HeadLetter DEF Incoming
  <2>4. p # Srv => Equipped(ConnOf(p))
    <3> SUFFICES ASSUME p # Srv PROVE Equipped(ConnOf(p))
      OBVIOUS
    <3>1. SideOf(p) = "Client"
      BY DEF SideOf
    <3>2. /\ 1 \in DOMAIN mail[ConnOf(p)]["Client"]
          /\ mail[ConnOf(p)]["Client"][1].kind = "ok"
      BY <1>1, <2>1, <2>2, <3>1, FirstLetter DEF Incoming
    <3> QED
      BY <1>1, <2>1, <3>2 DEF SetUpFirst
  <2> QED
    BY <1>2, <1>3, <1>5, <2>3, <2>4, QpFine
<1> QED
  BY <1>4, <1>5 DEF ReadEndpoint

(* A run begins, or is turned down before it does.                         *)
LEMMA StartRunFine == ASSUME Base, Promised, NEW c \in Client, StartRun(c) PROVE Fine
<1>1. Work /\ RowsAreFinal /\ PendingTillEnd
  BY DEF Base, Work, Promised
<1>2. Promised'
  BY StartRunPromise
<1>3. UNCHANGED <<up, connVars, qp, printed>> /\ at[c] < Len(Suite[c])
  BY DEF StartRun, MoreRuns
<1>4. UNCHANGED <<SetUp, Left, Shown, backlog, serving, up>>
  BY <1>3, StaysIs DEF connVars
<1> DEFINE new == <<c, at[c] + 1>>
<1>5. result' = result \/ result' = [result EXCEPT ![new] = "rejected"]
  BY DEF StartRun
<1>6. new \in Conn /\ new[1] = c /\ new[2] > at[c] /\ ~(new[2] <= at[c])
  <2>1. at[c] \in Nat /\ at[c] + 1 \in 1 .. Len(Suite[c])
    BY <1>1, <1>3, ConnIs DEF Work, WorkTypes
  <2> QED
    BY <2>1, ConnIs
<1> HIDE DEF new
<1>7. CASE result' = result
  BY <1>2, <1>4, <1>7, StaysIs DEF Fine, Stays
<1>8. CASE result' = [result EXCEPT ![new] = "rejected"]
  <2>1. result[new] = "pending"
    BY <1>1, <1>6 DEF PendingTillEnd
  <2>2. ~Concluded(new)
    BY <1>6 DEF Concluded
  <2>3. Serving!Next
    BY <1>1, <1>4, <1>6, <1>8, <2>1, <2>2, JudgeIs
  <2> QED
    BY <1>2, <2>3 DEF Fine
<1> QED
  BY <1>5, <1>7, <1>8

(* A connection comes, one the server has not heard of.                    *)
LEMMA ConnectFine == ASSUME Base, Promised, NEW c \in Client, Connect(c) PROVE Fine
<1>1. Work /\ ClosedAreBegun
  BY DEF Base, Work, Promised
<1>2. c \in Process /\ c # Srv
  BY SuiteAssumption DEF Process
<1>3. c \in up /\ todo[c] # <<>> /\ Head(todo[c]) = ConnectItem
  BY DEF Connect, At, ConnectItem
<1>4. Head(todo[c]) \notin {ReturnItem, AckItem, BuildItem}
  BY <1>3 DEF ConnectItem, ReturnItem, AckItem, BuildItem
<1>5. CASE Abort(c) /\ UNCHANGED mail
  BY <1>2, <1>3, <1>4, <1>5, MailKept, AbortFine
<1>6. CASE /\ Srv \in up /\ backlog' = Append(backlog, ConnOf(c)) /\ Advance(c)
           /\ UNCHANGED <<up, at, serving, mail, closed, qp, armed, result, lastMode, printed>>
  <2>1. Promised'
    <3>1. \A conn \in Conn : Equipped(conn) => Equipped(conn)'
      BY <1>6 DEF Equipped
    <3>2. MailBy(c)
      BY <1>6, MailKept, OldIsBy
    <3> QED
      BY <1>2, <1>3, <1>4, <1>6, <3>1, <3>2, AdvancePromise
  <2> DEFINE here == <<c, at[c]>>
  <2>2. here \in Conn /\ here = ConnOf(c) /\ here[1] = c /\ here[2] = at[c]
    BY <1>1, <1>2, <1>3, AtWork DEF ConnOf
  <2> HIDE DEF here
  <2>3. ~Begun(here)
    <3>1. 1 \in DOMAIN todo[c] /\ todo[c][1] = ConnectItem
      BY <1>1, <1>2, <1>3, HeadIs
    <3> QED
      BY <2>2, <3>1 DEF Begun, Connected
  <2>4. here \notin Serving!Range(backlog) \cup {serving} \cup Left
    BY <1>1, <2>2, <2>3 DEF Work, HeardOnce, Serving!Range, ClosedAreBegun, Left
  <2>5. UNCHANGED <<SetUp, Left, Shown>>
    BY <1>6, StaysIs
  <2>6. Serving!Arrive(here)
    BY <1>6, <2>2, <2>4, <2>5 DEF Serving!Arrive, SetUp, Left, Shown
  <2> QED
    BY <2>1, <2>2, <2>6 DEF Fine, Serving!Next
<1> QED
  BY <1>5, <1>6 DEF Connect

(* A client process.                                                       *)
LEMMA ClientFine == ASSUME Base, Promised, NEW c \in Client, ClientStep(c) PROVE Fine
<1>1. Work /\ MailHeld /\ Ordered /\ SetUpFirst
  BY DEF Base, Work, Promised
<1>2. c \in Process /\ c # Srv
  BY SuiteAssumption DEF Process
<1>3. CASE Exchange(c)
  BY <1>2, <1>3, ExchangeFine
<1>4. CASE ReadEndpoint(c, "ack", "ok")
  BY <1>2, <1>4, ReadEndpointFine
<1>5. CASE ReadRejection(c)
  <2>1. /\ todo[c] # <<>> /\ Head(todo[c]) = <<"recv", "ack">> /\ Take(c, {"unsupported"})
        /\ EndRun(c, "rejected") /\ UNCHANGED <<qp, printed>>
    BY <1>5 DEF ReadRejection, At
  <2>2. Head(todo[c]) # ReturnItem /\ AllOldMail
    BY <1>1, <1>2, <2>1, TakeIsOld DEF ReturnItem
  <2> QED
    BY <2>1, <2>2, EndRunFine
<1>6. CASE Return(c)
  <2>1. /\ todo[c] # <<>> /\ Head(todo[c]) = ReturnItem
        /\ EndRun(c, "ok") /\ UNCHANGED <<mail, qp, printed>>
    BY <1>6 DEF Return, At, ReturnItem
  <2>2. /\ 1 \in DOMAIN todo[c] /\ todo[c][1] = ReturnItem
        /\ \A i \in DOMAIN todo[c] : i \in Nat \ {0}
    BY <1>1, <1>2, <2>1, HeadIs
  <2>3. ~\E i \in DOMAIN todo[c] : todo[c][i] = AckItem
    <3>1. \A i \in DOMAIN todo[c] : ~(i < 1)
      BY <2>2
    <3> QED
      BY <1>1, <2>2, <3>1 DEF Ordered
  <2>4. Equipped(ConnOf(c))
    BY <1>1, <1>2, <2>1, <2>3 DEF SetUpFirst, ConnOf
  <2>5. AllOldMail
    BY <2>1, MailKept
  <2> QED
    BY <2>1, <2>4, <2>5, EndRunFine
<1>7. CASE StartRun(c)
  BY <1>7, StartRunFine
<1>8. CASE Connect(c)
  BY <1>8, ConnectFine
<1>9. CASE Refuse(c)
  <2>1. c \in up /\ todo[c] # <<>> /\ Head(todo[c]) = <<"do", "refuse">> /\ Abort(c) /\ mail' = mail
    BY <1>9 DEF Refuse, At
  <2>2. Head(todo[c]) # ReturnItem
    BY <2>1 DEF ReturnItem
  <2> QED
    BY <1>2, <2>1, <2>2, MailKept, AbortFine
<1> QED
  BY <1>3, <1>4, <1>5, <1>6, <1>7, <1>8, <1>9 DEF ClientStep

(* A row shows the connection it came over.                                *)
LEMMA ShownGrows ==
  ASSUME TableHeld, NEW row \in Rows, printed' = Append(printed, row)
  PROVE  /\ Shown' = Append(Shown, row.conn)
         /\ \A i \in DOMAIN printed' :
              (i \in DOMAIN printed /\ printed'[i] = printed[i]) \/ printed'[i] = row
<1> DEFINE n == Len(printed)
           new == Append(printed, row)
<1>1. printed \in Seq(Rows) /\ n \in Nat /\ DOMAIN printed = 1 .. n
  BY LenProperties DEF TableHeld
<1>2. /\ new \in Seq(Rows) /\ Len(new) = n + 1 /\ DOMAIN new = 1 .. n + 1
      /\ \A i \in 1 .. n : new[i] = printed[i]
      /\ new[n + 1] = row
  <2>1. new \in Seq(Rows) /\ Len(new) = n + 1 /\ new[n + 1] = row
        /\ \A i \in 1 .. n : new[i] = printed[i]
    BY <1>1, AppendProperties
  <2> QED
    BY <2>1, LenProperties
<1>3. printed' = new
  OBVIOUS
<1> HIDE DEF new
<1>4. \A i \in 1 .. n + 1 : i \in 1 .. n \/ i = n + 1
  BY <1>1
<1> HIDE DEF n
<1>5. Shown = [i \in 1 .. n |-> printed[i].conn] /\ Shown' = [i \in 1 .. n + 1 |-> new[i].conn]
  BY <1>1, <1>2, <1>3 DEF Shown
<1>6. Shown \in Seq(Conn) /\ Len(Shown) = n
  <2>1. \A i \in 1 .. n : printed[i].conn \in Conn
    <3>1. \A i \in 1 .. n : printed[i] \in Rows
      BY <1>1, ElementOfSeq DEF n
    <3> QED
      BY <3>1 DEF Rows
  <2> QED
    BY <1>1, <1>5, <2>1
<1>7. Shown' \in Seq(Conn) /\ Len(Shown') = n + 1
  <2>1. \A i \in 1 .. n + 1 : new[i].conn \in Conn
    <3>1. \A i \in 1 .. n + 1 : new[i] \in Rows
      BY <1>2, ElementOfSeq
    <3> QED
      BY <3>1 DEF Rows
  <2>2. n + 1 \in Nat
    BY <1>1
  <2> QED
    BY <1>5, <2>1, <2>2
<1> DEFINE longer == Append(Shown, row.conn)
<1>8. /\ longer \in Seq(Conn) /\ Len(longer) = n + 1
      /\ \A i \in 1 .. n : longer[i] = Shown[i]
      /\ longer[n + 1] = row.conn
  <2>1. row.conn \in Conn
    BY DEF Rows
  <2> QED
    BY <1>6, <2>1, AppendProperties
<1>9. \A i \in 1 .. n + 1 : Shown'[i] = longer[i]
  BY <1>2, <1>4, <1>5, <1>8
<1> HIDE DEF longer
<1>10. Shown' = longer
  BY <1>7, <1>8, <1>9, SeqEqual
<1> QED
  BY <1>1, <1>2, <1>3, <1>4, <1>10 DEF longer

(* The row of a run that cannot fail any more, over an equipped connection.*)
LEMMA ReadRowFine == ASSUME Base, Promised, ReadRow PROVE Fine
<1>1. Work /\ MailHeld /\ TableHeld /\ Ordered /\ SetUpFirst /\ RowsAreFinal
  BY DEF Base, Work, Promised
<1>2. /\ Srv \in up /\ todo[Srv] # <<>> /\ Head(todo[Srv]) = <<"recv", "row">>
      /\ Take(Srv, {"row"}) /\ EndServe /\ qp' = qp
  BY DEF ReadRow, At
<1>3. Srv \in Process /\ serving \in Conn
  BY <1>1, <1>2 DEF Process, Work, WorkTypes
<1>4. AllOldMail
  BY <1>1, <1>2, <1>3, TakeIsOld
<1>5. Concluded(serving)
  <2>1. mail[serving]["Server"] # <<>> /\ Head(mail[serving]["Server"]).kind = "row"
    BY <1>2 DEF Take, ConnOf, SideOf
  <2>2. 1 \in DOMAIN mail[serving]["Server"] /\ mail[serving]["Server"][1].kind = "row"
    BY <1>1, <1>3, <2>1, FirstLetter DEF Side
  <2> QED
    BY <1>1, <1>3, <2>2 DEF RowsAreFinal
<1>6. serving \in SetUp
  <2>1. /\ 1 \in DOMAIN todo[Srv] /\ todo[Srv][1] \in SetUpItems
        /\ \A i \in DOMAIN todo[Srv] : i \in Nat \ {0}
    BY <1>1, <1>2, <1>3, HeadIs DEF SetUpItems
  <2>2. ~\E i \in DOMAIN todo[Srv] : todo[Srv][i] = BuildItem
    <3>1. \A i \in DOMAIN todo[Srv] : ~(i < 1)
      BY <2>1
    <3> QED
      BY <1>1, <2>1, <3>1 DEF Ordered
  <2>3. Equipped(serving)
    BY <1>1, <2>1, <2>2 DEF SetUpFirst
  <2> QED
    BY <1>3, <2>3 DEF SetUp, Equipped
<1> DEFINE mode == Req(serving).mode
           row == [mode |-> mode, conn |-> serving, titled |-> NewTable(mode)]
<1>7. printed' = printed \/ printed' = Append(printed, row)
  BY DEF ReadRow
<1>8. row \in Rows /\ row.conn = serving
  BY <1>3, ConnIs DEF Rows, NewTable
<1> HIDE DEF row
<1>9. CASE printed' = printed
  <2>1. TableOfFinal /\ Shown' = Shown
    BY <1>1, <1>9, OldTable, StaysIs
  <2> QED
    BY <1>2, <1>4, <2>1, EndServeFine
<1>10. CASE printed' = Append(printed, row)
  <2>1. Shown' = Append(Shown, serving)
    BY <1>1, <1>8, <1>10, ShownGrows
  <2>2. TableOfFinal
    <3> SUFFICES ASSUME NEW i \in DOMAIN printed'
                 PROVE  \E conn \in Conn : printed'[i].conn = conn /\ Concluded(conn)
      BY DEF TableOfFinal
    <3>1. (i \in DOMAIN printed /\ printed'[i] = printed[i]) \/ printed'[i] = row
      BY <1>1, <1>8, <1>10, ShownGrows
    <3>2. CASE i \in DOMAIN printed /\ printed'[i] = printed[i]
      <4>1. printed[i] \in Rows
        BY <1>1, <3>2, ElementOfSeq, LenProperties DEF TableHeld
      <4> QED
        BY <1>1, <3>2, <4>1 DEF RowsAreFinal, Rows
    <3>3. CASE printed'[i] = row
      BY <1>3, <1>5, <1>8, <3>3
    <3> QED
      BY <3>1, <3>2, <3>3
  <2> QED
    BY <1>2, <1>4, <1>5, <1>6, <2>1, <2>2, EndServeFine
<1> QED
  BY <1>7, <1>9, <1>10

(* The server process.                                                     *)
LEMMA ServerFine == ASSUME Base, Promised, ServerStep PROVE Fine
<1>1. Work /\ MailHeld /\ TableHeld /\ RowsAreFinal
  BY DEF Base, Work, Promised
<1>2. Srv \in Process
  BY DEF Process
<1>3. CASE Exchange(Srv)
  BY <1>2, <1>3, ExchangeFine
<1>4. CASE ReadEndpoint(Srv, "endpoint", "endpoint")
  BY <1>2, <1>4, ReadEndpointFine
<1>5. CASE Accept
  <2>1. /\ Srv \in up /\ serving = NoConn /\ backlog # <<>>
        /\ serving' = Head(backlog) /\ backlog' = Tail(backlog)
        /\ todo' = [todo EXCEPT ![Srv] = Recv("request")]
        /\ UNCHANGED <<up, at, mail, closed, qp, armed, result, lastMode, printed>>
    BY <1>5 DEF Accept
  <2>2. \A i \in DOMAIN Recv("request") : Recv("request")[i] \notin SetUpItems
    BY DEF Recv, SetUpItems
  <2>3. Promised'
    BY <2>1, <2>2, MailKept, ServePromise
  <2>4. UNCHANGED <<SetUp, Left, Shown>>
    BY <2>1, StaysIs
  <2>5. Serving!Serve
    BY <2>1, <2>4 DEF Serving!Serve, SetUp, Left, Shown
  <2> QED
    BY <2>3, <2>5 DEF Fine, Serving!Next
<1>6. CASE ReadRequest
  <2>1. /\ todo[Srv] # <<>> /\ Take(Srv, {"request"})
        /\ todo' = [todo EXCEPT ![Srv] = ServerSteps(Incoming(Srv).body)]
        /\ UNCHANGED <<up, at, serving, backlog, closed, qp, armed, result, lastMode, printed>>
    BY <1>6 DEF ReadRequest, At
  <2>2. serving \in Conn /\ ConnOf(Srv) = serving /\ SideOf(Srv) = "Server" /\ "Server" \in Side
    BY <1>1, <2>1 DEF Work, WorkTypes, ConnOf, SideOf, Side
  <2>3. Incoming(Srv).body = Req(serving)
    BY <1>1, <2>1, <2>2, HeadLetter DEF Take, Incoming
  <2>4. Req(serving) \in [transport : Transports, mode : Modes]
    BY <2>2, ConnIs
  <2>5. AllOldMail
    BY <1>1, <1>2, <2>1, TakeIsOld
  <2> DEFINE steps == ServerSteps(Req(serving))
  <2>6. /\ \A i, j \in DOMAIN steps : steps[i] = BuildItem /\ steps[j] \in SetUpItems => i < j
        /\ (\E i \in DOMAIN steps : steps[i] \in SetUpItems) => Has(steps, BuildItem)
    BY <2>4, ServerOrder
  <2>7. todo' = [todo EXCEPT ![Srv] = steps]
    BY <2>1, <2>3
  <2> HIDE DEF steps
  <2>8. Promised'
    BY <2>1, <2>5, <2>6, <2>7, ServePromise
  <2>9. Stays
    BY <2>1, StaysIs DEF Stays
  <2> QED
    BY <2>8, <2>9, StaysIs DEF Fine
<1>7. CASE ReturnRejected
  <2>1. /\ Srv \in up /\ todo[Srv] # <<>> /\ EndServe
        /\ mail' = mail /\ qp' = qp /\ printed' = printed
    BY <1>7 DEF ReturnRejected, At
  <2>2. TableOfFinal /\ Shown' = Shown /\ AllOldMail
    BY <1>1, <2>1, OldTable, StaysIs, MailKept
  <2> QED
    BY <2>1, <2>2, EndServeFine
<1>8. CASE ReadRow
  BY <1>8, ReadRowFine
<1> QED
  BY <1>3, <1>4, <1>5, <1>6, <1>7, <1>8 DEF ServerStep

(* What goes wrong from outside.                                           *)
LEMMA FaultFine ==
  ASSUME Base, Promised, AcceptFails \/ \E p \in Process : Kill(p)
  PROVE  Fine
<1>1. Work /\ EndTypes /\ TableHeld /\ RowsAreFinal /\ PendingTillEnd
  BY DEF Base, Work, Promised
<1>2. /\ UNCHANGED <<at, mail, qp, printed>> /\ AllOldMail /\ TableOfFinal
      /\ SetUp' = SetUp /\ Shown' = Shown /\ Srv \in Process
  <2>1. UNCHANGED <<at, mail, qp, printed>>
    BY DEF AcceptFails, Kill
  <2> QED
    BY <1>1, <2>1, MailKept, OldTable, StaysIs DEF Process
<1>3. todo \in [Process -> Seq(Item)]
  BY <1>1 DEF Work, WorkTypes, Process
<1>4. CASE AcceptFails
  <2>1. Srv \in up /\ serving = NoConn /\ Exit({}) /\ UNCHANGED <<todo, serving, result>>
    BY <1>4 DEF AcceptFails
  <2>2. /\ up' = up \ {Srv} /\ backlog' = <<>> /\ Left' = Left \cup Range(backlog)
        /\ \A conn \in Conn : "Server" \in closed'[conn] => "Server" \in closed[conn] \/ Begun(conn)
    BY <2>1, ExitIs
  <2>3. Promised'
    BY <1>2, <2>1, <2>2, StopPromise
  <2>4. Serving!Next
    BY <1>2, <2>1, <2>2, QuitIs
  <2> QED
    BY <2>3, <2>4 DEF Fine
<1>5. ASSUME Kill(Srv) PROVE Fine
  <2>1. /\ Srv \in up /\ todo' = [todo EXCEPT ![Srv] = <<>>] /\ Exit({serving})
        /\ serving' = NoConn /\ result' = result
    BY <1>5 DEF Kill
  <2>2. /\ up' = up \ {Srv} /\ backlog' = <<>>
        /\ Left' = Left \cup ({serving} \cap Conn) \cup Range(backlog)
        /\ \A conn \in Conn : "Server" \in closed'[conn] => "Server" \in closed[conn] \/ Begun(conn)
    BY <2>1, ExitIs
  <2>3. todo'[Srv] = <<>>
    BY <1>2, <1>3, <2>1
  <2>4. Promised'
    BY <1>2, <2>1, <2>2, <2>3, StopPromise
  <2>5. CASE serving \in Conn
    <3>1. Left' = Left \cup {serving} \cup Range(backlog)
      BY <2>2, <2>5
    <3>2. Serving!Next
      BY <1>2, <2>1, <2>2, <2>5, <3>1, LeaveIs
    <3> QED
      BY <2>4, <3>2 DEF Fine
  <2>6. CASE serving \notin Conn
    <3>1. serving = NoConn
      BY <1>1, <2>6 DEF Work, WorkTypes
    <3>2. Left' = Left \cup Range(backlog)
      BY <2>2, <2>6
    <3>3. Serving!Next
      BY <1>2, <2>1, <2>2, <3>1, <3>2, QuitIs
    <3> QED
      BY <2>4, <3>3 DEF Fine
  <2> QED
    BY <2>5, <2>6
<1>6. ASSUME NEW c \in Client, Kill(c) PROVE Fine
  <2>1. c \in Process /\ c # Srv
    BY SuiteAssumption DEF Process
  <2>2. /\ todo' = [todo EXCEPT ![c] = <<>>] /\ up' = up \ {c} /\ serving' = serving
        /\ backlog' = backlog
    BY <1>6, <2>1 DEF Kill
  <2>3. todo'[c] = <<>> /\ (Srv \in up') = (Srv \in up)
    BY <1>3, <2>1, <2>2
  <2>4. CASE todo[c] = <<>> /\ UNCHANGED <<result, closed>>
    <3>1. Promised'
      BY <1>2, <2>1, <2>2, <2>4, StopPromise
    <3>2. Stays
      BY <1>2, <2>2, <2>3, <2>4, StaysIs DEF Stays
    <3> QED
      BY <3>1, <3>2, StaysIs DEF Fine
  <2>5. CASE /\ todo[c] # <<>> /\ result' = [result EXCEPT ![ConnOf(c)] = "killed"]
             /\ Close({ConnOf(c)}, "Client")
    <3> DEFINE here == <<c, at[c]>>
    <3>1. here \in Conn /\ here = ConnOf(c) /\ here[1] = c /\ here[2] = at[c]
      BY <1>1, <2>1, <2>5, AtWork DEF ConnOf
    <3> HIDE DEF here
    <3>2. result' = [result EXCEPT ![here] = "killed"] /\ Close({here}, "Client")
      BY <2>5, <3>1
    <3>3. Left' = Left /\ \A conn \in Conn : "Server" \in closed'[conn] => "Server" \in closed[conn]
      <4>1. Left' = Left
        BY <1>1, <3>2, LeftIs
      <4>2. \A conn \in Conn : "Server" \in closed'[conn] => "Server" \in closed[conn]
        BY <3>2 DEF Close
      <4> QED
        BY <4>1, <4>2
    <3>4. \A conn \in Conn :
            \/ result'[conn] = result[conn]
            \/ conn = here /\ result'[conn] = "killed"
      BY <1>1, <3>1, <3>2 DEF EndTypes
    <3>5. Promised'
      BY <1>2, <2>1, <2>2, <2>3, <3>3, <3>4, StopPromise DEF here
    <3>6. result[here] = "pending"
      BY <1>1, <2>5, <3>1 DEF PendingTillEnd
    <3>7. Serving!Next
      BY <1>1, <1>2, <2>2, <2>3, <3>1, <3>2, <3>3, <3>6, JudgeIs
    <3> QED
      BY <3>5, <3>7 DEF Fine
  <2> QED
    BY <1>6, <2>1, <2>4, <2>5 DEF Kill
<1> QED
  BY <1>4, <1>5, <1>6 DEF Process
--------------------------------------------------------------------------------
(***************************************************************************)
(* The theorems.                                                           *)
(***************************************************************************)

(* Nothing is behind anybody at first.                                     *)
LEMMA InitFine == Init => Promised /\ Serving!Init
<1> SUFFICES ASSUME Init PROVE Promised /\ Serving!Init
  OBVIOUS
<1>1. /\ \A c \in Client : todo[c] = <<>>
      /\ todo[Srv] = <<>> /\ DOMAIN <<>> = {} /\ printed = <<>>
  BY DEF Init
<1>2. \A conn \in Conn : \A s \in Side : mail[conn][s] = <<>> /\ qp[conn][s] = NoQp
  BY DEF Init
<1>3. \A conn \in Conn : closed[conn] = {} /\ result[conn] = "pending"
  BY DEF Init
<1>4. "Client" \in Side /\ "Server" \in Side
  BY DEF Side
<1>5. Ordered
  BY <1>1 DEF Ordered
<1>6. SetUpFirst
  BY <1>1, <1>2, <1>4 DEF SetUpFirst
<1>7. RowsAreFinal
  BY <1>1, <1>2, <1>4 DEF RowsAreFinal
<1>8. PendingTillEnd /\ ClosedAreBegun
  BY <1>3 DEF PendingTillEnd, ClosedAreBegun
<1>9. SetUp = {} /\ Left = {} /\ Shown = <<>>
  <2>1. SetUp = {} /\ Left = {}
    BY <1>2, <1>3, <1>4 DEF SetUp, Left
  <2>2. Shown = [i \in 1 .. 0 |-> printed[i].conn]
    BY <1>1 DEF Shown
  <2> QED
    BY <2>1, <2>2
<1>10. Serving!Init
  BY <1>9 DEF Init, Serving!Init, SetUp, Left, Shown
<1> QED
  BY <1>5, <1>6, <1>7, <1>8, <1>10 DEF Promised

(* Every step of a session is one of the service, or none.                 *)
LEMMA StepFine == Base /\ Promised /\ [Next]_vars => Fine
<1> SUFFICES ASSUME Base, Promised, [Next]_vars PROVE Fine
  OBVIOUS
<1>1. CASE Over \/ UNCHANGED vars
  <2>1. UNCHANGED <<up, todo, at, serving, backlog, mail, closed, qp, result, printed>>
    BY <1>1 DEF Over, vars, connVars
  <2>2. AllOldMail /\ TableOfFinal
    BY <2>1, MailKept, OldTable DEF Base, Promised
  <2>3. Promised'
    BY <2>1, <2>2, StopPromise DEF Process
  <2>4. Stays
    BY <2>1, StaysIs DEF Stays
  <2> QED
    BY <2>3, <2>4, StaysIs DEF Fine
<1> QED
  BY <1>1, ClientFine, ServerFine, FaultFine DEF Next, Step, Process

(* What the invariants of Session.tla and the promise of the server rest   *)
(* on holds in every run of server.rs and client.rs, whatever fails.       *)
THEOREM PromisedInvariant == Spec => [](Base /\ Promised)
<1>1. Init => Base /\ Promised
  BY InitBase, InitFine
<1>2. Base /\ Promised /\ [Next]_vars => (Base /\ Promised)'
  BY BaseStep, StepFine DEF Fine
<1> QED
  BY <1>1, <1>2, PTL DEF Spec

(* The server keeps the promise of Service.tla for all clients and suites, *)
(* whatever the verbs do and whoever is killed: connections one at a time, *)
(* in order and once, a result only for a run it was set up for, and a     *)
(* row, once, only of a run that does not fail (server.rs:13, :77).        *)
THEOREM SessionsKeepThePromise == Spec => ServiceSpec
<1>1. Init => Serving!Init
  BY InitFine
<1>2. Base /\ Promised /\ [Next]_vars => [Serving!Next]_Serving!vars
  BY StepFine DEF Fine
<1> QED
  BY <1>1, <1>2, PromisedInvariant, PTL DEF Spec, ServiceSpec, Serving!Spec
================================================================================

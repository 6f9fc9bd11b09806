--------------------------------- MODULE Suite ---------------------------------
(***************************************************************************)
(* A client process from its command line to its exit code: the plan       *)
(* (cli.rs), the loop over the runs and what it prints (client.rs), the    *)
(* exit code (main.rs).  One run is one step here: Session.tla is about    *)
(* what happens inside it, Report.tla about the cells of its row.          *)
(*                                                                         *)
(* The loops of run_suite iterate over lists; modes and left are what is   *)
(* left of the two lists, the entry being worked on in front.              *)
(***************************************************************************)
EXTENDS Report, SequencesExt, FiniteSetsExt

CONSTANTS
  WordBits,           \* the width of usize
  Commands,           \* the command lines to consider, each with the build:
                      \* "debug" checks arithmetic for overflow, "release" wraps
  Measurements(_, _), \* what the benchmark may measure: mode, message size
  MaxSizes            \* bound on a list of sizes that grows for ever

Modes == {"Bandwidth", "Latency", "Accuracy", "RdmaWrite", "RdmaRead"}

\* 2 ^ k, by doubling.
PowerOfTwo[k \in Nat] == IF k = 0 THEN 1 ELSE 2 * PowerOfTwo[k - 1]

Word == 0 .. PowerOfTwo[WordBits] - 1

\* The arguments clap accepts, as far as the control depends on them.
CommandLine ==
  [build : {"debug", "release"}, transport : {"Rc", "Uc", "Ud"}, mode : Seq(Modes),
   all : BOOLEAN, size : Word, min_size : Word, max_size : Word,
   iterations : Nat, tx_depth : Nat, rx_depth : Nat, csv : BOOLEAN, runs : Nat \ {0}]

ASSUME SuiteAssumption ==
  /\ WordBits \in Nat \ {0}
  /\ Commands \subseteq CommandLine
  /\ MaxSizes > WordBits

\* What the benchmarks hand back, samples and times as multiples of a clock's tick.
BandwidthStats ==
  [mode : {"Bandwidth"}, msg_size : Word, iterations : Nat, tx_depth : Nat, elapsed_us : Nat]

LatencySamples == [mode : {"Latency"}, msg_size : Word, samples : Seq(Nat)]

AccuracyReport ==
  [mode : {"Accuracy"}, msg_size : Word, sent : Nat, received : Nat, lost : Nat,
   duplicated : Nat, unidentifiable : Nat, truncated : Nat, corrupted : Nat,
   correct_bytes : Nat, correct_bits : Nat]

\* The size is the one they were called with (bench/*.rs); no run of the client's
\* RDMA modes gets that far.
ASSUME MeasurementAssumption ==
  \A mode \in Modes \ {"RdmaWrite", "RdmaRead"}, msgSize \in Word :
    \A m \in Measurements(mode, msgSize) :
      /\ m \in BandwidthStats \cup LatencySamples \cup AccuracyReport
      /\ m.mode = mode /\ m.msg_size = msgSize

VARIABLES
  cmd,      \* the command line, never changed
  phase,    \* where the process is: "plan", "sizing", "open", "single",
            \* "print", "table" (between two), "runs" (in one)
  sizes,    \* the sizes of the plan
  size,     \* power_of_two_sizes: the candidate
  modes,    \* modes whose table is not finished
  left,     \* sizes of the table that are not finished
  rep,      \* runs made of the size in front
  failures,
  lines,    \* what is on the terminal: headings, and a line about each run
  heading,  \* the cells of the last heading
  shown,    \* the last measurement and the row printed of it
  exit      \* "none", or how the process ended

planVars == <<sizes, size>>
loopVars == <<modes, left, rep, failures>>
termVars == <<lines, heading, shown>>
vars == <<cmd, phase, planVars, loopVars, termVars, exit>>

NothingShown == [of |-> None, row |-> None]

Init ==
  /\ cmd \in Commands
  /\ phase = "plan"
  /\ sizes = <<>> /\ size = 0
  /\ modes = <<>> /\ left = <<>> /\ rep = 0 /\ failures = <<>>
  /\ lines = <<>> /\ heading = <<>> /\ shown = NothingShown
  /\ exit = "none"

In(p) == exit = "none" /\ phase = p

\* `?`, up to main: the process ends where it is.
End(how) == exit' = how /\ UNCHANGED <<phase, planVars, loopVars, termVars>>
-------------------------------------------------------------------------------
(***************************************************************************)
(* ClientArgs::plan and power_of_two_sizes.                                *)
(***************************************************************************)

\* Mode::ALL
AllModes == <<"Bandwidth", "Latency", "Accuracy">>

PlannedModes == IF cmd.mode = <<>> THEN AllModes ELSE cmd.mode

Refused ==
  \/ cmd.iterations = 0 \/ cmd.tx_depth = 0 \/ cmd.rx_depth = 0
  \/ cmd.all /\ (cmd.min_size = 0 \/ cmd.max_size < cmd.min_size)
  \/ ~cmd.all /\ cmd.size = 0

PlanRefused == In("plan") /\ Refused /\ End("error")

Planned(s) ==
  /\ phase' = "open"
  /\ sizes' = s
  /\ modes' = PlannedModes
  /\ UNCHANGED <<size, left, rep, failures, termVars, exit>>

PlanOneSize == In("plan") /\ ~Refused /\ ~cmd.all /\ Planned(<<cmd.size>>)

\* The smallest power of two that is not below n; it may need one bit more.
NextPowerOfTwo(n) == Min({PowerOfTwo[k] : k \in 0 .. WordBits} \ 0 .. n - 1)

\* let mut size = min.next_power_of_two()
StartSizing ==
  LET first == NextPowerOfTwo(cmd.min_size)
  IN /\ In("plan") /\ ~Refused /\ cmd.all
     /\ \/ /\ first \in Word \/ cmd.build = "release"
           /\ phase' = "sizing"
           /\ size' = first % PowerOfTwo[WordBits]
           /\ UNCHANGED <<sizes, loopVars, termVars, exit>>
        \/ first \notin Word /\ cmd.build = "debug" /\ End("panic")

\* A variant for the mutation runs: the upper bound is left out.
WithinBelow(s) == s < cmd.max_size

\* while size <= max
Within(s) == s <= cmd.max_size

\* sizes.push(size), then checked_mul(2), which breaks the loop on overflow.
PushSize ==
  /\ In("sizing") /\ Within(size) /\ Len(sizes) < MaxSizes
  /\ IF 2 * size \in Word
       THEN /\ sizes' = Append(sizes, size)
            /\ size' = 2 * size
            /\ UNCHANGED <<phase, loopVars, termVars, exit>>
       ELSE Planned(Append(sizes, size))

SizesDone ==
  /\ In("sizing") /\ ~Within(size)
  /\ IF sizes = <<>> THEN End("error") ELSE Planned(sizes)
-------------------------------------------------------------------------------
(***************************************************************************)
(* client::run and run_suite.                                              *)
(***************************************************************************)

\* ClientArgs::is_single_run
SingleRun == Len(PlannedModes) = 1 /\ Len(sizes) = 1 /\ cmd.runs = 1 /\ ~cmd.csv

\* device::open and alloc_pd.
OpenDevice ==
  /\ In("open")
  /\ \/ End("error")
     \/ /\ phase' = IF SingleRun THEN "single" ELSE "table"
        /\ left' = IF SingleRun THEN sizes ELSE <<>>
        /\ UNCHANGED <<planVars, modes, rep, failures, termVars, exit>>

MinMsgSize(mode) == IF mode = "Accuracy" THEN 8 ELSE 1

\* bench::supported, the roles rdma::run has no code for, and accuracy::run.
CanRun(mode, msgSize) ==
  /\ cmd.transport # "Ud" /\ mode \notin {"RdmaWrite", "RdmaRead"}
  /\ msgSize >= MinMsgSize(mode)

Failure == [mode |-> "failed"]

\* What a run may give: a measurement, or a failure for whatever reason
\* run_once has (Session.tla).
Outcome(mode, msgSize) ==
  {Failure} \cup IF CanRun(mode, msgSize) THEN Measurements(mode, msgSize) ELSE {}

\* The benchmark turns what it has measured into a report; so do the statistics
\* of a ping-pong.
ReportOf(m) ==
  [of |-> m.mode,
   stats |-> IF m.mode = "Latency" THEN FromSamples(m.msg_size, m.samples) ELSE m]

Line(what, about) == << [line |-> what, about |-> about] >>

\* What is printed below a row.
NotesOf(m) == IF Notes(ReportOf(m)) = None THEN <<>> ELSE Line("notes", Notes(ReportOf(m)))

\* A row prints the size its report carries.
RowOf(m) ==
  LET row == Row(ReportOf(m))
  IN IF row = None THEN <<>> ELSE Line("row", row[1].num)

Show(m) == shown' = [of |-> m, row |-> Row(ReportOf(m))]

\* run_once of a single run; its error is the process's.
MakeSingle ==
  /\ In("single")
  /\ \E m \in Outcome(Head(modes), Head(left)) :
       IF m = Failure THEN exit' = "error" /\ UNCHANGED <<phase, shown>>
                      ELSE phase' = "print" /\ Show(m) /\ UNCHANGED exit
  /\ left' = Tail(left)
  /\ UNCHANGED <<planVars, modes, rep, failures, lines, heading>>

\* Report::print, and the end of the process.
PrintSingle ==
  LET mode == Head(modes)
  IN /\ In("print")
     /\ IF shown.row = None
          THEN lines' = NotesOf(shown.of) /\ UNCHANGED heading
          ELSE /\ heading' = Header(mode)
               /\ lines' = Line("header", mode) \o RowOf(shown.of) \o NotesOf(shown.of)
     /\ exit' = "ok"
     /\ UNCHANGED <<phase, planVars, loopVars, shown>>

\* A variant for the mutation runs: the sizes a mode cannot run are kept.
SizesForAll(mode) == sizes

SizesFor(mode) ==
  LET kept[i \in 0 .. Len(sizes)] ==
        IF i = 0 THEN <<>>
        ELSE IF sizes[i] >= MinMsgSize(mode) THEN Append(kept[i - 1], sizes[i]) ELSE kept[i - 1]
  IN kept[Len(sizes)]

\* for &mode in &plan.modes: the sizes of its table, and its heading.
StartTable ==
  /\ In("table") /\ modes # <<>>
  /\ left' = SizesFor(Head(modes))
  /\ heading' = IF cmd.csv THEN CsvHeader(Head(modes)) ELSE Header(Head(modes))
  /\ lines' = lines \o Line("header", Head(modes))
  /\ phase' = "runs"
  /\ UNCHANGED <<planVars, modes, rep, failures, shown, exit>>

\* A variant for the mutation runs: one repetition too many.
RunDoneLate ==
  IF rep < cmd.runs THEN rep' = rep + 1 /\ UNCHANGED left ELSE rep' = 0 /\ left' = Tail(left)

\* for _ in 0..args.runs, and for size in sizes
RunDone ==
  IF rep + 1 < cmd.runs THEN rep' = rep + 1 /\ UNCHANGED left
                        ELSE rep' = 0 /\ left' = Tail(left)

\* A variant for the mutation runs: a failure is not told in the summary.
NotedNever(run) == failures

\* failures.push((mode, size))
Noted(run) == Append(failures, run)

\* The line about a run.  Comma-separated output says nothing of a run without
\* numbers, and has no notes.
LinesOf(m, msgSize) ==
  IF cmd.csv THEN RowOf(m)
  ELSE (IF Row(ReportOf(m)) = None THEN Line("no result", msgSize) ELSE RowOf(m)) \o NotesOf(m)

MakeRun ==
  LET mode == Head(modes)  msgSize == Head(left)
  IN /\ In("runs") /\ left # <<>>
     /\ \E m \in Outcome(mode, msgSize) :
          IF m = Failure
            THEN /\ lines' = lines \o Line("failed", msgSize)
                 /\ failures' = Noted(<<mode, msgSize>>)
                 /\ shown' = NothingShown
            ELSE /\ lines' = lines \o LinesOf(m, msgSize)
                 /\ Show(m)
                 /\ UNCHANGED failures
     /\ RunDone
     /\ UNCHANGED <<phase, planVars, modes, heading, exit>>

TableDone ==
  /\ In("runs") /\ left = <<>>
  /\ modes' = Tail(modes)
  /\ phase' = "table"
  /\ shown' = NothingShown
  /\ UNCHANGED <<planVars, left, rep, failures, lines, heading, exit>>

\* The list of failed runs; the client ends well although some may have failed.
Summary ==
  /\ In("table") /\ modes = <<>>
  /\ lines' = lines \o Line("summary", failures)
  /\ exit' = "ok"
  /\ UNCHANGED <<phase, planVars, loopVars, heading, shown>>

Step ==
  \/ PlanRefused \/ PlanOneSize \/ StartSizing \/ PushSize \/ SizesDone
  \/ OpenDevice \/ MakeSingle \/ PrintSingle
  \/ StartTable \/ MakeRun \/ TableDone \/ Summary

Ended == exit # "none" /\ UNCHANGED vars

Next == Ended \/ (Step /\ UNCHANGED cmd)

\* The process runs, and every run ends (Session.tla: EveryClientFinishes).
Spec == Init /\ [][Next]_vars /\ WF_vars(Step /\ UNCHANGED cmd)
-------------------------------------------------------------------------------
(***************************************************************************)
(* Properties.                                                             *)
(***************************************************************************)

(* Types; a process that ended regularly has nothing left to run, and no   *)
(* repetition is begun that was not asked for.                             *)
TypeOK ==
  /\ cmd \in Commands
  /\ phase \in {"plan", "sizing", "open", "single", "print", "table", "runs"}
  /\ sizes \in Seq(Word) /\ size \in Word
  /\ modes \in Seq(Modes) /\ left \in Seq(Range(sizes))
  /\ rep \in 0 .. cmd.runs - 1
  /\ failures \in Seq(Modes \X Word)
  /\ \A i \in DOMAIN lines :
       lines[i].line \in {"header", "row", "no result", "failed", "notes", "summary"}
  /\ exit \in {"none", "ok", "error", "panic"}
  /\ exit = "ok" => left = <<>>

\* The powers of two from the one bound to the other, in ascending order.
PowersAsked ==
  LET exponents == {k \in 0 .. WordBits - 1 : PowerOfTwo[k] \in cmd.min_size .. cmd.max_size}
  IN [i \in 1 .. Cardinality(exponents) |-> PowerOfTwo[Min(exponents) + i - 1]]

(* The sweep visits "powers of two from the first one at or above min up   *)
(* to the last one at or below max" (cli.rs:166), each of them once and in *)
(* ascending order, also at the upper end of the word; it is refused if    *)
(* and only if there is none.                                              *)
SizesAreExact ==
  cmd.all =>
    /\ IsPrefix(sizes, PowersAsked)
    /\ phase \notin {"plan", "sizing"} => sizes = PowersAsked
    /\ phase = "sizing" /\ exit = "error" => PowersAsked = <<>>

\* How many samples are at most v.
AtMost(v, s) == Cardinality({i \in DOMAIN s : s[i] <= v})

\* v is the p-percentile of s by nearest rank: the least sample that a share p
\* of the samples does not exceed.
NearestRank(v, s, p) ==
  /\ v \in Range(s)
  /\ AtMost(v, s) * p.den >= Len(s) * p.num
  /\ AtMost(v - 1, s) * p.den < Len(s) * p.num

\* The cell says of measurement m what its heading promises.
Says(head, cell, m) ==
  CASE head \in {"#bytes", "bytes"} -> Equal(cell, Whole(m.msg_size))
    [] head \in {"#iterations", "iterations"} ->
         Equal(cell, Whole(CASE m.mode = "Bandwidth" -> m.iterations
                             [] m.mode = "Latency" -> Len(m.samples)
                             [] m.mode = "Accuracy" -> m.sent))
    [] head = "tx_depth" -> Equal(cell, Whole(m.tx_depth))
    [] head \in {"BW avg[Gb/sec]", "bw_avg"} ->
         cell.num * m.elapsed_us * 1000 = cell.den * m.iterations * m.msg_size * 8
    [] head \in {"MsgRate[Mpps]", "msgrate"} -> cell.num * m.elapsed_us = cell.den * m.iterations
    [] head \in {"t_min[usec]", "t_min"} ->
         cell.num \in Range(m.samples) /\ AtMost(cell.num - 1, m.samples) = 0
    [] head \in {"t_max[usec]", "t_max"} ->
         cell.num \in Range(m.samples) /\ AtMost(cell.num, m.samples) = Len(m.samples)
    [] head \in {"t_typical[usec]", "t_typical"} -> NearestRank(cell.num, m.samples, Median)
    [] head \in {"99%[usec]", "99%"} -> NearestRank(cell.num, m.samples, P99)
    [] head \in {"99.9%[usec]", "99.9%"} -> NearestRank(cell.num, m.samples, P999)
    [] head \in {"t_avg[usec]", "t_avg"} ->
         cell.num * Len(m.samples) = cell.den * Total(m.samples)
    [] head \in {"t_stdev[usec]", "t_stdev"} ->
         LET n == Len(m.samples)
             total == Total(m.samples)
             squares == SumOver(m.samples, [v \in Range(m.samples) |-> v * v])
         IN IF n = 1 THEN cell.num = 0
            ELSE cell.num = n * (n * squares - total * total) /\ cell.den = n * n * (n - 1)
    [] head \in {"#received", "received"} -> Equal(cell, Whole(m.received))
    [] head \in {"#lost", "lost"} -> Equal(cell, Whole(m.lost))
    [] head \in {"#dup", "dup"} -> Equal(cell, Whole(m.duplicated))
    [] head \in {"#corrupt", "corrupt"} -> Equal(cell, Whole(m.corrupted))
    [] head \in {"ByteAcc[%]", "byte_acc"} ->
         cell.num * m.sent * m.msg_size = cell.den * m.correct_bytes * 100
    [] head \in {"BitAcc[%]", "bit_acc"} ->
         cell.num * m.sent * m.msg_size * 8 = cell.den * m.correct_bits * 100

(* A row has a cell for each heading above it and in each cell the number  *)
(* that heading names, in both forms of output: percentiles by nearest     *)
(* rank also for one sample and where p * n is an integer or just below    *)
(* one, deviation and mean of what was measured.                           *)
CellsUnderTheirHeading ==
  shown.row # None /\ (phase = "print" => exit = "ok") =>
    /\ Len(shown.row) = Len(heading)
    /\ \A i \in DOMAIN heading : Says(heading[i], shown.row[i], shown.of)

Times(n, run) == [k \in 1 .. n |-> run]

\* The runs of one mode over the sizes ss, n of each, without those it has no
\* room in.
RunsOf(n, mode, ss) ==
  FlattenSeq([i \in DOMAIN ss |->
    IF ss[i] >= MinMsgSize(mode) THEN Times(n, <<mode, ss[i]>>) ELSE <<>>])

\* The runs of the tables of modes ms over the sizes ss.
TablesOf(n, ms, ss) == FlattenSeq([i \in DOMAIN ms |-> RunsOf(n, ms[i], ss)])

\* What the command line asks for.
SizesAsked ==
  IF Refused THEN <<>> ELSE IF cmd.all THEN PowersAsked ELSE <<cmd.size>>

LoneAsked == Len(PlannedModes) = 1 /\ Len(SizesAsked) = 1 /\ cmd.runs = 1 /\ ~cmd.csv

RunsAsked ==
  IF LoneAsked THEN << <<PlannedModes[1], SizesAsked[1]>> >>
               ELSE TablesOf(cmd.runs, PlannedModes, SizesAsked)

\* The mode in the heading that line i of ls stands below.
Title(ls, i) == ls[Max({j \in 1 .. i : ls[j].line = "header"})].about

\* The runs that those of the lines ls tell of that are of the kinds ks: the size
\* is in the line.
Told(ls, ks) ==
  FlattenSeq([i \in DOMAIN ls |->
    IF ls[i].line \in ks THEN << <<Title(ls, i), ls[i].about>> >> ELSE <<>>])

(* Whoever reads the tables of a suite finds one line for each run of the  *)
(* matrix, in its order and below the heading of its mode, although runs   *)
(* fail, yield no numbers, are repeated or are skipped for a mode          *)
(* (client.rs:61); the summary lists the failed ones.                      *)
TablesTellEveryRun ==
  exit = "ok" /\ ~LoneAsked =>
    /\ ~cmd.csv => Told(lines, {"row", "no result", "failed"}) = RunsAsked
    /\ Last(lines).about = Told(lines, {"failed"})

(* The client makes the runs of its matrix, each once and in order, and    *)
(* ends, in error only if it could not start or its one run failed.        *)
Due ==
  CASE phase \in {"plan", "sizing", "open"} -> RunsAsked
    [] phase \in {"single", "print"} -> IF left = <<>> THEN <<>> ELSE RunsAsked
    [] phase = "table" -> TablesOf(cmd.runs, modes, sizes)
    [] phase = "runs" ->
         (IF left = <<>> THEN <<>>
          ELSE Times(cmd.runs - rep, <<Head(modes), Head(left)>>)
                 \o RunsOf(cmd.runs, Head(modes), Tail(left)))
           \o TablesOf(cmd.runs, Tail(modes), sizes)

Abstract == INSTANCE Matrix
  WITH matrix <- RunsAsked, lone <- LoneAsked, due <- Due,
       failed <- IF phase = "single" /\ exit = "error" THEN RunsAsked ELSE failures,
       exit <- IF exit = "panic" THEN "error" ELSE exit

MatrixSpec == Abstract!Spec
================================================================================

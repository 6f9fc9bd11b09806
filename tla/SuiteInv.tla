------------------------------- MODULE SuiteInv -------------------------------
(***************************************************************************)
(* What holds between any two steps of a client process (Suite.tla), and   *)
(* is strong enough for each step to keep it: what the phases leave of the *)
(* loops, how far a sweep of sizes has come, and that what the terminal    *)
(* tells of and what is still due are together the runs asked for.         *)
(***************************************************************************)
EXTENDS Suite

\* What is left to run in each phase: outside of a table there is nothing, and
\* a lone run has the one size of the plan.
Shape ==
  /\ Len(lines) \in Nat /\ lines = [i \in 1 .. Len(lines) |-> lines[i]]
  /\ phase \in {"plan", "sizing", "open", "print", "table"} => left = <<>>
  /\ phase = "single" /\ exit = "none" => Len(left) = 1
  /\ phase \in {"open", "single", "print", "runs"} => modes # <<>>

\* The first size is too large for a word, and the build does not mind.
Wrapped ==
  cmd.all /\ cmd.build = "release" /\ NextPowerOfTwo(cmd.min_size) \notin Word

\* The sweep has pushed the powers of two from the k-th on and goes on with the
\* one behind them.
SweptFrom(k) ==
  /\ NextPowerOfTwo(cmd.min_size) = PowerOfTwo[k]
  /\ k + Len(sizes) < WordBits
  /\ sizes = [i \in 1 .. Len(sizes) |-> PowerOfTwo[k + i - 1]]
  /\ \A i \in DOMAIN sizes : Within(sizes[i])
  /\ size = PowerOfTwo[k + Len(sizes)]

Sweep ==
  cmd.all /\ ~Wrapped =>
    /\ phase = "plan" => sizes = <<>>
    /\ phase = "sizing" => \E k \in 0 .. WordBits - 1 : SweptFrom(k)
    /\ phase = "sizing" /\ exit # "none" => sizes = <<>> /\ ~Within(size)
    /\ phase \notin {"plan", "sizing"} => sizes = PowersAsked

\* The plan is made of the command line and stays as it is until the tables are
\* made from it; the sizes in front of the loops can be run.
Loops ==
  /\ phase # "plan" => ~Refused
  /\ phase = "sizing" => cmd.all
  /\ phase \notin {"plan", "sizing"} /\ ~cmd.all => sizes = <<cmd.size>>
  /\ phase \in {"open", "single"} => modes = PlannedModes
  /\ phase \in {"single", "print"} => SingleRun
  /\ phase \in {"table", "runs"} => ~SingleRun
  /\ phase = "single" /\ exit = "none" => left = sizes
  /\ phase = "runs" => \A i \in DOMAIN left : left[i] >= MinMsgSize(Head(modes))
  /\ phase # "runs" \/ left = <<>> => rep = 0
  /\ phase \notin {"table", "runs"} => failures = <<>>

Tells == {"row", "no result", "failed"}

\* There are headings, and none of the lines stands before the first.
Headed(ls) == ls # <<>> /\ ls[1].line = "header"

\* The lines so far tell of the runs made so far, and the table being printed is
\* that of the mode in front.
Account ==
  /\ phase \in {"plan", "sizing", "open", "single"} => lines = <<>>
  /\ exit = "ok" => phase \in {"print", "table"}
  /\ phase \in {"table", "runs"} =>
       /\ Headed(lines) \/ (lines = <<>> /\ phase = "table" /\ modes # <<>>)
       /\ Told(lines, {"failed"}) = failures
       /\ ~cmd.csv => Told(lines, Tells) \o Due = RunsAsked
  /\ phase = "runs" => Title(lines, Len(lines)) = Head(modes)
  /\ phase = "table" /\ exit = "ok" => Due = <<>> /\ Last(lines).about = failures

\* The row shown is that of a measurement of the mode in front, whose heading is
\* above it.
Displayed ==
  /\ phase \in {"plan", "sizing", "open", "single", "table"} => shown = NothingShown
  /\ shown # NothingShown =>
       /\ shown.row = Row(ReportOf(shown.of))
       /\ \E msgSize \in Range(sizes) :
            CanRun(Head(modes), msgSize) /\ shown.of \in Measurements(Head(modes), msgSize)
  /\ phase = "runs" => heading \in {Header(Head(modes)), CsvHeader(Head(modes))}
  /\ phase = "print" /\ exit = "ok" /\ shown.row # None => heading = Header(Head(modes))

(* Types, what the phases leave to run, the sizes of a sweep so far, what  *)
(* the loops over the plan start from, what the lines tell, and which row  *)
(* is below which heading.                                                 *)
IInv == TypeOK /\ Shape /\ Sweep /\ Loops /\ (~Wrapped => Account) /\ Displayed
===============================================================================

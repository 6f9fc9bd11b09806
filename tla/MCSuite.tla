-------------------------------- MODULE MCSuite --------------------------------
(***************************************************************************)
(* Suite.tla for TLC: command lines for words of five bits, and what the   *)
(* benchmarks may measure.                                                 *)
(***************************************************************************)
EXTENDS SuiteInv

BasicCommand ==
  [build |-> "debug", transport |-> "Rc", mode |-> <<>>, all |-> FALSE,
   size |-> 8, min_size |-> 8, max_size |-> 16,
   iterations |-> 3, tx_depth |-> 2, rx_depth |-> 2, csv |-> FALSE, runs |-> 1]

Builds == {"debug", "release"}

\* Every pair of bounds, with runs that all fail: UD is not implemented.
Sweeps ==
  {[BasicCommand EXCEPT !.build = b, !.transport = "Ud", !.mode = <<"Latency">>,
                        !.all = TRUE, !.min_size = lo, !.max_size = hi] :
     b \in Builds, lo \in Word, hi \in Word}

\* No power of two at or above the lower bound fits into a word.
Wraps(c) == c.build = "release" /\ 2 * c.min_size > 2 ^ WordBits /\ c.min_size <= c.max_size

WrappingSweeps == {c \in Sweeps : Wraps(c)}

\* Repeated runs of two modes, a size below the minimum of one of them.
Suites ==
  {[BasicCommand EXCEPT !.mode = <<"Latency", "Accuracy">>, !.all = TRUE,
                        !.min_size = 3, !.max_size = 9, !.csv = c, !.runs = n] :
     c \in BOOLEAN, n \in 1 .. 2}

\* All modes, without and with --csv; one mode, once and three times; a mode
\* the client has no code for; a size accuracy has no room in; long
\* lists of samples.
Others ==
  {[BasicCommand EXCEPT !.csv = c, !.size = 16] : c \in BOOLEAN}
    \cup {[BasicCommand EXCEPT !.mode = <<m>>, !.size = s, !.runs = n] :
            m \in Modes, s \in {4, 16}, n \in {1, 3}}
    \cup {[BasicCommand EXCEPT !.mode = <<"Latency">>, !.csv = c, !.size = 31] : c \in BOOLEAN}

Unacceptable ==
  {[BasicCommand EXCEPT !.size = 0], [BasicCommand EXCEPT !.iterations = 0],
   [BasicCommand EXCEPT !.tx_depth = 0], [BasicCommand EXCEPT !.rx_depth = 0]}

SoundCommands == (Sweeps \ WrappingSweeps) \cup Suites \cup Others \cup Unacceptable

\* Long lists of samples, in no order: a hundred and one in a few steps that
\* end at the middle and at the last three ranks, and a thousand of which only
\* the last two ranks differ.
Stairs == [i \in 1 .. 101 |->
             LET v == (i * 37) % 101 IN IF v < 98 THEN v - (v % 25) ELSE v]
Spikes(n) == [i \in 1 .. n |-> CASE i = 5 -> 2 [] i = 77 -> 1 [] OTHER -> 0]

SampleLists(msgSize) ==
  IF msgSize = 31 THEN {<<3>>, Stairs, Tail(Stairs), Spikes(1000), Spikes(1001)}
                  ELSE {<<>>, <<4, 1>>}

MCMeasurements(m, s) ==
  CASE m = "Bandwidth" ->
         {[mode |-> m, msg_size |-> s, iterations |-> 3, tx_depth |-> 2, elapsed_us |-> 5]}
    [] m = "Latency" ->
         {[mode |-> m, msg_size |-> s, samples |-> ss] : ss \in SampleLists(s)}
    [] m = "Accuracy" ->
         {[mode |-> m, msg_size |-> s, sent |-> 9, received |-> 7, lost |-> 2,
           duplicated |-> 1, corrupted |-> 3, unidentifiable |-> u, truncated |-> 0,
           correct_bytes |-> 50, correct_bits |-> 450] : u \in {0, 4}}
================================================================================

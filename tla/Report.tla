--------------------------------- MODULE Report ---------------------------------
(***************************************************************************)
(* What a benchmark hands back and what is printed of it (report.rs).  A   *)
(* line of a table is a sequence of cells; how a cell is padded and to how *)
(* many decimals it is rounded is left out, what it says is not.  A number *)
(* the code computes in floating point is a fraction here, and in place of *)
(* a standard deviation there is its square.                               *)
(***************************************************************************)
EXTENDS Integers, Sequences, FiniteSetsExt, Functions

Fraction(a, b) == [num |-> a, den |-> b]
Whole(a) == Fraction(a, 1)
Equal(x, y) == x.num * y.den = y.num * x.den

None == <<>>   \* no statistics, row or note

Median == Fraction(50, 100)
P99 == Fraction(99, 100)
P999 == Fraction(999, 1000)

\* A variant for the mutation runs: rounded down where the code rounds up.
RankDown(n, p) == LET k == (n * p.num) \div p.den IN IF k < 1 THEN 1 ELSE k

\* ((n as f64) * p).ceil().clamp(1, n)
Rank(n, p) ==
  LET k == (n * p.num + p.den - 1) \div p.den
  IN IF k < 1 THEN 1 ELSE IF k > n THEN n ELSE k

\* The function f of a number summed over the samples, equal ones at a time.
SumOver(s, f) ==
  MapThenSumSet(LAMBDA v : f[v] * Cardinality({i \in DOMAIN s : s[i] = v}), Range(s))

Total(s) == SumOver(s, [v \in Range(s) |-> v])

\* The square of the sample standard deviation: deviations from Total(s) / n.
Variance(s) ==
  LET n == Len(s)
      total == Total(s)
  IN IF n > 1 THEN Fraction(SumOver(s, [v \in Range(s) |-> (n * v - total) * (n * v - total)]),
                            n * n * (n - 1))
              ELSE Whole(0)

\* sort_by(total_cmp): in place k is the sample that fewer than k are below and at
\* least k are not above.
Sorted(s) ==
  [k \in DOMAIN s |-> CHOOSE v \in Range(s) :
     /\ Cardinality({i \in DOMAIN s : s[i] < v}) < k
     /\ Cardinality({i \in DOMAIN s : s[i] <= v}) >= k]

\* LatencyStats::from_samples
FromSamples(msgSize, samples) ==
  LET n == Len(samples)
      sorted == Sorted(samples)
      percentile(p) == sorted[Rank(n, p)]
  IN IF samples = <<>> THEN None
     ELSE [msg_size |-> msgSize, samples |-> n, min |-> sorted[1], max |-> sorted[n],
           typical |-> percentile(Median), p99 |-> percentile(P99), p999 |-> percentile(P999),
           avg |-> Fraction(Total(samples), n), variance |-> Variance(samples)]

\* Gb/s and million messages a second from bytes, messages and microseconds.
BandwidthCells(s) ==
  << Whole(s.msg_size), Whole(s.iterations), Whole(s.tx_depth),
     Fraction(s.iterations * s.msg_size * 8, s.elapsed_us * 1000),
     Fraction(s.iterations, s.elapsed_us) >>

LatencyCells(s) ==
  << Whole(s.msg_size), Whole(s.samples), Whole(s.min), Whole(s.max), Whole(s.typical),
     s.avg, s.variance, Whole(s.p99), Whole(s.p999) >>

AccuracyCells(s) ==
  LET totalBytes == s.sent * s.msg_size
  IN << Whole(s.msg_size), Whole(s.sent), Whole(s.received), Whole(s.lost),
        Whole(s.duplicated), Whole(s.corrupted),
        Fraction(s.correct_bytes * 100, totalBytes),
        Fraction(s.correct_bits * 100, totalBytes * 8) >>

\* A report is [of |-> what the run measured, stats |-> what it hands back].
\* Report::row and Report::csv_row print the same cells.
Row(report) ==
  IF report.stats = None THEN None
  ELSE CASE report.of = "Bandwidth" -> BandwidthCells(report.stats)
         [] report.of = "Latency" -> LatencyCells(report.stats)
         [] report.of = "Accuracy" -> AccuracyCells(report.stats)

\* Report::notes: whether a line follows the row, and what it says.
Notes(report) ==
  CASE report.of = "Accuracy" /\ report.stats.unidentifiable + report.stats.truncated > 0 ->
         << Whole(report.stats.unidentifiable), Whole(report.stats.truncated) >>
    [] report.of = "Latency" /\ report.stats = None -> <<"no samples collected">>
    [] OTHER -> None

Header(mode) ==
  CASE mode \in {"Bandwidth", "RdmaWrite", "RdmaRead"} ->
         <<"#bytes", "#iterations", "tx_depth", "BW avg[Gb/sec]", "MsgRate[Mpps]">>
    [] mode = "Latency" ->
         <<"#bytes", "#iterations", "t_min[usec]", "t_max[usec]", "t_typical[usec]",
           "t_avg[usec]", "t_stdev[usec]", "99%[usec]", "99.9%[usec]">>
    [] mode = "Accuracy" ->
         <<"#bytes", "#iterations", "#received", "#lost", "#dup", "#corrupt",
           "ByteAcc[%]", "BitAcc[%]">>

CsvHeader(mode) ==
  CASE mode \in {"Bandwidth", "RdmaWrite", "RdmaRead"} ->
         <<"bytes", "iterations", "tx_depth", "bw_avg", "msgrate">>
    [] mode = "Latency" ->
         <<"bytes", "iterations", "t_min", "t_max", "t_typical", "t_avg", "t_stdev", "99%", "99.9%">>
    [] mode = "Accuracy" ->
         <<"bytes", "iterations", "received", "lost", "dup", "corrupt", "byte_acc", "bit_acc">>
=================================================================================

# A verification model of rust-rdma-bench

`rust-rdma-bench` measures RDMA performance between two machines.  A *server*
process waits for TCP connections; a *client* process connects, says which
benchmark it wants, and the two then exchange messages through their RDMA
adapters while the TCP connection carries the handshake, the barriers between
the phases of a run, and the result.  This directory holds TLA+ models of that
program, TLC configurations that check them, and proofs checked by TLAPS.

## 1. Inventory

| Component | Source | State it keeps | Operations |
|---|---|---|---|
| program entry | `main.rs` | none | chooses server or client, exit code |
| command line | `cli.rs` | none | `plan` (matrix of runs), `power_of_two_sizes`, bounds on iterations and depths |
| out-of-band connection | `comm.rs` | TCP stream, read buffer | `send_msg`, `recv_msg`, `sync`, `listen`, `accept_one`, `connect` |
| server | `server.rs` | listening socket, mode of the last row, per connection a queue pair | `run` (accept loop), `handle_connection` |
| client | `client.rs` | list of failures, what is on the terminal, per run a queue pair and a connection | `run`, `run_suite`, `run_once` |
| dispatch | `bench/mod.rs` | none | `supported`, `run`, `completion_error`, `IDLE_TIMEOUT` |
| bandwidth | `bench/bandwidth.rs` | per side `posted`, `completed`, the work queue | `receive`, `send` |
| latency | `bench/latency.rs` | per side `pending`, samples / `echoed`, the work queues | `wait_for`, `ping`, `pong` |
| accuracy | `bench/accuracy.rs` | slots of the memory region, `seen`, the counters of the report | `send`, `receive`, `check` |
| RDMA write/read | `bench/rdma.rs` | the buffer the peer reads or writes | `run` (responder only) |
| transports | `transport/*.rs` | the queue pair's depths | `build` for RC, UC; UD panics |
| reports | `report.rs` | numbers of a run | `from_samples`, rows, headings and notes, as table and as CSV |
| device | `device.rs` | none | `open` |
| verbs, adapter, fabric | external (`ibverbs` crate, hardware) | send/receive/completion queues, messages in flight | post, transmit, deliver, acknowledge, lose |

How they interact.  `client::run` turns the command line into a matrix of modes
and sizes; `run_suite` makes one connection per run through `run_once` and prints
a line about each.  `server::run` accepts one connection at a time and calls
`handle_connection`.  Both build a queue pair, exchange endpoints over the
connection and call `bench::run`, which calls the benchmark of the mode with the
queue pair, the completion queue and the connection.  A benchmark talks to its
peer by two independent ways, RDMA messages and barrier bytes; nothing but the
barriers orders the one with respect to the other.  Afterwards the client sends
the row the server prints.

What is hard about it:

* the loops poll queues that the adapters fill at the same time, and no side
  sees what the other has posted;
* UC loses messages without telling anybody, so each wait for a message is
  bounded by `IDLE_TIMEOUT`, and a timeout can race a message that is only late;
* memory is used again while the adapters may still read or write it: the
  accuracy benchmark's slots, the echo buffer of the ping-pong;
* `sync` and `recv_msg` block without a timeout, so an unmatched barrier, or an
  error path that leaves the peer in one, hangs both processes;
* lines and single bytes share one untyped stream;
* any step may fail, and any process may be killed, while the other side is
  anywhere; a listening server has to survive that, and a suite of runs too;
* sweeps end at the top of the machine word, percentiles at the last rank, and
  headings and rows are four lists kept in step by hand.

What makes each part correct: *connection* - a barrier keeps its promise, a side
always reads the kind of thing that was written; *server* - it always gets back
to accept, serves connections in order, prints results only, each below its
header; *client* - the runs of the matrix are made, each once, and each is told
of; *bandwidth* - the windows fit the queues, the stream meets posted receives, a
result is about messages that arrived; *latency* - a sample times its own round
trip, both sides agree on a complete run; *accuracy* - what is reported about the
fabric is due to the fabric; *all benchmarks* - both sides end; *reports* - a cell
says what its heading promises.

## 2. Modules

| Module | Models | Kind |
|---|---|---|
| `Rendezvous` | what `Conn::sync` promises: nobody is past a barrier that somebody has not reached | abstract specification |
| `Service` | what the server promises its clients: one connection at a time, in order; verdicts are final; no failed run is shown | abstract specification |
| `Matrix` | what a command line stands for: its runs, each made once and in order, whatever fails | abstract specification |
| `Conn` | the connection inside a benchmark: the two halves of `sync`, its failures, dropping the `Conn`, a killed process | shared by the benchmarks |
| `Link` | one direction of SEND/RECV traffic as counters | external, shared |
| `Bandwidth` | `bench/bandwidth.rs`, both sides, with `Conn` and `Link` | detailed, implements `Rendezvous` |
| `Latency` | `bench/latency.rs`, both sides, with `Conn` and two `Link`s | detailed, implements `Rendezvous` |
| `Accuracy` | `bench/accuracy.rs`, both sides, with `Conn` and the contents of the slots | detailed, implements `Rendezvous` |
| `Session` | `server.rs`, `client.rs` (`run_once`), the messages of `comm.rs`, `bench/rdma.rs`, `supported` | detailed, implements `Service` |
| `Report` | `report.rs`: statistics, cells, headings, notes | operators |
| `Suite` | `cli.rs`, `client.rs` (`run`, `run_suite`), `main.rs`, with `Report` | detailed, implements `Matrix` |
| `BandwidthInv`, `LatencyInv`, `AccuracyInv`, `SessionInv`, `SuiteInv` | the inductive invariants | |
| `Link_proof`, `QueueLemmas` | lemmas about links, sequences and sets of slots | proofs |
| `Bandwidth_proof`, `Latency_proof`, `Accuracy_proof` | theorems about the benchmarks | proofs |
| `Session_proof` | theorems about `Session`, the last that it implements `Service` | proofs |
| `Framing_proof` | theorems about the byte stream between the two sides of `Session` | proofs |
| `Suite_proof` | theorems about `Suite` and the numbers of `Report`, one that `Suite` implements `Matrix` | proofs |
| `MCBandwidth`, `MCLatency`, `MCAccuracy`, `MCSession`, `MCSuite` | values for TLC | |

The modules meet where one takes a part of the program as one step.  `Suite`
takes a run as one step with any outcome `run_once` may have; `Session` is what
happens inside that step, and that it ends is `EveryClientFinishes`.  `Session`
takes the RDMA part of a run as one step `traffic` of each side that ends in
bounded time, successfully or with an error; the benchmark modules are what
happens inside that one, and that it ends is their `EveryRunEnds`.

### How state and actions correspond to the code

* **`Conn`**: `phase[r]` is the place in the code, `"sync"` before a call of
  `sync`, `"wait"` between its `write_all` and its `read_exact`.  `inbox[r]` is
  the number of unread zero bytes.  `SyncRead(r, next)` completes the call;
  `next` is the code behind it, which each benchmark gives in `AfterBarrier`.
  `outcome[r]` is the `Result` of `bench::run`; `dropped[r]` says that the `Conn`
  went out of scope.  A failed side has lost its queue pair at once
  (`QpGone`), its `Conn` a step later.  `SyncBroken` is end of stream, or the
  reset TCP sends when a side closes with unread bytes.
* **`Bandwidth`**: `posted`, `completed` are the variables of the two loops,
  `burst` the turns left of `for _ in 0..n`; each post is a step, so completions
  may arrive between two posts of a burst.  `Poll`, `Refill`, `LoopDone` and
  `IdleTimeout` are the parts of the loop body.  `HasRoom` is the adapter's view
  of a work queue: an entry is free again when its completion has been polled.
* **`Latency`**: `held` counts the work requests per queue, `pending` is the
  bit mask of `wait_for`, as a set; `cq[r]` is a sequence because a poll takes at
  most two completions, oldest first.  `WaitFor` is one turn of the loop of
  `wait_for`, in its order: poll, strike off, look at the clock, test `pending`.
  `PollError` is a turn that polls a failed completion: `ping` returns the error,
  while `pong` prints it and leaves its loop as at a timeout (`LeaveLoop`), so a
  server whose queue pair is dead waits in the last barrier, without a timeout,
  and returns `Ok`.
* **`Accuracy`**: `slots[r]` are the memory regions; the adapter reads a slot
  when it transmits (RC: when the message finally arrives, since it may have been
  sent again) and writes one when it delivers.  `CheckOne` is a turn of the loop
  over a batch: `check`, then the slot is posted again.  A message is a header and
  a body of a byte each.
* **`Session`**: `todo[p]` is the rest of the code of a process as a sequence of
  sends, receives and actions, chosen by `ServerSteps` and `ClientSteps` from the
  request; `mail` are the bytes and lines in flight, by kind.  `printed` is the
  server's terminal: the rows, each with the mode and the connection it is of and
  whether a header was printed with it.  `EndServe` and
  `EndRun` are the returns of `handle_connection` and `run_once`, `Exit` the
  return of `server::run`.  `ServiceSpec` maps the backlog of the listening socket
  to `Service`'s queue, the connection of `handle_connection` to `current`, a
  built queue pair to `equipped` and the result of `run_once` to the verdict.
* **`Suite`**: `modes` and `left` are what is left of the lists the two loops of
  `run_suite` go through, `rep` the turns of `for _ in 0..args.runs`; `size` is
  the candidate of `power_of_two_sizes`.  `lines` is the terminal: for each line
  its kind and the size (a table's heading: the mode) in it.  `shown` is the row
  printed last beside the measurement it was made of, so that a property can
  compare the two.  A command line names the kind of build, since only one with
  overflow checks notices a `next_power_of_two` that does not fit the word.
* **`Report`**: a number the code computes in floating point is a fraction, and
  the square stands for a standard deviation.  `Rank` is the rank expression of
  `from_samples` in whole numbers; evaluated in `f64`, the code's expression gives
  the same rank for the three percentiles at every size up to two million samples.
  `Sorted` names the sample in each place by counting those below it, and `SumOver`
  adds equal samples at a time; that the one sorts and the other sums is proved.

## 3. What TLC checks

Every run checks for deadlock; a finished system stutters in `Over` or `Ended`.

| Run | Instance | Shows |
|---|---|---|
| `bandwidth_faults` | RC and UC, 4 messages, depths 3 and 2; messages lost, processes killed or held up anywhere, adapters fail; 151 009 states | queues never overflow (`QueuesNeverOverflow`), the first window always meets posted receives (`FirstWindowIsReceivable`), a bandwidth reported over RC is about messages that all arrived (`RcDeliversAll`) and the server cannot fail the run afterwards (`ClientResultStands`), barriers implement `Rendezvous`, both sides end, only a disturbance fails a run (`UndisturbedSucceeds`); the inductive invariant `IInv` |
| `latency_faults` | RC and UC, 3 round trips, depths 2 and 1; messages lost or late, processes prompt or held up, killed; adapters fail; 243 365 states | samples do not overlap (`RoundTripsDoNotOverlap`), a complete run is complete on both sides (`CompleteRunAgrees`), the last echo is out before its buffer is freed (`EchoBufferOutlivesSend`), barriers implement `Rendezvous`, both sides end, only a kill, a full queue or a failed work request of the client fails a run, and none of the server's does (`UndisturbedSucceeds`); the inductive invariant `IInv` |
| `accuracy_faults` | RC and UC, 3 messages, depths 2 and 2; loss, reordering, and one of: damage, duplicate, kill, adapter failure; 112 977 states | no slot is in two places (`ReceiveSlotsHaveOnePlace`), the report balances (`ReportBalances`), blames the fabric only for what it did (`NothingInvented`), is perfect over RC unless the server was held up (`RcReportIsPerfect`), is final (`ReportIsFinal`); barriers, both sides end, only a disturbance fails a run; the inductive invariant `IInv` |
| `session_clean` | a client with four runs and a D3OS client with three, server with and without `--listen`; 9 551 states | rows are below their header, UD is never built, and a listening server serves or rejects every run as it should |
| `session_faults` | two clients with three runs; verbs and accepts fail, processes are killed anywhere; 246 047 states | bytes are read as what they were written as (`StreamsStayFramed`), traffic finds the peer ready (`TrafficFindsPeerReady`), the server implements `Service` (`ServiceSpec`), always returns to accept, every client ends its suite; the inductive invariant `IInv` |
| `suite` | words of 5 bits, every pair of bounds of a sweep in both kinds of build; suites that fail, yield no numbers, repeat, skip; 13 728 states | the sweep visits the powers of two asked for (`SizesAreExact`), each run leaves its line (`TablesTellEveryRun`), each cell says what its heading promises (`CellsUnderTheirHeading`), the client implements `Matrix` and ends (`MatrixSpec`); the inductive invariant `IInv` |
| `latency_v_rounds`, `latency_v_depth`, `latency_v_loss`, `latency_v_missing`, `session_v_accept`, `suite_v_sizes` | small | disagreements between the code and its documentation, section 6 |

Bounds and why they are enough.  Messages are interchangeable in `Bandwidth` and
`Latency`; what matters is that the windows are smaller than the stream and
different from each other, so that refills, a full window and a last partial
refill all happen, and that three round trips follow one another, so that one has
a round trip before and one behind it.  In `Accuracy` three messages with two
slots on either side use slots again on both.  `MaxMishaps` (`Accuracy`) allows
one fault of the fabric, of a process or of an adapter per run; loss and
reordering are unbounded.  In `Session` two clients are enough for a connection to
wait while another is served; the suites have every barrier pattern, a rejection
on either side, a run that fails after the handshake, and a mode that may yield
no row.  In `Suite`, `WordBits` is 5: the smallest word with a size below the
accuracy header, a power of two that cannot be doubled, and sizes between; all
pairs of bounds are tried.  Lists of samples have 0, 1, 2, 100, 101, 1000 and 1001
entries: the sizes around which the rank of a percentile moves, with values that
tell neighbouring ranks apart.  `MaxSizes` bounds the list of a sweep that never
ends (`suite_v_sizes`); such sweeps are left out of `suite` by `WrappingSweeps`
because they have that run of their own, and no other command line reaches the
bound.  The safety properties the runs show on these instances are proved for all
values in section 5.

Fairness.  Each process, and the adapters together, get weak fairness: the
operating system runs processes that are ready, both programs poll actively, and
adapters and fabric make progress.  Kills, adapter failures and failing verbs get
none; loss can happen whenever it may but the adapters owe no delivery of a
lost message.  A timeout is a step of the process: a process that finds
nothing takes it in the end.  `Suite` is one process, and its run step ends
because `Session`'s clients do.

Time is abstracted.  A timeout may fire whenever its condition holds and the
queue is empty, since a process can be held up for any time between two looks at
the clock.  `Latency` has `prompt`, fixed at the start of a behaviour, for the
statements that are about undelayed processes: when it holds a timeout fires only
when nothing is on its way, as the comment of `IDLE_TIMEOUT` intends.  The pauses
(`WARMUP_SETTLE`, `SETTLE`) have no effect on the order of anything and are left
out.

## 4. Assumptions about what is outside

* A work request occupies its queue until its completion has been polled; a full
  queue rejects a post.
* RC delivers in order and acknowledges; it retries a bounded number of times and
  then fails the send.  UC completes a send when it has been transmitted and drops
  what finds no receive.  Sends of a queue pair complete in posting order.  There
  is no order between the completions of a send queue and a receive queue.
* TCP delivers in order; closing with unread bytes resets the connection and may
  destroy bytes in flight; a write after the peer has closed may or may not fail.
  When a process dies its kernel closes its sockets.  A host that vanishes without
  that is not modelled; the code has no timeout on the connection, so a peer of
  such a host waits for ever.
* What a benchmark hands back carries the mode it was called for and the message
  size it was called with, and has the fields of that mode's report with whole
  numbers in them (`MeasurementAssumption` in `Suite`).  The benchmarks are in
  `src/`, and each puts its own `msg_size` into what it returns; `Suite` takes a run
  as one step and so cannot derive it.  Samples and times, which the code keeps in
  floating point, are multiples of a clock's tick.
* A D3OS client follows the same protocol (`comm.rs:1`); it is modelled as a
  client that can drive the one-sided modes.

## 5. What is proved

### `Bandwidth_proof`

For every number of messages, all depths, RC and UC, and every set of faults:

| Theorem | States |
|---|---|
| `TypeInvariant` | `Spec => []TypeOK` |
| `Invariant` | `Spec => []IInv` |
| `QueuesAreLargeEnough` | `Spec => []QueuesNeverOverflow` |
| `FirstWindowFindsReceives` | `Spec => []FirstWindowIsReceivable` |
| `RcResultIsComplete` | `Spec => []RcDeliversAll` |
| `ResultStands` | `Spec => []ClientResultStands` |
| `BarriersAreRendezvous` | `Spec => RendezvousSpec`, the refinement of `Rendezvous` |

Assumed is `StreamAssumption` (iterations and depths at least one, which
`ClientArgs::plan` enforces, `cli.rs:129`).

The argument.  None of the properties is inductive.  `IInv` is an account of
where everything is: `Shape` ties the place in the code to the barriers passed;
`Endings` says how a run can have ended; `BarrierBytes` that each barrier byte is
unread or counted; `WindowHeld` that work requests in the queue and those a
refill loop still owes fit the window - this is what makes `QueuesNeverOverflow`
inductive, since a poll frees exactly what the loop posts again; `FirstWindow`
that the server has posted before the third barrier and the client sends after
it; `Credits` that each receive is empty, unpolled or polled and that completions
never exceed posts; `Messages` that over RC no message is missing while the
client's queue pair works; `ClientDone` that the client leaves its loop with all
completions and that a failed send is one that never completes.  There is a lemma
for each action (`SyncStep`, `PollStep`, `RefillStep`, `AdaptersStep`, ...) and in
it a step for each conjunct the action can disturb; `SyncResult` is the one case
that needs the peers' places together, the client reading the last byte.  The
refinement maps a barrier reached to `Arrive` and one passed to `Leave`; all
other steps stutter.

### `Latency_proof`

For every number of round trips, all depths, RC and UC, prompt processes or not,
and every set of faults (`PingPongAssumption`: at least one round trip,
`latency.rs:40`, and depths of at least one):

| Theorem | States |
|---|---|
| `Invariant` | `Spec => []IInv` |
| `TypeInvariant` | `Spec => []TypeOK`, which bounds the completion queues |
| `NoOverlap` | `Spec => []RoundTripsDoNotOverlap` |
| `EchoBufferKept` | `Spec => []EchoBufferOutlivesSend` |
| `CompleteRunsAgree` | `Spec => []CompleteRunAgrees` |
| `BarriersAreRendezvous` | `Spec => RendezvousSpec` |

The argument.  The model lets messages and echoes come arbitrarily late, so that
a sample times its own round trip is not a matter of any one step.  The invariant
(`LatencyInv`) follows the one round trip a ping-pong has under way:
`OneRoundTrip` says that the places it can be in - a message of the client on its
way or arrived and not polled (`Way("Client")`), in the server's hands (`AtServer`),
an echo on its way or not polled (`Way("Server")`), polled by the client (`AtClient`)
- hold one together, and none when the client is not waiting and has not given
up.  A post puts it on its way, a poll takes it out of a completion queue, the
adapters move or lose it, and nothing makes a second one, because a side that
leaves its loop posts no more (`Shape`).  A server that leaves it on a failed
completion, with the round trip still on its way, moves nothing
(`ServerBreaksOff`).  `Counts` ties the counters of the loops to
it: every round trip the client has begun is timed but the one it is in, and
what came back was echoed; `CompleteRunAgrees` follows with the final barrier.
`QueuesHeld` accounts for the places in the work queues, post to poll, and bounds
the completions by them; over UC it needs that nothing is ever unacknowledged.
`EchoBufferOutlivesSend` needs `BarrierBytes`: a server past its last barrier has
read a byte that a client writes behind its loop.  `CountOf` counts completions
in a queue, and the first lemmas say what appending to a queue and cutting it
in two do to such a count.  `TrafficMoves` is the one argument for all steps of
the adapters: no queue holds more than before and no message turns up.

### `Accuracy_proof`

For every number of messages, all depths, both transports, every set of faults
and any number of mishaps (`AccuracyAssumption`):

| Theorem | States |
|---|---|
| `TypeInvariant` | `Spec => []TypeOK`, which bounds every queue |
| `Invariant` | `Spec => []IInv` |
| `SlotsHaveOnePlace` | `Spec => []ReceiveSlotsHaveOnePlace` |
| `ReportsBalance` | `Spec => []ReportBalances` |
| `NothingIsInvented` | `Spec => []NothingInvented` |
| `RcReportsArePerfect` | `Spec => []RcReportIsPerfect` |
| `ReportsAreFinal` | `Spec => []ReportIsFinal` |
| `BarriersAreRendezvous` | `Spec => RendezvousSpec` |

The argument.  The properties speak of the report; the invariant (`AccuracyInv`)
has to say which message lies in which slot while it is on its way there.
`ReceiveSlots` keeps each slot of the server in one place: the receive queue, the
completions not polled, or the batch being checked, and counts them.  `WindowHeld`
bounds what the client has outstanding by its window and `Sends` accounts for it
- posted but not transmitted, on the wire, transmitted, unacknowledged, completed -
so that a slot `n % Window` is filled again only when message `n` has
completed.  From that `SendSlots` follows: a slot holds its message until then,
and the queues go through the slots in the order of the messages.  `Faithful` is
the consequence for the server: as long as the fabric damages and duplicates
nothing, what waits to be checked are messages that were sent, whole, each once
and none of them seen before.  `Sums` makes the counters sums over what was
received, `Blameless` makes the counters of damage zero while the fabric did none,
and `Reported` ties the report to the counters at the end.  The hard steps are the
posting of a send into a slot used before (two numbers less than a window apart
and congruent are equal) and a delivery (a slot is taken from the receive queue,
written, and joins the completions).  `QueueLemmas` has the facts about sequences
these rest on: what appending, taking the head, cutting a batch off or removing an
entry does to range, injectivity and length.

### `Session_proof` and `Framing_proof`

For every set of clients and suites, with and without `--listen`, and every set
of faults (`SuiteAssumption`):

| Theorem | States |
|---|---|
| `Session_proof.BaseInvariant` | `Spec => []Base` |
| `Session_proof.TypeInvariant` | `Spec => []TypeOK` |
| `Session_proof.TableIsReadable` | `Spec => []RowsUnderTheirHeader` |
| `Session_proof.UdStaysUnbuilt` | `Spec => []UdIsNeverBuilt` |
| `Session_proof.OnlyAcceptStopsListener` | without `"accept"` in `Faults`, `Spec => []ListeningServerStays`: the finding of `session_v_accept` is the only way out |
| `Session_proof.PromisedInvariant` | `Spec => [](Base /\ Promised)` |
| `Session_proof.SessionsKeepThePromise` | `Spec => ServiceSpec`, the refinement of `Service` |
| `Framing_proof.Invariant` | `Spec => []IInv` |
| `Framing_proof.StreamsAreFramed` | `Spec => []StreamsStayFramed` |
| `Framing_proof.TrafficIsAwaited` | `Spec => []TrafficFindsPeerReady` |

The argument has three layers, and `IInv` is their conjunction.  `Base` is about
what there is: what may be left to do and for which connection (`WorkTypes`: a
process with a queue pair to build has a request that `supported` accepted), which
connections the server can know of (`HeardOnce`), what a message says
(`MailHeld`), and that the mode remembered is that of the last header
(`TableHeld`).  `Promised` is about what lies behind what: the steps of each side
come in the order of the code (`Ordered`), so a client that has taken the
acknowledgement, and a server that waits for a row, have an equipped server
behind them (`SetUpFirst`), and a row on its way is one of a client with nothing
left that could fail (`RowsAreFinal`); a run has no result before its end
(`PendingTillEnd`), and a connection that comes is new to the server (`HeardOnce`,
`ClosedAreBegun`).  With these each step is one of the service or none: `Connect`
is `Arrive`, `Accept` is `Serve`, the server's `Build` is `Equip`, whatever
ends `handle_connection` is `Leave`, the end of a run for its client is `Judge`,
and the rest stutters.  The code of the two sides enters by lemmas about
`ClientSteps` and `ServerSteps` (`ClientOrder`, `ServerOrder`); then one lemma per
kind of step (`AdvancePromise`, `StopPromise`, `StartRunPromise`, `ServePromise`)
covers many actions each, since most do one step of `todo` or drop all of it.

`Framed` is what keeps two processes in step that write to each other without
waiting.  It does not say for each place of one side's code where in its own the
other can be; there are too many such pairs, and a failure multiplies them.  It
counts instead: `InStep` looks at what each side has left to do and at what is
unread between them, and says that the `n`-th message a side will still read is
the `n`-th that is on its way or, behind those, still to be written (`Agree`), up
to a point where the writer gives up.  That is kept by every step for the same
three reasons: a send moves the first item of one side's rest to the end of what is
on its way, a receive takes the head of that off together with the first item of
the other side's rest, and whoever stops leaves an empty rest, which agrees with
anything.  `Gated` counts in the same way that the client cannot come to its
traffic without a message the server writes after it has posted its receives;
`QpInOrder` and `Signed` say that by then the server's queue pair is connected to
this client.  What remains is that the whole code of the two sides agrees when a
run begins, for each mode, accepted or rejected.  The code of a mode is put
together from pieces (handshake, barriers, result), and lemmas about agreement of
concatenations do the same for the proofs.

### `Suite_proof`

For every width of the machine word, all command lines, both kinds of build and
whatever the benchmarks measure (`SuiteAssumption`, `MeasurementAssumption`):

| Theorem | States |
|---|---|
| `PercentilesAreNearestRank` | the rank of each of the three percentiles is the nearest rank for every number of samples, and the clamp never changes it |
| `Invariant` | `Spec => []IInv` |
| `TypeInvariant` | `Spec => []TypeOK` |
| `SweepsAreExact` | `Spec => [](~Wrapped => SizesAreExact)` |
| `RowsSayWhatTheirHeadingsName` | `Spec => []CellsUnderTheirHeading` |
| `SamplesAreSorted` | `Sorted` puts any list of samples in ascending order, and keeps each as often as it occurs |
| `TablesTellTheRuns` | `Spec => [](~Wrapped => TablesTellEveryRun)` |
| `StepsFollowTheMatrix` | `Spec /\ ~Wrapped => Abstract!Init /\ [][Abstract!Next]_(Abstract!vars)`: the refinement of `Matrix` but for its liveness |

`Wrapped` is the finding of `suite_v_sizes`: a release build whose lower bound has
no power of two above it in the word.  It depends on the command line only, and
the theorems show that it is the only way a sweep goes wrong.

The argument.  `Sweep` says that the sizes pushed are consecutive powers of two,
from the first at or above the lower bound on, and that the candidate is the next
one; at the top of the word `checked_mul` stops the loop where the list is complete.
`Loops` keeps what the two loops start from.  From these each step is one of
`Matrix` or none: `Due`, the list of runs that are still to be made, is computed
from the place in the loops, and a run takes its head off, the heading of a table
and its end leave it as it is (sizes a mode has no room in have no runs).
`Account` is what makes the tables readable: the runs the lines tell of, each
below the heading of its mode, followed by those that are due, are the runs asked
for, and the failed ones among the lines are `failures`.  A line printed is the
head of `Due`, a note, a heading or the summary, which tell of nothing;
so at the end of the loops, with nothing due, the lines tell of everything.

`Displayed` is what the cells need: the row shown is the row of a measurement of
the mode in front, of a size of the plan that can be run, and the heading above it
is one of that mode's two; between tables and before the first there is none.
`RowFits` does the rest, mode by mode and heading by heading (the `Says` lemmas say
which number each of the headings names).  For a ping-pong it has to know what
`Report` computes for any list of samples:

* *sorting*: some sample has fewer than `k` below it and at least `k` not above it
  (`PlaceTaken`: among those with enough not above, one with the fewest), so `Sorted`
  has it in place `k` (`SortedIs`); the first place is then the minimum, the last the
  maximum, and the place `Rank` gives a percentile is the nearest rank;
* *sums*: `SumOverIsSum` shows that a sum over the set of samples, each value times
  how often it occurs, is the sum over the list from the first to the last;
* *variance*: with the sums taken along the list, `DeviationsAre` shows that the
  squared deviations from the mean come to `n` times the sum of the squares less
  the square of the sum, by adding one sample after the other (`SpreadMore`).

The definitions here are recursive functions and folds (`PowerOfTwo`, the sizes
kept for a mode, `FlattenSeq`, the sums).  The library's induction theorems cannot
be used with the installed provers, since they take a predicate as a parameter.
What is needed of these functions is proved by the least exception instead: a set
of numbers that contains a counterexample has a least element (`Least`), which is
not 0 and whose predecessor is none.  In this way `Iterates` shows that a function
defined by recursion exists and satisfies its equation, `FlattenConcat` that
flattening distributes over concatenation, `KeptIs` which sizes are kept,
`SumsAgree` that a list of numbers has one sum.  From there on the proofs are
about lists: what a list of runs begins with, and what one more line adds to what
is told.

### Only model-checked

* Liveness (`EveryRunEnds`, `UndisturbedSucceeds`, `ServerReturns`,
  `EveryRunIsServed`, `EveryClientFinishes`): out of the prover's reach.
* Of `MatrixSpec` the part that a client process ends: `StepsFollowTheMatrix` proves
  the rest of it, the run `suite` checks both.

## 6. Disagreements between the code and its documentation

* `latency_v_rounds`: `latency.rs:12` describes lost round trips as counted and
  followed by more; the code leaves the loop at the first timeout.  (That is also
  why `RoundTripsDoNotOverlap` holds: the mistimed sample the comment warns of
  cannot happen.)
* `latency_v_depth`: `latency.rs:8` says that the depths do not apply; with
  `--tx-depth 1` the server's echo can be rejected by a full send queue, because
  the completion of the echo before has not been polled.
* `latency_v_loss`: `bench/mod.rs:18` says that `IDLE_TIMEOUT` only fires on actual
  loss; the server posts its next receive after the echo, so on UC the client's
  next message may find no receive and be dropped by the adapter of a fabric
  that lost nothing.
* `latency_v_missing`: `wait_for` is documented to time out with something
  missing; it looks at the clock before it looks at what the last poll brought.
* `session_v_accept`: a server with `--listen` is said to run until killed
  (`docs/plan.md:48`); a failing `accept` ends it (`server.rs:18`), unlike a
  failing connection.
* `suite_v_sizes`: `power_of_two_sizes` promises the powers of two between the
  bounds (`cli.rs:166`) and an error if there are none (`cli.rs:195`); with both
  bounds above the largest power of two of the word, `next_power_of_two`
  (`cli.rs:183`) panics in a build with overflow checks, and in one without gives
  0, from which doubling never leaves the loop.

Seen while modelling, not made a run because nothing checks more than the
sentence says: `cli.rs:98` promises CSV output "one result row each", but a run
without numbers prints no row (`report.rs`, `Suite.LinesOf`); `client.rs:2`
speaks of a default sweep, but without `--all` only `--size` is run; an
accuracy-only sweep whose sizes are all below the header of eight bytes prints an
empty table and says that all runs succeeded; and a suite exits with 0 even if
every run failed (`Suite.Summary`).

## 7. Not modelled, and why

* The lookup of the device in the driver's list, allocating the protection domain,
  the JSON encoding, padding and decimals of tables: no behaviour the properties
  could be about.  That opening the device may fail is in `Suite`, that the memory
  of a benchmark cannot be allocated in `Session` (`Allocating`); the benchmark
  modules begin behind it.
* The values of measurements (times, rates): `Report` computes with what a
  benchmark hands back, no module says how long anything takes.
* A host that vanishes without closing its connections: neither `recv_msg` nor
  `sync` has a timeout (`comm.rs:135`), so its peer waits for ever; there is
  nothing in the code to check against it.
* Requests with zero or enormous depths (narrowed to 32 bits at `server.rs:45`),
  which this client never sends and no adapter has.
* Build, container and packaging files.

## 8. Plan

Done: the models of all parts listed as modelled in section 1, the abstract
specifications `Rendezvous`, `Service` and `Matrix` with the proofs that they are
implemented, and the proofs of all safety invariants and action properties that
the passing runs check.  What these runs check beyond that is liveness.

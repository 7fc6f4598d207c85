# A TLA+ model of iperf3-rs

iperf3-rs wraps libiperf in a Rust library and a command line tool that export
interval metrics while a test runs. This directory models the parts of it where
several threads, callbacks, timers or processes meet, checks them with TLC on small
instances, and proves the most important invariants with TLAPS for every
instance. File names below are relative to the repository.

## The system

| part | state it keeps | operations | talks to |
|---|---|---|---|
| metrics channel (`src/metrics.rs`: `metrics_channel`, `enqueue_latest`) | a crossbeam channel, bounded(1) with a receiver kept by the producer (Latest) or unbounded (All) | enqueue, receive, drop of either end | callback → worker, sink worker → delivery worker |
| callback registry (`CallbackMetricsReporter`, `metrics_callback`) | a process-wide map from a test's address to its channel | attach, callback, drop | libiperf calls it with the test's address |
| `MetricsStream` worker (`forward_*_events`) | open window and its deadline | forward, extend, flush on deadline, context change or end | reads the callback channel, writes an unbounded event channel that the application reads or drops |
| sinks worker and delivery worker (`run_metrics_sinks`, `deliver_push_metrics`) | window, deadline, file, result; delivery channel | write to the file, offer to delivery, push, delete at the end | file sink, Pushgateway client |
| command builder (`IperfCommand`) | words, modes, output and server permission of the runs to come | one helper per option, `run*`, `spawn*` on a clone | `setup_run`, libiperf's parser |
| run lifecycle (`src/command.rs`) | run lock, `RunSetup`, ready channel, `RunningIperf` | `run`, `spawn`, `wait*`, drop | all of the above, SIGPIPE's disposition, the heap |
| `IperfTest` (`src/iperf.rs`) | libiperf's test, argument storage, retained JSON | new, parse, run client, server loop, drop | libiperf, through the shim |
| shim (`native/iperf3rs_shim.c`) | reorder counters and sums of an interval | stats and reporter callbacks, `run_server_once` | libiperf, `metrics_callback` |
| CLI runtime (`native/iperf3rs_cli.c`, `src/cli.rs`) | signal dispositions, self-pipe, handler count, pidfile | prepare, handler, select, cleanup | the kernel, other processes with the same pidfile |
| Pushgateway client (`src/pushgateway.rs`) | grouping URL, retries | push, delete with retries | HTTP |
| metrics file sink (`src/metrics_file.rs`) | path, mutex shared by clones | create, JSONL append, atomic replacement | the file system |
| interval aggregation (`iperf3rs_stats_callback`, `iperf3rs_emit_interval_metrics` of the shim) | the reorder events of an interval | delta of the streams' counters, one sample of all streams | libiperf's results, `metrics_callback` |
| window aggregation (`aggregate_window` of `src/metrics.rs`) | none | one summary of a window's samples | both metrics workers |
| Prometheus encoder (`src/prometheus.rs`) | prefix and labels | validate, render a sample or a summary | both sinks |
| arguments (`src/args.rs`) | two passes over the words | split wrapper options from iperf's, environment defaults, checks between options | environment, libiperf's option table |
| source adapter (`native/source_adapter.rs`) | build time | patches libiperf: JSON ownership, error state, interruptible `select` | libiperf |
| help, version, errors, build script | none, or build time only | | |

What is hard, and what makes each part correct:

* **Channel.** `enqueue_latest` is three channel operations, and the reader may take
  the queued item between any two. The newest item must never be lost, nor an item
  be received that a finished enqueue had superseded; an All channel loses nothing.
* **Stream worker.** Deadline, sample, context change, end of run and a dropped
  stream race. Every sample must reach the application once, in order, in windows
  of one context that are not cut short, without the run ever waiting for the
  application.
* **Sinks.** HTTP may be arbitrarily slow and the file may fail at any sample. The
  file must be complete or the failure reported, the newest interval must survive
  two lossy channels, and `finish` must leave no thread, request or group behind.
* **Lifecycle.** Runs share the lock, SIGPIPE, the heap and the registry keyed by
  addresses that are reused; every error path and a panic must restore them.
* **CLI runtime.** A signal is handled on any thread and at any instruction. It must
  end the run even if it comes just before `select`, never make a handler write to a
  descriptor that was closed, and never skip the removal of the pidfile.
* **Pidfile.** Processes that share a path start, take over a dead one's file, fail,
  crash and end, with no lock between them. The file must name the running process.
* **Gateway.** A request its client gave up on may be applied later, even after the
  deletion. Every request must reach the group of exactly the job and labels that were
  asked for, whatever characters they hold; apart from late application the group holds
  what was last acknowledged; retries must end and never run into `unreachable!()`.
* **Metrics file.** Threads share a file through clones, through other sinks and from
  other processes; any system call may fail and a process may die between two. The
  snapshot must be whole and never replaced by one that was finished earlier, a JSONL
  line is one record, and a temporary file belongs to one write.
* **Server loop.** One native test serves many sessions that succeed, fail, idle out or
  are interrupted. The JSON handed out must be that of the last, each node must be
  freed once, and nothing may refer to an argument buffer that is gone.
* **Counters.** Cumulative counters are reset or unreadable, intervals are short and
  dropped, values are absent, UDP loss may be negative. Bytes and events must be counted
  once on their way through samples and windows, and an absent value must not become zero.
* **Arguments.** The words are read twice, the second time with the boundaries the first
  one found. The passes must agree, or a word reaches both programs or neither.
* **Command builder.** Helpers come in any order and a command runs again. Each run must do
  what the calls so far, and its own request, ask for, or fail for a cause in them.

`PROJECT.json` lists every hazard at its line.

## Modules

| module | models | state and actions |
|---|---|---|
| `SampleFeed` | what a channel promises, without how | published, pending and seen samples |
| `MetricsQueue` | one metrics channel | `step` is the position inside `enqueue_latest` (`TrySend`, `DiscardStale`, `Resend`); `Recv`/`RecvEnd` are the reader's loop; `CloseTx`/`DropRx` the drop of an end |
| `MetricsStream` | the library's stream | `MetricsQueue` as callback channel; one action per branch of `forward_window_events`, split where it reads the clock before it waits (`CheckClock` → `wait`), and the application's `UserReceives`, `UserSeesEnd`, `UserDropsStream` |
| `MetricsSinks` | `IntervalMetricsReporter` | two instances of `MetricsQueue` (`Raw`, `Dlv`) and the three threads: callback and `finish`, sink worker, delivery worker |
| `RunLifecycle` | `run_command`, `spawn`, `RunningIperf` | `pc[r]` is the position of a run's thread; one action per call that changes shared state, the unwinding after a panic included |
| `CliRuntime` | signals in the command line tool | `pc` is the main thread through `iperf3rs_cli_prepare`, `iperf3rs_cli_select` and `iperf3rs_cli_cleanup`; `hpc[d]` a delivered signal through `iperf3rs_cli_signal`, one action per atomic access |
| `Pidfile` | the pidfile between processes | `phase[p]` is the position in `iperf3rs_pidfile_checked` and the end of cleanup; one action per system call on the shared file |
| `GroupingKey` | `PushGateway::new`'s validation and `grouping_url` | operators: the path's segments, their percent or base64 encoding, how the gateway reads the path back |
| `PushDelivery` | `push_body` and `delete` under the delivery worker, several runs on one gateway | `pc[s]` is the position in the retry loop; the gateway applies a request at once (`Succeeds`), later or never (`ApplyLate`) |
| `MetricsFile` | `append_jsonl`, `atomic_write` and the constructor of `MetricsFileSink` | `pc[w]` is the position of a thread; one action per system call, each of which may fail, and `Crash` |
| `NativeTest` | `IperfTest` with the shim and the adapted parts of libiperf under it | one action per branch of `parse_arguments`, `run_server`, `run_client` and `Drop`; a session is external |
| `IntervalMetrics` | both callbacks of the shim | operators: `ReorderDelta`, `Reorders`, `IntervalOk`, `Sample` |
| `WindowAggregate` | `aggregate_window`, and which families the encoder writes | operators on samples |
| `PrometheusText` | validation of prefix and labels, label escaping, and a reader of the text format | operators on characters |
| `Aggregation` | these three composed over a run | libiperf's stats timer (`CollectStats`) and reporter timer (`Report`) alternate; `Encode` closes a window |
| `Arguments` | `extract_app_options` | `stage` is the phase, `index` the word; one action per kind of word in each of the two passes, then the defaults and the checks |
| `IperfCommand` | the builder of library runs and what `setup_run` makes of it | `command` is the struct, one action per helper; `RunOrSpawn`, `RunWithPushgateway` and `SpawnWithMetrics` start a run from a clone; `calls` is their history |
| `MC*` | small instances of these for TLC (`MetricsQueue` and `NativeTest` need none) | |
| `MetricsQueueProofs`, `MetricsStreamProofs`, `MetricsSinksProofs`, `MetricsFileProofs` | theorems about the module they are named after | |
| `CliProofs` | theorems about `CliRuntime`, `Pidfile` and `Arguments` | |
| `RunProofs` | theorems about `RunLifecycle`, `NativeTest` and `IperfCommand` | |
| `ExportProofs` | theorems about `GroupingKey`, `PushDelivery` and `Aggregation` with the operators of the three modules it composes | |
| `SequenceLemmas` | facts about sequences, flattening and folds that several proofs need | |

A sample is its number and a context (role, direction, streams, protocol), since
only its order, identity and context decide what the code does with it. An event is
the sequence of samples it was made from, so that "every sample exactly once" can be
stated about windows; the arithmetic of `aggregate_window` is in `WindowAggregate`.
Time is the state of the one deadline a worker has: `None`, `armed`, or `due` when its instant has passed. A send or receive on a crossbeam channel and a
file write are atomic steps; between two of them any other thread runs.

In `RunLifecycle` a metrics worker is one thread that ends after its sender has left
the registry: that is what `JoinReturns` of `MetricsStream` and `FinishReturns` of
`MetricsSinks` establish (the latter if every HTTP request returns, which `DeliveryEnds`
of `PushDelivery` shows of the client with its timeout). `NativeTest` details what happens
there between `NewTest` and `DropSetup`, for tests that follow each other under the lock.

The modules about data keep only what the code tells apart. A label is a short sequence
of characters, each of which stands for one that some encoder or reader treats in its own way.
A number is an integer or an exact fraction. The metrics that one piece of code treats alike
are one: `rtt` stands also for rttvar, `cwnd` for the send window (`pmtu`, which has no unit to
convert, is one of its own). A word of the
command line is its kind for getopt, the wrapper option it names and whether its value is
well formed. What really happened (`moved`, `events`, `late`, `torn`, `left`, `older`,
`contested`, `damage`) is kept in history variables that no guard reads.

Definitions named `Mut...` are plausible bugs of the definition that follows them.
No specification uses them; each shows that a property fails when the code is wrong
in that way. `PROJECT.json` pairs them.

## Runs

| run | instance | states | shows |
|---|---|---|---|
| `metrics_queue` | 5 items | 308 | the newest item is never lost, no superseded item is received, the channel implements `SampleFeed` with its liveness |
| `metrics_stream` | 4 samples, 2 contexts | 15 212 | no sample is lost or repeated, windows are uniform and not cut short, samples become available without further input, the join returns |
| `metrics_sinks` | 4 samples, 2 contexts, every combination of file, push mode and delete | 76 342 | the file is complete or the run fails, the newest interval or every window is offered, nothing is left behind, HTTP never blocks the file |
| `run_lifecycle` | 2 runs of any kind, 2 addresses | 49 677 | one native test at a time, SIGPIPE restored, callbacks routed, `spawn` honest, metrics complete before the result, every call returns |
| `cli_runtime` | one process with 3 signals, each ignored or not at the start, and 2 deliveries; or 3 processes with a pidfile, 2 inodes, any initial file | 244 715 | a signal ends the run through cleanup and is never lost, no handler writes to a closed pipe, cleanup undoes a partial prepare and returns; unless two processes took over one stale file, a running process is listed; a process that ends leaves no pid of its own; files of uncertain owners stay |
| `pidfile_shared` | the processes of `cli_runtime` | violated | a process can remove another's live pidfile (see below) |
| `push_delivery` | 2 runs, 2 samples, 1 retry, 14 configurations of one of them | 186 899 | requests reach their own group only; a group holds what was last acknowledged unless a request was applied late; every worker ends, by no panic |
| `metrics_file` | 2 writers, 2 writes each, 2 faults | 600 235 | the snapshot is whole and not older than one that was complete before a later write; JSONL records are whole; temporary files are private and removed |
| `native_test` | 2 tests, 3 sessions, 2 parses | 37 994 | the retained JSON is the last session's, none when nobody came; each node of a tree is deleted once, nothing dangles; one-off servers, also idle ones, and interrupted runs return |
| `arguments` | every line of 3 words of 18 kinds, of 4 words of 7 kinds, in 7 environments; and every 2 calls on a command of each constructor, with 3 gateway configurations | 673 736 | upstream gets its own words and no other; options are in effect as given and fail for a cause only; a library run does what the calls before it ask or fails for a cause in them |
| `logfile` | that of `arguments` | violated | a quiet run can replace a log file by `/dev/null` (see below) |
| `aggregation` | 3 intervals, 2 streams, 5 tests and 50 encoder configurations | 770 138 | bytes and reorderings are counted once; statistics lie among what was observed, counters are there when they were; labels read back |

`pidfile_shared` states the comment of `native/iperf3rs_cli.c:207`, "Never remove a
replacement owned elsewhere." A stale file is taken over in place, so two processes that
read the same stale pid end up as owners of one inode, and the comparison of inodes in
cleanup cannot tell them apart: one writes its pid and runs, and the other, on its way
out, unlinks that file. `contested` records that this happened, so that
`RunningIsListed` and `UncertainKept` say what holds when it did not; `EndLeavesNoPid`
holds in either case.

`logfile` states the documentation of the builder, "Explicit log files are honored even though
high-level library runs are quiet by default" (`src/command.rs:174`), of every way to ask for
one. `has_logfile_arg` (`src/command.rs:446`) knows the option spelled `--logfile` and `--logfile=x`;
getopt also accepts `--logf=x`, which can be given with `arg`. Such a run counts as one without a log file, and
`suppress_output` replaces the file by `/dev/null`. `OutputAsAsked`, a part of `RunsAsAsked`, says what
holds: an option spelled in full is honored, and a run that asks for no file and may not write
to the standard output writes nowhere. Between them lie only the abbreviation, and an
operand of another option that looks like `--logfile`.

Bounds. A Latest channel distinguishes the queued item, the one being sent and the
last received: three items give every case, five leave room for repetition. Four
samples in two contexts let a window of two or more close by context, by time and by
the end, and be followed by another. Two runs are enough for one to wait, fail, panic
or leave an address behind for the other; with a second address, reuse is possible and
not forced. The numbers of items and samples (`MaxItems`) are the only
bounds of these modules; nothing else grows. Two deliveries let a second handler run
beside the first, or find the disposition restored; the handlers share nothing but the counter and
two cells, so a third adds no new relation. Three processes allow an owner, a
second that takes the file over and a third that creates a new one, and two inodes
let the number of a removed file be used again. A behaviour of `cli_runtime` is about the signals of one
process (with fairness) or about the pidfile of three; `CliRuntime` knows of the file only that it exists.

In `push_delivery` the second run always pushes to the group `job=a`; the first has one of
four plain configurations, among them jobs and labels whose unencoded path would be
that group or another one, or one of ten that `new` must reject or encode. One retry gives
a first attempt, a last one, and a late application between them; one request may be under way that nobody waits for
(`MaxUnderWay`; others are lost). In `metrics_file` the writers are clones of one sink,
two sinks of one process or two processes; two faults let a write fail and the removal of
its file as well, or two processes crash. In `native_test` a third session follows a
success and a failure, and a second test finds what the first one left; a signal may let one
more session begin. `arguments` has every pair of a word and its neighbour, a value that
looks like an option included, and for each environment rule one that is valid, one that the
command line must repair and one that must not be looked at. The same run checks the other
front end, `IperfCommand`: a behaviour is of the tool or of an application. Two calls after
the constructor, and the run's own request, give every pair of a setting and a later one that
overrides, contradicts or swallows it; digits are binary and a second has four ticks, enough for a
fraction with a zero before, behind or no zero. Of the three gateway configurations two are valid, so that a run may get
the wrong one, and one has a job, labels or a timeout that `PushGateway::new` refuses. `aggregation` lets a counter
be reset or unreadable in one interval and recover in the next; `StatsInterval` is
20 so that the durations 0, 1, 10 and 20 lie on either side of the rule for short intervals, and a second has
ten microseconds (`MicrosPerSecond`). Its two timers alternate: libiperf starts both with the same interval.

Deadlock is not checked: in every run the system may really stop (the run is over, or
the application does not read).

Fairness. Threads are scheduled (weak fairness of a worker's step, of a run's
thread, or of a handler and the main thread of the tool) and time passes. Nothing is assumed of libiperf producing samples, of the
application reading its stream, or of HTTP: `FinishReturns` names fairness of the
delivery worker as its premise, since the client has a timeout and at most ten
retries. `CallsReturn` assumes that every test libiperf runs ends, which holds for
clients and one-off servers and is the documented reason to opt in to endless ones.
`PushDelivery` assumes fairness of the worker, in which `SendFails` is the timeout of the HTTP
client, and none of the gateway. `NativeTest` assumes that the loop goes on and that a
session ends once a signal has been stored, which the adapted `select` loops do; nothing is
assumed of peers. The remaining modules state no liveness.

What the runs taught about the code, besides the findings:

* An interval that is too short to be reported is dropped with its retransmits and reorder
  events, since only bytes make a short one count (`shim.c:244`); `ReorderHonest` claims
  equality only for runs without such an interval.
* UDP loss is negative in an interval in which libiperf takes late packets back; the
  window adds no negative values, so its counter may exceed the net loss (`CountersFaithful`).
* A sample without duration has bandwidth zero but its bytes count, so the mean of a window's
  bandwidth may exceed its maximum (`GaugesWithinObserved`).
* A request that was given up on and applied late may leave an old sample, or a group after
  its deletion, at the gateway: `FreshUnlessLate` says that nothing else does.
* Quiet runs look for a log file among the words (`command.rs:446`), so the operand of another
  option, if spelled `--logfile`, lifts the suppression; `OutputAsAsked` exempts it.
* A one-off server with an idle timeout that nobody comes to returns `Ok` and, also with `-J`, without
  JSON: upstream's tool would exit there, and the adapted code returns 0 (`native/source_adapter.rs:128`).
  The JSON tree of that session stays until the reset releases it.
* A duration of more than `u64::MAX` - 1 seconds with a fraction is not rounded up for `-t` and
  `-O` (`Means`); every other number means its duration.

Three hazards have no property. A stream that nobody reads grows without bound, and a `spawn` waits for
an earlier run however long that takes: both are documented as the caller's affair. A worker that
is late groups the samples of several intervals in one window; windows are defined by its clock, and
`SplitsAreDue` says only that they are closed at its deadlines.

## Proofs

Components whose proofs share a module share its names; that is why the specifications of
`Pidfile`, `Arguments`, `NativeTest`, `IperfCommand` and `Aggregation` are called `PidfileSpec`,
`ArgumentsSpec`, `NativeSpec`, `CommandSpec` and `AggregationSpec`. Each theorem is of every value of the constants that its
assumptions admit, and those are what the code guarantees of its inputs.

`SequenceLemmas` has no theorem of its own. `FlattenSeq` and `FoldLeft` are recursive functions,
and the library's induction theorems cannot be used (see the end of this section). But induction over
the natural numbers can be had as a fact about a set (`SetInduction`: a set with zero and
every successor contains them all), which needs no operator as a parameter. With it
these recursive functions are shown to exist and to be given by what one more
element does, and the invariant of a fold over sequences of any length
(`Folding`) is a set that each step stays in.

`MetricsQueueProofs`, assuming only that the bound is a natural number:

* The invariant `NewestKept` speaks only of the moments outside `enqueue_latest`.
  `IInv` adds where the newest item is inside it (`MidEnqueue`: while the channel was
  found full the item before it is still known, and at the second `try_send` the channel
  is empty, so ignoring its result is safe) and that a reader that is gone leaves an
  empty channel (`Ends`).
* `TypeCorrect`, `NewestNeverLost` and the action property `DeliveryIsFresh` follow from it.
* `FeedRefinement`: under the mapping of `MetricsQueue`, every step is a step of
  `SampleFeed` or a stutter. An enqueue that finds the channel full takes effect when it
  has removed the stale item.

`MetricsStreamProofs`, assuming only that the bound is a natural number:

* `Conserved` says that what was sent, the open window and the callback channel are in this order the
  samples 1 to `serial`, which is `InOrder` of `MetricsQueueProofs`; the lemmas about
  it there, and those about `FlattenSeq` in `SequenceLemmas`, serve the stream and the sinks.
* `Ends` is why nothing is left over: the worker leaves its loop only at the end of its input or
  when the stream was dropped, and its final flush empties the window. `WindowInv` ties window
  and deadline, `EventsInv` is `UniformEvents` for each queue and the window.
* `StreamNothingLost`, `StreamUniformEvents` and the action property `StreamSplitsAreDue` follow, for
  any number of samples and contexts.

`MetricsSinksProofs`, assuming a natural bound and that contexts exist:

* The invariants of both channels are those of `MetricsQueueProofs`, instantiated twice; each step of
  a thread is a step of at most one of the channels.
* `Progress` says what each of the three threads knows of the next one. `FileInv` and `SentInv`
  place every sample on its way to the file and to a window, the one held while it is written
  included; they need no write to have failed, and `FileInv` keeps the prefix when one has.
* `NewestInv` follows the newest sample over the two lossy channels: the last event is of the last
  sample received, and the channels keep their newest item. `SinksFileComplete`,
  `SinksNothingLeftBehind` and `SinksDeliveryComplete` follow.

`RunLifecycle` (in `RunProofs`), assuming only that `None` is neither a run nor an address:

* `IInv` ties the position of a run's thread to the lock (`LockInv`: a thread past `Lock`
  and before `Unlock` holds it), to what SIGPIPE and the two saved dispositions
  are there (`SigpipeInv`), to the heap (`HeapInv`: only the holder owns a
  test, except while it unwinds) and to the registry (`RegistryInv`: an entry is the
  holder's, at its own address, from `Attach` until it is removed).
* `TypeCorrect`, `RunsAreSerialized`, `SigpipeIsScoped`, `CallbacksAreRouted` follow.

* `SpawnInv` adds what each end of the ready channel knows: the test is started only by a
  thread past `NotifyReady`, an error or a closed channel comes from a thread that never will, and a caller's
  view follows from the channel. `WorkerInv` says where a run that did not panic is while its
  worker may be alive. `SpawnIsHonest` and `MetricsPrecedeResult` follow.

`NativeTest` (in `RunProofs`), assuming natural bounds and that `Nothing` is not a JSON string:

* `NativeInv`: `JsonInv` follows the string of a session from its end through the copy to the reset, and
  says that it is faithful (of this session, with its error if it failed, none if nobody came, and else
  there if it succeeded with `-J`). `MemoryInv` says that the tree is gone whenever a session may
  start, that the fields of the test refer to just the nodes that are alive, and that buffers outlive what borrows them; the lemma
  `ReleaseIsComplete` is that the release, of a reset or of `Drop`, deletes every node once, whichever
  of them exist and are attached.
* `LastIsRetained` and `MemoryIsSound` follow, for any number of tests, sessions and parses.

`IperfCommand` (in `RunProofs`), assuming of the digits only that the base is not zero and that
milliseconds have no more places than the clock, of durations that they are of their type (seconds of at
most `MaxSeconds`, ticks of less than a second), that words are words, and that the refused gateway
configurations are some of the configurations. libiperf's parser is external, but
its definition (which words are options, which operands) is used as it stands:

* The arithmetic of durations: powers multiply (`PowerSum`), a quotient of a quotient is one quotient
  (`QuotientTwice`), so the first digits of a number are its quotient by a power (`DigitsAre`) and zeros behind
  them add nothing (`ZerosAdd`). `WholeSecondsMean`, `MillisecondsMean` and `DecimalSecondsMean` say that the text
  each helper writes means its duration: exactly for `-i`, otherwise rounded up by less than a unit.
* `CommandInv`: `WordsInv` says that the words of a command are those of the calls, in order, with each number
  right behind its option; `FieldsInv` that each field is what the last call of its kind asked for. A run is
  started from a clone, so neither changes with it.
* `SetupIs` and `ReporterIs` say what set-up makes of a command. `RunsObey` follows for any number of calls and
  runs: what was started is what the calls and the run's own request ask for, its gateway configuration
  included, and what was not has its cause in them, or in a system without the means for libiperf or the HTTP client.

`CliRuntime` (in `CliProofs`), assuming a natural number of signals and a finite set of deliveries:

* `CountInv` equates `cli_handlers` with the cardinality of the handlers between its two
  accesses, so that a zero means that there is none (by the library's theorems about finite sets).
* `DispInv` says that exactly the first `installed` signals are handled and when all or none are;
  `PipeInv` that a handler's copy of the descriptor is of the open pipe until the drain has
  seen zero. `TypeCorrect`, `WritesAreSafe`, `RunIsSpared` and `CleanupUndoes` follow.

`Pidfile` (in `CliProofs`), assuming that the special values are distinct from processes and inodes:

* `PidfileInv`: `LocalInv` is what a process knows at each position, `PidInv` that a pid is only in
  the file its process opened for writing, and at the path only until the process has looked
  there on its way out. They give `EndIsClean` without any condition.
* `OwnerInv` says that in an uncontested history at most one process is past its second
  open, its inode is at the path and holds what it wrote. `RunningOwnsFile` follows, and the
  action property `UncertainIsKept`, one case per action that changes a file.

`Arguments` (in `CliProofs`), assuming of a command line only that it is a sequence of words whose
wrapper options are known ones, and of an environment that it maps the keys to values:

* `ArgumentsInv` relates the two passes. `FirstPass`: the first one stands at a word that begins an
  option, or behind the last, and `spans` holds for each option before how many words go
  to upstream, zero for the wrapper's own. `SecondPass`: the
  second one stands where such an option begins (`Reached`), and what it has passed on are
  all words so far that no wrapper option takes, in order. Since the second reads the widths that
  the first one found, both agree on where every option begins. `Untouched` follows: upstream gets
  exactly its own words.
* `MeaningInv` adds what the words read so far mean (`ReadRight`): each key has the value of
  its last occurrence, each was accepted, and no option so far was faulty. An error therefore
  has its cause in the words or the environment, and `Meant` says that a line that is taken has
  every option in effect as given, or as the environment or the default says. Both hold for lines of any length.

`GroupingKey` and `PushDelivery` (in `ExportProofs`), assuming that the characters include those
that a path leaves unescaped, and that a configuration has a job, labels and retries of their types:

* `RoutedToOwnGroup`: for every job that is not empty and all valid labels, of any length and with
  any characters, the gateway reads the path back as exactly this job and these labels. The path is a
  fold over the labels (`Extended`), each encoded by a fold over its characters, and the gateway's reading is
  a fold over the segments (`Resolved`). The proof gives the segments of each pair, shows that none
  of them is a dot segment that would be resolved away, and that the encoding of each is undone.
* `DeliveryInv`: `UrlsOK` (a client that started has the group it was asked for, by the theorem
  above; one that did not has nothing acknowledged, under way or stored), `GroupsOK` (a stored
  group has the key of the client that wrote it) and `AttemptsOK` (no attempt exceeds the retries, and who
  sleeps has one left). `FreshUnlessLate` is inductive with these. `OwnGroup`, `Fresh` and
  `NeverUnreachable` (the `unreachable!()` behind the retry loop) follow, for any number of runs,
  samples, retries and requests under way.

`Aggregation` (in `ExportProofs`), assuming that a test's streams and the results libiperf gives are
of their types, whatever their numbers, and that prefix and labels are texts over a set of
characters (`Alphabet`), whatever these are:

* `DeltaHonest`: a reorder delta is never more than the events that there were, and just as many while the
  counter went on. `Reorders` sums it over the streams.
* `CountsInv`: `BytesOK` says that the bytes moved are those delivered, in the window, or of the interval
  about to be reported; `ReordersOK` that the reorder events reported, with those of that interval, are
  at most, and for a clean run exactly, those that happened, which needs that no stream's counter is
  below zero and that an interval too short to report held none. `Counted` follows, for any number of
  streams, intervals and samples in a window.
* `SummaryInv` adds what the worker's samples are: `WindowOK` says that each one `Reports` the results it
  was made of, its round-trip time, in seconds, between two that streams reported in microseconds (`SecondsKeep`), its lost packets their sum and its
  bandwidth that of its bytes and duration. `LastOK` (the shim has collected from every stream or from none) makes
  this true of a new sample, and `EncoderOK` says that no sample is taken unless the prefix and labels were accepted.
* `SummaryFaithful` follows when a window is closed, from a lemma for each kind of family. The extremes are folds that
  attain a value and bound them all, an average of fractions lies between them (`GaugeIs`), and so does the
  bandwidth of a window, which is weighted by durations (`WeightedBetween`). A counter is
  a fold that no sample lowers (`CounterIs`). A value that is absent everywhere has no family. `SeriesReadBack`: the reader, a
  fold over characters, undoes the escaping of any text, so it finds the metric and exactly the labels. The theorem is
  `Summarised`, for any number of streams, samples, windows and labels.

`MetricsFileProofs`, assuming natural bounds, that `None` is no writer and that sinks
and processes are named by writers:

* `NamesInv`: of two writers of one process, no two use the same number of a temporary file.
  With it `TempsInv` gives each temporary file one owner, and `FillInv` each writer an
  inode of its own that is not yet the file, with the contents its position says. So a rename
  publishes one whole snapshot.
* `OlderInv` says that the writes noted as older have ended, so the one that renames is
  none of them: with it `SnapshotCurrent` is inductive.
* `LockInv` says that the writer in the file holds its sink's lock; for clones of one sink
  `RecordsInv` gives whole records and at most one that its writer is in.
* `TypeCorrect`, `FileSnapshotCurrent`, `FileTempsAccounted` and `FileRecordsWhole` follow, for any
  number of writers, processes, writes and faults.

Every safety invariant and action property that a passing run checks is the statement of one of these
theorems. Checked by TLC only: liveness and the fairness part of the refinement, which are out of the
prover's reach, as is `ENABLED`.

The induction theorems of the library (`NatInduction`, `FiniteSetInduction`, ...) take an operator as a
parameter, which the installed provers cannot instantiate. Where an induction over data was needed it is an
induction over a set, as described above.

Each module with state defines its type invariant or has its types in its inductive invariant;
they are proved for every module.

## Not modelled

libiperf itself (external, a submodule; it appears as the source of results, samples, session
ends, getopt boundaries and addresses); help, version and error texts, which hold no
state; the build script and
the text rewriting of the source adapter (build time; what the patched code does at
run time is in `NativeTest` and `CliRuntime`); examples, tests, completions, CI and Docker
files. Of the encoder: the decimal form of numbers and the TYPE lines. Of the arithmetic:
rounding, NaN and infinities of f64. Of the client: user agent, basic authentication and TLS.
Of the parser behind `IperfCommand`: the ranges of numbers. In the modelled parts: a deadline beyond the range of
the clock that set-up has just checked, `sigaction` failing when a disposition is
restored, a panicking metrics worker, `daemon()`, the reuse of pids, pidfiles that are not
regular, and failures of the pidfile's system calls other than the write. `SelectReturns` stands
for all that may end a `select`: sockets, timeouts, an interruption.

## Plan

Done: every component with logic of its own, the most concurrent parts first, and the proofs of
all safety properties that the runs check. Liveness stays with TLC. What could still be added
is arithmetic with rounding in `WindowAggregate` and the ranges of numbers in the external parser.

---------------------------- MODULE IperfCommand ----------------------------
(***************************************************************************)
(* The builder of library runs, IperfCommand of src/src/command.rs: an     *)
(* application makes a command, calls its helpers in any order, and starts *)
(* runs from it, as often as it likes.  How a run goes on is RunLifecycle. *)
(*                                                                         *)
(* A word of the argument vector is a name and, for a number, its text: a  *)
(* whole part and the digits of a fraction.  A duration is seconds and     *)
(* ticks of Base^Places to the second (10^9 in the code).                  *)
(***************************************************************************)
EXTENDS Naturals, SequencesExt

CONSTANTS
  Texts,        \* what a word may say
  Groups,       \* sequences of words that one call of arg, args or a helper may append
  Durations,    \* durations a helper may be given
  Configs,      \* Pushgateway configurations
  Refused,      \* those with a job, a label or a timeout that is not valid
  Base, Places, MilliPlaces,   \* digits: 10, 9 and 3 in the code
  MaxSeconds,   \* u64::MAX
  MaxCalls      \* bound: calls on one command after its constructor

(* A word's name, and the number it stands for if it is one.               *)
Numbers == [whole : Nat, fraction : Seq(Nat)]
ArgWords == [name : Texts, number : Numbers]

Power(n) == FoldLeft(LAMBDA p, b : p * b, 1, [i \in 1..n |-> Base])
Second == Power(Places)
Milli == Power(Places - MilliPlaces)

ASSUME DigitsAssumption ==
  /\ Base \in Nat \ {0} /\ Places \in Nat /\ MilliPlaces \in 0..Places
  /\ MaxSeconds \in Nat /\ MaxCalls \in Nat

ASSUME DurationsAssumption ==
  \A d \in Durations : d.seconds \in 0..MaxSeconds /\ d.ticks \in 0..Second - 1

ASSUME GroupsAssumption == Groups \subseteq Seq(ArgWords)

ASSUME ConfigsAssumption == Refused \subseteq Configs /\ "none" \notin Configs

(* The texts that the helpers write; a number's counts as one text.        *)
ASSUME TextsAssumption ==
  {"-c", "host", "-s", "-1", "-t", "-i", "-O", "--connect-timeout", "--logfile", "log", "number"}
    \subseteq Texts

(* Two kinds of window fail validation: zero, and beyond the clock.        *)
Modes == {"disabled", "interval", "window", "bad window"}

(* A request for a Pushgateway; a "none" is none.                          *)
Pushes == [config : Configs, mode : Modes]
NoPush == [config |-> "none", mode |-> "none"]

VARIABLES
  command,   \* the fields of IperfCommand
  calls,     \* the constructor and the helpers called on it (history)
  run        \* the run just started from it

commandVars == <<command, calls, run>>

Whole(n) == [whole |-> n, fraction |-> <<>>]
Word(name) == [name |-> name, number |-> Whole(0)]
Number(text) == [name |-> "number", number |-> text]

-----------------------------------------------------------------------------
(* Durations as text. *)

(* Mutant: a fraction of a second is cut off. *)
MutTruncate(d) == Whole(d.seconds)

WholeSecondsArg(d) ==
  Whole(IF d.ticks = 0 \/ d.seconds = MaxSeconds THEN d.seconds ELSE d.seconds + 1)

(* {nanos:09} without the zeros at its end. *)
Digits(n) == [i \in 1..Places |-> (n \div Power(Places - i)) % Base]

(* Mutant: the digits are not padded to their places. *)
MutUnpadded(d) ==
  [whole |-> d.seconds, fraction |-> SelectSeq(Digits(d.ticks), LAMBDA c : c # 0)]

DecimalSecondsArg(d) ==
  LET digits == Digits(d.ticks)
      kept == {n \in 0..Places : \A i \in n + 1..Places : digits[i] = 0}
  IN [whole |-> d.seconds, fraction |-> SubSeq(digits, 1, Min(kept))]

(* as_millis is 128 bits wide. *)
MillisecondsArg(d) ==
  LET millis == d.seconds * Power(MilliPlaces) + d.ticks \div Milli
  IN Whole(IF d.ticks % Milli = 0 THEN millis ELSE millis + 1)

-----------------------------------------------------------------------------
(* libiperf's parser, as far as setup_run asks about its result.  It reads *)
(* the names of words.                                                     *)

NamesOf(words) == [i \in DOMAIN words |-> words[i].name]

Operands == {"-c", "-t", "-i", "-O", "-B", "--connect-timeout", "--logfile"}
ClientOnly == {"-c", "-t", "-O", "-u", "--connect-timeout"}
ServerOnly == {"-s", "-1"}

(* Where an option is read: not where the operand of one stands. *)
Options(names) ==
  LET read[i \in 0..Len(names)] ==
        i > 0 /\ ~(i > 1 /\ read[i - 1] /\ names[i - 1] \in Operands)
  IN {i \in DOMAIN names : read[i]}

HasOption(names, options) == \E i \in Options(names) : names[i] \in options

(* Words that spell the option in full. *)
Spelled(names) == {i \in DOMAIN names : names[i] \in {"--logfile", "--logfile=inline"}}

(* The file of the last option that names one.  getopt accepts any         *)
(* beginning of an option's name that is no other's.                       *)
LogfileOf(names) ==
  LET at == {i \in Options(names) :
               names[i] \in {"--logfile", "--logfile=inline", "--logf=inline"}}
  IN IF at = {} THEN "none"
     ELSE IF names[Max(at)] = "--logfile" THEN names[Max(at) + 1]
     ELSE names[Max(at)]

(* The words request a measurement: no help, an operand for each option    *)
(* that takes one, a role, and no option of the other role.                *)
Parses(names) ==
  /\ ~HasOption(names, {"-h"})
  /\ \A i \in Options(names) : names[i] \in Operands => i < Len(names)
  /\ HasOption(names, {"-c", "-s"})
  /\ ~(HasOption(names, ClientOnly) /\ HasOption(names, ServerOnly))

-----------------------------------------------------------------------------
(* Constructors and helpers. *)

New == [program |-> "iperf3-rs", args |-> <<>>, metrics_mode |-> "disabled",
        pushgateway |-> NoPush, allow_unbounded_server |-> FALSE, suppress_output |-> TRUE]

Client == [New EXCEPT !.args = <<Word("-c"), Word("host")>>]
ServerOnce == [New EXCEPT !.args = <<Word("-s"), Word("-1")>>]
ServerUnbounded ==
  [New EXCEPT !.args = <<Word("-s")>>, !.allow_unbounded_server = TRUE]

NoRun == [outcome |-> [result |-> "none"], metrics |-> "none", push |-> NoPush]

CommandInit ==
  /\ command \in {New, Client, ServerOnce, ServerUnbounded}
  /\ calls = << [name |-> "new", value |-> command] >>
  /\ run = NoRun

Called(name, value) ==
  /\ Len(calls) <= MaxCalls
  /\ calls' = Append(calls, [name |-> name, value |-> value])
  /\ run' = NoRun

Push(words) == command' = [command EXCEPT !.args = @ \o words]

Program == Called("program", "iperf3") /\ command' = [command EXCEPT !.program = "iperf3"]

(* arg, args and the helpers that append fixed words or a number.          *)
Arg == \E g \in Groups : Called("arg", g) /\ Push(g)

Timed(name, arg(_)) ==
  \E d \in Durations : Called(name, d) /\ Push(<<Word(name), Number(arg(d))>>)

Duration == Timed("-t", WholeSecondsArg)
ReportInterval == Timed("-i", DecimalSecondsArg)
ConnectTimeout == Timed("--connect-timeout", MillisecondsArg)
Omit == Timed("-O", WholeSecondsArg)

Logfile == Called("logfile", "log") /\ Push(<<Word("--logfile"), Word("log")>>)

Quiet == Called("quiet", TRUE) /\ command' = [command EXCEPT !.suppress_output = TRUE]

InheritOutput ==
  Called("quiet", FALSE) /\ command' = [command EXCEPT !.suppress_output = FALSE]

Metrics ==
  \E m \in Modes : Called("metrics", m) /\ command' = [command EXCEPT !.metrics_mode = m]

Pushgateway ==
  \E p \in Pushes : Called("push", p) /\ command' = [command EXCEPT !.pushgateway = p]

ClearPushgateway ==
  Called("push", NoPush) /\ command' = [command EXCEPT !.pushgateway = NoPush]

AllowUnboundedServer ==
  \E allow \in BOOLEAN :
    Called("allow", allow) /\ command' = [command EXCEPT !.allow_unbounded_server = allow]

-----------------------------------------------------------------------------
(* setup_run. *)

ValidMode(m) == m # "bad window"

ValidPushgatewayRequest(c) ==
  c.pushgateway # NoPush =>
    /\ c.metrics_mode = "disabled"
    /\ c.pushgateway.mode # "disabled" /\ ValidMode(c.pushgateway.mode)

ValidModes(c) == ValidMode(c.metrics_mode) /\ ValidPushgatewayRequest(c)

Argv(c) == <<Word(c.program)>> \o c.args

HasLogfileArg(c) == Spelled(NamesOf(c.args)) # {}

(* Mutant: a log file does not lift the suppression. *)
MutQuietAnyway(c) == c.suppress_output

ShouldSuppressOutput(c) == c.suppress_output /\ ~HasLogfileArg(c)

(* Mutant: the one-off option is looked for among the words. *)
MutScanWords(c) ==
  /\ HasOption(NamesOf(c.args), {"-s"})
  /\ \A w \in Range(c.args) : w.name # "-1"
  /\ ~c.allow_unbounded_server

(* validate_server_lifecycle asks libiperf what it parsed. *)
UnboundedServer(c) ==
  HasOption(NamesOf(c.args), {"-s"}) /\ ~HasOption(NamesOf(c.args), {"-1"}) /\ ~c.allow_unbounded_server

(* suppress_output replaces the log file by /dev/null. *)
Output(c) == IF ShouldSuppressOutput(c) THEN "null" ELSE LogfileOf(NamesOf(c.args))

(* PushGateway::new, which is asked only for a run without a stream.       *)
GatewayRefused(c) ==
  c.metrics_mode = "disabled" /\ c.pushgateway # NoPush /\ c.pushgateway.config \in Refused

(* Mutant: a gateway pushes to the first configuration there is. *)
MutSomeConfig(c) == CHOOSE config \in Configs \ Refused : TRUE

GatewayConfig(c) == c.pushgateway.config

(* The one reporter of a run: its queue and the events it makes. *)
Reporter(c) ==
  IF c.metrics_mode # "disabled"
  THEN [to |-> "stream", queue |-> "All", events |-> c.metrics_mode, config |-> "none"]
  ELSE IF c.pushgateway # NoPush
  THEN [to |-> "gateway",
        queue |-> IF c.pushgateway.mode = "interval" THEN "Latest" ELSE "All",
        events |-> c.pushgateway.mode, config |-> GatewayConfig(c)]
  ELSE [to |-> "none", queue |-> "none", events |-> "disabled", config |-> "none"]

(* Mutant: the configuration is looked at when the run has begun. *)
MutLateRefusal(c) ==
  IF ~ValidModes(c) THEN [result |-> "invalid"]
  ELSE IF ~Parses(NamesOf(c.args)) THEN [result |-> "arguments"]
  ELSE IF UnboundedServer(c) THEN [result |-> "unbounded"]
  ELSE [result |-> "started", argv |-> Argv(c), output |-> Output(c), reporter |-> Reporter(c)]

SetupRun(c) ==
  IF ~ValidModes(c) THEN [result |-> "invalid"]
  ELSE IF ~Parses(NamesOf(c.args)) THEN [result |-> "arguments"]
  ELSE IF UnboundedServer(c) THEN [result |-> "unbounded"]
  ELSE IF GatewayRefused(c) THEN [result |-> "gateway"]
  ELSE [result |-> "started", argv |-> Argv(c), output |-> Output(c), reporter |-> Reporter(c)]

(* libiperf or the HTTP client may lack the means for what is asked.       *)
Outcomes(c) == {SetupRun(c)} \cup (IF ValidModes(c) THEN {[result |-> "system"]} ELSE {})

(* A run is started from a clone; what the call itself asked for is noted. *)
Start(c, metrics, push) ==
  \E o \in Outcomes(c) : run' = [outcome |-> o, metrics |-> metrics, push |-> push]

(* run, spawn. *)
RunOrSpawn == Start(command, "none", NoPush) /\ UNCHANGED <<command, calls>>

(* Mutant: the convenience call sets the request of the command itself. *)
MutSetsItself ==
  \E p \in Pushes :
    /\ Start([command EXCEPT !.pushgateway = p], "none", p)
    /\ command' = [command EXCEPT !.pushgateway = p] /\ UNCHANGED calls

(* run_with_pushgateway, spawn_with_pushgateway. *)
RunWithPushgateway ==
  /\ \E p \in Pushes : Start([command EXCEPT !.pushgateway = p], "none", p)
  /\ UNCHANGED <<command, calls>>

SpawnWithMetrics ==
  /\ \E m \in Modes :
       IF m = "disabled"
       THEN run' = [outcome |-> [result |-> "invalid"], metrics |-> m, push |-> NoPush]
       ELSE Start([command EXCEPT !.metrics_mode = m], m, NoPush)
  /\ UNCHANGED <<command, calls>>

CommandNext ==
  \/ Program \/ Arg \/ Duration \/ ReportInterval \/ ConnectTimeout \/ Omit \/ Logfile
  \/ Quiet \/ InheritOutput \/ Metrics \/ Pushgateway \/ ClearPushgateway
  \/ AllowUnboundedServer
  \/ RunOrSpawn \/ RunWithPushgateway \/ SpawnWithMetrics

CommandSpec == CommandInit /\ [][CommandNext]_commandVars

-----------------------------------------------------------------------------
CommandTypes ==
  [program : {"iperf3-rs", "iperf3"}, args : Seq(ArgWords),
   metrics_mode : Modes, pushgateway : Pushes \cup {NoPush},
   allow_unbounded_server : BOOLEAN, suppress_output : BOOLEAN]

CommandTypeOK ==
  /\ command \in CommandTypes
  /\ run.outcome.result \in
       {"none", "invalid", "arguments", "unbounded", "gateway", "system", "started"}

(* What the calls ask for: the last of its kind, or the value of a run's   *)
(* own; the words of all of them, in order.                                *)
Asked(name, default) ==
  LET at == {i \in DOMAIN calls : calls[i].name = name}
  IN IF at = {} THEN default ELSE calls[Max(at)].value

AskedMetrics == IF run.metrics # "none" THEN run.metrics ELSE Asked("metrics", "disabled")
AskedPush == IF run.push # NoPush THEN run.push ELSE Asked("push", NoPush)

TimeOptions == {"-t", "-i", "-O", "--connect-timeout"}

Added(call) ==
  CASE call.name = "new" -> NamesOf(call.value.args)
    [] call.name = "arg" -> NamesOf(call.value)
    [] call.name = "logfile" -> <<"--logfile", call.value>>
    [] call.name \in TimeOptions -> <<call.name, "number">>
    [] OTHER -> <<>>

(* The names of the words that the first n calls ask for.                  *)
AddedBy(n) == FlattenSeq([i \in 1..n |-> Added(calls[i])])
AskedNames == AddedBy(Len(calls))

(* The ticks that the number of an option stands for.                      *)
Unit(name) == IF name = "--connect-timeout" THEN Milli ELSE Second
Read(name, number) ==
  FoldLeft(LAMBDA sum, i : sum + number.fraction[i] * Power(Places - i),
           number.whole * Unit(name), [i \in DOMAIN number.fraction |-> i])

(* "Rounded up so the typed API does not silently truncate a nonzero       *)
(* Duration to 0" (src/src/command.rs:160-162): never less than was asked  *)
(* and less than a unit more, for -i exactly; u64 has no second to round   *)
(* up to at its end.                                                       *)
Means(name, number, d) ==
  LET ticks == d.seconds * Second + d.ticks
  IN \/ /\ ticks <= Read(name, number)
        /\ Read(name, number) < ticks + (IF name = "-i" THEN 1 ELSE Unit(name))
     \/ name \in {"-t", "-O"} /\ d.seconds = MaxSeconds /\ number.whole = MaxSeconds

TimesKept(words) ==
  \A k \in DOMAIN calls : calls[k].name \in TimeOptions =>
    LET word == words[Len(AddedBy(k - 1)) + 2]
    IN word.name = "number" /\ Means(calls[k].name, word.number, calls[k].value)

(* A quiet run writes nowhere, unless a log file is asked for: then it    *)
(* writes there, if the option is spelled in full (see LogfileHonored).    *)
OutputAsAsked(names, output) ==
  /\ Asked("quiet", TRUE) /\ Spelled(names) = {} /\ LogfileOf(names) = "none" =>
       output = "null"
  /\ ~Asked("quiet", TRUE) \/ Spelled(names) \cap Options(names) # {} =>
       output = LogfileOf(names)

(* A run has "a single reporter callback"; a stream preserves "every       *)
(* emitted event" and an immediate push only the newest                    *)
(* (src/src/command.rs:281-282, 293, 299-300).                             *)
ReporterAsAsked(reporter) ==
  /\ reporter.to = "stream" <=> AskedMetrics # "disabled"
  /\ reporter.to = "gateway" <=> AskedPush # NoPush
  /\ reporter.queue = "Latest" <=> AskedPush.mode = "interval"
  /\ reporter.events = IF AskedPush = NoPush THEN AskedMetrics ELSE AskedPush.mode
  /\ reporter.config = AskedPush.config

(* Modes of metrics that are valid, with one reporter for them.            *)
ModesAsked ==
  /\ AskedMetrics # "bad window" /\ run.metrics # "disabled"
  /\ AskedPush # NoPush =>
       AskedMetrics = "disabled" /\ AskedPush.mode \in {"interval", "window"}

(* A measurement, with an end or an explicit permission to hold the run    *)
(* lock for ever.                                                          *)
WordsAsked(names) ==
  /\ Parses(names)
  /\ HasOption(names, {"-s"}) =>
       HasOption(names, {"-1"}) \/ Asked("allow", calls[1].value.allow_unbounded_server)

(* A run does what the calls before it asked for, all of it and nothing    *)
(* from an earlier run's own request, or it fails for a cause in them: an  *)
(* invalid mode, two reporters, words that are no measurement, a server    *)
(* that would hold the run lock for ever without an explicit permission,   *)
(* or a gateway configuration that is not valid; or because libiperf or    *)
(* the HTTP client could not be set up, which nothing invalid gets to.     *)
RunsAsAsked ==
  run.outcome.result # "none" =>
    LET names == AskedNames
        outcome == run.outcome
    IN /\ outcome.result = "system" => ModesAsked
       /\ outcome.result # "system" =>
            (outcome.result = "started" <=>
               ModesAsked /\ WordsAsked(names) /\ AskedPush.config \notin Refused)
       /\ outcome.result = "started" =>
            /\ Head(outcome.argv).name = Asked("program", "iperf3-rs")
            /\ NamesOf(Tail(outcome.argv)) = names
            /\ TimesKept(Tail(outcome.argv))
            /\ OutputAsAsked(names, outcome.output)
            /\ ReporterAsAsked(outcome.reporter)

(* "Explicit log files are honored even though high-level library runs are *)
(* quiet by default" (src/src/command.rs:174-175), however the option is   *)
(* spelled: has_logfile_arg (446-450) knows two spellings of it, getopt    *)
(* also its abbreviations.                                                 *)
LogfileHonored ==
  run.outcome.result = "started" =>
    LET asked == LogfileOf(AskedNames)
    IN asked # "none" => run.outcome.output = asked
=============================================================================

------------------------------ MODULE Arguments ------------------------------
(***************************************************************************)
(* The command line of the tool: extract_app_options of src/src/args.rs    *)
(* takes the wrapper's options out of the words and leaves the rest to     *)
(* libiperf.  It reads the words twice: argument_boundaries finds where    *)
(* each option starts, with libiperf's own getopt tables, and the second   *)
(* pass takes the values.                                                  *)
(*                                                                         *)
(* A word is a record: its kind for getopt_long (external), its key when   *)
(* it names a wrapper option, whether it carries "=value", and the value   *)
(* it carries or is: "a" and "b" are accepted by every parser, "bad" by    *)
(* none and "text", which is how an option reads when it stands where a    *)
(* value is expected, only where any text is.                              *)
(***************************************************************************)
EXTENDS Naturals, SequencesExt

CONSTANTS
  Commands,      \* the sequences of words a user may type
  Environments   \* values of the environment: [Keys -> value or "unset"]

PushSettings == {"timeout", "retries", "user-agent", "interval", "delete"}
Labels == {"push.label", "metrics.label"}
Free == {"url", "job", "file"}     \* kept as text while the words are read
Keys == PushSettings \cup Labels \cup Free \cup {"format", "prefix"}
Values == {"a", "b", "bad", "text"}
Words == [kind : {"plain", "operand", "unknown", "--", "help", "version", "wrapper"},
          key : Keys \cup {"none"}, inline : BOOLEAN, value : Values]

ASSUME CommandsAssumption ==
  \A c \in Commands :
    c \in Seq(Words) /\ \A i \in DOMAIN c : c[i].kind = "wrapper" => c[i].key \in Keys

ASSUME EnvironmentsAssumption ==
  \A e \in Environments : e \in [Keys -> Values \cup {"unset"}]

VARIABLES
  args,     \* the words after the program's name
  env,
  stage,    \* "boundaries", "environment", "extract", "defaults", "checks",
            \* or the outcome: "done", "error", "help", "version"
  index,    \* of the pass that is running
  spans,    \* 0 for a wrapper option, else the words of an upstream one
  through,  \* positions passed to libiperf
  cli,      \* value of each key from the command line, or "unset"
  labels,   \* values of the two label options
  options   \* effective value of each other key, or "default"

input == <<args, env>>
argumentsVars == <<input, stage, index, spans, through, cli, labels, options>>

ArgumentsInit ==
  /\ args \in Commands /\ env \in Environments
  /\ stage = "boundaries" /\ index = 1
  /\ spans = [i \in DOMAIN args |-> 1]
  /\ through = <<>>
  /\ cli = [k \in Keys |-> "unset"]
  /\ labels = [k \in Labels |-> <<>>]
  /\ options = [k \in Keys |-> "default"]

NeedsValue(key) == key # "delete"
AsValue(word) == IF word.kind = "plain" THEN word.value ELSE "text"
Accepted(key, value) == key \in Free \/ value \in {"a", "b"}

-----------------------------------------------------------------------------
(* argument_boundaries. *)

(* iperf3rs_arg_boundary: words an upstream option takes, 0 if getopt does *)
(* not know it or misses its operand.                                      *)
Boundary(i) ==
  CASE args[i].kind = "operand" -> IF i < Len(args) THEN 2 ELSE 0
    [] args[i].kind = "unknown" -> 0
    [] OTHER -> 1

(* Mutant: the value of a wrapper option is read as a word of its own. *)
MutNoSkip(i) == 1

(* Words a wrapper option takes. *)
WrapperSpan(i) ==
  IF NeedsValue(args[i].key) /\ ~args[i].inline /\ i < Len(args) THEN 2 ELSE 1

BoundariesEnd == stage' = "environment" /\ index' = 1 /\ UNCHANGED spans

FindBoundary ==
  /\ stage = "boundaries"
  /\ IF index > Len(args) \/ (index <= Len(args) /\ args[index].kind = "--")
     THEN BoundariesEnd
     ELSE CASE args[index].kind = "wrapper" ->
                 /\ spans' = [spans EXCEPT ![index] = 0]
                 /\ index' = index + WrapperSpan(index)
                 /\ UNCHANGED stage
            [] args[index].kind \in {"help", "version"} ->
                 stage' = args[index].kind /\ UNCHANGED <<index, spans>>
            [] OTHER ->
                 IF Boundary(index) = 0 THEN BoundariesEnd
                 ELSE /\ spans' = [spans EXCEPT ![index] = Boundary(index)]
                      /\ index' = index + Boundary(index)
                      /\ UNCHANGED stage
  /\ UNCHANGED <<input, through, cli, labels, options>>

-----------------------------------------------------------------------------
(* extract_app_options_with_env. *)

Stop == stage' = "error" /\ UNCHANGED <<input, index, spans, through, cli, labels, options>>

(* parse_env_labels: the default labels come first. *)
ReadLabels ==
  /\ stage = "environment"
  /\ IF \E k \in Labels : env[k] \notin {"unset", "a", "b"} THEN Stop
     ELSE /\ labels' = [k \in Labels |-> IF env[k] = "unset" THEN <<>> ELSE <<env[k]>>]
          /\ stage' = "extract"
          /\ UNCHANGED <<input, index, spans, through, cli, options>>

(* The option takes a value, which its parser accepts. *)
Take(key, value, width) ==
  IF ~Accepted(key, value) THEN Stop
  ELSE /\ IF key \in Labels
          THEN labels' = [labels EXCEPT ![key] = Append(@, value)] /\ UNCHANGED cli
          ELSE cli' = [cli EXCEPT ![key] = value] /\ UNCHANGED labels
       /\ index' = index + width
       /\ UNCHANGED <<input, stage, spans, through, options>>

(* Mutant: the spans of the first pass are not consulted. *)
MutIgnoreSpans(i) == args[i].kind # "wrapper"

IsUpstream(i) == spans[i] # 0

PassThrough(last) ==
  /\ through' = through \o [k \in 1..last - index + 1 |-> index + k - 1]
  /\ index' = last + 1
  /\ UNCHANGED <<input, stage, spans, cli, labels, options>>

Extract ==
  /\ stage = "extract" /\ index <= Len(args)
  /\ LET word == args[index]
     IN IF word.kind = "--" THEN PassThrough(Len(args))
        ELSE IF IsUpstream(index) THEN PassThrough(index + spans[index] - 1)
        ELSE IF word.inline THEN Take(word.key, word.value, 1)
        ELSE IF ~NeedsValue(word.key) THEN Take(word.key, "a", 1)
        ELSE IF index = Len(args) THEN Stop
        ELSE Take(word.key, AsValue(args[index + 1]), 2)

ExtractEnds ==
  /\ stage = "extract" /\ index > Len(args)
  /\ stage' = "defaults"
  /\ UNCHANGED <<input, index, spans, through, cli, labels, options>>

(* Mutant: a default is parsed although the command line replaces it. *)
MutParseAll(k) == env[k] # "unset"

(* env_default reads the variable only then. *)
UsesEnv(k) == cli[k] = "unset" /\ env[k] # "unset"

(* Only effective defaults are parsed; the URL at last, wherever it comes  *)
(* from.                                                                   *)
Defaults ==
  /\ stage = "defaults"
  /\ LET value(k) == IF UsesEnv(k) THEN env[k]
                     ELSE IF cli[k] # "unset" THEN cli[k] ELSE "default"
     IN IF \/ \E k \in Keys \ Labels : UsesEnv(k) /\ ~Accepted(k, env[k])
           \/ value("url") \notin {"default", "a", "b"}
        THEN Stop
        ELSE /\ options' = [k \in Keys |-> IF k \in Labels THEN "default" ELSE value(k)]
             /\ stage' = "checks"
             /\ UNCHANGED <<input, index, spans, through, cli, labels>>

Duplicates(s) == \E i, j \in DOMAIN s : i < j /\ s[i] = s[j]

(* A setting needs the destination it is about: given holds the values of  *)
(* the command line, value the effective ones.  "b" is the prometheus      *)
(* format; as a job, "bad" is the empty text.                              *)
Misplaced(given, value, label) ==
  LET absent(k) == value[k] = "default"
  IN \/ absent("url") /\ \/ label["push.label"] # <<>>
                          \/ \E k \in PushSettings \cup {"job"} : given[k] # "unset"
     \/ absent("file") /\ (~absent("format") \/ label["metrics.label"] # <<>>)
     \/ label["metrics.label"] # <<>> /\ value["format"] # "b"
     \/ absent("url") /\ absent("file") /\ given["prefix"] # "unset"
     \/ ~absent("url") /\ value["job"] = "bad"
     \/ \E k \in Labels : Duplicates(label[k])

Check ==
  /\ stage = "checks"
  /\ stage' = IF Misplaced(cli, options, labels) THEN "error" ELSE "done"
  /\ UNCHANGED <<input, index, spans, through, cli, labels, options>>

ArgumentsNext == FindBoundary \/ ReadLabels \/ Extract \/ ExtractEnds \/ Defaults \/ Check

ArgumentsSpec == ArgumentsInit /\ [][ArgumentsNext]_argumentsVars

-----------------------------------------------------------------------------
(* What the command line means, defined from the words alone. *)

Width(i) == IF args[i].kind = "wrapper" THEN WrapperSpan(i) ELSE Boundary(i)
Ends(i) == args[i].kind \in {"--", "help", "version"} \/ Width(i) = 0

(* Positions where libiperf or the wrapper reads an option. *)
Starts ==
  LET start[i \in 1..Len(args)] ==
        i = 1 \/ \E j \in 1..i - 1 : start[j] /\ ~Ends(j) /\ j + Width(j) = i
  IN {i \in DOMAIN args : start[i]}

Own == {i \in Starts : args[i].kind = "wrapper"}
OwnOf(k) == {i \in Own : args[i].key = k}
Incomplete(i) == WrapperSpan(i) = 1 /\ ~args[i].inline /\ NeedsValue(args[i].key)
ValueAt(i) == IF args[i].inline THEN args[i].value
              ELSE IF NeedsValue(args[i].key) THEN AsValue(args[i + 1]) ELSE "a"

Given == [k \in Keys |-> IF k \in Labels \/ OwnOf(k) = {} THEN "unset"
                         ELSE ValueAt(Max(OwnOf(k)))]
Effective == [k \in Keys |-> IF Given[k] # "unset" THEN Given[k]
                             ELSE IF k \in Labels \/ env[k] = "unset" THEN "default"
                             ELSE env[k]]
Ascending(s) == \A m, n \in DOMAIN s : m < n => s[m] < s[n]
InOrder(S) == CHOOSE s \in [1..Cardinality(S) -> S] : Range(s) = S /\ Ascending(s)
AllLabels == [k \in Labels |->
  (IF env[k] = "unset" THEN <<>> ELSE <<env[k]>>)
  \o [n \in 1..Cardinality(OwnOf(k)) |-> ValueAt(InOrder(OwnOf(k))[n])]]

(* What makes a command line fail. *)
Faulty ==
  \/ \E i \in Own : Incomplete(i) \/ ~Accepted(args[i].key, ValueAt(i))
  \/ \E k \in Labels : env[k] \notin {"unset", "a", "b"}
  \/ \E k \in Keys : Effective[k] # "default" /\ ~Accepted(k, Effective[k])
  \/ Effective["url"] \notin {"default", "a", "b"}
  \/ Misplaced(Given, Effective, AllLabels)

ArgumentsTypeOK ==
  /\ stage \in {"boundaries", "environment", "extract", "defaults", "checks", "done",
                "error", "help", "version"}
  /\ index \in 1..Len(args) + 1
  /\ spans \in [DOMAIN args -> 0..2]
  /\ through \in Seq(DOMAIN args)
  /\ cli \in [Keys -> Values \cup {"unset"}]
  /\ labels \in [Labels -> Seq({"a", "b"})]
  /\ options \in [Keys -> Values \cup {"default"}]

Taken == Own \cup {i + 1 : i \in {j \in Own : WrapperSpan(j) = 2}}

(* The two passes agree: libiperf gets every word that is not a wrapper    *)
(* option or the value of one, in order and none twice.  An operand of an  *)
(* upstream option, and what follows "--" or an option getopt does not     *)
(* know, is never taken, whatever it looks like; a value that looks like   *)
(* an option does not act as one (src/src/args.rs:131, 675).               *)
UpstreamUntouched ==
  /\ stage \in {"defaults", "checks", "done"} =>
       Range(through) = DOMAIN args \ Taken /\ Ascending(through)
  /\ stage \in {"help", "version"} => \E i \in Starts : args[i].kind = stage

(* "CLI values override environment defaults" (src/README.md:98): the last *)
(* of several values of an option is in effect, a default only without     *)
(* one, and default labels come before the given ones.                     *)
EffectiveOptions == stage = "done" => options = Effective /\ labels = AllLabels

(* Only effective inputs can fail: a default that the command line         *)
(* replaces may be anything, and nothing faulty is let through             *)
(* (src/src/args.rs:254).                                                  *)
FailsForCause == stage \in {"done", "error"} => (stage = "error" <=> Faulty)

(* A command line has the effect that its words mean. *)
OptionsAsMeant == EffectiveOptions /\ FailsForCause
=============================================================================

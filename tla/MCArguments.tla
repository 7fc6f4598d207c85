------------------------------ MODULE MCArguments ------------------------------
(* The two front ends of libiperf's argument vector: the command line tool  *)
(* on all command lines of up to three words, the ones of four words in    *)
(* which values and options stand in each other's place, and a few         *)
(* environments; or an application with an IperfCommand.                   *)
EXTENDS Arguments, IperfCommand

Typed(kind, value) == [kind |-> kind, key |-> "none", inline |-> FALSE, value |-> value]
Option(key, value) == [kind |-> "wrapper", key |-> key, inline |-> value # "text", value |-> value]

(* Wrapper options with a value of their own, and without ("text"). *)
MCWords ==
  {Typed("plain", "a"), Typed("plain", "bad"), Typed("operand", "text"), Typed("unknown", "text"),
   Typed("--", "text"), Typed("help", "text"),
   Option("job", "text"), Option("job", "b"), Option("timeout", "text"), Option("timeout", "bad"),
   Option("delete", "text"), Option("push.label", "a"), Option("push.label", "text"),
   Option("url", "a"), Option("file", "b"), Option("format", "b"), Option("metrics.label", "text"),
   Option("prefix", "b")}

MCFewWords ==
  {Typed("plain", "a"), Typed("operand", "text"), Typed("unknown", "text"),
   Typed("--", "text"), Option("job", "text"), Option("push.label", "text"), Option("url", "a")}

MCCommands == UNION {[1..n -> MCWords] : n \in 0..3} \cup [1..4 -> MCFewWords]

Unset == [k \in Keys |-> "unset"]
MCEnvironments ==
  {Unset,
   [Unset EXCEPT !["url"] = "b", !["timeout"] = "bad"],
   [Unset EXCEPT !["url"] = "text", !["job"] = "bad"],
   [Unset EXCEPT !["push.label"] = "a", !["url"] = "a"],
   [Unset EXCEPT !["format"] = "b", !["file"] = "a", !["metrics.label"] = "b"],
   [Unset EXCEPT !["metrics.label"] = "bad"],
   [Unset EXCEPT !["delete"] = "bad", !["file"] = "text"]}

-----------------------------------------------------------------------------
(* Digits are binary here; (0, 1) needs a zero before its digit, (1, 2)    *)
(* loses one behind it, and (2, 3) has no whole second to round up to.     *)
MCDurations ==
  {[seconds |-> 0, ticks |-> 1], [seconds |-> 1, ticks |-> 0], [seconds |-> 1, ticks |-> 2],
   [seconds |-> 2, ticks |-> 3]}

(* An option that swallows the next word, or the one it is given with.     *)
MCGroups ==
  {<<Word("-1")>>, <<Word("-c"), Word("host")>>, <<Word("-h")>>,
   <<Word("-B")>>, <<Word("-B"), Word("-1")>>, <<Word("-B"), Word("--logfile")>>,
   <<Word("--logfile=inline")>>, <<Word("--logf=inline")>>}

MCTexts ==
  {"-c", "host", "-s", "-1", "-t", "-i", "-O", "--connect-timeout", "--logfile", "log", "number",
   "-h", "-B", "--logfile=inline", "--logf=inline"}

VARIABLE front   \* who makes the words

MCInit ==
  /\ ArgumentsInit /\ CommandInit
  /\ \/ front = "tool" /\ command = New
     \/ front = "library" /\ args = <<>> /\ env = Unset

MCNext ==
  \/ front = "tool" /\ ArgumentsNext /\ UNCHANGED <<commandVars, front>>
  \/ front = "library" /\ CommandNext /\ UNCHANGED <<argumentsVars, front>>

MCSpec == MCInit /\ [][MCNext]_<<argumentsVars, commandVars, front>>
=============================================================================

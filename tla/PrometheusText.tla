--------------------------- MODULE PrometheusText ---------------------------
(***************************************************************************)
(* How PrometheusEncoder (src/src/prometheus.rs) names a series: the       *)
(* metric's name, under a prefix, and the fixed labels of the sink, whose  *)
(* values are any text.  Text is a sequence of characters; values and the  *)
(* TYPE lines are left out.                                                *)
(***************************************************************************)
EXTENDS Naturals, SequencesExt

NameLetters == {"a", "b", "n", "m", "e", "_"}
NameDigits == {"0"}

(* The shape of a metric prefix and of a label's name. *)
IsValidName(name) ==
  /\ name # <<>>
  /\ Head(name) \in NameLetters
  /\ Range(name) \subseteq NameLetters \cup NameDigits

DoubleUnderscoreName == <<"_", "_", "n", "a", "m", "e", "_", "_">>

ValidateLabels(labels) ==
  /\ \A i \in DOMAIN labels :
       IsValidName(labels[i][1]) /\ labels[i][1] # DoubleUnderscoreName /\ labels[i][2] # <<>>
  /\ \A i, j \in DOMAIN labels : labels[i][1] = labels[j][1] => i = j

(* PrometheusEncoder::with_labels. *)
EncoderAccepts(prefix, labels) == IsValidName(prefix) /\ ValidateLabels(labels)

(* Mutant: a backslash is written as it is. *)
MutKeepBackslash(c) ==
  CASE c = "\"" -> <<"\\", "\"">>
    [] c = "\n" -> <<"\\", "n">>
    [] OTHER -> <<c>>

Escaped(c) ==
  CASE c = "\\" -> <<"\\", "\\">>
    [] c = "\"" -> <<"\\", "\"">>
    [] c = "\n" -> <<"\\", "n">>
    [] OTHER -> <<c>>

LabelSet(labels) ==
  LET text(l) == l[1] \o <<"=", "\"">>
                 \o FlattenSeq([i \in DOMAIN l[2] |-> Escaped(l[2][i])]) \o <<"\"">>
      item(i) == (IF i > 1 THEN <<",">> ELSE <<>>) \o text(labels[i])
  IN IF labels = <<>> THEN <<>>
     ELSE <<"{">> \o FlattenSeq([i \in DOMAIN labels |-> item(i)]) \o <<"}">>

MetricName(prefix, suffix) == prefix \o <<"_">> \o suffix

(* What gauge writes before a value. *)
Series(prefix, suffix, labels) ==
  MetricName(prefix, suffix) \o LabelSet(labels) \o <<" ">>

-----------------------------------------------------------------------------
(* A scraper's reading of it, one character at a time.                     *)

Reading(at) == [at |-> at, metric |-> <<>>, name |-> <<>>, value |-> <<>>, labels |-> <<>>]

ReadCharacter(r, c) ==
  CASE r.at = "metric" /\ c = "{" -> [r EXCEPT !.at = "name"]
    [] r.at = "metric" /\ c = " " -> [r EXCEPT !.at = "end"]
    [] r.at = "metric" /\ c \in NameLetters \cup NameDigits -> [r EXCEPT !.metric = Append(@, c)]
    [] r.at = "name" /\ c = "=" -> [r EXCEPT !.at = "open"]
    [] r.at = "name" /\ c \in NameLetters \cup NameDigits -> [r EXCEPT !.name = Append(@, c)]
    [] r.at = "open" /\ c = "\"" -> [r EXCEPT !.at = "value"]
    [] r.at = "value" /\ c = "\\" -> [r EXCEPT !.at = "escape"]
    [] r.at = "value" /\ c = "\"" ->
         [at |-> "close", metric |-> r.metric, name |-> <<>>, value |-> <<>>,
          labels |-> Append(r.labels, <<r.name, r.value>>)]
    [] r.at = "value" /\ c \notin {"\\", "\"", "\n"} -> [r EXCEPT !.value = Append(@, c)]
    [] r.at = "escape" /\ c \in {"\\", "\"", "n"} ->
         [r EXCEPT !.at = "value", !.value = Append(@, IF c = "n" THEN "\n" ELSE c)]
    [] r.at = "close" /\ c = "," -> [r EXCEPT !.at = "name"]
    [] r.at = "close" /\ c = "}" -> [r EXCEPT !.at = "closed"]
    [] r.at = "closed" /\ c = " " -> [r EXCEPT !.at = "end"]
    [] OTHER -> [r EXCEPT !.at = "error"]

ReadSeries(line) == FoldLeft(ReadCharacter, Reading("metric"), line)
=============================================================================

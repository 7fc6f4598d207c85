----------------------------- MODULE GroupingKey -----------------------------
(***************************************************************************)
(* The request path of a Pushgateway sink, which is its grouping key, and  *)
(* the validation of what goes into it (src/src/pushgateway.rs).           *)
(*                                                                         *)
(* Text is a sequence of characters.  A path is a sequence of tokens, each *)
(* the text the gateway reads and how it is written: raw, percent-encoded  *)
(* or as base64.                                                           *)
(***************************************************************************)
EXTENDS Naturals, SequencesExt

CONSTANT Characters   \* of jobs and of the names and values of labels

Letters == {"a", "b", "j", "o"}
Digits == {"0"}
Unreserved == Letters \cup Digits \cup {"-", "_", ".", "~"}

ASSUME CharactersAssumption == Unreserved \cup {"/"} \subseteq Characters

Token(kind, text) == [kind |-> kind, text |-> text]
Separator == Token("raw", <<"/">>)
Raw(text) == [i \in DOMAIN text |-> Token("raw", <<text[i]>>)]

-----------------------------------------------------------------------------
(* The path. *)

EncodePathByte(c) == Token(IF c \in Unreserved THEN "raw" ELSE "percent", <<c>>)

(* Mutant: an encoded slash is taken for safe. *)
MutOnlyDots(value) == value \in {<<".">>, <<".", ".">>}

(* A slash, even encoded, and a dot segment do not survive the router. *)
NeedsBase64(value) ==
  "/" \in Range(value) \/ value \in {<<".">>, <<".", ".">>}

EncodedValue(value) ==
  IF NeedsBase64(value)
  THEN <<Token("marker", <<>>), Separator, Token("base64", value)>>
  ELSE <<Separator>> \o [i \in DOMAIN value |-> EncodePathByte(value[i])]

AppendGroupingPair(path, name, value) ==
  path \o <<Separator>> \o Raw(name) \o EncodedValue(value)

AppendLabel(path, label) == AppendGroupingPair(path, label[1], label[2])

GroupingPath(job, labels) ==
  FoldLeft(AppendLabel, AppendGroupingPair(<<>>, <<"j", "o", "b">>, job), labels)

-----------------------------------------------------------------------------
(* PushGatewayConfig::validate. *)

IsValidLabelName(name) ==
  /\ name # <<>>
  /\ Head(name) \in Letters \cup {"_"}
  /\ Range(name) \subseteq Letters \cup Digits \cup {"_"}

IsReservedLabelName(name) ==
  name = <<"j", "o", "b">> \/ (Len(name) >= 2 /\ SubSeq(name, 1, 2) = <<"_", "_">>)

ValidLabel(name, value) ==
  IsValidLabelName(name) /\ ~IsReservedLabelName(name) /\ value # <<>>

RejectsDuplicates(labels) ==
  \E i, j \in DOMAIN labels : i < j /\ labels[i][1] = labels[j][1]

ValidLabels(labels) ==
  /\ \A i \in DOMAIN labels : ValidLabel(labels[i][1], labels[i][2])
  /\ ~RejectsDuplicates(labels)

-----------------------------------------------------------------------------
(* The gateway's router: it decodes percent escapes first, splits at every *)
(* slash, resolves dot segments and reads pairs; base64 is decoded last.   *)
(* The result is the group: a set of pairs, or {} for a path without one.  *)

IsSlash(token) == token.kind \in {"raw", "percent"} /\ token.text = <<"/">>

Extended(segs, token) ==
  IF IsSlash(token) THEN Append(segs, <<>>)
  ELSE [segs EXCEPT ![Len(segs)] = Append(@, token)]

RawSegments(path) == FoldLeft(Extended, << <<>> >>, path)

TextOf(seg) == FlattenSeq([i \in DOMAIN seg |-> seg[i].text])
IsDots(seg, dots) == TextOf(seg) = dots /\ seg[1].kind # "base64"
IsMarked(seg) == \E i \in DOMAIN seg : seg[i].kind = "marker"

Resolved(segs, seg) ==
  CASE IsDots(seg, <<".">>) -> segs
    [] IsDots(seg, <<".", ".">>) -> SubSeq(segs, 1, Len(segs) - 1)
    [] OTHER -> Append(segs, [name |-> TextOf(seg), marked |-> IsMarked(seg)])

Segments(path) == FoldLeft(Resolved, <<>>, Tail(RawSegments(path)))

Routed(path) ==
  LET segs == Segments(path)
      n == Len(segs) \div 2
      bad == \/ Len(segs) % 2 = 1
             \/ \E i \in DOMAIN segs : segs[i].name = <<>>
             \/ \E i \in 1..n : segs[2*i].marked
      later(i) == \E j \in i + 1..n : segs[2*j - 1].name = segs[2*i - 1].name
  IN IF bad THEN {}
     ELSE {<<segs[2*i - 1].name, segs[2*i].name>> : i \in {k \in 1..n : ~later(k)}}
=============================================================================

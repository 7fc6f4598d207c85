----------------------------- MODULE ExportProofs -----------------------------
(***************************************************************************)
(* Proofs about what leaves the program: the grouping key of a Pushgateway *)
(* client, its requests, and the summaries of intervals: their counts,     *)
(* their statistics and the labels a scraper reads back.                   *)
(***************************************************************************)
EXTENDS PushDelivery, Aggregation, SequenceLemmas, FiniteSetTheorems

(* GroupingKey: types, and the folds its operators are. *)

(* Types: tokens of a path, pieces the router reads, labels, and paths cut *)
(* into segments, of which there is one at least.                          *)
Tokens == [kind : {"raw", "percent", "marker", "base64"}, text : Seq(Characters)]
Pieces == [name : Seq(Characters), marked : BOOLEAN]
Labels == Seq(Characters) \X Seq(Characters)
SomeSegments == Seq(Seq(Tokens)) \ {<<>>}

(* Tokens of the kinds there are. *)
LEMMA TokenTypes ==
  /\ \A c \in Characters : Token("raw", <<c>>) \in Tokens /\ Token("percent", <<c>>) \in Tokens
  /\ \A text \in Seq(Characters) : Token("base64", text) \in Tokens
  /\ Token("marker", <<>>) \in Tokens /\ Separator \in Tokens
  /\ <<"j", "o", "b">> \in Seq(Characters)
  <1>1. {"j", "o", "b", "/"} \subseteq Characters
    BY CharactersAssumption DEF Unreserved, Letters
  <1>2. <<>> \in Seq(Characters) /\ \A c \in Characters : <<c>> \in Seq(Characters)
    BY ShortSequences
  <1>3. <<"j", "o", "b">> \in Seq(Characters)
    BY <1>1, ShortSequences
  <1>4. <<"/">> \in Seq(Characters)
    BY <1>1, <1>2
  <1>5. \A text \in Seq(Characters) :
          /\ Token("base64", text) \in Tokens /\ Token("marker", text) \in Tokens
          /\ Token("raw", text) \in Tokens /\ Token("percent", text) \in Tokens
    BY DEF Token, Tokens
  <1> QED BY <1>2, <1>3, <1>4, <1>5 DEF Separator

(* The router's operators have their types, and each fold of them is the   *)
(* fold of a function, which the lemmas on folds are about.                *)
LEMMA ExtendedType ==
  ASSUME NEW segs \in SomeSegments, NEW token \in Tokens
  PROVE  Extended(segs, token) \in SomeSegments
  <1>1. /\ Append(segs, <<>>) \in Seq(Seq(Tokens)) /\ Append(segs, <<>>) # <<>>
    BY AppendProperties DEF SomeSegments
  <1>2. Len(segs) \in 1..Len(segs) /\ segs[Len(segs)] \in Seq(Tokens) /\ segs \in Seq(Seq(Tokens))
    BY EmptySeq DEF SomeSegments
  <1>3. Append(segs[Len(segs)], token) \in Seq(Tokens)
    BY <1>2
  <1>4. [segs EXCEPT ![Len(segs)] = Append(@, token)] \in Seq(Seq(Tokens)) \ {<<>>}
    BY <1>2, <1>3, ExceptSeq DEF SomeSegments
  <1> QED BY <1>1, <1>4 DEF Extended, SomeSegments

(* Cutting a path at its slashes. *)
LEMMA RawSegmentsFold ==
  ASSUME NEW path \in Seq(Tokens)
  PROVE  /\ RawSegments(path) \in SomeSegments
         /\ Folded([p \in SomeSegments \X Tokens |-> Extended(p[1], p[2])],
                   << <<>> >>, path, RawSegments(path))
  <1> DEFINE base == << <<>> >>
             n == Len(path)
             F == [p \in SomeSegments \X Tokens |-> Extended(p[1], p[2])]
             Body(it) == [t \in SUBSET DOMAIN path |->
                            IF t = {} THEN base ELSE Extended(it[t \ {Max(t)}], path[Max(t)])]
             f == CHOOSE it : it = Body(it)
  <1>1. RawSegments(path) = f[DOMAIN path]
    BY Zenon DEF RawSegments, FoldLeft, MapThenFoldSet
  <1>2. base \in SomeSegments /\ F \in [SomeSegments \X Tokens -> SomeSegments]
    BY ExtendedType DEF SomeSegments
  <1>3. DOMAIN path = 1..n /\ n \in Nat /\ \A i \in 1..n : path[i] \in Tokens
    OBVIOUS
  <1>4. \A v \in SomeSegments, x \in Tokens : F[<<v, x>>] = Extended(v, x)
    OBVIOUS
  <1> HIDE DEF F, base
  <1>5. Iterable(F, base, path, SomeSegments, n)
    BY <1>2, IterationExists, Zenon
  <1>6. PICK h \in [SUBSET (1..n) -> SomeSegments] : Iterates(F, base, path, h, n)
    BY <1>5 DEF Iterable
  <1>7. \A t \in SUBSET (1..n) : t # {} => t \ {Max(t)} \in SUBSET (1..n) /\ path[Max(t)] \in Tokens
    BY <1>3, MaxInSet
  <1>8. h = Body(h)
    <2>1. \A t \in SUBSET (1..n) : t # {} =>
            F[<<h[t \ {Max(t)}], path[Max(t)]>>] = Extended(h[t \ {Max(t)}], path[Max(t)])
      BY <1>4, <1>6, <1>7
    <2> QED BY <1>3, <1>6, <2>1, Zenon DEF Iterates
  <1>9. f = Body(f)
    BY <1>8, Zenon
  <1> HIDE DEF f, n
  <1>10. \A t \in SUBSET (1..n) :
            f[t] = IF t = {} THEN base ELSE Extended(f[t \ {Max(t)}], path[Max(t)])
    BY <1>3, <1>9, Zenon
  <1>11. f[{}] = base
    BY <1>10
  <1>12. \A t \in SUBSET (1..n) : t # {} /\ f[t \ {Max(t)}] \in SomeSegments =>
            f[t] = F[<<f[t \ {Max(t)}], path[Max(t)]>>]
    BY <1>4, <1>7, <1>10
  <1>13. f[1..n] \in SomeSegments /\ Folded(F, base, path, f[1..n])
    <2>1. Follows(F, base, path, SomeSegments, f)
      BY <1>11, <1>12 DEF Follows, n
    <2> QED BY <1>2, <2>1, IterationRuns, Zenon DEF n
  <1> QED BY <1>1, <1>3, <1>13 DEF F, base

(* The text of a segment. *)
LEMMA TextType ==
  ASSUME NEW seg \in Seq(Tokens)
  PROVE  /\ [i \in DOMAIN seg |-> seg[i].text] \in Seq(Seq(Characters))
         /\ TextOf(seg) \in Seq(Characters)
  <1>1. [i \in DOMAIN seg |-> seg[i].text] \in Seq(Seq(Characters))
    <2>1. DOMAIN seg = 1..Len(seg) /\ Len(seg) \in Nat
      OBVIOUS
    <2>2. \A i \in 1..Len(seg) : seg[i].text \in Seq(Characters)
      <3> TAKE i \in 1..Len(seg)
      <3>1. seg[i] \in Tokens
        BY <2>1
      <3> QED BY <3>1 DEF Tokens
    <2> QED BY <2>1, <2>2, FunctionIsSeq
  <1>2. <<>> \in Seq(Characters)
    OBVIOUS
  <1> QED BY <1>1, <1>2, FlattenAppend, Zenon DEF TextOf

(* Dropping dot segments. *)
LEMMA ResolvedType ==
  ASSUME NEW segs \in Seq(Pieces), NEW seg \in Seq(Tokens)
  PROVE  Resolved(segs, seg) \in Seq(Pieces)
  <1>1. [name |-> TextOf(seg), marked |-> IsMarked(seg)] \in Pieces
    BY TextType DEF Pieces, IsMarked
  <1>2. Append(segs, [name |-> TextOf(seg), marked |-> IsMarked(seg)]) \in Seq(Pieces)
    BY <1>1
  <1>3. SubSeq(segs, 1, Len(segs) - 1) \in Seq(Pieces)
    BY SubSeqProperties
  <1> QED BY <1>2, <1>3 DEF Resolved

LEMMA ResolvedFold ==
  ASSUME NEW segs \in Seq(Seq(Tokens))
  PROVE  /\ FoldLeft(Resolved, <<>>, segs) \in Seq(Pieces)
         /\ Folded([p \in Seq(Pieces) \X Seq(Tokens) |-> Resolved(p[1], p[2])],
                   <<>>, segs, FoldLeft(Resolved, <<>>, segs))
  <1> DEFINE base == <<>>
             n == Len(segs)
             F == [p \in Seq(Pieces) \X Seq(Tokens) |-> Resolved(p[1], p[2])]
             Body(it) == [t \in SUBSET DOMAIN segs |->
                            IF t = {} THEN base ELSE Resolved(it[t \ {Max(t)}], segs[Max(t)])]
             f == CHOOSE it : it = Body(it)
  <1>1. FoldLeft(Resolved, <<>>, segs) = f[DOMAIN segs]
    BY Zenon DEF FoldLeft, MapThenFoldSet
  <1>2. base \in Seq(Pieces) /\ F \in [Seq(Pieces) \X Seq(Tokens) -> Seq(Pieces)]
    BY ResolvedType
  <1>3. DOMAIN segs = 1..n /\ n \in Nat /\ \A i \in 1..n : segs[i] \in Seq(Tokens)
    OBVIOUS
  <1>4. \A v \in Seq(Pieces), x \in Seq(Tokens) : F[<<v, x>>] = Resolved(v, x)
    OBVIOUS
  <1> HIDE DEF F, base
  <1>5. Iterable(F, base, segs, Seq(Pieces), n)
    BY <1>2, IterationExists, Zenon
  <1>6. PICK h \in [SUBSET (1..n) -> Seq(Pieces)] : Iterates(F, base, segs, h, n)
    BY <1>5 DEF Iterable
  <1>7. \A t \in SUBSET (1..n) : t # {} => t \ {Max(t)} \in SUBSET (1..n) /\ segs[Max(t)] \in Seq(Tokens)
    BY <1>3, MaxInSet
  <1>8. h = Body(h)
    <2>1. \A t \in SUBSET (1..n) : t # {} =>
            F[<<h[t \ {Max(t)}], segs[Max(t)]>>] = Resolved(h[t \ {Max(t)}], segs[Max(t)])
      BY <1>4, <1>6, <1>7
    <2> QED BY <1>3, <1>6, <2>1, Zenon DEF Iterates
  <1>9. f = Body(f)
    BY <1>8, Zenon
  <1> HIDE DEF f, n
  <1>10. \A t \in SUBSET (1..n) :
            f[t] = IF t = {} THEN base ELSE Resolved(f[t \ {Max(t)}], segs[Max(t)])
    BY <1>3, <1>9, Zenon
  <1>11. f[{}] = base
    BY <1>10
  <1>12. \A t \in SUBSET (1..n) : t # {} /\ f[t \ {Max(t)}] \in Seq(Pieces) =>
            f[t] = F[<<f[t \ {Max(t)}], segs[Max(t)]>>]
    BY <1>4, <1>7, <1>10
  <1>13. f[1..n] \in Seq(Pieces) /\ Folded(F, base, segs, f[1..n])
    <2>1. Follows(F, base, segs, Seq(Pieces), f)
      BY <1>11, <1>12 DEF Follows, n
    <2> QED BY <1>2, <2>1, IterationRuns, Zenon DEF n
  <1> QED BY <1>1, <1>3, <1>13 DEF F, base

(* The client's operators have their types. *)
LEMMA RawType ==
  ASSUME NEW name \in Seq(Characters)
  PROVE  Raw(name) \in Seq(Tokens) /\ Len(Raw(name)) = Len(name)
  <1>1. \A i \in 1..Len(name) : Token("raw", <<name[i]>>) \in Tokens
    BY TokenTypes
  <1>2. Raw(name) \in [1..Len(name) -> Tokens]
    BY <1>1 DEF Raw
  <1> QED BY <1>2, FunctionIsSeq

LEMMA BytesType ==
  ASSUME NEW value \in Seq(Characters)
  PROVE  [i \in DOMAIN value |-> EncodePathByte(value[i])] \in Seq(Tokens)
  <1>1. \A i \in 1..Len(value) : EncodePathByte(value[i]) \in Tokens
    <2> TAKE i \in 1..Len(value)
    <2>1. value[i] \in Characters
      OBVIOUS
    <2> QED BY <2>1, TokenTypes, Zenon DEF EncodePathByte
  <1>2. [i \in DOMAIN value |-> EncodePathByte(value[i])] \in [1..Len(value) -> Tokens]
    BY <1>1
  <1> QED BY <1>2, FunctionIsSeq

LEMMA EncodedType ==
  ASSUME NEW value \in Seq(Characters)
  PROVE  EncodedValue(value) \in Seq(Tokens)
  <1>1. <<Separator>> \o [i \in DOMAIN value |-> EncodePathByte(value[i])] \in Seq(Tokens)
    BY BytesType, TokenTypes, ShortSequences, ConcatType
  <1>2. <<Token("marker", <<>>), Separator, Token("base64", value)>> \in Seq(Tokens)
    BY TokenTypes, ShortSequences
  <1> QED BY <1>1, <1>2 DEF EncodedValue

LEMMA AppendPairType ==
  ASSUME NEW path \in Seq(Tokens), NEW name \in Seq(Characters), NEW value \in Seq(Characters)
  PROVE  AppendGroupingPair(path, name, value) \in Seq(Tokens)
  <1>1. Raw(name) \in Seq(Tokens) /\ EncodedValue(value) \in Seq(Tokens)
    BY RawType, EncodedType
  <1>2. <<Separator>> \in Seq(Tokens)
    BY TokenTypes, ShortSequences
  <1> QED BY <1>1, <1>2, ConcatType, Zenon DEF AppendGroupingPair

LEMMA AppendType ==
  ASSUME NEW job \in Seq(Characters)
  PROVE  /\ AppendGroupingPair(<<>>, <<"j", "o", "b">>, job) \in Seq(Tokens)
         /\ \A path \in Seq(Tokens), label \in Labels : AppendLabel(path, label) \in Seq(Tokens)
  <1>1. <<>> \in Seq(Tokens) /\ <<"j", "o", "b">> \in Seq(Characters)
    BY TokenTypes, ShortSequences
  <1>2. \A label \in Labels : label[1] \in Seq(Characters) /\ label[2] \in Seq(Characters)
    BY DEF Labels
  <1> QED BY <1>1, <1>2, AppendPairType, Zenon DEF AppendLabel

(* The path is built one label at a time. *)
LEMMA GroupingPathFold ==
  ASSUME NEW job \in Seq(Characters), NEW labels \in Seq(Labels)
  PROVE  /\ GroupingPath(job, labels) \in Seq(Tokens)
         /\ Folded([p \in Seq(Tokens) \X Labels |-> AppendLabel(p[1], p[2])],
                   AppendGroupingPair(<<>>, <<"j", "o", "b">>, job), labels,
                   GroupingPath(job, labels))
  <1> DEFINE base == AppendGroupingPair(<<>>, <<"j", "o", "b">>, job)
             n == Len(labels)
             F == [p \in Seq(Tokens) \X Labels |-> AppendLabel(p[1], p[2])]
             Body(it) == [t \in SUBSET DOMAIN labels |->
                            IF t = {} THEN base ELSE AppendLabel(it[t \ {Max(t)}], labels[Max(t)])]
             f == CHOOSE it : it = Body(it)
  <1>1. GroupingPath(job, labels) = f[DOMAIN labels]
    BY Zenon DEF GroupingPath, FoldLeft, MapThenFoldSet
  <1>2. base \in Seq(Tokens) /\ F \in [Seq(Tokens) \X Labels -> Seq(Tokens)]
    BY AppendType
  <1>3. DOMAIN labels = 1..n /\ n \in Nat /\ \A i \in 1..n : labels[i] \in Labels
    OBVIOUS
  <1>4. \A v \in Seq(Tokens), x \in Labels : F[<<v, x>>] = AppendLabel(v, x)
    OBVIOUS
  <1> HIDE DEF F, base
  <1>5. Iterable(F, base, labels, Seq(Tokens), n)
    BY <1>2, IterationExists, Zenon
  <1>6. PICK h \in [SUBSET (1..n) -> Seq(Tokens)] : Iterates(F, base, labels, h, n)
    BY <1>5 DEF Iterable
  <1>7. \A t \in SUBSET (1..n) : t # {} => t \ {Max(t)} \in SUBSET (1..n) /\ labels[Max(t)] \in Labels
    BY <1>3, MaxInSet
  <1>8. h = Body(h)
    <2>1. \A t \in SUBSET (1..n) : t # {} =>
            F[<<h[t \ {Max(t)}], labels[Max(t)]>>] = AppendLabel(h[t \ {Max(t)}], labels[Max(t)])
      BY <1>4, <1>6, <1>7
    <2> QED BY <1>3, <1>6, <2>1, Zenon DEF Iterates
  <1>9. f = Body(f)
    BY <1>8, Zenon
  <1> HIDE DEF f, n
  <1>10. \A t \in SUBSET (1..n) :
            f[t] = IF t = {} THEN base ELSE AppendLabel(f[t \ {Max(t)}], labels[Max(t)])
    BY <1>3, <1>9, Zenon
  <1>11. f[{}] = base
    BY <1>10
  <1>12. \A t \in SUBSET (1..n) : t # {} /\ f[t \ {Max(t)}] \in Seq(Tokens) =>
            f[t] = F[<<f[t \ {Max(t)}], labels[Max(t)]>>]
    BY <1>4, <1>7, <1>10
  <1>13. f[1..n] \in Seq(Tokens) /\ Folded(F, base, labels, f[1..n])
    <2>1. Follows(F, base, labels, Seq(Tokens), f)
      BY <1>11, <1>12 DEF Follows, n
    <2> QED BY <1>2, <2>1, IterationRuns, Zenon DEF n
  <1> QED BY <1>1, <1>3, <1>13 DEF F, base

-----------------------------------------------------------------------------
(* What the router reads. *)

(* A token that is no slash extends the last segment. *)
LEMMA ExtendedLast ==
  ASSUME NEW x \in Seq(Seq(Tokens)), NEW y \in Seq(Tokens), NEW token \in Tokens, ~IsSlash(token)
  PROVE  Extended(Append(x, y), token) = Append(x, Append(y, token))
  <1> DEFINE n == Len(Append(x, y))
             z == Append(y, token)
  <1>1. Append(x, y)[n] = y /\ n \in DOMAIN Append(x, y)
    BY AppendProperties
  <1>2. z \in Seq(Tokens)
    BY AppendProperties
  <1> HIDE DEF z
  <1>3. [Append(x, y) EXCEPT ![n] = z] = Append(x, z)
    BY <1>2, LastReplaced
  <1>4. Extended(Append(x, y), token) = [Append(x, y) EXCEPT ![n] = Append(Append(x, y)[n], token)]
    BY DEF Extended
  <1> QED BY <1>1, <1>3, <1>4 DEF z

(* An empty path is one empty segment. *)
LEMMA RawSegmentsEmpty == RawSegments(<<>>) = << <<>> >>
  <1>1. <<>> \in Seq(Tokens)
    BY ShortSequences
  <1>2. Folded([p \in SomeSegments \X Tokens |-> Extended(p[1], p[2])], << <<>> >>, <<>>, RawSegments(<<>>))
    BY <1>1, RawSegmentsFold
  <1> QED BY <1>2, FoldedEmpty, Zenon

(* One more token. *)
LEMMA RawSegmentsAppend ==
  ASSUME NEW path \in Seq(Tokens), NEW token \in Tokens
  PROVE  RawSegments(Append(path, token)) = Extended(RawSegments(path), token)
  <1> DEFINE F == [p \in SomeSegments \X Tokens |-> Extended(p[1], p[2])]
             v == RawSegments(path)
             w == RawSegments(Append(path, token))
  <1>1. Append(path, token) \in Seq(Tokens)
    OBVIOUS
  <1>2. v \in SomeSegments /\ Folded(F, << <<>> >>, path, v)
    BY RawSegmentsFold
  <1>3. Folded(F, << <<>> >>, Append(path, token), w)
    BY <1>1, RawSegmentsFold
  <1>4. F[<<v, token>>] = Extended(v, token)
    BY <1>2
  <1> HIDE DEF F, v, w
  <1>5. w = F[<<v, token>>]
    BY <1>2, <1>3, FoldedAppend
  <1> QED BY <1>4, <1>5 DEF v, w

(* A text without slashes, after the segments of a path. *)
Plain(text) == \A i \in DOMAIN text : ~IsSlash(text[i])

(* Appending a token to the second of two texts. *)
LEMMA TokenToConcat ==
  \A s, t \in Seq(Tokens), x \in Tokens :
    s \o t \in Seq(Tokens) /\ s \o Append(t, x) = Append(s \o t, x)
  BY AppendToConcat

(* A text extends the last segment. *)
LEMMA RawSegmentsText ==
  ASSUME NEW path \in Seq(Tokens), NEW x \in Seq(Seq(Tokens)), NEW y \in Seq(Tokens),
         RawSegments(path) = Append(x, y),
         NEW text \in Seq(Tokens), Plain(text)
  PROVE  RawSegments(path \o text) = Append(x, y \o text)
  <1> DEFINE Reads(s) == RawSegments(path \o s) = Append(x, y \o s)
      P == {n \in Nat : \A s \in Seq(Tokens) : Len(s) = n /\ Plain(s) => Reads(s)}
  <1>1. 0 \in P
    <2> SUFFICES ASSUME NEW s \in Seq(Tokens), Len(s) = 0 PROVE Reads(s)
      OBVIOUS
    <2>1. s = <<>> /\ path \o <<>> = path /\ y \o <<>> = y
      BY EmptySeq, ConcatEmptySeq
    <2> QED BY <2>1
  <1>2. ASSUME NEW n \in Nat, n \in P PROVE n + 1 \in P
    <2> SUFFICES ASSUME NEW s \in Seq(Tokens), Len(s) = n + 1, Plain(s) PROVE Reads(s)
      OBVIOUS
    <2>1. PICK u \in Seq(Tokens), token \in Tokens :
            /\ s = Append(u, token) /\ Len(u) = n /\ s[n + 1] = token
            /\ \A i \in 1..n : u[i] = s[i]
      BY SplitLast
    <2>2. Plain(u) /\ ~IsSlash(token)
      <3>1. DOMAIN s = 1..n+1 /\ DOMAIN u = 1..n /\ n + 1 \in 1..n+1
        BY <2>1
      <3>2. \A i \in 1..n : i \in 1..n+1
        OBVIOUS
      <3> QED BY <2>1, <3>1, <3>2 DEF Plain
    <2>3. Reads(u)
      BY <1>2, <2>1, <2>2
    <2>4. /\ path \o s = Append(path \o u, token) /\ path \o u \in Seq(Tokens)
          /\ y \o s = Append(y \o u, token) /\ y \o u \in Seq(Tokens)
      <3>1. s = Append(u, token)
        BY <2>1
      <3>2. path \o Append(u, token) = Append(path \o u, token) /\ path \o u \in Seq(Tokens)
        BY TokenToConcat
      <3>3. y \o Append(u, token) = Append(y \o u, token) /\ y \o u \in Seq(Tokens)
        BY TokenToConcat
      <3> QED BY <3>1, <3>2, <3>3, Zenon
    <2>5. RawSegments(path \o s) = Extended(RawSegments(path \o u), token)
      BY <2>4, RawSegmentsAppend
    <2>6. Extended(Append(x, y \o u), token) = Append(x, Append(y \o u, token))
      BY <2>2, <2>4, ExtendedLast, Zenon
    <2> QED BY <2>3, <2>4, <2>5, <2>6, Zenon
  <1> HIDE DEF P
  <1>3. Nat \subseteq P
    BY <1>1, <1>2, SetInduction
  <1> QED BY <1>3 DEF P

(* A separator and a text make one more segment. *)
LEMMA RawSegmentsNext ==
  ASSUME NEW path \in Seq(Tokens), NEW text \in Seq(Tokens), Plain(text)
  PROVE  /\ path \o <<Separator>> \in Seq(Tokens)
         /\ RawSegments((path \o <<Separator>>) \o text) = Append(RawSegments(path), text)
  <1>1. Separator \in Tokens /\ IsSlash(Separator)
    BY TokenTypes DEF Separator, Token, IsSlash
  <1>2. path \o <<Separator>> = Append(path, Separator) /\ path \o <<Separator>> \in Seq(Tokens)
    BY <1>1, AppendIsConcat
  <1>3. RawSegments(path \o <<Separator>>) = Append(RawSegments(path), <<>>)
    BY <1>1, <1>2, RawSegmentsAppend DEF Extended
  <1>4. RawSegments(path) \in Seq(Seq(Tokens))
    BY RawSegmentsFold DEF SomeSegments
  <1>5. <<>> \o text = text /\ <<>> \in Seq(Tokens)
    BY ConcatEmptySeq, ShortSequences
  <1>6. RawSegments((path \o <<Separator>>) \o text) = Append(RawSegments(path), <<>> \o text)
    BY <1>2, <1>3, <1>4, <1>5, RawSegmentsText
  <1> QED BY <1>2, <1>5, <1>6

(* The text of tokens that hold a character each, and of one more token.   *)
Spells(seg, text) ==
  Len(seg) = Len(text) /\ \A i \in 1..Len(text) : seg[i].text = <<text[i]>>

(* One more token, one more piece of text. *)
LEMMA TextAppend ==
  ASSUME NEW seg \in Seq(Tokens), NEW token \in Tokens
  PROVE  TextOf(Append(seg, token)) = TextOf(seg) \o token.text
  <1> DEFINE texts(s) == [i \in DOMAIN s |-> s[i].text]
             n == Len(seg)
             a == Append(seg, token)
             x == token.text
             u == Append(texts(seg), x)
  <1>1. /\ n \in Nat /\ DOMAIN seg = 1..n /\ a \in Seq(Tokens) /\ Len(a) = n + 1
        /\ DOMAIN a = 1..n+1 /\ a[n + 1] = token /\ \A i \in 1..n : a[i] = seg[i]
    BY AppendProperties
  <1>2. x \in Seq(Characters)
    BY DEF Tokens
  <1>3. /\ texts(seg) \in Seq(Seq(Characters)) /\ Len(texts(seg)) = n
        /\ \A i \in 1..n : texts(seg)[i] = seg[i].text
    <2>1. texts(seg) \in Seq(Seq(Characters))
      BY TextType
    <2>2. DOMAIN texts(seg) = 1..n /\ \A i \in 1..n : texts(seg)[i] = seg[i].text
      BY <1>1
    <2> HIDE DEF texts
    <2> QED BY <1>1, <2>1, <2>2, LenProperties
  <1>4. /\ texts(a) \in Seq(Seq(Characters)) /\ Len(texts(a)) = n + 1
        /\ \A i \in 1..n+1 : texts(a)[i] = a[i].text
    <2>1. texts(a) \in Seq(Seq(Characters))
      BY <1>1, TextType
    <2> HIDE DEF a
    <2> QED BY <1>1, <2>1
  <1>5. /\ u \in Seq(Seq(Characters)) /\ Len(u) = n + 1 /\ u[n + 1] = x
        /\ \A i \in 1..n : u[i] = texts(seg)[i]
    <2> HIDE DEF texts, x
    <2> QED BY <1>2, <1>3, AppendProperties
  <1>6. texts(a) = u
    <2>1. \A i \in 1..n+1 : i \in 1..n \/ i = n + 1
      BY <1>1
    <2>2. a[n + 1].text = x
      BY <1>1
    <2>3. \A i \in 1..n+1 : texts(a)[i] = u[i]
      <3> HIDE DEF texts, x, u, a
      <3> QED BY <1>1, <1>3, <1>4, <1>5, <2>1, <2>2
    <2> HIDE DEF texts, u
    <2> QED BY <1>4, <1>5, <2>3, SeqEqual
  <1>7. FlattenSeq(u) = FlattenSeq(texts(seg)) \o x
    <2> HIDE DEF texts, x
    <2> QED BY <1>2, <1>3, FlattenAppend
  <1>8. TextOf(a) = FlattenSeq(texts(a)) /\ TextOf(seg) = FlattenSeq(texts(seg))
    BY DEF TextOf
  <1> HIDE DEF a, x, u, texts
  <1> QED BY <1>6, <1>7, <1>8 DEF a, x

(* Tokens that hold a character each spell their text. *)
LEMMA TextSpelled ==
  ASSUME NEW seg \in Seq(Tokens), NEW text \in Seq(Characters), Spells(seg, text)
  PROVE  TextOf(seg) = text
  <1> DEFINE P == {n \in Nat : \A s \in Seq(Tokens), v \in Seq(Characters) :
                     Len(v) = n /\ Spells(s, v) => TextOf(s) = v}
  <1>1. 0 \in P
    <2> SUFFICES ASSUME NEW s \in Seq(Tokens), NEW v \in Seq(Characters), Len(v) = 0, Spells(s, v)
                 PROVE  TextOf(s) = v
      OBVIOUS
    <2>1. s = <<>> /\ v = <<>>
      BY EmptySeq DEF Spells
    <2>2. [i \in DOMAIN <<>> |-> <<>>[i].text] = <<>>
      OBVIOUS
    <2> QED BY <2>1, <2>2, FlattenEmpty DEF TextOf
  <1>2. ASSUME NEW n \in Nat, n \in P PROVE n + 1 \in P
    <2> SUFFICES ASSUME NEW s \in Seq(Tokens), NEW v \in Seq(Characters), Len(v) = n + 1, Spells(s, v)
                 PROVE  TextOf(s) = v
      OBVIOUS
    <2>0. Len(s) = n + 1 /\ s[n + 1].text = <<v[n + 1]>> /\ \A i \in 1..n : s[i].text = <<v[i]>>
      BY DEF Spells
    <2>1. PICK u \in Seq(Tokens), token \in Tokens :
            /\ s = Append(u, token) /\ Len(u) = n /\ s[n + 1] = token
            /\ \A i \in 1..n : u[i] = s[i]
      BY <2>0, SplitLast
    <2>2. PICK w \in Seq(Characters), c \in Characters :
            /\ v = Append(w, c) /\ Len(w) = n /\ v[n + 1] = c
            /\ \A i \in 1..n : w[i] = v[i]
      BY SplitLast
    <2>3. Spells(u, w)
      BY <2>0, <2>1, <2>2 DEF Spells
    <2>4. TextOf(u) = w
      BY <1>2, <2>2, <2>3
    <2>5. TextOf(s) = TextOf(u) \o token.text
      BY <2>1, TextAppend
    <2>6. token.text = <<c>>
      BY <2>0, <2>1, <2>2
    <2>7. Append(w, c) = w \o <<c>>
      BY AppendIsConcat
    <2> QED BY <2>2, <2>4, <2>5, <2>6, <2>7
  <1> HIDE DEF P
  <1>3. Nat \subseteq P
    BY <1>1, <1>2, SetInduction
  <1> QED BY <1>3 DEF P

(* The router goes on with one segment more. *)
LEMMA ResolvedAppend ==
  ASSUME NEW segs \in Seq(Seq(Tokens)), NEW seg \in Seq(Tokens)
  PROVE  FoldLeft(Resolved, <<>>, Append(segs, seg)) = Resolved(FoldLeft(Resolved, <<>>, segs), seg)
  <1> DEFINE F == [p \in Seq(Pieces) \X Seq(Tokens) |-> Resolved(p[1], p[2])]
             v == FoldLeft(Resolved, <<>>, segs)
             w == FoldLeft(Resolved, <<>>, Append(segs, seg))
  <1>1. Append(segs, seg) \in Seq(Seq(Tokens))
    BY AppendProperties
  <1>2. v \in Seq(Pieces) /\ Folded(F, <<>>, segs, v)
    BY ResolvedFold
  <1>3. Folded(F, <<>>, Append(segs, seg), w)
    BY <1>1, ResolvedFold
  <1>4. F[<<v, seg>>] = Resolved(v, seg)
    BY <1>2
  <1> HIDE DEF F, v, w
  <1>5. w = F[<<v, seg>>]
    BY <1>2, <1>3, FoldedAppend
  <1> QED BY <1>4, <1>5 DEF v, w

(* No path, no pieces. *)
LEMMA SegmentsEmpty == Segments(<<>>) = <<>>
  <1>1. Tail(<< <<>> >>) = <<>>
    OBVIOUS
  <1>2. Folded([p \in Seq(Pieces) \X Seq(Tokens) |-> Resolved(p[1], p[2])], <<>>, <<>>,
               FoldLeft(Resolved, <<>>, <<>>))
    <2>1. <<>> \in Seq(Seq(Tokens))
      BY ShortSequences
    <2> QED BY <2>1, ResolvedFold
  <1>3. FoldLeft(Resolved, <<>>, <<>>) = <<>>
    BY <1>2, FoldedEmpty, Zenon
  <1>4. Tail(RawSegments(<<>>)) = <<>>
    BY <1>1, RawSegmentsEmpty
  <1> QED BY <1>3, <1>4 DEF Segments

(* A separator and a text that is not a dot segment make one more piece.   *)
LEMMA SegmentsNext ==
  ASSUME NEW path \in Seq(Tokens), NEW text \in Seq(Tokens), Plain(text),
         NEW v \in Seq(Characters), TextOf(text) = v,
         v \in {<<".">>, <<".", ".">>} => text[1].kind = "base64"
  PROVE  Segments((path \o <<Separator>>) \o text) =
           Append(Segments(path), [name |-> v, marked |-> IsMarked(text)])
  <1>1. RawSegments((path \o <<Separator>>) \o text) = Append(RawSegments(path), text)
    BY RawSegmentsNext
  <1>2. RawSegments(path) \in Seq(Seq(Tokens)) /\ RawSegments(path) # <<>>
    BY RawSegmentsFold DEF SomeSegments
  <1>3. Tail(Append(RawSegments(path), text)) = Append(Tail(RawSegments(path)), text)
    BY <1>2, HeadTailAppend
  <1>4. Tail(RawSegments(path)) \in Seq(Seq(Tokens))
    BY <1>2, HeadTailProperties
  <1>5. Segments((path \o <<Separator>>) \o text) = Resolved(Segments(path), text)
    BY <1>1, <1>3, <1>4, ResolvedAppend DEF Segments
  <1>6. ~IsDots(text, <<".">>) /\ ~IsDots(text, <<".", ".">>)
    BY DEF IsDots
  <1> QED BY <1>5, <1>6 DEF Resolved

(* A name, or a value, that needs no base64, in single characters.         *)
LEMMA SpelledPlain ==
  ASSUME NEW v \in Seq(Characters), ~NeedsBase64(v), NEW seg \in Seq(Tokens), Spells(seg, v),
         \A i \in 1..Len(v) : seg[i].kind \in {"raw", "percent"}
  PROVE  /\ Plain(seg) /\ TextOf(seg) = v /\ ~IsMarked(seg)
         /\ v \notin {<<".">>, <<".", ".">>}
  <1>1. DOMAIN seg = 1..Len(v) /\ DOMAIN v = 1..Len(v)
    BY DEF Spells
  <1>2. \A i \in 1..Len(v) : v[i] # "/"
    BY <1>1 DEF NeedsBase64, Range
  <1>3. \A i \in 1..Len(v) : <<v[i]>> # <<"/">>
    BY <1>2
  <1>4. Plain(seg)
    BY <1>1, <1>3 DEF Plain, IsSlash, Spells
  <1>5. ~IsMarked(seg)
    BY <1>1 DEF IsMarked
  <1> QED BY <1>4, <1>5, TextSpelled DEF NeedsBase64

(* So are a name written as it is, and a value of percent-encoded bytes. *)
LEMMA RawPlain ==
  ASSUME NEW name \in Seq(Characters), ~NeedsBase64(name), NEW raw, raw = Raw(name)
  PROVE  /\ raw \in Seq(Tokens) /\ Plain(raw) /\ TextOf(raw) = name
         /\ ~IsMarked(raw) /\ name \notin {<<".">>, <<".", ".">>}
  <1>1. raw \in Seq(Tokens) /\ Len(raw) = Len(name)
    BY RawType
  <1>2. \A i \in 1..Len(name) : raw[i] = Token("raw", <<name[i]>>)
    BY DEF Raw
  <1>3. ASSUME NEW i \in 1..Len(name)
        PROVE  raw[i].text = <<name[i]>> /\ raw[i].kind = "raw"
    <2>1. raw[i] = Token("raw", <<name[i]>>)
      BY <1>2
    <2> QED BY <2>1 DEF Token
  <1>4. Spells(raw, name) /\ \A i \in 1..Len(name) : raw[i].kind \in {"raw", "percent"}
    BY <1>1, <1>3 DEF Spells
  <1> QED BY <1>1, <1>4, SpelledPlain, Zenon

LEMMA BytesPlain ==
  ASSUME NEW value \in Seq(Characters), ~NeedsBase64(value), NEW bytes,
         bytes = [i \in DOMAIN value |-> EncodePathByte(value[i])]
  PROVE  /\ bytes \in Seq(Tokens) /\ Plain(bytes) /\ TextOf(bytes) = value
         /\ ~IsMarked(bytes) /\ value \notin {<<".">>, <<".", ".">>}
  <1>1. bytes \in Seq(Tokens) /\ Len(bytes) = Len(value)
    BY BytesType
  <1>2. \A i \in 1..Len(value) : bytes[i] = EncodePathByte(value[i])
    OBVIOUS
  <1>3. Spells(bytes, value)
    BY <1>1, <1>2 DEF Spells, EncodePathByte, Token
  <1>4. \A i \in 1..Len(value) : bytes[i].kind \in {"raw", "percent"}
    BY <1>2 DEF EncodePathByte, Token
  <1> QED BY <1>1, <1>3, <1>4, SpelledPlain, Zenon

(* A pair of the path is read as its name and its value, whatever the      *)
(* value is. *)
LEMMA SegmentsPair ==
  ASSUME NEW path \in Seq(Tokens), NEW name \in Seq(Characters), ~NeedsBase64(name),
         NEW value \in Seq(Characters)
  PROVE  \E m \in BOOLEAN :
           Segments(AppendGroupingPair(path, name, value)) =
             Append(Append(Segments(path), [name |-> name, marked |-> m]),
                    [name |-> value, marked |-> FALSE])
  <1> DEFINE sep == <<Separator>>
             raw == Raw(name)
             q == (path \o sep) \o raw
  <1>0. /\ raw \in Seq(Tokens) /\ Plain(raw) /\ TextOf(raw) = name /\ ~IsMarked(raw)
        /\ name \notin {<<".">>, <<".", ".">>}
    BY RawPlain
  <1>1. sep \in Seq(Tokens)
    BY TokenTypes, ShortSequences
  <1>2. q \in Seq(Tokens) /\ path \o sep \in Seq(Tokens)
    BY <1>0, <1>1, ConcatType
  <1>3. AppendGroupingPair(path, name, value) = q \o EncodedValue(value)
    BY DEF AppendGroupingPair
  <1>4. CASE ~NeedsBase64(value)
    <2> DEFINE bytes == [i \in DOMAIN value |-> EncodePathByte(value[i])]
    <2>1. /\ bytes \in Seq(Tokens) /\ Plain(bytes) /\ TextOf(bytes) = value
          /\ ~IsMarked(bytes) /\ value \notin {<<".">>, <<".", ".">>}
      BY <1>4, BytesPlain
    <2>2. EncodedValue(value) = sep \o bytes
      BY <1>4 DEF EncodedValue
    <2> HIDE DEF bytes, raw, sep
    <2>3. q \o (sep \o bytes) = (q \o sep) \o bytes
      <3> HIDE DEF q
      <3> QED BY <1>1, <1>2, <2>1, Regrouped
    <2> HIDE DEF q
    <2>4. Segments((q \o sep) \o bytes) = Append(Segments(q), [name |-> value, marked |-> IsMarked(bytes)])
      BY <1>2, <2>1, SegmentsNext, Zenon DEF sep
    <2>5. Segments(q) = Append(Segments(path), [name |-> name, marked |-> IsMarked(raw)])
      BY <1>0, SegmentsNext, Zenon DEF q, sep
    <2>6. IsMarked(raw) = FALSE /\ IsMarked(bytes) = FALSE
      BY <1>0, <2>1, Zenon DEF IsMarked
    <2> QED BY <1>3, <2>2, <2>3, <2>4, <2>5, <2>6, Zenon
  <1>5. CASE NeedsBase64(value)
    <2> DEFINE marker == Token("marker", <<>>)
               b64 == Token("base64", value)
               text == Append(raw, marker)
    <2>1. marker \in Tokens /\ b64 \in Tokens /\ Separator \in Tokens
      BY TokenTypes
    <2>2. /\ marker.text = <<>> /\ b64.text = value /\ b64.kind = "base64" /\ marker.kind = "marker"
          /\ ~IsSlash(marker) /\ ~IsSlash(b64)
      BY DEF Token, IsSlash
    <2>3. EncodedValue(value) = <<marker, Separator, b64>>
      BY <1>5 DEF EncodedValue
    <2>4. <<marker, Separator, b64>> = <<marker>> \o (sep \o <<b64>>)
      OBVIOUS
    <2> HIDE DEF marker, b64, sep, raw
    <2>5. text \in Seq(Tokens) /\ Plain(text) /\ IsMarked(text)
      <3>1. /\ Len(raw) \in Nat /\ DOMAIN raw = 1..Len(raw) /\ text \in Seq(Tokens)
            /\ DOMAIN text = 1..Len(raw) + 1 /\ text[Len(raw) + 1] = marker
            /\ \A i \in 1..Len(raw) : text[i] = raw[i]
        BY <1>0, <2>1, AppendProperties, LenProperties
      <3> HIDE DEF text
      <3>2. \A i \in DOMAIN text : i \in 1..Len(raw) \/ i = Len(raw) + 1
        BY <3>1
      <3>3. Plain(text)
        BY <1>0, <2>2, <3>1, <3>2 DEF Plain
      <3>4. IsMarked(text)
        BY <2>2, <3>1 DEF IsMarked
      <3> QED BY <3>1, <3>3, <3>4
    <2>6. TextOf(text) = name
      <3>1. TextOf(text) = TextOf(raw) \o <<>>
        BY <1>0, <2>1, <2>2, TextAppend
      <3> QED BY <1>0, <3>1, ConcatEmptySeq
    <2>7. Segments((path \o sep) \o text) = Append(Segments(path), [name |-> name, marked |-> TRUE])
      <3>1. Segments((path \o sep) \o text) =
              Append(Segments(path), [name |-> name, marked |-> IsMarked(text)])
        <4> HIDE DEF text
        <4> QED BY <1>0, <2>5, <2>6, SegmentsNext, Zenon DEF sep
      <3>2. IsMarked(text) = TRUE
        BY <2>5, Zenon DEF IsMarked
      <3> QED BY <3>1, <3>2
    <2>8. <<b64>> \in Seq(Tokens) /\ Len(<<b64>>) = 1 /\ <<b64>>[1] = b64 /\ <<marker>> \in Seq(Tokens)
      BY <2>1, ShortSequences
    <2>9. /\ Plain(<<b64>>) /\ ~IsMarked(<<b64>>)
      BY <2>2 DEF Plain, IsMarked
    <2>10. TextOf(<<b64>>) = value
      <3>1. TextOf(<<>>) = <<>>
        <4>1. Spells(<<>>, <<>>) /\ <<>> \in Seq(Tokens) /\ <<>> \in Seq(Characters)
          BY ShortSequences DEF Spells
        <4> QED BY <4>1, TextSpelled
      <3>2. TextOf(Append(<<>>, b64)) = <<>> \o value
        BY <2>1, <2>2, <3>1, ShortSequences, TextAppend
      <3>3. Append(<<>>, b64) = <<b64>> /\ <<>> \o value = value
        BY ConcatEmptySeq
      <3> QED BY <3>2, <3>3
    <2> DEFINE q2 == (path \o sep) \o text
    <2>11. q2 \in Seq(Tokens)
      BY <1>2, <2>5, ConcatType
    <2>12. q \o (<<marker>> \o (sep \o <<b64>>)) = (q2 \o sep) \o <<b64>>
      <3>1. q2 = q \o <<marker>>
        BY <1>0, <1>2, <2>1, AppendToConcat, AppendIsConcat
      <3>2. q \o (<<marker>> \o (sep \o <<b64>>)) = (q \o <<marker>>) \o (sep \o <<b64>>)
        <4>1. sep \o <<b64>> \in Seq(Tokens)
          BY <1>1, <2>8, ConcatType
        <4> HIDE DEF q
        <4>2. (q \o <<marker>>) \o (sep \o <<b64>>) = q \o (<<marker>> \o (sep \o <<b64>>))
          BY ONLY <1>2, <2>8, <4>1, Regrouped
        <4> QED BY <4>2
      <3>3. q2 \o (sep \o <<b64>>) = (q2 \o sep) \o <<b64>>
        <4> HIDE DEF q2
        <4> QED BY <1>1, <2>8, <2>11, Regrouped
      <3> QED BY <3>1, <3>2, <3>3
    <2>13. Segments((q2 \o sep) \o <<b64>>) = Append(Segments(q2), [name |-> value, marked |-> FALSE])
      <3>1. Segments((q2 \o sep) \o <<b64>>) =
              Append(Segments(q2), [name |-> value, marked |-> IsMarked(<<b64>>)])
        <4> HIDE DEF q2
        <4> QED BY <2>2, <2>8, <2>9, <2>10, <2>11, SegmentsNext DEF sep
      <3>2. IsMarked(<<b64>>) = FALSE
        BY <2>9, Zenon DEF IsMarked
      <3> QED BY <3>1, <3>2
    <2> HIDE DEF q, text
    <2> QED BY <1>3, <2>3, <2>4, <2>7, <2>12, <2>13, Zenon
  <1> QED BY <1>4, <1>5

-----------------------------------------------------------------------------
(* GroupingKey: the path as a whole. *)

JobName == <<"j", "o", "b">>

(* The router reads the job first and then every label. *)
ReadAs(segs, job, labels) ==
  /\ segs \in Seq(Pieces) /\ Len(segs) = 2 * Len(labels) + 2
  /\ segs[1].name = JobName /\ segs[2].name = job /\ segs[2].marked = FALSE
  /\ \A i \in 1..Len(labels) : /\ segs[2 * i + 1].name = labels[i][1]
                               /\ segs[2 * i + 2].name = labels[i][2]
                               /\ segs[2 * i + 2].marked = FALSE

PlainNames(labels) == \A i \in 1..Len(labels) : ~NeedsBase64(labels[i][1])

(* It does so with the path of any job and any labels whose names are      *)
(* plain.                                                                  *)
LEMMA PathReads ==
  ASSUME NEW job \in Seq(Characters), NEW labels \in Seq(Labels), PlainNames(labels)
  PROVE  ReadAs(Segments(GroupingPath(job, labels)), job, labels)
  <1> DEFINE P == {n \in Nat : \A ls \in Seq(Labels) : Len(ls) = n /\ PlainNames(ls) =>
                     ReadAs(Segments(GroupingPath(job, ls)), job, ls)}
             F == [p \in Seq(Tokens) \X Labels |-> AppendLabel(p[1], p[2])]
             base == AppendGroupingPair(<<>>, <<"j", "o", "b">>, job)
  <1>0. \A ls \in Seq(Labels) : GroupingPath(job, ls) \in Seq(Tokens) /\ Folded(F, base, ls, GroupingPath(job, ls))
    BY GroupingPathFold
  <1>1. 0 \in P
    <2> SUFFICES ASSUME NEW ls \in Seq(Labels), Len(ls) = 0
                 PROVE  ReadAs(Segments(GroupingPath(job, ls)), job, ls)
      OBVIOUS
    <2>1. ls = <<>>
      BY EmptySeq
    <2>2. GroupingPath(job, ls) = base
      <3> HIDE DEF F, base
      <3> QED BY <1>0, <2>1, FoldedEmpty, Zenon
    <2>3. <<>> \in Seq(Tokens) /\ JobName \in Seq(Characters)
      BY TokenTypes, ShortSequences DEF JobName
    <2>4. ~NeedsBase64(JobName)
      BY DEF NeedsBase64, JobName, Range
    <2>5. PICK m \in BOOLEAN :
            Segments(AppendGroupingPair(<<>>, JobName, job)) =
              Append(Append(Segments(<<>>), [name |-> JobName, marked |-> m]),
                     [name |-> job, marked |-> FALSE])
      BY <2>3, <2>4, SegmentsPair, Zenon
    <2> DEFINE x == [name |-> JobName, marked |-> m]
               y == [name |-> job, marked |-> FALSE]
               t == Segments(base)
    <2>6. x \in Pieces /\ y \in Pieces /\ x.name = JobName /\ y.name = job /\ y.marked = FALSE
      BY <2>3 DEF Pieces
    <2>7. t = Append(Append(<<>>, x), y)
      BY <2>5, SegmentsEmpty DEF JobName
    <2>8. <<>> \in Seq(Pieces) /\ Len(<<>>) = 0
      BY ShortSequences
    <2> HIDE DEF x, y, t
    <2>9. t \in Seq(Pieces) /\ Len(t) = 2 /\ t[1] = x /\ t[2] = y
      <3>1. /\ t \in Seq(Pieces) /\ Len(t) = Len(<<>>) + 2
            /\ t[Len(<<>>) + 1] = x /\ t[Len(<<>>) + 2] = y
        BY ONLY <2>6, <2>7, <2>8, TwoMore
      <3> QED BY <3>1
    <2>10. ReadAs(t, job, ls)
      BY <2>6, <2>9 DEF ReadAs
    <2> QED BY <2>2, <2>10 DEF t
  <1>2. ASSUME NEW n \in Nat, n \in P PROVE n + 1 \in P
    <2> SUFFICES ASSUME NEW ls \in Seq(Labels), Len(ls) = n + 1, PlainNames(ls)
                 PROVE  ReadAs(Segments(GroupingPath(job, ls)), job, ls)
      OBVIOUS
    <2>1. PICK u \in Seq(Labels), l \in Labels :
            /\ ls = Append(u, l) /\ Len(u) = n /\ ls[n + 1] = l
            /\ \A i \in 1..n : u[i] = ls[i]
      BY SplitLast
    <2>2. PlainNames(u) /\ ~NeedsBase64(l[1])
      BY <2>1 DEF PlainNames
    <2> DEFINE path == GroupingPath(job, u)
               segs == Segments(path)
    <2>3. ReadAs(segs, job, u)
      BY <1>2, <2>1, <2>2
    <2>4. path \in Seq(Tokens)
      BY <1>0
    <2>5. GroupingPath(job, ls) = AppendLabel(path, l)
      <3>1. F[<<path, l>>] = AppendLabel(path, l)
        BY <2>4
      <3>2. Folded(F, base, u, path) /\ Folded(F, base, Append(u, l), GroupingPath(job, ls))
        BY <1>0, <2>1
      <3> HIDE DEF F, base, path
      <3>3. GroupingPath(job, ls) = F[<<path, l>>]
        BY <3>2, FoldedAppend
      <3> QED BY <3>1, <3>3
    <2>6. l[1] \in Seq(Characters) /\ l[2] \in Seq(Characters)
      BY DEF Labels
    <2>7. PICK m \in BOOLEAN :
            Segments(AppendGroupingPair(path, l[1], l[2])) =
              Append(Append(segs, [name |-> l[1], marked |-> m]), [name |-> l[2], marked |-> FALSE])
      <3> HIDE DEF path
      <3> QED BY <2>2, <2>4, <2>6, SegmentsPair, Zenon
    <2> DEFINE x == [name |-> l[1], marked |-> m]
               y == [name |-> l[2], marked |-> FALSE]
               t == Segments(GroupingPath(job, ls))
    <2>8. x \in Pieces /\ y \in Pieces /\ x.name = l[1] /\ y.name = l[2] /\ y.marked = FALSE
      BY <2>6 DEF Pieces
    <2>9. t = Append(Append(segs, x), y)
      BY <2>5, <2>7 DEF AppendLabel
    <2> HIDE DEF x, y, t, segs
    <2>10. segs \in Seq(Pieces) /\ Len(segs) = 2 * n + 2
      BY <2>1, <2>3 DEF ReadAs
    <2>11. /\ t \in Seq(Pieces) /\ Len(t) = Len(segs) + 2
           /\ t[Len(segs) + 1] = x /\ t[Len(segs) + 2] = y
           /\ \A i \in 1..Len(segs) : t[i] = segs[i]
      BY ONLY <2>8, <2>9, <2>10, TwoMore
    <2>12. t[1] = segs[1] /\ t[2] = segs[2]
      BY <2>10, <2>11
    <2>13. ASSUME NEW i \in 1..n
           PROVE  t[2*i + 1] = segs[2*i + 1] /\ t[2*i + 2] = segs[2*i + 2]
      BY <2>10, <2>11
    <2>14. t[2*(n+1) + 1] = x /\ t[2*(n+1) + 2] = y /\ Len(t) = 2*(n+1) + 2
      BY <2>10, <2>11
    <2>15. ASSUME NEW i \in 1..n+1
           PROVE  t[2*i + 1].name = ls[i][1] /\ t[2*i + 2].name = ls[i][2] /\ t[2*i + 2].marked = FALSE
      <3>1. CASE i = n + 1
        BY <2>1, <2>8, <2>14, <3>1
      <3>2. CASE i \in 1..n
        <4>1. ls[i] = u[i]
          BY <2>1, <3>2
        <4>2. /\ segs[2*i + 1].name = u[i][1] /\ segs[2*i + 2].name = u[i][2]
              /\ segs[2*i + 2].marked = FALSE
          BY <2>1, <2>3, <3>2 DEF ReadAs
        <4> QED BY <2>13, <3>2, <4>1, <4>2
      <3>3. i = n + 1 \/ i \in 1..n
        OBVIOUS
      <3> QED BY <3>1, <3>2, <3>3, Zenon
    <2>16. ReadAs(t, job, ls)
      BY <2>3, <2>11, <2>12, <2>14, <2>15 DEF ReadAs
    <2> QED BY <2>16 DEF t
  <1> HIDE DEF P
  <1>3. Nat \subseteq P
    BY <1>1, <1>2, SetInduction
  <1> QED BY <1>3 DEF P

(* The names of valid labels are. *)
LEMMA NamesArePlain ==
  ASSUME NEW labels \in Seq(Labels), ValidLabels(labels)
  PROVE  PlainNames(labels)
  <1> SUFFICES ASSUME NEW i \in 1..Len(labels) PROVE ~NeedsBase64(labels[i][1])
    BY DEF PlainNames
  <1> DEFINE name == labels[i][1]
  <1>1. i \in DOMAIN labels /\ labels[i] \in Labels
    OBVIOUS
  <1>2. name \in Seq(Characters)
    BY <1>1 DEF Labels
  <1>3. name # <<>> /\ Range(name) \subseteq Letters \cup Digits \cup {"_"}
    BY <1>1 DEF ValidLabels, ValidLabel, IsValidLabelName
  <1>4. "/" \notin Range(name) /\ "." \notin Range(name)
    BY <1>3 DEF Letters, Digits
  <1> HIDE DEF name
  <1>5. name[1] \in Range(name)
    <2>1. name # <<>>
      BY <1>3
    <2> QED BY <1>2, <2>1, HeadInRange
  <1>6. name \notin {<<".">>, <<".", ".">>}
    BY <1>4, <1>5
  <1> QED BY <1>4, <1>6 DEF NeedsBase64, name

(* The path of a pushgateway client is read as the job and the labels it   *)
(* was built from, however long they are and whatever characters they      *)
(* have: slashes, dots, nothing at all (append_grouping_pair and           *)
(* encode_path_segment of src/src/pushgateway.rs).                         *)
THEOREM RoutedToOwnGroup ==
  ASSUME NEW job \in Seq(Characters), job # <<>>, NEW labels \in Seq(Labels), ValidLabels(labels)
  PROVE  Routed(GroupingPath(job, labels)) = {<<<<"j", "o", "b">>, job>>} \cup Range(labels)
  <1> DEFINE segs == Segments(GroupingPath(job, labels))
             m == Len(labels)
             n == Len(segs) \div 2
             later(i) == \E j \in i + 1..n : segs[2*j - 1].name = segs[2*i - 1].name
             bad == \/ Len(segs) % 2 = 1
                    \/ \E i \in DOMAIN segs : segs[i].name = <<>>
                    \/ \E i \in 1..n : segs[2*i].marked
             pair(i) == <<segs[2*i - 1].name, segs[2*i].name>>
  <1>1. ReadAs(segs, job, labels)
    BY NamesArePlain, PathReads
  <1>2. m \in Nat /\ DOMAIN labels = 1..m
    OBVIOUS
  <1>3. \A i \in 1..m : labels[i] = <<labels[i][1], labels[i][2]>>
    <2> TAKE i \in 1..m
    <2>1. labels[i] \in Labels
      BY <1>2
    <2> QED BY <2>1 DEF Labels
  <1>4. \A i \in 1..m : labels[i][1] # <<>> /\ labels[i][1] # JobName /\ labels[i][2] # <<>>
    BY <1>2 DEF ValidLabels, ValidLabel, IsValidLabelName, IsReservedLabelName, JobName
  <1>5. \A i, j \in 1..m : i < j => labels[i][1] # labels[j][1]
    BY <1>2 DEF ValidLabels, RejectsDuplicates
  <1> HIDE DEF segs
  <1>6. Len(segs) = 2*m + 2 /\ n = m + 1 /\ Len(segs) % 2 = 0 /\ DOMAIN segs = 1..2*m+2
    BY <1>1, <1>2 DEF ReadAs
  <1> HIDE DEF n, m
  <1>7. segs[1].name = JobName /\ segs[2].name = job /\ segs[2].marked = FALSE
    BY <1>1 DEF ReadAs
  <1>8. ASSUME NEW i \in 1..m
        PROVE  /\ segs[2*(i+1) - 1].name = labels[i][1] /\ segs[2*(i+1)].name = labels[i][2]
               /\ segs[2*(i+1)].marked = FALSE
    <2>1. 2*(i+1) - 1 = 2*i + 1 /\ 2*(i+1) = 2*i + 2
      BY <1>2
    <2> QED BY <1>1, <2>1 DEF ReadAs, m
  <1>9. \A k \in 1..n : k = 1 \/ \E i \in 1..m : k = i + 1
    <2> TAKE k \in 1..n
    <2>1. k = 1 \/ (k - 1 \in 1..m /\ k = (k - 1) + 1)
      BY <1>2, <1>6
    <2> QED BY <2>1
  <1>10. JobName # <<>>
    BY DEF JobName
  <1>11. ~bad
    <2>1. ASSUME NEW k \in 1..n
          PROVE  /\ segs[2*k - 1].name # <<>> /\ segs[2*k].name # <<>> /\ segs[2*k].marked = FALSE
      <3>1. CASE k = 1
        BY <1>7, <1>10, <3>1
      <3>2. ASSUME NEW i \in 1..m, k = i + 1
            PROVE  /\ segs[2*k - 1].name # <<>> /\ segs[2*k].name # <<>> /\ segs[2*k].marked = FALSE
        BY <1>4, <1>8, <3>2
      <3> QED BY <1>9, <3>1, <3>2
    <2>2. ASSUME NEW i \in DOMAIN segs PROVE \E k \in 1..n : i = 2*k - 1 \/ i = 2*k
      <3>1. i \in 1..2*m+2
        BY <1>6
      <3>2. (i + 1) \div 2 \in 1..m+1
        BY <1>2, <3>1
      <3>3. i = 2*((i + 1) \div 2) - 1 \/ i = 2*((i + 1) \div 2)
        BY <1>2, <3>1
      <3> QED BY <1>6, <3>2, <3>3
    <2>3. \A i \in DOMAIN segs : segs[i].name # <<>>
      BY <2>1, <2>2
    <2>4. \A i \in 1..n : ~segs[2*i].marked
      BY <2>1
    <2> QED BY <1>6, <2>3, <2>4
  <1>12. \A k \in 1..n : ~later(k)
    <2> SUFFICES ASSUME NEW k \in 1..n, NEW j \in k + 1..n
                 PROVE  segs[2*j - 1].name # segs[2*k - 1].name
      OBVIOUS
    <2>1. PICK b \in 1..m : j = b + 1
      BY <1>2, <1>6, <1>9
    <2>2. segs[2*j - 1].name = labels[b][1]
      BY <1>8, <2>1
    <2>3. CASE k = 1
      BY <1>4, <1>7, <2>2, <2>3
    <2>4. ASSUME NEW a \in 1..m, k = a + 1 PROVE segs[2*j - 1].name # segs[2*k - 1].name
      <3>1. a < b
        BY <1>2, <2>1, <2>4
      <3>2. labels[a][1] # labels[b][1]
        BY <1>5, <3>1
      <3>3. segs[2*k - 1].name = labels[a][1]
        BY <1>8, <2>4
      <3> QED BY <2>2, <3>2, <3>3
    <2> QED BY <1>9, <2>3, <2>4
  <1>13. Routed(GroupingPath(job, labels)) = {pair(i) : i \in {k \in 1..n : ~later(k)}}
    BY <1>11, Zenon DEF Routed, segs, n
  <1>14. {k \in 1..n : ~later(k)} = 1..n
    BY <1>12
  <1>15. {pair(i) : i \in 1..n} = {<<JobName, job>>} \cup Range(labels)
    <2>1. pair(1) = <<JobName, job>>
      BY <1>7
    <2>2. \A i \in 1..m : pair(i + 1) = labels[i]
      BY <1>3, <1>8
    <2>3. 1 \in 1..n /\ \A i \in 1..m : i + 1 \in 1..n
      BY <1>2, <1>6
    <2> HIDE DEF pair
    <2>4. {pair(i) : i \in 1..n} = {pair(1)} \cup {labels[i] : i \in 1..m}
      BY <1>9, <2>2, <2>3
    <2>5. Range(labels) = {labels[i] : i \in 1..m}
      BY <1>2 DEF Range
    <2> QED BY <2>1, <2>4, <2>5
  <1> QED BY <1>13, <1>14, <1>15 DEF JobName

-----------------------------------------------------------------------------
(* PushDelivery. *)

(* An operation is under way; the sink was accepted. *)
Pushing == {"request", "waiting", "sleeping"}
Started(s) == pc[s] \notin {"new", "rejected"}

(* A sink that was accepted has the url of its own group, and nothing was  *)
(* sent for one that was not. *)
UrlsOK ==
  \A s \in Sinks :
    /\ Started(s) => url[s] = Asked(s)
    /\ ~Started(s) => acked[s] = 0 /\ (\A r \in wire : r.sink # s) /\ (\A g \in groups : g.sink # s)

GroupsOK == \A g \in groups : g.sink \in Sinks /\ g.key = Asked(g.sink)

(* An attempt is one of those the configuration allows, and a worker that  *)
(* sleeps has one left. *)
AttemptsOK ==
  \A s \in Sinks :
    /\ pc[s] # "panic"
    /\ pc[s] \in Pushing => op[s] \in 1..Deletion /\ attempt[s] <= cfg[s].retries
    /\ pc[s] = "sleeping" => attempt[s] < cfg[s].retries

(* The inductive invariant. *)
DeliveryInv == TypeOK /\ UrlsOK /\ GroupsOK /\ AttemptsOK /\ FreshUnlessLate

(* A validated configuration has the group of its own job and labels. *)
LEMMA ConfigType ==
  ASSUME NEW c \in AllConfigs
  PROVE  /\ c.job \in Seq(Characters) /\ c.labels \in Seq(Labels) /\ c.retries \in Nat
         /\ Validated(c) => GroupingUrl[c] = {<<<<"j", "o", "b">>, c.job>>} \cup Range(c.labels)
         /\ {<<<<"j", "o", "b">>, c.job>>} \cup Range(c.labels) \in SUBSET Labels
  <1>1. c.job \in Seq(Characters) /\ c.labels \in Seq(Labels) /\ c.retries \in Nat
    BY ConfigsAssumption DEF Labels
  <1>2. GroupingUrl[c] = Routed(GroupingPath(c.job, c.labels))
    BY DEF GroupingUrl
  <1>3. Validated(c) => Routed(GroupingPath(c.job, c.labels)) = {<<<<"j", "o", "b">>, c.job>>} \cup Range(c.labels)
    BY <1>1, RoutedToOwnGroup, Zenon DEF Validated, ValidJob
  <1>4. Range(c.labels) \subseteq Labels
    <2>1. DOMAIN c.labels = 1..Len(c.labels) /\ \A i \in 1..Len(c.labels) : c.labels[i] \in Labels
      BY <1>1
    <2> QED BY <2>1 DEF Range
  <1>5. <<<<"j", "o", "b">>, c.job>> \in Labels
    BY <1>1, TokenTypes DEF Labels
  <1> QED BY <1>1, <1>2, <1>3, <1>4, <1>5

LEMMA AskedType ==
  ASSUME TypeOK, NEW s \in Sinks
  PROVE  /\ Asked(s) \in SUBSET Labels /\ Asked(s) # {} /\ cfg[s].retries \in Nat
         /\ Validated(cfg[s]) => GroupingUrl[cfg[s]] = Asked(s)
  <1>1. cfg[s] \in AllConfigs
    BY DEF TypeOK
  <1>2. Asked(s) # {}
    BY DEF Asked
  <1> QED BY <1>1, <1>2, ConfigType DEF Asked

(* Operations are the samples and then the deletion. *)
LEMMA DeletionType == Deletion \in Nat /\ MaxSamples \in Nat /\ Deletion = MaxSamples + 1
  BY BoundsAssumption DEF Deletion

(* It holds at first. *)
LEMMA DeliveryInitInv == Init => DeliveryInv
  <1> SUFFICES ASSUME Init PROVE DeliveryInv
    OBVIOUS
  <1>1. cfg \in [Sinks -> AllConfigs]
    BY DEF Init
  <1>2. TypeOK
    BY <1>1, DeletionType DEF Init, TypeOK
  <1>3. UrlsOK /\ GroupsOK /\ AttemptsOK
    BY DEF Init, UrlsOK, GroupsOK, AttemptsOK, Started, Pushing
  <1>4. FreshUnlessLate
    BY DEF Init, FreshUnlessLate
  <1> QED BY <1>2, <1>3, <1>4 DEF DeliveryInv

(* A move of one sink. *)
Places == {"new", "idle", "request", "waiting", "sleeping", "panic", "rejected", "ended"}
LEMMA GotoType ==
  ASSUME TypeOK, NEW s \in Sinks, NEW from, NEW to \in Places, Goto(s, from, to)
  PROVE  /\ pc[s] = from /\ pc'[s] = to /\ \A t \in Sinks \ {s} : pc'[t] = pc[t]
         /\ pc' \in [Sinks -> Places]
  <1>1. pc \in [Sinks -> Places]
    BY DEF TypeOK, Places
  <1> HIDE DEF Places
  <1> QED BY <1>1 DEF Goto

(* What was asked for stays, and so does who shares a group. *)
LEMMA AskedSame ==
  ASSUME cfg' = cfg
  PROVE  /\ \A s : Asked(s)' = Asked(s)
         /\ \A s : Shared(s)' <=> Shared(s)
         /\ Deletion' = Deletion
  BY DEF Asked, Shared

(* A step of the worker of one sink that leaves the gateway as it is.      *)
LEMMA QuietStep ==
  ASSUME DeliveryInv, NEW s \in Sinks, UNCHANGED <<cfg, url, groups, acked, late>>,
         \A t \in Sinks \ {s} : pc'[t] = pc[t] /\ op'[t] = op[t] /\ attempt'[t] = attempt[t],
         Started(s), pc'[s] \notin {"new", "rejected"},
         \A r \in wire' : r \in wire \/ r.sink = s,
         TypeOK',
         pc'[s] # "panic",
         pc'[s] \in Pushing => op'[s] \in 1..Deletion /\ attempt'[s] <= cfg[s].retries,
         pc'[s] = "sleeping" => attempt'[s] < cfg[s].retries
  PROVE  DeliveryInv'
  <1>1. UrlsOK'
    BY AskedSame DEF DeliveryInv, UrlsOK, Started
  <1>2. GroupsOK'
    BY AskedSame DEF DeliveryInv, GroupsOK
  <1>3. AttemptsOK'
    BY DEF DeliveryInv, AttemptsOK
  <1>4. FreshUnlessLate'
    BY AskedSame DEF DeliveryInv, FreshUnlessLate
  <1> QED BY <1>1, <1>2, <1>3, <1>4 DEF DeliveryInv

(* A request of a started sink changes its own group only. *)
LEMMA AppliedOps ==
  ASSUME DeliveryInv, NEW r, r.sink \in Sinks, r.op \in 1..Deletion, Started(r.sink)
  PROVE  /\ \A g \in Applied(r) : g.sink \in Sinks /\ g.key = Asked(g.sink)
         /\ \A g \in Applied(r) : g \in groups \/ g.sink = r.sink
         /\ ~Shared(r.sink) =>
              {g.op : g \in {h \in Applied(r) : h.sink = r.sink}} = {r.op} \ {0, Deletion}
         /\ \A t \in Sinks : t # r.sink /\ ~Shared(t) =>
              {h \in Applied(r) : h.sink = t} = {h \in groups : h.sink = t}
  <1> DEFINE k == Asked(r.sink)
             others == {g \in groups : g.key # k}
             new == [key |-> k, sink |-> r.sink, op |-> r.op]
  <1>1. k # {} /\ url[r.sink] = k
    BY AskedType DEF DeliveryInv, UrlsOK
  <1>2. Applied(r) = IF r.op = Deletion THEN others ELSE others \cup {new}
    BY <1>1 DEF Applied
  <1>3. \A g \in groups : g.sink \in Sinks /\ g.key = Asked(g.sink)
    BY DEF DeliveryInv, GroupsOK
  <1>4. new.sink = r.sink /\ new.key = k /\ new.op = r.op
    OBVIOUS
  <1> HIDE DEF new, k
  <1>5. \A g \in Applied(r) : g \in others \/ g = new
    BY <1>2
  <1>6. \A g \in others : g \in groups /\ g.key # k /\ g.sink # r.sink
    BY <1>3 DEF k
  <1>7. \A g \in Applied(r) : g.sink \in Sinks /\ g.key = Asked(g.sink)
    BY <1>3, <1>4, <1>5, <1>6 DEF k
  <1>8. \A g \in Applied(r) : g \in groups \/ g.sink = r.sink
    BY <1>4, <1>5, <1>6
  <1>9. {g.op : g \in {h \in Applied(r) : h.sink = r.sink}} = {r.op} \ {0, Deletion}
    <2>1. r.op \in Nat \ {0}
      BY DeletionType
    <2>2. CASE r.op = Deletion
      BY <1>2, <1>6, <2>2
    <2>3. CASE r.op # Deletion
      <3>1. {h \in Applied(r) : h.sink = r.sink} = {new}
        BY <1>2, <1>4, <1>6, <2>3
      <3> QED BY <1>4, <2>1, <2>3, <3>1
    <2> QED BY <2>2, <2>3
  <1>10. ASSUME NEW t \in Sinks, t # r.sink, ~Shared(t)
         PROVE  {h \in Applied(r) : h.sink = t} = {h \in groups : h.sink = t}
    <2>1. Asked(t) # k
      BY <1>10 DEF Shared, k
    <2>2. \A h \in groups : h.sink = t => h \in others
      BY <1>3, <2>1
    <2> QED BY <1>2, <1>4, <1>6, <1>10, <2>2
  <1> QED BY <1>7, <1>8, <1>9, <1>10

(* A sink is made, and an operation begins and sends its request. *)
LEMMA NewStep ==
  ASSUME DeliveryInv, NEW s \in Sinks, New(s)
  PROVE  DeliveryInv'
  <1> USE DEF Goto
  <1>1. TypeOK'
    BY AskedType DEF DeliveryInv, TypeOK, New, Labels
  <1>2. UrlsOK'
    <2> SUFFICES ASSUME NEW t \in Sinks
                 PROVE /\ Started(t)' => url'[t] = Asked(t)
                       /\ ~Started(t)' => /\ acked'[t] = 0
                                          /\ (\A r \in wire' : r.sink # t) /\ (\A g \in groups' : g.sink # t)
      BY AskedSame DEF UrlsOK, New
    <2>1. CASE Validated(cfg[s])
      <3>1. GroupingUrl[cfg[s]] = Asked(s)
        BY <2>1, AskedType DEF DeliveryInv
      <3> QED BY <2>1, <3>1 DEF DeliveryInv, UrlsOK, TypeOK, New, Started
    <2>2. CASE ~Validated(cfg[s])
      BY <2>2 DEF DeliveryInv, UrlsOK, TypeOK, New, Started
    <2> QED BY <2>1, <2>2
  <1>3. GroupsOK'
    BY AskedSame DEF DeliveryInv, GroupsOK, New
  <1>4. AttemptsOK'
    BY DEF DeliveryInv, AttemptsOK, TypeOK, New, Pushing
  <1>5. FreshUnlessLate'
    BY AskedSame DEF DeliveryInv, FreshUnlessLate, New
  <1> QED BY <1>1, <1>2, <1>3, <1>4, <1>5 DEF DeliveryInv

LEMMA BeginStep ==
  ASSUME DeliveryInv, NEW s \in Sinks, NEW o \in 1..Deletion, Begin(s, o)
  PROVE  DeliveryInv'
  <1>0. TypeOK /\ "request" \in Places
    BY DEF DeliveryInv, Places
  <1>1. /\ pc[s] = "idle" /\ cfg[s].retries \in Nat /\ pc'[s] = "request"
        /\ pc' \in [Sinks -> Places] /\ \A t \in Sinks \ {s} : pc'[t] = pc[t]
    BY <1>0, AskedType, GotoType DEF Begin
  <1>2. TypeOK'
    <2>1. op' \in [Sinks -> 0..Deletion] /\ attempt' \in [Sinks -> Nat]
      BY <1>0, DeletionType DEF TypeOK, Begin
    <2>2. UNCHANGED <<cfg, url, ended, wire, groups, acked, late>>
      BY DEF Begin
    <2> QED BY <1>0, <1>1, <2>1, <2>2, DeletionType DEF TypeOK, Places
  <1>3. /\ op'[s] = o /\ attempt'[s] = 0
        /\ \A t \in Sinks \ {s} : pc'[t] = pc[t] /\ op'[t] = op[t] /\ attempt'[t] = attempt[t]
    BY <1>1 DEF DeliveryInv, TypeOK, Begin
  <1> QED BY <1>1, <1>2, <1>3, QuietStep DEF Begin, Started

LEMMA SendStep ==
  ASSUME DeliveryInv, NEW s \in Sinks, Send(s)
  PROVE  DeliveryInv'
  <1>0. TypeOK /\ "waiting" \in Places /\ cfg[s].retries \in Nat
    BY AskedType DEF DeliveryInv, Places
  <1>1. /\ pc[s] = "request" /\ pc'[s] = "waiting"
        /\ pc' \in [Sinks -> Places] /\ \A t \in Sinks \ {s} : pc'[t] = pc[t]
    BY <1>0, GotoType DEF Send
  <1>2. op[s] \in 1..Deletion /\ attempt[s] <= cfg[s].retries
    BY <1>1 DEF DeliveryInv, AttemptsOK, Pushing
  <1>3. Request(s) \in [sink : Sinks, op : 1..Deletion, attempt : Nat] /\ Request(s).sink = s
    BY <1>0, <1>2 DEF TypeOK, Request
  <1>4. TypeOK'
    BY <1>0, <1>1, <1>3 DEF TypeOK, Send, client, Places
  <1>5. \A r \in wire' : r \in wire \/ r.sink = s
    BY <1>3 DEF Send
  <1> QED BY <1>1, <1>2, <1>4, <1>5, QuietStep DEF Started, Send, client

(* The worker leaves the wait for an answer, with what was sent or less.   *)
LEMMA LeaveStep ==
  ASSUME DeliveryInv, NEW s \in Sinks, NEW to \in {"sleeping", "idle"}, Goto(s, "waiting", to),
         to = "sleeping" => attempt[s] < cfg[s].retries,
         UNCHANGED <<client, attempt, groups, acked, late>>, wire' \subseteq wire
  PROVE  DeliveryInv'
  <1>0. TypeOK /\ to \in Places /\ cfg[s].retries \in Nat /\ attempt[s] \in Nat
    BY AskedType DEF DeliveryInv, Places, TypeOK
  <1>1. /\ pc[s] = "waiting" /\ pc'[s] = to
        /\ pc' \in [Sinks -> Places] /\ \A t \in Sinks \ {s} : pc'[t] = pc[t]
    BY <1>0, GotoType
  <1>2. op[s] \in 1..Deletion /\ attempt[s] <= cfg[s].retries
    BY <1>1 DEF DeliveryInv, AttemptsOK, Pushing
  <1>4. TypeOK'
    BY <1>0, <1>1 DEF TypeOK, client, Places
  <1> QED BY <1>1, <1>2, <1>4, QuietStep DEF Started, client

(* Outcomes of a request: another attempt, or the next operation. *)
LEMMA RetryStep ==
  ASSUME DeliveryInv, NEW s \in Sinks, Retry(s), wire' \subseteq wire
  PROVE  DeliveryInv'
  <1>1. CASE MayRetry(s)
    BY <1>1, LeaveStep DEF Retry, MayRetry
  <1>2. CASE ~MayRetry(s)
    BY <1>2, LeaveStep DEF Retry
  <1> QED BY <1>1, <1>2

LEMMA SleepStep ==
  ASSUME DeliveryInv, NEW s \in Sinks, Sleep(s)
  PROVE  DeliveryInv'
  <1>0. TypeOK /\ cfg[s].retries \in Nat /\ attempt[s] \in Nat
    BY AskedType DEF DeliveryInv, TypeOK
  <1>1. pc[s] = "sleeping" /\ op[s] \in 1..Deletion /\ attempt[s] < cfg[s].retries
    BY DEF Sleep, Goto, DeliveryInv, AttemptsOK, Pushing
  <1>2. /\ pc'[s] = "request"
        /\ pc' \in [Sinks -> Places] /\ \A t \in Sinks \ {s} : pc'[t] = pc[t]
    <2>1. Goto(s, "sleeping", "request") /\ "request" \in Places
      BY <1>1 DEF Sleep, Places
    <2> QED BY <1>0, <2>1, GotoType
  <1>3. /\ attempt' \in [Sinks -> Nat] /\ attempt'[s] = attempt[s] + 1
        /\ \A t \in Sinks \ {s} : attempt'[t] = attempt[t]
    BY <1>0 DEF TypeOK, Sleep
  <1>4. TypeOK'
    BY <1>0, <1>2, <1>3 DEF TypeOK, Sleep, client, Places
  <1>5. attempt'[s] <= cfg[s].retries
    BY <1>0, <1>1, <1>3
  <1> QED BY <1>1, <1>2, <1>3, <1>4, <1>5, QuietStep DEF Started, Sleep, client

LEMMA EventsEndStep ==
  ASSUME DeliveryInv, NEW s \in Sinks, EventsEnd(s)
  PROVE  DeliveryInv'
  <1>1. CASE Begin(s, Deletion)
    BY <1>1, BeginStep, DeletionType
  <1>2. CASE Goto(s, "idle", "ended") /\ UNCHANGED <<client, attempt, wire, groups, acked, late>>
    <2>0. TypeOK /\ "ended" \in Places
      BY DEF DeliveryInv, Places
    <2>1. /\ pc[s] = "idle" /\ pc'[s] = "ended"
          /\ pc' \in [Sinks -> Places] /\ \A t \in Sinks \ {s} : pc'[t] = pc[t]
      BY <1>2, <2>0, GotoType
    <2>2. TypeOK'
      BY <1>2, <2>0, <2>1 DEF TypeOK, client, Places
    <2> QED BY <1>2, <2>1, <2>2, QuietStep DEF Started, Pushing, client
  <1> QED BY <1>1, <1>2 DEF EventsEnd

LEMMA SendFailsStep ==
  ASSUME DeliveryInv, NEW s \in Sinks, SendFails(s)
  PROVE  DeliveryInv'
  BY RetryStep DEF SendFails, GivenUp

(* A status that may change, or that may not. *)
LEMMA StatusStep ==
  ASSUME DeliveryInv, NEW s \in Sinks, RetryableStatus(s) \/ RefusedStatus(s)
  PROVE  DeliveryInv'
  <1>1. CASE RetryableStatus(s)
    BY <1>1, RetryStep DEF RetryableStatus, GivenUp
  <1>2. CASE RefusedStatus(s)
    <2>1. Goto(s, "waiting", "idle") /\ wire' \subseteq wire
      BY <1>2 DEF RefusedStatus
    <2> QED BY <1>2, <2>1, LeaveStep DEF RefusedStatus
  <1> QED BY <1>1, <1>2

(* Only the sink of the request has other operations in the gateway. *)
LEMMA FreshAfter ==
  ASSUME DeliveryInv, UNCHANGED cfg, NEW s \in Sinks,
         \A t \in Sinks \ {s} : late'[t] = late[t] /\ acked'[t] = acked[t],
         \A t \in Sinks \ {s} : ~Shared(t) =>
            {h \in groups' : h.sink = t} = {h \in groups : h.sink = t},
         ~late'[s] /\ ~Shared(s) =>
            {g.op : g \in {h \in groups' : h.sink = s}} = {acked'[s]} \ {0, Deletion}
  PROVE  FreshUnlessLate'
  <1> SUFFICES ASSUME NEW t \in Sinks, ~late'[t], ~Shared(t)
               PROVE  {g.op : g \in {h \in groups' : h.sink = t}} = {acked'[t]} \ {0, Deletion}
    BY AskedSame DEF FreshUnlessLate
  <1>1. CASE t = s
    BY <1>1
  <1>2. CASE t # s
    <2>1. {h \in groups' : h.sink = t} = {h \in groups : h.sink = t}
      BY <1>2
    <2>2. {g.op : g \in {h \in groups : h.sink = t}} = {acked[t]} \ {0, Deletion}
      BY <1>2 DEF DeliveryInv, FreshUnlessLate
    <2> QED BY <1>2, <2>1, <2>2
  <1> QED BY <1>1, <1>2

(* A request arrives in time, and one arrives late. *)
LEMMA SucceedsStep ==
  ASSUME DeliveryInv, NEW s \in Sinks, Succeeds(s)
  PROVE  DeliveryInv'
  <1>0. TypeOK /\ "idle" \in Places
    BY DEF DeliveryInv, Places
  <1>1. /\ pc[s] = "waiting" /\ pc'[s] = "idle"
        /\ pc' \in [Sinks -> Places] /\ \A t \in Sinks \ {s} : pc'[t] = pc[t]
    BY <1>0, GotoType DEF Succeeds
  <1>2. op[s] \in 1..Deletion
    BY <1>1 DEF DeliveryInv, AttemptsOK, Pushing
  <1> DEFINE r == Request(s)
  <1>3. r.sink = s /\ r.op = op[s] /\ Started(s) /\ groups' = Applied(r)
    BY <1>1 DEF Request, Started, Succeeds
  <1>4. /\ \A t \in Sinks \ {s} : acked'[t] = acked[t]
        /\ acked'[s] = op[s] /\ acked' \in [Sinks -> 0..Deletion]
    BY <1>0, <1>2, DeletionType DEF TypeOK, Succeeds
  <1>5. TypeOK'
    BY <1>0, <1>1, <1>4 DEF TypeOK, Succeeds, client, Places
  <1> HIDE DEF r
  <1>6. /\ \A g \in groups' : g.sink \in Sinks /\ g.key = Asked(g.sink)
        /\ \A g \in groups' : g \in groups \/ g.sink = s
        /\ ~Shared(s) => {g.op : g \in {h \in groups' : h.sink = s}} = {op[s]} \ {0, Deletion}
        /\ \A t \in Sinks : t # s /\ ~Shared(t) =>
             {h \in groups' : h.sink = t} = {h \in groups : h.sink = t}
    BY <1>2, <1>3, AppliedOps
  <1>7. cfg' = cfg /\ url' = url /\ late' = late /\ wire' \subseteq wire /\ attempt' = attempt /\ op' = op
    BY DEF Succeeds, client
  <1>8. UrlsOK'
    BY <1>1, <1>4, <1>6, <1>7, AskedSame DEF DeliveryInv, UrlsOK, Started
  <1>9. GroupsOK'
    BY <1>6, <1>7, AskedSame DEF GroupsOK
  <1>10. AttemptsOK'
    BY <1>1, <1>7 DEF DeliveryInv, AttemptsOK, Pushing
  <1>11. FreshUnlessLate'
    BY <1>4, <1>6, <1>7, FreshAfter
  <1> QED BY <1>5, <1>8, <1>9, <1>10, <1>11 DEF DeliveryInv

LEMMA LateStep ==
  ASSUME DeliveryInv, ApplyLate
  PROVE  DeliveryInv'
  <1>0. TypeOK
    BY DEF DeliveryInv
  <1>1. PICK r \in wire : /\ \/ groups' = Applied(r) /\ late' = [late EXCEPT ![r.sink] = TRUE]
                             \/ UNCHANGED <<groups, late>>
                          /\ wire' = wire \ {r} /\ UNCHANGED <<client, pc, attempt, acked>>
    BY DEF ApplyLate
  <1>2. r.sink \in Sinks /\ r.op \in 1..Deletion
    BY <1>0 DEF TypeOK
  <1>3. Started(r.sink)
    BY <1>2 DEF DeliveryInv, UrlsOK
  <1>4. TypeOK'
    BY <1>0, <1>1 DEF TypeOK, client
  <1>5. AttemptsOK'
    BY <1>1 DEF DeliveryInv, AttemptsOK, client
  <1>6. CASE UNCHANGED <<groups, late>>
    <2>1. UrlsOK'
      BY <1>1, <1>6, AskedSame DEF DeliveryInv, UrlsOK, Started, client
    <2>2. GroupsOK'
      BY <1>1, <1>6, AskedSame DEF DeliveryInv, GroupsOK, client
    <2>3. FreshUnlessLate'
      BY <1>1, <1>6, AskedSame DEF DeliveryInv, FreshUnlessLate, client
    <2> QED BY <1>4, <1>5, <2>1, <2>2, <2>3 DEF DeliveryInv
  <1>7. CASE groups' = Applied(r) /\ late' = [late EXCEPT ![r.sink] = TRUE]
    <2>1. /\ \A g \in groups' : g.sink \in Sinks /\ g.key = Asked(g.sink)
          /\ \A g \in groups' : g \in groups \/ g.sink = r.sink
          /\ \A t \in Sinks : t # r.sink /\ ~Shared(t) =>
               {h \in groups' : h.sink = t} = {h \in groups : h.sink = t}
      BY <1>2, <1>3, <1>7, AppliedOps
    <2>2. late'[r.sink] /\ \A t \in Sinks \ {r.sink} : late'[t] = late[t]
      BY <1>0, <1>2, <1>7 DEF TypeOK
    <2>3. cfg' = cfg /\ url' = url /\ acked' = acked /\ wire' \subseteq wire /\ pc' = pc
      BY <1>1 DEF client
    <2>4. UrlsOK'
      BY <1>3, <2>1, <2>3, AskedSame DEF DeliveryInv, UrlsOK, Started
    <2>5. GroupsOK'
      BY <2>1, <2>3, AskedSame DEF GroupsOK
    <2>6. FreshUnlessLate'
      BY <1>2, <2>1, <2>2, <2>3, FreshAfter
    <2> QED BY <1>4, <1>5, <2>4, <2>5, <2>6 DEF DeliveryInv
  <1> QED BY <1>1, <1>6, <1>7

(* The run ends. *)
LEMMA EndRunStep ==
  ASSUME DeliveryInv, NEW s \in Sinks, EndRun(s)
  PROVE  DeliveryInv'
  <1>1. TypeOK'
    BY DEF DeliveryInv, TypeOK, EndRun
  <1>2. UrlsOK'
    BY AskedSame DEF DeliveryInv, UrlsOK, Started, EndRun
  <1>3. GroupsOK'
    BY AskedSame DEF DeliveryInv, GroupsOK, EndRun
  <1>4. AttemptsOK'
    BY DEF DeliveryInv, AttemptsOK, EndRun
  <1>5. FreshUnlessLate'
    BY AskedSame DEF DeliveryInv, FreshUnlessLate, EndRun
  <1> QED BY <1>1, <1>2, <1>3, <1>4, <1>5 DEF DeliveryInv

LEMMA StutterStep ==
  ASSUME DeliveryInv, UNCHANGED vars
  PROVE  DeliveryInv'
  <1> USE DEF vars, client
  <1>1. TypeOK'
    BY DEF DeliveryInv, TypeOK
  <1>2. UrlsOK'
    BY AskedSame DEF DeliveryInv, UrlsOK, Started
  <1>3. GroupsOK'
    BY AskedSame DEF DeliveryInv, GroupsOK
  <1>4. AttemptsOK'
    BY DEF DeliveryInv, AttemptsOK
  <1>5. FreshUnlessLate'
    BY AskedSame DEF DeliveryInv, FreshUnlessLate
  <1> QED BY <1>1, <1>2, <1>3, <1>4, <1>5 DEF DeliveryInv

(* The inductive invariant holds in every state, for any sinks,            *)
(* configurations, samples and retries.                                    *)
THEOREM DeliveryInvariance == Spec => []DeliveryInv
  <1>1. DeliveryInv /\ [Next]_vars => DeliveryInv'
    <2> SUFFICES ASSUME DeliveryInv, [Next]_vars PROVE DeliveryInv'
      OBVIOUS
    <2>1. ASSUME NEW s \in Sinks, New(s) \/ Worker(s) \/ EndRun(s) \/ TakeEvent(s) \/ Answer(s)
          PROVE  DeliveryInv'
      <3>1. CASE New(s)
        BY <3>1, NewStep
      <3>2. CASE Worker(s)
        BY <3>2, EventsEndStep, SendStep, SendFailsStep, SleepStep DEF Worker
      <3>3. CASE EndRun(s)
        BY <3>3, EndRunStep
      <3>4. CASE TakeEvent(s)
        <4>1. PICK o \in op[s] + 1..MaxSamples : Begin(s, o)
          BY <3>4 DEF TakeEvent
        <4>2. op[s] \in Nat
          BY DeletionType DEF DeliveryInv, TypeOK
        <4>3. o \in 1..Deletion
          BY <4>1, <4>2, DeletionType
        <4> QED BY <4>1, <4>3, BeginStep
      <3>5. CASE Answer(s)
        BY <3>5, SucceedsStep, StatusStep DEF Answer
      <3> QED BY <2>1, <3>1, <3>2, <3>3, <3>4, <3>5
    <2>2. CASE ApplyLate
      BY <2>2, LateStep
    <2>3. CASE UNCHANGED vars
      BY <2>3, StutterStep
    <2> QED BY <2>1, <2>2, <2>3 DEF Next
  <1> QED BY <1>1, DeliveryInitInv, PTL DEF Spec

(* Types, for any sinks and configurations. *)
THEOREM DeliveryTypeCorrect == Spec => []TypeOK
  <1>1. DeliveryInv => TypeOK
    BY DEF DeliveryInv
  <1> QED BY <1>1, DeliveryInvariance, PTL

(* Every request of an accepted sink reaches the group of its own job and  *)
(* labels and no other one, whatever they are (grouping_url and push_once  *)
(* of src/src/pushgateway.rs).                                             *)
THEOREM OwnGroup == Spec => []OwnGroupOnly
  <1>1. DeliveryInv => OwnGroupOnly
    <2> SUFFICES ASSUME DeliveryInv PROVE OwnGroupOnly
      OBVIOUS
    <2>1. \A g \in groups : g.key = Asked(g.sink)
      BY DEF DeliveryInv, GroupsOK
    <2>2. \A r \in wire : url[r.sink] = Asked(r.sink)
      <3> TAKE r \in wire
      <3>1. r.sink \in Sinks
        BY DEF DeliveryInv, TypeOK
      <3> QED BY <3>1 DEF DeliveryInv, UrlsOK
    <2> QED BY <2>1, <2>2 DEF OwnGroupOnly
  <1> QED BY <1>1, DeliveryInvariance, PTL

(* An operation acknowledged by the gateway is what a sink's own group     *)
(* holds, as long as no request of that sink arrived after the worker had  *)
(* given it up (push_body, src/src/pushgateway.rs:252).                    *)
THEOREM Fresh == Spec => []FreshUnlessLate
  <1>1. DeliveryInv => FreshUnlessLate
    BY DEF DeliveryInv
  <1> QED BY <1>1, DeliveryInvariance, PTL

(* The loop over the attempts always returns: the unreachable! behind it   *)
(* is not reached (src/src/pushgateway.rs:240, 263).                       *)
THEOREM NeverUnreachable == Spec => [](\A s \in Sinks : pc[s] # "panic")
  <1>1. DeliveryInv => \A s \in Sinks : pc[s] # "panic"
    BY DEF DeliveryInv, AttemptsOK
  <1> QED BY <1>1, DeliveryInvariance, PTL

-----------------------------------------------------------------------------
(* Aggregation: sums. *)

(* Induction on the subsets of a finite set, about membership in a set.    *)
LEMMA SubsetInduction ==
  ASSUME NEW S, IsFiniteSet(S), NEW P,
         \A T \in SUBSET S : (\A x \in T : T \ {x} \in P) => T \in P
  PROVE  S \in P
  <1> DEFINE Q == {n \in Nat : \A T \in SUBSET S : Cardinality(T) = n => T \in P}
  <1>0. \A T \in SUBSET S : IsFiniteSet(T) /\ Cardinality(T) \in Nat
    BY FS_Subset, FS_CardinalityType
  <1>1. 0 \in Q
    <2> SUFFICES ASSUME NEW T \in SUBSET S, Cardinality(T) = 0 PROVE T \in P
      OBVIOUS
    <2>1. T = {}
      BY <1>0, FS_EmptySet
    <2> QED BY <2>1
  <1>2. ASSUME NEW n \in Nat, n \in Q PROVE n + 1 \in Q
    <2> SUFFICES ASSUME NEW T \in SUBSET S, Cardinality(T) = n + 1 PROVE T \in P
      OBVIOUS
    <2>1. ASSUME NEW x \in T PROVE T \ {x} \in P
      <3>1. Cardinality(T \ {x}) = n
        BY <1>0, FS_RemoveElement
      <3>2. T \ {x} \in SUBSET S
        OBVIOUS
      <3> QED BY <1>2, <3>1, <3>2
    <2> QED BY <2>1
  <1> HIDE DEF Q
  <1>3. Nat \subseteq Q
    BY <1>1, <1>2, SetInduction
  <1>4. Cardinality(S) \in Q
    BY <1>0, <1>3
  <1> QED BY <1>4 DEF Q

-----------------------------------------------------------------------------
(* The element that a sum takes out first. *)
Choice(t) == CHOOSE x \in t : TRUE

(* What g, the local function of MapThenFoldSet in a sum of f, is on the   *)
(* subsets of S.                                                           *)
Sums(f, S, g) ==
  \A t \in SUBSET S : g[t] = IF t = {} THEN 0 ELSE f[Choice(t)] + g[t \ {Choice(t)}]

(* It is one of the set. *)
LEMMA ChoiceIn ==
  ASSUME NEW t, t # {}
  PROVE  Choice(t) \in t
  BY DEF Choice

(* There is such a function: the recursive definition is a definition. *)
LEMMA SumsExist ==
  ASSUME NEW f, NEW S, IsFiniteSet(S)
  PROVE  \E g : DOMAIN g = SUBSET S /\ g = [t \in SUBSET S |-> g[t]] /\ Sums(f, S, g)
  <1> DEFINE UpTo(g, n) ==
               /\ g = [t \in SUBSET S |-> g[t]]
               /\ \A t \in SUBSET S : Cardinality(t) <= n =>
                    g[t] = IF t = {} THEN 0 ELSE f[Choice(t)] + g[t \ {Choice(t)}]
             Q == {n \in Nat : \E g : UpTo(g, n)}
  <1>0. \A T \in SUBSET S : /\ IsFiniteSet(T) /\ Cardinality(T) \in Nat
                            /\ Cardinality(T) <= Cardinality(S)
                            /\ (Cardinality(T) = 0 <=> T = {})
    BY FS_Subset, FS_CardinalityType, FS_EmptySet
  <1>1. 0 \in Q
    <2> DEFINE g == [t \in SUBSET S |-> 0]
    <2>1. UpTo(g, 0)
      BY <1>0
    <2> QED BY <2>1
  <1>2. ASSUME NEW n \in Nat, n \in Q PROVE n + 1 \in Q
    <2>1. PICK g : UpTo(g, n)
      BY <1>2
    <2> DEFINE h == [t \in SUBSET S |-> IF Cardinality(t) = n + 1
                                        THEN f[Choice(t)] + g[t \ {Choice(t)}] ELSE g[t]]
    <2>2. ASSUME NEW t \in SUBSET S, Cardinality(t) <= n + 1
          PROVE  h[t] = IF t = {} THEN 0 ELSE f[Choice(t)] + h[t \ {Choice(t)}]
      <3>1. CASE t = {}
        <4>1. Cardinality(t) = 0 /\ Cardinality(t) <= n /\ Cardinality(t) # n + 1
          BY <1>0, <3>1
        <4>2. h[t] = g[t] /\ g[t] = 0
          BY <2>1, <3>1, <4>1
        <4> QED BY <3>1, <4>2
      <3>2. CASE t # {}
        <4>1. /\ Choice(t) \in t /\ t \ {Choice(t)} \in SUBSET S
              /\ Cardinality(t) \in Nat /\ Cardinality(t \ {Choice(t)}) = Cardinality(t) - 1
          BY <1>0, <3>2, ChoiceIn, FS_RemoveElement
        <4>2. h[t \ {Choice(t)}] = g[t \ {Choice(t)}]
          BY <2>2, <4>1
        <4>3. CASE Cardinality(t) = n + 1
          BY <3>2, <4>2, <4>3
        <4>4. CASE Cardinality(t) # n + 1
          <5>1. Cardinality(t) <= n
            BY <2>2, <4>1, <4>4
          <5> QED BY <2>1, <3>2, <4>2, <4>4, <5>1
        <4> QED BY <4>3, <4>4
      <3> QED BY <3>1, <3>2
    <2>3. h = [t \in SUBSET S |-> h[t]]
      OBVIOUS
    <2> HIDE DEF h
    <2>4. UpTo(h, n + 1)
      BY <2>2, <2>3
    <2>5. n + 1 \in Nat
      OBVIOUS
    <2> HIDE DEF UpTo
    <2> QED BY <2>4, <2>5
  <1> HIDE DEF Q
  <1>3. Nat \subseteq Q
    BY <1>1, <1>2, SetInduction
  <1>4. Cardinality(S) \in Q
    BY <1>0, <1>3
  <1>5. PICK g : UpTo(g, Cardinality(S))
    BY <1>4 DEF Q
  <1>6. Sums(f, S, g)
    BY <1>0, <1>5 DEF Sums
  <1> QED BY <1>5, <1>6

(* A sum is that function's last value. *)
LEMMA SumsAre ==
  ASSUME NEW f, NEW S, IsFiniteSet(S)
  PROVE  \E g : Sums(f, S, g) /\ Sum(f, S) = g[S]
  <1> DEFINE Body(g) == [t \in SUBSET S |->
                           IF t = {} THEN 0
                           ELSE f[CHOOSE x \in t : TRUE] + g[t \ {CHOOSE x \in t : TRUE}]]
             s == CHOOSE g : g = Body(g)
  <1>1. Sum(f, S) = s[S]
    BY Zenon DEF Sum, FoldFunctionOnSet, MapThenFoldSet
  <1>2. PICK g : g = [t \in SUBSET S |-> g[t]] /\ Sums(f, S, g)
    BY SumsExist
  <1>3. g = Body(g)
    BY <1>2, Zenon DEF Sums, Choice
  <1>4. s = Body(s)
    BY <1>3, Zenon
  <1> HIDE DEF s
  <1>5. Sums(f, S, s)
    BY <1>4, Zenon DEF Sums, Choice
  <1> QED BY <1>1, <1>5

(* It depends on nothing but the numbers summed. *)
LEMMA SumsAgree ==
  ASSUME NEW f, NEW S, IsFiniteSet(S), NEW T \in SUBSET S, NEW g, NEW h,
         Sums(f, S, g), Sums(f, T, h)
  PROVE  g[T] = h[T]
  <1> DEFINE P == {t \in SUBSET T : g[t] = h[t]}
  <1>1. ASSUME NEW t \in SUBSET T, \A x \in t : t \ {x} \in P
        PROVE  t \in P
    <2>1. t # {} => g[t \ {Choice(t)}] = h[t \ {Choice(t)}]
      BY <1>1, ChoiceIn
    <2>2. /\ g[t] = IF t = {} THEN 0 ELSE f[Choice(t)] + g[t \ {Choice(t)}]
          /\ h[t] = IF t = {} THEN 0 ELSE f[Choice(t)] + h[t \ {Choice(t)}]
      BY DEF Sums
    <2> QED BY <2>1, <2>2
  <1>2. IsFiniteSet(T)
    BY FS_Subset
  <1> HIDE DEF P
  <1>3. T \in P
    BY <1>1, <1>2, SubsetInduction
  <1> QED BY <1>3 DEF P

(* A sum of nothing, of one number more, and of integers. *)
LEMMA SumEmpty ==
  ASSUME NEW f
  PROVE  Sum(f, {}) = 0
  <1>1. PICK g : Sums(f, {}, g) /\ Sum(f, {}) = g[{}]
    BY FS_EmptySet, SumsAre
  <1> QED BY <1>1 DEF Sums

LEMMA SumChoice ==
  ASSUME NEW f, NEW S, IsFiniteSet(S), S # {}
  PROVE  Choice(S) \in S /\ Sum(f, S) = f[Choice(S)] + Sum(f, S \ {Choice(S)})
  <1> DEFINE T == S \ {Choice(S)}
  <1>1. T \in SUBSET S /\ IsFiniteSet(T)
    BY FS_Subset
  <1>2. PICK g : Sums(f, S, g) /\ Sum(f, S) = g[S]
    BY SumsAre
  <1>3. PICK h : Sums(f, T, h) /\ Sum(f, T) = h[T]
    BY <1>1, SumsAre
  <1>4. g[T] = h[T]
    BY <1>1, <1>2, <1>3, SumsAgree
  <1>5. g[S] = f[Choice(S)] + g[S \ {Choice(S)}]
    BY <1>2 DEF Sums
  <1> QED BY <1>2, <1>3, <1>4, <1>5, ChoiceIn

LEMMA SumType ==
  ASSUME NEW S, IsFiniteSet(S), NEW f, \A i \in S : f[i] \in Int
  PROVE  Sum(f, S) \in Int
  <1> DEFINE P == {T \in SUBSET S : Sum(f, T) \in Int}
  <1>1. ASSUME NEW T \in SUBSET S, \A x \in T : T \ {x} \in P
        PROVE  T \in P
    <2>1. CASE T = {}
      BY <2>1, SumEmpty
    <2>2. CASE T # {}
      <3>1. Choice(T) \in T /\ Sum(f, T) = f[Choice(T)] + Sum(f, T \ {Choice(T)})
        BY <2>2, FS_Subset, SumChoice
      <3> QED BY <1>1, <3>1
    <2> QED BY <2>1, <2>2
  <1> HIDE DEF P
  <1>2. S \in P
    BY <1>1, SubsetInduction
  <1> QED BY <1>2 DEF P

(* Any element may be taken out first.                                     *)
LEMMA SumSplit ==
  ASSUME NEW S, IsFiniteSet(S), NEW f, \A i \in S : f[i] \in Int, NEW x \in S
  PROVE  Sum(f, S) = f[x] + Sum(f, S \ {x}) /\ Sum(f, S \ {x}) \in Int
  <1>0. \A T \in SUBSET S : IsFiniteSet(T) /\ Sum(f, T) \in Int
    BY FS_Subset, SumType
  <1> DEFINE P == {T \in SUBSET S : \A y \in T : Sum(f, T) = f[y] + Sum(f, T \ {y})}
  <1>1. ASSUME NEW T \in SUBSET S, \A y \in T : T \ {y} \in P
        PROVE  T \in P
    <2> SUFFICES ASSUME NEW y \in T PROVE Sum(f, T) = f[y] + Sum(f, T \ {y})
      OBVIOUS
    <2> DEFINE c == Choice(T)
    <2>1. c \in T /\ Sum(f, T) = f[c] + Sum(f, T \ {c})
      BY <1>0, SumChoice
    <2> HIDE DEF c
    <2>2. CASE y = c
      BY <2>1, <2>2
    <2>3. CASE y # c
      <3>1. Sum(f, T \ {c}) = f[y] + Sum(f, (T \ {c}) \ {y})
        BY <1>1, <2>1, <2>3
      <3>2. Sum(f, T \ {y}) = f[c] + Sum(f, (T \ {y}) \ {c})
        BY <1>1, <2>1, <2>3
      <3>3. (T \ {c}) \ {y} = (T \ {y}) \ {c}
        OBVIOUS
      <3>4. Sum(f, (T \ {y}) \ {c}) \in Int /\ f[y] \in Int /\ f[c] \in Int
        BY <1>0, <2>1
      <3>5. PICK r \in Int : r = Sum(f, (T \ {y}) \ {c})
        BY <3>4
      <3>6. Sum(f, T) = f[c] + (f[y] + r) /\ Sum(f, T \ {y}) = f[c] + r
        BY <2>1, <3>1, <3>2, <3>3, <3>5
      <3> QED BY <3>4, <3>6
    <2> QED BY <2>2, <2>3
  <1> HIDE DEF P
  <1>2. S \in P
    BY <1>1, SubsetInduction
  <1> QED BY <1>0, <1>2 DEF P

(* The same numbers have the same sum. *)
LEMMA SumSame ==
  ASSUME NEW S, IsFiniteSet(S), NEW f, NEW g, \A i \in S : f[i] = g[i]
  PROVE  Sum(f, S) = Sum(g, S)
  <1> DEFINE P == {T \in SUBSET S : Sum(f, T) = Sum(g, T)}
  <1>1. ASSUME NEW T \in SUBSET S, \A x \in T : T \ {x} \in P
        PROVE  T \in P
    <2>1. CASE T = {}
      BY <2>1, SumEmpty
    <2>2. CASE T # {}
      <3>1. /\ Choice(T) \in T /\ Sum(f, T) = f[Choice(T)] + Sum(f, T \ {Choice(T)})
            /\ Sum(g, T) = g[Choice(T)] + Sum(g, T \ {Choice(T)})
        BY <2>2, FS_Subset, SumChoice
      <3> QED BY <1>1, <3>1
    <2> QED BY <2>1, <2>2
  <1> HIDE DEF P
  <1>2. S \in P
    BY <1>1, SubsetInduction
  <1> QED BY <1>2 DEF P

(* Fewer and smaller numbers have a smaller sum.                           *)
LEMMA SumAtMost ==
  ASSUME NEW T, IsFiniteSet(T), NEW S \in SUBSET T, NEW f, NEW g,
         \A i \in T : g[i] \in Nat, \A i \in S : f[i] \in Int /\ f[i] <= g[i]
  PROVE  Sum(f, S) \in Int /\ Sum(g, T) \in Int /\ Sum(f, S) <= Sum(g, T)
  <1>0. \A U \in SUBSET T : /\ IsFiniteSet(U) /\ Sum(g, U) \in Int
                            /\ IsFiniteSet(S \cap U) /\ Sum(f, S \cap U) \in Int
    <2> TAKE U \in SUBSET T
    <2>1. IsFiniteSet(U) /\ IsFiniteSet(S \cap U)
      BY FS_Subset
    <2>2. (\A i \in U : g[i] \in Int) /\ (\A i \in S \cap U : f[i] \in Int)
      OBVIOUS
    <2> QED BY <2>1, <2>2, SumType
  <1> DEFINE P == {U \in SUBSET T : Sum(f, S \cap U) <= Sum(g, U)}
  <1>1. ASSUME NEW U \in SUBSET T, \A x \in U : U \ {x} \in P
        PROVE  U \in P
    <2>1. CASE U = {}
      <3>1. S \cap U = {}
        BY <2>1
      <3> QED BY <2>1, <3>1, SumEmpty
    <2>2. CASE U # {}
      <3> DEFINE c == Choice(U)
                 V == U \ {c}
      <3>1. c \in U /\ Sum(g, U) = g[c] + Sum(g, V)
        BY <1>0, <2>2, SumChoice
      <3>2. Sum(f, S \cap V) <= Sum(g, V)
        BY <1>1, <3>1
      <3> HIDE DEF c
      <3>3. /\ V \in SUBSET T /\ Sum(g, V) \in Int /\ Sum(f, S \cap V) \in Int /\ g[c] \in Nat
        BY <1>0, <3>1
      <3>4. CASE c \in S
        <4>1. c \in S \cap U /\ (S \cap U) \ {c} = S \cap V
          BY <3>1, <3>4
        <4>2. Sum(f, S \cap U) = f[c] + Sum(f, (S \cap U) \ {c})
          BY <1>0, <4>1, SumSplit
        <4>3. f[c] \in Int /\ f[c] <= g[c]
          BY <3>4
        <4>4. Sum(f, S \cap U) <= Sum(g, U)
          BY <3>1, <3>2, <3>3, <4>1, <4>2, <4>3
        <4> QED BY <4>4
      <3>5. CASE c \notin S
        <4>1. S \cap U = S \cap V
          BY <3>5
        <4>2. Sum(f, S \cap U) <= Sum(g, V)
          BY <3>2, <4>1
        <4>3. Sum(g, V) <= g[c] + Sum(g, V)
          BY <3>3
        <4>4. Sum(f, S \cap U) \in Int /\ Sum(g, U) \in Int
          BY <1>0
        <4>5. Sum(f, S \cap U) <= Sum(g, U)
          BY <3>1, <3>3, <4>2, <4>3, <4>4
        <4> QED BY <4>5
      <3> QED BY <3>4, <3>5
    <2> QED BY <2>1, <2>2
  <1> HIDE DEF P
  <1>2. T \in P
    BY <1>1, SubsetInduction
  <1>3. S \cap T = S
    OBVIOUS
  <1> QED BY <1>0, <1>2, <1>3 DEF P

-----------------------------------------------------------------------------
(* Aggregation: counts. *)

(* Bytes of the interval that is about to be reported, and of the samples  *)
(* that the worker holds.                                                  *)
IntervalBytes ==
  Sum([i \in Matched(test, last) |-> last[i][1].bytes], Matched(test, last))
WindowBytes == Total([i \in DOMAIN window |-> window[i].bytes])

(* Types of what the counts depend on. *)
StateOK ==
  /\ \E run \in Runs : test = run.test
  /\ DOMAIN last = Streams
  /\ \A i \in Streams : last[i] # <<>> => last[i][1].bytes \in Nat /\ last[i][1].reorder \in Int
  /\ window \in Seq(Range(window)) /\ \A i \in DOMAIN window : window[i].bytes \in Nat
  /\ moved \in Nat /\ delivered \in Nat /\ events \in Nat /\ reported \in Nat
  /\ reorders \in Seq(Nat) /\ Len(reorders) <= 1
  /\ clean \in BOOLEAN

(* Bytes that were moved are delivered, or in the window, or in the        *)
(* interval that is about to be reported.                                  *)
BytesOK ==
  moved = delivered + WindowBytes + (IF turn = "report" THEN IntervalBytes ELSE 0)

(* Reorderings reported, with those of the interval that is about to be,   *)
(* are never more than there were, and just as many while the counters     *)
(* went on.                                                                *)
Due == IF turn = "report" THEN reported + Total(reorders) ELSE reported
ReordersOK ==
  /\ Due <= events
  /\ clean /\ CountsReorders(test) => Due = events
  /\ clean => \A i \in Matched(test, last) : last[i][1].reorder >= 0
  /\ clean /\ turn = "report" /\ ~IntervalOk(test, last) => Total(reorders) = 0

(* Before the run nothing has been collected. *)
SetupOK ==
  turn = "setup" => reorders = <<>> /\ \A i \in Streams : last[i] = <<>>

(* The inductive invariant. *)
CountsInv == StateOK /\ BytesOK /\ ReordersOK /\ SetupOK

-----------------------------------------------------------------------------
(* A sequence is one of its elements. *)
LEMMA OwnRange ==
  ASSUME NEW S, NEW s \in Seq(S)
  PROVE  s \in Seq(Range(s))
  <1>1. DOMAIN s = 1..Len(s) /\ Len(s) \in Nat /\ s \in [1..Len(s) -> S]
    OBVIOUS
  <1>2. \A i \in 1..Len(s) : s[i] \in Range(s)
    BY <1>1 DEF Range
  <1>3. s \in [1..Len(s) -> Range(s)]
    BY <1>1, <1>2
  <1> QED BY <1>1, <1>3, FunctionIsSeq

(* Totals of one element more, and of one or none. *)
LEMMA TotalMore ==
  ASSUME NEW n \in Nat, NEW f, NEW g, NEW y \in Nat,
         DOMAIN f = 1..n, DOMAIN g = 1..n + 1, g[n + 1] = y,
         \A i \in 1..n : f[i] = g[i] /\ f[i] \in Nat
  PROVE  Total(g) = Total(f) + y /\ Total(f) \in Int
  <1>1. IsFiniteSet(1..n + 1) /\ IsFiniteSet(1..n)
    BY FS_Interval
  <1>2. n + 1 \in 1..n + 1 /\ (1..n + 1) \ {n + 1} = 1..n
    OBVIOUS
  <1>3. \A i \in 1..n + 1 : g[i] \in Int
    <2> TAKE i \in 1..n + 1
    <2>1. i = n + 1 \/ i \in 1..n
      OBVIOUS
    <2> QED BY <2>1
  <1>4. Sum(g, 1..n + 1) = g[n + 1] + Sum(g, (1..n + 1) \ {n + 1}) /\ Sum(g, (1..n + 1) \ {n + 1}) \in Int
    BY <1>1, <1>2, <1>3, SumSplit
  <1>5. Sum(f, 1..n) = Sum(g, 1..n)
    BY <1>1, SumSame
  <1>6. Total(g) = Sum(g, 1..n + 1) /\ Total(f) = Sum(f, 1..n)
    BY Zenon DEF Total
  <1>7. PICK r \in Int : r = Sum(f, 1..n)
    BY <1>2, <1>4, <1>5
  <1>8. Sum(g, 1..n + 1) = y + r
    BY <1>2, <1>4, <1>5, <1>7
  <1> QED BY <1>6, <1>7, <1>8

LEMMA TotalAppend ==
  ASSUME NEW S, NEW s \in Seq(S), NEW x, NEW f, NEW g,
         f = [i \in DOMAIN s |-> s[i].bytes],
         g = [i \in DOMAIN Append(s, x) |-> Append(s, x)[i].bytes],
         \A i \in DOMAIN s : s[i].bytes \in Nat, x.bytes \in Nat
  PROVE  Total(g) = Total(f) + x.bytes /\ Total(f) \in Int
  <1> DEFINE n == Len(s)
             t == Append(s, x)
  <1>1. n \in Nat /\ DOMAIN s = 1..n
    OBVIOUS
  <1>2. DOMAIN t = 1..n + 1 /\ t[n + 1] = x /\ \A i \in 1..n : t[i] = s[i]
    OBVIOUS
  <1> HIDE DEF n, t
  <1>3. /\ DOMAIN f = 1..n /\ DOMAIN g = 1..n + 1 /\ g[n + 1] = x.bytes
        /\ \A i \in 1..n : f[i] = g[i] /\ f[i] \in Nat
    BY <1>1, <1>2 DEF t
  <1> QED BY ONLY <1>1, <1>3, x.bytes \in Nat, TotalMore

LEMMA TotalShort ==
  /\ Total(<<>>) = 0
  /\ \A n \in Nat : Total(<<n>>) = n
  <1>1. Total(<<>>) = 0
    <2>1. DOMAIN <<>> = {}
      OBVIOUS
    <2> QED BY <2>1, SumEmpty DEF Total
  <1>2. ASSUME NEW n \in Nat PROVE Total(<<n>>) = n
    <2>1. DOMAIN <<n>> = {1} /\ <<n>>[1] = n
      OBVIOUS
    <2>2. IsFiniteSet({1}) /\ {1} \ {1} = {}
      BY FS_Singleton
    <2>3. PICK f : f = <<n>>
      OBVIOUS
    <2>4. Sum(f, {1}) = f[1] + Sum(f, {1} \ {1})
      BY <2>1, <2>2, <2>3, SumSplit
    <2> QED BY <2>1, <2>2, <2>3, <2>4, SumEmpty DEF Total
  <1> QED BY <1>1, <1>2

(* Types of the streams and of what an interval brings. *)
LEMMA TestTypes ==
  ASSUME StateOK
  PROVE  /\ test.streams \in Seq(BOOLEAN) /\ IsFiniteSet(Streams)
         /\ \A i \in Streams : test.streams[i] \in BOOLEAN
         /\ \A r \in Results(test.protocol) : r \in ResultTypes
         /\ \A l : Matched(test, l) \subseteq Streams /\ IsFiniteSet(Matched(test, l))
  <1>1. PICK run \in Runs : test = run.test
    BY DEF StateOK
  <1>2. test.streams \in Seq(BOOLEAN) /\ \A r \in Results(test.protocol) : r \in ResultTypes
    BY <1>1, RunsAssumption
  <1>3. Streams = 1..Len(test.streams) /\ Len(test.streams) \in Nat
    BY <1>2 DEF Streams
  <1>4. IsFiniteSet(Streams)
    BY <1>3, FS_Interval
  <1>5. \A l : Matched(test, l) \subseteq Streams
    BY DEF Matched, Streams
  <1> QED BY <1>2, <1>3, <1>4, <1>5, FS_Subset DEF Streams

(* Sums of bytes are integers. *)
LEMMA WindowType ==
  ASSUME StateOK
  PROVE  WindowBytes \in Int /\ IntervalBytes \in Int
  <1>1. window \in Seq(Range(window)) /\ \A i \in DOMAIN window : window[i].bytes \in Nat
    BY DEF StateOK
  <1>2. DOMAIN window = 1..Len(window) /\ Len(window) \in Nat
    BY <1>1
  <1> DEFINE f == [i \in DOMAIN window |-> window[i].bytes]
  <1>3. DOMAIN f = DOMAIN window /\ \A i \in DOMAIN window : f[i] \in Int
    BY <1>1
  <1>4. IsFiniteSet(DOMAIN window)
    BY <1>2, FS_Interval
  <1> HIDE DEF f
  <1>5. Sum(f, DOMAIN window) \in Int
    BY <1>3, <1>4, SumType
  <1>6. WindowBytes \in Int
    BY <1>3, <1>5 DEF WindowBytes, Total, f
  <1> DEFINE S == Matched(test, last)
             g == [i \in S |-> last[i][1].bytes]
  <1>7. \A i \in S : g[i] \in Int
    BY DEF StateOK, Matched, Streams
  <1>8. IsFiniteSet(S)
    BY TestTypes
  <1> HIDE DEF g, S
  <1>9. Sum(g, S) \in Int
    BY <1>7, <1>8, SumType
  <1> QED BY <1>6, <1>9 DEF IntervalBytes, g, S

-----------------------------------------------------------------------------
(* The invariant holds at first. *)
LEMMA CountsInitInv ==
  ASSUME AggregationInit
  PROVE  CountsInv
  <1>1. /\ \E run \in Runs : test = run.test
        /\ turn = "setup" /\ reorders = <<>> /\ window = <<>> /\ clean = TRUE
        /\ moved = 0 /\ delivered = 0 /\ events = 0 /\ reported = 0
        /\ last = [i \in Streams |-> <<>>]
    BY DEF AggregationInit
  <1>2. StateOK
    <2>1. Range(window) = {} /\ window \in Seq(Range(window)) /\ DOMAIN window = {}
      BY <1>1 DEF Range
    <2>2. reorders \in Seq(Nat) /\ Len(reorders) <= 1
      BY <1>1
    <2>3. DOMAIN last = Streams /\ \A i \in Streams : last[i] = <<>>
      BY <1>1
    <2> QED BY <1>1, <2>1, <2>2, <2>3 DEF StateOK
  <1>3. WindowBytes = 0
    <2>1. [i \in DOMAIN window |-> window[i].bytes] = <<>>
      BY <1>1
    <2> QED BY <2>1, TotalShort DEF WindowBytes
  <1>4. Matched(test, last) = {}
    BY <1>1 DEF Matched, Streams
  <1>5. SetupOK
    BY <1>1 DEF SetupOK
  <1> QED BY <1>1, <1>2, <1>3, <1>4, <1>5 DEF CountsInv, BytesOK, ReordersOK, Due

(* What is defined from the state that stays. *)
LEMMA StateSame ==
  ASSUME StateOK, test' = test, last' = last, window' = window, moved' = moved, events' = events,
         delivered' = delivered, reported' = reported, reorders' = reorders, clean' = clean
  PROVE  /\ StateOK' /\ WindowBytes' = WindowBytes /\ IntervalBytes' = IntervalBytes
         /\ (IntervalOk(test, last)' <=> IntervalOk(test, last))
         /\ (CountsReorders(test)' <=> CountsReorders(test))
         /\ Matched(test, last)' = Matched(test, last)
  <1>1. StateOK'
    BY DEF StateOK, Streams
  <1>2. Matched(test, last)' = Matched(test, last)
    BY DEF Matched
  <1>3. WindowBytes' = WindowBytes /\ IntervalBytes' = IntervalBytes
    BY <1>2 DEF WindowBytes, IntervalBytes
  <1> QED BY <1>1, <1>2, <1>3 DEF IntervalOk, CountsReorders

(* The test is set up. *)
LEMMA SetUpStep ==
  ASSUME CountsInv, SetUp
  PROVE  CountsInv'
  <1>1. /\ turn = "setup" /\ turn' \in {"collect", "report", "rejected"}
        /\ test' = test /\ last' = last /\ reorders' = reorders /\ window' = window
        /\ moved' = moved /\ delivered' = delivered /\ events' = events /\ reported' = reported
        /\ clean' = clean
    BY DEF SetUp, truth
  <1>2. /\ StateOK' /\ WindowBytes' = WindowBytes /\ IntervalBytes' = IntervalBytes
        /\ (CountsReorders(test)' <=> CountsReorders(test))
        /\ Matched(test, last)' = Matched(test, last)
    BY <1>1, StateSame DEF CountsInv
  <1>3. Matched(test, last) = {} /\ Total(reorders) = 0 /\ Total(reorders)' = 0
    <2>1. reorders = <<>> /\ \A i \in Streams : last[i] = <<>>
      BY <1>1 DEF CountsInv, SetupOK
    <2>2. Total(reorders) = 0
      BY <2>1, TotalShort
    <2>3. Matched(test, last) = {}
      BY <2>1 DEF Matched, Streams
    <2> QED BY <1>1, <2>2, <2>3 DEF Total
  <1>4. IntervalBytes = 0
    BY <1>3, SumEmpty DEF IntervalBytes
  <1>5. WindowBytes \in Int
    BY WindowType DEF CountsInv
  <1>6. BytesOK'
    BY <1>1, <1>2, <1>4, <1>5 DEF CountsInv, BytesOK, StateOK
  <1>7. ReordersOK'
    <2>1. Due' = reported /\ Due = reported
      BY <1>1, <1>3 DEF Due, CountsInv, StateOK
    <2> QED BY <1>1, <1>2, <1>3, <2>1 DEF CountsInv, ReordersOK
  <1>8. SetupOK'
    BY <1>1 DEF SetupOK
  <1> QED BY <1>2, <1>6, <1>7, <1>8 DEF CountsInv

-----------------------------------------------------------------------------
(* What the shim stores of a result. *)
LEMMA StoredIs ==
  ASSUME NEW r \in ResultTypes, NEW b, b # <<>> => b[1].reorder \in Int
  PROVE  /\ Stored(r, b).bytes = r.bytes /\ Stored(r, b).reorder \in Int
         /\ r.bytes \in Nat /\ r.reorder \in Nat
         /\ r.epoch = "same" => Stored(r, b).reorder >= 0
  BY DEF Stored, ResultTypes

(* The shim's delta is never more than what happened, and just that when   *)
(* the counter went on.                                                    *)
LEMMA DeltaHonest ==
  ASSUME NEW r \in ResultTypes, NEW b, b # <<>> => b[1].reorder \in Int,
         NEW d, d = ReorderDelta(Stored(r, b).reorder, IF b = <<>> THEN 0 ELSE b[1].reorder)
  PROVE  /\ d \in Int /\ d <= r.reorder
         /\ r.epoch = "same" /\ (b # <<>> => b[1].reorder >= 0) => d = r.reorder
  <1>1. r.reorder \in Nat /\ r.epoch \in {"same", "new", "unknown"}
    BY DEF ResultTypes
  <1>2. Stored(r, b).reorder =
          IF r.epoch = "unknown" THEN -1
          ELSE (IF b = <<>> \/ r.epoch = "new" THEN 0
                ELSE IF b[1].reorder < 0 THEN 0 ELSE b[1].reorder) + r.reorder
    BY DEF Stored, ResultTypes
  <1>3. CASE b = <<>>
    BY <1>1, <1>2, <1>3 DEF ReorderDelta
  <1>4. CASE b # <<>>
    <2>1. PICK p \in Int : p = b[1].reorder
      BY <1>4
    <2> QED BY <1>1, <1>2, <1>4, <2>1 DEF ReorderDelta
  <1> QED BY <1>3, <1>4

(* Sums of natural numbers, and of zeros. *)
LEMMA SumNat ==
  ASSUME NEW S, IsFiniteSet(S), NEW f, \A i \in S : f[i] \in Nat
  PROVE  Sum(f, S) \in Nat
  <1>1. {} \in SUBSET S /\ \A i \in {} : f[i] \in Int /\ f[i] <= f[i]
    OBVIOUS
  <1>2. Sum(f, {}) <= Sum(f, S) /\ Sum(f, S) \in Int
    BY <1>1, SumAtMost
  <1> QED BY <1>2, SumEmpty

LEMMA SumZero ==
  ASSUME NEW S, IsFiniteSet(S), NEW f, \A i \in S : f[i] = 0
  PROVE  Sum(f, S) = 0
  <1> DEFINE P == {T \in SUBSET S : Sum(f, T) = 0}
  <1>1. ASSUME NEW T \in SUBSET S, \A x \in T : T \ {x} \in P
        PROVE  T \in P
    <2>1. CASE T = {}
      BY <2>1, SumEmpty
    <2>2. CASE T # {}
      <3>1. Choice(T) \in T /\ Sum(f, T) = f[Choice(T)] + Sum(f, T \ {Choice(T)})
        BY <2>2, FS_Subset, SumChoice
      <3> QED BY <1>1, <3>1
    <2> QED BY <2>1, <2>2
  <1> HIDE DEF P
  <1>2. S \in P
    BY <1>1, SubsetInduction
  <1> QED BY <1>2 DEF P

(* The reorderings of an interval: at most what happened, and just that    *)
(* when every counter went on.                                             *)
LEMMA ReordersIs ==
  ASSUME StateOK, NEW results, \A i \in Streams : results[i] \in ResultTypes, NEW l,
         l = [i \in Streams |-> <<Stored(results[i], last[i])>>],
         NEW S, S = Matched(test, l), NEW g, g = [i \in S |-> results[i].reorder],
         NEW q, q = Reorders(test, last, l)
  PROVE  /\ q \in Seq(Nat) /\ Len(q) <= 1 /\ Total(q) \in Nat /\ Sum(g, S) \in Nat
         /\ Total(q) <= Sum(g, S)
         /\ CountsReorders(test) /\ (\A i \in S : results[i].epoch = "same")
            /\ (\A i \in S : last[i] # <<>> => last[i][1].reorder >= 0)
            => Total(q) = Sum(g, S)
  <1> DEFINE delta(i) == ReorderDelta(l[i][1].reorder,
                               IF last[i] = <<>> THEN 0 ELSE last[i][1].reorder)
             known == {i \in DOMAIN test.streams : test.streams[i] /\ delta(i) >= 0}
             f == [i \in known |-> delta(i)]
  <1>1. /\ S \subseteq Streams /\ IsFiniteSet(S) /\ IsFiniteSet(Streams)
        /\ S = {i \in Streams : test.streams[i] = MustBeSender(test)}
    <2>1. \A i \in Streams : l[i] # <<>>
      OBVIOUS
    <2> QED BY <2>1, TestTypes DEF Matched, Streams
  <1>2. ASSUME NEW i \in Streams
        PROVE  /\ delta(i) \in Int /\ delta(i) <= results[i].reorder /\ results[i].reorder \in Nat
               /\ results[i].epoch = "same" /\ (last[i] # <<>> => last[i][1].reorder >= 0)
                  => delta(i) = results[i].reorder
    <2>1. l[i][1].reorder = Stored(results[i], last[i]).reorder
      OBVIOUS
    <2>2. results[i] \in ResultTypes /\ (last[i] # <<>> => last[i][1].reorder \in Int)
      BY DEF StateOK
    <2>3. results[i].reorder \in Nat
      BY <2>2 DEF ResultTypes
    <2> QED BY <2>1, <2>2, <2>3, DeltaHonest
  <1>3. q = IF ~CountsReorders(test) \/ known = {} THEN <<>> ELSE <<Sum(f, known)>>
    BY Zenon DEF Reorders, SumOf
  <1> HIDE DEF delta, known, f
  <1>4. /\ \A i \in S : g[i] \in Nat
        /\ \A i \in S : g[i] = results[i].reorder
    BY <1>1, <1>2
  <1>5. Sum(g, S) \in Nat
    BY <1>1, <1>4, SumNat
  <1>6. CASE ~CountsReorders(test)
    <2>1. q = <<>> /\ Total(q) = 0
      BY <1>3, <1>6, TotalShort
    <2> QED BY <1>5, <1>6, <2>1
  <1>7. CASE CountsReorders(test)
    <2>1. known \subseteq S /\ MustBeSender(test) = TRUE
      BY <1>1, <1>7, TestTypes DEF CountsReorders, Streams, MustBeSender, known
    <2>2. /\ IsFiniteSet(known)
          /\ \A i \in known : f[i] \in Nat /\ f[i] = delta(i) /\ f[i] \in Int /\ f[i] <= g[i]
      <3>1. \A i \in known : f[i] = delta(i) /\ delta(i) >= 0
        BY DEF f, known
      <3>2. IsFiniteSet(known)
        BY <1>1, <2>1, FS_Subset
      <3>3. \A i \in known : i \in S /\ i \in Streams
        BY <1>1, <2>1
      <3> QED BY <1>2, <1>4, <3>1, <3>2, <3>3
    <2>3. Sum(f, known) \in Nat
      BY <2>2, SumNat
    <2>4. Sum(f, known) <= Sum(g, S)
      BY <1>1, <1>4, <2>1, <2>2, SumAtMost
    <2>5. Total(q) = Sum(f, known) /\ q \in Seq(Nat) /\ Len(q) <= 1
      <3>1. CASE known = {}
        <4>1. q = <<>>
          BY <1>3, <3>1
        <4>2. Sum(f, known) = 0
          BY <3>1, SumEmpty
        <4> QED BY <4>1, <4>2, TotalShort
      <3>2. CASE known # {}
        <4>1. q = <<Sum(f, known)>>
          BY <1>3, <1>7, <3>2
        <4>2. PICK n \in Nat : n = Sum(f, known)
          BY <2>3
        <4>3. q = <<n>>
          BY <4>1, <4>2, Zenon
        <4>4. Total(q) = n /\ q \in Seq(Nat) /\ Len(q) <= 1
          BY ONLY <4>3, n \in Nat, TotalShort
        <4> QED BY <4>2, <4>4, Zenon
      <3> QED BY <3>1, <3>2
    <2>6. ASSUME \A i \in S : results[i].epoch = "same",
                 \A i \in S : last[i] # <<>> => last[i][1].reorder >= 0
          PROVE  Sum(f, known) = Sum(g, S)
      <3>1. \A i \in S : delta(i) = results[i].reorder
        BY <1>1, <1>2, <2>6
      <3>2. known = S
        <4>1. ASSUME NEW i \in S PROVE delta(i) >= 0 /\ test.streams[i] = TRUE
          <5>1. delta(i) = results[i].reorder /\ results[i].reorder \in Nat
            BY <1>1, <1>2, <3>1
          <5>2. test.streams[i] = TRUE
            BY <1>1, <2>1, Zenon
          <5> QED BY <5>1, <5>2
        <4> QED BY <1>1, <2>1, <4>1 DEF Streams, known
      <3>3. \A i \in S : f[i] = g[i]
        BY <1>4, <2>2, <3>1, <3>2
      <3> QED BY <1>1, <3>2, <3>3, SumSame
    <2> QED BY <1>5, <2>3, <2>4, <2>5, <2>6
  <1> QED BY <1>6, <1>7

(* An interval is collected. *)
LEMMA CollectStep ==
  ASSUME CountsInv, CollectStats
  PROVE  CountsInv'
  <1>0. StateOK /\ BytesOK /\ ReordersOK /\ turn = "collect"
    BY DEF CountsInv, CollectStats
  <1>1. PICK results \in [Streams -> Results(test.protocol)] :
          /\ last' = [i \in Streams |-> <<Stored(results[i], last[i])>>]
          /\ reorders' = Reorders(test, last, last')
          /\ moved' = moved + SumOf(LAMBDA i : results[i].bytes, Matched(test, last'))
          /\ events' = events + SumOf(LAMBDA i : results[i].reorder, Matched(test, last'))
          /\ clean' = (clean /\ (\A i \in Matched(test, last') : results[i].epoch = "same")
                             /\ IntervalOk(test, last'))
    BY DEF CollectStats
  <1>2. /\ test' = test /\ window' = window /\ delivered' = delivered /\ reported' = reported
        /\ turn' = "report"
    BY DEF CollectStats
  <1>3. PICK l, q, S : l = last' /\ q = reorders' /\ S = Matched(test, l)
    OBVIOUS
  <1> DEFINE g == [i \in S |-> results[i].reorder]
             b == [i \in S |-> results[i].bytes]
  <1>4. /\ l = [i \in Streams |-> <<Stored(results[i], last[i])>>]
        /\ q = Reorders(test, last, l)
        /\ moved' = moved + Sum(b, S) /\ events' = events + Sum(g, S)
        /\ clean' = (clean /\ (\A i \in S : results[i].epoch = "same") /\ IntervalOk(test, l))
    BY <1>1, <1>3, Zenon DEF SumOf
  <1>5. /\ \A i \in Streams : results[i] \in ResultTypes
        /\ S \subseteq Streams /\ IsFiniteSet(S)
    BY <1>0, <1>3, TestTypes
  <1>6. ASSUME NEW i \in Streams
        PROVE  /\ l[i] # <<>> /\ l[i][1].bytes = results[i].bytes /\ l[i][1].reorder \in Int
               /\ results[i].bytes \in Nat /\ results[i].reorder \in Nat
               /\ results[i].epoch = "same" => l[i][1].reorder >= 0
    <2>1. PICK stored : stored = Stored(results[i], last[i])
      OBVIOUS
    <2>2. results[i] \in ResultTypes /\ (last[i] # <<>> => last[i][1].reorder \in Int)
      BY <1>0, <1>5 DEF StateOK
    <2>3. /\ stored.bytes = results[i].bytes /\ stored.reorder \in Int
          /\ results[i].bytes \in Nat /\ results[i].reorder \in Nat
          /\ results[i].epoch = "same" => stored.reorder >= 0
      BY <2>1, <2>2, StoredIs
    <2>4. l[i] = <<stored>>
      BY <1>4, <2>1
    <2>5. l[i][1] = stored /\ l[i] # <<>>
      BY <2>4
    <2> QED BY <2>3, <2>5
  <1>7. /\ q \in Seq(Nat) /\ Len(q) <= 1 /\ Total(q) \in Nat /\ Sum(g, S) \in Nat
        /\ Total(q) <= Sum(g, S)
        /\ CountsReorders(test) /\ (\A i \in S : results[i].epoch = "same")
            /\ (\A i \in S : last[i] # <<>> => last[i][1].reorder >= 0)
            => Total(q) = Sum(g, S)
    BY <1>0, <1>3, <1>4, <1>5, ReordersIs
  <1>8. Sum(b, S) \in Nat
    <2>1. \A i \in S : b[i] \in Nat
      BY <1>5, <1>6
    <2> HIDE DEF b
    <2> QED BY <1>5, <2>1, SumNat
  <1> HIDE DEF b, g
  <1>9. StateOK'
    <2>1. (\E run \in Runs : test = run.test)' /\ (window \in Seq(Range(window)))'
          /\ (\A i \in DOMAIN window : window[i].bytes \in Nat)'
      BY <1>0, <1>2 DEF StateOK
    <2>2. DOMAIN last' = Streams' /\ Streams' = Streams
      BY <1>2, <1>3, <1>4 DEF Streams
    <2>3. \A i \in Streams : l[i] # <<>> => l[i][1].bytes \in Nat /\ l[i][1].reorder \in Int
      BY <1>6
    <2>4. moved' \in Nat /\ events' \in Nat /\ delivered' \in Nat /\ reported' \in Nat
      BY <1>0, <1>2, <1>4, <1>7, <1>8 DEF StateOK
    <2>5. clean' \in BOOLEAN
      BY <1>4
    <2>6. reorders' \in Seq(Nat) /\ Len(reorders') <= 1
      BY <1>3, <1>7
    <2> QED BY <1>3, <2>1, <2>2, <2>3, <2>4, <2>5, <2>6 DEF StateOK
  <1>10. WindowBytes' = WindowBytes /\ WindowBytes \in Int
    BY <1>0, <1>2, WindowType DEF WindowBytes
  <1>11. IntervalBytes' = Sum(b, S)
    <2> DEFINE c == [i \in S |-> l[i][1].bytes]
    <2>1. IntervalBytes' = Sum(c, S)
      BY <1>2, <1>3 DEF IntervalBytes
    <2>2. \A i \in S : c[i] = b[i]
      BY <1>5, <1>6 DEF b
    <2> HIDE DEF c
    <2> QED BY <1>5, <2>1, <2>2, SumSame
  <1>12. BytesOK'
    <2>1. moved = delivered + WindowBytes
      BY <1>0, <1>10 DEF BytesOK, StateOK
    <2>2. moved' = delivered' + WindowBytes' + IntervalBytes'
      BY <1>0, <1>2, <1>4, <1>8, <1>10, <1>11, <2>1 DEF StateOK
    <2> QED BY <1>2, <2>2 DEF BytesOK
  <1>13. Due' = reported + Total(q) /\ Due = reported
    BY <1>0, <1>2, <1>3 DEF Due, StateOK, Total
  <1>14. Matched(test, last)' = S
    BY <1>2, <1>3 DEF Matched
  <1>15. Due' <= events'
    <2>1. reported <= events /\ reported \in Nat /\ events \in Nat
      BY <1>0, <1>13 DEF ReordersOK, StateOK
    <2> QED BY <1>4, <1>7, <1>13, <2>1
  <1>16. clean' = TRUE => \A i \in S : results[i].epoch = "same"
    BY <1>4
  <1>17. clean' = TRUE => clean /\ \A i \in S : last[i] # <<>> => last[i][1].reorder >= 0
    <2>1. \A i \in S : last[i] # <<>> => i \in Matched(test, last)
      BY <1>3 DEF Matched
    <2> QED BY <1>0, <1>4, <2>1 DEF ReordersOK
  <1>18. clean' = TRUE /\ CountsReorders(test) => Due' = events'
    <2> HAVE clean' = TRUE /\ CountsReorders(test)
    <2>1. Total(q) = Sum(g, S)
      BY <1>7, <1>16, <1>17
    <2>2. reported = events
      BY <1>0, <1>13, <1>17 DEF ReordersOK
    <2> QED BY <1>4, <1>13, <2>1, <2>2
  <1>19. clean' = TRUE => (\A i \in S : l[i][1].reorder >= 0) /\ IntervalOk(test, l)
    BY <1>4, <1>5, <1>6, <1>16
  <1>20. ReordersOK'
    <2>1. (IntervalOk(test, last)' <=> IntervalOk(test, l)) /\ (CountsReorders(test)' <=> CountsReorders(test))
      BY <1>2, <1>3, <1>14 DEF IntervalOk, CountsReorders
    <2>2. clean' => clean' = TRUE
      BY <1>9 DEF StateOK
    <2> QED BY <1>3, <1>14, <1>15, <1>18, <1>19, <2>1, <2>2 DEF ReordersOK
  <1>21. SetupOK'
    BY <1>2 DEF SetupOK
  <1> QED BY <1>9, <1>12, <1>20, <1>21 DEF CountsInv

(* A sample holds the bytes and the reorderings of the interval. *)
LEMMA SampleIs ==
  /\ Sample(test, last, reorders).bytes = IntervalBytes
  /\ Sample(test, last, reorders).reorders = reorders
  BY DEF Sample, IntervalBytes

(* An interval that is dropped has moved no byte. *)
LEMMA DroppedEmpty ==
  ASSUME StateOK
  PROVE  IntervalBytes \in Nat /\ (~IntervalOk(test, last) => IntervalBytes = 0)
  <1> DEFINE S == Matched(test, last)
             f == [i \in S |-> last[i][1].bytes]
  <1>1. IsFiniteSet(S)
    BY TestTypes
  <1>2. \A i \in S : f[i] \in Nat /\ f[i] = last[i][1].bytes
    BY DEF StateOK, Matched, Streams
  <1>3. ~IntervalOk(test, last) => \A i \in S : f[i] = 0
    BY <1>2 DEF IntervalOk
  <1>4. IntervalBytes = Sum(f, S)
    BY DEF IntervalBytes
  <1> HIDE DEF f, S
  <1> QED BY <1>1, <1>2, <1>3, <1>4, SumNat, SumZero

(* Reorderings are counted from zero. *)
LEMMA ReordersNat ==
  ASSUME StateOK
  PROVE  Total(reorders) \in Nat
  <1>1. reorders \in Seq(Nat) /\ Len(reorders) <= 1
    BY DEF StateOK
  <1>2. reorders = <<>> \/ \E n \in Nat : reorders = <<n>>
    <2>1. Len(reorders) = 0 => reorders = <<>>
      BY <1>1, EmptySeq
    <2>2. ASSUME Len(reorders) = 1
          PROVE  reorders = <<reorders[1]>> /\ reorders[1] \in Nat
      <3>1. reorders[1] \in Nat
        BY <1>1, <2>2
      <3>2. <<reorders[1]>> \in Seq(Nat) /\ Len(<<reorders[1]>>) = 1
        BY <3>1
      <3>3. \A i \in 1..Len(reorders) : reorders[i] = <<reorders[1]>>[i]
        BY <2>2
      <3> QED BY <1>1, <2>2, <3>1, <3>2, <3>3, SeqEqual
    <2>3. Len(reorders) = 0 \/ Len(reorders) = 1
      <3>1. Len(reorders) \in Nat /\ Len(reorders) <= 1
        BY <1>1
      <3>2. \A n \in Nat : n <= 1 => n = 0 \/ n = 1
        OBVIOUS
      <3> QED BY <3>1, <3>2, Zenon
    <2> QED BY <2>1, <2>2, <2>3
  <1> QED BY <1>2, TotalShort

(* The interval is reported, and the window is summarised. *)
LEMMA ReportStep ==
  ASSUME CountsInv, Report
  PROVE  CountsInv'
  <1>0. StateOK /\ BytesOK /\ ReordersOK /\ turn = "report" /\ turn' = "collect"
    BY DEF CountsInv, Report
  <1>1. /\ test' = test /\ last' = last /\ reorders' = reorders /\ moved' = moved
        /\ delivered' = delivered /\ events' = events /\ clean' = clean
    BY DEF Report
  <1>2. /\ WindowBytes \in Int /\ IntervalBytes \in Nat /\ moved \in Nat /\ delivered \in Nat
        /\ moved = delivered + WindowBytes + IntervalBytes
        /\ reported \in Nat /\ events \in Nat /\ Due = reported + Total(reorders)
    BY <1>0, WindowType, DroppedEmpty DEF StateOK, BytesOK, Due
  <1>3. SetupOK'
    BY <1>0 DEF SetupOK
  <1>4. Due' = reported'
    BY <1>0 DEF Due
  <1>5. Matched(test, last)' = Matched(test, last) /\ (CountsReorders(test)' <=> CountsReorders(test))
    BY <1>1 DEF Matched, CountsReorders
  <1>6. CASE IntervalOk(test, last)
    <2> DEFINE sample == Sample(test, last, reorders)
    <2>1. window' = Append(window, sample) /\ reported' = reported + Total(sample.reorders)
      BY <1>6 DEF Report
    <2>2. sample.bytes = IntervalBytes /\ sample.reorders = reorders
      BY SampleIs
    <2> HIDE DEF sample
    <2>3. window \in Seq(Range(window)) /\ \A i \in DOMAIN window : window[i].bytes \in Nat
      BY <1>0 DEF StateOK
    <2>4. WindowBytes' = WindowBytes + IntervalBytes
      <3> DEFINE f == [i \in DOMAIN window |-> window[i].bytes]
                 g == [i \in DOMAIN Append(window, sample) |-> Append(window, sample)[i].bytes]
      <3>1. Total(g) = Total(f) + sample.bytes
        BY <1>2, <2>2, <2>3, TotalAppend
      <3> QED BY <2>1, <2>2, <3>1 DEF WindowBytes
    <2>5. /\ window' \in Seq(Range(window'))
          /\ \A i \in DOMAIN window' : window'[i].bytes \in Nat
      <3> DEFINE R == Range(window) \cup {sample}
                 w == Append(window, sample)
      <3>1. window \in Seq(R) /\ sample \in R
        BY <2>3
      <3>2. w \in Seq(R) /\ DOMAIN w = 1..Len(window) + 1 /\ w[Len(window) + 1] = sample
            /\ \A i \in 1..Len(window) : w[i] = window[i]
        BY <3>1, AppendProperties
      <3>3. w \in Seq(Range(w))
        BY <3>2, OwnRange
      <3>4. DOMAIN window = 1..Len(window) /\ Len(window) \in Nat
        BY <2>3
      <3> HIDE DEF w, R
      <3>5. \A i \in DOMAIN w : w[i].bytes \in Nat
        <4> TAKE i \in DOMAIN w
        <4>1. i = Len(window) + 1 \/ i \in 1..Len(window)
          BY <3>2, <3>4
        <4> QED BY <1>2, <2>2, <2>3, <3>2, <3>4, <4>1
      <3> QED BY <2>1, <3>3, <3>5 DEF w
    <2>6. Total(reorders) \in Nat
      BY <1>0, ReordersNat
    <2>7. reported' = Due /\ reported' \in Nat
      BY <1>2, <2>1, <2>2, <2>6
    <2>8. StateOK'
      BY <1>0, <1>1, <2>5, <2>7 DEF StateOK, Streams
    <2>9. BytesOK'
      BY <1>0, <1>1, <1>2, <2>4, WindowType, <2>8 DEF BytesOK
    <2>10. ReordersOK'
      BY <1>0, <1>1, <1>4, <1>5, <2>7 DEF ReordersOK
    <2> QED BY <1>3, <2>8, <2>9, <2>10 DEF CountsInv
  <1>7. CASE ~IntervalOk(test, last)
    <2>1. window' = window /\ reported' = reported
      BY <1>7 DEF Report
    <2>2. StateOK' /\ WindowBytes' = WindowBytes
      BY <1>0, <1>1, <2>1, StateSame
    <2>3. IntervalBytes = 0
      BY <1>0, <1>7, DroppedEmpty
    <2>4. BytesOK'
      BY <1>0, <1>1, <1>2, <2>2, <2>3 DEF BytesOK
    <2>5. Total(reorders) \in Nat
      BY <1>0, ReordersNat
    <2>6. reported <= events /\ (clean => reported = Due)
      BY <1>0, <1>2, <1>7, <2>5 DEF ReordersOK
    <2>7. ReordersOK'
      BY <1>0, <1>1, <1>4, <1>5, <2>1, <2>6 DEF ReordersOK
    <2> QED BY <1>3, <2>2, <2>4, <2>7 DEF CountsInv
  <1> QED BY <1>6, <1>7

LEMMA EncodeStep ==
  ASSUME CountsInv, Encode
  PROVE  CountsInv'
  <1>0. StateOK /\ BytesOK /\ ReordersOK /\ SetupOK
    BY DEF CountsInv
  <1>1. /\ test' = test /\ last' = last /\ reorders' = reorders /\ moved' = moved /\ turn' = turn
        /\ events' = events /\ clean' = clean /\ reported' = reported /\ window' = <<>>
        /\ delivered' = delivered + aggregate_window(window).bytes
    BY DEF Encode
  <1>2. aggregate_window(window).bytes = WindowBytes
    <2>1. \A i \in DOMAIN window : Nonnegative(window[i].bytes) = window[i].bytes
      BY <1>0 DEF StateOK, Nonnegative
    <2>2. [i \in DOMAIN window |-> Nonnegative(window[i].bytes)] = [i \in DOMAIN window |-> window[i].bytes]
      BY <2>1, Zenon
    <2>3. aggregate_window(window).bytes = Total([i \in DOMAIN window |-> Nonnegative(window[i].bytes)])
      BY DEF aggregate_window
    <2> QED BY <2>2, <2>3 DEF WindowBytes
  <1>3. WindowBytes \in Nat
    <2> DEFINE f == [i \in DOMAIN window |-> window[i].bytes]
    <2>1. DOMAIN window = 1..Len(window) /\ Len(window) \in Nat
      BY <1>0 DEF StateOK
    <2>2. IsFiniteSet(DOMAIN window)
      BY <2>1, FS_Interval
    <2>3. DOMAIN f = DOMAIN window /\ \A i \in DOMAIN window : f[i] \in Nat
      BY <1>0 DEF StateOK
    <2> HIDE DEF f
    <2>4. Sum(f, DOMAIN window) \in Nat
      BY <2>2, <2>3, SumNat
    <2> QED BY <2>3, <2>4 DEF WindowBytes, Total, f
  <1>4. WindowBytes' = 0
    <2>1. [i \in DOMAIN window' |-> window'[i].bytes] = <<>>
      BY <1>1
    <2> QED BY <2>1, TotalShort DEF WindowBytes
  <1>5. StateOK'
    <2>1. Range(<<>>) = {} /\ <<>> \in Seq({}) /\ DOMAIN <<>> = {}
      BY DEF Range
    <2>2. delivered' \in Nat
      BY <1>0, <1>1, <1>2, <1>3 DEF StateOK
    <2> QED BY <1>0, <1>1, <2>1, <2>2 DEF StateOK, Streams
  <1>6. IntervalBytes' = IntervalBytes /\ Matched(test, last)' = Matched(test, last)
    BY <1>1 DEF IntervalBytes, Matched
  <1>7. IntervalBytes \in Nat
    BY <1>0, DroppedEmpty
  <1>8. BytesOK'
    BY <1>0, <1>1, <1>2, <1>3, <1>4, <1>6, <1>7 DEF BytesOK, StateOK
  <1>9. Due' = Due
    BY <1>1 DEF Due, Total
  <1>10. ReordersOK'
    BY <1>0, <1>1, <1>6, <1>9 DEF ReordersOK, IntervalOk, CountsReorders, Total
  <1>11. SetupOK'
    BY <1>0, <1>1 DEF SetupOK, Streams
  <1> QED BY <1>5, <1>8, <1>10, <1>11 DEF CountsInv

(* Every step keeps the invariant. *)
LEMMA CountsNext ==
  ASSUME CountsInv, [AggregationNext]_aggregationVars
  PROVE  CountsInv'
  <1>1. CASE UNCHANGED aggregationVars
    <2>1. /\ test' = test /\ last' = last /\ reorders' = reorders /\ moved' = moved /\ turn' = turn
          /\ events' = events /\ clean' = clean /\ reported' = reported /\ window' = window
          /\ delivered' = delivered
      BY <1>1 DEF aggregationVars, truth
    <2>2. /\ StateOK' /\ WindowBytes' = WindowBytes /\ IntervalBytes' = IntervalBytes
          /\ (IntervalOk(test, last)' <=> IntervalOk(test, last))
          /\ (CountsReorders(test)' <=> CountsReorders(test))
          /\ Matched(test, last)' = Matched(test, last)
      BY <2>1, StateSame DEF CountsInv
    <2>3. Total(reorders)' = Total(reorders) /\ Due' = Due
      BY <2>1 DEF Total, Due
    <2> QED BY <2>1, <2>2, <2>3 DEF CountsInv, BytesOK, ReordersOK, SetupOK, Streams
  <1> QED BY <1>1, SetUpStep, CollectStep, ReportStep, EncodeStep DEF AggregationNext

(* What the program reports of a run is what happened                      *)
(* (iperf3rs_emit_interval_metrics of src/native/iperf3rs_shim.c,          *)
(* aggregate_window of src/src/metrics.rs): every byte moved is in one     *)
(* summary, or still to be reported, and no reordering is counted twice;   *)
(* none is lost either while the counters go on.                           *)
THEOREM Counted == AggregationSpec => []CountsConserved
  <1>1. CountsInv /\ [AggregationNext]_aggregationVars => CountsInv'
    BY CountsNext
  <1>2. CountsInv => CountsConserved
    <2> SUFFICES ASSUME CountsInv PROVE CountsConserved
      OBVIOUS
    <2>1. reported <= Due /\ (turn = "collect" => Due = reported) /\ Due \in Nat
      <3>1. reported \in Nat
        BY DEF CountsInv, StateOK
      <3>2. Total(reorders) \in Nat
        BY ReordersNat DEF CountsInv
      <3> QED BY <3>1, <3>2 DEF Due
    <2>2. ReorderHonest
      <3>1. reported \in Nat /\ events \in Nat /\ Due <= events
        BY DEF CountsInv, StateOK, ReordersOK
      <3>2. reported <= events
        BY <2>1, <3>1
      <3>3. clean /\ turn = "collect" /\ CountsReorders(test) => reported = events
        BY <2>1 DEF CountsInv, ReordersOK
      <3> QED BY <3>2, <3>3 DEF ReorderHonest
    <2>3. BytesConserved
      <3>1. WindowBytes \in Int
        BY WindowType DEF CountsInv
      <3> QED BY <3>1 DEF CountsInv, BytesOK, BytesConserved, StateOK, WindowBytes
    <2> QED BY <2>2, <2>3 DEF CountsConserved
  <1> QED BY <1>1, <1>2, CountsInitInv, PTL DEF AggregationSpec

-----------------------------------------------------------------------------
(* PrometheusText: a reader of what the encoder writes. *)

(* Where the reader is, and what it has read. *)
At(at, metric, name, value, labels) ==
  [at |-> at, metric |-> metric, name |-> name, value |-> value, labels |-> labels]

NameCharacters == NameLetters \cup NameDigits
TextCharacters == Alphabet \cup NameCharacters \cup {"{", "}", "=", "\"", "\\", "\n", "n", ",", " "}
Texts == Seq(TextCharacters)
Unescaped == TextCharacters \ {"\\", "\"", "\n"}
ReadingPlaces == {"metric", "name", "open", "value", "escape", "close", "closed", "end", "error"}
Readings == [at : ReadingPlaces, metric : Texts, name : Texts, value : Texts, labels : Seq(Texts \X Texts)]

(* What delimits a name is not in it. *)
LEMMA Apart == {"{", " ", "=", "\""} \cap NameCharacters = {}
  BY DEF NameCharacters, NameLetters, NameDigits

(* One character read, at each place that a series leads to. *)
LEMMA MetricOpens ==
  ASSUME NEW m, NEW n, NEW v, NEW l
  PROVE  ReadCharacter(At("metric", m, n, v, l), "{") = At("name", m, n, v, l)
  <1> DEFINE r == At("metric", m, n, v, l)
  <1>0. r = At("metric", m, n, v, l)
    OBVIOUS
  <1> HIDE DEF r
  <1>1. r.at = "metric" /\ r.metric = m /\ r.name = n /\ r.value = v /\ r.labels = l
        /\ [r EXCEPT !.at = "name"] = At("name", m, n, v, l)
    BY <1>0 DEF At
  <1>2. ReadCharacter(r, "{") = At("name", m, n, v, l)
    BY <1>1, Apart DEF ReadCharacter, NameCharacters
  <1> QED BY <1>2 DEF r

LEMMA MetricEnds ==
  ASSUME NEW m, NEW n, NEW v, NEW l
  PROVE  ReadCharacter(At("metric", m, n, v, l), " ") = At("end", m, n, v, l)
  <1> DEFINE r == At("metric", m, n, v, l)
  <1>0. r = At("metric", m, n, v, l)
    OBVIOUS
  <1> HIDE DEF r
  <1>1. r.at = "metric" /\ r.metric = m /\ r.name = n /\ r.value = v /\ r.labels = l
        /\ [r EXCEPT !.at = "end"] = At("end", m, n, v, l)
    BY <1>0 DEF At
  <1>2. ReadCharacter(r, " ") = At("end", m, n, v, l)
    BY <1>1, Apart DEF ReadCharacter, NameCharacters
  <1> QED BY <1>2 DEF r

LEMMA MetricGrows ==
  ASSUME NEW m, NEW n, NEW v, NEW l, NEW c, c \in NameCharacters
  PROVE  ReadCharacter(At("metric", m, n, v, l), c) = At("metric", Append(m, c), n, v, l)
  <1> DEFINE r == At("metric", m, n, v, l)
  <1>0. r = At("metric", m, n, v, l)
    OBVIOUS
  <1> HIDE DEF r
  <1>1. r.at = "metric" /\ r.metric = m /\ r.name = n /\ r.value = v /\ r.labels = l
        /\ [r EXCEPT !.metric = Append(m, c)] = At("metric", Append(m, c), n, v, l)
    BY <1>0 DEF At
  <1>2. ReadCharacter(r, c) = At("metric", Append(m, c), n, v, l)
    BY <1>1, Apart DEF ReadCharacter, NameCharacters
  <1> QED BY <1>2 DEF r

LEMMA NameGrows ==
  ASSUME NEW m, NEW n, NEW v, NEW l, NEW c, c \in NameCharacters
  PROVE  ReadCharacter(At("name", m, n, v, l), c) = At("name", m, Append(n, c), v, l)
  <1> DEFINE r == At("name", m, n, v, l)
  <1>0. r = At("name", m, n, v, l)
    OBVIOUS
  <1> HIDE DEF r
  <1>1. r.at = "name" /\ r.metric = m /\ r.name = n /\ r.value = v /\ r.labels = l
        /\ [r EXCEPT !.name = Append(n, c)] = At("name", m, Append(n, c), v, l)
    BY <1>0 DEF At
  <1>2. ReadCharacter(r, c) = At("name", m, Append(n, c), v, l)
    BY <1>1, Apart DEF ReadCharacter, NameCharacters
  <1> QED BY <1>2 DEF r

LEMMA NameEnds ==
  ASSUME NEW m, NEW n, NEW v, NEW l
  PROVE  ReadCharacter(At("name", m, n, v, l), "=") = At("open", m, n, v, l)
  <1> DEFINE r == At("name", m, n, v, l)
  <1>0. r = At("name", m, n, v, l)
    OBVIOUS
  <1> HIDE DEF r
  <1>1. r.at = "name" /\ r.metric = m /\ r.name = n /\ r.value = v /\ r.labels = l
        /\ [r EXCEPT !.at = "open"] = At("open", m, n, v, l)
    BY <1>0 DEF At
  <1>2. ReadCharacter(r, "=") = At("open", m, n, v, l)
    BY <1>1, Apart DEF ReadCharacter, NameCharacters
  <1> QED BY <1>2 DEF r

LEMMA ValueOpens ==
  ASSUME NEW m, NEW n, NEW v, NEW l
  PROVE  ReadCharacter(At("open", m, n, v, l), "\"") = At("value", m, n, v, l)
  <1> DEFINE r == At("open", m, n, v, l)
  <1>0. r = At("open", m, n, v, l)
    OBVIOUS
  <1> HIDE DEF r
  <1>1. r.at = "open" /\ r.metric = m /\ r.name = n /\ r.value = v /\ r.labels = l
        /\ [r EXCEPT !.at = "value"] = At("value", m, n, v, l)
    BY <1>0 DEF At
  <1>2. ReadCharacter(r, "\"") = At("value", m, n, v, l)
    BY <1>1 DEF ReadCharacter
  <1> QED BY <1>2 DEF r

LEMMA EscapeOpens ==
  ASSUME NEW m, NEW n, NEW v, NEW l
  PROVE  ReadCharacter(At("value", m, n, v, l), "\\") = At("escape", m, n, v, l)
  <1> DEFINE r == At("value", m, n, v, l)
  <1>0. r = At("value", m, n, v, l)
    OBVIOUS
  <1> HIDE DEF r
  <1>1. r.at = "value" /\ r.metric = m /\ r.name = n /\ r.value = v /\ r.labels = l
        /\ [r EXCEPT !.at = "escape"] = At("escape", m, n, v, l)
    BY <1>0 DEF At
  <1>2. ReadCharacter(r, "\\") = At("escape", m, n, v, l)
    BY <1>1 DEF ReadCharacter
  <1> QED BY <1>2 DEF r

LEMMA ValueEnds ==
  ASSUME NEW m, NEW n, NEW v, NEW l
  PROVE  ReadCharacter(At("value", m, n, v, l), "\"") = At("close", m, <<>>, <<>>, Append(l, <<n, v>>))
  <1> DEFINE r == At("value", m, n, v, l)
  <1>0. r = At("value", m, n, v, l)
    OBVIOUS
  <1> HIDE DEF r
  <1>1. r.at = "value" /\ r.metric = m /\ r.name = n /\ r.value = v /\ r.labels = l
    BY <1>0 DEF At
  <1>2. ReadCharacter(r, "\"") = At("close", m, <<>>, <<>>, Append(l, <<n, v>>))
    BY <1>1 DEF ReadCharacter, At
  <1> QED BY <1>2 DEF r

LEMMA ValueGrows ==
  ASSUME NEW m, NEW n, NEW v, NEW l, NEW c \in Unescaped
  PROVE  ReadCharacter(At("value", m, n, v, l), c) = At("value", m, n, Append(v, c), l)
  <1> DEFINE r == At("value", m, n, v, l)
  <1>0. r = At("value", m, n, v, l)
    OBVIOUS
  <1> HIDE DEF r
  <1>1. r.at = "value" /\ r.metric = m /\ r.name = n /\ r.value = v /\ r.labels = l
        /\ \A x : [r EXCEPT !.value = x] = At("value", m, n, x, l)
    BY <1>0 DEF At
  <1>2. [r EXCEPT !.value = Append(v, c)] = At("value", m, n, Append(v, c), l)
    BY <1>1, Zenon
  <1>3. ReadCharacter(r, c) = At("value", m, n, Append(v, c), l)
    BY <1>1, <1>2 DEF ReadCharacter, Unescaped
  <1> QED BY <1>3 DEF r

LEMMA EscapedKept ==
  ASSUME NEW m, NEW n, NEW v, NEW l, NEW c, c \in {"\\", "\""}
  PROVE  ReadCharacter(At("escape", m, n, v, l), c) = At("value", m, n, Append(v, c), l)
  <1> DEFINE r == At("escape", m, n, v, l)
  <1>0. r = At("escape", m, n, v, l)
    OBVIOUS
  <1> HIDE DEF r
  <1>1. r.at = "escape" /\ r.metric = m /\ r.name = n /\ r.value = v /\ r.labels = l
        /\ [r EXCEPT !.at = "value", !.value = Append(v, c)] = At("value", m, n, Append(v, c), l)
    <2>1. [r EXCEPT !.at = "value"] = At("value", m, n, v, l)
      BY ONLY <1>0 DEF At
    <2>2. [At("value", m, n, v, l) EXCEPT !.value = Append(v, c)] = At("value", m, n, Append(v, c), l)
      BY ONLY TRUE DEF At
    <2>3. [r EXCEPT !.at = "value", !.value = Append(v, c)] =
            [[r EXCEPT !.at = "value"] EXCEPT !.value = Append(v, c)]
      OBVIOUS
    <2>4. [r EXCEPT !.at = "value", !.value = Append(v, c)] = At("value", m, n, Append(v, c), l)
      BY <2>1, <2>2, <2>3
    <2>5. r.at = "escape" /\ r.metric = m /\ r.name = n /\ r.value = v /\ r.labels = l
      BY <1>0 DEF At
    <2> QED BY <2>4, <2>5
  <1>2. ReadCharacter(r, c) = At("value", m, n, Append(v, c), l)
    BY <1>1 DEF ReadCharacter
  <1> QED BY <1>2 DEF r

LEMMA ValueWritten ==
  ASSUME NEW at, NEW m, NEW n, NEW v, NEW l, NEW w
  PROVE  [At(at, m, n, v, l) EXCEPT !.value = w] = At(at, m, n, w, l)
  BY ONLY TRUE DEF At

LEMMA EscapedNewline ==
  ASSUME NEW m, NEW n, NEW v, NEW l
  PROVE  ReadCharacter(At("escape", m, n, v, l), "n") = At("value", m, n, Append(v, "\n"), l)
  <1> DEFINE r == At("escape", m, n, v, l)
  <1>0. r = At("escape", m, n, v, l)
    OBVIOUS
  <1> HIDE DEF r
  <1>1. r.at = "escape" /\ r.metric = m /\ r.name = n /\ r.value = v /\ r.labels = l
        /\ [r EXCEPT !.at = "value", !.value = Append(v, "\n")] = At("value", m, n, Append(v, "\n"), l)
    <2>1. [r EXCEPT !.at = "value"] = At("value", m, n, v, l)
      BY <1>0 DEF At
    <2>2. [At("value", m, n, v, l) EXCEPT !.value = Append(v, "\n")] = At("value", m, n, Append(v, "\n"), l)
      <3>1. PICK w : w = Append(v, "\n")
        OBVIOUS
      <3>2. [At("value", m, n, v, l) EXCEPT !.value = w] = At("value", m, n, w, l)
        BY ONLY ValueWritten
      <3> QED BY ONLY <3>1, <3>2
    <2>3. [r EXCEPT !.at = "value", !.value = Append(v, "\n")] =
            [[r EXCEPT !.at = "value"] EXCEPT !.value = Append(v, "\n")]
      OBVIOUS
    <2>4. [r EXCEPT !.at = "value", !.value = Append(v, "\n")] = At("value", m, n, Append(v, "\n"), l)
      BY <2>1, <2>2, <2>3
    <2>5. r.at = "escape" /\ r.metric = m /\ r.name = n /\ r.value = v /\ r.labels = l
      BY <1>0 DEF At
    <2> QED BY <2>4, <2>5
  <1>2. ReadCharacter(r, "n") = At("value", m, n, Append(v, "\n"), l)
    BY <1>1 DEF ReadCharacter
  <1> QED BY <1>2 DEF r

LEMMA NextLabel ==
  ASSUME NEW m, NEW n, NEW v, NEW l
  PROVE  ReadCharacter(At("close", m, n, v, l), ",") = At("name", m, n, v, l)
  <1> DEFINE r == At("close", m, n, v, l)
  <1>0. r = At("close", m, n, v, l)
    OBVIOUS
  <1> HIDE DEF r
  <1>1. r.at = "close" /\ r.metric = m /\ r.name = n /\ r.value = v /\ r.labels = l
        /\ [r EXCEPT !.at = "name"] = At("name", m, n, v, l)
    BY <1>0 DEF At
  <1>2. ReadCharacter(r, ",") = At("name", m, n, v, l)
    BY <1>1 DEF ReadCharacter
  <1> QED BY <1>2 DEF r

LEMMA LabelsEnd ==
  ASSUME NEW m, NEW n, NEW v, NEW l
  PROVE  ReadCharacter(At("close", m, n, v, l), "}") = At("closed", m, n, v, l)
  <1> DEFINE r == At("close", m, n, v, l)
  <1>0. r = At("close", m, n, v, l)
    OBVIOUS
  <1> HIDE DEF r
  <1>1. r.at = "close" /\ r.metric = m /\ r.name = n /\ r.value = v /\ r.labels = l
        /\ [r EXCEPT !.at = "closed"] = At("closed", m, n, v, l)
    BY <1>0 DEF At
  <1>2. ReadCharacter(r, "}") = At("closed", m, n, v, l)
    BY <1>1 DEF ReadCharacter
  <1> QED BY <1>2 DEF r

LEMMA LineEnds ==
  ASSUME NEW m, NEW n, NEW v, NEW l
  PROVE  ReadCharacter(At("closed", m, n, v, l), " ") = At("end", m, n, v, l)
  <1> DEFINE r == At("closed", m, n, v, l)
  <1>0. r = At("closed", m, n, v, l)
    OBVIOUS
  <1> HIDE DEF r
  <1>1. r.at = "closed" /\ r.metric = m /\ r.name = n /\ r.value = v /\ r.labels = l
        /\ [r EXCEPT !.at = "end"] = At("end", m, n, v, l)
    BY <1>0 DEF At
  <1>2. ReadCharacter(r, " ") = At("end", m, n, v, l)
    BY <1>1 DEF ReadCharacter
  <1> QED BY <1>2 DEF r

(* Reading keeps a reading a reading. *)
LEMMA ReadType ==
  ASSUME NEW r \in Readings, NEW c \in TextCharacters
  PROVE  ReadCharacter(r, c) \in Readings
  <1>1. /\ r.metric \in Texts /\ r.name \in Texts /\ r.value \in Texts
        /\ r.labels \in Seq(Texts \X Texts)
    BY DEF Readings
  <1>2. /\ Append(r.metric, c) \in Texts /\ Append(r.name, c) \in Texts /\ Append(r.value, c) \in Texts
        /\ Append(r.value, IF c = "n" THEN "\n" ELSE c) \in Texts /\ <<>> \in Texts
    <2>1. (IF c = "n" THEN "\n" ELSE c) \in TextCharacters
      BY DEF TextCharacters
    <2>2. \A x \in TextCharacters, w \in Texts : Append(w, x) \in Texts
      BY DEF Texts
    <2>3. <<>> \in Texts
      BY DEF Texts
    <2> QED BY <1>1, <2>1, <2>2, <2>3
  <1>3. Append(r.labels, <<r.name, r.value>>) \in Seq(Texts \X Texts)
    BY <1>1
  <1>4. \A x \in Texts : [r EXCEPT !.metric = x] \in Readings /\ [r EXCEPT !.name = x] \in Readings
                         /\ [r EXCEPT !.value = x] \in Readings
    BY DEF Readings
  <1>5. \A a \in ReadingPlaces, x \in Texts : [r EXCEPT !.at = a] \in Readings
                         /\ [r EXCEPT !.at = a, !.value = x] \in Readings
    BY DEF Readings
  <1>6. \A x \in Seq(Texts \X Texts) : At("close", r.metric, <<>>, <<>>, x) \in Readings
    <2>1. <<>> \in Texts
      BY <1>2
    <2> QED BY <1>1, <2>1 DEF Readings, At, ReadingPlaces
  <1>7. /\ [r EXCEPT !.at = "name"] \in Readings /\ [r EXCEPT !.at = "end"] \in Readings
        /\ [r EXCEPT !.at = "open"] \in Readings /\ [r EXCEPT !.at = "value"] \in Readings
        /\ [r EXCEPT !.at = "escape"] \in Readings /\ [r EXCEPT !.at = "error"] \in Readings
        /\ [r EXCEPT !.at = "closed"] \in Readings
    BY <1>5, <1>2 DEF ReadingPlaces
  <1>8. /\ [r EXCEPT !.metric = Append(r.metric, c)] \in Readings
        /\ [r EXCEPT !.name = Append(r.name, c)] \in Readings
        /\ [r EXCEPT !.value = Append(r.value, c)] \in Readings
        /\ [r EXCEPT !.at = "value", !.value = Append(r.value, IF c = "n" THEN "\n" ELSE c)] \in Readings
    BY <1>2, <1>4, <1>5 DEF ReadingPlaces
  <1>9. [at |-> "close", metric |-> r.metric, name |-> <<>>, value |-> <<>>,
         labels |-> Append(r.labels, <<r.name, r.value>>)] \in Readings
    BY <1>3, <1>6 DEF At
  <1> HIDE DEF Readings, Texts
  <1> QED BY <1>7, <1>8, <1>9 DEF ReadCharacter

(* The reader is a fold. *)
LEMMA ReadFold ==
  ASSUME NEW line \in Texts
  PROVE  /\ ReadSeries(line) \in Readings
         /\ Folded([p \in Readings \X TextCharacters |-> ReadCharacter(p[1], p[2])],
                   Reading("metric"), line, ReadSeries(line))
  <1> DEFINE base == Reading("metric")
             n == Len(line)
             F == [p \in Readings \X TextCharacters |-> ReadCharacter(p[1], p[2])]
             Body(it) == [t \in SUBSET DOMAIN line |->
                            IF t = {} THEN base ELSE ReadCharacter(it[t \ {Max(t)}], line[Max(t)])]
             f == CHOOSE it : it = Body(it)
  <1>1. ReadSeries(line) = f[DOMAIN line]
    BY Zenon DEF FoldLeft, MapThenFoldSet, ReadSeries
  <1>2. base \in Readings /\ F \in [Readings \X TextCharacters -> Readings]
    <2>1. <<>> \in Texts /\ <<>> \in Seq(Texts \X Texts)
      BY DEF Texts
    <2>2. base \in Readings
      BY <2>1 DEF Reading, Readings, ReadingPlaces
    <2> QED BY <2>2, ReadType
  <1>3. DOMAIN line = 1..n /\ n \in Nat /\ \A i \in 1..n : line[i] \in TextCharacters
    BY DEF Texts
  <1>4. \A v \in Readings, x \in TextCharacters : F[<<v, x>>] = ReadCharacter(v, x)
    OBVIOUS
  <1> HIDE DEF F, base
  <1>5. Iterable(F, base, line, Readings, n)
    BY <1>2, IterationExists, Zenon DEF Texts
  <1>6. PICK h \in [SUBSET (1..n) -> Readings] : Iterates(F, base, line, h, n)
    BY <1>5 DEF Iterable
  <1>7. \A t \in SUBSET (1..n) : t # {} => t \ {Max(t)} \in SUBSET (1..n) /\ line[Max(t)] \in TextCharacters
    BY <1>3, MaxInSet
  <1>8. h = Body(h)
    <2>1. \A t \in SUBSET (1..n) : t # {} =>
            F[<<h[t \ {Max(t)}], line[Max(t)]>>] = ReadCharacter(h[t \ {Max(t)}], line[Max(t)])
      BY <1>4, <1>6, <1>7
    <2> QED BY <1>3, <1>6, <2>1, Zenon DEF Iterates
  <1>9. f = Body(f)
    BY <1>8, Zenon
  <1> HIDE DEF f, n
  <1>10. \A t \in SUBSET (1..n) :
            f[t] = IF t = {} THEN base ELSE ReadCharacter(f[t \ {Max(t)}], line[Max(t)])
    BY <1>3, <1>9, Zenon
  <1>11. f[{}] = base
    BY <1>10
  <1>12. \A t \in SUBSET (1..n) : t # {} /\ f[t \ {Max(t)}] \in Readings =>
            f[t] = F[<<f[t \ {Max(t)}], line[Max(t)]>>]
    BY <1>4, <1>7, <1>10
  <1>13. f[1..n] \in Readings /\ Folded(F, base, line, f[1..n])
    <2>1. Follows(F, base, line, Readings, f)
      BY <1>11, <1>12 DEF Follows, n
    <2> QED BY <1>2, <2>1, IterationRuns, Zenon DEF n, Texts
  <1> QED BY <1>1, <1>3, <1>13 DEF F, base

(* Nothing is read of nothing. *)
LEMMA ReadEmpty == ReadSeries(<<>>) = At("metric", <<>>, <<>>, <<>>, <<>>)
  <1>1. <<>> \in Texts
    BY DEF Texts
  <1>2. ReadSeries(<<>>) = Reading("metric")
    BY <1>1, ReadFold, FoldedEmpty, Zenon
  <1> QED BY <1>2 DEF Reading, At

(* A character more of the line is a character more read. *)
LEMMA ReadAppend ==
  ASSUME NEW line \in Texts, NEW c \in TextCharacters
  PROVE  ReadSeries(Append(line, c)) = ReadCharacter(ReadSeries(line), c)
  <1> DEFINE F == [p \in Readings \X TextCharacters |-> ReadCharacter(p[1], p[2])]
  <1>1. Append(line, c) \in Texts
    BY DEF Texts
  <1>2. ReadSeries(line) \in Readings
    BY ReadFold
  <1>3. ReadSeries(Append(line, c)) = F[<<ReadSeries(line), c>>]
    BY <1>1, ReadFold, FoldedAppend, Zenon DEF Texts
  <1> QED BY <1>2, <1>3

(* A sequence over a set is one over a larger set. *)
LEMMA WiderSeq ==
  ASSUME NEW S, NEW T, S \subseteq T, NEW s \in Seq(S)
  PROVE  s \in Seq(T)
  OBVIOUS

(* Short ends of a text. *)
LEMMA TextEnds ==
  ASSUME NEW s \in Texts, NEW x \in TextCharacters, NEW y \in TextCharacters
  PROVE  /\ Append(s, x) \in Texts /\ s \o <<x>> = Append(s, x)
         /\ s \o <<x, y>> = Append(Append(s, x), y) /\ Append(Append(s, x), y) \in Texts
         /\ <<x>> \in Texts /\ <<x, y>> \in Texts /\ <<>> \in Texts
  <1>1. <<x>> \in Texts /\ <<x, y>> \in Texts /\ <<>> \in Texts /\ <<y>> \in Texts
    BY DEF Texts
  <1>2. \A w \in Texts, z \in TextCharacters : Append(w, z) \in Texts /\ w \o <<z>> = Append(w, z)
    BY AppendIsConcat DEF Texts
  <1>3. s \o <<x, y>> = Append(Append(s, x), y)
    <2> DEFINE a == s \o <<x, y>>
               b == Append(Append(s, x), y)
    <2>1. /\ b \in Seq(TextCharacters) /\ Len(b) = Len(s) + 2 /\ Len(s) \in Nat
          /\ b[Len(s) + 1] = x /\ b[Len(s) + 2] = y /\ \A i \in 1..Len(s) : b[i] = s[i]
      <3>1. \A w : w = Append(Append(s, x), y) =>
              /\ w \in Seq(TextCharacters) /\ Len(w) = Len(s) + 2 /\ Len(s) \in Nat
              /\ w[Len(s) + 1] = x /\ w[Len(s) + 2] = y /\ \A i \in 1..Len(s) : w[i] = s[i]
        <4> TAKE w
        <4>1. s \in Seq(TextCharacters)
          BY DEF Texts
        <4> QED BY <4>1, TwoMore
      <3> QED BY <3>1
    <2>2. Len(<<x, y>>) = 2 /\ <<x, y>>[1] = x /\ <<x, y>>[2] = y
      OBVIOUS
    <2>3. /\ a \in Seq(TextCharacters) /\ Len(a) = Len(s) + Len(<<x, y>>)
          /\ \A i \in 1..Len(s) + Len(<<x, y>>) :
               a[i] = IF i <= Len(s) THEN s[i] ELSE <<x, y>>[i - Len(s)]
      BY <1>1, ConcatProperties, Zenon DEF Texts
    <2> HIDE DEF a, b
    <2>4. \A i \in 1..Len(s) + 2 : a[i] = b[i]
      <3> TAKE i \in 1..Len(s) + 2
      <3>1. i \in 1..Len(s) \/ i = Len(s) + 1 \/ i = Len(s) + 2
        BY <2>1
      <3>2. CASE i \in 1..Len(s)
        BY <2>1, <2>2, <2>3, <3>2
      <3>3. CASE i = Len(s) + 1
        <4>1. ~(i <= Len(s)) /\ i - Len(s) = 1
          BY <2>1, <3>3
        <4> QED BY <2>1, <2>2, <2>3, <3>3, <4>1
      <3>4. CASE i = Len(s) + 2
        <4>1. ~(i <= Len(s)) /\ i - Len(s) = 2
          BY <2>1, <3>4
        <4> QED BY <2>1, <2>2, <2>3, <3>4, <4>1
      <3> QED BY <3>1, <3>2, <3>3, <3>4
    <2>5. a = b
      BY <2>1, <2>2, <2>3, <2>4, SeqEqual
    <2> QED BY <2>5 DEF a, b
  <1> QED BY <1>1, <1>2, <1>3

(* What is read of characters that are kept as they are. *)
LEMMA ReadKept ==
  ASSUME NEW S \in SUBSET TextCharacters, NEW F, NEW line \in Texts, NEW word \in Texts,
         \A w \in Texts, c \in S : ReadCharacter(F[w], c) = F[Append(w, c)],
         ReadSeries(line) = F[word]
  PROVE  \A t \in Seq(S) :
           line \o t \in Texts /\ word \o t \in Texts /\ ReadSeries(line \o t) = F[word \o t]
  <1> DEFINE Reads(t) == line \o t \in Texts /\ word \o t \in Texts
                         /\ ReadSeries(line \o t) = F[word \o t]
             P == {n \in Nat : \A t \in Seq(S) : Len(t) = n => Reads(t)}
  <1>1. 0 \in P
    <2>1. line \o <<>> = line /\ word \o <<>> = word
      BY ConcatEmptySeq DEF Texts
    <2>2. \A t \in Seq(S) : Len(t) = 0 => t = <<>>
      BY EmptySeq
    <2> QED BY <2>1, <2>2
  <1>2. ASSUME NEW n \in Nat, n \in P PROVE n + 1 \in P
    <2> SUFFICES ASSUME NEW t \in Seq(S), Len(t) = n + 1 PROVE Reads(t)
      OBVIOUS
    <2>1. PICK u \in Seq(S), c \in S :
            /\ t = Append(u, c) /\ Len(u) = n /\ t[n + 1] = c
            /\ \A i \in 1..n : u[i] = t[i]
      BY SplitLast, Zenon
    <2>2. Reads(u)
      BY <1>2, <2>1
    <2>3. u \in Texts /\ c \in TextCharacters
      BY WiderSeq DEF Texts
    <2>4. line \o t = Append(line \o u, c) /\ word \o t = Append(word \o u, c)
      BY <2>1, <2>3, AppendToConcat DEF Texts
    <2>5. Append(line \o u, c) \in Texts /\ Append(word \o u, c) \in Texts
      BY <2>2, <2>3, TextEnds
    <2>6. ReadSeries(Append(line \o u, c)) = ReadCharacter(F[word \o u], c)
      BY <2>2, <2>3, ReadAppend
    <2> QED BY <2>2, <2>4, <2>5, <2>6, Zenon
  <1> HIDE DEF P
  <1>3. Nat \subseteq P
    BY <1>1, <1>2, SetInduction
  <1> QED BY <1>3 DEF P

(* Texts that are joined. *)
None == <<>>
One(c) == <<c>>
Join(p, q) == p \o q

(* A name, of a metric or of a label. *)
LEMMA ReadName ==
  ASSUME NEW line \in Texts, NEW m \in Texts, NEW n \in Texts, NEW v, NEW l,
         NEW t \in Seq(NameCharacters)
  PROVE  /\ Join(line, t) \in Texts /\ Join(m, t) \in Texts /\ Join(n, t) \in Texts
         /\ ReadSeries(line) = At("metric", m, n, v, l) =>
              ReadSeries(Join(line, t)) = At("metric", Join(m, t), n, v, l)
         /\ ReadSeries(line) = At("name", m, n, v, l) =>
              ReadSeries(Join(line, t)) = At("name", m, Join(n, t), v, l)
  <1>1. NameCharacters \in SUBSET TextCharacters
    BY DEF TextCharacters
  <1>2. t \in Texts
    BY <1>1, WiderSeq DEF Texts
  <1>3. line \o t \in Texts /\ m \o t \in Texts /\ n \o t \in Texts
    BY <1>2, ConcatType DEF Texts
  <1>4. ASSUME ReadSeries(line) = At("metric", m, n, v, l)
        PROVE  ReadSeries(line \o t) = At("metric", m \o t, n, v, l)
    <2> DEFINE F == [w \in Texts |-> At("metric", w, n, v, l)]
    <2>1. \A w \in Texts, c \in NameCharacters : ReadCharacter(F[w], c) = F[Append(w, c)]
      <3> TAKE w \in Texts, c \in NameCharacters
      <3>1. Append(w, c) \in Texts
        BY <1>1, TextEnds
      <3>2. ReadCharacter(At("metric", w, n, v, l), c) = At("metric", Append(w, c), n, v, l)
        BY MetricGrows
      <3> QED BY <3>1, <3>2
    <2>2. \A w \in Texts : F[w] = At("metric", w, n, v, l)
      OBVIOUS
    <2> HIDE DEF F
    <2>3. ReadSeries(line) = F[m]
      BY <1>4, <2>2
    <2>4. ReadSeries(line \o t) = F[m \o t]
      BY <1>1, <2>1, <2>3, ReadKept
    <2> QED BY <1>3, <2>2, <2>4
  <1>5. ASSUME ReadSeries(line) = At("name", m, n, v, l)
        PROVE  ReadSeries(line \o t) = At("name", m, n \o t, v, l)
    <2> DEFINE F == [w \in Texts |-> At("name", m, w, v, l)]
    <2>1. \A w \in Texts, c \in NameCharacters : ReadCharacter(F[w], c) = F[Append(w, c)]
      <3> TAKE w \in Texts, c \in NameCharacters
      <3>1. Append(w, c) \in Texts
        BY <1>1, TextEnds
      <3>2. ReadCharacter(At("name", m, w, v, l), c) = At("name", m, Append(w, c), v, l)
        BY NameGrows
      <3> QED BY <3>1, <3>2
    <2>2. \A w \in Texts : F[w] = At("name", m, w, v, l)
      OBVIOUS
    <2> HIDE DEF F
    <2>3. ReadSeries(line) = F[n]
      BY <1>5, <2>2
    <2>4. ReadSeries(line \o t) = F[n \o t]
      BY <1>1, <2>1, <2>3, ReadKept
    <2> QED BY <1>3, <2>2, <2>4
  <1> QED BY <1>3, <1>4, <1>5 DEF Join

(* A character of a value is read back from its escaped form. *)
LEMMA ReadEscaped ==
  ASSUME NEW line \in Texts, NEW m, NEW n, NEW v \in Texts, NEW l, NEW c \in TextCharacters,
         ReadSeries(line) = At("value", m, n, v, l)
  PROVE  /\ Escaped(c) \in Texts /\ line \o Escaped(c) \in Texts
         /\ ReadSeries(line \o Escaped(c)) = At("value", m, n, Append(v, c), l)
  <1>0. {"\\", "\"", "n"} \subseteq TextCharacters
    BY DEF TextCharacters
  <1>1. ASSUME NEW x \in TextCharacters, NEW y \in TextCharacters, Escaped(c) = <<x, y>>
        PROVE  /\ Escaped(c) \in Texts /\ line \o Escaped(c) \in Texts
               /\ ReadSeries(line \o Escaped(c)) = ReadCharacter(ReadCharacter(ReadSeries(line), x), y)
    <2>1. /\ <<x, y>> \in Texts /\ line \o <<x, y>> = Append(Append(line, x), y)
          /\ Append(line, x) \in Texts /\ Append(Append(line, x), y) \in Texts
      BY TextEnds, Zenon
    <2>2. /\ ReadSeries(Append(Append(line, x), y)) = ReadCharacter(ReadSeries(Append(line, x)), y)
          /\ ReadSeries(Append(line, x)) = ReadCharacter(ReadSeries(line), x)
      BY <2>1, ReadAppend, Zenon
    <2> QED BY <1>1, <2>1, <2>2, Zenon
  <1>2. CASE c = "\\"
    <2>1. Escaped(c) = <<"\\", "\\">>
      BY <1>2 DEF Escaped
    <2>2. ReadCharacter(ReadCharacter(ReadSeries(line), "\\"), "\\") = At("value", m, n, Append(v, c), l)
      <3>1. ReadCharacter(ReadSeries(line), "\\") = At("escape", m, n, v, l)
        BY EscapeOpens
      <3>2. ReadCharacter(At("escape", m, n, v, l), c) = At("value", m, n, Append(v, c), l)
        BY <1>2, EscapedKept
      <3> QED BY <1>2, <3>1, <3>2
    <2> QED BY <1>0, <1>1, <2>1, <2>2
  <1>3. CASE c = "\""
    <2>1. Escaped(c) = <<"\\", "\"">>
      BY <1>3 DEF Escaped
    <2>2. ReadCharacter(ReadCharacter(ReadSeries(line), "\\"), "\"") = At("value", m, n, Append(v, c), l)
      <3>1. ReadCharacter(ReadSeries(line), "\\") = At("escape", m, n, v, l)
        BY EscapeOpens
      <3>2. ReadCharacter(At("escape", m, n, v, l), c) = At("value", m, n, Append(v, c), l)
        BY <1>3, EscapedKept
      <3> QED BY <1>3, <3>1, <3>2
    <2> QED BY <1>0, <1>1, <2>1, <2>2
  <1>4. CASE c = "\n"
    <2>1. Escaped(c) = <<"\\", "n">>
      BY <1>4 DEF Escaped
    <2>2. ReadCharacter(ReadCharacter(ReadSeries(line), "\\"), "n") = At("value", m, n, Append(v, c), l)
      <3>1. ReadCharacter(ReadSeries(line), "\\") = At("escape", m, n, v, l)
        BY EscapeOpens
      <3>2. ReadCharacter(At("escape", m, n, v, l), "n") = At("value", m, n, Append(v, "\n"), l)
        BY EscapedNewline
      <3> QED BY <1>4, <3>1, <3>2
    <2> QED BY <1>0, <1>1, <2>1, <2>2
  <1>5. CASE c \notin {"\\", "\"", "\n"}
    <2>1. Escaped(c) = <<c>>
      BY <1>5 DEF Escaped
    <2>2. ReadCharacter(ReadSeries(line), c) = At("value", m, n, Append(v, c), l)
      <3>1. ReadCharacter(At("value", m, n, v, l), c) = At("value", m, n, Append(v, c), l)
        <4>1. c \in Unescaped
          BY <1>5 DEF Unescaped
        <4> QED BY <4>1, ValueGrows
      <3> QED BY <3>1
    <2>3. <<c>> \in Texts /\ line \o <<c>> = Append(line, c) /\ Append(line, c) \in Texts
      BY TextEnds, Zenon
    <2>4. ReadSeries(Append(line, c)) = ReadCharacter(ReadSeries(line), c)
      BY ReadAppend
    <2> QED BY <2>1, <2>2, <2>3, <2>4
  <1> QED BY <1>2, <1>3, <1>4, <1>5

(* The pieces of a text that grows are those there were and one more.      *)
LEMMA PiecesAppend ==
  ASSUME NEW s \in Texts, NEW c \in TextCharacters
  PROVE  [i \in DOMAIN Append(s, c) |-> Escaped(Append(s, c)[i])] =
           Append([i \in DOMAIN s |-> Escaped(s[i])], Escaped(c))
  <1> DEFINE t == Append(s, c)
             n == Len(s)
             f == [i \in DOMAIN s |-> Escaped(s[i])]
  <1>1. n \in Nat /\ DOMAIN s = 1..n /\ DOMAIN t = 1..n + 1 /\ t[n + 1] = c
        /\ \A i \in 1..n : t[i] = s[i]
    BY DEF Texts
  <1>2. Len(f) = n /\ Append(f, Escaped(c)) = [i \in 1..n + 1 |-> IF i = n + 1 THEN Escaped(c) ELSE f[i]]
    BY <1>1
  <1>3. \A i \in 1..n + 1 : Escaped(t[i]) = IF i = n + 1 THEN Escaped(c) ELSE f[i]
    <2> TAKE i \in 1..n + 1
    <2>1. i = n + 1 \/ i \in 1..n
      BY <1>1
    <2> QED BY <1>1, <2>1
  <1> QED BY <1>1, <1>2, <1>3

(* A value is read back from its escaped form. *)
LEMMA ReadValue ==
  ASSUME NEW line \in Texts, NEW m, NEW n, NEW l,
         ReadSeries(line) = At("value", m, n, <<>>, l)
  PROVE  \A v \in Texts :
           LET esc == FlattenSeq([i \in DOMAIN v |-> Escaped(v[i])])
           IN esc \in Texts /\ line \o esc \in Texts
              /\ ReadSeries(line \o esc) = At("value", m, n, v, l)
  <1> DEFINE Parts(v) == [i \in DOMAIN v |-> Escaped(v[i])]
             Esc(v) == FlattenSeq(Parts(v))
             Reads(v) == /\ Parts(v) \in Seq(Texts)
                         /\ Esc(v) \in Texts /\ line \o Esc(v) \in Texts
                         /\ ReadSeries(line \o Esc(v)) = At("value", m, n, v, l)
             P == {k \in Nat : \A v \in Texts : Len(v) = k => Reads(v)}
  <1>1. 0 \in P
    <2> SUFFICES ASSUME NEW v \in Texts, Len(v) = 0 PROVE Reads(v)
      OBVIOUS
    <2>1. v = <<>>
      BY EmptySeq DEF Texts
    <2>2. Parts(v) = <<>>
      BY <2>1
    <2>3. Esc(v) = <<>>
      BY <2>2, FlattenEmpty
    <2>4. line \o <<>> = line /\ <<>> \in Texts /\ <<>> \in Seq(Texts)
      BY ConcatEmptySeq DEF Texts
    <2> QED BY <2>1, <2>2, <2>3, <2>4
  <1>2. ASSUME NEW k \in Nat, k \in P PROVE k + 1 \in P
    <2> SUFFICES ASSUME NEW v \in Texts, Len(v) = k + 1 PROVE Reads(v)
      OBVIOUS
    <2>1. PICK u \in Texts, c \in TextCharacters :
            /\ v = Append(u, c) /\ Len(u) = k /\ v[k + 1] = c
            /\ \A i \in 1..k : u[i] = v[i]
      BY SplitLast, Zenon DEF Texts
    <2>2. Reads(u)
      BY <1>2, <2>1
    <2>3. Parts(v) = Append(Parts(u), Escaped(c))
      BY <2>1, PiecesAppend
    <2> HIDE DEF Parts
    <2>4. /\ Escaped(c) \in Texts
          /\ ReadSeries((line \o Esc(u)) \o Escaped(c)) = At("value", m, n, Append(u, c), l)
          /\ (line \o Esc(u)) \o Escaped(c) \in Texts
      BY <2>2, ReadEscaped
    <2>5. Parts(v) \in Seq(Texts)
      BY <2>2, <2>3, <2>4, AppendProperties
    <2>6. Esc(v) = Esc(u) \o Escaped(c)
      BY <2>2, <2>3, <2>4, FlattenAppend, Zenon DEF Texts
    <2>7. Esc(v) \in Texts
      BY <2>2, <2>4, <2>6, ConcatType, Zenon DEF Texts
    <2> HIDE DEF Esc
    <2>8. line \o Esc(v) = (line \o Esc(u)) \o Escaped(c)
      <3>1. line \in Seq(TextCharacters) /\ Esc(u) \in Seq(TextCharacters) /\ Escaped(c) \in Seq(TextCharacters)
        BY <2>2, <2>4 DEF Texts
      <3>2. line \o (Esc(u) \o Escaped(c)) = (line \o Esc(u)) \o Escaped(c)
        BY <3>1, Regrouped
      <3> QED BY <2>6, <3>2
    <2> QED BY <2>1, <2>4, <2>5, <2>7, <2>8
  <1> HIDE DEF P
  <1>3. Nat \subseteq P
    BY <1>1, <1>2, SetInduction
  <1>4. \A v \in Texts : Len(v) \in Nat
    BY DEF Texts
  <1>5. \A v \in Texts : Reads(v)
    BY <1>3, <1>4 DEF P
  <1> QED BY <1>5

-----------------------------------------------------------------------------
(* The parts of LabelSet. *)
Quotes == <<"=", "\"">>
ClosingQuote == One("\"")
EscapedText(v) == FlattenSeq([i \in DOMAIN v |-> Escaped(v[i])])
LabelText(l) == Join(Join(Join(l[1], Quotes), EscapedText(l[2])), ClosingQuote)
Comma(i) == IF i > 1 THEN One(",") ELSE None
NamedTexts == Seq(NameCharacters) \X Texts

(* Characters that the encoder writes of its own. *)
LEMMA Signs == {"=", "\"", "{", "}", ",", " ", "_"} \subseteq TextCharacters /\ "_" \in NameCharacters
               /\ NameCharacters \in SUBSET TextCharacters
  BY DEF TextCharacters, NameCharacters, NameLetters

(* The items of a label set. *)
Items(labels) == [i \in DOMAIN labels |-> Join(Comma(i), LabelText(labels[i]))]

(* Joining is associative. *)
LEMMA JoinTwo ==
  ASSUME NEW p \in Texts, NEW q \in Texts, NEW r \in Texts
  PROVE  Join(p, q) \in Texts /\ Join(p, Join(q, r)) = Join(Join(p, q), r)
  BY Regrouped, ConcatType DEF Texts, Join

LEMMA JoinThree ==
  ASSUME NEW p \in Texts, NEW q \in Texts, NEW r \in Texts, NEW s \in Texts
  PROVE  Join(p, Join(Join(q, r), s)) = Join(Join(Join(p, q), r), s)
  <1>1. Join(q, r) \in Texts
    BY JoinTwo
  <1>2. Join(p, Join(Join(q, r), s)) = Join(Join(p, Join(q, r)), s)
    BY <1>1, JoinTwo
  <1>3. Join(p, Join(q, r)) = Join(Join(p, q), r)
    BY JoinTwo
  <1> QED BY <1>2, <1>3

LEMMA JoinFour ==
  ASSUME NEW p \in Texts, NEW q \in Texts, NEW r \in Texts, NEW s \in Texts, NEW t \in Texts
  PROVE  /\ Join(Join(Join(q, r), s), t) \in Texts
         /\ Join(p, Join(Join(Join(q, r), s), t)) = Join(Join(Join(Join(p, q), r), s), t)
  <1>1. Join(q, r) \in Texts /\ Join(Join(q, r), s) \in Texts
    BY JoinTwo
  <1>2. /\ Join(Join(Join(q, r), s), t) \in Texts
        /\ Join(p, Join(Join(Join(q, r), s), t)) = Join(Join(p, Join(Join(q, r), s)), t)
    BY <1>1, JoinTwo
  <1>3. Join(p, Join(Join(q, r), s)) = Join(Join(Join(p, q), r), s)
    BY JoinThree
  <1> QED BY <1>2, <1>3

(* A single character, or nothing, joined to a text. *)
LEMMA JoinShort ==
  ASSUME NEW s \in Texts, NEW x \in TextCharacters
  PROVE  Join(s, One(x)) = Append(s, x) /\ Append(s, x) \in Texts /\ One(x) \in Texts
         /\ Join(s, None) = s /\ Join(None, s) = s /\ None \in Texts
  <1>1. s \in Seq(TextCharacters)
    BY DEF Texts
  <1>2. s \o <<x>> = Append(s, x) /\ Append(s, x) \in Texts /\ <<x>> \in Texts /\ <<>> \in Texts
    BY TextEnds
  <1>3. s \o <<>> = s /\ <<>> \o s = s
    BY <1>1, ConcatEmptySeq
  <1> QED BY <1>2, <1>3 DEF Join, None, One

(* Names are texts. *)
LEMMA NamesAreTexts ==
  /\ Seq(NameCharacters) \subseteq Texts /\ <<>> \in Texts
  /\ \A x \in NameCharacters : <<x>> \in Seq(NameCharacters)
  <1>1. NameCharacters \subseteq TextCharacters
    BY Signs
  <1>2. \A s \in Seq(NameCharacters) : s \in Seq(TextCharacters)
    BY ONLY <1>1, WiderSeq, Zenon
  <1> QED BY <1>2 DEF Texts

(* The reader before a label's name, after its name, before its value, and *)
(* after the value.                                                        *)
Pair(n, v) == <<n, v>>
Before(m, l) == At("name", m, None, None, l)
After(m, l) == At("close", m, None, None, l)

(* The quotes that close a value close the label. *)
LEMMA ClosesPair ==
  ASSUME NEW m, NEW n, NEW v, NEW l
  PROVE  ReadCharacter(At("value", m, n, v, l), "\"") = After(m, Append(l, Pair(n, v)))
  <1> DEFINE r == At("value", m, n, v, l)
  <1>0. r = At("value", m, n, v, l)
    OBVIOUS
  <1> HIDE DEF r
  <1>1. r.at = "value" /\ r.metric = m /\ r.name = n /\ r.value = v /\ r.labels = l
    BY <1>0 DEF At
  <1>2. ReadCharacter(r, "\"") = After(m, Append(l, Pair(n, v)))
    BY <1>1 DEF ReadCharacter, At, After, Pair, None
  <1> QED BY <1>2 DEF r

(* The name. *)
LEMMA ReadLabelName ==
  ASSUME NEW line \in Texts, NEW m \in Texts, NEW l, NEW a \in Seq(NameCharacters),
         ReadSeries(line) = Before(m, l)
  PROVE  Join(line, a) \in Texts /\ ReadSeries(Join(line, a)) = At("name", m, a, None, l)
  <1>1. Join(None, a) = a /\ None \in Texts
    BY Signs, NamesAreTexts, JoinShort
  <1>2. Join(line, a) \in Texts /\ ReadSeries(Join(line, a)) = At("name", m, Join(None, a), None, l)
    BY <1>1, ReadName DEF Before
  <1> QED BY <1>1, <1>2

(* The sign of equality and the quotes. *)
LEMMA ReadQuotes ==
  ASSUME NEW line \in Texts, NEW m, NEW n, NEW v, NEW l,
         ReadSeries(line) = At("name", m, n, v, l)
  PROVE  /\ Quotes \in Texts /\ Join(line, Quotes) \in Texts
         /\ ReadSeries(Join(line, Quotes)) = At("value", m, n, v, l)
  <1>1. \A x, y \in TextCharacters :
          /\ line \o <<x, y>> = Append(Append(line, x), y) /\ Append(Append(line, x), y) \in Texts
          /\ Append(line, x) \in Texts /\ <<x, y>> \in Texts
    BY TextEnds
  <1>2. PICK x \in TextCharacters : x = "="
    BY Signs
  <1>3. PICK y \in TextCharacters : y = "\""
    BY Signs
  <1>4. ReadSeries(Append(line, x)) = ReadCharacter(ReadSeries(line), x) /\ Append(line, x) \in Texts
    BY <1>1, <1>3, ReadAppend
  <1>5. ReadSeries(Append(Append(line, x), y)) = ReadCharacter(ReadSeries(Append(line, x)), y)
    BY <1>4, ReadAppend
  <1>6. ReadCharacter(At("name", m, n, v, l), "=") = At("open", m, n, v, l)
    BY NameEnds
  <1>7. ReadCharacter(At("open", m, n, v, l), "\"") = At("value", m, n, v, l)
    BY ValueOpens
  <1>8. ReadSeries(Append(Append(line, x), y)) = At("value", m, n, v, l)
    BY <1>2, <1>3, <1>4, <1>5, <1>6, <1>7
  <1>9. /\ line \o <<x, y>> = Append(Append(line, x), y) /\ Append(Append(line, x), y) \in Texts
        /\ <<x, y>> \in Texts
    BY <1>1
  <1>10. PICK q : q = <<x, y>>
    OBVIOUS
  <1>11. q \in Texts /\ Join(line, q) \in Texts /\ ReadSeries(Join(line, q)) = At("value", m, n, v, l)
    BY <1>8, <1>9, <1>10 DEF Join
  <1>12. q = Quotes
    BY <1>2, <1>3, <1>10 DEF Quotes
  <1> QED BY <1>11, <1>12

(* The escaped characters. *)
LEMMA ReadText ==
  ASSUME NEW line \in Texts, NEW m, NEW n, NEW l, NEW v \in Texts,
         ReadSeries(line) = At("value", m, n, None, l)
  PROVE  /\ EscapedText(v) \in Texts /\ Join(line, EscapedText(v)) \in Texts
         /\ ReadSeries(Join(line, EscapedText(v))) = At("value", m, n, v, l)
  <1>1. ReadSeries(line) = At("value", m, n, <<>>, l)
    BY DEF None
  <1>2. \A w \in Texts : FlattenSeq([i \in DOMAIN w |-> Escaped(w[i])]) \in Texts
          /\ line \o FlattenSeq([i \in DOMAIN w |-> Escaped(w[i])]) \in Texts
          /\ ReadSeries(line \o FlattenSeq([i \in DOMAIN w |-> Escaped(w[i])])) = At("value", m, n, w, l)
    BY ONLY <1>1, line \in Texts, ReadValue
  <1> QED BY <1>2 DEF Join, EscapedText

(* The closing quotes. *)
LEMMA ReadClose ==
  ASSUME NEW line \in Texts, NEW m, NEW n, NEW v, NEW l,
         ReadSeries(line) = At("value", m, n, v, l)
  PROVE  /\ ClosingQuote \in Texts /\ Join(line, ClosingQuote) \in Texts
         /\ ReadSeries(Join(line, ClosingQuote)) = After(m, Append(l, Pair(n, v)))
  <1>1. PICK y \in TextCharacters : y = "\""
    BY Signs
  <1>2. Join(line, One(y)) = Append(line, y) /\ Append(line, y) \in Texts /\ One(y) \in Texts
    BY JoinShort
  <1>3. ReadSeries(Append(line, y)) = ReadCharacter(ReadSeries(line), y)
    BY ReadAppend
  <1>4. ReadCharacter(At("value", m, n, v, l), "\"") = After(m, Append(l, Pair(n, v)))
    BY ClosesPair
  <1> QED BY <1>1, <1>2, <1>3, <1>4 DEF ClosingQuote

(* A label. *)
LEMMA ReadPair ==
  ASSUME NEW line \in Texts, NEW m \in Texts, NEW l, NEW a \in Seq(NameCharacters), NEW v \in Texts,
         ReadSeries(line) = Before(m, l)
  PROVE  /\ LabelText(Pair(a, v)) \in Texts /\ Join(line, LabelText(Pair(a, v))) \in Texts
         /\ ReadSeries(Join(line, LabelText(Pair(a, v)))) = After(m, Append(l, Pair(a, v)))
  <1>1. /\ Join(line, a) \in Texts /\ ReadSeries(Join(line, a)) = At("name", m, a, None, l)
        /\ a \in Texts
    BY ReadLabelName, NamesAreTexts
  <1>2. /\ Quotes \in Texts /\ Join(Join(line, a), Quotes) \in Texts
        /\ ReadSeries(Join(Join(line, a), Quotes)) = At("value", m, a, None, l)
    BY ONLY <1>1, ReadQuotes
  <1>3. /\ EscapedText(v) \in Texts /\ Join(Join(Join(line, a), Quotes), EscapedText(v)) \in Texts
        /\ ReadSeries(Join(Join(Join(line, a), Quotes), EscapedText(v))) = At("value", m, a, v, l)
    BY ONLY <1>2, v \in Texts, ReadText
  <1>4. /\ ClosingQuote \in Texts
        /\ Join(Join(Join(Join(line, a), Quotes), EscapedText(v)), ClosingQuote) \in Texts
        /\ ReadSeries(Join(Join(Join(Join(line, a), Quotes), EscapedText(v)), ClosingQuote)) =
             After(m, Append(l, Pair(a, v)))
    <2>1. PICK t \in Texts : /\ t = Join(Join(Join(line, a), Quotes), EscapedText(v))
                             /\ ReadSeries(t) = At("value", m, a, v, l)
      BY <1>3
    <2>2. ClosingQuote \in Texts /\ Join(t, ClosingQuote) \in Texts
          /\ ReadSeries(Join(t, ClosingQuote)) = After(m, Append(l, Pair(a, v)))
      <3>1. ReadSeries(t) = At("value", m, a, v, l)
        BY <2>1
      <3> QED BY <3>1, ReadClose
    <2> QED BY <2>1, <2>2
  <1>5. LabelText(Pair(a, v)) = Join(Join(Join(a, Quotes), EscapedText(v)), ClosingQuote)
    BY DEF LabelText, Pair
  <1>6. /\ LabelText(Pair(a, v)) \in Texts
        /\ Join(line, LabelText(Pair(a, v))) =
             Join(Join(Join(Join(line, a), Quotes), EscapedText(v)), ClosingQuote)
    <2>1. line \in Texts
      OBVIOUS
    <2>2. PICK p \in Texts, q \in Texts, e \in Texts, z \in Texts :
            p = a /\ q = Quotes /\ e = EscapedText(v) /\ z = ClosingQuote
      BY <1>1, <1>2, <1>3, <1>4
    <2>3. /\ Join(Join(Join(p, q), e), z) \in Texts
          /\ Join(line, Join(Join(Join(p, q), e), z)) = Join(Join(Join(Join(line, p), q), e), z)
      BY JoinFour
    <2> QED BY <1>5, <2>2, <2>3
  <1> QED BY <1>4, <1>6

(* The items of labels that grow. *)
LEMMA ItemsAppend ==
  ASSUME NEW S, NEW s \in Seq(S), NEW x \in S
  PROVE  Items(Append(s, x)) = Append(Items(s), Join(Comma(Len(s) + 1), LabelText(x)))
  <1> DEFINE t == Append(s, x)
             n == Len(s)
             f == Items(s)
             y == Join(Comma(n + 1), LabelText(x))
  <1>1. n \in Nat /\ DOMAIN s = 1..n /\ DOMAIN t = 1..n + 1 /\ t[n + 1] = x
        /\ \A i \in 1..n : t[i] = s[i]
    OBVIOUS
  <1>2. f = [i \in 1..n |-> Join(Comma(i), LabelText(s[i]))]
    BY <1>1 DEF Items
  <1>3. Len(f) = n /\ Append(f, y) = [i \in 1..n + 1 |-> IF i = n + 1 THEN y ELSE f[i]]
    BY <1>1, <1>2
  <1>4. \A i \in 1..n + 1 : Join(Comma(i), LabelText(t[i])) = IF i = n + 1 THEN y ELSE f[i]
    <2> TAKE i \in 1..n + 1
    <2>1. i = n + 1 \/ i \in 1..n
      BY <1>1
    <2> QED BY <1>1, <1>2, <2>1
  <1>5. Items(t) = [i \in 1..n + 1 |-> Join(Comma(i), LabelText(t[i]))]
    BY <1>1 DEF Items
  <1> QED BY <1>3, <1>4, <1>5

(* What stands between two labels. *)
LEMMA ReadComma ==
  ASSUME NEW line \in Texts, NEW m, NEW l, NEW k \in Nat,
         ReadSeries(line) = IF k = 0 THEN Before(m, l) ELSE After(m, l)
  PROVE  /\ Comma(k + 1) \in Texts /\ Join(line, Comma(k + 1)) \in Texts
         /\ ReadSeries(Join(line, Comma(k + 1))) = Before(m, l)
  <1>1. CASE k = 0
    <2>1. Comma(k + 1) = None
      BY <1>1 DEF Comma
    <2>2. Join(line, None) = line /\ None \in Texts
      BY Signs, JoinShort
    <2> QED BY <1>1, <2>1, <2>2
  <1>2. CASE k # 0
    <2>1. PICK y \in TextCharacters : y = ","
      BY Signs
    <2>2. Comma(k + 1) = One(y)
      <3>1. k + 1 > 1
        BY <1>2
      <3> QED BY <2>1, <3>1, Zenon DEF Comma
    <2>3. Join(line, One(y)) = Append(line, y) /\ Append(line, y) \in Texts /\ One(y) \in Texts
      BY JoinShort
    <2>4. ReadSeries(Append(line, y)) = ReadCharacter(ReadSeries(line), y)
      BY ReadAppend
    <2>5. ReadCharacter(After(m, l), ",") = Before(m, l)
      BY NextLabel DEF After, Before
    <2> QED BY <1>2, <2>1, <2>2, <2>3, <2>4, <2>5
  <1> QED BY <1>1, <1>2

(* The labels, in their order. *)
LEMMA ReadLabels ==
  ASSUME NEW line \in Texts, NEW m \in Texts, ReadSeries(line) = Before(m, None)
  PROVE  \A ls \in Seq(NamedTexts) :
           /\ FlattenSeq(Items(ls)) \in Texts /\ Join(line, FlattenSeq(Items(ls))) \in Texts
           /\ ls # <<>> => ReadSeries(Join(line, FlattenSeq(Items(ls)))) = After(m, ls)
  <1> DEFINE Flat(ls) == FlattenSeq(Items(ls))
             Reads(ls) ==
               /\ Items(ls) \in Seq(Texts) /\ Flat(ls) \in Texts /\ Join(line, Flat(ls)) \in Texts
               /\ ReadSeries(Join(line, Flat(ls))) = IF Len(ls) = 0 THEN Before(m, ls) ELSE After(m, ls)
             P == {k \in Nat : \A ls \in Seq(NamedTexts) : Len(ls) = k => Reads(ls)}
  <1>1. 0 \in P
    <2> SUFFICES ASSUME NEW ls \in Seq(NamedTexts), Len(ls) = 0 PROVE Reads(ls)
      OBVIOUS
    <2>1. ls = None
      BY EmptySeq DEF None
    <2>2. Items(None) = <<>> /\ <<>> \in Seq(Texts)
      BY DEF Items, None
    <2>3. Flat(None) = <<>>
      BY <2>2, FlattenEmpty
    <2>4. Join(line, None) = line /\ None \in Texts
      BY Signs, JoinShort
    <2> HIDE DEF Flat
    <2>5. Items(ls) \in Seq(Texts) /\ Flat(ls) \in Texts /\ Join(line, Flat(ls)) = line
      BY <2>1, <2>2, <2>3, <2>4 DEF None
    <2> QED BY <2>1, <2>5
  <1>2. ASSUME NEW k \in Nat, k \in P PROVE k + 1 \in P
    <2> SUFFICES ASSUME NEW ls \in Seq(NamedTexts), Len(ls) = k + 1 PROVE Reads(ls)
      OBVIOUS
    <2>1. PICK u \in Seq(NamedTexts), x \in NamedTexts :
            /\ ls = Append(u, x) /\ Len(u) = k /\ ls[k + 1] = x
            /\ \A i \in 1..k : u[i] = ls[i]
      BY SplitLast, Zenon
    <2>2. Reads(u)
      BY <1>2, <2>1
    <2>3. Items(ls) = Append(Items(u), Join(Comma(k + 1), LabelText(x)))
      BY <2>1, ItemsAppend
    <2> HIDE DEF Flat
    <2>4. PICK f \in Texts, here \in Texts :
            /\ f = Flat(u) /\ here = Join(line, f)
            /\ ReadSeries(here) = IF k = 0 THEN Before(m, u) ELSE After(m, u)
      BY <2>1, <2>2
    <2>5. PICK c \in Texts, there \in Texts :
            c = Comma(k + 1) /\ there = Join(here, c) /\ ReadSeries(there) = Before(m, u)
      BY <2>4, ReadComma
    <2>6. PICK a \in Seq(NameCharacters), v \in Texts : x = Pair(a, v)
      BY DEF NamedTexts, Pair
    <2>7. PICK y \in Texts, end \in Texts :
            y = LabelText(x) /\ end = Join(there, y) /\ ReadSeries(end) = After(m, Append(u, x))
      BY <2>5, <2>6, ReadPair
    <2>8. Join(c, y) \in Texts
      BY JoinTwo
    <2>9. Join(f, Join(c, y)) \in Texts
          /\ Join(line, Join(f, Join(c, y))) = Join(Join(Join(line, f), c), y)
      <3>1. Join(f, Join(c, y)) = Join(Join(f, c), y) /\ Join(f, Join(c, y)) \in Texts
        BY <2>8, JoinTwo
      <3>2. Join(line, Join(Join(f, c), y)) = Join(Join(Join(line, f), c), y)
        BY JoinThree
      <3> QED BY <3>1, <3>2
    <2>10. Items(ls) \in Seq(Texts) /\ Flat(ls) = Join(f, Join(c, y))
      <3>1. Items(u) \in Seq(Texts)
        BY <2>2
      <3>2. Items(ls) = Append(Items(u), Join(c, y))
        BY <2>3, <2>5, <2>7
      <3>3. FlattenSeq(Append(Items(u), Join(c, y))) = Join(FlattenSeq(Items(u)), Join(c, y))
        BY <2>8, <3>1, FlattenAppend, Zenon DEF Texts, Join
      <3>4. Append(Items(u), Join(c, y)) \in Seq(Texts)
        BY <2>8, <3>1, AppendProperties
      <3> QED BY <2>4, <3>2, <3>3, <3>4 DEF Flat
    <2>11. Flat(ls) \in Texts /\ Join(line, Flat(ls)) = end
      BY <2>4, <2>5, <2>7, <2>8, <2>9, <2>10
    <2>12. Len(ls) # 0
      OBVIOUS
    <2> QED BY <2>1, <2>7, <2>10, <2>11, <2>12
  <1> HIDE DEF P
  <1>3. Nat \subseteq P
    BY <1>1, <1>2, SetInduction
  <1>4. \A ls \in Seq(NamedTexts) : Len(ls) \in Nat /\ (ls # <<>> => Len(ls) # 0)
    BY EmptySeq
  <1>5. \A ls \in Seq(NamedTexts) : Reads(ls)
    BY <1>3, <1>4 DEF P
  <1> QED BY <1>4, <1>5

(* What LabelSet writes when there are labels. *)
LEMMA LabelSetIs ==
  ASSUME NEW labels, labels # <<>>
  PROVE  LabelSet(labels) = Join(Join(One("{"), FlattenSeq(Items(labels))), One("}"))
  BY DEF LabelSet, Items, LabelText, Comma, Join, One, None, Quotes, ClosingQuote, EscapedText

(* A series is read back: its name and its labels, and no more. *)
LEMMA SeriesRead ==
  ASSUME NEW prefix \in Seq(NameCharacters), NEW suffix \in Seq(NameCharacters),
         NEW labels \in Seq(NamedTexts)
  PROVE  ReadSeries(Series(prefix, suffix, labels)) =
           At("end", prefix \o <<"_">> \o suffix, None, None, labels)
  <1>1. PICK name \in Seq(NameCharacters) :
          name = MetricName(prefix, suffix) /\ name = prefix \o <<"_">> \o suffix
    <2>1. <<"_">> \in Seq(NameCharacters)
      BY Signs, NamesAreTexts
    <2>2. prefix \o <<"_">> \in Seq(NameCharacters)
      BY <2>1, ConcatType
    <2> QED BY <2>2, ConcatType DEF MetricName
  <1>2. name \in Texts
    BY NamesAreTexts
  <1>3. ReadSeries(name) = At("metric", name, None, None, None)
    <2>1. Join(None, name) = name /\ None \in Texts
      BY <1>2, Signs, JoinShort
    <2>2. ReadSeries(None) = At("metric", None, None, None, None)
      BY ReadEmpty DEF None
    <2>3. ReadSeries(Join(None, name)) = At("metric", Join(None, name), None, None, None)
      BY <2>1, <2>2, ReadName
    <2> QED BY <2>1, <2>3
  <1>4. PICK space \in TextCharacters : space = " "
    BY Signs
  <1>5. CASE labels = <<>>
    <2>1. Series(prefix, suffix, labels) = Join(Join(name, None), One(space))
      BY <1>1, <1>4, <1>5 DEF Series, LabelSet, Join, None, One
    <2>2. Join(name, None) = name
      BY <1>2, JoinShort
    <2>3. Join(name, One(space)) = Append(name, space)
      BY <1>2, JoinShort
    <2>4. ReadSeries(Append(name, space)) = ReadCharacter(ReadSeries(name), space)
      BY <1>2, ReadAppend
    <2>5. ReadCharacter(At("metric", name, None, None, None), " ") = At("end", name, None, None, None)
      BY MetricEnds
    <2>6. labels = None
      BY <1>5 DEF None
    <2> QED BY <1>1, <1>3, <1>4, <2>1, <2>2, <2>3, <2>4, <2>5, <2>6
  <1>6. CASE labels # <<>>
    <2>1. PICK f : f = FlattenSeq(Items(labels))
      OBVIOUS
    <2>2. PICK open \in TextCharacters : open = "{"
      BY Signs
    <2>3. PICK close \in TextCharacters : close = "}"
      BY Signs
    <2>4. Series(prefix, suffix, labels) = Join(Join(name, Join(Join(One(open), f), One(close))), One(space))
      BY <1>1, <1>4, <1>6, <2>1, <2>2, <2>3, LabelSetIs DEF Series, Join, One
    <2>5. PICK l1 \in Texts :
            One(open) \in Texts /\ l1 = Join(name, One(open)) /\ l1 = Append(name, open)
      BY <1>2, JoinShort
    <2>6. ReadSeries(l1) = Before(name, None)
      <3>1. ReadSeries(l1) = ReadCharacter(ReadSeries(name), open)
        BY <1>2, <2>5, ReadAppend
      <3>2. ReadCharacter(At("metric", name, None, None, None), "{") = Before(name, None)
        BY MetricOpens DEF Before
      <3> QED BY <1>3, <2>2, <3>1, <3>2
    <2>7. PICK l2 \in Texts : f \in Texts /\ l2 = Join(l1, f) /\ ReadSeries(l2) = After(name, labels)
      BY <1>2, <1>6, <2>1, <2>6, ReadLabels
    <2>8. PICK l3 \in Texts :
            One(close) \in Texts /\ l3 = Join(l2, One(close)) /\ l3 = Append(l2, close)
      BY JoinShort
    <2>9. ReadSeries(l3) = At("closed", name, None, None, labels)
      <3>1. ReadSeries(l3) = ReadCharacter(ReadSeries(l2), close)
        BY <2>8, ReadAppend
      <3>2. ReadCharacter(After(name, labels), "}") = At("closed", name, None, None, labels)
        BY LabelsEnd DEF After
      <3> QED BY <2>3, <2>7, <3>1, <3>2
    <2>10. Join(l3, One(space)) = Append(l3, space)
      BY JoinShort
    <2>11. ReadSeries(Append(l3, space)) = At("end", name, None, None, labels)
      <3>1. ReadSeries(Append(l3, space)) = ReadCharacter(ReadSeries(l3), space)
        BY ReadAppend
      <3>2. ReadCharacter(At("closed", name, None, None, labels), " ") = At("end", name, None, None, labels)
        BY LineEnds
      <3> QED BY <1>4, <2>9, <3>1, <3>2
    <2>12. Join(name, Join(Join(One(open), f), One(close))) = l3
      <3>1. One(open) \in Texts /\ f \in Texts /\ One(close) \in Texts /\ name \in Texts
        BY <1>2, <2>5, <2>7, <2>8
      <3>2. Join(name, Join(Join(One(open), f), One(close))) = Join(Join(Join(name, One(open)), f), One(close))
        BY ONLY <3>1, JoinThree
      <3> QED BY <2>5, <2>7, <2>8, <3>2
    <2> QED BY <1>1, <2>4, <2>10, <2>11, <2>12
  <1> QED BY <1>5, <1>6

(* The names of labels that the encoder accepts are as many as the labels. *)
LEMMA NamesCounted ==
  ASSUME NEW S, NEW labels \in Seq(S), ValidateLabels(labels)
  PROVE  Cardinality({l[1] : l \in Range(labels)}) = Len(labels)
  <1> DEFINE n == Len(labels)
             N == {l[1] : l \in Range(labels)}
             f == [i \in 1..n |-> labels[i][1]]
  <1>1. n \in Nat /\ DOMAIN labels = 1..n
    OBVIOUS
  <1>2. N = {labels[i][1] : i \in 1..n}
    <2>1. Range(labels) = {labels[i] : i \in 1..n}
      BY <1>1, Zenon DEF Range
    <2> QED BY <2>1
  <1>3. \A i, j \in 1..n : labels[i][1] = labels[j][1] => i = j
    BY <1>1, Zenon DEF ValidateLabels
  <1>4. f \in Bijection(1..n, N)
    BY <1>2, <1>3 DEF Bijection, Injection, Surjection, IsInjective
  <1>5. ExistsBijection(1..n, N)
    BY <1>4 DEF ExistsBijection
  <1> HIDE DEF f, N, n
  <1>7. Cardinality(N) = n
    BY <1>1, <1>5, FS_CountingElements
  <1> QED BY <1>7 DEF N, n

(* A name that the encoder accepts is one of name characters. *)
LEMMA NameIs ==
  ASSUME NEW S, NEW name \in Seq(S), IsValidName(name)
  PROVE  name \in Seq(NameCharacters)
  <1>1. Range(name) \subseteq NameCharacters
    BY DEF IsValidName, NameCharacters
  <1>2. name \in Seq(Range(name))
    BY OwnRange
  <1> QED BY <1>1, <1>2, WiderSeq

(* The labels of an encoder. *)
LEMMA LabelsAre ==
  ASSUME NEW labels \in Seq(Seq(Alphabet) \X Seq(Alphabet)), ValidateLabels(labels)
  PROVE  labels \in Seq(NamedTexts)
  <1>1. Len(labels) \in Nat /\ DOMAIN labels = 1..Len(labels)
    OBVIOUS
  <1>2. ASSUME NEW i \in 1..Len(labels) PROVE labels[i] \in NamedTexts
    <2>1. PICK n \in Seq(Alphabet), v \in Seq(Alphabet) : labels[i] = <<n, v>>
      OBVIOUS
    <2>2. IsValidName(n)
      <3>1. IsValidName(labels[i][1])
        BY <1>1, Zenon DEF ValidateLabels
      <3>2. labels[i][1] = n
        BY <2>1
      <3> QED BY <3>1, <3>2, Zenon
    <2>3. n \in Seq(NameCharacters)
      BY <2>2, NameIs
    <2>4. v \in Texts
      <3>1. Alphabet \subseteq TextCharacters
        BY DEF TextCharacters
      <3> QED BY <3>1, WiderSeq DEF Texts
    <2> QED BY <2>1, <2>3, <2>4 DEF NamedTexts
  <1>3. \E l : l = labels /\ l \in [1..Len(labels) -> NamedTexts]
    <2>1. labels \in [1..Len(labels) -> Seq(Alphabet) \X Seq(Alphabet)]
      BY <1>1
    <2>2. labels = [i \in 1..Len(labels) |-> labels[i]]
      BY <2>1
    <2> QED BY <1>2, <2>2
  <1> QED BY <1>1, <1>3, FunctionIsSeq

(* What the encoder accepts is read back. *)
LEMMA SeriesReadBack ==
  ASSUME NEW prefix \in Seq(Alphabet), NEW labels \in Seq(Seq(Alphabet) \X Seq(Alphabet)),
         EncoderAccepts(prefix, labels)
  PROVE  LET read == ReadSeries(Series(prefix, Suffix, labels))
         IN /\ read.at = "end" /\ read.labels = labels
            /\ read.metric = prefix \o <<"_">> \o Suffix
            /\ Cardinality({l[1] : l \in Range(labels)}) = Len(labels)
  <1>1. prefix \in Seq(NameCharacters) /\ labels \in Seq(NamedTexts)
    BY NameIs, LabelsAre DEF EncoderAccepts
  <1>2. Suffix \in Seq(NameCharacters)
    <2>1. "b" \in NameCharacters
      BY DEF NameCharacters, NameLetters
    <2> QED BY <2>1 DEF Suffix
  <1>3. PICK m : m = prefix \o <<"_">> \o Suffix
    OBVIOUS
  <1>4. ReadSeries(Series(prefix, Suffix, labels)) = At("end", m, None, None, labels)
    BY <1>1, <1>2, <1>3, SeriesRead, Zenon
  <1>5. At("end", m, None, None, labels).at = "end" /\ At("end", m, None, None, labels).labels = labels
        /\ At("end", m, None, None, labels).metric = m
    BY DEF At
  <1>6. Cardinality({l[1] : l \in Range(labels)}) = Len(labels)
    BY NamesCounted DEF EncoderAccepts
  <1> QED BY <1>3, <1>4, <1>5, <1>6, Zenon

-----------------------------------------------------------------------------
(* Aggregation: the statistics of a summary. *)

(* Rational numbers. *)
Rational == Int \X (Nat \ {0})

(* The parts of one. *)
LEMMA RationalIs ==
  ASSUME NEW p \in Rational
  PROVE  p[1] \in Int /\ p[2] \in Nat /\ p[2] > 0
  BY DEF Rational

(* Both sides of a comparison multiplied. *)
LEMMA Scale ==
  ASSUME NEW a \in Int, NEW b \in Int, NEW k \in Nat
  PROVE  /\ a <= b => a * k <= b * k
         /\ k > 0 /\ a * k <= b * k => a <= b
  OBVIOUS

(* Leq is a total order. *)
LEMMA LeqOrder ==
  /\ \A p \in Rational : Leq(p, p)
  /\ \A p, q \in Rational : Leq(p, q) \/ Leq(q, p)
  /\ \A p, q, r \in Rational : Leq(p, q) /\ Leq(q, r) => Leq(p, r)
  <1>1. \A p, q \in Rational : Leq(p, p) /\ (Leq(p, q) \/ Leq(q, p))
    BY RationalIs DEF Leq
  <1>2. ASSUME NEW p \in Rational, NEW q \in Rational, NEW r \in Rational, Leq(p, q), Leq(q, r)
        PROVE  Leq(p, r)
    <2>1. PICK a, b, c, d, e, f :
            /\ a = p[1] /\ b = p[2] /\ c = q[1] /\ d = q[2] /\ e = r[1] /\ f = r[2]
            /\ a \in Int /\ c \in Int /\ e \in Int
            /\ b \in Nat /\ d \in Nat /\ f \in Nat /\ b > 0 /\ d > 0 /\ f > 0
      BY RationalIs
    <2>2. a * d <= c * b /\ c * f <= e * d
      BY <1>2, <2>1 DEF Leq
    <2>3. (a * d) * f <= (c * b) * f /\ (c * f) * b <= (e * d) * b
      <3>1. a * d \in Int /\ c * b \in Int /\ c * f \in Int /\ e * d \in Int
        BY <2>1
      <3> QED BY <2>1, <2>2, <3>1, Scale
    <2>4. (a * f) * d <= (e * b) * d
      <3>1. /\ (a * f) * d = (a * d) * f /\ (c * b) * f = (c * f) * b /\ (e * d) * b = (e * b) * d
            /\ (a * d) * f \in Int /\ (c * b) * f \in Int /\ (e * d) * b \in Int
        BY <2>1
      <3> QED BY <2>3, <3>1
    <2>5. a * f <= e * b
      <3>1. a * f \in Int /\ e * b \in Int
        BY <2>1
      <3> QED BY <2>1, <2>4, <3>1, Scale
    <2> QED BY <2>1, <2>5 DEF Leq
  <1> QED BY <1>1, <1>2

(* A sequence has a first element in a total order R. *)
LEMMA FirstExists ==
  ASSUME NEW V, NEW R, NEW s \in Seq(V), s # <<>>,
         \A x \in V : <<x, x>> \in R,
         \A x, y \in V : <<x, y>> \in R \/ <<y, x>> \in R,
         \A x, y, z \in V : <<x, y>> \in R /\ <<y, z>> \in R => <<x, z>> \in R
  PROVE  \E i \in DOMAIN s : \A j \in DOMAIN s : <<s[i], s[j]>> \in R
  <1> DEFINE n == Len(s)
             First(k) == \E i \in 1..k + 1 : \A j \in 1..k + 1 : <<s[i], s[j]>> \in R
             P == {k \in Nat : k + 1 <= n => First(k)}
  <1>1. n \in Nat /\ DOMAIN s = 1..n /\ n > 0 /\ \A i \in 1..n : s[i] \in V
    BY EmptySeq
  <1>2. 0 \in P
    <2>1. 1..0 + 1 = {1} /\ 1 \in 1..n
      BY <1>1
    <2> QED BY <1>1, <2>1
  <1>3. ASSUME NEW k \in Nat, k \in P PROVE k + 1 \in P
    <2> SUFFICES ASSUME (k + 1) + 1 <= n PROVE First(k + 1)
      OBVIOUS
    <2>1. PICK i \in 1..k + 1 : \A j \in 1..k + 1 : <<s[i], s[j]>> \in R
      <3>1. k + 1 <= n
        BY <1>1
      <3> HIDE DEF n
      <3> QED BY <1>3, <3>1
    <2> DEFINE m == (k + 1) + 1
    <2>2. m \in 1..n /\ i \in 1..n /\ i \in 1..m /\ m \in 1..m /\ \A j \in 1..m : j \in 1..k + 1 \/ j = m
      BY <1>1
    <2>3. \A j \in 1..k + 1 : j \in 1..n
      BY <1>1
    <2> HIDE DEF m
    <2>4. CASE <<s[i], s[m]>> \in R
      BY <2>1, <2>2, <2>4 DEF m
    <2>5. CASE <<s[i], s[m]>> \notin R
      <3>1. <<s[m], s[i]>> \in R /\ <<s[m], s[m]>> \in R
        BY <1>1, <2>2, <2>5
      <3>2. \A j \in 1..k + 1 : <<s[m], s[j]>> \in R
        BY <1>1, <2>1, <2>2, <2>3, <3>1
      <3>3. \A j \in 1..m : <<s[m], s[j]>> \in R
        BY <2>2, <3>1, <3>2
      <3> QED BY <2>2, <3>3 DEF m
    <2> QED BY <2>4, <2>5
  <1> HIDE DEF P
  <1>4. Nat \subseteq P
    BY <1>2, <1>3, SetInduction
  <1>5. n - 1 \in Nat /\ (n - 1) + 1 = n
    BY <1>1
  <1>6. First(n - 1)
    <2>1. n - 1 \in P /\ (n - 1) + 1 <= n
      BY <1>1, <1>4, <1>5
    <2> HIDE DEF n, First
    <2> QED BY <2>1 DEF P
  <1> QED BY <1>1, <1>5, <1>6

(* Rational numbers have a least and a greatest. *)
LEMMA LeastExists ==
  ASSUME NEW s \in Seq(Rational), s # <<>>
  PROVE  \E i \in DOMAIN s : \A j \in DOMAIN s : Leq(s[i], s[j])
  <1> DEFINE R == {p \in Rational \X Rational : Leq(p[1], p[2])}
  <1>1. \A x, y \in Rational : <<x, y>> \in R <=> Leq(x, y)
    OBVIOUS
  <1> HIDE DEF R
  <1>2. \E i \in DOMAIN s : \A j \in DOMAIN s : <<s[i], s[j]>> \in R
    <2>1. \A x \in Rational : <<x, x>> \in R
      BY <1>1, LeqOrder
    <2>2. \A x, y \in Rational : <<x, y>> \in R \/ <<y, x>> \in R
      BY <1>1, LeqOrder
    <2>3. \A x, y, z \in Rational : <<x, y>> \in R /\ <<y, z>> \in R => <<x, z>> \in R
      BY <1>1, LeqOrder
    <2> QED BY <2>1, <2>2, <2>3, FirstExists, Zenon
  <1>3. \A i \in DOMAIN s : s[i] \in Rational
    OBVIOUS
  <1> QED BY <1>1, <1>2, <1>3

LEMMA GreatestExists ==
  ASSUME NEW s \in Seq(Rational), s # <<>>
  PROVE  \E i \in DOMAIN s : \A j \in DOMAIN s : Leq(s[j], s[i])
  <1> DEFINE R == {p \in Rational \X Rational : Leq(p[2], p[1])}
  <1>1. \A x, y \in Rational : <<x, y>> \in R <=> Leq(y, x)
    OBVIOUS
  <1> HIDE DEF R
  <1>2. \E i \in DOMAIN s : \A j \in DOMAIN s : <<s[i], s[j]>> \in R
    <2>1. \A x \in Rational : <<x, x>> \in R
      BY <1>1, LeqOrder
    <2>2. \A x, y \in Rational : <<x, y>> \in R \/ <<y, x>> \in R
      BY <1>1, LeqOrder
    <2>3. \A x, y, z \in Rational : <<x, y>> \in R /\ <<y, z>> \in R => <<x, z>> \in R
      BY <1>1, LeqOrder
    <2> QED BY <2>1, <2>2, <2>3, FirstExists, Zenon
  <1>3. \A i \in DOMAIN s : s[i] \in Rational
    OBVIOUS
  <1> QED BY <1>1, <1>2, <1>3

-----------------------------------------------------------------------------
(* The sum of a gauge's values. *)
Zero == <<0, 1>>

(* The sum of two. *)
LEMMA AddType ==
  ASSUME NEW p \in Rational, NEW q \in Rational
  PROVE  /\ Add(p, q) \in Rational
         /\ Add(p, q)[1] = p[1] * q[2] + q[1] * p[2] /\ Add(p, q)[2] = p[2] * q[2]
  <1>1. p[1] \in Int /\ p[2] \in Nat /\ p[2] > 0 /\ q[1] \in Int /\ q[2] \in Nat /\ q[2] > 0
    BY RationalIs
  <1>2. PICK a, b : a = p[1] * q[2] + q[1] * p[2] /\ b = p[2] * q[2]
    OBVIOUS
  <1>3. a \in Int /\ b \in Nat \ {0}
    BY <1>1, <1>2
  <1>4. Add(p, q) = <<a, b>>
    BY <1>2 DEF Add
  <1> QED BY <1>2, <1>3, <1>4 DEF Rational

AddAll(values) == FoldLeft(Add, Zero, values)

(* What the fold computes. *)
LEMMA AddFold ==
  ASSUME NEW s \in Seq(Rational)
  PROVE  /\ AddAll(s) \in Rational
         /\ Folded([p \in Rational \X Rational |-> Add(p[1], p[2])], Zero, s, AddAll(s))
  <1> DEFINE n == Len(s)
             F == [p \in Rational \X Rational |-> Add(p[1], p[2])]
             Body(it) == [t \in SUBSET DOMAIN s |->
                            IF t = {} THEN Zero ELSE Add(it[t \ {Max(t)}], s[Max(t)])]
             f == CHOOSE it : it = Body(it)
  <1>1. AddAll(s) = f[DOMAIN s]
    BY Zenon DEF FoldLeft, MapThenFoldSet, AddAll
  <1>2. Zero \in Rational /\ F \in [Rational \X Rational -> Rational]
    <2>1. Zero \in Rational
      BY DEF Rational, Zero
    <2> QED BY <2>1, AddType
  <1>3. DOMAIN s = 1..n /\ n \in Nat /\ \A i \in 1..n : s[i] \in Rational
    OBVIOUS
  <1>4. \A v \in Rational, x \in Rational : F[<<v, x>>] = Add(v, x)
    OBVIOUS
  <1> HIDE DEF F
  <1>5. Iterable(F, Zero, s, Rational, n)
    BY <1>2, IterationExists, Zenon
  <1>6. PICK h \in [SUBSET (1..n) -> Rational] : Iterates(F, Zero, s, h, n)
    BY <1>5 DEF Iterable
  <1>7. \A t \in SUBSET (1..n) : t # {} => t \ {Max(t)} \in SUBSET (1..n) /\ s[Max(t)] \in Rational
    BY <1>3, MaxInSet
  <1>8. h = Body(h)
    <2>1. \A t \in SUBSET (1..n) : t # {} =>
            F[<<h[t \ {Max(t)}], s[Max(t)]>>] = Add(h[t \ {Max(t)}], s[Max(t)])
      BY <1>4, <1>6, <1>7
    <2> QED BY <1>3, <1>6, <2>1, Zenon DEF Iterates
  <1>9. f = Body(f)
    BY <1>8, Zenon
  <1> HIDE DEF f, n
  <1>10. \A t \in SUBSET (1..n) :
            f[t] = IF t = {} THEN Zero ELSE Add(f[t \ {Max(t)}], s[Max(t)])
    BY <1>3, <1>9, Zenon
  <1>11. f[{}] = Zero
    BY <1>10
  <1>12. \A t \in SUBSET (1..n) : t # {} /\ f[t \ {Max(t)}] \in Rational =>
            f[t] = F[<<f[t \ {Max(t)}], s[Max(t)]>>]
    BY <1>4, <1>7, <1>10
  <1>13. f[1..n] \in Rational /\ Folded(F, Zero, s, f[1..n])
    <2>1. Follows(F, Zero, s, Rational, f)
      BY <1>11, <1>12 DEF Follows, n
    <2> QED BY <1>2, <2>1, IterationRuns, Zenon DEF n
  <1> QED BY <1>1, <1>3, <1>13 DEF F

(* The sum of none, and of one more. *)
LEMMA AddEmpty == AddAll(<<>>) = Zero
  <1>1. <<>> \in Seq(Rational)
    OBVIOUS
  <1> QED BY <1>1, AddFold, FoldedEmpty, Zenon

LEMMA AddAppend ==
  ASSUME NEW s \in Seq(Rational), NEW q \in Rational
  PROVE  AddAll(Append(s, q)) = Add(AddAll(s), q)
  <1> DEFINE F == [p \in Rational \X Rational |-> Add(p[1], p[2])]
  <1>1. Append(s, q) \in Seq(Rational)
    OBVIOUS
  <1>2. AddAll(s) \in Rational
    BY AddFold
  <1>3. Folded(F, Zero, s, AddAll(s)) /\ Folded(F, Zero, Append(s, q), AddAll(Append(s, q)))
    BY <1>1, AddFold
  <1>4. AddAll(Append(s, q)) = F[<<AddAll(s), q>>]
    <2> HIDE DEF F
    <2> QED BY <1>3, FoldedAppend, Zenon
  <1> QED BY <1>2, <1>4

(* The arithmetic of one number more, below and above. *)
LEMMA AddStep ==
  ASSUME NEW p \in Int, NEW q \in Nat, NEW a \in Int, NEW b \in Nat, NEW c \in Int, NEW d \in Nat,
         NEW n \in Nat
  PROVE  /\ p * (b * n) <= a * q /\ p * d <= c * q => p * ((b * d) * (n + 1)) <= (a * d + c * b) * q
         /\ a * q <= p * (b * n) /\ c * q <= p * d => (a * d + c * b) * q <= p * ((b * d) * (n + 1))
  <1>1. PICK u \in Int, v \in Int, x \in Int, y \in Int :
          u = p * (b * n) /\ v = a * q /\ x = p * d /\ y = c * q
    OBVIOUS
  <1>2. p * ((b * d) * (n + 1)) = u * d + x * b
    BY <1>1
  <1>3. (a * d + c * b) * q = v * d + y * b
    BY <1>1
  <1>4. (u <= v => u * d <= v * d) /\ (x <= y => x * b <= y * b)
        /\ (v <= u => v * d <= u * d) /\ (y <= x => y * b <= x * b)
    BY Scale
  <1>5. u * d \in Int /\ v * d \in Int /\ x * b \in Int /\ y * b \in Int
    OBVIOUS
  <1> QED BY <1>1, <1>2, <1>3, <1>4, <1>5

(* A mean lies above what is below every number, and below what is above.  *)
LEMMA MeanBetween ==
  ASSUME NEW r \in Rational
  PROVE  \A s \in Seq(Rational) :
           /\ (\A j \in DOMAIN s : Leq(r, s[j])) => r[1] * (AddAll(s)[2] * Len(s)) <= AddAll(s)[1] * r[2]
           /\ (\A j \in DOMAIN s : Leq(s[j], r)) => AddAll(s)[1] * r[2] <= r[1] * (AddAll(s)[2] * Len(s))
  <1> DEFINE Low(s) == (\A j \in DOMAIN s : Leq(r, s[j])) =>
                          r[1] * (AddAll(s)[2] * Len(s)) <= AddAll(s)[1] * r[2]
             High(s) == (\A j \in DOMAIN s : Leq(s[j], r)) =>
                          AddAll(s)[1] * r[2] <= r[1] * (AddAll(s)[2] * Len(s))
             P == {k \in Nat : \A s \in Seq(Rational) : Len(s) = k => Low(s) /\ High(s)}
  <1>0. r[1] \in Int /\ r[2] \in Nat
    BY RationalIs
  <1>1. 0 \in P
    <2> SUFFICES ASSUME NEW s \in Seq(Rational), Len(s) = 0 PROVE Low(s) /\ High(s)
      OBVIOUS
    <2>1. s = <<>>
      BY EmptySeq
    <2>2. AddAll(s)[1] = 0 /\ AddAll(s)[2] = 1
      BY <2>1, AddEmpty DEF Zero
    <2> QED BY <1>0, <2>2
  <1>2. ASSUME NEW k \in Nat, k \in P PROVE k + 1 \in P
    <2> SUFFICES ASSUME NEW s \in Seq(Rational), Len(s) = k + 1 PROVE Low(s) /\ High(s)
      OBVIOUS
    <2>1. PICK u \in Seq(Rational), x \in Rational :
            /\ s = Append(u, x) /\ Len(u) = k /\ s[k + 1] = x
            /\ \A i \in 1..k : u[i] = s[i]
      BY SplitLast, Zenon
    <2>2. Low(u) /\ High(u)
      BY <1>2, <2>1
    <2>3. PICK t \in Rational : t = AddAll(u)
      BY AddFold
    <2>4. AddAll(s)[1] = t[1] * x[2] + x[1] * t[2] /\ AddAll(s)[2] = t[2] * x[2]
      BY <2>1, <2>3, AddAppend, AddType
    <2>5. t[1] \in Int /\ t[2] \in Nat /\ x[1] \in Int /\ x[2] \in Nat
      BY RationalIs
    <2>6. DOMAIN s = 1..k + 1 /\ DOMAIN u = 1..k /\ k + 1 \in 1..k + 1 /\ \A i \in 1..k : i \in 1..k + 1
      BY <2>1
    <2>7. Low(s)
      <3> SUFFICES ASSUME \A j \in DOMAIN s : Leq(r, s[j])
                   PROVE  r[1] * (AddAll(s)[2] * Len(s)) <= AddAll(s)[1] * r[2]
        OBVIOUS
      <3>1. \A j \in DOMAIN u : Leq(r, u[j])
        BY <2>1, <2>6
      <3>2. r[1] * (t[2] * k) <= t[1] * r[2]
        BY <2>1, <2>2, <2>3, <3>1
      <3>3. r[1] * x[2] <= x[1] * r[2]
        BY <2>1, <2>6 DEF Leq
      <3>4. r[1] * ((t[2] * x[2]) * (k + 1)) <= (t[1] * x[2] + x[1] * t[2]) * r[2]
        BY <1>0, <2>5, <3>2, <3>3, AddStep
      <3> QED BY <2>4, <3>4
    <2>8. High(s)
      <3> SUFFICES ASSUME \A j \in DOMAIN s : Leq(s[j], r)
                   PROVE  AddAll(s)[1] * r[2] <= r[1] * (AddAll(s)[2] * Len(s))
        OBVIOUS
      <3>1. \A j \in DOMAIN u : Leq(u[j], r)
        BY <2>1, <2>6
      <3>2. t[1] * r[2] <= r[1] * (t[2] * k)
        BY <2>1, <2>2, <2>3, <3>1
      <3>3. x[1] * r[2] <= r[1] * x[2]
        BY <2>1, <2>6 DEF Leq
      <3>4. (t[1] * x[2] + x[1] * t[2]) * r[2] <= r[1] * ((t[2] * x[2]) * (k + 1))
        BY <1>0, <2>5, <3>2, <3>3, AddStep
      <3> QED BY <2>4, <3>4
    <2> QED BY <2>7, <2>8
  <1> HIDE DEF P
  <1>3. Nat \subseteq P
    BY <1>1, <1>2, SetInduction
  <1> QED BY <1>3 DEF P

(* A gauge of values: its extremes are values, and its mean lies between.  *)
Bounded(g, values) ==
  /\ \E i \in DOMAIN values : g.min = values[i] /\ \A j \in DOMAIN values : Leq(values[i], values[j])
  /\ \E i \in DOMAIN values : g.max = values[i] /\ \A j \in DOMAIN values : Leq(values[j], values[i])

(* GaugeAccumulator. *)
LEMMA GaugeIs ==
  ASSUME NEW s \in Seq(Rational)
  PROVE  /\ Gauge(s) = <<>> <=> s = <<>>
         /\ s # <<>> => \E g : /\ Gauge(s) = One(g) /\ Bounded(g, s)
                               /\ DOMAIN g = {"mean", "min", "max"}
                               /\ Leq(g.min, g.mean) /\ Leq(g.mean, g.max)
  <1>1. CASE s = <<>>
    BY <1>1 DEF Gauge
  <1>2. CASE s # <<>>
    <2> DEFINE least == CHOOSE i \in DOMAIN s : \A j \in DOMAIN s : Leq(s[i], s[j])
               greatest == CHOOSE i \in DOMAIN s : \A j \in DOMAIN s : Leq(s[j], s[i])
               mean == <<AddAll(s)[1], AddAll(s)[2] * Len(s)>>
               g == [mean |-> mean, min |-> s[least], max |-> s[greatest]]
    <2>1. Gauge(s) = <<g>>
      BY <1>2 DEF Gauge, AddAll, Zero
    <2>2. least \in DOMAIN s /\ \A j \in DOMAIN s : Leq(s[least], s[j])
      BY <1>2, LeastExists
    <2>3. greatest \in DOMAIN s /\ \A j \in DOMAIN s : Leq(s[j], s[greatest])
      BY <1>2, GreatestExists
    <2> HIDE DEF least, greatest
    <2>4. g.min = s[least] /\ g.max = s[greatest] /\ g.mean = mean /\ DOMAIN g = {"mean", "min", "max"}
      OBVIOUS
    <2>5. mean[1] = AddAll(s)[1] /\ mean[2] = AddAll(s)[2] * Len(s)
      OBVIOUS
    <2> HIDE DEF g, mean
    <2>6. s[least] \in Rational /\ s[greatest] \in Rational
      BY <2>2, <2>3
    <2>7. Leq(s[least], mean)
      BY <2>2, <2>5, <2>6, MeanBetween DEF Leq
    <2>8. Leq(mean, s[greatest])
      BY <2>3, <2>5, <2>6, MeanBetween DEF Leq
    <2>9. Bounded(g, s)
      BY <2>2, <2>3, <2>4 DEF Bounded
    <2>10. Gauge(s) # <<>> /\ Gauge(s) = One(g)
      BY <2>1 DEF One
    <2> QED BY <1>2, <2>4, <2>7, <2>8, <2>9, <2>10
  <1> QED BY <1>1, <1>2

(* Optional values. *)
Opt(V) == {None} \cup {One(v) : v \in V}

(* Those of a set. *)
LEMMA OptIs ==
  ASSUME NEW V, NEW x \in Opt(V)
  PROVE  x \in Seq(V) /\ (x = None \/ \E v \in V : x = One(v))
  <1>1. <<>> \in Seq(V) /\ \A v \in V : <<v>> \in Seq(V)
    OBVIOUS
  <1> QED BY <1>1 DEF Opt, None, One

(* A value that is there. *)
LEMMA OneIs ==
  /\ \A v, w : One(v) = One(w) => v = w
  /\ \A v : One(v) # None /\ One(v)[1] = v /\ One(v) # <<>>
  BY DEF One, None

(* The values that are there. *)
LEMMA FlatOptions ==
  ASSUME NEW V
  PROVE  \A s \in Seq(Opt(V)) :
           /\ FlattenSeq(s) \in Seq(V)
           /\ \A k \in DOMAIN FlattenSeq(s) : \E n \in DOMAIN s : s[n] = One(FlattenSeq(s)[k])
           /\ FlattenSeq(s) = None <=> \A n \in DOMAIN s : s[n] = None
  <1> DEFINE Good(s, o) ==
               /\ o \in Seq(V)
               /\ \A k \in DOMAIN o : \E n \in DOMAIN s : s[n] = One(o[k])
               /\ o = None <=> \A n \in DOMAIN s : s[n] = None
             P == {k \in Nat : \A s \in Seq(Opt(V)) : Len(s) = k => Good(s, FlattenSeq(s))}
  <1>1. 0 \in P
    <2> SUFFICES ASSUME NEW s \in Seq(Opt(V)), Len(s) = 0 PROVE Good(s, FlattenSeq(s))
      OBVIOUS
    <2>1. s = <<>>
      BY EmptySeq
    <2>2. FlattenSeq(s) = None /\ DOMAIN s = {} /\ DOMAIN None = {} /\ None \in Seq(V)
      BY <2>1, FlattenEmpty DEF None
    <2> QED BY <2>2
  <1>2. ASSUME NEW k \in Nat, k \in P PROVE k + 1 \in P
    <2> SUFFICES ASSUME NEW s \in Seq(Opt(V)), Len(s) = k + 1 PROVE Good(s, FlattenSeq(s))
      OBVIOUS
    <2>1. PICK u \in Seq(Opt(V)), x \in Opt(V) :
            /\ s = Append(u, x) /\ Len(u) = k /\ s[k + 1] = x
            /\ \A i \in 1..k : u[i] = s[i]
      BY SplitLast, Zenon
    <2>2. Good(u, FlattenSeq(u))
      BY <1>2, <2>1
    <2>3. FlattenSeq(s) = FlattenSeq(u) \o x
      <3>1. Opt(V) \subseteq Seq(V)
        BY OptIs
      <3>2. u \in Seq(Seq(V)) /\ x \in Seq(V)
        BY <3>1, WiderSeq
      <3> QED BY <2>1, <3>2, FlattenAppend, Zenon
    <2>4. PICK o : o = FlattenSeq(u)
      OBVIOUS
    <2>5. Good(u, o) /\ FlattenSeq(s) = o \o x
      BY <2>2, <2>3, <2>4
    <2>6. /\ DOMAIN s = 1..k + 1 /\ DOMAIN u = 1..k /\ k + 1 \in 1..k + 1
          /\ \A i \in 1..k : i \in 1..k + 1
          /\ \A i \in 1..k + 1 : i \in 1..k \/ i = k + 1
      BY <2>1
    <2> HIDE DEF P
    <2>7. CASE x = None
      <3>1. o \o x = o
        BY <2>5, <2>7, ConcatEmptySeq DEF None
      <3>2. (\A n \in DOMAIN s : s[n] = None) <=> (\A n \in DOMAIN u : u[n] = None)
        BY <2>1, <2>6, <2>7
      <3>3. \A w : (\E n \in DOMAIN u : u[n] = w) => (\E n \in DOMAIN s : s[n] = w)
        BY <2>1, <2>6
      <3>4. Good(s, o)
        BY <2>5, <3>2, <3>3
      <3> HIDE DEF Good
      <3> QED BY <2>5, <3>1, <3>4
    <2>8. ASSUME NEW v \in V, x = One(v) PROVE Good(s, FlattenSeq(s))
      <3>1. o \o x = Append(o, v) /\ o \in Seq(V)
        BY <2>5, <2>8, AppendIsConcat DEF One
      <3>2. PICK a : a = Append(o, v)
        OBVIOUS
      <3>3. /\ a \in Seq(V) /\ DOMAIN a = 1..Len(o) + 1 /\ DOMAIN o = 1..Len(o) /\ Len(o) \in Nat
            /\ a[Len(o) + 1] = v /\ \A i \in 1..Len(o) : a[i] = o[i]
        BY <3>1, <3>2
      <3>4. a # None
        BY <3>3 DEF None
      <3>5. s[k + 1] # None
        BY <2>1, <2>8, OneIs
      <3>6. \A j \in DOMAIN a : \E n \in DOMAIN s : s[n] = One(a[j])
        <4> TAKE j \in DOMAIN a
        <4>1. CASE j = Len(o) + 1
          BY <2>1, <2>6, <2>8, <3>3, <4>1
        <4>2. CASE j # Len(o) + 1
          <5>1. j \in 1..Len(o)
            BY <3>3, <4>2
          <5>2. \E n \in DOMAIN u : u[n] = One(o[j])
            BY <2>5, <3>3, <5>1
          <5> QED BY <2>1, <2>6, <3>3, <5>1, <5>2
        <4> QED BY <4>1, <4>2
      <3>7. Good(s, a)
        BY <2>6, <3>3, <3>4, <3>5, <3>6
      <3> HIDE DEF Good
      <3> QED BY <2>5, <3>1, <3>2, <3>7
    <2> QED BY <2>7, <2>8, OptIs
  <1> HIDE DEF P
  <1>3. Nat \subseteq P
    BY <1>1, <1>2, SetInduction
  <1> QED BY <1>3 DEF P

(* When every value is there they are the values. *)
LEMMA FlatOnes ==
  ASSUME NEW V
  PROVE  \A w \in Seq(V) : FlattenSeq([i \in DOMAIN w |-> One(w[i])]) = w
  <1> DEFINE ones(w) == [i \in DOMAIN w |-> One(w[i])]
             P == {k \in Nat : \A w \in Seq(V) : Len(w) = k =>
                     ones(w) \in Seq(Seq(V)) /\ FlattenSeq(ones(w)) = w}
  <1>0. \A v \in V : One(v) \in Seq(V)
    BY DEF One
  <1>1. 0 \in P
    <2> SUFFICES ASSUME NEW w \in Seq(V), Len(w) = 0
                 PROVE  ones(w) \in Seq(Seq(V)) /\ FlattenSeq(ones(w)) = w
      OBVIOUS
    <2>1. w = <<>>
      BY EmptySeq
    <2>2. ones(w) = <<>> /\ <<>> \in Seq(Seq(V))
      BY <2>1
    <2> QED BY <2>1, <2>2, FlattenEmpty
  <1>2. ASSUME NEW k \in Nat, k \in P PROVE k + 1 \in P
    <2> SUFFICES ASSUME NEW w \in Seq(V), Len(w) = k + 1
                 PROVE  ones(w) \in Seq(Seq(V)) /\ FlattenSeq(ones(w)) = w
      OBVIOUS
    <2>1. PICK u \in Seq(V), x \in V :
            /\ w = Append(u, x) /\ Len(u) = k /\ w[k + 1] = x
            /\ \A i \in 1..k : u[i] = w[i]
      BY SplitLast, Zenon
    <2>2. ones(u) \in Seq(Seq(V)) /\ FlattenSeq(ones(u)) = u
      BY <1>2, <2>1
    <2>3. ones(w) = Append(ones(u), One(x))
      <3>1. DOMAIN w = 1..k + 1 /\ DOMAIN u = 1..k
        BY <2>1
      <3>2. Len(ones(u)) = k
        BY <3>1
      <3>3. Append(ones(u), One(x)) = [i \in 1..k + 1 |-> IF i = k + 1 THEN One(x) ELSE ones(u)[i]]
        BY <3>2
      <3>4. \A i \in 1..k + 1 : One(w[i]) = IF i = k + 1 THEN One(x) ELSE ones(u)[i]
        <4> TAKE i \in 1..k + 1
        <4>1. i = k + 1 \/ i \in 1..k
          OBVIOUS
        <4> QED BY <2>1, <3>1, <4>1
      <3> QED BY <3>1, <3>3, <3>4
    <2> HIDE DEF ones
    <2>4. One(x) \in Seq(V)
      BY <1>0
    <2>5. FlattenSeq(ones(w)) = u \o One(x)
      BY <2>2, <2>3, <2>4, FlattenAppend, Zenon
    <2>6. u \o One(x) = Append(u, x)
      BY AppendIsConcat DEF One
    <2>7. Append(ones(u), One(x)) \in Seq(Seq(V))
      BY <2>2, <2>4, AppendProperties
    <2> QED BY <2>1, <2>3, <2>5, <2>6, <2>7
  <1> HIDE DEF P
  <1>3. Nat \subseteq P
    BY <1>1, <1>2, SetInduction
  <1>4. \A w \in Seq(V) : Len(w) \in Nat
    OBVIOUS
  <1> QED BY <1>3, <1>4 DEF P

-----------------------------------------------------------------------------
(* The mean of a finite set lies between two of its values. *)
LEMMA AverageBetween ==
  ASSUME NEW T, IsFiniteSet(T), T # {}, NEW f, \A i \in T : f[i] \in Int
  PROVE  /\ Sum(f, T) \in Int /\ Cardinality(T) \in Nat /\ Cardinality(T) > 0
         /\ \E i \in T : f[i] * Cardinality(T) <= Sum(f, T)
         /\ \E i \in T : Sum(f, T) <= f[i] * Cardinality(T)
  <1> DEFINE Good(U) == /\ Sum(f, U) \in Int /\ Cardinality(U) \in Nat /\ Cardinality(U) > 0
                        /\ \E i \in U : f[i] * Cardinality(U) <= Sum(f, U)
                        /\ \E i \in U : Sum(f, U) <= f[i] * Cardinality(U)
             P == {U \in SUBSET T : U # {} => Good(U)}
  <1>1. ASSUME NEW U \in SUBSET T, \A x \in U : U \ {x} \in P
        PROVE  U \in P
    <2> SUFFICES ASSUME U # {} PROVE Good(U)
      OBVIOUS
    <2>1. PICK y \in U : TRUE
      OBVIOUS
    <2>2. PICK W : W = U \ {y}
      OBVIOUS
    <2>3. IsFiniteSet(U) /\ IsFiniteSet(W) /\ Cardinality(U) = Cardinality(W) + 1
          /\ Cardinality(W) \in Nat
      <3>1. IsFiniteSet(U)
        BY FS_Subset
      <3>2. Cardinality(U) \in Nat /\ IsFiniteSet(U \ {y}) /\ Cardinality(U \ {y}) = Cardinality(U) - 1
        BY <3>1, FS_RemoveElement, FS_CardinalityType
      <3>3. Cardinality(U \ {y}) \in Nat
        BY <3>2, FS_CardinalityType
      <3> QED BY <2>2, <3>1, <3>2, <3>3
    <2>4. Sum(f, U) = f[y] + Sum(f, W) /\ Sum(f, W) \in Int /\ f[y] \in Int
      BY <2>2, <2>3, SumSplit
    <2>5. CASE W = {}
      <3>1. Sum(f, W) = 0 /\ Cardinality(W) = 0
        BY <2>5, SumEmpty, FS_EmptySet
      <3>2. Sum(f, U) = f[y] /\ Cardinality(U) = 1 /\ f[y] * 1 = f[y]
        BY <2>3, <2>4, <3>1
      <3> QED BY <2>4, <3>2
    <2>6. CASE W # {}
      <3>1. W \in P
        BY <1>1, <2>2
      <3>2. Good(W)
        BY <2>6, <3>1
      <3>3. PICK n \in Nat, t \in Int : n = Cardinality(W) /\ t = Sum(f, W)
        BY <2>3, <2>4
      <3>4. PICK i \in W : f[i] * n <= t
        BY <3>2, <3>3
      <3>5. PICK j \in W : t <= f[j] * n
        BY <3>2, <3>3
      <3>6. PICK a \in Int, b \in Int, c \in Int : a = f[y] /\ b = f[i] /\ c = f[j]
        BY <2>2
      <3>7. b <= a => b * (n + 1) <= a + t
        <4>1. b * (n + 1) = b * n + b
          OBVIOUS
        <4> QED BY <3>4, <3>6, <4>1
      <3>8. a <= b => a * (n + 1) <= a + t
        <4>1. a * (n + 1) = a * n + a
          OBVIOUS
        <4>2. a <= b => a * n <= b * n
          BY Scale
        <4> QED BY <3>4, <3>6, <4>1, <4>2
      <3>9. a <= c => a + t <= c * (n + 1)
        <4>1. c * (n + 1) = c * n + c
          OBVIOUS
        <4> QED BY <3>5, <3>6, <4>1
      <3>10. c <= a => a + t <= a * (n + 1)
        <4>1. a * (n + 1) = a * n + a
          OBVIOUS
        <4>2. c <= a => c * n <= a * n
          BY Scale
        <4> QED BY <3>5, <3>6, <4>1, <4>2
      <3>11. Cardinality(U) = n + 1 /\ Sum(f, U) = a + t /\ i \in U /\ j \in U /\ y \in U
        BY <2>2, <2>3, <2>4, <3>3, <3>6
      <3>12. \E x \in U : f[x] * (n + 1) <= a + t
        BY <3>6, <3>7, <3>8, <3>11
      <3>13. \E x \in U : a + t <= f[x] * (n + 1)
        BY <3>6, <3>9, <3>10, <3>11
      <3> QED BY <3>11, <3>12, <3>13
    <2> QED BY <2>5, <2>6
  <1> HIDE DEF P
  <1>2. T \in P
    BY <1>1, SubsetInduction
  <1> QED BY <1>2 DEF P

(* iperf3rs_add_nonnegative: the mean of what is known. *)
LEMMA AverageIs ==
  ASSUME NEW S, IsFiniteSet(S), NEW f, \A i \in S : f[i] \in Int, NEW from \in Int
  PROVE  \/ Average(f, S, from) = None
         \/ \E q \in Rational :
              /\ Average(f, S, from) = One(q)
              /\ \E i \in S : f[i] >= from /\ Leq(<<f[i], 1>>, q)
              /\ \E i \in S : f[i] >= from /\ Leq(q, <<f[i], 1>>)
  <1> DEFINE known == {i \in S : f[i] >= from}
  <1>1. IsFiniteSet(known)
    BY FS_Subset
  <1>2. CASE known = {}
    BY <1>2 DEF Average, None
  <1>3. CASE known # {}
    <2>1. \A i \in known : f[i] \in Int /\ f[i] >= from /\ i \in S
      OBVIOUS
    <2>2. Average(f, S, from) = << <<Sum(f, known), Cardinality(known)>> >>
      BY <1>3 DEF Average
    <2> HIDE DEF known
    <2>3. PICK t, n : t = Sum(f, known) /\ n = Cardinality(known)
      OBVIOUS
    <2>4. /\ t \in Int /\ n \in Nat /\ n > 0
          /\ \E i \in known : f[i] * n <= t
          /\ \E i \in known : t <= f[i] * n
      BY <1>1, <1>3, <2>1, <2>3, AverageBetween
    <2>5. PICK q : q = <<t, n>>
      OBVIOUS
    <2>6. q \in Rational /\ q[1] = t /\ q[2] = n /\ Average(f, S, from) = One(q)
      BY <2>2, <2>3, <2>4, <2>5 DEF Rational, One
    <2>7. \A i \in known : (Leq(<<f[i], 1>>, q) <=> f[i] * n <= t) /\ (Leq(q, <<f[i], 1>>) <=> t <= f[i] * n)
      <3> TAKE i \in known
      <3>1. PICK v : v = <<f[i], 1>>
        OBVIOUS
      <3>2. v[1] = f[i] /\ v[2] = 1 /\ f[i] \in Int /\ t * 1 = t
        BY <2>1, <2>4, <3>1
      <3>3. (Leq(v, q) <=> f[i] * n <= t) /\ (Leq(q, v) <=> t <= f[i] * n)
        BY <2>6, <3>2 DEF Leq
      <3> QED BY <3>1, <3>3
    <2> QED BY <2>1, <2>4, <2>6, <2>7
  <1> QED BY <1>2, <1>3

(* A number of microseconds. *)
Micros(n) == <<n, MicrosPerSecond>>

(* The conversion keeps the order of a mean and the values it is made of.  *)
LEMMA SecondsKeep ==
  ASSUME NEW q \in Rational
  PROVE  \E r \in Rational :
           /\ Seconds(One(q)) = One(r)
           /\ \A x \in Int : /\ Leq(<<x, 1>>, q) => Leq(Micros(x), r)
                             /\ Leq(q, <<x, 1>>) => Leq(r, Micros(x))
  <1>1. PICK a \in Int, n \in Nat : q = <<a, n>> /\ n > 0 /\ q[1] = a /\ q[2] = n
    BY DEF Rational
  <1>2. PICK m \in Nat : m = MicrosPerSecond /\ m > 0
    BY MicrosAssumption
  <1>3. PICK k \in Nat : k = n * m /\ k > 0
    <2>1. n * m \in Nat /\ n * m > 0
      BY <1>1, <1>2, SMT
    <2> QED BY <2>1
  <1>4. PICK r : r = <<a, k>>
    OBVIOUS
  <1>5. r \in Rational /\ r[1] = a /\ r[2] = k
    BY <1>3, <1>4 DEF Rational
  <1>6. Seconds(One(q)) = One(r)
    BY <1>1, <1>2, <1>3, <1>4 DEF Seconds, One
  <1>7. ASSUME NEW x \in Int
        PROVE  /\ Leq(<<x, 1>>, q) => Leq(Micros(x), r)
               /\ Leq(q, <<x, 1>>) => Leq(r, Micros(x))
    <2>1. PICK v, w : v = <<x, 1>> /\ w = Micros(x)
      OBVIOUS
    <2>2. v[1] = x /\ v[2] = 1 /\ w[1] = x /\ w[2] = m
      BY <1>2, <2>1 DEF Micros
    <2>3. (Leq(v, q) <=> x * n <= a * 1) /\ (Leq(q, v) <=> a * 1 <= x * n)
      BY <1>1, <2>2 DEF Leq
    <2>4. (Leq(w, r) <=> x * k <= a * m) /\ (Leq(r, w) <=> a * m <= x * k)
      BY <1>5, <2>2 DEF Leq
    <2>5. PICK y \in Int : y = x * n
      OBVIOUS
    <2>6. x * k = y * m
      BY <1>3, <2>5
    <2>7. (y <= a => y * m <= a * m) /\ (a <= y => a * m <= y * m)
      BY Scale
    <2> QED BY <2>1, <2>3, <2>4, <2>5, <2>6, <2>7
  <1> QED BY <1>5, <1>6, <1>7

(* A weighted mean lies above what is below every part, and below what is  *)
(* above.                                                                  *)
LEMMA WeightedBetween ==
  ASSUME NEW T, IsFiniteSet(T), NEW d, NEW b, \A i \in T : d[i] \in Nat /\ b[i] \in Nat,
         NEW p \in Int, NEW q \in Nat
  PROVE  /\ Sum(d, T) \in Nat /\ Sum(b, T) \in Nat
         /\ (\A i \in T : p * d[i] <= (8 * b[i]) * q) => p * Sum(d, T) <= (8 * Sum(b, T)) * q
         /\ (\A i \in T : (8 * b[i]) * q <= p * d[i]) => (8 * Sum(b, T)) * q <= p * Sum(d, T)
  <1>0. \A U \in SUBSET T : IsFiniteSet(U) /\ Sum(d, U) \in Nat /\ Sum(b, U) \in Nat
    <2> TAKE U \in SUBSET T
    <2>1. IsFiniteSet(U) /\ (\A i \in U : d[i] \in Nat) /\ (\A i \in U : b[i] \in Nat)
      BY FS_Subset
    <2> QED BY <2>1, SumNat
  <1> DEFINE P == {U \in SUBSET T :
                    /\ (\A i \in T : p * d[i] <= (8 * b[i]) * q) => p * Sum(d, U) <= (8 * Sum(b, U)) * q
                    /\ (\A i \in T : (8 * b[i]) * q <= p * d[i]) => (8 * Sum(b, U)) * q <= p * Sum(d, U)}
  <1>1. ASSUME NEW U \in SUBSET T, \A x \in U : U \ {x} \in P
        PROVE  U \in P
    <2>1. CASE U = {}
      <3>1. Sum(d, U) = 0 /\ Sum(b, U) = 0
        BY <2>1, SumEmpty
      <3>2. p * 0 = 0 /\ (8 * 0) * q = 0
        OBVIOUS
      <3> QED BY <3>1, <3>2
    <2>2. CASE U # {}
      <3>1. PICK y \in U : TRUE
        BY <2>2
      <3>2. PICK W : W = U \ {y} /\ W \in P /\ W \in SUBSET T
        BY <1>1
      <3>3. \A i \in U : d[i] \in Int /\ b[i] \in Int
        OBVIOUS
      <3>4. Sum(d, U) = d[y] + Sum(d, W) /\ Sum(b, U) = b[y] + Sum(b, W)
        BY <1>0, <3>2, <3>3, SumSplit
      <3>5. PICK m \in Nat, n \in Nat, v \in Nat, w \in Nat :
              m = d[y] /\ n = b[y] /\ v = Sum(d, W) /\ w = Sum(b, W)
        BY <1>0, <3>2
      <3>6. p * (m + v) = p * m + p * v /\ (8 * (n + w)) * q = (8 * n) * q + (8 * w) * q
        OBVIOUS
      <3>7. Sum(d, U) = m + v /\ Sum(b, U) = n + w
        BY <3>4, <3>5
      <3>8. ASSUME \A i \in T : p * d[i] <= (8 * b[i]) * q
            PROVE  p * Sum(d, U) <= (8 * Sum(b, U)) * q
        <4>1. p * m <= (8 * n) * q /\ p * v <= (8 * w) * q
          BY <3>2, <3>5, <3>8
        <4> QED BY <3>6, <3>7, <4>1
      <3>9. ASSUME \A i \in T : (8 * b[i]) * q <= p * d[i]
            PROVE  (8 * Sum(b, U)) * q <= p * Sum(d, U)
        <4>1. (8 * n) * q <= p * m /\ (8 * w) * q <= p * v
          BY <3>2, <3>5, <3>9
        <4> QED BY <3>6, <3>7, <4>1
      <3> QED BY <3>8, <3>9
    <2> QED BY <2>1, <2>2
  <1> HIDE DEF P
  <1>2. T \in P
    BY <1>1, SubsetInduction
  <1> QED BY <1>0, <1>2 DEF P

-----------------------------------------------------------------------------
(* Aggregation: the families of a summary. *)

(* Functions that are merged, of which the first counts. *)
Merges(f, g, h) ==
  /\ DOMAIN h = DOMAIN f \cup DOMAIN g
  /\ \A x \in DOMAIN f : h[x] = f[x]
  /\ \A x \in DOMAIN g \ DOMAIN f : h[x] = g[x]

(* What Merged makes. *)
LEMMA MergeIs ==
  \A f, g : Merges(f, g, Merged(f, g))
  BY DEF Merged, Merges

(* What Present keeps. *)
LEMMA PresentIs ==
  ASSUME NEW f
  PROVE  /\ \A x : x \in DOMAIN Present(f) <=> x \in DOMAIN f /\ f[x] # <<>>
         /\ \A x \in DOMAIN Present(f) : Present(f)[x] = f[x][1]
  BY DEF Present

(* The families that are written of a summary. *)
LEMMA FamiliesAre ==
  ASSUME NEW summary, DOMAIN summary.counters = Counters, DOMAIN summary.gauges = Gauges,
         NEW families, families = WindowFamilies(summary)
  PROVE  /\ \A f \in Counters : /\ f \in DOMAIN families <=> summary.counters[f] # <<>>
                                /\ f \in DOMAIN families => families[f] = summary.counters[f][1]
         /\ \A f \in Gauges : /\ f \in DOMAIN families <=> summary.gauges[f] # <<>>
                              /\ f \in DOMAIN families => families[f] = summary.gauges[f][1]
         /\ families["bandwidth"] = summary.bandwidth[1]
  <1> DEFINE a == Present(summary.counters)
             b == Present(summary.gauges)
             c == [f \in {"duration", "bytes", "stream_count", "omitted"} |-> summary[f]]
             d == [f \in {"bandwidth"} |-> summary.bandwidth[1]]
  <1>1. families = Merged(Merged(a, b), Merged(c, d))
    BY DEF WindowFamilies
  <1>2. /\ \A x : x \in DOMAIN a <=> x \in Counters /\ summary.counters[x] # <<>>
        /\ \A x \in DOMAIN a : a[x] = summary.counters[x][1]
    BY PresentIs
  <1>3. /\ \A x : x \in DOMAIN b <=> x \in Gauges /\ summary.gauges[x] # <<>>
        /\ \A x \in DOMAIN b : b[x] = summary.gauges[x][1]
    BY PresentIs
  <1>4. /\ DOMAIN c = {"duration", "bytes", "stream_count", "omitted"}
        /\ DOMAIN d = {"bandwidth"} /\ d["bandwidth"] = summary.bandwidth[1]
    OBVIOUS
  <1> HIDE DEF a, b, c, d
  <1>5. PICK ab : ab = Merged(a, b)
    OBVIOUS
  <1>6. PICK cd : cd = Merged(c, d)
    OBVIOUS
  <1>7. Merges(a, b, ab)
    BY <1>5, MergeIs
  <1>8. Merges(c, d, cd)
    BY <1>6, MergeIs
  <1>9. Merges(ab, cd, families)
    BY <1>1, <1>5, <1>6, MergeIs
  <1>10. /\ Counters \cap Gauges = {} /\ (Counters \cup Gauges) \cap DOMAIN c = {}
         /\ (Counters \cup Gauges \cup DOMAIN c) \cap DOMAIN d = {}
    BY <1>4 DEF Counters, Gauges
  <1>11. ASSUME NEW f \in Counters
         PROVE  /\ f \in DOMAIN families <=> summary.counters[f] # <<>>
                /\ f \in DOMAIN families => families[f] = summary.counters[f][1]
    BY <1>2, <1>3, <1>7, <1>8, <1>9, <1>10 DEF Merges
  <1>12. ASSUME NEW f \in Gauges
         PROVE  /\ f \in DOMAIN families <=> summary.gauges[f] # <<>>
                /\ f \in DOMAIN families => families[f] = summary.gauges[f][1]
    BY <1>2, <1>3, <1>7, <1>8, <1>9, <1>10 DEF Merges
  <1>13. families["bandwidth"] = summary.bandwidth[1]
    BY <1>2, <1>3, <1>4, <1>7, <1>8, <1>9, <1>10 DEF Merges
  <1> QED BY <1>11, <1>12, <1>13

(* The families that are written of a sample. *)
LEMMA SampleFamilies ==
  ASSUME NEW sample
  PROVE  \A f \in Counters : f \in DOMAIN IntervalFamilies(sample) <=> sample[f] # <<>>
  <1> DEFINE o == [f \in Counters \cup Gauges |-> sample[f]]
             a == Present(o)
             b == [f \in {"bytes", "bandwidth", "stream_count"} |-> sample[f]]
             c == [f \in {"omitted"} |-> IF sample.omitted THEN 1 ELSE 0]
  <1>1. IntervalFamilies(sample) = Merged(a, Merged(b, c))
    BY DEF IntervalFamilies
  <1>2. \A f \in Counters : f \in DOMAIN a <=> sample[f] # <<>>
    <2>1. \A f \in Counters : f \in DOMAIN o /\ o[f] = sample[f]
      OBVIOUS
    <2> HIDE DEF o
    <2> QED BY <2>1, PresentIs
  <1>3. DOMAIN b \cap Counters = {} /\ DOMAIN c \cap Counters = {}
    BY DEF Counters
  <1> HIDE DEF a, b, c, o
  <1>4. DOMAIN IntervalFamilies(sample) = DOMAIN a \cup (DOMAIN b \cup DOMAIN c)
    <2>1. PICK bc : bc = Merged(b, c)
      OBVIOUS
    <2>2. Merges(b, c, bc) /\ Merges(a, bc, IntervalFamilies(sample))
      BY <1>1, <2>1, MergeIs
    <2> QED BY <2>2 DEF Merges
  <1> QED BY <1>2, <1>3, <1>4

-----------------------------------------------------------------------------
(* Aggregation: samples and summaries. *)

(* What libiperf has stored of a stream. *)
StoredTypes ==
  [bytes : Nat, duration : Nat, omitted : BOOLEAN, retransmits : Nat, rtt : Nat \cup {-1},
   cwnd : Nat, pmtu : Nat \cup {-1}, reorder : Int, epoch : {"same", "new", "unknown"},
   packets : Nat, lost : Int, jitter : Nat]

(* libiperf stores such a result. *)
LEMMA StoredType ==
  ASSUME NEW r \in ResultTypes, NEW b, b # <<>> => b[1].reorder \in Int
  PROVE  Stored(r, b) \in StoredTypes
  <1> DEFINE n == IF r.epoch = "unknown" THEN -1
                  ELSE (IF b = <<>> \/ r.epoch = "new" THEN 0
                        ELSE IF b[1].reorder < 0 THEN 0 ELSE b[1].reorder) + r.reorder
  <1>1. Stored(r, b) = [r EXCEPT !.reorder = n]
    BY DEF Stored
  <1>2. n \in Int
    BY DEF ResultTypes
  <1> HIDE DEF n
  <1> QED BY <1>1, <1>2 DEF ResultTypes, StoredTypes

(* A result is there of every stream of a test. *)
Collected(t, p) == \A i \in DOMAIN t.streams : \E r \in StoredTypes : p[i] = One(r)

(* Packets lost on the streams that report. *)
LostOf(t, p) == Sum([i \in Matched(t, p) |-> p[i][1].lost], Matched(t, p))

(* A sample is one of these results. *)
Reports(w, t, p) ==
  /\ w.bytes \in Nat /\ w.duration \in Nat /\ w.bandwidth \in Rational
  /\ (\A i \in DOMAIN t.streams : p[i][1].duration > 0) => w.duration > 0
  /\ w.duration > 0 => w.bandwidth = <<8 * w.bytes, w.duration>>
  /\ \A f \in Counters : w[f] \in Opt(Int)
  /\ \A f \in Gauges : w[f] \in Opt(Rational)
  /\ w.lost = IF t.protocol = "udp" THEN One(LostOf(t, p)) ELSE None
  /\ LostOf(t, p) \in Int
  /\ \A v \in Rational : w.rtt = One(v) =>
       /\ \E i \in DOMAIN t.streams : p[i][1].rtt >= 0 /\ Leq(Micros(p[i][1].rtt), v)
       /\ \E i \in DOMAIN t.streams : p[i][1].rtt >= 0 /\ Leq(v, Micros(p[i][1].rtt))

(* A set of numbers that is not empty has a least. *)
LEMMA LeastIs ==
  ASSUME NEW n \in Nat, NEW S \in SUBSET (1..n), S # {}
  PROVE  (CHOOSE i \in S : \A j \in S : i <= j) \in S
  <1>1. \E i \in S : \A j \in S : i <= j
    <2> DEFINE P == {k \in Nat : \A i \in S : i <= k => \E m \in S : \A j \in S : m <= j}
    <2>1. 0 \in P
      OBVIOUS
    <2>2. ASSUME NEW k \in Nat, k \in P PROVE k + 1 \in P
      <3> SUFFICES ASSUME NEW i \in S, i <= k + 1 PROVE \E m \in S : \A j \in S : m <= j
        OBVIOUS
      <3>1. CASE \E j \in S : j <= k
        BY <2>2, <3>1
      <3>2. CASE \A j \in S : ~(j <= k)
        <4>1. \A j \in S : i <= j
          BY <3>2
        <4> QED BY <4>1
      <3> QED BY <3>1, <3>2
    <2> HIDE DEF P
    <2>3. Nat \subseteq P
      BY <2>1, <2>2, SetInduction
    <2>4. PICK i \in S : TRUE
      OBVIOUS
    <2>5. i \in Nat /\ i <= i
      OBVIOUS
    <2> QED BY <2>3, <2>5 DEF P
  <1> QED BY <1>1

(* Sums and averages of what the matched streams report. *)
LEMMA SampleFits ==
  ASSUME NEW t, t.streams \in Seq(BOOLEAN), NEW p, Collected(t, p), IntervalOk(t, p),
         NEW q \in Opt(Nat), NEW w, w = Sample(t, p, q)
  PROVE  Reports(w, t, p)
  <1> DEFINE S == Matched(t, p)
             bytes == [i \in S |-> p[i][1].bytes]
             retransmits == [i \in S |-> p[i][1].retransmits]
             rtt == [i \in S |-> p[i][1].rtt]
             cwnd == [i \in S |-> p[i][1].cwnd]
             pmtu == [i \in S |-> p[i][1].pmtu]
             packets == [i \in S |-> p[i][1].packets]
             lost == [i \in S |-> p[i][1].lost]
             jitter == [i \in S |-> p[i][1].jitter]
             first == CHOOSE i \in S : \A j \in S : i <= j
             tcp == CountsReorders(t)
             udp == t.protocol = "udp"
             sends == MustBeSender(t)
  <1>1. /\ w.bytes = Sum(bytes, S) /\ w.duration = p[first][1].duration
        /\ w.bandwidth = IF w.duration > 0 THEN <<8 * w.bytes, w.duration>> ELSE <<0, 1>>
        /\ w.retransmits = IF tcp THEN <<Sum(retransmits, S)>> ELSE <<>>
        /\ w.reorders = q
        /\ w.rtt = IF tcp THEN Seconds(Average(rtt, S, 0)) ELSE <<>>
        /\ w.pmtu = IF tcp THEN Average(pmtu, S, 0) ELSE <<>>
        /\ w.cwnd = IF tcp THEN Average(cwnd, S, 1) ELSE <<>>
        /\ w.packets = IF udp THEN <<Sum(packets, S)>> ELSE <<>>
        /\ w.lost = IF udp THEN <<Sum(lost, S)>> ELSE <<>>
        /\ w.jitter = IF udp /\ ~sends THEN << <<Sum(jitter, S), Cardinality(S)>> >> ELSE <<>>
    BY DEF Sample
  <1>2. S \subseteq DOMAIN t.streams /\ S # {} /\ DOMAIN t.streams = 1..Len(t.streams)
        /\ Len(t.streams) \in Nat
    BY DEF Matched, IntervalOk
  <1>3. ASSUME NEW i \in DOMAIN t.streams
        PROVE  /\ p[i][1].bytes \in Nat /\ p[i][1].duration \in Nat /\ p[i][1].retransmits \in Nat
               /\ p[i][1].rtt \in Int /\ p[i][1].cwnd \in Nat /\ p[i][1].packets \in Nat
               /\ p[i][1].pmtu \in Int
               /\ p[i][1].lost \in Int /\ p[i][1].jitter \in Nat
    <2>1. PICK r \in StoredTypes : p[i] = One(r)
      BY DEF Collected
    <2>2. p[i][1] = r
      BY <2>1, OneIs
    <2> QED BY <2>2 DEF StoredTypes
  <1>4. IsFiniteSet(S)
    <2>1. IsFiniteSet(1..Len(t.streams)) /\ S \subseteq 1..Len(t.streams)
      BY <1>2, FS_Interval
    <2> QED BY <2>1, FS_Subset
  <1>5. first \in S
    BY <1>2, LeastIs
  <1> HIDE DEF first, S
  <1>6. /\ \A i \in S : bytes[i] \in Nat /\ retransmits[i] \in Nat /\ packets[i] \in Nat /\ jitter[i] \in Nat
        /\ \A i \in S : rtt[i] \in Int /\ cwnd[i] \in Int /\ lost[i] \in Int /\ rtt[i] = p[i][1].rtt
        /\ \A i \in S : pmtu[i] \in Int
    BY <1>2, <1>3
  <1> HIDE DEF bytes, retransmits, rtt, cwnd, pmtu, packets, lost, jitter
  <1>7. /\ Sum(bytes, S) \in Nat /\ Sum(retransmits, S) \in Nat /\ Sum(packets, S) \in Nat
        /\ Sum(jitter, S) \in Nat /\ Sum(lost, S) \in Int
    <2>1. Sum(bytes, S) \in Nat
      BY <1>4, <1>6, SumNat
    <2>2. Sum(retransmits, S) \in Nat
      BY <1>4, <1>6, SumNat
    <2>3. Sum(packets, S) \in Nat
      BY <1>4, <1>6, SumNat
    <2>4. Sum(jitter, S) \in Nat
      BY <1>4, <1>6, SumNat
    <2>5. Sum(lost, S) \in Int
      BY <1>4, <1>6, SumType
    <2> QED BY <2>1, <2>2, <2>3, <2>4, <2>5
  <1>8. LostOf(t, p) = Sum(lost, S)
    BY DEF LostOf, S, lost
  <1>9. /\ w.bytes \in Nat /\ w.duration \in Nat /\ w.bandwidth \in Rational
        /\ (\A i \in DOMAIN t.streams : p[i][1].duration > 0) => w.duration > 0
        /\ w.duration > 0 => w.bandwidth = <<8 * w.bytes, w.duration>>
    <2>1. w.bytes \in Nat /\ w.duration \in Nat
      BY <1>1, <1>2, <1>3, <1>5, <1>7
    <2>2. w.bandwidth \in Rational
      <3>1. PICK b \in Nat, d \in Nat : b = w.bytes /\ d = w.duration
        BY <2>1
      <3>2. <<0, 1>> \in Rational /\ (d > 0 => <<8 * b, d>> \in Rational)
        BY DEF Rational
      <3> QED BY <1>1, <3>1, <3>2
    <2> QED BY <1>1, <1>2, <1>5, <2>1, <2>2
  <1>10. \A v, V : v \in V => <<v>> \in Opt(V)
    BY DEF Opt, One
  <1>11. \A V : <<>> \in Opt(V)
    BY DEF Opt, None
  <1>12. \A f \in Counters : w[f] \in Opt(Int)
    <2>1. w.retransmits \in Opt(Int)
      BY <1>1, <1>7, <1>10, <1>11
    <2>2. w.packets \in Opt(Int)
      BY <1>1, <1>7, <1>10, <1>11
    <2>3. w.lost \in Opt(Int)
      BY <1>1, <1>7, <1>10, <1>11
    <2>4. w.reorders \in Opt(Int)
      BY <1>1 DEF Opt
    <2> QED BY <2>1, <2>2, <2>3, <2>4 DEF Counters
  <1> DEFINE mean == Seconds(Average(rtt, S, 0))
  <1>13. \/ mean = None
         \/ \E r \in Rational : /\ mean = One(r)
                                /\ \E i \in S : rtt[i] >= 0 /\ Leq(Micros(rtt[i]), r)
                                /\ \E i \in S : rtt[i] >= 0 /\ Leq(r, Micros(rtt[i]))
    <2>1. CASE Average(rtt, S, 0) = None
      BY <2>1 DEF Seconds, None
    <2>2. CASE Average(rtt, S, 0) # None
      <3>1. PICK u \in Rational : /\ Average(rtt, S, 0) = One(u)
                                  /\ \E i \in S : rtt[i] >= 0 /\ Leq(<<rtt[i], 1>>, u)
                                  /\ \E i \in S : rtt[i] >= 0 /\ Leq(u, <<rtt[i], 1>>)
        BY <1>4, <1>6, <2>2, AverageIs
      <3>2. PICK r \in Rational :
              /\ Seconds(One(u)) = One(r)
              /\ \A x \in Int : /\ Leq(<<x, 1>>, u) => Leq(Micros(x), r)
                                /\ Leq(u, <<x, 1>>) => Leq(r, Micros(x))
        BY SecondsKeep
      <3>3. mean = One(r)
        BY <3>1, <3>2
      <3>4. /\ \E i \in S : rtt[i] >= 0 /\ Leq(Micros(rtt[i]), r)
            /\ \E i \in S : rtt[i] >= 0 /\ Leq(r, Micros(rtt[i]))
        <4>1. PICK i \in S : rtt[i] >= 0 /\ Leq(<<rtt[i], 1>>, u)
          BY <3>1
        <4>2. PICK j \in S : rtt[j] >= 0 /\ Leq(u, <<rtt[j], 1>>)
          BY <3>1
        <4>3. PICK x \in Int, y \in Int : x = rtt[i] /\ y = rtt[j]
          BY <1>6
        <4>4. Leq(<<x, 1>>, u) /\ Leq(u, <<y, 1>>)
          BY <4>1, <4>2, <4>3
        <4>5. Leq(Micros(x), r) /\ Leq(r, Micros(y))
          BY <3>2, <4>4, Zenon
        <4> QED BY <4>1, <4>2, <4>3, <4>5
      <3> HIDE DEF mean
      <3> QED BY <3>3, <3>4
    <2> QED BY <2>1, <2>2
  <1> HIDE DEF mean
  <1>14. Average(cwnd, S, 1) \in Opt(Rational) /\ Average(pmtu, S, 0) \in Opt(Rational)
    <2>1. \A r \in Rational : One(r) \in Opt(Rational)
      BY DEF Opt
    <2>2. None \in Opt(Rational)
      BY DEF Opt
    <2>3. Average(cwnd, S, 1) \in Opt(Rational)
      <3>1. \A i \in S : cwnd[i] \in Int
        BY <1>6
      <3> QED BY <1>4, <2>1, <2>2, <3>1, AverageIs
    <2>4. Average(pmtu, S, 0) \in Opt(Rational)
      <3>1. \A i \in S : pmtu[i] \in Int
        BY <1>6
      <3> QED BY <1>4, <2>1, <2>2, <3>1, AverageIs
    <2> QED BY <2>3, <2>4
  <1>15. \A f \in Gauges : w[f] \in Opt(Rational)
    <2>1. w.rtt \in Opt(Rational)
      <3>1. w.rtt = mean \/ w.rtt = <<>>
        BY <1>1 DEF mean
      <3> QED BY <1>11, <1>13, <3>1 DEF Opt
    <2>2. w.cwnd \in Opt(Rational)
      BY <1>1, <1>11, <1>14
    <2>4. w.pmtu \in Opt(Rational)
      BY <1>1, <1>11, <1>14
    <2>3. w.jitter \in Opt(Rational)
      <3>1. Cardinality(S) \in Nat /\ Cardinality(S) # 0
        BY <1>2, <1>4, FS_CardinalityType, FS_EmptySet
      <3>2. <<Sum(jitter, S), Cardinality(S)>> \in Rational
        BY <1>7, <3>1 DEF Rational
      <3> QED BY <1>1, <1>10, <1>11, <3>2
    <2> QED BY <2>1, <2>2, <2>3, <2>4 DEF Gauges
  <1>16. w.lost = IF t.protocol = "udp" THEN One(LostOf(t, p)) ELSE None
    BY <1>1, <1>8 DEF One, None
  <1>17. ASSUME NEW v \in Rational, w.rtt = One(v)
         PROVE  /\ \E i \in DOMAIN t.streams : p[i][1].rtt >= 0 /\ Leq(Micros(p[i][1].rtt), v)
                /\ \E i \in DOMAIN t.streams : p[i][1].rtt >= 0 /\ Leq(v, Micros(p[i][1].rtt))
    <2>1. w.rtt = mean
      BY <1>1, <1>17, OneIs DEF mean
    <2>2. One(v) # None /\ \A r : One(v) = One(r) => v = r
      BY OneIs
    <2>3. /\ \E i \in S : rtt[i] >= 0 /\ Leq(Micros(rtt[i]), v)
          /\ \E i \in S : rtt[i] >= 0 /\ Leq(v, Micros(rtt[i]))
      BY <1>13, <1>17, <2>1, <2>2
    <2> QED BY <1>2, <1>6, <2>3
  <1> QED BY <1>7, <1>8, <1>9, <1>12, <1>15, <1>16, <1>17 DEF Reports

(* What the samples of a window say of a field, where they say something.  *)
SaidBy(samples, f, values) ==
  \A k \in DOMAIN values : \E n \in DOMAIN samples : samples[n][f] = One(values[k])

(* What Observed gathers. *)
LEMMA ObservedIs ==
  ASSUME NEW V, NEW S, NEW samples \in Seq(S), NEW f,
         \A n \in DOMAIN samples : samples[n][f] \in Opt(V)
  PROVE  /\ Observed(samples, f) \in Seq(V)
         /\ SaidBy(samples, f, Observed(samples, f))
         /\ Observed(samples, f) = None <=> \A n \in DOMAIN samples : samples[n][f] = None
  <1> DEFINE s == [i \in DOMAIN samples |-> samples[i][f]]
  <1>1. Len(samples) \in Nat /\ DOMAIN samples = 1..Len(samples)
    OBVIOUS
  <1>2. s \in [1..Len(samples) -> Opt(V)]
    BY <1>1
  <1>3. s \in Seq(Opt(V))
    BY <1>1, <1>2, FunctionIsSeq
  <1>4. DOMAIN s = DOMAIN samples /\ \A n \in DOMAIN samples : s[n] = samples[n][f]
    OBVIOUS
  <1>5. Observed(samples, f) = FlattenSeq(s)
    BY DEF Observed
  <1> HIDE DEF s
  <1>6. PICK o : o = FlattenSeq(s)
    OBVIOUS
  <1>7. /\ o \in Seq(V)
        /\ \A k \in DOMAIN o : \E n \in DOMAIN s : s[n] = One(o[k])
        /\ o = None <=> \A n \in DOMAIN s : s[n] = None
    BY <1>3, <1>6, FlatOptions
  <1> QED BY <1>4, <1>5, <1>6, <1>7 DEF SaidBy

(* A counter is never less than the values it is made of, nor than zero.   *)
LEMMA CounterIs ==
  ASSUME NEW s \in Seq(Int)
  PROVE  /\ Counter(s) = <<>> <=> s = <<>>
         /\ s # <<>> =>
              /\ Counter(s)[1] \in Int /\ Total(s) \in Int
              /\ Counter(s)[1] >= Total(s) /\ Counter(s)[1] >= 0
              /\ (\A i \in DOMAIN s : s[i] >= 0) => Counter(s)[1] = Total(s)
  <1>1. CASE s = <<>>
    BY <1>1 DEF Counter
  <1>2. CASE s # <<>>
    <2> DEFINE T == DOMAIN s
               g == [i \in DOMAIN s |-> Nonnegative(s[i])]
    <2>1. Counter(s) = <<Total(g)>>
      BY <1>2 DEF Counter
    <2>2. Total(g) = Sum(g, T) /\ Total(s) = Sum(s, T)
      BY DEF Total
    <2>3. IsFiniteSet(T)
      <3>1. T = 1..Len(s) /\ Len(s) \in Nat
        OBVIOUS
      <3> QED BY <3>1, FS_Interval
    <2>4. \A i \in T : g[i] \in Nat /\ s[i] \in Int /\ s[i] <= g[i] /\ (s[i] >= 0 => s[i] = g[i])
      BY DEF Nonnegative
    <2> HIDE DEF g, T
    <2>5. Sum(g, T) \in Nat
      BY <2>3, <2>4, SumNat
    <2>6. Sum(s, T) \in Int /\ Sum(s, T) <= Sum(g, T)
      BY <2>3, <2>4, SumAtMost
    <2>7. (\A i \in T : s[i] >= 0) => Sum(s, T) = Sum(g, T)
      BY <2>3, <2>4, SumSame
    <2>8. PICK n \in Nat : n = Total(g)
      BY <2>2, <2>5
    <2>9. Counter(s) # <<>> /\ Counter(s)[1] = n
      BY <2>1, <2>8
    <2> QED BY <1>2, <2>2, <2>5, <2>6, <2>7, <2>8, <2>9 DEF T
  <1> QED BY <1>1, <1>2

(* Samples of the results of a window. *)
Holds(t, samples, results) ==
  /\ samples \in Seq(Range(samples)) /\ results \in Seq(Range(results))
  /\ Len(samples) = Len(results)
  /\ \A n \in DOMAIN samples : Collected(t, results[n]) /\ Reports(samples[n], t, results[n])

(* Their types. *)
LEMMA HoldsTypes ==
  ASSUME NEW t, NEW samples, NEW results, Holds(t, samples, results)
  PROVE  /\ samples \in Seq(Range(samples)) /\ Len(samples) \in Nat
         /\ DOMAIN samples = 1..Len(samples) /\ DOMAIN results = 1..Len(samples)
         /\ \A n \in DOMAIN samples : Reports(samples[n], t, results[n])
  BY DEF Holds

(* The counters of a summary. *)
LEMMA CountersAre ==
  ASSUME NEW t, NEW samples, NEW results, Holds(t, samples, results),
         NEW families, families = WindowFamilies(aggregate_window(samples)), NEW f \in Counters
  PROVE  /\ f \in DOMAIN families <=> \E n \in DOMAIN samples : samples[n][f] # <<>>
         /\ f \in DOMAIN families <=> Observed(samples, f) # <<>>
         /\ f \in DOMAIN families => families[f] = Counter(Observed(samples, f))[1]
  <1> DEFINE summary == aggregate_window(samples)
  <1>1. /\ summary.counters = [g \in Counters |-> Counter(Observed(samples, g))]
        /\ summary.gauges = [g \in Gauges |-> Gauge(Observed(samples, g))]
    BY DEF aggregate_window
  <1>2. DOMAIN summary.counters = Counters /\ DOMAIN summary.gauges = Gauges
        /\ summary.counters[f] = Counter(Observed(samples, f))
    BY <1>1
  <1> HIDE DEF summary
  <1>3. families = WindowFamilies(summary)
    BY DEF summary
  <1>4. /\ f \in DOMAIN families <=> summary.counters[f] # <<>>
        /\ f \in DOMAIN families => families[f] = summary.counters[f][1]
    BY <1>2, <1>3, FamiliesAre
  <1>5. \A n \in DOMAIN samples : samples[n][f] \in Opt(Int)
    BY HoldsTypes DEF Reports
  <1>6. PICK o : o = Observed(samples, f)
    OBVIOUS
  <1>7. o \in Seq(Int) /\ (o = None <=> \A n \in DOMAIN samples : samples[n][f] = None)
    <2>1. samples \in Seq(Range(samples))
      BY HoldsTypes
    <2>2. /\ Observed(samples, f) \in Seq(Int)
          /\ Observed(samples, f) = None <=> \A n \in DOMAIN samples : samples[n][f] = None
      BY <1>5, <2>1, ObservedIs
    <2> QED BY <1>6, <2>2
  <1>8. Counter(o) = <<>> <=> o = <<>>
    BY <1>7, CounterIs
  <1> QED BY <1>2, <1>4, <1>6, <1>7, <1>8 DEF None

(* The lost packets of a summary. *)
LEMMA LostIs ==
  ASSUME NEW t, NEW samples, NEW results, Holds(t, samples, results), samples # <<>>,
         NEW families, families = WindowFamilies(aggregate_window(samples)),
         NEW net, net = [n \in DOMAIN results |-> LostOf(t, results[n])]
  PROVE  /\ "lost" \in DOMAIN families <=> t.protocol = "udp"
         /\ "lost" \in DOMAIN families =>
              /\ families["lost"] >= Total(net) /\ families["lost"] >= 0
              /\ (\A n \in DOMAIN results : net[n] >= 0) => families["lost"] = Total(net)
  <1>1. "lost" \in Counters
    BY DEF Counters
  <1>2. /\ DOMAIN samples = 1..Len(samples) /\ DOMAIN results = 1..Len(samples)
        /\ Len(samples) \in Nat /\ Len(samples) # 0
    BY HoldsTypes, EmptySeq
  <1>3. \A n \in DOMAIN samples :
          /\ samples[n]["lost"] = IF t.protocol = "udp" THEN One(LostOf(t, results[n])) ELSE None
          /\ LostOf(t, results[n]) \in Int
    BY HoldsTypes DEF Reports
  <1>4. PICK o : o = Observed(samples, "lost")
    OBVIOUS
  <1>5. /\ "lost" \in DOMAIN families <=> \E n \in DOMAIN samples : samples[n]["lost"] # <<>>
        /\ "lost" \in DOMAIN families <=> o # <<>>
        /\ "lost" \in DOMAIN families => families["lost"] = Counter(o)[1]
    BY <1>1, <1>4, CountersAre
  <1>6. "lost" \in DOMAIN families <=> t.protocol = "udp"
    BY <1>2, <1>3, <1>5, OneIs DEF None
  <1>7. net \in Seq(Int) /\ DOMAIN net = DOMAIN results /\ \A n \in DOMAIN results : net[n] = LostOf(t, results[n])
    <2>1. net \in [1..Len(samples) -> Int]
      BY <1>2, <1>3
    <2> QED BY <1>2, <2>1, FunctionIsSeq
  <1>8. CASE t.protocol = "udp"
    <2>1. [n \in DOMAIN samples |-> samples[n]["lost"]] = [n \in DOMAIN net |-> One(net[n])]
      BY <1>2, <1>3, <1>7, <1>8
    <2>2. o = FlattenSeq([n \in DOMAIN net |-> One(net[n])])
      BY <1>4, <2>1 DEF Observed
    <2>3. o = net
      BY <1>7, <2>2, FlatOnes
    <2>4. net # <<>>
      BY <1>5, <1>6, <1>8, <2>3
    <2>5. /\ Counter(net)[1] \in Int /\ Total(net) \in Int
          /\ Counter(net)[1] >= Total(net) /\ Counter(net)[1] >= 0
          /\ (\A i \in DOMAIN net : net[i] >= 0) => Counter(net)[1] = Total(net)
      BY <1>7, <2>4, CounterIs
    <2> QED BY <1>5, <1>6, <1>7, <1>8, <2>3, <2>5
  <1>9. CASE t.protocol # "udp"
    BY <1>6, <1>9
  <1> QED BY <1>8, <1>9

(* The gauges of a summary. *)
LEMMA GaugesAre ==
  ASSUME NEW t, NEW samples, NEW results, Holds(t, samples, results),
         NEW families, families = WindowFamilies(aggregate_window(samples)), NEW f \in Gauges,
         f \in DOMAIN families
  PROVE  LET values == Observed(samples, f)
         IN /\ values \in Seq(Rational) /\ Bounded(families[f], values)
            /\ SaidBy(samples, f, values)
            /\ Leq(families[f].min, families[f].mean) /\ Leq(families[f].mean, families[f].max)
  <1> DEFINE summary == aggregate_window(samples)
  <1>1. /\ summary.counters = [g \in Counters |-> Counter(Observed(samples, g))]
        /\ summary.gauges = [g \in Gauges |-> Gauge(Observed(samples, g))]
    BY DEF aggregate_window
  <1>2. DOMAIN summary.counters = Counters /\ DOMAIN summary.gauges = Gauges
        /\ summary.gauges[f] = Gauge(Observed(samples, f))
    BY <1>1
  <1> HIDE DEF summary
  <1>3. families = WindowFamilies(summary)
    BY DEF summary
  <1>4. summary.gauges[f] # <<>> /\ families[f] = summary.gauges[f][1]
    BY <1>2, <1>3, FamiliesAre
  <1>5. \A n \in DOMAIN samples : samples[n][f] \in Opt(Rational)
    BY HoldsTypes DEF Reports
  <1>6. samples \in Seq(Range(samples))
    BY HoldsTypes
  <1>7. Observed(samples, f) \in Seq(Rational) /\ SaidBy(samples, f, Observed(samples, f))
    BY <1>5, <1>6, ObservedIs
  <1>8. PICK o \in Seq(Rational) : o = Observed(samples, f)
    BY <1>7
  <1>9. PICK g : Gauge(o) = One(g) /\ Bounded(g, o) /\ Leq(g.min, g.mean) /\ Leq(g.mean, g.max)
    BY <1>2, <1>4, <1>8, GaugeIs
  <1>10. families[f] = g
    BY <1>2, <1>4, <1>8, <1>9, OneIs
  <1> QED BY <1>7, <1>8, <1>9, <1>10

(* The bandwidth of a summary. *)
LEMMA BandwidthIs ==
  ASSUME NEW t, NEW samples, NEW results, Holds(t, samples, results), samples # <<>>,
         \A n \in DOMAIN results : \A i \in DOMAIN t.streams : results[n][i][1].duration > 0,
         NEW families, families = WindowFamilies(aggregate_window(samples))
  PROVE  /\ Leq(families["bandwidth"].min, families["bandwidth"].mean)
         /\ Leq(families["bandwidth"].mean, families["bandwidth"].max)
  <1> DEFINE summary == aggregate_window(samples)
             T == DOMAIN samples
             values == [i \in DOMAIN samples |-> samples[i].bandwidth]
             b == [i \in DOMAIN samples |-> Nonnegative(samples[i].bytes)]
             d == [i \in DOMAIN samples |-> Nonnegative(samples[i].duration)]
             bytes == Total(b)
             time == Total(d)
             stats == Gauge(values)[1]
  <1>1. summary.bandwidth = << IF time > 0 THEN [stats EXCEPT !.mean = <<8 * bytes, time>>] ELSE stats >>
        /\ DOMAIN summary.counters = Counters /\ DOMAIN summary.gauges = Gauges
    BY DEF aggregate_window, Bandwidth
  <1> HIDE DEF summary
  <1>2. families["bandwidth"] = summary.bandwidth[1]
    <2>1. families = WindowFamilies(summary)
      BY DEF summary
    <2> QED BY <1>1, <2>1, FamiliesAre
  <1>3. /\ DOMAIN samples = 1..Len(samples) /\ DOMAIN results = 1..Len(samples)
        /\ Len(samples) \in Nat /\ Len(samples) # 0
    BY HoldsTypes, EmptySeq
  <1>4. \A i \in T :
          /\ samples[i].bytes \in Nat /\ samples[i].duration \in Nat /\ samples[i].duration > 0
          /\ samples[i].bandwidth \in Rational
          /\ samples[i].bandwidth = <<8 * samples[i].bytes, samples[i].duration>>
    BY <1>3, HoldsTypes DEF Reports
  <1>5. values \in Seq(Rational) /\ values # <<>> /\ DOMAIN values = T
    <2>1. values \in [1..Len(samples) -> Rational]
      BY <1>3, <1>4
    <2>2. values \in Seq(Rational) /\ Len(values) = Len(samples)
      BY <1>3, <2>1, FunctionIsSeq
    <2>3. Len(<<>>) = 0 /\ DOMAIN values = T
      OBVIOUS
    <2> QED BY <1>3, <2>2, <2>3
  <1>6. \A i \in T : values[i] = samples[i].bandwidth /\ b[i] = samples[i].bytes /\ d[i] = samples[i].duration
    BY <1>4 DEF Nonnegative
  <1>7. \A i \in T : b[i] \in Nat /\ d[i] \in Nat /\ d[i] > 0
                     /\ values[i][1] = 8 * b[i] /\ values[i][2] = d[i]
    BY <1>4, <1>6
  <1>8. IsFiniteSet(T)
    BY <1>3, FS_Interval
  <1>9. bytes = Sum(b, T) /\ time = Sum(d, T)
    BY DEF Total
  <1> HIDE DEF T, values, b, d, bytes, time
  <1>10. PICK g : Gauge(values) = One(g) /\ Bounded(g, values) /\ DOMAIN g = {"mean", "min", "max"}
                  /\ Leq(g.min, g.mean) /\ Leq(g.mean, g.max)
    BY <1>5, GaugeIs
  <1>11. stats = g
    BY <1>10, OneIs
  <1> HIDE DEF stats
  <1>12. CASE ~(time > 0)
    <2>1. families["bandwidth"] = g
      BY <1>1, <1>2, <1>11, <1>12
    <2> QED BY <1>10, <2>1
  <1>13. CASE time > 0
    <2>1. PICK mean : mean = <<8 * bytes, time>>
      OBVIOUS
    <2>2. PICK k : k = [g EXCEPT !.mean = mean]
      OBVIOUS
    <2>3. k.mean = mean /\ k.min = g.min /\ k.max = g.max
      BY <1>10, <2>2
    <2>4. families["bandwidth"] = k
      BY <1>1, <1>2, <1>11, <1>13, <2>1, <2>2
    <2>5. mean[1] = 8 * bytes /\ mean[2] = time
      BY <2>1
    <2>6. Leq(k.min, mean)
      <3>1. PICK l \in T : g.min = values[l] /\ \A j \in T : Leq(values[l], values[j])
        BY <1>5, <1>10 DEF Bounded
      <3>2. PICK p \in Int, q \in Nat : p = 8 * b[l] /\ q = d[l]
        BY <1>7
      <3>3. \A i \in T : p * d[i] <= (8 * b[i]) * q
        BY <1>7, <3>1, <3>2 DEF Leq
      <3>4. p * time <= (8 * bytes) * q
        BY <1>7, <1>8, <1>9, <3>3, WeightedBetween
      <3> QED BY <1>7, <2>3, <2>5, <3>1, <3>2, <3>4 DEF Leq
    <2>7. Leq(mean, k.max)
      <3>1. PICK l \in T : g.max = values[l] /\ \A j \in T : Leq(values[j], values[l])
        BY <1>5, <1>10 DEF Bounded
      <3>2. PICK p \in Int, q \in Nat : p = 8 * b[l] /\ q = d[l]
        BY <1>7
      <3>3. \A i \in T : (8 * b[i]) * q <= p * d[i]
        BY <1>7, <3>1, <3>2 DEF Leq
      <3>4. (8 * bytes) * q <= p * time
        BY <1>7, <1>8, <1>9, <3>3, WeightedBetween
      <3> QED BY <1>7, <2>3, <2>5, <3>1, <3>2, <3>4 DEF Leq
    <2> QED BY <2>3, <2>4, <2>6, <2>7
  <1> QED BY <1>12, <1>13

(* What GaugesWithinObserved and CountersFaithful say of one summary. *)
Timed(t, results) ==
  \A n \in DOMAIN results : \A i \in DOMAIN t.streams : results[n][i][1].duration > 0
RttsOf(t, results) ==
  {results[n][i][1].rtt : n \in DOMAIN results, i \in DOMAIN t.streams} \ {-1}

MeansBetween(families, t, results) ==
  \A f \in (Gauges \cup {"bandwidth"}) \cap DOMAIN families :
    (f = "bandwidth" => Timed(t, results)) =>
      /\ Leq(families[f].min, families[f].mean)
      /\ Leq(families[f].mean, families[f].max)

ExtremesAmong(families, values) ==
  "rtt" \in DOMAIN families =>
    /\ \E v \in values : Leq(Micros(v), families["rtt"].min)
    /\ \E v \in values : Leq(families["rtt"].max, Micros(v))

GaugesFit(families, t, results) ==
  MeansBetween(families, t, results) /\ ExtremesAmong(families, RttsOf(t, results))

CountersFit(families, t, results, written) ==
  LET lost(n) == LostOf(t, results[n])
      net == Total([n \in DOMAIN results |-> lost(n)])
  IN /\ \A f \in Counters : f \in DOMAIN families <=> \E n \in DOMAIN written : f \in DOMAIN written[n]
     /\ ("lost" \in DOMAIN families) <=> (t.protocol = "udp")
     /\ "lost" \in DOMAIN families =>
          /\ families["lost"] >= net /\ families["lost"] >= 0
          /\ (\A n \in DOMAIN results : lost(n) >= 0) => families["lost"] = net

(* They are those properties, in a state and in the next. *)
LEMMA Fits ==
  /\ GaugesWithinObserved <=>
       (exposed.window # <<>> => GaugesFit(exposed.window[1], test, encoded))
  /\ CountersFaithful <=>
       (exposed.window # <<>> => CountersFit(exposed.window[1], test, encoded, exposed.samples))
  <1>1. GaugesWithinObserved <=>
          (exposed.window # <<>> => GaugesFit(exposed.window[1], test, encoded))
    BY DEF GaugesWithinObserved, GaugesFit, Timed, RttsOf, MeansBetween, ExtremesAmong, Streams, Micros
  <1>2. DOMAIN [n \in DOMAIN encoded |-> LostOf(test, encoded[n])] = DOMAIN encoded
    OBVIOUS
  <1>3. CountersFaithful <=>
          (exposed.window # <<>> => CountersFit(exposed.window[1], test, encoded, exposed.samples))
    BY <1>2 DEF CountersFaithful, CountersFit, LostOf, SumOf, Total
  <1> QED BY <1>1, <1>3

LEMMA FitsNext ==
  /\ GaugesWithinObserved' <=>
       (exposed'.window # <<>> => GaugesFit(exposed'.window[1], test', encoded'))
  /\ CountersFaithful' <=>
       (exposed'.window # <<>> => CountersFit(exposed'.window[1], test', encoded', exposed'.samples))
  <1>1. GaugesWithinObserved' <=>
          (exposed'.window # <<>> => GaugesFit(exposed'.window[1], test', encoded'))
    BY DEF GaugesWithinObserved, GaugesFit, Timed, RttsOf, MeansBetween, ExtremesAmong, Streams, Micros
  <1>2. DOMAIN [n \in DOMAIN encoded' |-> LostOf(test', encoded'[n])] = DOMAIN encoded'
    OBVIOUS
  <1>3. CountersFaithful' <=>
          (exposed'.window # <<>> => CountersFit(exposed'.window[1], test', encoded', exposed'.samples))
    BY <1>2 DEF CountersFaithful, CountersFit, LostOf, SumOf, Total
  <1> QED BY <1>1, <1>3

(* The statistics of a summary lie among what the streams reported. *)
LEMMA StatisticsWithin ==
  ASSUME NEW t, NEW samples, NEW results, Holds(t, samples, results), samples # <<>>,
         NEW families, families = WindowFamilies(aggregate_window(samples))
  PROVE  GaugesFit(families, t, results)
  <1> DEFINE values == RttsOf(t, results)
  <1>1. MeansBetween(families, t, results)
    <2> SUFFICES ASSUME NEW f \in (Gauges \cup {"bandwidth"}) \cap DOMAIN families,
                        f = "bandwidth" => Timed(t, results)
                 PROVE  Leq(families[f].min, families[f].mean) /\ Leq(families[f].mean, families[f].max)
      BY DEF MeansBetween
    <2>1. CASE f \in Gauges
      BY <2>1, GaugesAre
    <2>2. CASE f = "bandwidth"
      BY <2>2, BandwidthIs DEF Timed
    <2> QED BY <2>1, <2>2
  <1>3. \A n \in DOMAIN results, i \in DOMAIN t.streams :
          results[n][i][1].rtt >= 0 => results[n][i][1].rtt \in values
    BY DEF RttsOf
  <1> HIDE DEF values
  <1>2. ExtremesAmong(families, values)
    <2> SUFFICES ASSUME "rtt" \in DOMAIN families
                 PROVE  /\ \E v \in values : Leq(Micros(v), families["rtt"].min)
                        /\ \E v \in values : Leq(families["rtt"].max, Micros(v))
      BY DEF ExtremesAmong
    <2>1. PICK o : o = Observed(samples, "rtt")
      OBVIOUS
    <2>2. o \in Seq(Rational) /\ Bounded(families["rtt"], o) /\ SaidBy(samples, "rtt", o)
      <3>1. "rtt" \in Gauges
        BY DEF Gauges
      <3> QED BY <2>1, <3>1, GaugesAre
    <2>3. ASSUME NEW k \in DOMAIN o
          PROVE  /\ \E v \in values : Leq(Micros(v), o[k])
                 /\ \E v \in values : Leq(o[k], Micros(v))
      <3>1. PICK n \in DOMAIN samples : samples[n].rtt = One(o[k])
        BY <2>2 DEF SaidBy
      <3>2. o[k] \in Rational
        BY <2>2
      <3>5. Reports(samples[n], t, results[n])
        BY HoldsTypes
      <3>3. /\ \E i \in DOMAIN t.streams : results[n][i][1].rtt >= 0 /\ Leq(Micros(results[n][i][1].rtt), o[k])
            /\ \E i \in DOMAIN t.streams : results[n][i][1].rtt >= 0 /\ Leq(o[k], Micros(results[n][i][1].rtt))
        BY <3>1, <3>2, <3>5 DEF Reports
      <3>4. n \in DOMAIN results
        BY HoldsTypes
      <3> QED BY <1>3, <3>3, <3>4
    <2> QED BY <2>2, <2>3 DEF Bounded
  <1> QED BY <1>1, <1>2 DEF GaugesFit, values

-----------------------------------------------------------------------------
(* The encoder and the test are those of a run, and metrics are enabled    *)
(* only when the encoder has been accepted.                                *)
EncoderOK ==
  /\ \E run \in Runs : test = run.test /\ encoder = [prefix |-> run.prefix, labels |-> run.labels]
  /\ turn \notin {"setup", "rejected"} => EncoderAccepts(encoder.prefix, encoder.labels)
  /\ turn \in {"setup", "rejected"} => window = <<>>

(* Results are there of every stream, or of none. *)
LastOK == Collected(test, last) \/ \A i \in Streams : last[i] = <<>>

(* The worker holds samples of what really happened. *)
WindowOK == Holds(test, window, pending)

(* The inductive invariant. *)
SummaryInv == CountsInv /\ EncoderOK /\ LastOK /\ WindowOK /\ SummaryFaithful

(* Types of the encoder's configuration. *)
LEMMA EncoderTypes ==
  ASSUME EncoderOK
  PROVE  /\ encoder.prefix \in Seq(Alphabet)
         /\ encoder.labels \in Seq(Seq(Alphabet) \X Seq(Alphabet))
  BY RunsAssumption DEF EncoderOK

(* A summary stays what it was. *)
LEMMA FaithfulSame ==
  ASSUME SummaryFaithful, test' = test, encoder' = encoder, exposed' = exposed, encoded' = encoded
  PROVE  SummaryFaithful'
  <1>1. /\ GaugesWithinObserved' <=>
             (exposed'.window # <<>> => GaugesFit(exposed'.window[1], test', encoded'))
        /\ CountersFaithful' <=>
             (exposed'.window # <<>> => CountersFit(exposed'.window[1], test', encoded', exposed'.samples))
    BY FitsNext
  <1>2. GaugesWithinObserved' /\ CountersFaithful'
    BY <1>1, Fits DEF SummaryFaithful
  <1>3. LabelsReadBack'
    BY DEF SummaryFaithful, LabelsReadBack
  <1> QED BY <1>2, <1>3 DEF SummaryFaithful

(* A sequence of at most one is an optional value. *)
LEMMA ShortIs ==
  ASSUME NEW V, NEW s \in Seq(V), Len(s) <= 1
  PROVE  s \in Opt(V)
  <1>1. CASE Len(s) = 0
    BY <1>1, EmptySeq DEF Opt, None
  <1>2. CASE Len(s) = 1
    <2>1. PICK v \in V : v = s[1]
      BY <1>2
    <2>5. <<v>> \in Seq(V) /\ Len(<<v>>) = 1 /\ <<v>>[1] = v
      OBVIOUS
    <2>2. PICK o : o = <<v>> /\ o \in Seq(V) /\ Len(o) = 1 /\ o[1] = v
      BY <2>5
    <2>3. \A i \in 1..Len(s) : s[i] = o[i]
      BY <1>2, <2>1, <2>2
    <2>4. s = o
      BY <1>2, <2>2, <2>3, SeqEqual
    <2> QED BY <2>2, <2>4 DEF Opt, One
  <1>3. Len(s) = 0 \/ Len(s) = 1
    <2>1. Len(s) \in Nat
      OBVIOUS
    <2> QED BY <2>1
  <1> QED BY <1>1, <1>2, <1>3

(* A sample more. *)
LEMMA HoldsMore ==
  ASSUME NEW t, NEW samples, NEW results, Holds(t, samples, results),
         NEW w, NEW p, Collected(t, p), Reports(w, t, p)
  PROVE  Holds(t, Append(samples, w), Append(results, p))
  <1>1. /\ samples \in Seq(Range(samples)) /\ results \in Seq(Range(results))
        /\ Len(samples) = Len(results)
    BY DEF Holds
  <1> DEFINE R == Range(samples) \cup {w}
             Q == Range(results) \cup {p}
  <1>2. PICK k \in Nat : k = Len(samples) /\ k = Len(results)
    BY <1>1
  <1>3. samples \in Seq(R) /\ w \in R /\ results \in Seq(Q) /\ p \in Q
    BY <1>1
  <1> HIDE DEF R, Q
  <1>4. PICK s : s = Append(samples, w)
    OBVIOUS
  <1>5. PICK r : r = Append(results, p)
    OBVIOUS
  <1>6. s \in Seq(R) /\ Len(s) = k + 1 /\ s[k + 1] = w /\ \A i \in 1..k : s[i] = samples[i]
    <2>1. samples \in Seq(R) /\ w \in R /\ k = Len(samples)
      BY <1>2, <1>3
    <2> QED BY ONLY <2>1, <1>4, AppendProperties
  <1>7. r \in Seq(Q) /\ Len(r) = k + 1 /\ r[k + 1] = p /\ \A i \in 1..k : r[i] = results[i]
    BY <1>2, <1>3, <1>5
  <1>8. s \in Seq(Range(s)) /\ r \in Seq(Range(r))
    BY <1>6, <1>7, OwnRange
  <1>9. DOMAIN s = 1..k + 1 /\ DOMAIN samples = 1..k
    BY <1>1, <1>2, <1>6
  <1>10. \A n \in DOMAIN s : Collected(t, r[n]) /\ Reports(s[n], t, r[n])
    <2> TAKE n \in DOMAIN s
    <2>1. n = k + 1 \/ n \in 1..k
      BY <1>9
    <2> QED BY <1>9, <1>6, <1>7, <2>1 DEF Holds
  <1> QED BY <1>4, <1>5, <1>8, <1>10, <1>6, <1>7 DEF Holds

(* A summary has a counter just when one of its samples has. *)
LEMMA CountersHold ==
  ASSUME NEW t, NEW samples, NEW results, Holds(t, samples, results), samples # <<>>,
         NEW families, families = WindowFamilies(aggregate_window(samples)),
         NEW written, written = [i \in DOMAIN samples |-> IntervalFamilies(samples[i])]
  PROVE  CountersFit(families, t, results, written)
  <1>1. ASSUME NEW f \in Counters
        PROVE  f \in DOMAIN families <=> \E n \in DOMAIN written : f \in DOMAIN written[n]
    <2>1. f \in DOMAIN families <=> \E n \in DOMAIN samples : samples[n][f] # <<>>
      BY CountersAre
    <2>2. \A n \in DOMAIN samples : f \in DOMAIN IntervalFamilies(samples[n]) <=> samples[n][f] # <<>>
      BY SampleFamilies
    <2>3. DOMAIN written = DOMAIN samples /\ \A n \in DOMAIN samples : written[n] = IntervalFamilies(samples[n])
      OBVIOUS
    <2> QED BY <2>1, <2>2, <2>3
  <1>2. PICK net : net = [n \in DOMAIN results |-> LostOf(t, results[n])]
    OBVIOUS
  <1>3. /\ "lost" \in DOMAIN families <=> t.protocol = "udp"
        /\ "lost" \in DOMAIN families =>
             /\ families["lost"] >= Total(net) /\ families["lost"] >= 0
             /\ (\A n \in DOMAIN results : net[n] >= 0) => families["lost"] = Total(net)
    BY <1>2, LostIs
  <1>4. \A n \in DOMAIN results : net[n] = LostOf(t, results[n])
    BY <1>2
  <1> QED BY <1>1, <1>2, <1>3, <1>4 DEF CountersFit

(* Nothing is held at first, and when a summary has been made. *)
LEMMA HoldsNothing ==
  ASSUME NEW t
  PROVE  Holds(t, <<>>, <<>>)
  <1>1. <<>> \in Seq(Range(<<>>)) /\ DOMAIN <<>> = {} /\ Len(<<>>) = 0
    OBVIOUS
  <1> QED BY <1>1 DEF Holds

(* The invariant holds at first, and every step keeps it. *)
LEMMA SummaryInitInv ==
  ASSUME AggregationInit
  PROVE  SummaryInv
  <1>1. CountsInv
    BY CountsInitInv
  <1>2. PICK run \in Runs : test = run.test /\ encoder = [prefix |-> run.prefix, labels |-> run.labels]
    BY DEF AggregationInit
  <1>3. turn = "setup" /\ window = <<>> /\ pending = <<>> /\ exposed = Nothing
        /\ last = [i \in Streams |-> <<>>]
    BY DEF AggregationInit
  <1>4. EncoderOK
    BY <1>2, <1>3 DEF EncoderOK
  <1>5. LastOK
    BY <1>3 DEF LastOK
  <1>6. WindowOK
    BY <1>3, HoldsNothing DEF WindowOK
  <1>7. SummaryFaithful
    <2>1. exposed.window = <<>>
      BY <1>3 DEF Nothing
    <2> QED BY <2>1 DEF SummaryFaithful, GaugesWithinObserved, CountersFaithful, LabelsReadBack
  <1> QED BY <1>1, <1>4, <1>5, <1>6, <1>7 DEF SummaryInv

LEMMA SetUpKeeps ==
  ASSUME SummaryInv, SetUp
  PROVE  SummaryInv'
  <1>1. /\ turn = "setup"
        /\ turn' \in IF EncoderAccepts(encoder.prefix, encoder.labels)
                     THEN {"collect", "report"} ELSE {"rejected"}
        /\ test' = test /\ encoder' = encoder /\ last' = last /\ window' = window
        /\ exposed' = exposed /\ pending' = pending /\ encoded' = encoded
    BY DEF SetUp, truth
  <1>2. CountsInv'
    BY SetUpStep DEF SummaryInv
  <1>3. EncoderOK'
    <2>1. (\E run \in Runs : test = run.test /\ encoder = [prefix |-> run.prefix, labels |-> run.labels])'
          /\ window' = <<>>
      BY <1>1 DEF SummaryInv, EncoderOK
    <2>2. turn' \notin {"setup", "rejected"} => EncoderAccepts(encoder'.prefix, encoder'.labels)
      BY <1>1
    <2> QED BY <2>1, <2>2 DEF EncoderOK
  <1>4. LastOK'
    BY <1>1 DEF SummaryInv, LastOK, Streams
  <1>5. WindowOK'
    BY <1>1 DEF SummaryInv, WindowOK
  <1>6. SummaryFaithful'
    BY <1>1, FaithfulSame DEF SummaryInv
  <1> QED BY <1>2, <1>3, <1>4, <1>5, <1>6 DEF SummaryInv

LEMMA CollectKeeps ==
  ASSUME SummaryInv, CollectStats
  PROVE  SummaryInv'
  <1>1. /\ turn = "collect" /\ turn' = "report"
        /\ test' = test /\ encoder' = encoder /\ window' = window
        /\ exposed' = exposed /\ pending' = pending /\ encoded' = encoded
    BY DEF CollectStats
  <1>2. PICK results \in [Streams -> Results(test.protocol)] :
          last' = [i \in Streams |-> <<Stored(results[i], last[i])>>]
    BY DEF CollectStats
  <1>3. CountsInv'
    BY CollectStep DEF SummaryInv
  <1>4. EncoderOK'
    BY <1>1 DEF SummaryInv, EncoderOK
  <1>5. Collected(test, last')
    <2> SUFFICES ASSUME NEW i \in Streams PROVE \E r \in StoredTypes : last'[i] = One(r)
      BY DEF Collected, Streams
    <2>1. results[i] \in ResultTypes
      BY TestTypes DEF SummaryInv, CountsInv
    <2>2. last[i] # <<>> => last[i][1].reorder \in Int
      BY DEF SummaryInv, CountsInv, StateOK
    <2>3. PICK r \in StoredTypes : r = Stored(results[i], last[i])
      BY <2>1, <2>2, StoredType
    <2>4. last'[i] = One(r)
      BY <1>2, <2>3 DEF One
    <2> QED BY <2>4
  <1>6. LastOK'
    BY <1>1, <1>5 DEF LastOK
  <1>7. WindowOK'
    BY <1>1 DEF SummaryInv, WindowOK
  <1>8. SummaryFaithful'
    BY <1>1, FaithfulSame DEF SummaryInv
  <1> QED BY <1>3, <1>4, <1>6, <1>7, <1>8 DEF SummaryInv

LEMMA ReportKeeps ==
  ASSUME SummaryInv, Report
  PROVE  SummaryInv'
  <1>1. /\ turn = "report" /\ turn' = "collect"
        /\ test' = test /\ encoder' = encoder /\ last' = last
        /\ exposed' = exposed /\ encoded' = encoded
    BY DEF Report
  <1>2. CountsInv'
    BY ReportStep DEF SummaryInv
  <1>3. EncoderOK'
    BY <1>1 DEF SummaryInv, EncoderOK
  <1>4. LastOK'
    BY <1>1 DEF SummaryInv, LastOK, Streams
  <1>5. SummaryFaithful'
    BY <1>1, FaithfulSame DEF SummaryInv
  <1>6. WindowOK'
    <2>1. CASE ~IntervalOk(test, last)
      BY <1>1, <2>1 DEF Report, SummaryInv, WindowOK
    <2>2. CASE IntervalOk(test, last)
      <3>1. PICK w : w = Sample(test, last, reorders)
        OBVIOUS
      <3>2. window' = Append(window, w) /\ pending' = Append(pending, last)
        BY <2>2, <3>1 DEF Report
      <3>3. Collected(test, last)
        <4>1. \E i \in Streams : last[i] # <<>>
          BY <2>2 DEF IntervalOk, Matched, Streams
        <4> QED BY <4>1 DEF SummaryInv, LastOK
      <3>4. reorders \in Opt(Nat)
        BY ShortIs DEF SummaryInv, CountsInv, StateOK
      <3>5. test.streams \in Seq(BOOLEAN)
        BY TestTypes DEF SummaryInv, CountsInv
      <3>6. Reports(w, test, last)
        BY <2>2, <3>1, <3>3, <3>4, <3>5, SampleFits
      <3>7. Holds(test, Append(window, w), Append(pending, last))
        BY <3>3, <3>6, HoldsMore DEF SummaryInv, WindowOK
      <3> QED BY <1>1, <3>2, <3>7 DEF WindowOK
    <2> QED BY <2>1, <2>2
  <1> QED BY <1>2, <1>3, <1>4, <1>5, <1>6 DEF SummaryInv

LEMMA EncodeKeeps ==
  ASSUME SummaryInv, Encode
  PROVE  SummaryInv'
  <1> DEFINE families == WindowFamilies(aggregate_window(window))
             written == [i \in DOMAIN window |-> IntervalFamilies(window[i])]
             series == Series(encoder.prefix, Suffix, encoder.labels)
  <1>1. /\ window # <<>> /\ window' = <<>> /\ pending' = <<>> /\ encoded' = pending
        /\ test' = test /\ encoder' = encoder /\ last' = last /\ turn' = turn
        /\ exposed' = [window |-> <<families>>, samples |-> written, series |-> series]
    BY DEF Encode
  <1>2. Holds(test, window, pending)
    BY DEF SummaryInv, WindowOK
  <1> HIDE DEF families, written, series
  <1>3. exposed'.window[1] = families /\ exposed'.samples = written /\ exposed'.series = series
    BY <1>1
  <1>4. GaugesWithinObserved' /\ CountersFaithful'
    <2>1. GaugesFit(families, test, pending)
      BY <1>1, <1>2, StatisticsWithin DEF families
    <2>2. CountersFit(families, test, pending, written)
      BY <1>1, <1>2, CountersHold DEF families, written
    <2> QED BY <1>1, <1>3, <2>1, <2>2, FitsNext
  <1>5. turn \notin {"setup", "rejected"} /\ EncoderAccepts(encoder.prefix, encoder.labels)
    BY <1>1 DEF SummaryInv, EncoderOK
  <1>6. LabelsReadBack'
    <2>1. /\ encoder.prefix \in Seq(Alphabet)
          /\ encoder.labels \in Seq(Seq(Alphabet) \X Seq(Alphabet))
      BY EncoderTypes DEF SummaryInv
    <2>2. PICK read : read = ReadSeries(series)
      OBVIOUS
    <2>3. /\ read.at = "end" /\ read.labels = encoder.labels
          /\ read.metric = encoder.prefix \o <<"_">> \o Suffix
          /\ Cardinality({l[1] : l \in Range(encoder.labels)}) = Len(encoder.labels)
      BY <1>5, <2>1, <2>2, SeriesReadBack, Zenon DEF series
    <2>4. read = ReadSeries(exposed'.series)
      BY <1>3, <2>2
    <2>5. Cardinality({l[1] : l \in Range(read.labels)}) = Len(read.labels)
      BY <2>3, Zenon
    <2> QED BY <1>1, <2>3, <2>4, <2>5, Zenon DEF LabelsReadBack
  <1>7. CountsInv'
    BY EncodeStep DEF SummaryInv
  <1>8. EncoderOK'
    BY <1>1, <1>5 DEF SummaryInv, EncoderOK
  <1>9. LastOK'
    BY <1>1 DEF SummaryInv, LastOK, Streams
  <1>10. WindowOK'
    BY <1>1, HoldsNothing DEF WindowOK
  <1> QED BY <1>4, <1>6, <1>7, <1>8, <1>9, <1>10 DEF SummaryInv, SummaryFaithful

(* What a summary says of its samples is what the samples were, and a      *)
(* scraper reads the labels that were asked for.                           *)
THEOREM Summarised == AggregationSpec => []SummaryFaithful
  <1>1. SummaryInv /\ [AggregationNext]_aggregationVars => SummaryInv'
    <2> SUFFICES ASSUME SummaryInv, [AggregationNext]_aggregationVars PROVE SummaryInv'
      OBVIOUS
    <2>1. CASE UNCHANGED aggregationVars
      <3>1. /\ test' = test /\ encoder' = encoder /\ last' = last /\ turn' = turn
            /\ window' = window /\ pending' = pending /\ exposed' = exposed /\ encoded' = encoded
        BY <2>1 DEF aggregationVars, truth
      <3>2. CountsInv'
        BY CountsNext DEF SummaryInv
      <3>3. SummaryFaithful'
        BY <3>1, FaithfulSame DEF SummaryInv
      <3> QED BY <3>1, <3>2, <3>3 DEF SummaryInv, EncoderOK, LastOK, WindowOK, Streams
    <2> QED BY <2>1, SetUpKeeps, CollectKeeps, ReportKeeps, EncodeKeeps DEF AggregationNext
  <1>2. SummaryInv => SummaryFaithful
    BY DEF SummaryInv
  <1> QED BY <1>1, <1>2, SummaryInitInv, PTL DEF AggregationSpec
=============================================================================

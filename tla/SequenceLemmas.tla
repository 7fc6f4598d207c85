--------------------------- MODULE SequenceLemmas ---------------------------
(***************************************************************************)
(* Facts about sequences that the proofs of several components need:       *)
(* induction, sequences of sequences (FlattenSeq), folds (FoldLeft).       *)
(* FlattenSeq and FoldLeft are recursive functions over the sequence, and  *)
(* their theorems would need induction over an operator; here each is      *)
(* given by what it does with one element more.                            *)
(***************************************************************************)
EXTENDS Integers, SequencesExt, SequenceTheorems, WellFoundedInduction, TLAPS

(* Induction on natural numbers, about membership in a set: the theorems   *)
(* of NaturalsInduction take an operator instead.                          *)
LEMMA SetInduction ==
  ASSUME NEW S, 0 \in S, \A n \in Nat : n \in S => n + 1 \in S
  PROVE  Nat \subseteq S
  <1> DEFINE Bad == Nat \ S
  <1> SUFFICES ASSUME Bad # {} PROVE FALSE
    OBVIOUS
  <1>1. PICK n \in Bad : \A m \in Bad : ~(<<m, n>> \in OpToRel(<, Nat))
    BY WFMin, NatLessThanWellFounded, Zenon
  <1>2. n \in Nat \ {0} /\ n - 1 \in Nat /\ n - 1 < n
    OBVIOUS
  <1>3. n - 1 \notin Bad
    BY <1>1, <1>2 DEF OpToRel
  <1> QED BY <1>2, <1>3

(* A sequence that is not empty ends in an element. *)
LEMMA SplitLast ==
  ASSUME NEW S, NEW n \in Nat, NEW s \in Seq(S), Len(s) = n + 1
  PROVE  \E u \in Seq(S), x \in S :
           /\ s = Append(u, x) /\ Len(u) = n /\ s[n + 1] = x
           /\ \A i \in 1..n : u[i] = s[i]
  <1> DEFINE u == SubSeq(s, 1, n)
             x == s[n + 1]
  <1>1. u \in Seq(S) /\ Len(u) = n /\ \A i \in 1..n : u[i] = s[i]
    BY SubSeqProperties
  <1>2. x \in S
    OBVIOUS
  <1>3. s = Append(u, x)
    <2> DEFINE t == Append(u, x)
    <2>1. t \in Seq(S) /\ Len(t) = n + 1 /\ t[n + 1] = x /\ \A i \in 1..n : t[i] = u[i]
      BY <1>1, <1>2, AppendProperties
    <2> HIDE DEF t
    <2>2. \A i \in 1..Len(s) : i \in 1..n \/ i = n + 1
      OBVIOUS
    <2>3. \A i \in 1..Len(s) : s[i] = t[i]
      BY <1>1, <2>1, <2>2
    <2>4. s = t
      BY <2>1, <2>3, SeqEqual
    <2> QED BY <2>4 DEF t
  <1> HIDE DEF u, x
  <1>4. s[n + 1] = x
    BY DEF x
  <1> QED BY <1>1, <1>2, <1>3, <1>4

(* Replacing the last element. *)
LEMMA LastReplaced ==
  ASSUME NEW S, NEW s \in Seq(S), NEW x \in S, NEW y \in S
  PROVE  [Append(s, x) EXCEPT ![Len(Append(s, x))] = y] = Append(s, y)
  <1> DEFINE a == Append(s, x)
             b == Append(s, y)
             n == Len(s)
  <1>1. /\ a \in Seq(S) /\ Len(a) = n + 1 /\ n \in Nat
        /\ b \in Seq(S) /\ Len(b) = n + 1 /\ b[n + 1] = y
        /\ \A i \in 1..n : a[i] = s[i] /\ b[i] = s[i]
    BY AppendProperties
  <1> HIDE DEF a, b, n
  <1> DEFINE e == [a EXCEPT ![n + 1] = y]
  <1>2. /\ e \in Seq(S) /\ Len(e) = n + 1
        /\ \A i \in 1..n + 1 : e[i] = IF i = n + 1 THEN y ELSE a[i]
    <2>1. n + 1 \in 1..Len(a)
      BY <1>1
    <2> QED BY <1>1, <2>1, ExceptSeq
  <1> HIDE DEF e
  <1>3. \A i \in 1..n + 1 : e[i] = b[i]
    BY <1>1, <1>2
  <1>4. e = b
    BY <1>1, <1>2, <1>3, SeqEqual
  <1> QED BY <1>1, <1>4 DEF a, b, e

(* Sequences, given by their elements. *)
LEMMA FunctionIsSeq ==
  ASSUME NEW S, NEW n \in Nat, NEW f \in [1..n -> S]
  PROVE  f \in Seq(S) /\ Len(f) = n
  OBVIOUS

(* Types of short sequences, and of concatenations. *)
LEMMA ShortSequences ==
  ASSUME NEW S, NEW x \in S, NEW y \in S, NEW z \in S
  PROVE  /\ <<>> \in Seq(S) /\ <<x>> \in Seq(S) /\ <<x, y, z>> \in Seq(S)
         /\ Len(<<x>>) = 1 /\ Len(<<x, y, z>>) = 3
  OBVIOUS

LEMMA Regrouped ==
  ASSUME NEW S, NEW s \in Seq(S), NEW t \in Seq(S), NEW u \in Seq(S)
  PROVE  s \o (t \o u) = (s \o t) \o u
  BY ConcatAssociative

(* The first element is an element. *)
LEMMA HeadInRange ==
  ASSUME NEW S, NEW s \in Seq(S), s # <<>>
  PROVE  s[1] \in Range(s)
  <1>1. Len(s) # 0 /\ Len(s) \in Nat /\ DOMAIN s = 1..Len(s)
    BY EmptySeq
  <1>2. 1 \in DOMAIN s
    BY <1>1
  <1> QED BY <1>2 DEF Range

(* Two elements more. *)
LEMMA TwoMore ==
  ASSUME NEW S, NEW s \in Seq(S), NEW x \in S, NEW y \in S, NEW t, t = Append(Append(s, x), y)
  PROVE  /\ t \in Seq(S) /\ Len(t) = Len(s) + 2 /\ Len(s) \in Nat
         /\ t[Len(s) + 1] = x /\ t[Len(s) + 2] = y
         /\ \A i \in 1..Len(s) : t[i] = s[i]
  <1> DEFINE u == Append(s, x)
  <1>1. /\ u \in Seq(S) /\ Len(u) = Len(s) + 1 /\ Len(s) \in Nat
        /\ u[Len(s) + 1] = x /\ \A i \in 1..Len(s) : u[i] = s[i]
    BY AppendProperties
  <1> HIDE DEF u
  <1>2. /\ Append(u, y) \in Seq(S) /\ Len(Append(u, y)) = Len(u) + 1
        /\ Append(u, y)[Len(u) + 1] = y
        /\ \A i \in 1..Len(u) : Append(u, y)[i] = u[i]
    BY <1>1, AppendProperties
  <1>3. t = Append(u, y)
    BY DEF u
  <1> QED BY <1>1, <1>2, <1>3

-----------------------------------------------------------------------------
(* Sequences of sequences. *)

(* What g, the local function of FlattenSeq, is up to n. *)
Flattening(seqs, g, n) ==
  \A i \in 1..n : g[i] = (IF i = 1 THEN seqs[i] ELSE g[i - 1] \o seqs[i])

(* For the provers: the type of a concatenation only.                      *)
LEMMA ConcatType ==
  ASSUME NEW S, NEW s \in Seq(S), NEW t \in Seq(S)
  PROVE  s \o t \in Seq(S)
  BY ConcatProperties

(* There is such a function: the recursive definition is a definition.     *)
LEMMA FlatteningExists ==
  ASSUME NEW S, NEW seqs \in Seq(Seq(S))
  PROVE  \A n \in Nat : n <= Len(seqs) =>
     \E g \in [1..n -> Seq(S)] : Flattening(seqs, g, n)
  <1> DEFINE P == {n \in Nat : n <= Len(seqs) =>
     \E g \in [1..n -> Seq(S)] : Flattening(seqs, g, n)}
  <1>0. Len(seqs) \in Nat /\ \A i \in 1..Len(seqs) : seqs[i] \in Seq(S)
    OBVIOUS
  <1>1. 0 \in P
    <2> DEFINE e == [i \in 1..0 |-> <<>>]
    <2>1. e \in [1..0 -> Seq(S)]
      OBVIOUS
    <2>2. Flattening(seqs, e, 0)
      BY DEF Flattening
    <2> QED BY <2>1, <2>2
  <1>2. ASSUME NEW n \in Nat, n \in P PROVE n + 1 \in P
    <2> SUFFICES ASSUME n + 1 <= Len(seqs)
                 PROVE \E g \in [1..n+1 -> Seq(S)] : Flattening(seqs, g, n + 1)
      OBVIOUS
    <2>0. n <= Len(seqs) /\ n + 1 \in 1..Len(seqs)
      BY <1>0
    <2>1. PICK g \in [1..n -> Seq(S)] : Flattening(seqs, g, n)
      BY <2>0, <1>2
    <2> DEFINE last == IF n = 0 THEN seqs[1] ELSE g[n] \o seqs[n+1]
               h == [i \in 1..n+1 |-> IF i = n + 1 THEN last ELSE g[i]]
    <2>2. last \in Seq(S)
      <3>1. seqs[n+1] \in Seq(S)
        BY <2>0, <1>0
      <3>2. CASE n = 0
        BY <3>1, <3>2
      <3>3. CASE n # 0
        <4>1. n \in 1..n /\ g[n] \in Seq(S)
          BY <3>3, <2>1
        <4> QED BY <3>1, <4>1, <3>3, ConcatType
      <3> QED BY <3>2, <3>3
    <2>3. n + 1 \in 1..n+1 /\ \A i \in 1..n+1 : i # n + 1 => i \in 1..n
      OBVIOUS
    <2>4. h \in [1..n+1 -> Seq(S)]
      BY <2>2, <2>3
    <2>5. Flattening(seqs, h, n + 1)
      <3> SUFFICES ASSUME NEW i \in 1..n+1
                   PROVE  h[i] = (IF i = 1 THEN seqs[i] ELSE h[i - 1] \o seqs[i])
        BY DEF Flattening
      <3>1. CASE i = n + 1
        <4>1. h[i] = last
          BY <3>1
        <4>2. CASE n = 0
          BY <3>1, <4>1, <4>2
        <4>3. CASE n # 0
          <5>1. i # 1 /\ i - 1 = n /\ n \in 1..n+1 /\ n # n + 1
            BY <3>1, <4>3
          <5>2. h[i - 1] = g[n]
            BY <5>1
          <5> QED BY <5>1, <5>2, <4>1, <3>1, <4>3
        <4> QED BY <4>2, <4>3
      <3>2. CASE i # n + 1
        <4>1. i \in 1..n /\ h[i] = g[i]
          BY <3>2, <2>3
        <4>2. g[i] = (IF i = 1 THEN seqs[i] ELSE g[i - 1] \o seqs[i])
          BY <4>1, <2>1 DEF Flattening
        <4>3. i # 1 => i - 1 \in 1..n+1 /\ i - 1 # n + 1
          BY <4>1
        <4>4. i # 1 => h[i - 1] = g[i - 1]
          BY <4>3
        <4> QED BY <4>1, <4>2, <4>4
      <3> QED BY <3>1, <3>2
    <2> QED BY <2>4, <2>5
  <1> HIDE DEF P
  <1>3. Nat \subseteq P
    BY <1>1, <1>2, SetInduction
  <1> QED BY <1>3 DEF P

(* It depends on nothing but the sequences before n.                       *)
LEMMA FlatteningsAgree ==
  ASSUME NEW s, NEW t, NEW f, NEW g, NEW n \in Nat,
         Flattening(s, f, n), Flattening(t, g, n), \A i \in 1..n : s[i] = t[i]
  PROVE  \A i \in 1..n : f[i] = g[i]
  <1> DEFINE P == {k \in Nat : k \in 1..n => f[k] = g[k]}
  <1>1. 0 \in P
    OBVIOUS
  <1>2. ASSUME NEW k \in Nat, k \in P PROVE k + 1 \in P
    <2> SUFFICES ASSUME k + 1 \in 1..n PROVE f[k + 1] = g[k + 1]
      OBVIOUS
    <2>1. /\ f[k+1] = (IF k + 1 = 1 THEN s[k+1] ELSE f[k + 1 - 1] \o s[k+1])
          /\ g[k+1] = (IF k + 1 = 1 THEN t[k+1] ELSE g[k + 1 - 1] \o t[k+1])
      BY DEF Flattening
    <2>2. k + 1 - 1 = k
      OBVIOUS
    <2>3. k + 1 # 1 => f[k] = g[k]
      BY <1>2
    <2> QED BY <2>1, <2>2, <2>3
  <1> HIDE DEF P
  <1>3. Nat \subseteq P
    BY <1>1, <1>2, SetInduction
  <1> QED BY <1>3 DEF P

(* The recursion at its last argument.                                     *)
LEMMA LastStep ==
  ASSUME NEW s, NEW g, NEW n \in Nat, Flattening(s, g, n + 1)
  PROVE  g[n + 1] = (IF n = 0 THEN s[n + 1] ELSE g[n] \o s[n + 1])
  <1>1. n + 1 \in 1..n + 1 /\ n + 1 - 1 = n /\ (n + 1 = 1 <=> n = 0)
    OBVIOUS
  <1>2. g[n + 1] = (IF n + 1 = 1 THEN s[n + 1] ELSE g[n + 1 - 1] \o s[n + 1])
    BY <1>1 DEF Flattening
  <1> QED BY <1>1, <1>2

(* FlattenSeq of a non-empty sequence is that function's last value.       *)
LEMMA Flattened ==
  ASSUME NEW S, NEW seqs \in Seq(Seq(S)), seqs # <<>>
  PROVE  \E f \in [1..Len(seqs) -> Seq(S)] :
           Flattening(seqs, f, Len(seqs)) /\ FlattenSeq(seqs) = f[Len(seqs)]
  <1> DEFINE n == Len(seqs)
             Body(f) == [i \in 1..n |-> IF i = 1 THEN seqs[i] ELSE f[i - 1] \o seqs[i]]
             f == CHOOSE h : h = Body(h)
  <1>1. n \in Nat /\ n # 0
    BY EmptySeq
  <1>2. PICK g \in [1..n -> Seq(S)] : Flattening(seqs, g, n)
    <2>1. n <= Len(seqs)
      BY <1>1
    <2> QED BY <1>1, <2>1, FlatteningExists, Zenon
  <1>3. g = Body(g)
    BY <1>2, Zenon DEF Flattening
  <1>4. f = Body(f)
    BY <1>3, Zenon
  <1>5. FlattenSeq(seqs) = f[n]
    BY <1>1, Zenon DEF FlattenSeq
  <1> HIDE DEF f
  <1>6. Flattening(seqs, f, n)
    BY <1>4, Zenon DEF Flattening
  <1>7. \A i \in 1..n : f[i] = g[i]
    BY <1>1, <1>2, <1>6, FlatteningsAgree
  <1>8. f \in [1..n -> Seq(S)]
    <2>1. f = [i \in 1..n |-> f[i]]
      BY <1>4, Zenon
    <2>2. \A i \in 1..n : f[i] \in Seq(S)
      BY <1>2, <1>7, Zenon
    <2> QED BY <2>1, <2>2, Zenon
  <1> QED BY <1>5, <1>6, <1>8

(* Nothing flattens to nothing.                                            *)
LEMMA FlattenEmpty == FlattenSeq(<<>>) = <<>>
  BY EmptySeq DEF FlattenSeq

(* Flattening one more sequence appends it to the flattened others.        *)
LEMMA FlattenAppend ==
  ASSUME NEW S, NEW s \in Seq(Seq(S)), NEW e \in Seq(S)
  PROVE  /\ FlattenSeq(s) \in Seq(S)
         /\ FlattenSeq(Append(s, e)) = FlattenSeq(s) \o e
  <1> DEFINE n == Len(s)
             t == Append(s, e)
  <1>1. n \in Nat /\ (n = 0 <=> s = <<>>)
    BY EmptySeq
  <1>2. /\ t \in Seq(Seq(S)) /\ t # <<>> /\ Len(t) = n + 1
        /\ \A i \in 1..n : t[i] = s[i]
        /\ t[n + 1] = e
    BY AppendProperties
  <1> HIDE DEF t, n
  <1>3. PICK g :
          Flattening(t, g, n + 1) /\ FlattenSeq(t) = g[n + 1]
    BY <1>2, Flattened, Zenon
  <1>4. FlattenSeq(t) = (IF n = 0 THEN e ELSE g[n] \o e)
    <2>1. g[n + 1] = (IF n = 0 THEN t[n + 1] ELSE g[n] \o t[n + 1])
      BY <1>1, <1>3, LastStep
    <2> QED BY <1>2, <1>3, <2>1
  <1>5. CASE n = 0
    <2>1. FlattenSeq(s) = <<>>
      BY <1>1, <1>5, FlattenEmpty
    <2>2. <<>> \o e = e
      BY ConcatEmptySeq
    <2> QED BY <1>4, <1>5, <2>1, <2>2, EmptySeq DEF t
  <1>6. CASE n # 0
    <2>1. PICK f : f \in [1..n -> Seq(S)] /\
            Flattening(s, f, n) /\ FlattenSeq(s) = f[n]
      BY <1>1, <1>6, Flattened, Zenon DEF n
    <2>a. 1..n \subseteq 1..n+1
      BY <1>1
    <2>2. Flattening(t, g, n)
      BY <1>3, <2>a, Zenon DEF Flattening
    <2>b. n \in Nat /\ \A i \in 1..n : s[i] = t[i]
      BY <1>1, <1>2
    <2>c. Flattening(s, f, n)
      BY <2>1
    <2>3. \A i \in 1..n : f[i] = g[i]
      BY ONLY <2>b, <2>c, <2>2, FlatteningsAgree
    <2>4. n \in 1..n
      BY <1>1, <1>6
    <2> QED BY <1>4, <1>6, <2>1, <2>3, <2>4 DEF t
  <1> QED BY <1>5, <1>6

(* Appending to the second of two sequences. *)
LEMMA AppendToConcat ==
  ASSUME NEW S, NEW s \in Seq(S), NEW t \in Seq(S), NEW x \in S
  PROVE  s \o t \in Seq(S) /\ s \o Append(t, x) = Append(s \o t, x)
  <1>1. s \o t \in Seq(S) /\ <<x>> \in Seq(S)
    BY ConcatProperties
  <1>2. Append(t, x) = t \o <<x>> /\ Append(s \o t, x) = (s \o t) \o <<x>>
    BY <1>1, AppendIsConcat
  <1> QED BY <1>1, <1>2, ConcatAssociative

-----------------------------------------------------------------------------
(* Folds over sequences. *)

(* The values of a fold of s by F, after each of the first n elements, and *)
(* the last of them.                                                       *)
Folding(F, base, s, g, n) ==
  /\ g[0] = base
  /\ \A k \in 1..n : g[k] = F[<<g[k - 1], s[k]>>]

Folded(F, base, s, v) == \E g : Folding(F, base, s, g, Len(s)) /\ v = g[Len(s)]

(* FoldLeft takes the elements from the last index on: Max picks it. *)
LEMMA MaxOfSet ==
  ASSUME NEW n \in Nat, NEW t \in SUBSET (1..n+1), n + 1 \in t
  PROVE  Max(t) = n + 1 /\ t \ {Max(t)} \in SUBSET (1..n)
  <1>1. \A x \in t : (\A y \in t : x >= y) <=> x = n + 1
    OBVIOUS
  <1>2. Max(t) = n + 1
    BY <1>1 DEF Max
  <1> QED BY <1>2

LEMMA MaxOfUpto ==
  ASSUME NEW k \in Nat, k # 0
  PROVE  Max(1..k) = k /\ (1..k) \ {Max(1..k)} = 1..k-1
  <1>1. \A x \in 1..k : (\A y \in 1..k : x >= y) <=> x = k
    OBVIOUS
  <1>2. Max(1..k) = k
    BY <1>1 DEF Max
  <1> QED BY <1>2

LEMMA MaxInSet ==
  ASSUME NEW n \in Nat
  PROVE  \A t \in SUBSET (1..n) : t # {} => Max(t) \in t
  <1> DEFINE P == {k \in Nat : \A t \in SUBSET (1..k) : t # {} => Max(t) \in t}
  <1>1. 0 \in P
    <2>1. 1..0 = {}
      OBVIOUS
    <2> QED BY <2>1
  <1>2. ASSUME NEW k \in Nat, k \in P PROVE k + 1 \in P
    <2> SUFFICES ASSUME NEW t \in SUBSET (1..k+1), t # {} PROVE Max(t) \in t
      OBVIOUS
    <2>1. CASE k + 1 \in t
      BY <2>1, MaxOfSet
    <2>2. CASE k + 1 \notin t
      <3>1. t \in SUBSET (1..k)
        BY <2>2
      <3> QED BY <1>2, <3>1
    <2> QED BY <2>1, <2>2
  <1> HIDE DEF P
  <1>3. Nat \subseteq P
    BY <1>1, <1>2, SetInduction
  <1> QED BY <1>3 DEF P

(* What h, the local function of MapThenFoldSet in a fold of s by F, is on *)
(* the subsets of 1..n.                                                    *)
Iterates(F, base, s, h, n) ==
  \A t \in SUBSET (1..n) :
    h[t] = IF t = {} THEN base ELSE F[<<h[t \ {Max(t)}], s[Max(t)]>>]

Iterable(F, base, s, V, n) ==
  \E h \in [SUBSET (1..n) -> V] : Iterates(F, base, s, h, n)

(* The recursive definition of MapThenFoldSet, with a function for the     *)
(* operator, is a definition.                                              *)
LEMMA IterationExists ==
  ASSUME NEW V, NEW S, NEW base \in V, NEW F \in [V \X S -> V], NEW s \in Seq(S)
  PROVE  Iterable(F, base, s, V, Len(s))
  <1> DEFINE Fits(h, n) == Iterates(F, base, s, h, n)
      P == {n \in Nat : n <= Len(s) => Iterable(F, base, s, V, n)}
  <1>0. Len(s) \in Nat /\ \A i \in 1..Len(s) : s[i] \in S
    OBVIOUS
  <1>1. 0 \in P
    <2> DEFINE e == [t \in SUBSET (1..0) |-> base]
    <2>1. e \in [SUBSET (1..0) -> V]
      OBVIOUS
    <2>2. 1..0 = {}
      OBVIOUS
    <2>3. Fits(e, 0)
      BY <2>2 DEF Iterates
    <2> QED BY <2>1, <2>3 DEF Iterable
  <1>2. ASSUME NEW n \in Nat, n \in P PROVE n + 1 \in P
    <2> SUFFICES ASSUME n + 1 <= Len(s)
                 PROVE  Iterable(F, base, s, V, n + 1)
      OBVIOUS
    <2>0. n <= Len(s) /\ n + 1 \in 1..Len(s) /\ s[n + 1] \in S
      BY <1>0
    <2>1. PICK g \in [SUBSET (1..n) -> V] : Fits(g, n)
      BY <2>0, <1>2 DEF Iterable
    <2> DEFINE h == [t \in SUBSET (1..n+1) |->
                       IF n + 1 \in t THEN F[<<g[t \ {n + 1}], s[n + 1]>>] ELSE g[t]]
    <2>2. ASSUME NEW t \in SUBSET (1..n+1), n + 1 \in t
          PROVE  /\ t \ {n + 1} \in SUBSET (1..n)
                 /\ Max(t) = n + 1
                 /\ h[t] = F[<<g[t \ {n + 1}], s[n + 1]>>]
      BY <2>2, MaxOfSet
    <2>3. ASSUME NEW t \in SUBSET (1..n) PROVE h[t] = g[t] /\ t \in SUBSET (1..n+1)
      OBVIOUS
    <2>4. \A t \in SUBSET (1..n+1) : n + 1 \notin t => t \in SUBSET (1..n)
      OBVIOUS
    <2>5. \A t \in SUBSET (1..n+1) : h[t] \in V
      <3> TAKE t \in SUBSET (1..n+1)
      <3>1. CASE n + 1 \in t
        <4>1. g[t \ {n + 1}] \in V
          BY <3>1, <2>2
        <4> HIDE DEF h
        <4> QED BY <4>1, <2>0, <3>1, <2>2
      <3>2. CASE n + 1 \notin t
        BY <3>2, <2>3, <2>4
      <3> QED BY <3>1, <3>2
    <2>6. Fits(h, n + 1)
      <3> SUFFICES ASSUME NEW t \in SUBSET (1..n+1)
                   PROVE  h[t] = IF t = {} THEN base ELSE F[<<h[t \ {Max(t)}], s[Max(t)]>>]
        BY DEF Iterates
      <3>1. CASE n + 1 \in t
        <4>1. h[t \ {n + 1}] = g[t \ {n + 1}]
          BY <3>1, <2>2, <2>3
        <4>2. Max(t) = n + 1 /\ h[t] = F[<<g[t \ {n + 1}], s[n + 1]>>] /\ t # {}
          BY <3>1, <2>2
        <4> HIDE DEF h
        <4> QED BY <4>1, <4>2
      <3>2. CASE n + 1 \notin t
        <4>1. t \in SUBSET (1..n) /\ h[t] = g[t]
          BY <3>2, <2>3, <2>4
        <4>2. t \ {Max(t)} \in SUBSET (1..n)
          BY <4>1
        <4>3. h[t \ {Max(t)}] = g[t \ {Max(t)}]
          BY <4>2, <2>3
        <4> HIDE DEF h
        <4> QED BY <4>1, <4>3, <2>1 DEF Iterates
      <3> QED BY <3>1, <3>2
    <2>7. h \in [SUBSET (1..n+1) -> V]
      BY <2>5
    <2> HIDE DEF h
    <2> QED BY <2>6, <2>7 DEF Iterable
  <1> HIDE DEF P
  <1>3. Nat \subseteq P
    BY <1>1, <1>2, SetInduction
  <1> QED BY <1>0, <1>3 DEF P

(* Any iteration goes through the values of the fold. *)
Follows(F, base, s, V, f) ==
  /\ f[{}] = base
  /\ \A t \in SUBSET (1..Len(s)) : t # {} /\ f[t \ {Max(t)}] \in V =>
       f[t] = F[<<f[t \ {Max(t)}], s[Max(t)]>>]

(* The local function of a fold goes through the values of the fold. *)
LEMMA IterationRuns ==
  ASSUME NEW V, NEW S, NEW base \in V, NEW F \in [V \X S -> V], NEW s \in Seq(S),
         NEW f, Follows(F, base, s, V, f)
  PROVE  /\ f[1..Len(s)] \in V
         /\ Folded(F, base, s, f[1..Len(s)])
  <1> DEFINE g == [k \in 0..Len(s) |-> f[1..k]]
             P == {k \in Nat : k <= Len(s) =>
                     f[1..k] \in V /\ (k # 0 => f[1..k] = F[<<f[1..k-1], s[k]>>])}
  <1>0. Len(s) \in Nat /\ \A i \in 1..Len(s) : s[i] \in S
    OBVIOUS
  <1>1. 0 \in P
    <2>1. 1..0 = {}
      OBVIOUS
    <2> QED BY <2>1 DEF Follows
  <1>2. ASSUME NEW k \in Nat, k \in P PROVE k + 1 \in P
    <2> SUFFICES ASSUME k + 1 <= Len(s)
                 PROVE  f[1..k+1] \in V /\ f[1..k+1] = F[<<f[1..k], s[k+1]>>]
      OBVIOUS
    <2>1. Max(1..k+1) = k + 1 /\ (1..k+1) \ {Max(1..k+1)} = 1..k
      BY MaxOfUpto
    <2>a. \A i \in 1..k+1 : i \in 1..Len(s)
      BY <1>0
    <2>b. k + 1 \in 1..k+1
      OBVIOUS
    <2>2. 1..k+1 \in SUBSET (1..Len(s)) /\ 1..k+1 # {} /\ k + 1 \in 1..Len(s)
      BY <2>a, <2>b
    <2>3. f[1..k] \in V /\ s[k+1] \in S
      BY <1>0, <1>2, <2>2
    <2>4. f[1..k+1] = F[<<f[1..k], s[k+1]>>]
      BY <2>1, <2>2, <2>3 DEF Follows
    <2> QED BY <2>3, <2>4
  <1> HIDE DEF P
  <1>3. Nat \subseteq P
    BY <1>1, <1>2, SetInduction
  <1>4. \A k \in Nat : k <= Len(s) =>
           f[1..k] \in V /\ (k # 0 => f[1..k] = F[<<f[1..k-1], s[k]>>])
    BY <1>3 DEF P
  <1>5. g[0] = base
    <2>1. 1..0 = {}
      OBVIOUS
    <2> QED BY <1>0, <2>1 DEF Follows
  <1>6. \A k \in 1..Len(s) : g[k] = F[<<g[k - 1], s[k]>>]
    BY <1>0, <1>4
  <1>7. g[Len(s)] = f[1..Len(s)]
    BY <1>0
  <1> HIDE DEF g
  <1>8. Folding(F, base, s, g, Len(s))
    BY <1>5, <1>6 DEF Folding
  <1>9. Folded(F, base, s, f[1..Len(s)])
    BY <1>7, <1>8, Zenon DEF Folded
  <1>10. f[1..Len(s)] \in V
    <2>1. Len(s) \in Nat /\ Len(s) <= Len(s)
      BY <1>0
    <2> QED BY <1>4, <2>1, Zenon
  <1> QED BY <1>9, <1>10, Zenon

(* A fold has one value; it is the base of an empty sequence, and one more *)
(* element takes one more application.                                     *)
LEMMA RunsAgree ==
  ASSUME NEW F, NEW base, NEW s, NEW t, NEW f, NEW g, NEW n \in Nat,
         Folding(F, base, s, f, n), Folding(F, base, t, g, n),
         \A i \in 1..n : s[i] = t[i]
  PROVE  f[n] = g[n]
  <1> DEFINE P == {k \in Nat : k <= n => f[k] = g[k]}
  <1>1. 0 \in P
    BY DEF Folding
  <1>2. ASSUME NEW k \in Nat, k \in P PROVE k + 1 \in P
    <2> SUFFICES ASSUME k + 1 <= n PROVE f[k + 1] = g[k + 1]
      OBVIOUS
    <2>1. k + 1 \in 1..n /\ k + 1 - 1 = k
      OBVIOUS
    <2>2. f[k + 1] = F[<<f[k], s[k + 1]>>] /\ g[k + 1] = F[<<g[k], t[k + 1]>>]
      BY <2>1 DEF Folding
    <2> QED BY <1>2, <2>1, <2>2
  <1> HIDE DEF P
  <1>3. Nat \subseteq P
    BY <1>1, <1>2, SetInduction
  <1> QED BY <1>3 DEF P

(* The last step of a fold. *)
LEMMA LastRun ==
  ASSUME NEW F, NEW base, NEW s, NEW g, NEW n \in Nat, Folding(F, base, s, g, n + 1)
  PROVE  g[n + 1] = F[<<g[n], s[n + 1]>>]
  <1>1. n + 1 \in 1..n + 1 /\ n + 1 - 1 = n
    OBVIOUS
  <1>2. g[n + 1] = F[<<g[n + 1 - 1], s[n + 1]>>]
    BY <1>1 DEF Folding
  <1> QED BY <1>1, <1>2

(* A fold of nothing, and of one element more. *)
LEMMA FoldedEmpty ==
  ASSUME NEW F, NEW base, NEW v, Folded(F, base, <<>>, v)
  PROVE  v = base
  BY DEF Folded, Folding

LEMMA FoldedAppend ==
  ASSUME NEW S, NEW F, NEW base, NEW s \in Seq(S), NEW e \in S, NEW v, NEW w,
         Folded(F, base, s, v), Folded(F, base, Append(s, e), w)
  PROVE  w = F[<<v, e>>]
  <1> DEFINE n == Len(s)
             t == Append(s, e)
  <1>1. /\ n \in Nat /\ Len(t) = n + 1 /\ t[n + 1] = e
        /\ \A i \in 1..n : s[i] = t[i]
    OBVIOUS
  <1>2. PICK f : Folding(F, base, s, f, n) /\ v = f[n]
    BY DEF Folded
  <1> HIDE DEF t
  <1>3. PICK g : Folding(F, base, t, g, n + 1) /\ w = g[n + 1]
    BY <1>1 DEF Folded, t
  <1> HIDE DEF n
  <1>4. Folding(F, base, t, g, n)
    BY <1>1, <1>3 DEF Folding
  <1>5. f[n] = g[n]
    <2>1. n \in Nat /\ \A i \in 1..n : s[i] = t[i]
      BY <1>1
    <2>2. Folding(F, base, s, f, n)
      BY <1>2
    <2> QED BY ONLY <2>1, <2>2, <1>4, RunsAgree
  <1>6. n \in Nat /\ Folding(F, base, t, g, n + 1)
    BY <1>1, <1>3
  <1>7. g[n + 1] = F[<<g[n], t[n + 1]>>]
    BY ONLY <1>6, LastRun
  <1> QED BY <1>1, <1>2, <1>3, <1>5, <1>7
=============================================================================

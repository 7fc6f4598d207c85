-------------------------- MODULE MetricsFileProofs --------------------------
(***************************************************************************)
(* Proofs about MetricsFile for any writers, sinks and processes, and any  *)
(* number of writes, failed calls and crashes.                             *)
(***************************************************************************)
EXTENDS MetricsFile, SequenceTheorems, TLAPS

(* Where a writer is: in append_jsonl with the lock, in atomic_write with  *)
(* a name of its own, or with that name on the disk.                       *)
Locked == {"open", "head", "tail", "newline"}
Filling == {"write", "more", "rename"}
Holding == Filling \cup {"remove"}
Named == Holding \cup {"create"}

Types ==
  /\ format \in {"jsonl", "prometheus"}
  /\ sink \in [Writers -> Writers] /\ process \in [Writers -> Writers]
  /\ made \subseteq Sinks
  /\ data \in Seq(Seq(Pieces))
  /\ file \in 0..Len(data)
  /\ temps \subseteq [process : Range(process), number : Nat, inode : 1..Len(data)]
  /\ counter \in [Writers -> Nat]
  /\ lock \in [Sinks -> Writers \cup {None}]
  /\ pc \in [Writers -> {"idle", "lock"} \cup Locked \cup Named]
  /\ count \in [Writers -> 0..MaxWrites]
  /\ opened \in [Writers -> 0..Len(data)]
  /\ number \in [Writers -> Nat]
  /\ faults \in 0..MaxFaults
  /\ torn \in BOOLEAN /\ left \in BOOLEAN
  /\ older \in [before : [Writers -> SUBSET Writes],
                over : SUBSET Writes]

(* A writer that is at work has begun a write, and a file exists. *)
Working ==
  /\ made # {} => file # 0
  /\ \A w \in Writers : pc[w] # "idle" => count[w] # 0 /\ file # 0
  /\ \A w \in Writers : format = "jsonl" => pc[w] \in {"idle", "lock"} \cup Locked
  /\ \A w \in Writers : format = "prometheus" => pc[w] \in {"idle"} \cup Named

(* Names of temporary files: no two writers of one process that are in     *)
(* atomic_write have the same number, for the process counts up.           *)
NamesInv ==
  /\ \A w \in Writers : pc[w] \in Named => number[w] < counter[process[w]]
  /\ \A v, w \in Writers :
       pc[v] \in Named /\ pc[w] \in Named /\ process[v] = process[w]
         /\ number[v] = number[w] => v = w

Owns(w, t) ==
  /\ pc[w] \in Holding
  /\ t.process = process[w] /\ t.number = number[w] /\ t.inode = opened[w]

(* Every temporary file is that of a writer at work, until one is left.    *)
TempsInv == ~left => \A t \in temps : \E w \in Writers : Owns(w, t)

(* The contents a writer has brought to its inode by now. *)
Filled(w) ==
  /\ opened[w] # 0 /\ opened[w] # file
  /\ pc[w] = "write" => data[opened[w]] = <<>>
  /\ pc[w] = "more" => data[opened[w]] = <<Piece(w, "head")>>
  /\ pc[w] = "rename" => data[opened[w]] = <<Piece(w, "head"), Piece(w, "tail")>>

(* Each writer fills an inode of its own, which is not yet the file. *)
FillInv ==
  format = "prometheus" =>
    /\ \A w \in Writers : pc[w] \in Filling => Filled(w)
    /\ \A v, w \in Writers :
         pc[v] \in Filling /\ pc[w] \in Filling /\ opened[v] = opened[w] => v = w

(* The writes noted as older have ended. *)
OlderInv ==
  /\ \A e \in older.over : Ended(e)
  /\ \A w \in Writers : \A e \in older.before[w] : Ended(e)

(* The lock of a sink is held by the one writer that is in its file.       *)
LockInv ==
  \A w \in Writers : pc[w] \in Locked =>
    /\ lock[sink[w]] = w
    /\ pc[w] # "open" => opened[w] = file

OneSink == \A v, w \in Writers : sink[v] = sink[w]

Writing(w) == pc[w] \in {"tail", "newline"}

(* The file is made of whole records, with one that a writer is writing.   *)
RecordsInv ==
  format = "jsonl" /\ file # 0 /\ ~torn /\ OneSink =>
    /\ \A k \in Nat : Whole(data[file], k)
    /\ \E m \in Nat :
         \/ Len(data[file]) = 3*m /\ \A w \in Writers : ~Writing(w)
         \/ \E w \in Writers :
              /\ \/ Len(data[file]) = 3*m + 1 /\ pc[w] = "tail"
                 \/ Len(data[file]) = 3*m + 2 /\ pc[w] = "newline"
              /\ data[file][3*m + 1] = Piece(w, "head")

IInv ==
  /\ Types /\ Working /\ NamesInv /\ TempsInv
  /\ FillInv /\ OlderInv /\ SnapshotCurrent
  /\ LockInv /\ RecordsInv

-----------------------------------------------------------------------------
LEMMA InitInv == Init => IInv
  <1> SUFFICES ASSUME Init PROVE IInv
    OBVIOUS
  <1> USE BoundsAssumption DEF Init
  <1>1. Types
    <2>0. older = [before |-> [w \in Writers |-> {}], over |-> {}]
      OBVIOUS
    <2>1. sink \in [Writers -> Writers] /\ process \in [Writers -> Writers]
      OBVIOUS
    <2>2. /\ data \in Seq(Seq(Pieces)) /\ file \in 0..Len(data)
          /\ made \subseteq Sinks /\ temps = {}
      OBVIOUS
    <2>3. /\ counter \in [Writers -> Nat] /\ number \in [Writers -> Nat]
          /\ lock \in [Sinks -> Writers \cup {None}]
          /\ pc \in [Writers -> {"idle", "lock"} \cup Locked \cup Named]
          /\ count \in [Writers -> 0..MaxWrites] /\ opened \in [Writers -> 0..Len(data)]
      BY DEF Sinks
    <2>4. older \in [before : [Writers -> SUBSET Writes],
                     over : SUBSET Writes]
      <3>1. [w \in Writers |-> {}] \in [Writers -> SUBSET Writes]
        OBVIOUS
      <3>2. {} \in SUBSET Writes
        OBVIOUS
      <3> QED BY <2>0, <3>1, <3>2
    <2>5. faults \in 0..MaxFaults /\ torn \in BOOLEAN /\ left \in BOOLEAN
      <3>1. faults \in 0..MaxFaults
        OBVIOUS
      <3>2. torn \in BOOLEAN /\ left \in BOOLEAN
        BY Zenon
      <3> QED BY <3>1, <3>2
    <2> QED BY <2>1, <2>2, <2>3, <2>4, <2>5 DEF Types
  <1>2. \A w \in Writers : pc[w] = "idle"
    OBVIOUS
  <1>3. Working /\ NamesInv /\ TempsInv /\ FillInv /\ LockInv
    BY <1>2 DEF Working, NamesInv, TempsInv, FillInv, LockInv, Locked, Named, Holding, Filling
  <1>4. OlderInv
    BY DEF OlderInv
  <1>5. SnapshotCurrent /\ RecordsInv
    BY DEF SnapshotCurrent, RecordsInv
  <1> QED BY <1>1, <1>3, <1>4, <1>5 DEF IInv

-----------------------------------------------------------------------------
(* What one call does to a variable. *)

LEMMA Went ==
  ASSUME Types, NEW w \in Writers, NEW from, NEW to, Goto(w, from, to),
         to \in {"idle", "lock"} \cup Locked \cup Named
  PROVE  /\ pc[w] = from /\ pc'[w] = to /\ \A v \in Writers : v # w => pc'[v] = pc[v]
         /\ pc' \in [Writers -> {"idle", "lock"} \cup Locked \cup Named]
  BY DEF Types, Goto

LEMMA TwoPieces ==
  ASSUME NEW x, NEW y
  PROVE  Append(<<x>>, y) = <<x, y>>
  <1> DEFINE S == {x, y}
  <1>1. <<x>> \in Seq(S) /\ <<x, y>> \in Seq(S) /\ y \in S
    OBVIOUS
  <1>2. Len(<<x>>) = 1 /\ Len(<<x, y>>) = 2 /\ <<x>>[1] = x /\ <<x, y>>[1] = x /\ <<x, y>>[2] = y
    OBVIOUS
  <1> DEFINE s == Append(<<x>>, y)
  <1> HIDE DEF S
  <1>3. s \in Seq(S) /\ Len(s) = 2 /\ s[1] = x /\ s[2] = y
    BY <1>1, <1>2, AppendProperties
  <1> HIDE DEF s
  <1>4. \A i \in 1..2 : s[i] = <<x, y>>[i]
    BY <1>2, <1>3
  <1> QED BY <1>1, <1>2, <1>3, <1>4, SeqEqual DEF s

LEMMA Appended ==
  ASSUME Types, NEW w \in Writers, NEW part \in {"head", "tail", "newline"},
         opened[w] # 0, count[w] # 0, AppendPiece(w, part)
  PROVE  /\ opened[w] \in 1..Len(data)
         /\ data' \in Seq(Seq(Pieces)) /\ Len(data') = Len(data)
         /\ Piece(w, part) \in Pieces
         /\ data'[opened[w]] = Append(data[opened[w]], Piece(w, part))
         /\ \A i \in 1..Len(data) : i # opened[w] => data'[i] = data[i]
         /\ UNCHANGED <<file, temps>>
  <1> DEFINE i == opened[w]
             e == Append(data[i], Piece(w, part))
  <1>1. i \in 1..Len(data) /\ data \in Seq(Seq(Pieces))
    BY DEF Types
  <1>2. Piece(w, part) \in Pieces
    BY BoundsAssumption DEF Types, Piece, Pieces
  <1>3. data[i] \in Seq(Pieces)
    BY <1>1
  <1>4. e \in Seq(Pieces)
    BY <1>2, <1>3, AppendProperties
  <1>5. data' = [data EXCEPT ![i] = e] /\ UNCHANGED <<file, temps>>
    BY DEF AppendPiece
  <1> HIDE DEF e, i
  <1>6. /\ data' \in Seq(Seq(Pieces)) /\ Len(data') = Len(data)
        /\ \A j \in 1..Len(data) : data'[j] = IF j = i THEN e ELSE data[j]
    BY <1>1, <1>4, <1>5, ExceptSeq
  <1> QED BY <1>1, <1>2, <1>5, <1>6 DEF e, i

LEMMA Grown ==
  ASSUME Types, data' = Append(data, <<>>)
  PROVE  /\ data' \in Seq(Seq(Pieces)) /\ Len(data') = Len(data) + 1 /\ Len(data) \in Nat
         /\ data'[Len(data) + 1] = <<>>
         /\ \A i \in 1..Len(data) : data'[i] = data[i]
  <1>1. data \in Seq(Seq(Pieces)) /\ <<>> \in Seq(Pieces)
    BY DEF Types
  <1> QED BY <1>1, AppendProperties

LEMMA Emptied ==
  ASSUME Types, file # 0, data' = [data EXCEPT ![file] = <<>>]
  PROVE  /\ data' \in Seq(Seq(Pieces)) /\ Len(data') = Len(data)
         /\ file \in 1..Len(data) /\ data'[file] = <<>>
         /\ \A i \in 1..Len(data) : i # file => data'[i] = data[i]
  <1>1. data \in Seq(Seq(Pieces)) /\ <<>> \in Seq(Pieces) /\ file \in 1..Len(data)
    BY DEF Types
  <1>2. /\ data' \in Seq(Seq(Pieces)) /\ Len(data') = Len(data)
        /\ \A j \in 1..Len(data) : data'[j] = IF j = file THEN <<>> ELSE data[j]
    BY <1>1, ExceptSeq
  <1> QED BY <1>1, <1>2

LEMMA Created ==
  ASSUME Types, NEW w \in Writers, CreateTemp(w)
  PROVE  /\ data' = Append(data, <<>>) /\ UNCHANGED file
         /\ opened'[w] = Len(data) + 1
         /\ \A v \in Writers : v # w => opened'[v] = opened[v]
         /\ opened' \in [Writers -> 0..Len(data')]
         /\ temps' = temps \cup {[process |-> process[w], number |-> number[w],
                                  inode |-> Len(data) + 1]}
         /\ temps' \subseteq [process : Range(process), number : Nat, inode : 1..Len(data')]
         /\ Temp(w) = {}
  <1>1. /\ data' = Append(data, <<>>) /\ UNCHANGED file /\ Temp(w) = {}
        /\ opened' = [opened EXCEPT ![w] = Len(data) + 1]
        /\ temps' = temps \cup {[process |-> process[w], number |-> number[w],
                                 inode |-> Len(data) + 1]}
    BY DEF CreateTemp
  <1>2. Len(data') = Len(data) + 1 /\ Len(data) \in Nat
    BY <1>1, Grown
  <1>3. opened' \in [Writers -> 0..Len(data')]
    BY <1>1, <1>2 DEF Types
  <1>4. process[w] \in Range(process) /\ number[w] \in Nat /\ Len(data) + 1 \in 1..Len(data')
    BY <1>2 DEF Types, Range
  <1>5. temps' \subseteq [process : Range(process), number : Nat, inode : 1..Len(data')]
    BY <1>1, <1>2, <1>4 DEF Types
  <1> QED BY <1>1, <1>3, <1>5 DEF Types

(* Where a writer appends, it has a file open. *)
LEMMA HasOpen ==
  ASSUME Types, Working, FillInv, LockInv, NEW w \in Writers,
         pc[w] \in {"head", "tail", "newline"} \cup Filling
  PROVE  opened[w] # 0 /\ count[w] # 0
  <1>1. count[w] # 0 /\ file # 0
    BY DEF Working, Filling
  <1>2. CASE pc[w] \in {"head", "tail", "newline"}
    BY <1>1, <1>2 DEF LockInv, Locked
  <1>3. CASE pc[w] \in Filling
    BY <1>1, <1>3 DEF FillInv, Filled, Working, Filling, Types, Locked
  <1> QED BY <1>1, <1>2, <1>3

LEMMA TypesStep == IInv /\ [Next]_vars => Types'
  <1> SUFFICES ASSUME IInv, [Next]_vars PROVE Types'
    OBVIOUS
  <1> USE BoundsAssumption DEF config, disk, local, history
  <1>0. Types /\ Working /\ FillInv /\ LockInv
    BY DEF IInv
  <1> DEFINE Places == {"idle", "lock"} \cup Locked \cup Named
  <1>p. Places = {"idle", "lock", "open", "head", "tail", "newline", "create", "write",
                  "more", "rename", "remove"}
    BY DEF Locked, Named, Holding, Filling
  <1>f. Fault => faults' \in 0..MaxFaults
    BY <1>0 DEF Fault, Types
  <1>1. ASSUME NEW w \in Writers, NewSink(w) PROVE Types'
    <2>1. made' \subseteq Sinks /\ torn' \in BOOLEAN
      BY <1>0, <1>1 DEF NewSink, Types, Sinks
    <2>2. /\ data' \in Seq(Seq(Pieces)) /\ file' \in 0..Len(data')
          /\ Len(data) \in Nat /\ Len(data') \in {Len(data), Len(data) + 1}
      <3>1. CASE file = 0
        BY <1>0, <1>1, <3>1, Grown DEF NewSink
      <3>2. CASE file # 0
        <4>1. data' = [data EXCEPT ![file] = <<>>] /\ file' = file
          BY <1>1, <3>2 DEF NewSink
        <4>2. /\ data' \in Seq(Seq(Pieces)) /\ Len(data') = Len(data)
              /\ file \in 1..Len(data)
          BY <1>0, <3>2, <4>1, Emptied
        <4>3. Len(data) \in Nat
          BY <1>0 DEF Types
        <4> QED BY <4>1, <4>2, <4>3
      <3> QED BY <3>1, <3>2
    <2>3. /\ \A i \in 0..Len(data) : i \in 0..Len(data')
          /\ \A i \in 1..Len(data) : i \in 1..Len(data')
      BY <2>2
    <2>4. opened' \in [Writers -> 0..Len(data')]
      BY <1>0, <1>1, <2>3 DEF NewSink, Types
    <2>5. temps' \subseteq [process : Range(process'), number : Nat, inode : 1..Len(data')]
      BY <1>0, <1>1, <2>3 DEF NewSink, Types
    <2> QED BY <1>0, <1>1, <2>1, <2>2, <2>4, <2>5 DEF NewSink, Types
  <1>b. ASSUME NEW w \in Writers, NEW to \in Places, Begin(w, to)
        PROVE  pc' \in [Writers -> Places] /\ count' \in [Writers -> 0..MaxWrites]
    <2>1. Goto(w, "idle", to) /\ count[w] < MaxWrites /\ count' = [count EXCEPT ![w] = @ + 1]
      BY <1>b DEF Begin
    <2>2. pc' \in [Writers -> Places]
      BY <1>0, <2>1, Went
    <2>3. count[w] + 1 \in 0..MaxWrites /\ count \in [Writers -> 0..MaxWrites]
      BY <1>0, <2>1 DEF Types
    <2> QED BY <2>1, <2>2, <2>3
  <1>2. ASSUME NEW w \in Writers, Jsonl(w) PROVE Types'
    BY <1>0, <1>p, <1>2, <1>b DEF Jsonl, Types
  <1>3. ASSUME NEW w \in Writers, LockSink(w) PROVE Types'
    BY <1>0, <1>p, <1>3, Went DEF LockSink, Types, Sinks
  <1>4. ASSUME NEW w \in Writers, OpenAppend(w) PROVE Types'
    BY <1>0, <1>p, <1>4, Went DEF OpenAppend, Types
  <1>a. ASSUME NEW w \in Writers, NEW part \in {"head", "tail", "newline"},
               pc[w] \in {"head", "tail", "newline"} \cup Filling, AppendPiece(w, part)
        PROVE  /\ data' \in Seq(Seq(Pieces)) /\ Len(data') = Len(data)
               /\ UNCHANGED <<file, temps>>
    BY <1>0, <1>a, HasOpen, Appended
  <1>5. ASSUME NEW w \in Writers, WriteRecord(w) PROVE Types'
    <2>1. /\ pc[w] \in {"head", "tail", "newline"} \cup Filling
          /\ AppendPiece(w, "head") \/ AppendPiece(w, "tail")
          /\ Goto(w, "head", "tail") \/ Goto(w, "tail", "newline")
      BY <1>5 DEF WriteRecord, Goto
    <2>2. pc' \in [Writers -> Places]
      BY <1>0, <1>p, <2>1, Went
    <2> QED BY <1>0, <1>5, <1>a, <2>1, <2>2 DEF WriteRecord, Types
  <1>l. ASSUME NEW w \in Writers, Unlock(w) PROVE lock' \in [Sinks -> Writers \cup {None}]
    BY <1>0, <1>l DEF Unlock, Types
  <1>6. ASSUME NEW w \in Writers, WriteNewline(w) PROVE Types'
    <2>1. pc[w] = "newline" /\ AppendPiece(w, "newline") /\ Goto(w, "newline", "idle")
      BY <1>6 DEF WriteNewline, Return, Goto
    <2>2. pc' \in [Writers -> Places]
      BY <1>0, <1>p, <2>1, Went
    <2> QED BY <1>0, <1>6, <1>a, <1>l, <2>1, <2>2 DEF WriteNewline, Return, Types
  <1>7. ASSUME NEW w \in Writers, AppendFails(w) PROVE Types'
    <2>1. PICK from \in {"open", "head", "tail", "newline"} :
            Return(w, from) /\ torn' = (torn \/ from \in {"tail", "newline"})
      BY <1>7 DEF AppendFails
    <2>2. pc' \in [Writers -> Places]
      BY <1>0, <1>p, <2>1, Went DEF Return
    <2> QED BY <1>0, <1>7, <1>l, <1>f, <2>1, <2>2 DEF AppendFails, Return, Types
  <1>8. ASSUME NEW w \in Writers, Prometheus(w) PROVE Types'
    <2>1. pc' \in [Writers -> Places] /\ count' \in [Writers -> 0..MaxWrites]
      BY <1>p, <1>8, <1>b DEF Prometheus
    <2>2. counter' \in [Writers -> Nat] /\ number' \in [Writers -> Nat]
      BY <1>0, <1>8 DEF Prometheus, CountUp, Types
    <2>3. older' \in [before : [Writers -> SUBSET Writes],
                      over : SUBSET Writes]
      <3> DEFINE ended == {e \in Writes : Ended(e)}
      <3>1. ended \in SUBSET Writes
        OBVIOUS
      <3>2. older' = [older EXCEPT !.before[w] = ended]
        BY <1>8 DEF Prometheus
      <3> HIDE DEF ended
      <3> QED BY <1>0, <3>1, <3>2 DEF Types
    <2> QED BY <1>0, <1>8, <2>1, <2>2, <2>3 DEF Prometheus, Types
  <1>9. ASSUME NEW w \in Writers, CreateTemp(w) PROVE Types'
    <2>1. pc' \in [Writers -> Places]
      BY <1>0, <1>p, <1>9, Went DEF CreateTemp
    <2>2. data' \in Seq(Seq(Pieces)) /\ Len(data') = Len(data) + 1 /\ Len(data) \in Nat
      BY <1>0, <1>9, Created, Grown
    <2>3. /\ opened' \in [Writers -> 0..Len(data')] /\ file' = file
          /\ temps' \subseteq [process : Range(process), number : Nat, inode : 1..Len(data')]
      BY <1>0, <1>9, Created
    <2>4. file' \in 0..Len(data')
      BY <1>0, <2>2, <2>3 DEF Types
    <2> QED BY <1>0, <1>9, <2>1, <2>2, <2>3, <2>4 DEF CreateTemp, Types
  <1>10. ASSUME NEW w \in Writers, CreateFails(w) PROVE Types'
    <2>1. pc' \in [Writers -> Places] /\ faults' \in 0..MaxFaults
      BY <1>0, <1>p, <1>10, <1>f, Went DEF CreateFails, Return, Types
    <2> QED BY <1>0, <1>10, <2>1 DEF CreateFails, Return, Types
  <1>11. ASSUME NEW w \in Writers, WriteTemp(w) PROVE Types'
    <2>1. /\ pc[w] \in {"head", "tail", "newline"} \cup Filling
          /\ AppendPiece(w, "head") \/ AppendPiece(w, "tail")
          /\ Goto(w, "write", "more") \/ Goto(w, "more", "rename")
      BY <1>11 DEF WriteTemp, Goto, Filling
    <2>2. pc' \in [Writers -> Places]
      BY <1>0, <1>p, <2>1, Went
    <2> QED BY <1>0, <1>11, <1>a, <2>1, <2>2 DEF WriteTemp, Types
  <1>12. ASSUME NEW w \in Writers, RenameTemp(w) PROVE Types'
    <2>1. pc' \in [Writers -> Places]
      BY <1>0, <1>p, <1>12, Went DEF RenameTemp, Return
    <2>2. older' \in [before : [Writers -> SUBSET Writes],
                      over : SUBSET Writes]
      BY <1>0, <1>12 DEF RenameTemp, Types
    <2>3. file' \in 0..Len(data) /\ temps' \subseteq temps
      BY <1>0, <1>12 DEF RenameTemp, Types
    <2> QED BY <1>0, <1>12, <2>1, <2>2, <2>3 DEF RenameTemp, Return, Types
  <1>13. ASSUME NEW w \in Writers, WriteFails(w) PROVE Types'
    <2>1. pc' \in [Writers -> Places]
      BY <1>0, <1>p, <1>13, Went DEF WriteFails
    <2> QED BY <1>0, <1>13, <1>f, <2>1 DEF WriteFails, Types
  <1>14. ASSUME NEW w \in Writers, RemoveTemp(w) PROVE Types'
    <2>1. pc' \in [Writers -> Places]
      BY <1>0, <1>p, <1>14, Went DEF RemoveTemp
    <2>2. temps' \subseteq temps /\ left' \in BOOLEAN /\ faults' \in 0..MaxFaults
      BY <1>0, <1>14, <1>f DEF RemoveTemp, Types
    <2> QED BY <1>0, <1>14, <2>1, <2>2 DEF RemoveTemp, Types
  <1>15. ASSUME NEW p \in Range(process), Crash(p) PROVE Types'
    <2>1. pc' \in [Writers -> Places] /\ lock' \in [Sinks -> Writers \cup {None}]
      BY <1>0, <1>p, <1>15 DEF Crash, Types
    <2>2. counter' \in [Writers -> Nat] /\ made' \subseteq Sinks
      BY <1>0, <1>15 DEF Crash, Types
    <2>3. torn' \in BOOLEAN /\ left' \in BOOLEAN /\ faults' \in 0..MaxFaults
      BY <1>0, <1>15, <1>f DEF Crash, Types
    <2> QED BY <1>0, <1>15, <2>1, <2>2, <2>3 DEF Crash, Types
  <1>16. CASE UNCHANGED vars
    BY <1>0, <1>16 DEF vars, Types
  <1> QED
    BY <1>1, <1>2, <1>3, <1>4, <1>5, <1>6, <1>7, <1>8, <1>9, <1>10, <1>11, <1>12,
       <1>13, <1>14, <1>15, <1>16 DEF Next, Step
-----------------------------------------------------------------------------
(* Which steps there are in each format. *)

LEMMA JsonlSteps ==
  ASSUME Working, format = "jsonl", Next
  PROVE  \/ \E w \in Writers :
              \/ NewSink(w) \/ Jsonl(w) \/ LockSink(w) \/ OpenAppend(w)
              \/ WriteRecord(w) \/ WriteNewline(w) \/ AppendFails(w)
         \/ \E p \in Range(process) : Crash(p)
  <1>1. \A w \in Writers : pc[w] \notin Named
    BY DEF Working, Locked, Named, Holding, Filling
  <1>2. ASSUME NEW w \in Writers PROVE ~CreateTemp(w) /\ ~CreateFails(w) /\ ~WriteTemp(w)
    BY <1>1 DEF CreateTemp, CreateFails, WriteTemp, Return, Goto, Named, Holding, Filling
  <1>3. ASSUME NEW w \in Writers PROVE ~RenameTemp(w) /\ ~WriteFails(w) /\ ~RemoveTemp(w)
    BY <1>1 DEF RenameTemp, WriteFails, RemoveTemp, Return, Goto, Named, Holding, Filling
  <1>4. ASSUME NEW w \in Writers PROVE ~Prometheus(w)
    BY DEF Prometheus
  <1> QED BY <1>2, <1>3, <1>4 DEF Next, Step

LEMMA PrometheusSteps ==
  ASSUME Working, format = "prometheus", Next
  PROVE  \/ \E w \in Writers :
              \/ NewSink(w) \/ Prometheus(w) \/ CreateTemp(w) \/ CreateFails(w)
              \/ WriteTemp(w) \/ RenameTemp(w) \/ WriteFails(w) \/ RemoveTemp(w)
         \/ \E p \in Range(process) : Crash(p)
  <1>1. \A w \in Writers : pc[w] \notin Locked /\ pc[w] # "lock"
    BY DEF Working, Locked, Named, Holding, Filling
  <1>2. ASSUME NEW w \in Writers PROVE ~LockSink(w) /\ ~OpenAppend(w) /\ ~WriteRecord(w)
    BY <1>1 DEF LockSink, OpenAppend, WriteRecord, Goto, Locked
  <1>3. ASSUME NEW w \in Writers PROVE ~WriteNewline(w) /\ ~AppendFails(w)
    BY <1>1 DEF WriteNewline, AppendFails, Return, Goto, Locked
  <1>4. ASSUME NEW w \in Writers PROVE ~Jsonl(w)
    BY DEF Jsonl
  <1> QED BY <1>2, <1>3, <1>4 DEF Next, Step

(* The file, once made, is there for good. *)
LEMMA FileStays ==
  ASSUME IInv, [Next]_vars, file # 0
  PROVE  file' # 0
  <1> USE DEF config, disk, local, history
  <1>1. ASSUME NEW w \in Writers, NewSink(w) PROVE file' # 0
    BY <1>1 DEF NewSink
  <1>2. ASSUME NEW w \in Writers, Step(w) PROVE file' # 0
    <2>1. CASE Jsonl(w) \/ LockSink(w) \/ OpenAppend(w) \/ AppendFails(w)
      BY <2>1 DEF Jsonl, LockSink, OpenAppend, AppendFails
    <2>2. CASE WriteRecord(w) \/ WriteNewline(w) \/ WriteTemp(w)
      BY <2>2 DEF WriteRecord, WriteNewline, WriteTemp, AppendPiece
    <2>3. CASE Prometheus(w) \/ CreateTemp(w) \/ CreateFails(w)
      BY <2>3 DEF Prometheus, CreateTemp, CreateFails
    <2>4. CASE WriteFails(w) \/ RemoveTemp(w)
      BY <2>4 DEF WriteFails, RemoveTemp
    <2>5. CASE RenameTemp(w)
      <3>1. pc[w] = "rename" /\ file' = opened[w]
        BY <2>5 DEF RenameTemp, Return, Goto
      <3>2. Types /\ Working /\ FillInv
        BY DEF IInv
      <3>3. format = "prometheus"
        BY <3>1, <3>2 DEF Working, Types, Locked
      <3> QED BY <3>1, <3>2, <3>3 DEF FillInv, Filled, Filling
    <2> QED BY <1>2, <2>1, <2>2, <2>3, <2>4, <2>5 DEF Step
  <1>3. ASSUME NEW p \in Range(process), Crash(p) PROVE file' # 0
    BY <1>3 DEF Crash
  <1>4. CASE UNCHANGED vars
    BY <1>4 DEF vars
  <1> QED BY <1>1, <1>2, <1>3, <1>4 DEF Next

-----------------------------------------------------------------------------
(* A writer at work. *)

LEMMA Worked ==
  ASSUME Types, Working, NEW w \in Writers, NEW from, NEW to, Goto(w, from, to),
         from # "idle", file' # 0, UNCHANGED <<format, made, count>>,
         format = "jsonl" => to \in {"idle", "lock"} \cup Locked,
         format = "prometheus" => to \in {"idle"} \cup Named
  PROVE  Working'
  <1>1. to \in {"idle", "lock"} \cup Locked \cup Named
    BY DEF Types
  <1>2. /\ pc[w] = from /\ pc'[w] = to
        /\ \A v \in Writers : v # w => pc'[v] = pc[v]
    BY <1>1, Went
  <1> QED BY <1>2 DEF Working

LEMMA Started ==
  ASSUME Types, Working, file' # 0, UNCHANGED <<format, made>>, NEW w \in Writers,
         NEW to, Begin(w, to),
         format = "jsonl" => to = "lock",
         format = "prometheus" => to = "create"
  PROVE  Working'
  <1>1. Goto(w, "idle", to) /\ count[w] < MaxWrites /\ count' = [count EXCEPT ![w] = @ + 1]
    BY DEF Begin
  <1>2. to \in {"lock", "create"}
    BY DEF Types
  <1>3. pc'[w] = to /\ \A v \in Writers : v # w => pc'[v] = pc[v]
    BY <1>1, <1>2, Went DEF Named
  <1>4. count'[w] # 0 /\ \A v \in Writers : v # w => count'[v] = count[v]
    BY <1>1 DEF Types
  <1> QED BY <1>2, <1>3, <1>4 DEF Working, Named

LEMMA WorkingStep == IInv /\ [Next]_vars => Working'
  <1> SUFFICES ASSUME IInv, [Next]_vars PROVE Working'
    OBVIOUS
  <1> USE DEF config, disk, local, history
  <1>0. Types /\ Working
    BY DEF IInv
  <1>f. file # 0 => file' # 0
    BY FileStays
  <1>w. \A w \in Writers : pc[w] # "idle" => file' # 0
    BY <1>0, <1>f DEF Working
  <1>m. \A w \in Writers : sink[w] \in made => file' # 0
    BY <1>0, <1>f DEF Working
  <1>1. CASE UNCHANGED vars
    BY <1>0, <1>1 DEF vars, Working
  <1>2. ASSUME NEW w \in Writers, NewSink(w) PROVE Working'
    <2>1. file' # 0
      BY <1>0, <1>2 DEF NewSink, Types
    <2> QED BY <1>0, <1>2, <2>1 DEF NewSink, Working
  <1>3. ASSUME NEW p \in Range(process), Crash(p) PROVE Working'
    <2>1. \A w \in Writers : pc'[w] \in {"idle", pc[w]}
      BY <1>0, <1>3 DEF Crash, Types
    <2>2. UNCHANGED <<format, count, file>> /\ made' \subseteq made
      BY <1>3 DEF Crash
    <2> QED BY <1>0, <2>1, <2>2 DEF Working
  <1>4. CASE Next /\ format = "jsonl"
    <2>1. ASSUME NEW w \in Writers, Jsonl(w) PROVE Working'
      <3>1. Begin(w, "lock") /\ UNCHANGED <<format, made>>
        BY <2>1 DEF Jsonl
      <3> QED BY <1>0, <1>m, <1>4, <3>1, Started DEF Begin
    <2>2. ASSUME NEW w \in Writers, LockSink(w) PROVE Working'
      <3>1. Goto(w, "lock", "open") /\ UNCHANGED <<format, made, count>>
        BY <2>2 DEF LockSink
      <3> QED BY <1>0, <1>w, <1>4, <3>1, Worked DEF Goto, Locked
    <2>3. ASSUME NEW w \in Writers, OpenAppend(w) PROVE Working'
      <3>1. Goto(w, "open", "head") /\ UNCHANGED <<format, made, count>>
        BY <2>3 DEF OpenAppend
      <3> QED BY <1>0, <1>w, <1>4, <3>1, Worked DEF Goto, Locked
    <2>4. ASSUME NEW w \in Writers, WriteRecord(w) PROVE Working'
      <3>1. /\ Goto(w, "head", "tail") \/ Goto(w, "tail", "newline")
            /\ UNCHANGED <<format, made, count>>
        BY <2>4 DEF WriteRecord
      <3>2. file' # 0
        BY <1>w, <3>1 DEF Goto
      <3>3. CASE Goto(w, "head", "tail")
        BY <1>0, <1>4, <3>1, <3>2, <3>3, Worked DEF Locked
      <3>4. CASE Goto(w, "tail", "newline")
        BY <1>0, <1>4, <3>1, <3>2, <3>4, Worked DEF Locked
      <3> QED BY <3>1, <3>3, <3>4
    <2>5. ASSUME NEW w \in Writers, WriteNewline(w) PROVE Working'
      <3>1. Goto(w, "newline", "idle") /\ UNCHANGED <<format, made, count>>
        BY <2>5 DEF WriteNewline, Return
      <3> QED BY <1>0, <1>w, <1>4, <3>1, Worked DEF Goto
    <2>6. ASSUME NEW w \in Writers, AppendFails(w) PROVE Working'
      <3>1. PICK from \in {"open", "head", "tail", "newline"} :
              Goto(w, from, "idle") /\ UNCHANGED <<format, made, count>>
        BY <2>6 DEF AppendFails, Return
      <3> QED BY <1>0, <1>w, <1>4, <3>1, Worked DEF Goto
    <2> QED BY <1>0, <1>2, <1>3, <1>4, <2>1, <2>2, <2>3, <2>4, <2>5, <2>6, JsonlSteps
  <1>5. CASE Next /\ format = "prometheus"
    <2>1. ASSUME NEW w \in Writers, Prometheus(w) PROVE Working'
      <3>1. Begin(w, "create") /\ UNCHANGED <<format, made>>
        BY <2>1 DEF Prometheus
      <3> QED BY <1>0, <1>m, <1>5, <3>1, Started DEF Begin
    <2>2. ASSUME NEW w \in Writers, CreateTemp(w) PROVE Working'
      <3>1. Goto(w, "create", "write") /\ UNCHANGED <<format, made, count>>
        BY <2>2 DEF CreateTemp
      <3> QED BY <1>0, <1>w, <1>5, <3>1, Worked DEF Goto, Named, Holding, Filling
    <2>3. ASSUME NEW w \in Writers, CreateFails(w) PROVE Working'
      <3>1. Goto(w, "create", "idle") /\ UNCHANGED <<format, made, count>>
        BY <2>3 DEF CreateFails, Return
      <3> QED BY <1>0, <1>w, <1>5, <3>1, Worked DEF Goto
    <2>4. ASSUME NEW w \in Writers, WriteTemp(w) PROVE Working'
      <3>1. /\ Goto(w, "write", "more") \/ Goto(w, "more", "rename")
            /\ UNCHANGED <<format, made, count>>
        BY <2>4 DEF WriteTemp
      <3>2. file' # 0
        BY <1>w, <3>1 DEF Goto
      <3>3. CASE Goto(w, "write", "more")
        BY <1>0, <1>5, <3>1, <3>2, <3>3, Worked DEF Named, Holding, Filling
      <3>4. CASE Goto(w, "more", "rename")
        BY <1>0, <1>5, <3>1, <3>2, <3>4, Worked DEF Named, Holding, Filling
      <3> QED BY <3>1, <3>3, <3>4
    <2>5. ASSUME NEW w \in Writers, RenameTemp(w) PROVE Working'
      <3>1. Goto(w, "rename", "idle") /\ UNCHANGED <<format, made, count>>
        BY <2>5 DEF RenameTemp, Return
      <3> QED BY <1>0, <1>w, <1>5, <3>1, Worked DEF Goto
    <2>6. ASSUME NEW w \in Writers, WriteFails(w) PROVE Working'
      <3>1. PICK from \in {"write", "more", "rename"} :
              Goto(w, from, "remove") /\ UNCHANGED <<format, made, count>>
        BY <2>6 DEF WriteFails
      <3> QED BY <1>0, <1>w, <1>5, <3>1, Worked DEF Goto, Named, Holding
    <2>7. ASSUME NEW w \in Writers, RemoveTemp(w) PROVE Working'
      <3>1. Goto(w, "remove", "idle") /\ UNCHANGED <<format, made, count>>
        BY <2>7 DEF RemoveTemp
      <3> QED BY <1>0, <1>w, <1>5, <3>1, Worked DEF Goto
    <2> QED BY <1>0, <1>2, <1>3, <1>5, <2>1, <2>2, <2>3, <2>4, <2>5, <2>6, <2>7,
               PrometheusSteps
  <1> QED BY <1>0, <1>1, <1>4, <1>5 DEF Types
-----------------------------------------------------------------------------
(* The names of temporary files. *)

LEMMA NamesKept ==
  ASSUME NamesInv, UNCHANGED <<process, counter, number>>,
         \A v \in Writers : pc'[v] \in Named => pc[v] \in Named
  PROVE  NamesInv'
  BY DEF NamesInv

(* A step other than the start of an atomic_write gives no writer a name.  *)
LEMMA NoName ==
  ASSUME Types, NEW w \in Writers, NEW from, NEW to, Goto(w, from, to),
         to \in {"idle", "lock"} \cup Locked \/ (from \in Named /\ to \in Named)
  PROVE  \A v \in Writers : pc'[v] \in Named => pc[v] \in Named
  <1>1. to \in {"idle", "lock"} \cup Locked \cup Named
    OBVIOUS
  <1>2. pc[w] = from /\ pc'[w] = to /\ \A v \in Writers : v # w => pc'[v] = pc[v]
    BY <1>1, Went
  <1>3. to \in {"idle", "lock"} \cup Locked => to \notin Named
    BY DEF Locked, Named, Holding, Filling
  <1> QED BY <1>2, <1>3

LEMMA NamesStep == IInv /\ [Next]_vars => NamesInv'
  <1> SUFFICES ASSUME IInv, [Next]_vars PROVE NamesInv'
    OBVIOUS
  <1> USE DEF config, disk, local, history
  <1>0. Types /\ Working /\ NamesInv
    BY DEF IInv
  <1>1. CASE UNCHANGED vars
    BY <1>0, <1>1 DEF vars, NamesInv
  <1>2. ASSUME NEW w \in Writers, NewSink(w) PROVE NamesInv'
    BY <1>0, <1>2 DEF NewSink, NamesInv
  <1>3. ASSUME NEW w \in Writers, Prometheus(w) PROVE NamesInv'
    <2> DEFINE p == process[w]
    <2>1. /\ pc[w] = "idle" /\ pc'[w] = "create" /\ UNCHANGED process
          /\ \A v \in Writers : v # w => pc'[v] = pc[v]
      BY <1>0, <1>3, Went DEF Prometheus, Begin, Named
    <2>2. /\ p \in Writers /\ counter[p] \in Nat /\ counter'[p] = counter[p] + 1
          /\ \A q \in Writers : q # p => counter'[q] = counter[q]
      BY <1>0, <1>3 DEF Prometheus, CountUp, Types
    <2>3. /\ number'[w] = counter[p]
          /\ \A v \in Writers : v # w => number'[v] = number[v]
      BY <1>0, <1>3 DEF Prometheus, Types
    <2>4. ASSUME NEW v \in Writers, pc'[v] \in Named
          PROVE  number'[v] < counter'[process[v]]
      <3>1. CASE v = w
        BY <2>2, <2>3, <3>1
      <3>2. CASE v # w
        <4>1. number[v] < counter[process[v]] /\ process[v] \in Writers
          BY <1>0, <2>1, <2>4, <3>2 DEF NamesInv, Types
        <4>2. number[v] \in Nat /\ counter[process[v]] \in Nat
          BY <1>0, <4>1 DEF Types
        <4> QED BY <2>2, <2>3, <3>2, <4>1, <4>2
      <3> QED BY <3>1, <3>2
    <2>5. ASSUME NEW v \in Writers, v # w, pc'[v] \in Named, process[v] = p
          PROVE  number'[v] # number'[w]
      <3>1. number[v] < counter[p] /\ number[v] \in Nat
        BY <1>0, <2>1, <2>5 DEF NamesInv, Types
      <3> QED BY <2>2, <2>3, <2>5, <3>1
    <2>6. ASSUME NEW u \in Writers, NEW v \in Writers, pc'[u] \in Named, pc'[v] \in Named,
                 process[u] = process[v], number'[u] = number'[v]
          PROVE  u = v
      <3>1. CASE u = w
        BY <2>5, <2>6, <3>1
      <3>2. CASE v = w
        BY <2>5, <2>6, <3>2
      <3>3. CASE u # w /\ v # w
        BY <1>0, <2>1, <2>3, <2>6, <3>3 DEF NamesInv
      <3> QED BY <3>1, <3>2, <3>3
    <2> QED BY <2>1, <2>4, <2>6 DEF NamesInv
  <1>4. ASSUME NEW p \in Range(process), Crash(p) PROVE NamesInv'
    <2>1. p \in Writers /\ UNCHANGED <<process, number>>
      BY <1>0, <1>4 DEF Crash, Types, Range
    <2>2. /\ \A v \in Writers : process[v] = p => pc'[v] = "idle"
          /\ \A v \in Writers : process[v] # p => pc'[v] = pc[v]
          /\ \A q \in Writers : q # p => counter'[q] = counter[q]
      BY <1>0, <1>4 DEF Crash, Types
    <2>3. \A v \in Writers : pc'[v] \in Named => process[v] # p /\ pc[v] \in Named
      BY <2>2 DEF Named, Holding, Filling
    <2>4. \A v \in Writers : process[v] \in Writers
      BY <1>0 DEF Types
    <2> QED BY <1>0, <2>1, <2>2, <2>3, <2>4 DEF NamesInv
  <1>5. CASE Next /\ format = "jsonl"
    <2>1. ASSUME NEW v \in Writers PROVE pc[v] \notin Named
      BY <1>0, <1>5 DEF Working, Locked, Named, Holding, Filling
    <2>2. ASSUME NEW v \in Writers PROVE pc'[v] \notin Named
      <3>1. Working' /\ UNCHANGED format
        <4>1. format' = format
          BY <1>0, <1>5, JsonlSteps DEF NewSink, Jsonl, LockSink, OpenAppend, WriteRecord,
             WriteNewline, AppendFails, Return, Crash
        <4> QED BY <4>1, WorkingStep
      <3> QED BY <1>5, <3>1 DEF Working, Locked, Named, Holding, Filling
    <2> QED BY <2>2 DEF NamesInv
  <1>6. CASE Next /\ format = "prometheus"
    <2>1. ASSUME NEW w \in Writers, CreateTemp(w) PROVE NamesInv'
      BY <1>0, <2>1, NoName, NamesKept DEF CreateTemp, Named, Holding, Filling
    <2>2. ASSUME NEW w \in Writers, CreateFails(w) PROVE NamesInv'
      BY <1>0, <2>2, NoName, NamesKept DEF CreateFails, Return
    <2>3. ASSUME NEW w \in Writers, WriteTemp(w) PROVE NamesInv'
      <3>1. /\ Goto(w, "write", "more") \/ Goto(w, "more", "rename")
            /\ UNCHANGED <<process, counter, number>>
        BY <2>3 DEF WriteTemp
      <3> QED BY <1>0, <3>1, NoName, NamesKept DEF Named, Holding, Filling
    <2>4. ASSUME NEW w \in Writers, RenameTemp(w) PROVE NamesInv'
      BY <1>0, <2>4, NoName, NamesKept DEF RenameTemp, Return
    <2>5. ASSUME NEW w \in Writers, WriteFails(w) PROVE NamesInv'
      <3>1. PICK from \in {"write", "more", "rename"} :
              Goto(w, from, "remove") /\ UNCHANGED <<process, counter, number>>
        BY <2>5 DEF WriteFails
      <3> QED BY <1>0, <3>1, NoName, NamesKept DEF Named, Holding, Filling
    <2>6. ASSUME NEW w \in Writers, RemoveTemp(w) PROVE NamesInv'
      BY <1>0, <2>6, NoName, NamesKept DEF RemoveTemp
    <2> QED BY <1>0, <1>2, <1>3, <1>4, <1>6, <2>1, <2>2, <2>3, <2>4, <2>5, <2>6,
               PrometheusSteps
  <1> QED BY <1>0, <1>1, <1>5, <1>6 DEF Types

-----------------------------------------------------------------------------
(* The temporary files. *)

LEMMA OwnsKept ==
  ASSUME NEW v \in Writers, NEW t, Owns(v, t), pc'[v] \in Holding,
         UNCHANGED <<process, number>>, opened'[v] = opened[v]
  PROVE  Owns(v, t)'
  BY DEF Owns

(* Who owns a file with the name of a writer is that writer.               *)
LEMMA OwnName ==
  ASSUME NamesInv, NEW w \in Writers, pc[w] \in Named, NEW v \in Writers, NEW t \in Temp(w),
         Owns(v, t)
  PROVE  v = w
  BY DEF NamesInv, Owns, Temp, Named

(* What TempsInv asks of a step. *)
LEMMA TempsKept ==
  ASSUME TempsInv, ~left' => ~left, UNCHANGED <<process, number>>,
         \A t \in temps' : ~left' =>
           /\ t \in temps
           /\ \A v \in Writers :
                Owns(v, t) => pc'[v] \in Holding /\ opened'[v] = opened[v]
  PROVE  TempsInv'
  BY OwnsKept DEF TempsInv

LEMMA TempsStep == IInv /\ [Next]_vars => TempsInv'
  <1> SUFFICES ASSUME IInv, [Next]_vars PROVE TempsInv'
    OBVIOUS
  <1> USE DEF config, disk, local, history
  <1>0. Types /\ Working /\ NamesInv /\ TempsInv
    BY DEF IInv
  <1>1. CASE UNCHANGED vars
    BY <1>0, <1>1 DEF vars, TempsInv, Owns
  <1>2. ASSUME NEW w \in Writers, NewSink(w) PROVE TempsInv'
    BY <1>0, <1>2 DEF NewSink, TempsInv, Owns
  <1>3. ASSUME NEW p \in Range(process), Crash(p) PROVE TempsInv'
    <2>1. UNCHANGED <<process, number, opened, temps>>
      BY <1>3 DEF Crash
    <2>2. /\ \A v \in Writers : process[v] # p => pc'[v] = pc[v]
          /\ left' = (left \/ \E v \in {u \in Writers : process[u] = p} : Temp(v) # {})
      BY <1>0, <1>3 DEF Crash, Types
    <2>3. ASSUME NEW t \in temps, ~left', NEW v \in Writers, Owns(v, t)
          PROVE  pc'[v] \in Holding
      <3>1. t \in Temp(v)
        BY <2>3 DEF Owns, Temp
      <3>2. process[v] # p
        BY <2>2, <2>3, <3>1
      <3> QED BY <2>2, <2>3, <3>2 DEF Owns
    <2> QED BY <1>0, <2>1, <2>2, <2>3, TempsKept
  <1>4. CASE Next /\ format = "jsonl"
    <2>1. \A v \in Writers : \A t : ~Owns(v, t)
      BY <1>0, <1>4 DEF Working, Owns, Locked, Holding, Filling
    <2>2. ~left => temps = {}
      BY <1>0, <2>1 DEF TempsInv
    <2>3. temps' = temps
      BY <1>0, <1>4, JsonlSteps DEF NewSink, Jsonl, LockSink, OpenAppend, WriteRecord,
         WriteNewline, AppendFails, AppendPiece, Return, Crash
    <2>4. ASSUME left PROVE left'
      <3>1. ASSUME NEW p \in Range(process), Crash(p) PROVE left'
        BY <2>4, <3>1 DEF Crash
      <3>2. ASSUME NEW w \in Writers,
                   NewSink(w) \/ Jsonl(w) \/ LockSink(w) \/ OpenAppend(w) \/ WriteRecord(w)
            PROVE  left'
        BY <2>4, <3>2 DEF NewSink, Jsonl, LockSink, OpenAppend, WriteRecord
      <3>3. ASSUME NEW w \in Writers, WriteNewline(w) \/ AppendFails(w) PROVE left'
        BY <2>4, <3>3 DEF WriteNewline, AppendFails, Return
      <3> QED BY <1>0, <1>4, <3>1, <3>2, <3>3, JsonlSteps
    <2> QED BY <2>2, <2>3, <2>4 DEF TempsInv
  <1>5. CASE Next /\ format = "prometheus"
    <2>1. ASSUME NEW w \in Writers, Prometheus(w) PROVE TempsInv'
      <3>1. /\ pc[w] = "idle" /\ UNCHANGED <<process, opened, temps, left>>
            /\ \A v \in Writers : v # w => pc'[v] = pc[v]
        BY <1>0, <2>1, Went DEF Prometheus, Begin, Named
      <3>2. \A v \in Writers : v # w => number'[v] = number[v]
        BY <1>0, <2>1 DEF Prometheus, Types
      <3>3. ASSUME NEW v \in Writers, NEW t, Owns(v, t) PROVE Owns(v, t)'
        <4>1. v # w
          BY <3>1, <3>3 DEF Owns, Holding, Filling
        <4> QED BY <3>1, <3>2, <3>3, <4>1 DEF Owns
      <3> QED BY <1>0, <3>1, <3>3 DEF TempsInv
    <2>2. ASSUME NEW w \in Writers, CreateTemp(w) PROVE TempsInv'
      <3>0. PICK new : new = [process |-> process[w], number |-> number[w],
                              inode |-> Len(data) + 1]
        OBVIOUS
      <3>1. /\ opened'[w] = Len(data) + 1 /\ temps' = temps \cup {new}
            /\ \A v \in Writers : v # w => opened'[v] = opened[v]
        BY <1>0, <2>2, <3>0, Created
      <3>2. /\ pc[w] = "create" /\ pc'[w] = "write" /\ UNCHANGED <<process, number, left>>
            /\ \A v \in Writers : v # w => pc'[v] = pc[v]
        BY <1>0, <2>2, Went DEF CreateTemp, Named, Holding, Filling
      <3>3. Owns(w, new)'
        BY <3>0, <3>1, <3>2 DEF Owns, Holding, Filling
      <3>4. ASSUME NEW v \in Writers, NEW t, Owns(v, t) PROVE Owns(v, t)'
        <4>1. v # w
          BY <3>2, <3>4 DEF Owns, Holding, Filling
        <4> QED BY <3>1, <3>2, <3>4, <4>1 DEF Owns
      <3> QED BY <1>0, <3>1, <3>2, <3>3, <3>4 DEF TempsInv
    <2>3. ASSUME NEW w \in Writers, CreateFails(w) PROVE TempsInv'
      <3>1. /\ pc[w] = "create" /\ UNCHANGED <<process, number, opened, temps, left>>
            /\ \A v \in Writers : v # w => pc'[v] = pc[v]
        BY <1>0, <2>3, Went DEF CreateFails, Return
      <3>2. \A v \in Writers : \A t : Owns(v, t) => pc'[v] \in Holding
        BY <3>1 DEF Owns, Holding, Filling
      <3> QED BY <1>0, <3>1, <3>2, TempsKept
    <2>4. ASSUME NEW w \in Writers, WriteTemp(w) PROVE TempsInv'
      <3>1. /\ Goto(w, "write", "more") \/ Goto(w, "more", "rename")
            /\ UNCHANGED <<process, number, opened, temps, left>>
        BY <2>4 DEF WriteTemp, AppendPiece
      <3>2. pc'[w] \in Holding /\ \A v \in Writers : v # w => pc'[v] = pc[v]
        BY <1>0, <3>1, Went DEF Named, Holding, Filling
      <3>3. \A v \in Writers : \A t : Owns(v, t) => pc'[v] \in Holding
        BY <3>2 DEF Owns
      <3> QED BY <1>0, <3>1, <3>3, TempsKept
    <2>5. ASSUME NEW w \in Writers, WriteFails(w) PROVE TempsInv'
      <3>1. PICK from \in {"write", "more", "rename"} :
              Goto(w, from, "remove") /\ UNCHANGED <<process, number, opened, temps, left>>
        BY <2>5 DEF WriteFails
      <3>2. pc'[w] \in Holding /\ \A v \in Writers : v # w => pc'[v] = pc[v]
        BY <1>0, <3>1, Went DEF Named, Holding, Filling
      <3>3. \A v \in Writers : \A t : Owns(v, t) => pc'[v] \in Holding
        BY <3>2 DEF Owns
      <3> QED BY <1>0, <3>1, <3>3, TempsKept
    <2>6. ASSUME NEW w \in Writers, NEW from \in {"rename", "remove"}, Goto(w, from, "idle"),
                 temps' = temps \ Temp(w), UNCHANGED <<process, number, opened, left>>
          PROVE  TempsInv'
      <3>1. pc[w] \in Named /\ \A v \in Writers : v # w => pc'[v] = pc[v]
        BY <1>0, <2>6, Went DEF Named, Holding, Filling
      <3>2. ASSUME NEW t \in temps', NEW v \in Writers, Owns(v, t)
            PROVE  pc'[v] \in Holding
        <4>1. v # w
          BY <2>6, <3>2 DEF Owns, Temp
        <4> QED BY <3>1, <3>2, <4>1 DEF Owns
      <3> QED BY <1>0, <2>6, <3>2, TempsKept
    <2>7. ASSUME NEW w \in Writers, RenameTemp(w) PROVE TempsInv'
      BY <2>6, <2>7 DEF RenameTemp, Return
    <2>8. ASSUME NEW w \in Writers, RemoveTemp(w) PROVE TempsInv'
      <3>1. CASE left' = TRUE
        BY <3>1 DEF TempsInv
      <3>2. CASE temps' = temps \ Temp(w) /\ UNCHANGED left
        BY <2>6, <2>8, <3>2 DEF RemoveTemp
      <3> QED BY <2>8, <3>1, <3>2 DEF RemoveTemp
    <2> QED BY <1>0, <1>2, <1>3, <1>5, <2>1, <2>2, <2>3, <2>4, <2>5, <2>7, <2>8,
               PrometheusSteps
  <1> QED BY <1>0, <1>1, <1>4, <1>5 DEF Types
-----------------------------------------------------------------------------
(* The inodes that are being filled. *)

LEMMA FilledKept ==
  ASSUME NEW v \in Writers, Filled(v), pc'[v] = pc[v], opened'[v] = opened[v],
         count'[v] = count[v], file' # opened[v], data'[opened[v]] = data[opened[v]]
  PROVE  Filled(v)'
  BY DEF Filled, Piece

(* What FillInv asks of a step, when no writer starts to fill.             *)
LEMMA FillKept ==
  ASSUME Types, FillInv, UNCHANGED <<format, opened>>, format = "prometheus",
         \A v \in Writers : pc'[v] \in Filling => pc[v] \in Filling /\ Filled(v)'
  PROVE  FillInv'
  <1>1. \A v \in Writers : opened'[v] = opened[v]
    OBVIOUS
  <1> QED BY <1>1 DEF FillInv, Filled

LEMMA FillStep == IInv /\ [Next]_vars => FillInv'
  <1> SUFFICES ASSUME IInv, [Next]_vars PROVE FillInv'
    OBVIOUS
  <1> USE DEF config, disk, local, history
  <1>0. Types /\ Working /\ FillInv
    BY DEF IInv
  <1>f. ASSUME format = "prometheus", NEW v \in Writers, pc[v] \in Filling
        PROVE  Filled(v) /\ opened[v] \in 1..Len(data) /\ opened[v] # file /\ file # 0
    BY <1>0, <1>f DEF FillInv, Filled, Working, Types, Filling
  <1>1. CASE UNCHANGED vars
    BY <1>0, <1>1 DEF vars, FillInv, Filled, Piece
  <1>2. CASE Next /\ format = "jsonl"
    <2>1. UNCHANGED format
      BY <1>0, <1>2, JsonlSteps DEF NewSink, Jsonl, LockSink, OpenAppend, WriteRecord,
         WriteNewline, AppendFails, Return, Crash
    <2> QED BY <1>2, <2>1 DEF FillInv
  <1>3. CASE Next /\ format = "prometheus"
    <2>1. ASSUME NEW s \in Writers, NewSink(s) PROVE FillInv'
      <3>1. UNCHANGED <<format, pc, count, opened>>
        BY <2>1 DEF NewSink
      <3>2. ASSUME NEW v \in Writers, pc[v] \in Filling PROVE Filled(v)'
        <4>1. file # 0
          BY <1>3, <1>f, <3>2
        <4>2. data' = [data EXCEPT ![file] = <<>>] /\ file' = file
          BY <2>1, <4>1 DEF NewSink
        <4>3. data'[opened[v]] = data[opened[v]]
          BY <1>0, <1>3, <1>f, <3>2, <4>1, <4>2, Emptied
        <4> QED BY <1>3, <1>f, <3>1, <3>2, <4>2, <4>3, FilledKept
      <3> QED BY <1>0, <1>3, <3>1, <3>2, FillKept
    <2>2. ASSUME NEW w \in Writers, Prometheus(w) PROVE FillInv'
      <3>1. /\ pc'[w] = "create" /\ UNCHANGED <<format, opened, data, file>>
            /\ \A v \in Writers : v # w => pc'[v] = pc[v]
        BY <1>0, <2>2, Went DEF Prometheus, Begin, Named
      <3>2. \A v \in Writers : v # w => count'[v] = count[v]
        BY <1>0, <2>2 DEF Prometheus, Begin, Types
      <3>3. ASSUME NEW v \in Writers, pc'[v] \in Filling
            PROVE  pc[v] \in Filling /\ Filled(v)'
        <4>1. v # w
          BY <3>1, <3>3 DEF Filling
        <4> QED BY <1>3, <1>f, <3>1, <3>2, <3>3, <4>1, FilledKept
      <3> QED BY <1>0, <1>3, <3>1, <3>3, FillKept
    <2>3. ASSUME NEW w \in Writers, CreateTemp(w) PROVE FillInv'
      <3>1. /\ pc[w] = "create" /\ pc'[w] = "write" /\ UNCHANGED <<format, file, count>>
            /\ \A v \in Writers : v # w => pc'[v] = pc[v]
        BY <1>0, <2>3, Went DEF CreateTemp, Named, Holding, Filling
      <3>2. /\ opened'[w] = Len(data) + 1 /\ Len(data) \in Nat
            /\ \A v \in Writers : v # w => opened'[v] = opened[v]
            /\ data'[Len(data) + 1] = <<>>
            /\ \A i \in 1..Len(data) : data'[i] = data[i]
        BY <1>0, <2>3, Created, Grown
      <3>3. Filled(w)'
        <4>1. file \in 0..Len(data)
          BY <1>0 DEF Types
        <4> QED BY <3>1, <3>2, <4>1 DEF Filled
      <3>4. ASSUME NEW v \in Writers, v # w, pc'[v] \in Filling
            PROVE  pc[v] \in Filling /\ Filled(v)' /\ opened'[v] # opened'[w]
        <4>1. pc[v] \in Filling /\ opened[v] \in 1..Len(data) /\ opened'[v] = opened[v]
          BY <1>3, <1>f, <3>1, <3>2, <3>4
        <4>2. Filled(v)'
          BY <1>3, <1>f, <3>1, <3>2, <3>4, <4>1, FilledKept
        <4> QED BY <3>2, <4>1, <4>2
      <3>5. ASSUME NEW u \in Writers, NEW v \in Writers, pc'[u] \in Filling, pc'[v] \in Filling,
                   opened'[u] = opened'[v]
            PROVE  u = v
        <4>1. CASE u = w \/ v = w
          BY <3>4, <3>5, <4>1
        <4>2. CASE u # w /\ v # w
          BY <1>0, <1>3, <3>2, <3>4, <3>5, <4>2 DEF FillInv
        <4> QED BY <4>1, <4>2
      <3>6. \A v \in Writers : pc'[v] \in Filling => Filled(v)'
        BY <3>3, <3>4
      <3> QED BY <3>5, <3>6 DEF FillInv, Filled
    <2>4. ASSUME NEW w \in Writers, NEW from, NEW to, Goto(w, from, to),
                 to \in {"idle", "remove"}, UNCHANGED <<format, data, count, opened>>,
                 \A v \in Writers : v # w /\ pc[v] \in Filling => file' # opened[v]
          PROVE  FillInv'
      <3>1. pc'[w] \notin Filling /\ \A v \in Writers : v # w => pc'[v] = pc[v]
        BY <1>0, <2>4, Went DEF Named, Holding, Filling
      <3>2. ASSUME NEW v \in Writers, pc'[v] \in Filling
            PROVE  pc[v] \in Filling /\ Filled(v)'
        <4>1. v # w
          BY <3>1, <3>2
        <4> QED BY <1>3, <1>f, <2>4, <3>1, <3>2, <4>1, FilledKept
      <3> QED BY <1>0, <1>3, <2>4, <3>2, FillKept
    <2>5. ASSUME NEW w \in Writers, CreateFails(w) PROVE FillInv'
      BY <1>3, <1>f, <2>4, <2>5 DEF CreateFails, Return
    <2>6. ASSUME NEW w \in Writers, WriteTemp(w) PROVE FillInv'
      <3>1. PICK part \in {"head", "tail"} :
              /\ part = "head" => Goto(w, "write", "more")
              /\ part = "tail" => Goto(w, "more", "rename")
              /\ AppendPiece(w, part)
        BY <2>6 DEF WriteTemp
      <3>2. UNCHANGED <<format, count, opened>>
        BY <2>6 DEF WriteTemp
      <3>3. /\ pc[w] \in Filling
            /\ \A v \in Writers : v # w => pc'[v] = pc[v]
            /\ part = "head" => pc[w] = "write" /\ pc'[w] = "more"
            /\ part = "tail" => pc[w] = "more" /\ pc'[w] = "rename"
        BY <1>0, <3>1, Went DEF Named, Holding, Filling, Goto
      <3>4. /\ data'[opened[w]] = Append(data[opened[w]], Piece(w, part)) /\ file' = file
            /\ \A i \in 1..Len(data) : i # opened[w] => data'[i] = data[i]
        BY <1>0, <3>1, <3>3, HasOpen, Appended DEF IInv
      <3>5. Filled(w)'
        <4>1. Filled(w)
          BY <1>3, <1>f, <3>3
        <4>2. CASE part = "head"
          <5>0. data[opened[w]] = <<>>
            BY <3>3, <4>1, <4>2 DEF Filled
          <5>p. Append(<<>>, Piece(w, "head")) = <<Piece(w, "head")>>
            OBVIOUS
          <5>1. data'[opened[w]] = <<Piece(w, "head")>>
            BY <3>4, <4>2, <5>0, <5>p
          <5> QED BY <3>2, <3>3, <3>4, <4>1, <4>2, <5>1 DEF Filled, Piece
        <4>3. CASE part = "tail"
          <5>0. data[opened[w]] = <<Piece(w, "head")>>
            BY <3>3, <4>1, <4>3 DEF Filled
          <5>p. Append(<<Piece(w, "head")>>, Piece(w, "tail"))
                = <<Piece(w, "head"), Piece(w, "tail")>>
            BY TwoPieces
          <5>1. data'[opened[w]] = <<Piece(w, "head"), Piece(w, "tail")>>
            BY <3>4, <4>3, <5>0, <5>p
          <5> QED BY <3>2, <3>3, <3>4, <4>1, <4>3, <5>1 DEF Filled, Piece
        <4> QED BY <4>2, <4>3
      <3>6. ASSUME NEW v \in Writers, v # w, pc'[v] \in Filling
            PROVE  pc[v] \in Filling /\ Filled(v)'
        <4>1. pc[v] \in Filling /\ opened[v] \in 1..Len(data) /\ opened[v] # file /\ Filled(v)
          BY <1>3, <1>f, <3>3, <3>6
        <4>2. opened[v] # opened[w]
          BY <1>0, <1>3, <3>3, <3>6, <4>1 DEF FillInv
        <4> QED BY <3>2, <3>3, <3>4, <3>6, <4>1, <4>2, FilledKept
      <3> QED BY <1>0, <1>3, <3>2, <3>3, <3>5, <3>6, FillKept
    <2>7. ASSUME NEW w \in Writers, RenameTemp(w) PROVE FillInv'
      <3>1. /\ Goto(w, "rename", "idle") /\ file' = opened[w]
            /\ UNCHANGED <<format, data, count, opened>>
        BY <2>7 DEF RenameTemp, Return
      <3>2. \A v \in Writers : v # w /\ pc[v] \in Filling => file' # opened[v]
        BY <1>0, <1>3, <3>1 DEF FillInv, Filling, Goto
      <3> QED BY <2>4, <3>1, <3>2
    <2>8. ASSUME NEW w \in Writers, WriteFails(w) PROVE FillInv'
      <3>1. PICK from \in {"write", "more", "rename"} : Goto(w, from, "remove")
        BY <2>8 DEF WriteFails
      <3>2. UNCHANGED <<format, data, file, count, opened>>
        BY <2>8 DEF WriteFails
      <3> QED BY <1>3, <1>f, <2>4, <3>1, <3>2
    <2>9. ASSUME NEW w \in Writers, RemoveTemp(w) PROVE FillInv'
      <3>1. Goto(w, "remove", "idle") /\ UNCHANGED <<format, data, file, count, opened>>
        BY <2>9 DEF RemoveTemp
      <3> QED BY <1>3, <1>f, <2>4, <3>1
    <2>10. ASSUME NEW p \in Range(process), Crash(p) PROVE FillInv'
      <3>1. UNCHANGED <<format, data, file, count, opened>>
        BY <2>10 DEF Crash
      <3>2. \A v \in Writers : pc'[v] \in Filling => pc'[v] = pc[v]
        BY <1>0, <2>10 DEF Crash, Types, Filling
      <3> QED BY <1>0, <1>3, <1>f, <3>1, <3>2, FillKept, FilledKept
    <2> QED BY <1>0, <1>3, <2>1, <2>2, <2>3, <2>5, <2>6, <2>7, <2>8, <2>9, <2>10,
               PrometheusSteps
  <1> QED BY <1>0, <1>1, <1>2, <1>3 DEF Types
-----------------------------------------------------------------------------
(* Writes that have ended. *)

(* A writer's write goes on, or it begins the next one.                    *)
LEMMA CountsOn ==
  ASSUME IInv, [Next]_vars, NEW v \in Writers
  PROVE  \/ count'[v] = count[v] /\ (pc[v] = "idle" => pc'[v] = "idle")
         \/ count'[v] = count[v] + 1
  <1> USE DEF config, disk, local, history
  <1>0. Types
    BY DEF IInv
  <1>1. CASE UNCHANGED vars
    BY <1>1 DEF vars
  <1>2. ASSUME NEW w \in Writers, NewSink(w)
        PROVE  count'[v] = count[v] /\ pc'[v] = pc[v]
    BY <1>2 DEF NewSink
  <1>3. ASSUME NEW p \in Range(process), Crash(p)
        PROVE  count'[v] = count[v] /\ (pc[v] = "idle" => pc'[v] = "idle")
    BY <1>0, <1>3 DEF Crash, Types
  <1>4. ASSUME NEW w \in Writers, NEW to, Begin(w, to)
        PROVE  \/ count'[v] = count[v] /\ pc'[v] = pc[v]
               \/ count'[v] = count[v] + 1
    BY <1>0, <1>4 DEF Begin, Goto, Types
  <1>5. ASSUME NEW w \in Writers, NEW from, NEW to, Goto(w, from, to), from # "idle",
               UNCHANGED count
        PROVE  count'[v] = count[v] /\ (pc[v] = "idle" => pc'[v] = "idle")
    BY <1>0, <1>5 DEF Goto, Types
  <1>6. ASSUME NEW w \in Writers, Jsonl(w) \/ Prometheus(w)
        PROVE  \E to : Begin(w, to)
    BY <1>6 DEF Jsonl, Prometheus
  <1>7. ASSUME NEW w \in Writers, Step(w), ~Jsonl(w), ~Prometheus(w)
        PROVE  (\E from, to : Goto(w, from, to) /\ from # "idle") /\ UNCHANGED count
    <2>1. CASE LockSink(w) \/ OpenAppend(w) \/ WriteRecord(w)
      BY <2>1 DEF LockSink, OpenAppend, WriteRecord
    <2>2. CASE WriteNewline(w) \/ AppendFails(w)
      BY <2>2 DEF WriteNewline, AppendFails, Return
    <2>3. CASE CreateTemp(w) \/ CreateFails(w) \/ WriteTemp(w)
      BY <2>3 DEF CreateTemp, CreateFails, WriteTemp, Return
    <2>4. CASE RenameTemp(w) \/ WriteFails(w) \/ RemoveTemp(w)
      BY <2>4 DEF RenameTemp, WriteFails, RemoveTemp, Return
    <2> QED BY <1>7, <2>1, <2>2, <2>3, <2>4 DEF Step
  <1>8. ASSUME NEW w \in Writers, Step(w)
        PROVE  \/ count'[v] = count[v] /\ (pc[v] = "idle" => pc'[v] = "idle")
               \/ count'[v] = count[v] + 1
    <2>1. CASE Jsonl(w) \/ Prometheus(w)
      BY <1>4, <1>6, <2>1
    <2>2. CASE ~Jsonl(w) /\ ~Prometheus(w)
      BY <1>5, <1>7, <1>8, <2>2
    <2> QED BY <2>1, <2>2
  <1> QED BY <1>1, <1>2, <1>3, <1>8 DEF Next

LEMMA EndedStays ==
  ASSUME IInv, [Next]_vars, NEW e \in Writes, Ended(e)
  PROVE  Ended(e)'
  <1>1. e[1] \in Writers /\ e[2] \in 1..MaxWrites
    BY DEF Writes
  <1>2. e[2] \in Nat /\ count[e[1]] \in Nat
    BY <1>1, BoundsAssumption DEF IInv, Types
  <1>3. \/ count'[e[1]] = count[e[1]] /\ (pc[e[1]] = "idle" => pc'[e[1]] = "idle")
        \/ count'[e[1]] = count[e[1]] + 1
    BY <1>1, CountsOn
  <1> QED BY <1>2, <1>3 DEF Ended

LEMMA OlderStep == IInv /\ [Next]_vars => OlderInv'
  <1> SUFFICES ASSUME IInv, [Next]_vars PROVE OlderInv'
    OBVIOUS
  <1> USE DEF config, disk, local, history
  <1>0. Types /\ OlderInv /\ Types'
    BY TypesStep DEF IInv
  <1>1. /\ older.over \subseteq Writes
        /\ \A w \in Writers : older.before[w] \subseteq Writes
    BY <1>0 DEF Types
  <1>2. /\ \A e \in older.over : Ended(e)'
        /\ \A w \in Writers : \A e \in older.before[w] : Ended(e)'
    BY <1>0, <1>1, EndedStays DEF OlderInv
  <1>3. CASE UNCHANGED older
    BY <1>2, <1>3 DEF OlderInv
  <1>4. ASSUME NEW w \in Writers, Prometheus(w) PROVE OlderInv'
    <2>1. /\ older'.over = older.over
          /\ older'.before[w] = {e \in Writes : Ended(e)}
          /\ \A v \in Writers : v # w => older'.before[v] = older.before[v]
      BY <1>0, <1>4 DEF Prometheus, Types
    <2>2. \A e \in older'.before[w] : Ended(e)'
      BY <2>1, EndedStays
    <2> QED BY <1>2, <2>1, <2>2 DEF OlderInv
  <1>5. ASSUME NEW w \in Writers, RenameTemp(w) PROVE OlderInv'
    <2>1. older'.over = older.over \cup older.before[w] /\ older'.before = older.before
      BY <1>0, <1>5 DEF RenameTemp, Types
    <2> QED BY <1>2, <2>1 DEF OlderInv
  <1>6. ASSUME NEW w \in Writers, Step(w), ~Prometheus(w), ~RenameTemp(w)
        PROVE  UNCHANGED older
    <2>1. CASE Jsonl(w) \/ LockSink(w) \/ OpenAppend(w) \/ WriteRecord(w)
      BY <2>1 DEF Jsonl, LockSink, OpenAppend, WriteRecord
    <2>2. CASE WriteNewline(w) \/ AppendFails(w)
      BY <2>2 DEF WriteNewline, AppendFails
    <2>3. CASE CreateTemp(w) \/ CreateFails(w) \/ WriteTemp(w)
      BY <2>3 DEF CreateTemp, CreateFails, WriteTemp
    <2>4. CASE WriteFails(w) \/ RemoveTemp(w)
      BY <2>4 DEF WriteFails, RemoveTemp
    <2> QED BY <1>6, <2>1, <2>2, <2>3, <2>4 DEF Step
  <1>7. ASSUME NEW w \in Writers, NewSink(w) PROVE UNCHANGED older
    BY <1>7 DEF NewSink
  <1>8. ASSUME NEW p \in Range(process), Crash(p) PROVE UNCHANGED older
    BY <1>8 DEF Crash
  <1>9. CASE UNCHANGED vars
    BY <1>3, <1>9 DEF vars
  <1> QED BY <1>3, <1>4, <1>5, <1>6, <1>7, <1>8, <1>9 DEF Next

-----------------------------------------------------------------------------
(* What is at the path. *)

LEMMA SnapshotKept ==
  ASSUME SnapshotCurrent, UNCHANGED format, file # 0 => file' = file /\ data'[file] = data[file],
         file = 0 => file' = 0, older'.over = older.over
  PROVE  SnapshotCurrent'
  BY DEF SnapshotCurrent

LEMMA SnapshotStep == IInv /\ [Next]_vars => SnapshotCurrent'
  <1> SUFFICES ASSUME IInv, [Next]_vars PROVE SnapshotCurrent'
    OBVIOUS
  <1> USE DEF config, disk, local, history
  <1>0. Types /\ Working /\ FillInv /\ OlderInv /\ SnapshotCurrent
    BY DEF IInv
  <1>r. file # 0 => file \in 1..Len(data)
    BY <1>0 DEF Types
  <1>1. CASE UNCHANGED vars
    BY <1>0, <1>1 DEF vars, SnapshotCurrent
  <1>2. CASE Next /\ format = "jsonl"
    <2>1. UNCHANGED format
      BY <1>0, <1>2, JsonlSteps DEF NewSink, Jsonl, LockSink, OpenAppend, WriteRecord,
         WriteNewline, AppendFails, Return, Crash
    <2> QED BY <1>2, <2>1 DEF SnapshotCurrent
  <1>3. CASE Next /\ format = "prometheus"
    <2>k. ASSUME UNCHANGED <<format, data, file, older>> PROVE SnapshotCurrent'
      BY <1>0, <2>k, SnapshotKept
    <2>1. ASSUME NEW s \in Writers, NewSink(s) PROVE SnapshotCurrent'
      <3>1. data'[file'] = <<>>
        <4>1. CASE file = 0
          BY <1>0, <2>1, <4>1, Grown DEF NewSink
        <4>2. CASE file # 0
          <5>1. data' = [data EXCEPT ![file] = <<>>] /\ file' = file
            BY <2>1, <4>2 DEF NewSink
          <5> QED BY <1>0, <4>2, <5>1, Emptied
        <4> QED BY <4>1, <4>2
      <3> QED BY <3>1 DEF SnapshotCurrent
    <2>2. ASSUME NEW w \in Writers, Prometheus(w) PROVE SnapshotCurrent'
      <3>1. UNCHANGED <<format, data, file>> /\ older'.over = older.over
        BY <1>0, <2>2 DEF Prometheus, Types
      <3> QED BY <1>0, <3>1, SnapshotKept
    <2>3. ASSUME NEW w \in Writers, CreateTemp(w) PROVE SnapshotCurrent'
      <3>1. UNCHANGED <<format, file, older>>
        BY <2>3 DEF CreateTemp
      <3>2. file # 0 => data'[file] = data[file]
        BY <1>0, <1>r, <2>3, Created, Grown
      <3> QED BY <1>0, <3>1, <3>2, SnapshotKept
    <2>4. ASSUME NEW w \in Writers, CreateFails(w) PROVE SnapshotCurrent'
      BY <2>4, <2>k DEF CreateFails, Return
    <2>5. ASSUME NEW w \in Writers, WriteTemp(w) PROVE SnapshotCurrent'
      <3>1. PICK part \in {"head", "tail"} : AppendPiece(w, part)
        BY <2>5 DEF WriteTemp
      <3>2. pc[w] \in Filling /\ UNCHANGED <<format, older>>
        BY <2>5 DEF WriteTemp, Goto, Filling
      <3>3. opened[w] # file
        BY <1>0, <1>3, <3>2 DEF FillInv, Filled
      <3>4. file' = file /\ (file # 0 => data'[file] = data[file])
        <4>1. opened[w] # 0 /\ count[w] # 0
          BY <3>2, HasOpen DEF IInv
        <4> QED BY <1>0, <1>r, <3>1, <3>3, <4>1, Appended
      <3> QED BY <1>0, <3>2, <3>4, SnapshotKept
    <2>6. ASSUME NEW w \in Writers, RenameTemp(w) PROVE SnapshotCurrent'
      <3>1. /\ pc[w] = "rename" /\ file' = opened[w] /\ UNCHANGED <<format, data, count>>
            /\ older'.over = older.over \cup older.before[w]
        BY <1>0, <2>6 DEF RenameTemp, Return, Goto, Types
      <3>2. data[opened[w]] = <<Piece(w, "head"), Piece(w, "tail")>>
        BY <1>0, <1>3, <3>1 DEF FillInv, Filled, Filling
      <3> DEFINE n == count[w]
      <3>3. n \in 1..MaxWrites
        BY <1>0, <3>1, BoundsAssumption DEF Working, Types
      <3>4. ~Ended(<<w, n>>)
        BY <3>1, <3>3, BoundsAssumption DEF Ended
      <3>5. <<w, n>> \notin older'.over
        BY <1>0, <3>1, <3>4 DEF OlderInv
      <3>6. data'[file'] = << [writer |-> w, write |-> n, part |-> "head"],
                              [writer |-> w, write |-> n, part |-> "tail"] >>
        BY <3>1, <3>2 DEF Piece
      <3> HIDE DEF n
      <3> QED BY <3>3, <3>5, <3>6 DEF SnapshotCurrent
    <2>7. ASSUME NEW w \in Writers, WriteFails(w) PROVE SnapshotCurrent'
      BY <2>7, <2>k DEF WriteFails
    <2>8. ASSUME NEW w \in Writers, RemoveTemp(w) PROVE SnapshotCurrent'
      BY <2>8, <2>k DEF RemoveTemp
    <2>9. ASSUME NEW p \in Range(process), Crash(p) PROVE SnapshotCurrent'
      BY <2>9, <2>k DEF Crash
    <2> QED BY <1>0, <1>3, <2>1, <2>2, <2>3, <2>4, <2>5, <2>6, <2>7, <2>8, <2>9,
               PrometheusSteps
  <1> QED BY <1>0, <1>1, <1>2, <1>3 DEF Types
-----------------------------------------------------------------------------
(* The lock of a sink. *)

(* What LockInv asks of a step that brings no writer into its file.        *)
LEMMA LockKept ==
  ASSUME LockInv, UNCHANGED <<sink, file, opened>>,
         \A v \in Writers : pc'[v] \in Locked =>
           /\ pc[v] \in Locked
           /\ pc'[v] # "open" => pc[v] # "open"
           /\ lock'[sink[v]] = lock[sink[v]]
  PROVE  LockInv'
  BY DEF LockInv

LEMMA Unlocked ==
  ASSUME Types, LockInv, UNCHANGED <<sink, file, opened>>,
         NEW w \in Writers, NEW from, Goto(w, from, "idle"), Unlock(w)
  PROVE  LockInv'
  <1>1. pc'[w] = "idle" /\ \A v \in Writers : v # w => pc'[v] = pc[v]
    BY Went
  <1>2. ASSUME NEW v \in Writers, pc'[v] \in Locked
        PROVE  pc'[v] = pc[v] /\ lock'[sink[v]] = lock[sink[v]]
    <2>1. v # w
      BY <1>1, <1>2 DEF Locked
    <2>2. lock[sink[v]] = v /\ sink[v] \in Sinks
      BY <1>1, <1>2, <2>1 DEF LockInv, Types, Sinks
    <2> QED BY <1>1, <2>1, <2>2 DEF Unlock
  <1> QED BY <1>2, LockKept

LEMMA LockStep == IInv /\ [Next]_vars => LockInv'
  <1> SUFFICES ASSUME IInv, [Next]_vars PROVE LockInv'
    OBVIOUS
  <1> USE DEF config, disk, local, history
  <1>0. Types /\ Working /\ LockInv
    BY DEF IInv
  <1>1. CASE UNCHANGED vars
    BY <1>0, <1>1 DEF vars, LockInv
  <1>2. CASE Next /\ format = "prometheus"
    <2>1. UNCHANGED format
      BY <1>0, <1>2, PrometheusSteps DEF NewSink, Prometheus, CreateTemp, CreateFails,
         WriteTemp, RenameTemp, WriteFails, RemoveTemp, Return, Crash
    <2>2. Working'
      BY WorkingStep
    <2>3. ASSUME NEW w \in Writers PROVE pc'[w] \notin Locked
      BY <1>2, <2>1, <2>2 DEF Working, Locked, Named, Holding, Filling
    <2> QED BY <2>3 DEF LockInv
  <1>3. CASE Next /\ format = "jsonl"
    <2>1. ASSUME NEW s \in Writers, NewSink(s) PROVE LockInv'
      <3>1. UNCHANGED <<sink, opened, pc, lock>>
        BY <2>1 DEF NewSink
      <3>2. CASE file = 0
        <4>1. \A v \in Writers : pc'[v] \notin Locked
          BY <1>0, <3>1, <3>2 DEF Working, Locked
        <4> QED BY <4>1 DEF LockInv
      <3>3. CASE file # 0
        <4>1. UNCHANGED file
          BY <2>1, <3>3 DEF NewSink
        <4> QED BY <1>0, <3>1, <4>1 DEF LockInv
      <3> QED BY <3>2, <3>3
    <2>2. ASSUME NEW w \in Writers, Jsonl(w) PROVE LockInv'
      <3>1. /\ pc'[w] = "lock" /\ UNCHANGED <<sink, file, opened, lock>>
            /\ \A v \in Writers : v # w => pc'[v] = pc[v]
        BY <1>0, <2>2, Went DEF Jsonl, Begin
      <3>2. \A v \in Writers : pc'[v] \in Locked => pc'[v] = pc[v]
        BY <3>1 DEF Locked
      <3> QED BY <1>0, <3>1, <3>2, LockKept
    <2>3. ASSUME NEW w \in Writers, LockSink(w) PROVE LockInv'
      <3>1. /\ pc'[w] = "open" /\ UNCHANGED <<sink, file, opened>>
            /\ \A v \in Writers : v # w => pc'[v] = pc[v]
        BY <1>0, <2>3, Went DEF LockSink, Locked
      <3>2. /\ lock[sink[w]] = None /\ lock'[sink[w]] = w
            /\ \A s \in Sinks : s # sink[w] => lock'[s] = lock[s]
        BY <1>0, <2>3 DEF LockSink, Types, Sinks
      <3>3. ASSUME NEW v \in Writers, v # w, pc'[v] \in Locked
            PROVE  lock'[sink[v]] = v /\ (pc'[v] # "open" => opened'[v] = file')
        <4>1. /\ lock[sink[v]] = v /\ sink[v] \in Sinks
              /\ pc[v] # "open" => opened[v] = file
          BY <1>0, <3>1, <3>3 DEF LockInv, Types, Sinks
        <4>2. sink[v] # sink[w]
          BY <3>2, <4>1, BoundsAssumption
        <4> QED BY <3>1, <3>2, <3>3, <4>1, <4>2
      <3> QED BY <3>1, <3>2, <3>3 DEF LockInv
    <2>4. ASSUME NEW w \in Writers, OpenAppend(w) PROVE LockInv'
      <3>1. /\ pc[w] = "open" /\ pc'[w] = "head" /\ UNCHANGED <<sink, file, lock>>
            /\ \A v \in Writers : v # w => pc'[v] = pc[v]
        BY <1>0, <2>4, Went DEF OpenAppend, Locked
      <3>2. opened'[w] = file /\ \A v \in Writers : v # w => opened'[v] = opened[v]
        BY <1>0, <2>4 DEF OpenAppend, Types
      <3> QED BY <1>0, <3>1, <3>2 DEF LockInv, Locked
    <2>5. ASSUME NEW w \in Writers, WriteRecord(w) PROVE LockInv'
      <3>1. /\ Goto(w, "head", "tail") \/ Goto(w, "tail", "newline")
            /\ UNCHANGED <<sink, file, opened, lock>>
        BY <2>5 DEF WriteRecord, AppendPiece
      <3>2. /\ pc[w] \in {"head", "tail"} /\ pc'[w] \in {"tail", "newline"}
            /\ \A v \in Writers : v # w => pc'[v] = pc[v]
        BY <1>0, <3>1, Went DEF Locked
      <3> QED BY <1>0, <3>1, <3>2, LockKept DEF Locked
    <2>6. ASSUME NEW w \in Writers, WriteNewline(w) PROVE LockInv'
      BY <1>0, <2>6, Unlocked DEF WriteNewline, AppendPiece, Return
    <2>7. ASSUME NEW w \in Writers, AppendFails(w) PROVE LockInv'
      <3>1. PICK from \in {"open", "head", "tail", "newline"} : Return(w, from)
        BY <2>7 DEF AppendFails
      <3> QED BY <1>0, <2>7, <3>1, Unlocked DEF AppendFails, Return
    <2>8. ASSUME NEW p \in Range(process), Crash(p) PROVE LockInv'
      <3>1. /\ UNCHANGED <<sink, file, opened>>
            /\ lock' = [s \in Sinks |-> IF lock[s] \in {w \in Writers : process[w] = p}
                                        THEN None ELSE lock[s]]
            /\ pc' = [w \in Writers |-> IF w \in {u \in Writers : process[u] = p}
                                        THEN "idle" ELSE pc[w]]
        BY <2>8 DEF Crash
      <3>2. ASSUME NEW v \in Writers, pc'[v] \in Locked
            PROVE  pc'[v] = pc[v] /\ lock'[sink[v]] = lock[sink[v]]
        <4>1. process[v] # p /\ pc'[v] = pc[v]
          BY <3>1, <3>2 DEF Locked
        <4>2. lock[sink[v]] = v /\ sink[v] \in Sinks
          BY <1>0, <3>2, <4>1 DEF LockInv, Types, Sinks
        <4> QED BY <3>1, <4>1, <4>2
      <3> QED BY <1>0, <3>1, <3>2, LockKept
    <2> QED BY <1>0, <1>3, <2>1, <2>2, <2>3, <2>4, <2>5, <2>6, <2>7, <2>8, JsonlSteps
  <1> QED BY <1>0, <1>1, <1>2, <1>3 DEF Types

-----------------------------------------------------------------------------
(* Records. *)

(* The next piece of record m keeps the file whole.                        *)
LEMMA WholeAppend ==
  ASSUME NEW s \in Seq(Pieces), NEW m \in Nat, NEW i \in 1..3, Len(s) = 3*m + i - 1,
         \A k \in Nat : Whole(s, k),
         NEW e \in Pieces, e.part = <<"head", "tail", "newline">>[i],
         i # 1 => e.writer = s[3*m + 1].writer /\ e.write = s[3*m + 1].write
  PROVE  /\ \A k \in Nat : Whole(Append(s, e), k)
         /\ Append(s, e)[3*m + 1] = IF i = 1 THEN e ELSE s[3*m + 1]
         /\ Len(Append(s, e)) = 3*m + i
  <1> DEFINE t == Append(s, e)
             parts == <<"head", "tail", "newline">>
  <1>1. /\ t \in Seq(Pieces) /\ Len(t) = 3*m + i /\ t[3*m + i] = e
        /\ \A j \in 1..Len(s) : t[j] = s[j]
    BY AppendProperties
  <1>2. DOMAIN s = 1..(3*m + i - 1) /\ DOMAIN t = 1..(3*m + i)
    BY <1>1
  <1> HIDE DEF t, parts
  <1>3. t[3*m + 1] = IF i = 1 THEN e ELSE s[3*m + 1]
    BY <1>1
  <1>4. ASSUME NEW k \in Nat, NEW j \in 1..3, 3*k + j \in DOMAIN t
        PROVE  /\ t[3*k + j].part = parts[j]
               /\ t[3*k + j].writer = t[3*k + 1].writer
               /\ t[3*k + j].write = t[3*k + 1].write
    <2>1. CASE 3*k + j = 3*m + i
      <3>1. k = m /\ j = i
        BY <2>1
      <3> QED BY <1>1, <1>3, <3>1 DEF parts
    <2>2. CASE 3*k + j # 3*m + i
      <3>0. 3*k + j \in 1..(3*m + i) /\ 3*k + j <= 3*m + i - 1
        <4>1. 3*k + j \in 1..(3*m + i)
          BY <1>2, <1>4
        <4> QED BY <2>2, <4>1
      <3>1. 3*k + j \in DOMAIN s /\ 3*k + j \in 1..Len(s) /\ 3*k + 1 \in 1..Len(s)
        <4>1. 3*k + 1 <= 3*k + j /\ 1 <= 3*k + 1
          OBVIOUS
        <4>2. 3*k + j \in 1..Len(s) /\ 3*k + 1 \in 1..Len(s)
          BY <3>0, <4>1
        <4> QED BY <1>2, <4>2
      <3>2. t[3*k + j] = s[3*k + j] /\ t[3*k + 1] = s[3*k + 1]
        BY <1>1, <3>1
      <3>3. Whole(s, k)
        OBVIOUS
      <3> QED BY <3>1, <3>2, <3>3 DEF Whole, parts
    <2> QED BY <2>1, <2>2
  <1>5. \A k \in Nat : Whole(t, k)
    BY <1>4 DEF Whole, parts
  <1> QED BY <1>1, <1>3, <1>5 DEF t
(* With one sink, its lock lets one writer into the file.                  *)
LEMMA Alone ==
  ASSUME LockInv, OneSink, NEW v \in Writers, NEW w \in Writers,
         pc[v] \in Locked, pc[w] \in Locked
  PROVE  v = w
  BY DEF LockInv, OneSink

(* What RecordsInv asks of a step that leaves the file as it is.           *)
LEMMA RecordsKept ==
  ASSUME Types, RecordsInv, UNCHANGED <<format, sink, file>>,
         ~torn' => ~torn,
         file # 0 => data'[file] = data[file],
         ~torn' => \A v \in Writers :
           /\ Writing(v) <=> Writing(v)'
           /\ Writing(v) => pc'[v] = pc[v] /\ count'[v] = count[v]
  PROVE  RecordsInv'
  <1> SUFFICES ASSUME format = "jsonl", file # 0, ~torn', OneSink
               PROVE  /\ \A k \in Nat : Whole(data[file], k)
                      /\ \E m \in Nat :
                           \/ Len(data[file]) = 3*m /\ \A w \in Writers : ~Writing(w)'
                           \/ \E w \in Writers :
                                /\ \/ Len(data[file]) = 3*m + 1 /\ pc'[w] = "tail"
                                   \/ Len(data[file]) = 3*m + 2 /\ pc'[w] = "newline"
                                /\ data[file][3*m + 1] = Piece(w, "head")'
    BY DEF RecordsInv, OneSink
  <1>1. \A k \in Nat : Whole(data[file], k)
    BY DEF RecordsInv
  <1>2. PICK m \in Nat :
          \/ Len(data[file]) = 3*m /\ \A w \in Writers : ~Writing(w)
          \/ \E w \in Writers :
               /\ \/ Len(data[file]) = 3*m + 1 /\ pc[w] = "tail"
                  \/ Len(data[file]) = 3*m + 2 /\ pc[w] = "newline"
               /\ data[file][3*m + 1] = Piece(w, "head")
    BY DEF RecordsInv
  <1>3. CASE Len(data[file]) = 3*m /\ \A w \in Writers : ~Writing(w)
    BY <1>1, <1>3
  <1>4. ASSUME NEW w \in Writers,
               \/ Len(data[file]) = 3*m + 1 /\ pc[w] = "tail"
               \/ Len(data[file]) = 3*m + 2 /\ pc[w] = "newline",
               data[file][3*m + 1] = Piece(w, "head")
        PROVE  /\ \/ Len(data[file]) = 3*m + 1 /\ pc'[w] = "tail"
                  \/ Len(data[file]) = 3*m + 2 /\ pc'[w] = "newline"
               /\ data[file][3*m + 1] = Piece(w, "head")'
    <2>1. pc'[w] = pc[w] /\ count'[w] = count[w]
      BY <1>4 DEF Writing
    <2> QED BY <1>4, <2>1 DEF Piece
  <1> QED BY <1>1, <1>2, <1>3, <1>4

(* A writer appends piece i of its record to the file.                     *)
LEMMA PieceWritten ==
  ASSUME IInv, format = "jsonl", ~torn, OneSink, NEW w \in Writers, NEW i \in 1..3,
         pc[w] = <<"head", "tail", "newline">>[i],
         AppendPiece(w, <<"head", "tail", "newline">>[i])
  PROVE  /\ file' # 0 /\ \A k \in Nat : Whole(data'[file'], k)
         /\ \E m \in Nat : /\ Len(data'[file']) = 3*m + i
                           /\ data'[file'][3*m + 1] = Piece(w, "head")
  <1> DEFINE part == <<"head", "tail", "newline">>[i]
             s == data[file]
             e == Piece(w, part)
  <1>0. Types /\ Working /\ LockInv /\ RecordsInv /\ FillInv
    BY DEF IInv
  <1>1. pc[w] \in {"head", "tail", "newline"} /\ part \in {"head", "tail", "newline"}
    OBVIOUS
  <1>2. opened[w] # 0 /\ count[w] # 0 /\ opened[w] = file /\ file # 0
    BY <1>0, <1>1, HasOpen DEF LockInv, Locked
  <1>3. /\ file' = file /\ data'[file] = Append(s, e) /\ e \in Pieces
    BY <1>0, <1>1, <1>2, Appended
  <1>4. s \in Seq(Pieces)
    BY <1>0, <1>2 DEF Types
  <1>5. \A k \in Nat : Whole(s, k)
    BY <1>0, <1>2 DEF RecordsInv
  <1>6. PICK m \in Nat :
          \/ Len(s) = 3*m /\ \A v \in Writers : ~Writing(v)
          \/ \E v \in Writers :
               /\ \/ Len(s) = 3*m + 1 /\ pc[v] = "tail"
                  \/ Len(s) = 3*m + 2 /\ pc[v] = "newline"
               /\ s[3*m + 1] = Piece(v, "head")
    BY <1>0, <1>2 DEF RecordsInv
  <1>7. \A v \in Writers : Writing(v) => v = w
    BY <1>0, <1>1, Alone DEF Writing, Locked
  <1>8. /\ Len(s) = 3*m + i - 1
        /\ i # 1 => s[3*m + 1] = Piece(w, "head")
    <2>1. CASE i = 1
      <3>1. ~Writing(w)
        BY <2>1 DEF Writing
      <3>2. Len(s) = 3*m
        BY <1>6, <1>7, <3>1 DEF Writing
      <3> QED BY <2>1, <3>2
    <2>2. CASE i = 2
      <3>1. pc[w] = "tail"
        BY <2>2
      <3>2. Len(s) = 3*m + 1 /\ s[3*m + 1] = Piece(w, "head")
        BY <1>6, <1>7, <3>1 DEF Writing
      <3> QED BY <2>2, <3>2
    <2>3. CASE i = 3
      <3>1. pc[w] = "newline"
        BY <2>3
      <3>2. Len(s) = 3*m + 2 /\ s[3*m + 1] = Piece(w, "head")
        BY <1>6, <1>7, <3>1 DEF Writing
      <3> QED BY <2>3, <3>2
    <2> QED BY <2>1, <2>2, <2>3
  <1>9. /\ e.part = part
        /\ i # 1 => e.writer = s[3*m + 1].writer /\ e.write = s[3*m + 1].write
        /\ i = 1 => e = Piece(w, "head")
    BY <1>8 DEF Piece
  <1> HIDE DEF s, e
  <1>10. /\ \A k \in Nat : Whole(Append(s, e), k)
         /\ Append(s, e)[3*m + 1] = IF i = 1 THEN e ELSE s[3*m + 1]
         /\ Len(Append(s, e)) = 3*m + i
    BY <1>3, <1>4, <1>5, <1>8, <1>9, WholeAppend
  <1>11. Append(s, e)[3*m + 1] = Piece(w, "head")
    BY <1>8, <1>9, <1>10
  <1> QED BY <1>2, <1>3, <1>10, <1>11

LEMMA RecordsStep == IInv /\ [Next]_vars => RecordsInv'
  <1> SUFFICES ASSUME IInv, [Next]_vars PROVE RecordsInv'
    OBVIOUS
  <1> USE DEF config, disk, local, history
  <1>0. Types /\ Working /\ LockInv /\ RecordsInv
    BY DEF IInv
  <1>1. CASE UNCHANGED vars
    BY <1>0, <1>1 DEF vars, RecordsInv, OneSink, Writing, Piece
  <1>2. CASE Next /\ format = "prometheus"
    <2>1. UNCHANGED format
      BY <1>0, <1>2, PrometheusSteps DEF NewSink, Prometheus, CreateTemp, CreateFails,
         WriteTemp, RenameTemp, WriteFails, RemoveTemp, Return, Crash
    <2> QED BY <1>2, <2>1 DEF RecordsInv
  <1>3. CASE Next /\ format = "jsonl"
    <2>1. ASSUME NEW x \in Writers, NewSink(x) PROVE RecordsInv'
      <3>1. data'[file'] = <<>>
        <4>1. CASE file = 0
          BY <1>0, <2>1, <4>1, Grown DEF NewSink
        <4>2. CASE file # 0
          <5>1. data' = [data EXCEPT ![file] = <<>>] /\ file' = file
            BY <2>1, <4>2 DEF NewSink
          <5> QED BY <1>0, <4>2, <5>1, Emptied
        <4> QED BY <4>1, <4>2
      <3>2. ASSUME ~torn', NEW v \in Writers PROVE ~Writing(v)'
        <4>1. torn' = \E w \in Writers : pc[w] \in {"tail", "newline"}
          BY <2>1 DEF NewSink
        <4>2. pc' = pc
          BY <2>1 DEF NewSink
        <4> QED BY <3>2, <4>1, <4>2 DEF Writing
      <3>3. \A k \in Nat : Whole(<<>>, k)
        BY DEF Whole
      <3>4. 0 \in Nat /\ Len(<<>>) = 3*0
        OBVIOUS
      <3> QED BY <3>1, <3>2, <3>3, <3>4 DEF RecordsInv
    <2>2. ASSUME NEW w \in Writers, Jsonl(w) PROVE RecordsInv'
      <3>1. /\ pc[w] = "idle" /\ pc'[w] = "lock" /\ UNCHANGED <<format, sink, file, data, torn>>
            /\ \A v \in Writers : v # w => pc'[v] = pc[v]
        BY <1>0, <2>2, Went DEF Jsonl, Begin
      <3>2. \A v \in Writers : v # w => count'[v] = count[v]
        BY <1>0, <2>2 DEF Jsonl, Begin, Types
      <3>3. \A v \in Writers : /\ Writing(v) <=> Writing(v)'
                               /\ Writing(v) => pc'[v] = pc[v] /\ count'[v] = count[v]
        BY <3>1, <3>2 DEF Writing
      <3> QED BY <1>0, <3>1, <3>3, RecordsKept
    <2>3. ASSUME NEW w \in Writers, NEW from, NEW to, Goto(w, from, to),
                 to \in {"idle", "lock"} \cup Locked \cup Named,
                 to \notin {"tail", "newline"}, ~torn' => from \notin {"tail", "newline"},
                 ~torn' => ~torn, UNCHANGED <<format, sink, file, data, count>>
          PROVE  RecordsInv'
      <3>1. /\ pc[w] = from /\ pc'[w] = to
            /\ \A v \in Writers : v # w => pc'[v] = pc[v]
        BY <1>0, <2>3, Went
      <3>2. ~torn' => \A v \in Writers : /\ Writing(v) <=> Writing(v)'
                                         /\ Writing(v) => pc'[v] = pc[v] /\ count'[v] = count[v]
        BY <2>3, <3>1 DEF Writing
      <3> QED BY <1>0, <2>3, <3>2, RecordsKept
    <2>4. ASSUME NEW w \in Writers, LockSink(w) PROVE RecordsInv'
      <3>1. Goto(w, "lock", "open") /\ UNCHANGED <<format, sink, file, data, count, torn>>
        BY <2>4 DEF LockSink
      <3> QED BY <2>3, <3>1 DEF Locked
    <2>5. ASSUME NEW w \in Writers, OpenAppend(w) PROVE RecordsInv'
      <3>1. Goto(w, "open", "head") /\ UNCHANGED <<format, sink, file, data, count, torn>>
        BY <2>5 DEF OpenAppend
      <3> QED BY <2>3, <3>1 DEF Locked
    <2>6. ASSUME NEW w \in Writers, WriteRecord(w) PROVE RecordsInv'
      <3>1. UNCHANGED <<format, sink, count, torn>>
        BY <2>6 DEF WriteRecord
      <3>2. SUFFICES ASSUME ~torn, OneSink PROVE RecordsInv'
        BY <3>1 DEF RecordsInv, OneSink
      <3>3. CASE Goto(w, "head", "tail") /\ AppendPiece(w, "head")
        <4>1. pc[w] = "head" /\ pc'[w] = "tail"
          BY <1>0, <3>3, Went DEF Locked
        <4>2. /\ \A k \in Nat : Whole(data'[file'], k)
              /\ \E m \in Nat : /\ Len(data'[file']) = 3*m + 1
                                /\ data'[file'][3*m + 1] = Piece(w, "head")
          BY <1>3, <3>2, <3>3, <4>1, 1 \in 1..3, PieceWritten
        <4>3. Piece(w, "head")' = Piece(w, "head")
          BY <3>1 DEF Piece
        <4> QED BY <4>1, <4>2, <4>3 DEF RecordsInv
      <3>4. CASE Goto(w, "tail", "newline") /\ AppendPiece(w, "tail")
        <4>1. pc[w] = "tail" /\ pc'[w] = "newline"
          BY <1>0, <3>4, Went DEF Locked
        <4>2. /\ \A k \in Nat : Whole(data'[file'], k)
              /\ \E m \in Nat : /\ Len(data'[file']) = 3*m + 2
                                /\ data'[file'][3*m + 1] = Piece(w, "head")
          BY <1>3, <3>2, <3>4, <4>1, 2 \in 1..3, PieceWritten
        <4>3. Piece(w, "head")' = Piece(w, "head")
          BY <3>1 DEF Piece
        <4> QED BY <4>1, <4>2, <4>3 DEF RecordsInv
      <3> QED BY <2>6, <3>3, <3>4 DEF WriteRecord
    <2>7. ASSUME NEW w \in Writers, WriteNewline(w) PROVE RecordsInv'
      <3>1. /\ UNCHANGED <<format, sink, torn>>
            /\ Goto(w, "newline", "idle") /\ AppendPiece(w, "newline")
        BY <2>7 DEF WriteNewline, Return
      <3>2. SUFFICES ASSUME ~torn, OneSink PROVE RecordsInv'
        BY <3>1 DEF RecordsInv, OneSink
      <3>3. /\ pc[w] = "newline" /\ pc'[w] = "idle"
            /\ \A v \in Writers : v # w => pc'[v] = pc[v]
        BY <1>0, <3>1, Went
      <3>4. /\ \A k \in Nat : Whole(data'[file'], k)
            /\ \E m \in Nat : Len(data'[file']) = 3*m + 3
        BY <1>3, <3>1, <3>2, <3>3, 3 \in 1..3, PieceWritten
      <3>5. \E m \in Nat : Len(data'[file']) = 3*m
        <4>1. PICK m \in Nat : Len(data'[file']) = 3*m + 3
          BY <3>4
        <4>2. m + 1 \in Nat /\ 3*m + 3 = 3*(m + 1)
          OBVIOUS
        <4> QED BY <4>1, <4>2
      <3>6. ASSUME NEW v \in Writers PROVE ~Writing(v)'
        <4>1. CASE v = w
          BY <3>3, <4>1 DEF Writing
        <4>2. CASE v # w
          <5>1. ~Writing(v)
            BY <1>0, <3>2, <3>3, <4>2, Alone DEF Writing, Locked
          <5> QED BY <3>3, <4>2, <5>1 DEF Writing
        <4> QED BY <4>1, <4>2
      <3> QED BY <3>4, <3>5, <3>6 DEF RecordsInv
    <2>8. ASSUME NEW w \in Writers, AppendFails(w) PROVE RecordsInv'
      <3>1. PICK from \in {"open", "head", "tail", "newline"} :
              Return(w, from) /\ torn' = (torn \/ from \in {"tail", "newline"})
        BY <2>8 DEF AppendFails
      <3>2. Goto(w, from, "idle") /\ UNCHANGED <<format, sink, file, data, count>>
        BY <2>8, <3>1 DEF AppendFails, Return
      <3>3. /\ ~torn' => from \notin {"tail", "newline"}
            /\ ~torn' => ~torn
        BY <3>1
      <3> QED BY <2>3, <3>2, <3>3
    <2>9. ASSUME NEW p \in Range(process), Crash(p) PROVE RecordsInv'
      <3> DEFINE threads == {w \in Writers : process[w] = p}
      <3>1. /\ UNCHANGED <<format, sink, file, data, count>>
            /\ pc' = [w \in Writers |-> IF w \in threads THEN "idle" ELSE pc[w]]
        BY <2>9 DEF Crash
      <3>2. torn' = (torn \/ \E w \in threads : pc[w] \in {"tail", "newline"})
        BY <2>9 DEF Crash
      <3>3. ~torn' => ~torn
        BY <3>2
      <3>4. ASSUME ~torn', NEW v \in Writers
            PROVE  /\ Writing(v) <=> Writing(v)'
                   /\ Writing(v) => pc'[v] = pc[v]
        <4>1. v \in threads => ~Writing(v)
          BY <3>2, <3>4 DEF Writing
        <4> QED BY <3>1, <4>1 DEF Writing
      <3> QED BY <1>0, <3>1, <3>3, <3>4, RecordsKept
    <2> QED BY <1>0, <1>3, <2>1, <2>2, <2>4, <2>5, <2>6, <2>7, <2>8, <2>9, JsonlSteps
  <1> QED BY <1>0, <1>1, <1>2, <1>3 DEF Types
-----------------------------------------------------------------------------
LEMMA Invariance == Spec => []IInv
  <1>1. Init => IInv
    BY InitInv
  <1>2. IInv /\ [Next]_vars => IInv'
    BY TypesStep, WorkingStep, NamesStep, TempsStep, FillStep, OlderStep, SnapshotStep,
       LockStep, RecordsStep DEF IInv
  <1> QED BY <1>1, <1>2, PTL DEF Spec

(* Type correctness of the metrics file for any writers. *)
THEOREM TypeCorrect == Spec => []TypeOK
  <1>1. IInv => TypeOK
    BY DEF IInv, Types, TypeOK, Locked, Named, Holding, Filling
  <1> QED BY <1>1, Invariance, PTL

(* What readers find at the path of a Prometheus file is one whole, latest *)
(* snapshot or the empty file of a new sink, whatever writers, failed      *)
(* calls and crashes there are.                                            *)
THEOREM FileSnapshotCurrent == Spec => []SnapshotCurrent
  <1>1. IInv => SnapshotCurrent
    BY DEF IInv
  <1> QED BY <1>1, Invariance, PTL

(* Temporary files have one writer each and are gone with its write, until *)
(* a crash or a failed removal leaves one.                                 *)
THEOREM FileTempsAccounted == Spec => []TempsAccounted
  <1>1. IInv => TempsAccounted
    <2> SUFFICES ASSUME IInv, ~left PROVE
          /\ \A t \in temps : \E w \in Writers :
               pc[w] \in {"write", "more", "rename", "remove"} /\ Temp(w) = {t}
          /\ \A w \in Writers : pc[w] = "create" => Temp(w) = {}
      BY DEF TempsAccounted
    <2>0. Types /\ NamesInv /\ TempsInv
      BY DEF IInv
    <2>1. ASSUME NEW w \in Writers, pc[w] \in Named, NEW t \in Temp(w) PROVE Owns(w, t)
      <3>1. PICK v \in Writers : Owns(v, t)
        BY <2>0, <2>1 DEF TempsInv, Temp
      <3> QED BY <2>0, <2>1, <3>1, OwnName
    <2>2. ASSUME NEW t \in temps
          PROVE  \E w \in Writers :
                   pc[w] \in {"write", "more", "rename", "remove"} /\ Temp(w) = {t}
      <3>1. PICK w \in Writers : Owns(w, t)
        BY <2>0 DEF TempsInv
      <3>2. pc[w] \in Holding /\ pc[w] \in Named /\ t \in Temp(w)
        BY <3>1 DEF Owns, Temp, Named
      <3>3. ASSUME NEW u \in Temp(w) PROVE u = t
        <4>1. Owns(w, u)
          BY <2>1, <3>2
        <4>2. /\ u.process = t.process /\ u.number = t.number /\ u.inode = t.inode
          BY <3>1, <4>1 DEF Owns
        <4>3. /\ u \in [process : Range(process), number : Nat, inode : 1..Len(data)]
              /\ t \in [process : Range(process), number : Nat, inode : 1..Len(data)]
          BY <2>0 DEF Types, Temp
        <4> QED BY <4>2, <4>3
      <3>4. Temp(w) = {t}
        BY <3>2, <3>3
      <3> QED BY <3>2, <3>4 DEF Holding, Filling
    <2>3. ASSUME NEW w \in Writers, pc[w] = "create" PROVE Temp(w) = {}
      <3>1. ASSUME NEW t \in Temp(w) PROVE FALSE
        BY <2>1, <2>3, <3>1 DEF Owns, Named, Holding, Filling
      <3> QED BY <3>1
    <2> QED BY <2>2, <2>3
  <1> QED BY <1>1, Invariance, PTL

(* A JSONL file written through one sink and its clones is made of whole   *)
(* records, and of one more while a thread is writing it, until a write    *)
(* fails midway or a process crashes in one.                               *)
THEOREM FileRecordsWhole == Spec => []RecordsWhole
  <1>1. IInv => RecordsWhole
    <2> SUFFICES ASSUME IInv, format = "jsonl", file # 0, ~torn, OneSink
                 PROVE  /\ \A k \in 0..Len(data[file]) : Whole(data[file], k)
                        /\ Len(data[file]) % 3 # 0 =>
                             \E w \in Writers : pc[w] \in {"tail", "newline"}
      BY DEF RecordsWhole, OneSink
    <2>1. RecordsInv
      BY DEF IInv
    <2>2. \A k \in Nat : Whole(data[file], k)
      BY <2>1 DEF RecordsInv
    <2>3. ASSUME \A w \in Writers : ~Writing(w) PROVE Len(data[file]) % 3 = 0
      <3>1. PICK m \in Nat : Len(data[file]) = 3*m
        BY <2>1, <2>3 DEF RecordsInv, Writing
      <3>2. (3*m) % 3 = 0
        OBVIOUS
      <3> QED BY <3>1, <3>2
    <2>4. \A k \in 0..Len(data[file]) : Whole(data[file], k)
      <3>1. 0..Len(data[file]) \subseteq Nat
        OBVIOUS
      <3> QED BY <2>2, <3>1
    <2>5. Len(data[file]) % 3 # 0 => \E w \in Writers : pc[w] \in {"tail", "newline"}
      BY <2>3 DEF Writing
    <2> QED BY <2>4, <2>5
  <1> QED BY <1>1, Invariance, PTL
=============================================================================

----------------------------- MODULE MetricsFile -----------------------------
(***************************************************************************)
(* The metrics file (src/src/metrics_file.rs): sinks, and clones of one    *)
(* sink, that write to the same path from several threads and processes.   *)
(*                                                                         *)
(* One action per system call.  Contents are sequences of the pieces that  *)
(* single write calls leave: serde_json::to_writer writes a record to the  *)
(* unbuffered file in several pieces, write_all may split a snapshot.      *)
(* Any call may fail where the code handles it, and a process may crash;   *)
(* another with its pid (a container's) may start over.                    *)
(***************************************************************************)
EXTENDS Naturals, Sequences, FiniteSets, Functions

CONSTANTS
  Writers,     \* threads that write
  Sharings,    \* which sink each writer holds: clones hold the same one
  Processes,   \* the process of each writer
  MaxWrites,   \* bound: writes of one writer
  MaxFaults,   \* bound: calls that fail, and crashes
  None         \* no lock holder

ASSUME BoundsAssumption ==
  /\ MaxWrites \in Nat /\ MaxFaults \in Nat
  /\ None \notin Writers
  \* a sink, and a process, is named after one of its writers
  /\ Sharings \subseteq [Writers -> Writers]
  /\ Processes \subseteq [Writers -> Writers]

VARIABLES
  format,    \* "jsonl" or "prometheus"
  sink,      \* the sink of each writer
  process,   \* the process of each writer
  made,      \* sinks whose constructor returned
  data,      \* contents of the inodes, the first is the file at first
  file,      \* inode at the path, 0 before the first sink is made
  temps,     \* temporary files: [process, number, inode]
  counter,   \* TEMP_FILE_COUNTER of each process
  lock,      \* holder of jsonl_write of each sink
  pc,
  count,     \* writes each writer began
  opened,    \* inode each writer has open
  number,    \* number in the name of its temporary file
  faults,    \* calls that failed and crashes so far
  torn,      \* a record was cut short since the file was emptied (history)
  left,      \* a crash or a failed removal left temporary files (history)
  older      \* [before, over]: writes that ended before a writer's current
             \* one began, and before some write that succeeded (history)

config == <<format, sink, process>>
disk == <<data, file, temps>>
local == <<count, opened, number>>
history == <<torn, left, older>>
vars == <<config, made, disk, counter, lock, pc, local, faults, history>>

Sinks == Writers
Piece(w, part) == [writer |-> w, write |-> count[w], part |-> part]

Init ==
  /\ format \in {"jsonl", "prometheus"}
  /\ sink \in Sharings /\ process \in Processes
  /\ \A v, w \in Writers : sink[v] = sink[w] => process[v] = process[w]
  /\ made = {} /\ data = <<>> /\ file = 0 /\ temps = {}
  /\ counter = [w \in Writers |-> 0]
  /\ lock = [s \in Sinks |-> None]
  /\ pc = [w \in Writers |-> "idle"]
  /\ count = [w \in Writers |-> 0]
  /\ opened = [w \in Writers |-> 0]
  /\ number = [w \in Writers |-> 0]
  /\ faults = 0 /\ torn = FALSE /\ left = FALSE
  /\ older = [before |-> [w \in Writers |-> {}], over |-> {}]

Goto(w, from, to) == pc[w] = from /\ pc' = [pc EXCEPT ![w] = to]
Fault == faults < MaxFaults /\ faults' = faults + 1

-----------------------------------------------------------------------------
(* MetricsFileSink::with_prefix_and_labels: File::create empties the file  *)
(* in place, or makes it.                                                  *)
NewSink(s) ==
  /\ s \in Range(sink) \ made
  /\ made' = made \cup {s}
  /\ IF file = 0 THEN data' = Append(data, <<>>) /\ file' = Len(data) + 1
     ELSE data' = [data EXCEPT ![file] = <<>>] /\ UNCHANGED file
  /\ torn' = \E w \in Writers : pc[w] \in {"tail", "newline"}
  /\ UNCHANGED <<config, temps, counter, lock, pc, local, faults, left, older>>

(* A write begins: append_jsonl, or atomic_write with a name of its own.   *)
Begin(w, to) ==
  /\ sink[w] \in made /\ count[w] < MaxWrites
  /\ Goto(w, "idle", to)
  /\ count' = [count EXCEPT ![w] = @ + 1]

(* Returns Ok, or an error. *)
Return(w, from) == Goto(w, from, "idle") /\ UNCHANGED <<config, made, local, left>>

-----------------------------------------------------------------------------
(* append_jsonl. *)

Jsonl(w) ==
  /\ format = "jsonl"
  /\ Begin(w, "lock")
  /\ UNCHANGED <<config, made, disk, counter, lock, opened, number, faults, history>>

(* Mutant: the record is written without the lock. *)
MutNoLock(w) ==
  /\ Goto(w, "lock", "open")
  /\ UNCHANGED <<config, made, disk, counter, lock, local, faults, history>>

LockSink(w) ==
  /\ lock[sink[w]] = None
  /\ Goto(w, "lock", "open")
  /\ lock' = [lock EXCEPT ![sink[w]] = w]
  /\ UNCHANGED <<config, made, disk, counter, local, faults, history>>

Unlock(w) == lock' = [s \in Sinks |-> IF lock[s] = w THEN None ELSE lock[s]]

OpenAppend(w) ==
  /\ Goto(w, "open", "head")
  /\ opened' = [opened EXCEPT ![w] = file]
  /\ UNCHANGED <<config, made, disk, counter, lock, count, number, faults, history>>

AppendPiece(w, part) ==
  /\ data' = [data EXCEPT ![opened[w]] = Append(@, Piece(w, part))]
  /\ UNCHANGED <<file, temps>>

(* to_writer. *)
WriteRecord(w) ==
  /\ \/ Goto(w, "head", "tail") /\ AppendPiece(w, "head")
     \/ Goto(w, "tail", "newline") /\ AppendPiece(w, "tail")
  /\ UNCHANGED <<config, made, counter, lock, local, faults, history>>

WriteNewline(w) ==
  /\ Return(w, "newline")
  /\ AppendPiece(w, "newline")
  /\ Unlock(w)
  /\ UNCHANGED <<counter, faults, torn, older>>

(* Opening or writing fails: what was written stays. *)
AppendFails(w) ==
  /\ \E from \in {"open", "head", "tail", "newline"} :
       Return(w, from) /\ torn' = (torn \/ from \in {"tail", "newline"})
  /\ Fault /\ Unlock(w)
  /\ UNCHANGED <<disk, counter, older>>

-----------------------------------------------------------------------------
(* atomic_write. *)

(* Mutant: every temporary file has the same name. *)
MutNoCounter(w) == UNCHANGED counter

CountUp(w) == counter' = [counter EXCEPT ![process[w]] = @ + 1]

(* Writes, by writer and number, and whether one has ended. *)
Writes == Writers \X (1..MaxWrites)
Ended(e) == e[2] < count[e[1]] \/ (e[2] = count[e[1]] /\ pc[e[1]] = "idle")

(* temp_path_for; then the permissions of the file are read. *)
Prometheus(w) ==
  /\ format = "prometheus"
  /\ Begin(w, "create")
  /\ number' = [number EXCEPT ![w] = counter[process[w]]]
  /\ CountUp(w)
  /\ older' = [older EXCEPT !.before[w] = {e \in Writes : Ended(e)}]
  /\ UNCHANGED <<config, made, disk, lock, opened, faults, torn, left>>

Temp(w) == {t \in temps : t.process = process[w] /\ t.number = number[w]}

(* create_new. *)
CreateTemp(w) ==
  /\ Temp(w) = {}
  /\ Goto(w, "create", "write")
  /\ data' = Append(data, <<>>)
  /\ opened' = [opened EXCEPT ![w] = Len(data) + 1]
  /\ temps' = temps \cup {[process |-> process[w], number |-> number[w],
                           inode |-> Len(data) + 1]}
  /\ UNCHANGED <<config, made, file, counter, lock, count, number, faults, history>>

(* The name exists, or the file's metadata cannot be read: nothing of this *)
(* write is on the disk, and nothing is removed.                           *)
CreateFails(w) ==
  /\ \/ Temp(w) # {} /\ UNCHANGED faults
     \/ Fault
  /\ Return(w, "create")
  /\ UNCHANGED <<disk, counter, lock, torn, older>>

(* write_all. *)
WriteTemp(w) ==
  /\ \/ Goto(w, "write", "more") /\ AppendPiece(w, "head")
     \/ Goto(w, "more", "rename") /\ AppendPiece(w, "tail")
  /\ UNCHANGED <<config, made, counter, lock, local, faults, history>>

(* Mutant: the rename comes before the end of the contents. *)
MutRenameEarly(w) ==
  /\ file' = opened[w]
  /\ temps' = temps \ Temp(w)
  /\ Return(w, "more")
  /\ older' = [older EXCEPT !.over = @ \cup older.before[w]]
  /\ UNCHANGED <<data, counter, lock, faults, torn>>

RenameTemp(w) ==
  /\ file' = opened[w]
  /\ temps' = temps \ Temp(w)
  /\ Return(w, "rename")
  /\ older' = [older EXCEPT !.over = @ \cup older.before[w]]
  /\ UNCHANGED <<data, counter, lock, faults, torn>>

(* set_permissions, write_all or rename fails. *)
WriteFails(w) ==
  /\ \E from \in {"write", "more", "rename"} : Goto(w, from, "remove")
  /\ Fault
  /\ UNCHANGED <<config, made, disk, counter, lock, local, history>>

(* The temporary file is removed, whether that works or not. *)
RemoveTemp(w) ==
  /\ Goto(w, "remove", "idle")
  /\ \/ temps' = temps \ Temp(w) /\ UNCHANGED <<faults, left>>
     \/ Fault /\ left' = TRUE /\ UNCHANGED temps
  /\ UNCHANGED <<config, made, data, file, counter, lock, local, torn, older>>

-----------------------------------------------------------------------------
(* A process crashes and one with its pid takes its place, which makes its *)
(* sinks anew.                                                             *)
Crash(p) ==
  /\ Fault
  /\ LET threads == {w \in Writers : process[w] = p}
     IN /\ \E w \in threads : pc[w] # "idle"
        /\ pc' = [w \in Writers |-> IF w \in threads THEN "idle" ELSE pc[w]]
        /\ lock' = [s \in Sinks |-> IF lock[s] \in threads THEN None ELSE lock[s]]
        /\ made' = made \ {sink[w] : w \in threads}
        /\ torn' = (torn \/ \E w \in threads : pc[w] \in {"tail", "newline"})
        /\ left' = (left \/ \E w \in threads : Temp(w) # {})
  /\ counter' = [counter EXCEPT ![p] = 0]
  /\ UNCHANGED <<config, disk, local, older>>

Step(w) ==
  \/ Jsonl(w) \/ LockSink(w) \/ OpenAppend(w) \/ WriteRecord(w)
  \/ WriteNewline(w) \/ AppendFails(w)
  \/ Prometheus(w) \/ CreateTemp(w) \/ CreateFails(w) \/ WriteTemp(w)
  \/ RenameTemp(w) \/ WriteFails(w) \/ RemoveTemp(w)

Next ==
  \/ \E w \in Writers : Step(w) \/ NewSink(w)
  \/ \E p \in Range(process) : Crash(p)

Spec == Init /\ [][Next]_vars

-----------------------------------------------------------------------------
Pieces == [writer : Writers, write : 1..MaxWrites,
           part : {"head", "tail", "newline"}]

TypeOK ==
  /\ made \subseteq Sinks
  /\ data \in Seq(Seq(Pieces))
  /\ file \in 0..Len(data)
  /\ temps \subseteq [process : Range(process), number : Nat, inode : 1..Len(data)]
  /\ lock \in [Sinks -> Writers \cup {None}]
  /\ pc \in [Writers -> {"idle", "lock", "open", "head", "tail", "newline",
                         "create", "write", "more", "rename", "remove"}]
  /\ count \in [Writers -> 0..MaxWrites]
  /\ opened \in [Writers -> 0..Len(data)]
  /\ faults \in 0..MaxFaults
  /\ torn \in BOOLEAN /\ left \in BOOLEAN

(* "Prometheus output atomically replaces the file with the latest encoded *)
(* snapshot on each write" (src/src/metrics_file.rs:47-48): what is at the *)
(* path is one whole snapshot, or the empty file a new sink makes, and     *)
(* never one that was finished before a write that succeeded began,        *)
(* whoever writes, fails or crashes at the same time.                      *)
SnapshotCurrent ==
  format = "prometheus" /\ file # 0 =>
    \/ data[file] = <<>>
    \/ \E w \in Writers, n \in 1..MaxWrites :
         /\ data[file] = << [writer |-> w, write |-> n, part |-> "head"],
                            [writer |-> w, write |-> n, part |-> "tail"] >>
         /\ <<w, n>> \notin older.over

(* The pieces of record k of a file. *)
Whole(contents, k) ==
  \A i \in 1..3 : 3*k + i \in DOMAIN contents =>
    /\ contents[3*k + i].part = <<"head", "tail", "newline">>[i]
    /\ contents[3*k + i].writer = contents[3*k + 1].writer
    /\ contents[3*k + i].write = contents[3*k + 1].write

(* "JSONL writes through this sink and its clones are serialized per       *)
(* record" (src/src/metrics_file.rs:49): unless a write failed midway, or  *)
(* its process crashed, each line is one record, and only the last may be  *)
(* incomplete, while a thread is writing it.                               *)
RecordsWhole ==
  /\ format = "jsonl" /\ file # 0 /\ ~torn
  /\ \A v, w \in Writers : sink[v] = sink[w]
  => /\ \A k \in 0..Len(data[file]) : Whole(data[file], k)
     /\ Len(data[file]) % 3 # 0 =>
          \E w \in Writers : pc[w] \in {"tail", "newline"}

(* Two writes never meet in one temporary file, and none survives the      *)
(* write it belongs to, unless a process crashed in it or its removal      *)
(* failed; before that no write finds its name taken.                      *)
TempsAccounted ==
  ~left =>
    /\ \A t \in temps : \E w \in Writers :
         pc[w] \in {"write", "more", "rename", "remove"} /\ Temp(w) = {t}
    /\ \A w \in Writers : pc[w] = "create" => Temp(w) = {}
=============================================================================

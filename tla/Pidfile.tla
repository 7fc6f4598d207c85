------------------------------- MODULE Pidfile -------------------------------
(***************************************************************************)
(* The pidfile of the command line tool (-I), shared by processes that     *)
(* name the same path: iperf3rs_pidfile_checked and the end of             *)
(* iperf3rs_cli_cleanup of src/native/iperf3rs_cli.c.                      *)
(*                                                                         *)
(* One action per system call that reads or changes what processes share.  *)
(* A file is its inode; what it holds is a pid, or Garbage (empty, or not  *)
(* a pid).  An inode is free, and may be used for a new file, when no      *)
(* path and no descriptor refers to it.  Pids are not reused.  Left out:   *)
(* files that are not regular, permissions (EPERM counts as alive), and    *)
(* failures of calls other than the write.                                 *)
(***************************************************************************)
EXTENDS Naturals, FiniteSets

CONSTANTS
  Procs,     \* processes, and their pids
  Inodes,    \* inode numbers
  Stale,     \* the pid of a process that ended before
  Garbage,   \* contents that are not a pid
  None       \* no inode, no pid read

ASSUME DistinctAssumption ==
  /\ Stale \notin Procs /\ Garbage \notin Procs /\ Stale # Garbage
  /\ None \notin Inodes \cup Procs \cup {Stale, Garbage}

VARIABLES
  path,       \* the inode at the path
  data,       \* contents of each inode
  phase,      \* where a process is; "gone" once it ended, however
  seen,       \* inode it opened for reading
  target,     \* the pid it read there
  identity,   \* inode it opened for writing (state->identity)
  owned,      \* state->owned
  result,     \* "None", "Refused", "Ran", "Failed" (a write), "Killed"
  contested   \* a live owner's file was taken over by a process that had
              \* read another pid in it (history)

fs == <<path, data>>
local == <<seen, target, identity, owned>>
pidfileVars == <<fs, phase, local, result, contested>>

PidfileInit ==
  /\ \/ path = None /\ data = [i \in Inodes |-> Garbage]
     \/ /\ path \in Inodes
        /\ \E c \in {Stale, Garbage} :
             data = [i \in Inodes |-> IF i = path THEN c ELSE Garbage]
  /\ phase = [p \in Procs |-> "open"]
  /\ seen = [p \in Procs |-> None]
  /\ target = [p \in Procs |-> None]
  /\ identity = [p \in Procs |-> None]
  /\ owned = [p \in Procs |-> FALSE]
  /\ result = [p \in Procs |-> "None"]
  /\ contested = FALSE

Advance(p, from, to) == phase[p] = from /\ phase' = [phase EXCEPT ![p] = to]

(* The call fails.  A process that owns nothing leaves no trace.           *)
Refuse(p, from) ==
  /\ Advance(p, from, "gone")
  /\ result' = [result EXCEPT ![p] = "Refused"]
  /\ UNCHANGED <<fs, local, contested>>

(* kill(pid, 0) finds the process. *)
Alive(pid) == pid \in Procs /\ phase[pid] # "gone"

(* An inode a descriptor refers to is not free. *)
OpenInodes ==
  {seen[p] : p \in {q \in Procs : phase[q] \in {"read", "probe"}}}
  \cup {identity[p] : p \in {q \in Procs : phase[q] \in {"truncate", "write"}}}

-----------------------------------------------------------------------------
(* iperf3rs_pidfile_checked. *)

(* The first open, read-only. *)
OpenToRead(p) ==
  /\ Advance(p, "open", IF path = None THEN "reopen" ELSE "read")
  /\ seen' = [seen EXCEPT ![p] = path]
  /\ UNCHANGED <<fs, target, identity, owned, result, contested>>

(* Read and parse: anything but one pid is EINVAL. *)
ReadPid(p) ==
  /\ Advance(p, "read", "probe")
  /\ data[seen[p]] # Garbage
  /\ target' = [target EXCEPT ![p] = data[seen[p]]]
  /\ UNCHANGED <<fs, seen, identity, owned, result, contested>>

RefuseGarbage(p) == Refuse(p, "read") /\ data[seen[p]] = Garbage

(* Mutant: the probe is skipped. *)
MutNoProbe(p) ==
  /\ Advance(p, "probe", "reopen")
  /\ UNCHANGED <<fs, local, result, contested>>

(* kill(pid, 0): ESRCH is the only proof that the pid is stale.  The       *)
(* descriptor is closed.                                                   *)
ProbeStale(p) ==
  /\ ~Alive(target[p])
  /\ Advance(p, "probe", "reopen")
  /\ UNCHANGED <<fs, local, result, contested>>

RefuseAlive(p) == Alive(target[p]) /\ Refuse(p, "probe")

(* Mutant: O_CREAT without O_EXCL. *)
MutNoExcl(p) ==
  /\ seen[p] = None
  /\ Advance(p, "reopen", "write")
  /\ \E i \in Inodes \ OpenInodes :
       /\ path # None => i = path
       /\ path' = i
       /\ data' = IF path = None THEN [data EXCEPT ![i] = Garbage] ELSE data
       /\ identity' = [identity EXCEPT ![p] = i]
  /\ owned' = [owned EXCEPT ![p] = TRUE]
  /\ UNCHANGED <<seen, target, result, contested>>

(* No file was seen: O_CREAT | O_EXCL makes an empty one. *)
Create(p) ==
  /\ seen[p] = None /\ path = None
  /\ Advance(p, "reopen", "write")
  /\ \E i \in Inodes \ OpenInodes :
       /\ path' = i
       /\ data' = [data EXCEPT ![i] = Garbage]
       /\ identity' = [identity EXCEPT ![p] = i]
  /\ owned' = [owned EXCEPT ![p] = TRUE]
  /\ UNCHANGED <<seen, target, result, contested>>

(* A file was seen: the path must still lead to that inode. *)
Reopen(p) ==
  /\ seen[p] # None /\ path = seen[p]
  /\ Advance(p, "reopen", "truncate")
  /\ identity' = [identity EXCEPT ![p] = path]
  /\ contested' = (contested \/ \E q \in Procs \ {p, target[p]} :
                    Alive(q) /\ identity[q] = seen[p])
  /\ UNCHANGED <<fs, seen, target, owned, result>>

(* EEXIST, ENOENT or EBUSY. *)
RefuseChanged(p) ==
  /\ path # seen[p]
  /\ Refuse(p, "reopen")

Truncate(p) ==
  /\ Advance(p, "truncate", "write")
  /\ data' = [data EXCEPT ![identity[p]] = Garbage]
  /\ owned' = [owned EXCEPT ![p] = TRUE]
  /\ UNCHANGED <<path, seen, target, identity, result, contested>>

(* write at offset 0: over a longer pid it leaves that one's last digits,  *)
(* which name some process or none.                                        *)
WritePid(p) ==
  /\ Advance(p, "write", "running")
  /\ \E c \in {p} \cup (IF data[identity[p]] = Garbage THEN {} ELSE {Stale}) :
       data' = [data EXCEPT ![identity[p]] = c]
  /\ UNCHANGED <<path, local, result, contested>>

(* It fails; prepare goes to its cleanup. *)
WriteFails(p) ==
  /\ Advance(p, "write", "lstat")
  /\ result' = [result EXCEPT ![p] = "Failed"]
  /\ UNCHANGED <<fs, local, contested>>

-----------------------------------------------------------------------------
(* The run ends, with a result, an error or a handled signal. *)
EndRun(p) ==
  /\ Advance(p, "running", "lstat")
  /\ result' = [result EXCEPT ![p] = "Ran"]
  /\ UNCHANGED <<fs, local, contested>>

(* Mutant: the identity is the one observed before the takeover. *)
MutObservedIdentity(p) ==
  /\ Advance(p, "lstat", IF path = seen[p] THEN "unlink" ELSE "gone")
  /\ UNCHANGED <<fs, local, result, contested>>

(* cleanup: lstat of an owned path; another inode is EBUSY. *)
Lstat(p) ==
  /\ Advance(p, "lstat", IF path = identity[p] THEN "unlink" ELSE "gone")
  /\ UNCHANGED <<fs, local, result, contested>>

(* unlink of whatever is at the path by now. *)
Unlink(p) ==
  /\ Advance(p, "unlink", "gone")
  /\ path' = None
  /\ UNCHANGED <<data, local, result, contested>>

(* SIGKILL, or a crash. *)
Kill(p) ==
  /\ phase[p] \notin {"open", "gone"}
  /\ phase' = [phase EXCEPT ![p] = "gone"]
  /\ result' = [result EXCEPT ![p] = "Killed"]
  /\ UNCHANGED <<fs, local, contested>>

Step(p) ==
  \/ OpenToRead(p) \/ ReadPid(p) \/ RefuseGarbage(p) \/ ProbeStale(p)
  \/ RefuseAlive(p) \/ Create(p) \/ Reopen(p) \/ RefuseChanged(p)
  \/ Truncate(p) \/ WritePid(p) \/ WriteFails(p)
  \/ EndRun(p) \/ Lstat(p) \/ Unlink(p) \/ Kill(p)

PidfileNext == \E p \in Procs : Step(p)

PidfileSpec == PidfileInit /\ [][PidfileNext]_pidfileVars

-----------------------------------------------------------------------------
(* Types; whoever cleans up owns a file. *)
PidfileTypeOK ==
  /\ path \in Inodes \cup {None}
  /\ data \in [Inodes -> Procs \cup {Stale, Garbage}]
  /\ phase \in [Procs -> {"open", "read", "probe", "reopen", "truncate", "write",
                       "running", "lstat", "unlink", "gone"}]
  /\ seen \in [Procs -> Inodes \cup {None}]
  /\ target \in [Procs -> Procs \cup {Stale, None}]
  /\ identity \in [Procs -> Inodes \cup {None}]
  /\ owned \in [Procs -> BOOLEAN]
  /\ result \in [Procs -> {"None", "Refused", "Ran", "Failed", "Killed"}]
  /\ contested \in BOOLEAN
  /\ \A p \in Procs : phase[p] \in {"lstat", "unlink"} => owned[p]

(* Unless two processes took over one file from the same stale pid, the    *)
(* pidfile of every running process is at the path and holds its pid,      *)
(* whatever other processes start, fail, crash or end.                     *)
RunningIsListed ==
  ~contested => \A p \in Procs : phase[p] = "running" =>
    path = identity[p] /\ data[path] = p

(* A process that ended by itself, after a run or a failed write, has not  *)
(* left its pid at the path, even when the file was contested              *)
(* (tests/cli_lifecycle.rs:122-176: the pidfile is gone).                  *)
EndLeavesNoPid ==
  \A p \in Procs : result[p] \in {"Ran", "Failed"} /\ phase[p] = "gone" =>
    path = None \/ data[path] # p

(* A file that names a live process, or holds no pid although a process    *)
(* may be about to write its own, is changed and removed by its owner only *)
(* (tests/pidfile_ownership.rs:37: uncertain owners keep bytes and inode). *)
UncertainKept ==
  [][ path # None /\ ~contested' /\ (data[path] = Garbage \/ Alive(data[path])) =>
      \/ path' = path /\ data'[path] = data[path]
      \/ \E p \in Procs : owned[p] /\ identity[p] = path /\ phase'[p] # phase[p] ]_pidfileVars

(* "Never remove a replacement owned elsewhere" (iperf3rs_cli.c:207): no   *)
(* process removes the file that names another, running process.           *)
NeverRemovesOthers ==
  [][ path # None /\ path' = None =>
      ~ \E p \in Procs : phase'[p] = "running" /\ data[path] = p ]_pidfileVars
=============================================================================

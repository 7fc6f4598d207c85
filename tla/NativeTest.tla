----------------------------- MODULE NativeTest -----------------------------
(***************************************************************************)
(* The native iperf_test behind IperfTest (src/src/iperf.rs) and the       *)
(* adapted C around it (src/native/iperf3rs_shim.c, source_adapter.rs):    *)
(* argument buffers that libiperf borrows, the server loop over sessions,  *)
(* and the JSON each session leaves in the one test.                       *)
(*                                                                         *)
(* The tests of a process follow each other (they hold the run lock).      *)
(* What libiperf does in a session is external: how far it builds the JSON *)
(* tree, how the session ends.                                             *)
(***************************************************************************)
EXTENDS Naturals, Integers, FiniteSets

CONSTANTS
  MaxTests,     \* bound: tests of the process
  MaxSessions,  \* bound: sessions a server accepts
  MaxParses,    \* bound: calls of parse_arguments on one test
  Nothing

ASSUME BoundsAssumption ==
  MaxTests \in Nat /\ MaxSessions \in Nat /\ MaxParses \in Nat
ASSUME NothingAssumption == Nothing \notin [session : Nat, failed : BOOLEAN]

VARIABLES
  test,         \* number of the current test
  phase,        \* "none", "built", "loop", "session", "ended", "copied",
                \* "reset", "returned"
  options,      \* what the arguments asked for: [server, one_off, json]
  buffers,      \* argv_storage: buffers alive, [test, parse]
  borrowed,     \* buffers the native test refers to
  errarg,       \* buffer the error state refers to, or Nothing
  errno,        \* i_errno: "none", "auth", "other"
  tree,         \* JSON nodes that are alive: subset of Nodes
  attached,     \* those linked into their parent
  fields,       \* those the native test refers to by a field of their own
  output,       \* json_output_string: [session, failed], or Nothing
  retained,     \* retained_json, likewise
  session,      \* number of the session
  rc,           \* result of iperf3rs_run_server_once
  interrupted,  \* iperf3rs_cli_interrupted
  result,       \* of run: "Ok", "Err", or Nothing
  idle,         \* the last session ended because nobody came (history)
  damage        \* what went wrong with memory (history)

json == <<tree, attached, fields, output>>
argv == <<buffers, borrowed, errarg>>
nativeVars == <<test, phase, options, argv, errno, json, retained, session, rc,
          interrupted, result, idle, damage>>

(* The tree: top owns start, which owns connected (and likewise intervals, *)
(* end and the server's output).                                           *)
Nodes == {"top", "start", "connected"}
Parent == [start |-> "top", connected |-> "start"]

NativeInit ==
  /\ test = 0 /\ phase = "none"
  /\ options = [server |-> FALSE, one_off |-> FALSE, json |-> FALSE]
  /\ buffers = {} /\ borrowed = {} /\ errarg = Nothing /\ errno = "none"
  /\ tree = {} /\ attached = {} /\ fields = {} /\ output = Nothing /\ retained = Nothing
  /\ session = 0 /\ rc = 0 /\ interrupted = FALSE /\ result = Nothing
  /\ idle = FALSE /\ damage = {}

Advance(from, to) == phase = from /\ phase' = to

(* current_error copies the message, and with it the borrowed argument.    *)
ReadError == IF errarg' \in buffers' \cup {Nothing} THEN {} ELSE {"dangling error"}

-----------------------------------------------------------------------------
(* Construction and arguments. *)

ConstructTest ==
  /\ test < MaxTests
  /\ Advance("none", "built")
  /\ test' = test + 1
  /\ session' = 0 /\ retained' = Nothing /\ result' = Nothing /\ idle' = FALSE
  /\ UNCHANGED <<options, argv, errno, json, rc, interrupted, damage>>

(* iperf_defaults fails: the test is dropped with the error formatted.     *)
DefaultsFail ==
  /\ phase = "built" /\ buffers = {}
  /\ phase' = "returned" /\ result' = "Err" /\ errno' = "other"
  /\ UNCHANGED argv /\ damage' = damage \cup ReadError
  /\ UNCHANGED <<test, options, json, retained, session, rc, interrupted, idle>>

StoreArguments(new) == buffers' = buffers \cup new

(* parse_arguments.  The error state is cleared first; options that name   *)
(* files are borrowed from the words, and so is an argument in error.      *)
Parse ==
  /\ phase = "built" /\ Cardinality(buffers) < MaxParses
  /\ LET new == [test |-> test, parse |-> Cardinality(buffers) + 1]
     IN /\ StoreArguments({new})
        /\ borrowed' \in {borrowed, borrowed \cup {new}}
        /\ \/ /\ options' \in [server : BOOLEAN, one_off : BOOLEAN, json : BOOLEAN]
              /\ errarg' = Nothing /\ errno' = "none"
              /\ UNCHANGED <<phase, result, damage>>
           \/ /\ errarg' \in {Nothing, new} /\ errno' = "other"
              /\ damage' = damage \cup ReadError
              /\ phase' = "returned" /\ result' = "Err"
              /\ UNCHANGED options
  /\ UNCHANGED <<test, json, retained, session, rc, interrupted, idle>>

(* Help, version, usage, or a word with a NUL: no measurement. *)
ParseRejects ==
  /\ phase = "built"
  /\ phase' = "returned" /\ result' = "Err"
  /\ UNCHANGED <<test, options, argv, errno, json, retained, session, rc,
                 interrupted, idle, damage>>

Run ==
  /\ phase = "built" /\ buffers # {}
  /\ phase' = "loop"
  /\ UNCHANGED <<test, options, argv, errno, json, retained, session, rc,
                 interrupted, result, idle, damage>>

(* A signal; CliRuntime models its handler. *)
Interrupt ==
  /\ ~interrupted /\ phase \notin {"none", "built", "returned"}
  /\ interrupted' = TRUE
  /\ UNCHANGED <<test, phase, options, argv, errno, json, retained, session, rc,
                 result, idle, damage>>

-----------------------------------------------------------------------------
(* A session (external): iperf_run_server or iperf_run_client starts a     *)
(* tree, of which any part may be missing (then the session fails) or      *)
(* unattached, and waits for a peer.                                       *)

StartSession ==
  /\ session < MaxSessions \/ (interrupted /\ session = MaxSessions)
  /\ Advance("loop", "session")
  /\ session' = session + 1 /\ idle' = FALSE
  /\ IF ~options.json THEN UNCHANGED <<tree, attached, fields, damage>>
     ELSE /\ damage' = damage \cup (IF tree # {} THEN {"leaked tree"} ELSE {})
          /\ tree' \in {{}, {"top"}, {"top", "start"}, Nodes}
          /\ attached' \in SUBSET (tree' \ {"top"})
          /\ fields' = tree'
  /\ UNCHANGED <<test, options, argv, errno, output, retained, rc,
                 interrupted, result>>

(* iperf_json_finish attaches what is left to attach, writes the string    *)
(* (freeing an earlier one, as adapted) and deletes the tree.              *)
Finish(failed) ==
  /\ output' = [session |-> session, failed |-> failed]
  /\ tree' = {} /\ attached' = {} /\ fields' = {}

EndSession(code, why) == Advance("session", "ended") /\ rc' = code /\ errno' = why

Unchanged == UNCHANGED <<test, options, argv, retained, session, interrupted,
                         result, damage>>

SessionSucceeds ==
  /\ EndSession(0, errno)
  /\ IF tree = Nodes THEN Finish(FALSE) ELSE ~options.json /\ UNCHANGED json
  /\ ~interrupted
  /\ UNCHANGED idle /\ Unchanged

(* Mutant: upstream's result for an idle server, also where upstream's tool *)
(* would have exited.                                                       *)
MutIdleOneOff ==
  /\ options.server /\ ~interrupted /\ (options.json => tree = Nodes)
  /\ EndSession(2, errno)
  /\ idle' = TRUE
  /\ UNCHANGED json
  /\ Unchanged

(* Nobody came for a while: a one-off server is done, as adapted, another  *)
(* starts over.  The tree of the session is left as it is.                 *)
SessionIdle ==
  /\ options.server /\ ~interrupted /\ (options.json => tree = Nodes)
  /\ EndSession(IF options.one_off THEN 0 ELSE 2, errno)
  /\ idle' = TRUE
  /\ UNCHANGED json
  /\ Unchanged

(* iperf3rs_run_server_once closes the tree of a failed session with its   *)
(* error; when that fails too the server ends.  Clients do so themselves,  *)
(* and a client without a whole tree does not.                             *)
SessionFails ==
  /\ \E why \in {"auth", "other"} :
       \/ /\ \E code \in IF options.server THEN {-1, -2} ELSE {-1} : EndSession(code, why)
          /\ IF tree = {} THEN UNCHANGED json ELSE Finish(TRUE)
       \/ /\ EndSession(IF options.server THEN -2 ELSE -1, why)
          /\ tree # {} /\ UNCHANGED json
  /\ UNCHANGED idle /\ Unchanged

-----------------------------------------------------------------------------
(* run_server and run_client after the call. *)

(* Mutant: only a session that left JSON replaces what is retained. *)
MutKeepRetained ==
  /\ Advance("ended", "copied")
  /\ retained' = IF output = Nothing THEN retained ELSE output
  /\ UNCHANGED <<test, options, argv, errno, json, session, rc, interrupted,
                 result, idle, damage>>

(* native_json_output, before the reset releases it. *)
CopyJson ==
  /\ Advance("ended", "copied")
  /\ retained' = output
  /\ UNCHANGED <<test, options, argv, errno, json, session, rc, interrupted,
                 result, idle, damage>>

Return(outcome) ==
  /\ phase' = "returned" /\ result' = outcome
  /\ UNCHANGED <<test, options, argv, errno, json, retained, session, rc,
                 interrupted, idle>>

(* An interrupted run is a normal exit, whatever the session returned.     *)
ReturnInterrupted == phase = "copied" /\ interrupted /\ Return("Ok") /\ UNCHANGED damage

Fatal == rc < -1 \/ (rc < 0 /\ ~options.server)

ReturnError == phase = "copied" /\ ~interrupted /\ Fatal /\ Return("Err")
               /\ damage' = damage \cup ReadError

ReturnClient ==
  /\ phase = "copied" /\ ~interrupted /\ ~options.server /\ rc >= 0
  /\ Return("Ok") /\ UNCHANGED damage

(* Mutant: every field is deleted on its own. *)
MutDeleteEach == fields

(* iperf3rs_delete_unattached: the fields that are deleted on their own.   *)
Unattached == {n \in fields : n = "top" \/ n \notin attached \/ Parent[n] \notin fields}

(* cJSON_Delete takes with a node what is attached to it.                  *)
DeletedWith(n) ==
  {m \in Nodes : \/ m = n
                 \/ m \in attached /\ (Parent[m] = n \/ (n = "top" /\ Parent[m] \in attached))}

Deleted == UNION {DeletedWith(n) : n \in Unattached}

(* What a release does wrong: it deletes, or follows, what is gone, it     *)
(* deletes twice, or it forgets a node.                                    *)
ReleaseFaults ==
  (IF \/ ~(fields \subseteq tree)
      \/ \E m, n \in Unattached : m # n /\ DeletedWith(m) \cap DeletedWith(n) # {}
   THEN {"deleted twice"} ELSE {})
  \cup (IF tree \subseteq Deleted THEN {} ELSE {"leaked tree"})

(* Mutant: the fields still refer to what was deleted. *)
MutKeepFields ==
  /\ tree' = tree \ Deleted /\ attached' = {} /\ output' = Nothing
  /\ UNCHANGED fields

(* iperf3rs_release_json *)
ReleaseJson ==
  /\ tree' = tree \ Deleted /\ attached' = {} /\ output' = Nothing
  /\ fields' = {}

(* Mutant: upstream's reset, which leaves the tree alone. *)
MutBareReset ==
  /\ options.server /\ ~interrupted /\ ~Fatal
  /\ Advance("copied", "reset")
  /\ UNCHANGED <<argv, damage, tree, attached, fields>> /\ output' = Nothing
  /\ UNCHANGED <<test, options, errno, retained, session, rc, interrupted, result, idle>>

(* A failed session is recovered from.  The server's test is reset, with   *)
(* the tree of a session that nobody came to.                              *)
ResetTest ==
  /\ options.server /\ ~interrupted /\ ~Fatal
  /\ Advance("copied", "reset")
  /\ UNCHANGED argv
  /\ ReleaseJson
  /\ damage' = damage \cup ReleaseFaults \cup (IF rc < 0 THEN ReadError ELSE {})
  /\ UNCHANGED <<test, options, errno, retained, session, rc, interrupted, result, idle>>

(* Mutant: any failed session of a one-off server is forgiven. *)
MutForgive == rc < 0

(* Authentication failures do not end a one-off server. *)
Forgiven == rc < 0 /\ errno = "auth"

ReturnOneOff ==
  /\ phase = "reset" /\ options.one_off /\ rc # 2 /\ ~Forgiven
  /\ Return("Ok") /\ UNCHANGED damage

NextSession ==
  /\ ~options.one_off \/ rc = 2 \/ Forgiven
  /\ Advance("reset", "loop")
  /\ UNCHANGED <<test, options, argv, errno, json, retained, session, rc,
                 interrupted, result, idle, damage>>

-----------------------------------------------------------------------------
ClearErrorState == errarg' = Nothing /\ errno' = "none"

(* Drop: the native test first, the error state, then the buffers.         *)
Drop ==
  /\ Advance("returned", "none")
  /\ ReleaseJson /\ ClearErrorState
  /\ buffers' = {} /\ borrowed' = {}
  /\ damage' = damage \cup ReleaseFaults
                     \cup (IF borrowed \subseteq buffers THEN {} ELSE {"dangling name"})
  /\ interrupted' = FALSE
  /\ UNCHANGED <<test, options, retained, session, rc, result, idle>>

(* The adapted select loops look at the signal: the session ends as failed *)
(* and its peer and its JSON are told why.                                 *)
InterruptEndsSession == interrupted /\ (StartSession \/ SessionFails)

AfterSession ==
  CopyJson \/ ReturnInterrupted \/ ReturnError \/ ReturnClient \/ ResetTest
  \/ ReturnOneOff \/ NextSession

Session == StartSession \/ SessionSucceeds \/ SessionIdle \/ SessionFails

NativeNext ==
  \/ ConstructTest \/ DefaultsFail \/ Parse \/ ParseRejects \/ Run \/ Interrupt
  \/ Session \/ AfterSession \/ Drop

(* The loop goes on; a session ends once a signal wakes its select.        *)
NativeSpec ==
  /\ NativeInit /\ [][NativeNext]_nativeVars
  /\ WF_nativeVars(AfterSession) /\ WF_nativeVars(InterruptEndsSession)

-----------------------------------------------------------------------------
NativeTypeOK ==
  /\ test \in 0..MaxTests /\ session \in 0..MaxSessions + 1 /\ rc \in {-2, -1, 0, 2}
  /\ phase \in {"none", "built", "loop", "session", "ended", "copied", "reset",
             "returned"}
  /\ options \in [server : BOOLEAN, one_off : BOOLEAN, json : BOOLEAN]
  /\ buffers \cup borrowed \subseteq [test : 1..MaxTests, parse : 1..MaxParses]
  /\ errno \in {"none", "auth", "other"}
  /\ tree \cup fields \subseteq Nodes /\ attached \subseteq tree
  /\ {output, retained} \subseteq
       [session : 1..MaxSessions + 1, failed : BOOLEAN] \cup {Nothing}
  /\ {interrupted, idle} \subseteq BOOLEAN /\ result \in {"Ok", "Err", Nothing}

(* The JSON a finished run reports is that of its last session, with the   *)
(* error when that one failed, and not of an earlier session of the same   *)
(* server (src/src/iperf.rs:367-368).  With -J there is one unless the     *)
(* session ended because nobody came: then there is none.                  *)
RetainedIsLast ==
  phase = "returned" =>
    /\ retained # Nothing =>
         retained.session = session /\ (retained.failed <=> rc < 0) /\ ~idle
    /\ options.json /\ rc = 0 /\ ~idle /\ result = "Ok" => retained # Nothing

(* Whatever sessions and tests follow each other, no JSON tree is lost     *)
(* when a session or a test ends, none is deleted twice, whichever of its  *)
(* nodes exist and are attached, nothing outlives the test that owns it,   *)
(* and neither the error state nor the native test refers to an argument   *)
(* buffer that is gone (src/src/iperf.rs:411-412).                         *)
MemorySound ==
  /\ damage = {}
  /\ borrowed \subseteq buffers
  /\ phase = "none" => tree = {} /\ output = Nothing /\ errarg = Nothing

(* A one-off server whose session has ended returns, in whatever way it    *)
(* ended but by a failed authentication: served, failed, or because nobody *)
(* came; and so does every run that a signal interrupts.                   *)
RunReturns ==
  /\ (phase = "ended" /\ options.one_off /\ options.server /\ ~(errno = "auth" /\ rc < 0))
       ~> phase = "returned"
  /\ interrupted ~> phase = "returned"
=============================================================================

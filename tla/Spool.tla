-------------------------------- MODULE Spool ---------------------------------
(***************************************************************************)
(* The spool of ambient writes (core/spool.py) and the phase of the cycle  *)
(* that replays it (govern/jobs/spool_drain.py).                           *)
(*                                                                         *)
(* A writer opens the file of its process and day for appending and writes *)
(* one envelope.  A drain claims files by renaming them, the leftovers of  *)
(* other drains included, replays every line through ingest, puts aside    *)
(* the lines it cannot replay, and removes the file.  Several cycles may   *)
(* drain at a time, and any of them may be killed at any step.             *)
(*                                                                         *)
(* The claim an envelope becomes is kept with as much of the store as the  *)
(* replay depends on: a repeated ingest revives a claim archived in the    *)
(* ordinary way and leaves a forgotten one alone.                          *)
(***************************************************************************)
EXTENDS Naturals, FiniteSets

CONSTANTS
  Memories,     \* envelopes to be spooled, each with content of its own
  Writers,      \* processes that append, each with one file a day
  By,           \* the writer of each envelope
  Drainers,     \* processes that run the cycle
  RenameOpen,   \* a file can be renamed while a writer has it open (POSIX)
  ReadFaults,   \* reading a file that exists may fail
  MaxCrashes    \* bound on the drains that are killed

ASSUME SpoolAssumption ==
  /\ IsFiniteSet(Memories)
  /\ By \in [Memories -> Writers]
  /\ RenameOpen \in BOOLEAN /\ ReadFaults \in BOOLEAN
  /\ MaxCrashes \in Nat

VARIABLES
  append,       \* progress of each append
  handle,       \* the file each append has opened
  path,         \* where each file is
  lines,        \* what each file holds
  drain,        \* what each drain does
  claim,        \* the claim each envelope has become
  quarantine,   \* the envelopes put aside
  crashes

vars == <<append, handle, path, lines, drain, claim, quarantine, crashes>>

spoolFiles == <<append, handle, path, lines>>
outcomes == <<claim, quarantine>>

\* A file is named after the append that created it.  The order of the lines
\* of a file is left open.
NoFile == "no file"
Files == Memories
NoLine == "no line"

ClaimStatus == {"none", "live", "archived", "forgotten"}
Claim == [status : ClaimStatus, rows : Nat]

\* The drain lists the leftovers, then the pending files ("list"), renames
\* those ("rename"), and works through todo ("drain"): it reads a file, and
\* replays the lines left of its text one at a time ("replay"); an ingest
\* that found nothing is about to insert its line ("insert").
DrainState == [pc    : {"idle", "list", "rename", "drain", "replay", "insert"},
               names : SUBSET Files,
               todo  : SUBSET Files,
               file  : Files \cup {NoFile},
               text  : SUBSET Memories,
               line  : Memories \cup {NoLine}]

At(pc, names, todo, file, text, line) ==
  [pc |-> pc, names |-> names, todo |-> todo, file |-> file, text |-> text, line |-> line]

Idle == At("idle", {}, {}, NoFile, {}, NoLine)
Claiming(pc, names, todo) == At(pc, names, todo, NoFile, {}, NoLine)

TypeOK ==
  /\ append \in [Memories -> {"unwritten", "open", "written", "aborted"}]
  /\ handle \in [Memories -> Files \cup {NoFile}]
  /\ path \in [Files -> {"none", "pending", "draining", "removed"}]
  /\ lines \in [Files -> SUBSET Memories]
  /\ drain \in [Drainers -> DrainState]
  /\ claim \in [Memories -> Claim]
  /\ quarantine \subseteq Memories
  /\ crashes \in 0 .. MaxCrashes

Init ==
  /\ append = [m \in Memories |-> "unwritten"]
  /\ handle = [m \in Memories |-> NoFile]
  /\ path = [f \in Files |-> "none"]
  /\ lines = [f \in Files |-> {}]
  /\ drain = [d \in Drainers |-> Idle]
  /\ claim = [m \in Memories |-> [status |-> "none", rows |-> 0]]
  /\ quarantine = {}
  /\ crashes = 0
-----------------------------------------------------------------------------
(* append *)

\* The file a writer finds under its name.
Pending(w) == {f \in Files : path[f] = "pending" /\ By[f] = w}

\* open(target, "a"): the file under that name, or a new one.
Open(m) ==
  LET f == IF Pending(By[m]) = {} THEN m ELSE CHOOSE g \in Pending(By[m]) : TRUE IN
  /\ append[m] = "unwritten"
  /\ append' = [append EXCEPT ![m] = "open"]
  /\ handle' = [handle EXCEPT ![m] = f]
  /\ path' = [path EXCEPT ![f] = "pending"]
  /\ UNCHANGED <<lines, drain, outcomes, crashes>>

\* The single write, wherever the file is by now, and the close.
Write(m) ==
  /\ append[m] = "open"
  /\ append' = [append EXCEPT ![m] = "written"]
  /\ lines' = [lines EXCEPT ![handle[m]] = @ \cup {m}]
  /\ UNCHANGED <<handle, path, drain, outcomes, crashes>>

\* The writer dies with the file open.
Abort(m) ==
  /\ append[m] = "open"
  /\ append' = [append EXCEPT ![m] = "aborted"]
  /\ UNCHANGED <<handle, path, lines, drain, outcomes, crashes>>
-----------------------------------------------------------------------------
(* claim_files *)

Enter(d, state) == drain' = [drain EXCEPT ![d] = state]

\* Mutant: what a crashed drain has left is not claimed again.
ListNoLeftovers(d) ==
  /\ drain[d].pc = "idle"
  /\ Enter(d, Claiming("list", {}, {}))
  /\ UNCHANGED <<spoolFiles, outcomes, crashes>>

ListLeftovers(d) ==
  /\ drain[d].pc = "idle"
  /\ Enter(d, Claiming("list", {}, {f \in Files : path[f] = "draining"}))
  /\ UNCHANGED <<spoolFiles, outcomes, crashes>>

ListPending(d) ==
  /\ drain[d].pc = "list"
  /\ Enter(d, Claiming("rename", {f \in Files : path[f] = "pending"}, drain[d].todo))
  /\ UNCHANGED <<spoolFiles, outcomes, crashes>>

IsOpen(f) == \E m \in Memories : append[m] = "open" /\ handle[m] = f

\* Mutant: a file is claimed although a writer has it open.
CanRenameOpen(f) == path[f] = "pending"

\* A file another drain has renamed is skipped, and one that is open where
\* that keeps it from being renamed.
CanRename(f) == path[f] = "pending" /\ (RenameOpen \/ ~ IsOpen(f))

Rename(d, f) ==
  /\ drain[d].pc = "rename" /\ f \in drain[d].names
  /\ IF CanRename(f)
     THEN /\ path' = [path EXCEPT ![f] = "draining"]
          /\ Enter(d, Claiming("rename", drain[d].names \ {f}, drain[d].todo \cup {f}))
     ELSE /\ Enter(d, Claiming("rename", drain[d].names \ {f}, drain[d].todo))
          /\ UNCHANGED path
  /\ UNCHANGED <<append, handle, lines, outcomes, crashes>>

ClaimedAll(d) ==
  /\ drain[d].pc = "rename" /\ drain[d].names = {}
  /\ Enter(d, Claiming("drain", {}, drain[d].todo))
  /\ UNCHANGED <<spoolFiles, outcomes, crashes>>
-----------------------------------------------------------------------------
(* run: the lines of each file *)

\* Mutant: the text is not split into lines.
ReadWhole(f, readable) ==
  IF path[f] = "draining" /\ readable THEN {lines[f]} ELSE {}

\* read_lines: nothing, when another drain has removed the file or an OSError
\* keeps it from being read.
ReadLines(f, readable) ==
  IF path[f] = "draining" /\ readable THEN lines[f] ELSE {}

Read(d, f, readable) ==
  /\ drain[d].pc = "drain" /\ f \in drain[d].todo
  /\ readable \/ ReadFaults
  /\ Enter(d, At("replay", {}, drain[d].todo \ {f}, f, ReadLines(f, readable), NoLine))
  /\ UNCHANGED <<spoolFiles, outcomes, crashes>>

\* The drain has dealt with the line m.
Done(d, m) ==
  Enter(d, At("replay", {}, drain[d].todo, drain[d].file, drain[d].text \ {m}, NoLine))

\* The drain is at line m: before the look-up, or about to insert.
Taking(d, m) == drain[d].pc = "replay" /\ m \in drain[d].text
Inserting(d, m) == drain[d].pc = "insert" /\ m = drain[d].line

Becomes(m, status, rows) == [claim EXCEPT ![m] = [status |-> status, rows |-> rows]]

\* ingest finds a claim under the key or the content, and revives it unless
\* it was forgotten.  The version guard makes look-up and revival one step.
ReplayFound(d, m) ==
  /\ Taking(d, m)
  /\ claim[m].status # "none"
  /\ claim' = IF claim[m].status = "archived"
              THEN Becomes(m, "live", claim[m].rows) ELSE claim
  /\ Done(d, m)
  /\ UNCHANGED <<spoolFiles, quarantine, crashes>>

ReplayAbsent(d, m) ==
  /\ Taking(d, m)
  /\ claim[m].status = "none"
  /\ Enter(d, At("insert", {}, drain[d].todo, drain[d].file, drain[d].text, m))
  /\ UNCHANGED <<spoolFiles, outcomes, crashes>>

\* Mutant: no unique index stands behind the look-up.
InsertUnchecked(d, m) ==
  /\ Inserting(d, m)
  /\ claim' = Becomes(m, "live", claim[m].rows + 1)
  /\ Done(d, m)
  /\ UNCHANGED <<spoolFiles, quarantine, crashes>>

\* The insert, unless the unique index or the second look for forgotten
\* content returns the claim another process has made in the meantime.
Insert(d, m) ==
  /\ Inserting(d, m)
  /\ claim' = IF claim[m].status = "none"
              THEN Becomes(m, "live", claim[m].rows + 1) ELSE claim
  /\ Done(d, m)
  /\ UNCHANGED <<spoolFiles, quarantine, crashes>>

\* An envelope that is not valid, or an exception of the replay.
QuarantineLine(d, m) ==
  /\ Taking(d, m) \/ Inserting(d, m)
  /\ quarantine' = quarantine \cup {m}
  /\ Done(d, m)
  /\ UNCHANGED <<spoolFiles, claim, crashes>>

\* After the last line the file is removed; a file that is gone is not missed.
Unlink(d) ==
  /\ drain[d].pc = "replay" /\ drain[d].text = {}
  /\ path' = [path EXCEPT ![drain[d].file] = "removed"]
  /\ Enter(d, Claiming("drain", {}, drain[d].todo))
  /\ UNCHANGED <<append, handle, lines, outcomes, crashes>>

DrainEnds(d) ==
  /\ drain[d].pc = "drain" /\ drain[d].todo = {}
  /\ Enter(d, Idle)
  /\ UNCHANGED <<spoolFiles, outcomes, crashes>>

\* The process of the drain is killed.
Crash(d) ==
  /\ drain[d].pc # "idle" /\ crashes < MaxCrashes
  /\ crashes' = crashes + 1
  /\ Enter(d, Idle)
  /\ UNCHANGED <<spoolFiles, outcomes>>
-----------------------------------------------------------------------------
(* The store around it *)

Retire(m, status) ==
  /\ claim[m].status = "live" /\ status \in {"archived", "forgotten"}
  /\ claim' = Becomes(m, status, claim[m].rows)
  /\ UNCHANGED <<spoolFiles, drain, quarantine, crashes>>
-----------------------------------------------------------------------------
Drain(d) ==
  \/ ListLeftovers(d) \/ ListPending(d) \/ ClaimedAll(d)
  \/ \E f \in Files : Rename(d, f)
  \/ \E f \in Files, readable \in BOOLEAN : Read(d, f, readable)
  \/ \E m \in Memories :
       ReplayFound(d, m) \/ ReplayAbsent(d, m) \/ Insert(d, m) \/ QuarantineLine(d, m)
  \/ Unlink(d) \/ DrainEnds(d)

Next ==
  \/ \E m \in Memories : Open(m) \/ Write(m) \/ Abort(m)
  \/ \E d \in Drainers : Drain(d) \/ Crash(d)
  \/ \E m \in Memories, status \in {"archived", "forgotten"} : Retire(m, status)

Spec == Init /\ [][Next]_vars

\* An append ends one way or the other, and every process that runs cycles
\* goes on with its drain and starts another one.
FairSpec ==
  /\ Spec
  /\ \A m \in Memories : WF_vars(Write(m) \/ Abort(m))
  /\ \A d \in Drainers : WF_vars(Drain(d))
-----------------------------------------------------------------------------
OnDisk(f) == path[f] \in {"pending", "draining"}

\* The envelope was replayed or put aside.
Handled(m) == claim[m].status # "none" \/ m \in quarantine

\* What was written is not lost: an envelope is in a file that will be
\* drained, until it was replayed or quarantined, whatever the drains, their
\* crashes and the writers do to each other's files.
NothingLost ==
  \A m \in Memories :
    append[m] = "written" =>
      \/ Handled(m)
      \/ OnDisk(handle[m]) /\ m \in lines[handle[m]]

\* Drains that replay the same file, together or after a crash, make one
\* claim of an envelope.
OneClaimEach == \A m \in Memories : claim[m].rows <= 1

\* Every envelope is replayed or quarantined in the end, although drains die
\* and others work on the same files.
EveryEnvelopeIsHandled == \A m \in Memories : append[m] = "written" ~> Handled(m)

\* Replaying an envelope once more leaves its claim as it is.
ReplayIsIdempotent ==
  [][\A d \in Drainers, m \in Memories :
       /\ Taking(d, m) /\ m \notin drain'[d].text
       /\ claim[m].rows > 0
       => claim'[m] = claim[m]]_vars
=============================================================================

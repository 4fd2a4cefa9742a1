------------------------------ MODULE ClaimStore ------------------------------
(***************************************************************************)
(* The claims table under concurrent callers.  MCP servers, hooks, the     *)
(* steward, the command line and the dashboard are separate processes on   *)
(* one SQLite file.  A caller reads a row, decides, and writes in a later  *)
(* transaction, so between the two any other caller may have written.      *)
(*                                                                         *)
(* A process is idle, or holds one pending call: the arguments it decided  *)
(* on and the image of the row it read (job).  Load* actions are the read  *)
(* and the checks made on it, Commit* actions the transaction, Abandon the *)
(* end of a call without a write: an error raised in the transaction, or   *)
(* the death of the process.  The callers are arbitrary: every call the    *)
(* interface accepts may be made at any time.                              *)
(***************************************************************************)
EXTENDS ClaimTable, FiniteSets

CONSTANTS
  Procs,       \* the processes that call the store
  MaxPinned    \* bound on the claims pinned at one time, for model checking

VARIABLE job     \* Procs -> the pending call of the process

vars == <<claims, log, job>>

\* The operations that read in one transaction and write in another.
Op == {"transition", "supersede", "revive", "ingest"}

Call(op, c, to, why, other) ==
  [op |-> op, claim |-> c, to |-> to, why |-> why, other |-> other, img |-> ImageOf(c)]

Calls == [op : Op, claim : Claims, to : Status, why : {"ordinary", "forget"},
          other : Claims \cup {None}, img : Image]

Idle == [op |-> "idle"]

TypeOK ==
  /\ TableTypeOK
  /\ job \in [Procs -> Calls \cup {Idle}]

Init ==
  /\ TableInit
  /\ job = [p \in Procs |-> Idle]

Begin(p, call) ==
  /\ job[p] = Idle
  /\ job' = [job EXCEPT ![p] = call]
  /\ UNCHANGED tableVars

End(p) == job' = [job EXCEPT ![p] = Idle]
-----------------------------------------------------------------------------
(* The read of a call, with the checks made on what was read *)

\* transition_claim up to the call of apply_status_transition.  other is the
\* claim a confirmation supersedes, or else the replacement the caller names:
\* required for "superseded", accepted for every other status (a steward's
\* approval passes one with "stale" and "conflicted", steward.py:1471-1479).
LoadTransition(p, c, to, other) ==
  /\ CanTransition(claims[c].status, to)
  /\ other # c
  /\ to = "superseded" => other # None
  /\ other # None => Exists(other)
  /\ Begin(p, Call("transition", c, to, "ordinary", other))

LoadArchive(p, c, why) ==
  /\ Exists(c) /\ claims[c].status # "archived"
  /\ Begin(p, Call("transition", c, "archived", why, None))

\* One claim of archive_by_source, which calls apply_status_transition directly.
LoadArchiveBySource(p, c) == LoadArchive(p, c, "ordinary")

\* forget(claim_id, apply=True), likewise.
LoadForget(p, c) == LoadArchive(p, c, "forget")

\* mark_superseded up to its transaction.
LoadSupersede(p, old, new) ==
  /\ old # new /\ Exists(new)
  /\ claims[old].replacedBy = None
  /\ CanTransition(claims[old].status, "superseded")
  /\ Begin(p, Call("supersede", old, "superseded", "ordinary", new))

\* _revive_archived_dedup_match up to its transaction.
LoadRevive(p, c) ==
  /\ claims[c].status = "archived"
  /\ log[c].archive # "forget"
  /\ Begin(p, Call("revive", c, "candidate", "ordinary", None))

\* ingest up to create_claim: no row has the key, and the content is not
\* retired yet.
LoadIngest(p, c) ==
  /\ ~ Exists(c)
  /\ ~ RetiredContent(c)
  /\ Begin(p, Call("ingest", c, "candidate", "ordinary", None))
-----------------------------------------------------------------------------
(* The transaction of a call *)

CommitTransition(p) ==
  LET j == job[p] IN
  /\ j.op = "transition" /\ j.to # "confirmed"
  /\ TransitionTx(j.claim, j.img, j.to, j.why, j.other)
  /\ End(p)

CommitConfirm(p) ==
  LET j == job[p] IN
  /\ j.op = "transition" /\ j.to = "confirmed"
  /\ ConfirmTx(j.claim, j.img, j.other)
  /\ End(p)

CommitHandover(p) ==
  LET j == job[p] IN
  /\ j.op = "transition" /\ j.to = "confirmed"
  /\ HandoverTx(j.claim, j.img, j.other)
  /\ End(p)

CommitSupersede(p) ==
  LET j == job[p] IN
  /\ j.op = "supersede"
  /\ MarkSupersededTx(j.claim, j.img, j.other)
  /\ End(p)

CommitRevive(p) ==
  LET j == job[p] IN
  /\ j.op = "revive"
  /\ ReviveTx(j.claim, j.img)
  /\ End(p)

CommitIngest(p) ==
  LET j == job[p] IN
  /\ j.op = "ingest"
  /\ InsertTx(j.claim)
  /\ End(p)

\* A version mismatch, a violated index, a refused revival, a crash.
Abandon(p) ==
  /\ job[p] # Idle
  /\ End(p)
  /\ UNCHANGED tableVars
-----------------------------------------------------------------------------
(* Calls that read and write in one transaction *)

Supersede(old, new) == old # new /\ SupersedeClaimTx(old, new) /\ UNCHANGED job

Compact(c) == CompactTx(c) /\ UNCHANGED job

SetPinned(c, b) ==
  /\ b => Cardinality({d \in Claims : claims[d].pinned}) < MaxPinned
  /\ SetPinnedTx(c, b)
  /\ UNCHANGED job

Load(p) ==
  \/ \E c \in Claims, to \in Status, other \in Claims \cup {None} :
       LoadTransition(p, c, to, other)
  \/ \E c \in Claims : \/ LoadArchiveBySource(p, c)
                       \/ LoadForget(p, c)
                       \/ LoadRevive(p, c)
                       \/ LoadIngest(p, c)
  \/ \E old, new \in Claims : LoadSupersede(p, old, new)

Commit(p) ==
  \/ CommitTransition(p)
  \/ CommitConfirm(p)
  \/ CommitHandover(p)
  \/ CommitSupersede(p)
  \/ CommitRevive(p)
  \/ CommitIngest(p)

Next ==
  \/ \E p \in Procs : Load(p) \/ Commit(p) \/ Abandon(p)
  \/ \E old, new \in Claims : Supersede(old, new)
  \/ \E c \in Claims : Compact(c)
  \/ \E c \in Claims, b \in BOOLEAN : SetPinned(c, b)

Spec == Init /\ [][Next]_vars
-----------------------------------------------------------------------------
(* Safety *)

\* The version guard is enough: an image that still has the version of its
\* row also has its status and its replacement link, whoever wrote in
\* between (apply_status_transition writes both from the image).
CurrentImagesAreExact ==
  \A p \in Procs :
    LET j == job[p] IN
    j # Idle /\ Current(j.claim, j.img) /\ j.op # "ingest" =>
      /\ claims[j.claim].status = j.img.status
      /\ claims[j.claim].replacedBy = j.img.replacedBy

\* Every status write is in the event log, those of both claims of a handover
\* included: replaying the log gives the status of every row.
LogAgrees == \A c \in Claims : log[c].to = claims[c].status

\* A claim archived because somebody asked to forget it stays archived,
\* whatever calls were pending when it was forgotten.
ForgottenStaysArchived ==
  \A c \in Claims : log[c].archive = "forget" => claims[c].status = "archived"

\* A superseded claim references a successor that exists.
SupersededHasSuccessor ==
  \A c \in Claims :
    claims[c].status = "superseded" =>
      claims[c].replacedBy \in Claims /\ Exists(claims[c].replacedBy)

\* A back link is backed: the claim it names was retired in favour of somebody.
BackLinkBacked ==
  \A c \in Claims :
    claims[c].supersedes # None => claims[claims[c].supersedes].replacedBy # None

(* Action properties *)

\* A replacement link, once written, is never erased: a stale image cannot
\* write its NULL over it.
ReplacementNeverErased ==
  [][\A c \in Claims : claims[c].replacedBy # None => claims'[c].replacedBy # None]_vars

\* Content that was forgotten before an ingest commits is not inserted,
\* even when the ingest had looked before.
ForgottenContentNotReinserted ==
  [][\A c \in Claims : ~ Exists(c) /\ claims'[c].status # Absent => ~ RetiredContent(c)]_vars

\* The store implements the abstract life cycle.
Abstract == INSTANCE ClaimLifecycle WITH
  status <- [c \in Claims |-> claims[c].status],
  forgotten <- {c \in Claims : log[c].archive = "forget"}

ImplementsLifecycle == Abstract!Spec
=============================================================================

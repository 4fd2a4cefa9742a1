----------------------------- MODULE VectorMirror -----------------------------
(***************************************************************************)
(* The vector index as a mirror of the claims: the writes that follow a    *)
(* change of a claim (core/service.py, scheduled_archive.py), the outbox   *)
(* of the writes that failed (recall/qdrant_outbox.py), the switch that    *)
(* freezes the index (recall/qdrant_backend.py), and the daily job that    *)
(* makes the index agree again (govern/jobs/qdrant_reconcile.py).          *)
(*                                                                         *)
(* No write of the index is in the transaction of the change it follows.   *)
(* A process sends the image it read, and by the time it lands the claim   *)
(* may have changed again; the process may die before it sends anything;   *)
(* most changes of a claim send nothing at all.                            *)
(*                                                                         *)
(* An image is the version of the claim it was read at: every change that  *)
(* is modelled changes the content hash, which covers the status.  Claims  *)
(* that are sensitive, and points without a valid payload, are left out,   *)
(* and so is the limit of 500 entries a replay works through.              *)
(***************************************************************************)
EXTENDS Naturals, Sequences, FiniteSets

CONSTANTS
  Claims,
  Processes,   \* processes that change claims and write the index
  Connected,   \* those whose service has a vector backend
  Threads,     \* those that share the memory, and the lock, of the daily job
  Capacity,    \* entries the outbox accepts
  MaxChanges,  \* bound on the changes of each claim
  MaxFaults,   \* bound on failed calls of the backend and on deaths
  MaxToggles   \* bound on the turns of the switch

ASSUME VectorMirrorAssumption ==
  /\ IsFiniteSet(Claims)
  /\ Connected \subseteq Processes
  /\ Threads \subseteq Processes
  /\ MaxChanges \in [Claims -> Nat]
  /\ {Capacity, MaxFaults, MaxToggles} \subseteq Nat

VARIABLES
  row,        \* the claims: what becomes of them matters by four statuses
  index,      \* the point of each claim: the image it holds, or none
  flight,     \* the write each process is about to make
  outbox,     \* the file of the writes that failed
  job,        \* the daily reconciliation
  cursor,     \* the claims the last sync_all got through before it stopped
  frozen,     \* MEMORYMASTER_QDRANT_WRITES is not set
  toggles, faults

vars == <<row, index, flight, outbox, job, cursor, frozen, toggles, faults>>

environment == <<frozen, toggles>>

-----------------------------------------------------------------------------
(* The state. *)

Status == {"none", "live", "superseded", "archived"}
Removed == 0
Row == [status : Status, version : Nat]

\* A write puts an image in the index or removes the point.
Write == [claim : Claims, image : Nat]
NoWrite == [none |-> TRUE]

\* What becomes of a write that fails: it is queued or it is dropped.  A
\* process without a backend queues its write and makes none.
Flight == [claim : Claims, image : Nat, via : {"queued", "dropped", "outbox"}]

\* An entry of the outbox names the claim and what to do; the image is read
\* again when it is replayed.
Entry == [claim : Claims, op : {"upsert", "delete"}]

EntryOf(w) == [claim |-> w.claim, op |-> IF w.image = Removed THEN "delete" ELSE "upsert"]

NoPoints == [c \in Claims |-> Removed]

Job == [pc      : {"idle", "refs", "live", "outbox", "orphans", "all"},
        todo    : SUBSET Claims,                   \* claims still to visit
        refs    : [Claims -> Nat],       \* the points that were listed
        entries : Seq(Entry),                      \* entries still to replay
        kept    : Seq(Entry),                      \* entries that stay
        full    : BOOLEAN,                         \* asked for, or too much drift
        write   : Write \cup {NoWrite}]            \* decided, not yet made

JobAt(pc, todo, refs, full) ==
  [pc |-> pc, todo |-> todo, refs |-> refs, entries |-> <<>>, kept |-> <<>>,
   full |-> full, write |-> NoWrite]

Replaying(entries, full) ==
  [JobAt("outbox", {}, NoPoints, full) EXCEPT !.entries = entries]

IdleJob == JobAt("idle", {}, NoPoints, FALSE)

TypeOK ==
  /\ row \in [Claims -> Row]
  /\ index \in [Claims -> Nat]
  /\ flight \in [Processes -> Flight \cup {NoWrite}]
  /\ outbox \in Seq(Entry) /\ Len(outbox) <= Capacity
  /\ job \in Job
  /\ cursor \subseteq Claims
  /\ frozen \in BOOLEAN
  /\ toggles \in 0..MaxToggles /\ faults \in 0..MaxFaults

Init ==
  /\ row = [c \in Claims |-> [status |-> "none", version |-> 0]]
  /\ index = NoPoints
  /\ flight = [p \in Processes |-> NoWrite]
  /\ outbox = <<>>
  /\ job = IdleJob
  /\ cursor = {}
  /\ frozen = TRUE
  /\ toggles = 0 /\ faults = 0

-----------------------------------------------------------------------------
(* Changes of claims, and the writes that follow some of them. *)

Live(c) == row[c].status = "live"
Gone(c) == row[c].status \in {"none", "archived"}

Change(c, s) ==
  /\ row[c].version < MaxChanges[c]
  /\ row' = [row EXCEPT ![c] = [status |-> s, version |-> @.version + 1]]

Send(p, w) == flight[p] = NoWrite /\ flight' = [flight EXCEPT ![p] = w]

\* An ingest stores a claim, or revives an archived one.
Receive(p, c) ==
  /\ Gone(c)
  /\ Change(c, "live")
  /\ IF p \in Connected
       THEN Send(p, [claim |-> c, image |-> row'[c].version, via |-> "queued"])
       ELSE UNCHANGED flight
  /\ UNCHANGED <<index, outbox, job, cursor, environment, faults>>

\* Everything else that changes a claim tells the index nothing.
ChangeQuietly(c) ==
  /\ \/ Live(c) /\ \E s \in {"live", "superseded", "archived"} : Change(c, s)
     \/ row[c].status = "superseded" /\ Change(c, "archived")
  /\ UNCHANGED <<index, flight, outbox, job, cursor, environment, faults>>

\* The archive job sends the removal, or queues it where there is no backend.
ScheduledArchive(p, c) ==
  /\ Live(c)
  /\ Change(c, "archived")
  /\ Send(p, [claim |-> c, image |-> Removed,
              via |-> IF p \in Connected THEN "queued" ELSE "outbox"])
  /\ UNCHANGED <<index, outbox, job, cursor, environment, faults>>

\* The end of a cycle sends claims again, and forgets the writes that fail.
PostCycleSync(p, c) ==
  /\ p \in Connected
  /\ Live(c)
  /\ Send(p, [claim |-> c, image |-> row[c].version, via |-> "dropped"])
  /\ UNCHANGED <<row, index, outbox, job, cursor, environment, faults>>

-----------------------------------------------------------------------------
(* Writes. *)

\* A frozen index answers that the write is done, and is not written.
Put(w) == index' = IF frozen THEN index ELSE [index EXCEPT ![w.claim] = w.image]

Deliver(p) ==
  /\ flight[p] # NoWrite /\ flight[p].via # "outbox"
  /\ Put(flight[p])
  /\ flight' = [flight EXCEPT ![p] = NoWrite]
  /\ UNCHANGED <<row, outbox, job, cursor, environment, faults>>

Fault == faults < MaxFaults /\ faults' = faults + 1

NotDelivered(p) ==
  /\ Fault
  /\ ~frozen
  /\ flight[p] # NoWrite /\ flight[p].via # "outbox"
  /\ flight' = [flight EXCEPT ![p] = IF @.via = "queued" THEN [@ EXCEPT !.via = "outbox"]
                                                         ELSE NoWrite]
  /\ UNCHANGED <<row, index, outbox, job, cursor, environment>>

\* The lock of the outbox is a lock of threads: it keeps the others of the
\* process of the daily job out while the job replays.
Locked(p) == p \in Threads /\ job.pc = "outbox"

\* A full outbox turns the entry away, which is logged.
Enqueue(p) ==
  /\ flight[p] # NoWrite /\ flight[p].via = "outbox"
  /\ ~Locked(p)
  /\ outbox' = IF Len(outbox) < Capacity THEN Append(outbox, EntryOf(flight[p])) ELSE outbox
  /\ flight' = [flight EXCEPT ![p] = NoWrite]
  /\ UNCHANGED <<row, index, job, cursor, environment, faults>>

ProcessDies(p) ==
  /\ Fault
  /\ flight[p] # NoWrite
  /\ flight' = [flight EXCEPT ![p] = NoWrite]
  /\ UNCHANGED <<row, index, outbox, job, cursor, environment>>

Toggle ==
  /\ toggles < MaxToggles
  /\ toggles' = toggles + 1
  /\ frozen' = ~frozen
  /\ UNCHANGED <<row, index, flight, outbox, job, cursor, faults>>

-----------------------------------------------------------------------------
(* The daily job. *)

HasPoint(c) == index[c] # Removed

\* The points are counted and listed.  A full run, which also removes orphans
\* and syncs everything, is asked for or follows from counts that differ by
\* more than the threshold.
Start(full) ==
  /\ job.pc = "idle"
  /\ job' = JobAt("refs", {c \in Claims : HasPoint(c)}, index, full)
  /\ UNCHANGED <<row, index, flight, outbox, cursor, environment, faults>>

\* What the job does about a claim it visits: in the pass over the points it
\* compares, in the pass over the claims without a point it does not look at
\* the status again, and sync_all takes live claims only.
Wanted(c) ==
  IF job.pc = "orphans" \/ (job.pc = "refs" /\ Gone(c)) THEN Removed ELSE row[c].version

\* Mutant: a point that exists is taken for current.
NeedlessIfPresent(c) ==
  \/ job.pc = "refs" /\ ~Gone(c)
  \/ job.pc = "all" /\ ~Live(c)

Needless(c) ==
  \/ job.pc = "refs" /\ Wanted(c) = job.refs[c]
  \/ job.pc = "all" /\ ~Live(c)

Visit(c) ==
  /\ job.pc # "outbox"
  /\ job.write = NoWrite
  /\ c \in job.todo
  /\ job' = [job EXCEPT !.todo = @ \ {c},
                        !.write = IF Needless(c) THEN NoWrite
                                  ELSE [claim |-> c, image |-> Wanted(c)]]
  /\ UNCHANGED <<row, index, flight, outbox, cursor, environment, faults>>

\* A removal is replayed as it stands; anything else looks at the claim.
ReplayedImage(e) ==
  IF e.op = "delete" \/ Gone(e.claim) THEN Removed ELSE row[e.claim].version

ReplayNext ==
  /\ job.pc = "outbox"
  /\ job.write = NoWrite
  /\ job.entries # <<>>
  /\ LET e == Head(job.entries)
     IN  job' = [job EXCEPT !.write = [claim |-> e.claim, image |-> ReplayedImage(e)]]
  /\ UNCHANGED <<row, index, flight, outbox, cursor, environment, faults>>

JobWrites ==
  /\ job.write # NoWrite
  /\ Put(job.write)
  /\ job' = [job EXCEPT !.write = NoWrite,
                        !.entries = IF job.pc = "outbox" THEN Tail(@) ELSE @]
  /\ cursor' = IF job.pc = "all" THEN cursor \cup {job.write.claim} ELSE cursor
  /\ UNCHANGED <<row, flight, outbox, environment, faults>>

\* An entry that fails stays; sync_all stops at a page that fails.
JobWriteFails ==
  /\ Fault
  /\ ~frozen
  /\ job.write # NoWrite
  /\ CASE job.pc = "outbox" ->
            job' = [job EXCEPT !.write = NoWrite,
                               !.entries = Tail(@),
                               !.kept = Append(@, Head(job.entries))]
       [] job.pc = "all" -> job' = IdleJob
       [] OTHER -> job' = [job EXCEPT !.write = NoWrite]
  /\ UNCHANGED <<row, index, flight, outbox, cursor, environment>>

Finished(pc) == job.pc = pc /\ job.write = NoWrite /\ job.todo = {} /\ job.entries = <<>>

PointsVisited ==
  /\ Finished("refs")
  /\ job' = JobAt("live", {c \in Claims : Live(c) /\ job.refs[c] = Removed}, NoPoints, job.full)
  /\ UNCHANGED <<row, index, flight, outbox, cursor, environment, faults>>

ExactDone ==
  /\ Finished("live")
  /\ job' = Replaying(outbox, job.full)
  /\ UNCHANGED <<row, index, flight, outbox, cursor, environment, faults>>

\* The file is replaced by the entries that stay, whatever it holds by now.
ReplayDone ==
  /\ Finished("outbox")
  /\ outbox' = job.kept
  /\ job' = IF job.full
              THEN JobAt("orphans", {c \in Claims : HasPoint(c) /\ ~Live(c)}, NoPoints, TRUE)
              ELSE IdleJob
  /\ UNCHANGED <<row, index, flight, cursor, environment, faults>>

OrphansDone ==
  /\ Finished("orphans")
  /\ job' = JobAt("all", Claims \ cursor, NoPoints, TRUE)
  /\ UNCHANGED <<row, index, flight, outbox, cursor, environment, faults>>

SyncAllDone ==
  /\ Finished("all")
  /\ job' = IdleJob
  /\ cursor' = {}
  /\ UNCHANGED <<row, index, flight, outbox, environment, faults>>

\* The points cannot be listed, or a claim cannot be read: the exact phase is
\* given up, and so is the pass over the orphans.
PhaseFails ==
  /\ Fault
  /\ job.write = NoWrite
  /\ CASE job.pc \in {"refs", "live"} -> job' = Replaying(outbox, job.full)
       [] job.pc = "orphans" -> job' = JobAt("all", Claims \ cursor, NoPoints, TRUE)
       [] OTHER -> FALSE
  /\ UNCHANGED <<row, index, flight, outbox, cursor, environment>>

JobDies ==
  /\ Fault
  /\ job.pc # "idle"
  /\ job' = IdleJob
  /\ UNCHANGED <<row, index, flight, outbox, cursor, environment>>

-----------------------------------------------------------------------------

Changing ==
  \E c \in Claims : ChangeQuietly(c)
    \/ \E p \in Processes : Receive(p, c) \/ ScheduledArchive(p, c) \/ PostCycleSync(p, c)

Landing(p) == Deliver(p) \/ Enqueue(p)

JobStep ==
  \/ \E c \in Claims : Visit(c)
  \/ ReplayNext \/ JobWrites
  \/ PointsVisited \/ ExactDone \/ ReplayDone \/ OrphansDone \/ SyncAllDone

Faulting ==
  \/ \E p \in Processes : NotDelivered(p) \/ ProcessDies(p)
  \/ JobWriteFails \/ PhaseFails \/ JobDies

Next ==
  \/ Changing
  \/ \E p \in Processes : Landing(p)
  \/ \E full \in BOOLEAN : Start(full)
  \/ JobStep \/ Faulting \/ Toggle

Spec == Init /\ [][Next]_vars

\* The daily job is started again and again and gets on with its run; a
\* process that is about to write the index or the outbox does so.
FairSpec ==
  /\ Spec
  /\ WF_vars(\E full \in BOOLEAN : Start(full))
  /\ WF_vars(JobStep)
  /\ \A p \in Processes : WF_vars(Landing(p))

-----------------------------------------------------------------------------
(* Properties. *)

\* The index says of a claim what the store says.  A superseded claim may
\* keep a point or have none: a pass that compares leaves it, a pass that
\* removes orphans takes it.
Mirrored ==
  \A c \in Claims :
    \/ index[c] = row[c].version /\ ~Gone(c)
    \/ index[c] = Removed /\ ~Live(c)

\* Once the index stays open for writing, it comes to agree with the claims
\* and stays so, whatever was lost on the way: writes that failed or landed
\* out of order, entries of the outbox that another process overwrote or that
\* were outdated when they were replayed, runs of the job that died
\* (qdrant_reconcile.py: run, _exact_reconcile).
IndexConverges == <>[](~frozen) => <>[]Mirrored

\* Nothing is queued while the job replays the outbox: what is appended after
\* the job has read the file is gone when the file is replaced
\* (service.py:420, "durably enqueue failures for replay").
NoEntryOverwritten == [][job.pc = "outbox" => Len(outbox') <= Len(outbox)]_vars

\* The replay removes no point of a live claim.  A removal that waited in the
\* outbox while the claim was revived does, after the exact phase of the same
\* run has put the point in place (qdrant_outbox.py: _apply).
ReplaySparesLive ==
  [][ job.pc = "outbox" /\ job.write = NoWrite /\ job'.write # NoWrite
        => ~(Live(job'.write.claim) /\ job'.write.image = Removed) ]_vars
=============================================================================

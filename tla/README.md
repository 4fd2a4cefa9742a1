# A verification project for MemoryMaster

TLA+ models of the governed memory in `memorymaster/`, TLC configurations that
check them on small instances, and TLAPS proofs of what matters most for every
instance. Paths below are relative to the repository (`memorymaster/...` is
`src/memorymaster/...` in `PROJECT.json`). The models follow the SQLite store.

## 1. The system

MemoryMaster stores *claims* an agent learned, with the evidence they rest on,
in one SQLite file that many processes write at once: MCP servers (one for each
agent session), hooks, the steward cycle, the command line, the dashboard and
capture workers. SQLite serialises transactions. What goes on *between* two
transactions of one operation is what can go wrong: nearly every operation
reads a row, decides in Python, and writes in a later transaction.

| Component | State | Operations | Interacts with | Hard behaviour | What makes it correct |
|---|---|---|---|---|---|
| Claim life cycle (`core/lifecycle.py`) | - | the relation of allowed transitions | every writer | - | statuses move along it only |
| Claim store (`stores/_storage_*.py`) | `claims`, `events` | insert, transition, confirm with handover, supersede, revive, pin, redact | all below | optimistic locking, links over two rows, one unique slot for each tuple | no write from a stale image; log and row agree; links are backed |
| Service and ingest (`core/service.py`) | - | ingest with dedup, revival, queries, cycles | store, security, index | check, then act, on content and archive reason | what was forgotten stays forgotten |
| Conflict resolvers (`govern/conflict_resolver.py`, `govern/auto_resolver.py`) | a snapshot per run | detect, judge, supersede | store, language model, operator's pins | concurrent runs, verdicts that differ, crash in mid run | one survivor, no cycle of replacements, both sides linked |
| Compactor (`govern/jobs/compactor.py`) | - | archive old claims | store | selects in one transaction, writes in another | archives only what may be archived |
| Source retirement (`public/v1.py`) | a plan per call | `forget`, `remember`, `improve` | store, capture queue, validator | a plan of many reads, then many transactions; crash between them | a claim without active source leaves trusted recall, one with a source stays |
| Capture queue and worker (`capture/`) | `capture_jobs`, evidence links | queue, lease, finish, expire, retire | ingest, extractor | leases that run out, late finishes, crashes, limits on attempts | one worker on a job, every job ends, done is done, but for jobs a worker outlasts its lease on |
| Validation jobs (`govern/jobs/validator.py`, `deterministic.py`, `staleness.py`, `decay.py`, `revalidation.py`) | - | confirm, conflict, stale, decay | store, proposals | duplicates and proposals read once per run | promotions only of claims nobody disputes |
| Dedup and merge writers (`govern/candidate_dedupe.py`, `bridges/db_merge.py`) | - | raw `UPDATE` of status | the claims table | no version check, no version bump | as for the store |
| Steward, proposals, drain (`govern/steward.py`, `govern/llm_steward.py`, `govern/jobs/curation_drain.py`) | proposals as events | propose, resolve, drain | store, resolvers | three transactions per resolution; a proposal answered after its claim changed | an approval on record has written its claim; the first verdict stands; the queue drains of what can be approved |
| Event log (`_storage_schema.py`, `govern/jobs/integrity.py`) | two hash chains, one per tenant | append, backfill, verify, reconcile | all writers, every process that opens the database | the head is read under the write lock; rows without hashes; hashes filled in while others append | no fork but around rows without hashes, no published hash changes |
| Media retries (`stores/_storage_sources.py`) | `media_retry_queue` | enqueue, claim, record outcome | external producer | late outcome, no owner check | done stays done |
| Spool (`core/spool.py`, `govern/jobs/spool_drain.py`) | files | append, claim by rename, replay, unlink | ingest | two drains, crash in mid replay | no envelope lost, replay harmless |
| Vector outbox (`recall/qdrant_*.py`, `govern/jobs/qdrant_reconcile.py`) | a file, an external index | enqueue, replay, reconcile | store | rewriting the file against an appender of another process | the index follows the store in the end |
| Graph observations (`knowledge/graph_observation_*.py`) | jobs with leases | queue, lease, complete, fail | model provider | as the capture queue, with guarded writes | as the capture queue |
| Dreaming (`dreaming/`) | captures, a lease, candidates, decisions | append, extract, triage, consolidate, apply, release, prune | transcript, model providers, ingest | appends to a capture in work, leases that run out, deferrals and retries | every message is digested, no decision is undone |
| Decisions, profile | ledgers of their own | reserve, append, project | model providers | budgets under concurrency | no budget exceeded |
| Recall, entities, wiki, skills, surfaces, bridges, evaluation, workflow intelligence | derived data | - | read the store | - | - |
| Migrations, snapshots, Postgres store | schema | apply, back up, restore | - | run alone | - |

`PROJECT.json` lists the same components with the reason why some are not
modelled, and under `hazards` each place in the code where an order of steps
matters that a test would hardly produce.

## 2. The modules

| Module | Models | Builds on |
|---|---|---|
| `Lifecycle` | statuses and allowed transitions | - |
| `ClaimLifecycle` | the abstract promise of the store: claims move along allowed transitions, a handover moves two at once, a forgotten claim never comes back | `Lifecycle` |
| `ClaimTable` | the claims table and *every transaction* on it, one action per transaction | `Lifecycle` |
| `ClaimStore` | arbitrary concurrent callers of the store; refines `ClaimLifecycle` | `ClaimTable` |
| `ConflictResolution` | both resolvers and the operator who pins | `ClaimTable` |
| `SourceRetirement` | `forget` on sources and claims, extraction workers, validator, revalidation | `ClaimTable` |
| `Proposals` | proposals as events, their resolution by operators and the drain, the validator's run | `ClaimTable` |
| `CaptureQueue` | jobs, leases, attempts and workers | - |
| `Spool` | writers, files, drains, and the claims replays lead to | - |
| `Dreaming` | the captures of one session, producers, workers, lease, triage, decisions | - |
| `VectorMirror` | the claims as the index sees them, writes in flight, outbox, the daily job | - |
| `EventChain` | the event rows and their hashes, transactions, backfills | - |
| `*_proofs` | theorems about the module of that name | it, `TLAPS` |
| `MC*` | constants of the small instances | - |

Operators whose comment starts with "Mutant" are plausible mistakes in the
definition that follows; they are used in no specification and show that each
checked property can fail.

### ClaimTable and ClaimStore

A row keeps status, version, both supersession links and the pin. The event
table is reduced to the two facts the code reads back: the last status an event
announced (`reconcile_integrity`) and the reason of the last archival
(`latest_archive_reason`, which forbids the revival of what somebody asked to
forget). Tuples and contents are functions of the claim, because no modelled
operation changes them.

In `ClaimStore` a process holds at most one pending call, `job[p]`: what it
decided and the image of the row it read. `Load*` actions are the read and the
Python checks, `Commit*` the transaction with its version guard, its checks
under the write lock and its unique index, `Abandon` any way to end without a
write: lost race, violated index, crash. `Supersede`, `Compact` and `SetPinned`
read and write in one transaction. The callers are arbitrary, so resolvers,
steward, validator and command line are all instances of them. Callers that
bypass the interface with raw SQL (`candidate_dedupe`, `db_merge`) are not: the
guarantees below are those of the store's own interface. One caller that
applies a status without checking the transition, `_apply_source_actions`, is
modelled in `SourceRetirement`. The calls of the steward that name a replacement
with a status other than superseded are among them.

### ConflictResolution

`auto` is a run of `_resolve_group_pairs`: list, running winner, contender, the
verdict of the language model (arbitrary), the image `mark_superseded` read.
`det` is a run of `resolve_conflicts`: the champion of the snapshot and the
losers left to deal with. Every read is a step, every transaction is a step.
Confidence, freshness and citation counts are abstracted: between duplicates
any verdict is possible; between different values only a link or a pin decides,
as in `_verdict`.

### SourceRetirement

A call of `forget` lists the claims of the source, counts the other active
sources of each (one query per claim), retires the source, applies the plan
(one transaction per claim) and ends. `Remember` is the capture of content on a
source: it queues a job, and neither it nor the lease nor the extraction looks
at the retirement of the source. A worker leases the job, ingests a claim, then
links it to its source: two transactions. The second read of a row and the
version-guarded write that follows are one step; the refused write, which ends
the call with an error, is `CallDies`. Constants choose the environment: which
callers may die, which sources may be extracted while a call is in progress,
which are captured again after their retirement, whether revalidation is on.
The history variable `during` records what came between the steps of a call
that can make its plan wrong. That `retire_source` also invalidates graph
observations is left out, because nothing here reads them.

### CaptureQueue

A job is a pair of source and stage. The clock is abstracted to two events, the
end of a lease and the end of a backoff; so the lengths of leases and backoffs
are arbitrary. `finish_job` is two steps, as the attempts are read outside the
write. Work, queueing the next stage and finishing may each fail, and the job is
then finished as one to retry. The constant `Slow` is the set of workers whose
work may outlast their lease: nothing renews a lease of 300 seconds, so in the
code this is every worker. The history variable `overrun` holds the jobs on
which a worker is at work that has outlasted its lease. The graph stage
(`extract_graph`), which the same worker runs, is left out.

### Proposals

A proposal and its resolution are events, `proposals` and `audit`; nothing
stores whether a proposal is pending, so `Pending`, `Resolved` and
`PendingSupersession` compute it the way `list_steward_proposals` and
`pending_supersession_ids` do, the claim's status included. A call of
`resolve_steward_proposal` is four steps: look the proposal up, read the claim,
write it, record the resolution; each may meet a table the others have changed,
and the caller may die after any of them. The drain lists, then resolves one
proposal after the other, newest first. The writers whose own read and write
are guarded (decay, the steward cycle, the conflict half of the drain,
resolvers, revival) are one step each: what comes between their read and their
write only makes the write fail, which is a stutter. The window of 400 days
(`event_scan.py:46`) and the ceiling of the scan are left out; `Window` is the
2000 proposals a resolution looks among, `Limit` the 100 (at most 200) newest
pending proposals a drain takes, of which the held ones do not count.

### Spool

A file is a set of lines with a place (`pending`, claimed, removed); a writer
opens it by name and writes later, on POSIX into whatever the file has become
(`RenameOpen`). A drain lists leftovers and pending files, renames, reads,
replays line by line (an ingest is two steps, the lookup and the insertion)
and unlinks. The claim an envelope becomes is kept with the statuses a replay
depends on.

### Dreaming

A message is its position in the transcript and a capture a stretch of
positions, so that "nothing is skipped" is arithmetic on `cursor`, `first`,
`last` and `through`. Each read and each guarded write of the ledger is a step;
a provider call is the time between two of them, in which the lease may run
out. The triage, the provider's answers and the budget are arbitrary. A decision
is applied in two steps, the ingest and the record of the application. The
ingest may be without a claim (the decision is to ignore, the candidate is
already remembered, or its claim left the life of candidates), and the
application is recorded all the same, as ignored. `displaced` and `credited`
are what becomes of the claims made: that one was archived or superseded, and
that one is named by the record. The
lease is renewed before the ingest and not again before the record; as there is
no provider call between the two, it is taken to last that long, or the worker
to die there. Left out: that decisions of an older
`REVIEW_VERSION` are thrown away and made again (`worker.py:611-615`), which
matters only across an upgrade, and that the cursor is reset when the transcript
is of another generation (`capture_control.py:140-149`), which starts a stream
of captures of its own.

### VectorMirror

An image in the index is the version of the claim it was read at. A change of
a claim and the write of the index that follows it are different steps of a
process, most changes send nothing, and a failed write goes to the outbox. The
daily job is its phases: the comparison of points and live claims, the replay
of the outbox, the pass over the orphans and the rotating window.

### EventChain

A hash is the term it is computed from, so two rows have one hash exactly when
they have one history. A transaction keeps its inserted rows to itself until it
commits; `BEGIN IMMEDIATE` is the guard of `Begin`. `RecordRaw` is the insertion
of a row without hashes, by the writers that do not go through
`_insert_event_row` (`candidate_dedupe.py:304`, `llm_steward.py:730`,
`db_merge.py:402`, `dream_bridge.py:779`) and by its own fallback. `Legacy` are
such rows that are older than the chain. A backfill reads all rows in one step,
computes row by row and writes in another step, and every process that opens the
database may run one, at any time.

## 3. The runs

All bounds are constants of the configuration. `MaxVersion` bounds the writes
to one row; the code has no such bound.

| Run | Instance | What it shows |
|---|---|---|
| `claim_store` | 2 claims that are rivals for one tuple and share one content, 2 processes, 2 status writes per row, one pinned claim at a time (`MaxPinned`) | type invariant; an image with the current version is exact (`CurrentImagesAreExact`); log and row agree (`LogAgrees`); what was forgotten stays archived and is not inserted again; superseded claims have a successor and back links are backed; replacements are never erased; the store implements `ClaimLifecycle` |
| `resolve_race` | 3 claims of one tuple, two of them duplicates, one run of each resolver, pins, crashes | the first replacement of a loser stays (`ReplacementIsFinal`), no back link is left behind (`BackLinkTruthful`) |
| `resolve_lone` | the same claims, runs of the deterministic resolver one after the other, crashes, pins between and during them | replacements never close into a cycle (`LosersLeadToSurvivor`) |
| `retire_race` | 2 sources, 1 claim, 2 callers, one of which may die, extraction at any time, one source captured again, revalidation | types; a claim is taken down after one of its sources is retired (`RetiredBeforeTakenDown`); a call takes down only what is unsupported (`SupportedStaysActive`) and all of it (`CompletedCallIsThorough`), unless an extraction, another retirement or a revalidation came in between |
| `capture_queue` | 1 source with two stages, 2 workers that may both outlast their leases, 3 attempts (`MaxAttempts`, 5 in the code), failures, crashes, retirement | types; the stages are handed on (`TextHandsOn`); two workers on one job, a job stranded without attempts, a completed job reopened: each only while a worker is at work that outlasted its lease on that job (`OneWorkerPerJob`, `NoneStranded`, `CompletedStays`); every job ends or is one so stranded (`EveryJobSettles`) |
| `proposals` | 2 rival claims, one confirmed and one conflicted, 2 proposals about the first (retire it for its rival, let the rival contradict it), one call of an operator, a drain that takes one proposal (`Limit`) and dies once, 8 writes per row of which others use 3 | an approval on record has retired its claim (`ApprovedTookEffect`); the first verdict stands (`ResolutionsStand`); whatever can be approved and is neither held nor pinned leaves the queue, unless as many newer proposals as a drain takes cannot be approved (`EveryProposalSettles`) |
| `spool_drain` | 2 envelopes of one writer, 2 drains, one crash, open files cannot be renamed, files that exist can be read | no written envelope is lost, none becomes two claims, each is replayed or quarantined in the end |
| `spool_late_append` | the same where open files can be renamed | `NothingLost` fails: section 5 |
| `dream_run` | 3 messages, 1 capture, 2 producers, 2 workers that take the lease from each other, 1 crash, releases and displaced claims at any time; once the last message is said nobody dies and one worker at a time is at work (`Bounded`) | no message behind the cursor is missing (`NoMessageSkipped`), a digested message was sent to the extractor (`DigestedWasSent`), an applied capture has every decision on record (`AppliedIsRecorded`), a claim made of a decision is named by its record, also when the run died in between (`ClaimIsCredited`), no capture is closed over a released candidate (`ReleasedIsDecided`), no decision is undone (`DecisionsStand`) |
| `vector_mirror` | 2 claims, one of them archived and revived, 2 processes of which one has a backend, an outbox of one entry, 2 faults, 1 turn of the switch | once the index stays open for writing it comes to agree with the claims and stays so |
| `event_chain` | 3 claims of two tenants and none, 2 rows older than the chain, 2 connections that record events with hashes and without, 2 processes that fill in hashes, 5 events | a broken link skips rows that were inserted without a hash and nothing else, and the chains of the tenants are whole (`OnlyRawRowsAreSkipped`); a published hash never changes (`HashesAreFinal`) |
| `chain_raw_event` | the same with no old rows and 3 events | `ChainVerifies` fails: section 5 |

Why the bounds are enough: two writers and one row make a lost update, three
claims a group in which non-adjacent claims meet, two sources "another active
source", two workers a lease that changes hands, two drains a leftover that is
claimed twice. Two proposals about one claim are enough for one to outdate the
other, and with a drain that takes one for the newer to starve the older; an
operator next to the drain for a verdict recorded over another; three messages
for a capture that is appended to while a window of it is extracted; an outbox
of one for a full outbox. `dream_run` is the one run with a state constraint
(`Bounded`), which keeps it small: a capture of two messages is enough for runs
that die or lose their lease, the third is for producers with stale reads. What
these bounds cut off is covered by the theorems about every property of the run.

Deadlock is checked where something can always happen (`claim_store`,
`resolve_race`, `resolve_lone`, `proposals`). It is not checked elsewhere:
sources are retired, jobs done, envelopes replayed, transcripts digested,
bounds on events reached, and the system rests.

**Fairness.** `capture_queue`: workers are polled again and again (`improve`,
the dream cycle, the scheduler), a worker goes on with its job, within its
lease or not, and time passes, so leases and backoffs end. `proposals`: the
drain is scheduled again and again and gets on with its run. `spool_drain`: an
append ends, and cycles drain again and again. `vector_mirror`: the daily job
is started again and again, with and without its full pass, and a process that
is about to write the index does so or fails. No fairness is assumed of
crashes, users, verdicts or the success of an attempt: a worker that always
fails or crashes reaches the limit, and the job is blocked. Crashes of drains
and jobs are bounded by constants; with unboundedly many, nothing would have to
end.

### Configurations that are kept for replay

They are not regular runs, or not with this property or these constants, and
answer questions that came up while modelling.
`tlc -config X.cfg M`, with M the MC module of the component. In each of them
the named property fails:

| Configuration | Property | What happens |
|---|---|---|
| `resolve_one_survivor` | `FinishedRunLeavesOneConflicted` | section 5 |
| `resolve_dead_links` | `LosersLeadToSurvivor` | section 5 |
| `resolve_lone`, with this property in place of its invariant | `PairsSymmetric` | section 5 |
| the same | `PinnedNotAutoSuperseded` | a claim pinned after the snapshot is superseded, because the transaction does not read the pin (`conflict_resolver.py:416`) |
| `retire_crash` | `UnsupportedIsOut` | section 5 |
| the same with `MayDie = {}` and `Callers = {p1, p2}`, or `Overlapping` or `Again` all sources, or `Revalidating = TRUE` with `MaxVersion = 5` | `UnsupportedIsOut` | each of two calls counts the other's source as active (`public/v1.py:505`); an extraction leased before the retirement, or queued after it, does not look at it (`capture/worker.py:141`); revalidation judges citations and not sources (`validator.py:378`) |
| `retire_resurrects` | `ForgottenStaysArchived` | section 5 |
| `retire_late_link` | `PlansStayRight` | the claim got another source after it was counted (`public/v1.py:540`) |
| `capture_queue`, with this property in place of its own | `CompletedIsFinal` | section 5 |
| the same | `EveryJobEnds` | a job is left to retry without attempts, because they are read before the write (`capture/repository.py:264`) |
| `capture_retired_runs` | `CancelledStays` | a worker finishes over the cancellation (`capture/repository.py:280`) |
| `spool_unreadable` | `NothingLost` | a file that cannot be read is taken for an empty one (`core/spool.py:313`) and removed |
| `spool_replay_revives` | `ReplayIsIdempotent` | a second replay revives a claim archived since the first; `spool_drain.py:19-21` calls the replay idempotent |
| `dream_checkpoint` | `ClosedIsDecided` | section 5 |
| `dream_prune_release` | `ReleasedIsKept` | a release between the selection (`ledger.py:931-951`) and the deletion (971-990) of the old captures is deleted with its capture, although the operator was told it will be consolidated |
| `vector_lost_entry` | `NoEntryOverwritten` | an entry another process appends during a replay is overwritten; `service.py:420` says "durably enqueue failures for replay". The daily comparison repairs the index |
| `vector_stale_removal` | `ReplaySparesLive` | a removal that waited in the outbox removes the point of a claim revived since (`qdrant_outbox.py:86`), until the next daily comparison |
| `proposal_promoted` | `PromotionWaits` | section 5 |
| `proposal_stuck` | `NothingIsStuck` | section 5 |
| `proposals`, with this property in place of its own | `NobodyStarves` | newer proposals of which nothing can be made fill the drain's listing in every cycle, and an older one that could be approved is never reached (`curation_drain.py:299`) |

A lone run makes no cycle of replacements (`resolve_lone`, section 4). Two runs
of the language model resolver can (`resolve_dead_links`); so can two of the
deterministic one, or one of each, when the operator pins claims meanwhile.

## 4. The proofs

`ClaimStore_proofs` proves for every set of claims and processes, every
assignment of tuples and contents and every bound on versions, under
`ClaimTableAssumption` alone: type correctness, all safety properties of the
run `claim_store`, and the refinement of `ClaimLifecycle`. The heart is that
the version guard is sufficient. `CurrentImagesAreExact` is not inductive by
itself: a write bumps the version of a row, so one needs that no image is
*newer* than its row, and that an image whose version equals the row's agrees
with it in status and replacement. Writers that do not bump the version (pins,
back links) must then be shown to leave the image's columns alone. On top of it
come what a pending call was checked for when it was loaded (a legal
transition, an existing replacement), the agreement of log and row, from which
"forgotten for ever" follows, and the links. The refinement maps
`status` to the status column and `forgotten` to the claims whose last archival
was on request; each transaction is a step of the abstract specification, every
load and abandon a stutter.

`ConflictResolution_proofs` proves, for every set of claims, every assignment of
tuples and values, and any number of runs of both resolvers that race and die
while the operator pins and unpins claims:

- type correctness; a replacement is set once; a back link names a claim that
  was replaced by the one that carries it. `BackLinkTruthful` is inductive with
  two facts about the runs (`RunsOK`): the two claims of a pair differ, and the
  champion is not among its losers. Then every transaction that writes is a
  `Retire`: it finds the loser without a replacement, so no claim points back to
  it yet, and the link it overwrites, if any, is the one of the winner.
- when only language model runs are at work, both sides of a supersession are
  linked (`PairsSymmetric`). `resolve_lone` with that property shows why the
  deterministic resolver is excluded.
- when one run is alone, of either kind (`Lone`), following replacements ends at
  a claim that is not retired. The claims the run carries are still standing
  (`Standing`), because nobody else retires claims, and a retirement in favour
  of a standing claim closes no cycle. `resolve_dead_links` shows why `Lone` is
  needed.

`SourceRetirement_proofs` assumes nothing of the constants: any number of calls
overlap and die while sources are extracted, captured again and revalidated.
Types are kept, and a claim is taken down only after one of its own sources is
retired, because a call that applies its plan has retired its source and its
plan names only claims linked to it. A call takes down only claims without an
active source, unless an extraction came in between (`SupportedStaysActive`):
sources never become active again, so it is enough that no link is added after
the count (`PlanUnsupported`). A call that ends has taken down every claim of
its source that has no active source left, unless an extraction, another
retirement or a revalidation came in between (`CompletedCallIsThorough`). The
invariant follows these claims through the phases of the call: not listed yet or
listed, not counted yet or planned, not applied yet or out (`StillToDo`), and
says that what a plan takes down it takes out of use (`PlanTakesDown`). It says
nothing of a call that died; `retire_crash` is what happens then, and the other
exceptions are replayed in section 3.

`CaptureQueue_proofs` proves, for all finite sets of sources, all workers and
limits, and although any worker may outlast its lease: type correctness; that a
completed text stage has its claim stage queued; and that two workers on one
job, a job stranded without attempts and a completed job that is reopened come
about only while a worker is at work on that job that outlasted its lease. The
invariant ties workers to jobs (`Timely`): unless the job is in `overrun`, it has
one worker, it is leased or was cancelled by a retirement, and its lease has not
run out; so only its own worker or a retirement moves it.

`Proposals_proofs` proves, for all claims, callers, filings and bounds, type
correctness, that an approved retirement has retired its claim, and that the
first verdict stands. The second is immediate, because resolutions are only
appended and the oldest counts. The first is not: the approval is recorded in a
later transaction than the write. `RowStep` says that no transaction of anybody
erases a replacement, which for a write from an image needs that the image is
exact while its version is current (`CallOK`); `CallOK` then carries "applied,
so the claim has a replacement" from the write to the record (`AuditOK`).
The third theorem is a refinement, step by step: every step of operators, drain,
validator and the other writers is a step of `ClaimLifecycle` or leaves the
statuses alone, although a resolution checks the transition on a row it read
before its write. `CallOK` keeps that check, `RowStep` that no status changes
without the version.

`Spool_proofs` proves that no envelope becomes two claims, for all writers,
drains, crashes and platforms. Several drains may have looked for its claim and
found none, but the insertion of all but the first meets the unique key and
returns the claim that is there (`RowsOK`). That nothing written is lost is
proved under `Exclusive`: an open file cannot be renamed, and files that exist
can be read. `spool_late_append`
and `spool_unreadable` are what happens without the two halves of the
hypothesis. The invariant says where each line can be: in a pending file only
its writer has open, in a claimed file, or handled.

`Dreaming_proofs` proves all safety properties of the run for every
transcript and every number of producers, workers, captures and crashes. The
invariant `Sound` ties the ledger (`LedgerOK`: stretches of captures adjoin up
to the cursor, what is extracted was sent, closed captures leave no released
candidate, and an applied one has every decision on record), the worker who holds
the lease (`HolderOK`: what it read of its capture is still so, or its guarded
write will fail) and the producers (`ProducersOK`). That a claim is named by its
record, also when the run that made it died in between, is an invariant of the
ledger: an application is recorded as ignored only if no claim was made of the
decision or somebody else has displaced it since.

`EventChain_proofs` proves for every number of connections, processes, old rows
and events, with hashes and without: no hash is wrong, the chain of a tenant is
whole, a broken link skips rows that were inserted without a hash and no others,
and a hash that is there never changes. The invariant is that every row is raw,
filled in or recorded (`Sound`), for the table as committed and as the open
transaction sees it, and that what a backfill has read is still so but for
hashes that others filled in, which are those it will compute (`ReadRight`,
`DoneRight`).

Every safety invariant and action property of the passing runs is the
conclusion of a theorem; `LosersLeadToSurvivor` and `NothingLost` under the
hypothesis named, which the instance of the run satisfies. Only model-checked:
liveness (`EveryJobSettles`, `EveryEnvelopeIsHandled`, `IndexConverges`,
`EveryProposalSettles`), which TLAPS cannot treat. `VectorMirror` has no
theorem: what its run checks is liveness, and the safety one would expect of it
fails (`vector_lost_entry`, `vector_stale_removal`).

## 5. Disagreements of code and documentation

`spool_late_append` and `chain_raw_event` are runs that are expected to fail;
`PROJECT.json` quotes the lines. The others are configurations kept for replay.

- `spool_late_append`: an append that opened its file before the drain renamed
  it is written after the drain has read the file, and removed with it.
  `core/spool.py:286` says writers "can never race the reader".
- `resolve_one_survivor`: a sequential run of the language model resolver can
  leave several claims conflicted, because `mark_superseded`
  (`_storage_lifecycle.py:365`) refuses a winner that already supersedes another
  claim. `auto_resolver.py:172` says "at most one 'conflicted' claim remains".
- `resolve_dead_links`: two runs retire two claims in favour of each other,
  because the status of the winner is not looked at (`_storage_lifecycle.py:360`);
  `auto_resolver.py:165` promises "a single survivor".
- `resolve_lone` with `PairsSymmetric`: the back link of a champion that beats
  two claims is overwritten (`conflict_resolver.py:117`); line 80 says
  "Atomically link both sides of a supersession".
- `retire_crash`: a `forget` that dies after retiring the source
  (`public/v1.py:533`) is not repaired by a repetition, which finds the source
  retired and does nothing (line 581); `docs/public-v1.md:90` promises that its
  claims are taken down.
- `chain_raw_event`: the next event does not see a row without hashes as the
  head (`_storage_schema.py:1089`), so once the row is filled in two events
  follow one predecessor and the integrity check reports it for ever. Lines
  1069-1070 name the write lock, which was held, as what prevents
  `broken_prev_link`; `db_merge.py:393` calls its row the "event-chain record".
- `retire_resurrects`: a claim archived meanwhile is moved to stale by the plan
  (`public/v1.py:540`); `ARCHITECTURE.md:143` calls archived claims immutable.
- `capture_queue` with `CompletedIsFinal`: a worker that lost its lease reopens
  a completed job (`capture/repository.py:284`); `capture/worker.py:1` calls it
  replay-safe.
- `dream_checkpoint`: a run out of budget keeps its decisions and marks the
  capture (`ledger.py:457-470`); a retry that fails erases the mark
  (`_set_capture`, line 562), and the capture is closed with candidates
  undecided. `worker.py:638` says "every candidate without a decision still
  needs a call".
- `proposal_promoted`: the validator reads the proposals once per run
  (`validator.py:217`), so a claim declared outdated during the run is promoted;
  lines 70-71 say "A proposal filed a minute ago must block this run".
- `proposal_stuck`: an approved conflict that names the other claim leaves it in
  the column of the replacement (`steward.py:1477`, `_storage_lifecycle.py:165`),
  and a conflicted claim with a replacement can never be superseded: proposals
  to retire it are tried and refused in every cycle.

Noticed and not run: a proposal beyond the 2000 newest is not found by
`resolve_steward_proposal` (`steward.py:1511`), although lines 1268-1274 explain
why rows must not be capped; `approve` without applying answers "approved" and
resolves nothing; `qdrant_reconcile.py:22-24` says a run is recorded "only after
a successful reconcile" and records it also when a phase failed.

## 6. The plan

Done: the life cycle, the claims table, concurrent callers, resolvers, source
retirement, capture queue, proposals and drain, spool, dreaming ledger, vector
index, event chain, and the theorems above.

Next, in this order:

1. Proofs: abstract specifications of the capture queue and the spool, with the
   detailed ones shown to implement them.
2. The writers the claim store's guarantees exclude: `candidate_dedupe` and
   `db_merge` over `ClaimTable`, and which guarantees survive them; forget on an
   archived claim (`public/v1.py:566`).
3. The lease queues side by side: media retries (no guards) and graph
   observations (guards) next to `CaptureQueue`, with an abstract job life cycle
   that the guarded ones implement.
4. The rest of dreaming: budgets, backfill, pruning as part of the regular runs.

### Not modelled

Recall and ranking (floating-point data without state), derived artefacts (wiki,
entities, skills, profile), surfaces and integrations (input and output),
migrations and snapshots (run alone), the Postgres store (the same operations
under row locks), evaluation and reports. These are most of the repository's
lines; the models cover the part of it where the order of steps decides.

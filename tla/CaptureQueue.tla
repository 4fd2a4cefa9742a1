----------------------------- MODULE CaptureQueue -----------------------------
(***************************************************************************)
(* The durable queue of capture jobs (capture/repository.py) and the       *)
(* workers that drain it (capture/worker.py), while producers remember     *)
(* sources and users retire them.                                          *)
(*                                                                         *)
(* A job is leased for a while: a lease that runs out is swept by whoever  *)
(* leases next, and the job is tried again up to a limit of attempts.      *)
(* Nothing takes the job away from the worker that lost its lease, and     *)
(* finish_job asks neither for the owner nor for the status of the job it  *)
(* writes.  The clock is abstracted to two events, the end of a lease and  *)
(* the end of a backoff.                                                   *)
(***************************************************************************)
EXTENDS Naturals, FiniteSets

CONSTANTS
  Sources,       \* source items, with one content each
  Workers,       \* processes that run run_capture_worker
  Slow,          \* workers whose work may outlast their lease
  Retiring,      \* sources a user may retire
  MaxAttempts    \* MAX_ATTEMPTS, 5 in the code

ASSUME CaptureQueueAssumption ==
  /\ IsFiniteSet(Sources)
  /\ Slow \subseteq Workers
  /\ Retiring \subseteq Sources
  /\ MaxAttempts \in Nat \ {0}

\* The stages a source goes through.  A job is a source with a stage, which
\* is the UNIQUE key of the table.
Stages == {"text", "claims"}
Jobs == Sources \X Stages
TextJob(s) == <<s, "text">>
ClaimsJob(s) == <<s, "claims">>

VARIABLES
  job,       \* the capture_jobs table
  retired,   \* the sources with retired_at set
  worker,    \* what a worker does, and on which job
  overrun    \* history: jobs at work that outlasted a lease

vars == <<job, retired, worker, overrun>>

JobStatus == {"pending", "leased", "retryable", "blocked", "completed", "cancelled"}
NotQueued == "not queued"

JobRow == [status   : JobStatus \cup {NotQueued},
           id       : Nat,        \* order of insertion
           attempts : 0 .. MaxAttempts,
           expired  : BOOLEAN,    \* leased, and lease_expires_at <= now
           due      : BOOLEAN]    \* next_attempt_at IS NULL OR next_attempt_at <= now

NoJob == <<>>

\* pc: at work on a leased job; the outcome is known ("finish"); finish_job
\* has read the attempts and is about to write ("write").
Outcomes == {"completed", "retryable", "blocked"}

WorkerState == [pc      : {"idle", "work", "queue", "finish", "write"},
                job     : Jobs \cup {NoJob},
                outcome : Outcomes \cup {"none"}]

Idle == [pc |-> "idle", job |-> NoJob, outcome |-> "none"]

NewRow(status, id) ==
  [status |-> status, id |-> id, attempts |-> 0, expired |-> FALSE, due |-> TRUE]

\* The row with another status, and without a lease.
MovedTo(row, status, due) ==
  [status |-> status, id |-> row.id, attempts |-> row.attempts, expired |-> FALSE, due |-> due]

TypeOK ==
  /\ job \in [Jobs -> JobRow]
  /\ retired \subseteq Sources
  /\ worker \in [Workers -> WorkerState]
  /\ overrun \subseteq Jobs

Init ==
  /\ job = [j \in Jobs |-> NewRow(NotQueued, 0)]
  /\ retired = {}
  /\ worker = [w \in Workers |-> Idle]
  /\ overrun = {}
-----------------------------------------------------------------------------
Queued(j) == job[j].status # NotQueued

NextId == Cardinality({j \in Jobs : Queued(j)}) + 1

\* Mutant: queueing a job again starts it anew.
WithQueuedAnew(j, status) == [job EXCEPT ![j] = NewRow(status, NextId)]

\* queue_job: ON CONFLICT DO NOTHING, and no look at the source.
WithQueued(j, status) ==
  IF Queued(j) THEN job ELSE [job EXCEPT ![j] = NewRow(status, NextId)]

\* remember and improve: a source with evidence is queued for its claims, one
\* without for its text, or blocked if the producer owes the text.
Remember(j, status) ==
  /\ ~ Queued(j)
  /\ status = "blocked" => j[2] = "text"
  /\ job' = WithQueued(j, status)
  /\ UNCHANGED <<retired, worker, overrun>>

\* retire_source.
Retire(s) ==
  /\ s \in Retiring \ retired
  /\ retired' = retired \cup {s}
  /\ job' = [j \in Jobs |->
       IF j[1] = s /\ job[j].status \in {"pending", "leased", "retryable"}
       THEN MovedTo(job[j], "cancelled", job[j].due) ELSE job[j]]
  /\ UNCHANGED <<worker, overrun>>
-----------------------------------------------------------------------------
(* lease_jobs, one transaction that starts with _expire_leases *)

\* Mutant: a lease that ran out is retried or left, never blocked.
SweptRetried(row) ==
  IF row.status = "leased" /\ row.expired /\ row.attempts < MaxAttempts
  THEN MovedTo(row, "retryable", TRUE) ELSE row

Swept(row) ==
  IF ~ (row.status = "leased" /\ row.expired) THEN row
  ELSE IF row.attempts < MaxAttempts THEN MovedTo(row, "retryable", TRUE)
  ELSE MovedTo(row, "blocked", row.due)

\* _select_due_job_ids.
Due(row) ==
  /\ row.status \in {"pending", "retryable"}
  /\ row.due
  /\ row.attempts < MaxAttempts

LeasedRow(row) ==
  [status |-> "leased", id |-> row.id, attempts |-> row.attempts + 1,
   expired |-> FALSE, due |-> row.due]

\* Mutant: a job that is leased by another worker is taken over at once,
\* whatever its attempts.
LeaseEager(w, j) ==
  /\ worker[w].pc = "idle"
  /\ job[j].status \in {"pending", "retryable", "leased"}
  /\ job' = [job EXCEPT ![j] = LeasedRow(job[j])]
  /\ worker' = [worker EXCEPT ![w] = [pc |-> "work", job |-> j, outcome |-> "none"]]
  /\ UNCHANGED <<retired, overrun>>

\* The first due job in the order of insertion.
Lease(w, j) ==
  LET table == [k \in Jobs |-> Swept(job[k])] IN
  /\ worker[w].pc = "idle"
  /\ Due(table[j])
  /\ \A k \in Jobs : Due(table[k]) => table[j].id <= table[k].id
  /\ job' = [table EXCEPT ![j] = LeasedRow(table[j])]
  /\ worker' = [worker EXCEPT ![w] = [pc |-> "work", job |-> j, outcome |-> "none"]]
  /\ UNCHANGED <<retired, overrun>>

\* Nothing is due: the sweep is committed all the same.
Sweep(w) ==
  LET table == [k \in Jobs |-> Swept(job[k])] IN
  /\ worker[w].pc = "idle"
  /\ \A k \in Jobs : ~ Due(table[k])
  /\ job' = table /\ job' # job
  /\ UNCHANGED <<retired, worker, overrun>>
-----------------------------------------------------------------------------
(* _process_job *)

\* The worker w goes on to pc with its job.
Proceed(w, pc, outcome) ==
  worker' = [worker EXCEPT ![w] = [pc |-> pc, job |-> worker[w].job, outcome |-> outcome]]

\* Mutant: the text stage ends without queueing the next one.
TextWorkUnqueued(w) ==
  /\ worker[w].pc = "work" /\ worker[w].job[2] = "text"
  /\ Proceed(w, "finish", "completed")
  /\ UNCHANGED <<job, retired, overrun>>

\* _run_text_job up to the queue_job call: a source that is retired by now
\* rejects the job, and a provider may fail.
TextWork(w) ==
  /\ worker[w].pc = "work" /\ worker[w].job[2] = "text"
  /\ worker[w].job[1] \notin retired
  /\ Proceed(w, "queue", "none")
  /\ UNCHANGED <<job, retired, overrun>>

TextQueue(w) ==
  /\ worker[w].pc = "queue"
  /\ job' = WithQueued(ClaimsJob(worker[w].job[1]), "pending")
  /\ Proceed(w, "finish", "completed")
  /\ UNCHANGED <<retired, overrun>>

\* _run_claim_job: no look at the source.
ClaimWork(w) ==
  /\ worker[w].pc = "work" /\ worker[w].job[2] = "claims"
  /\ Proceed(w, "finish", "completed")
  /\ UNCHANGED <<job, retired, overrun>>

\* CaptureRejected, CaptureRetryable or any other exception of the work, and
\* any of queue_job or of the finish_job for a completed job.  (One of the
\* finish_job for another outcome ends the run of the worker: a Crash.  What
\* raises has not been committed.)
WorkFails(w, outcome) ==
  /\ \/ worker[w].pc = "work" /\ outcome \in {"retryable", "blocked"}
     \/ worker[w].pc = "queue" /\ outcome = "retryable"
     \/ /\ worker[w].pc \in {"finish", "write"} /\ worker[w].outcome = "completed"
        /\ outcome = "retryable"
  /\ Proceed(w, "finish", outcome)
  /\ UNCHANGED <<job, retired, overrun>>
-----------------------------------------------------------------------------
(* finish_job *)

\* Mutant: the limit of attempts is not looked at.
FinishReadUnbounded(w) ==
  /\ worker[w].pc = "finish"
  /\ Proceed(w, "write", worker[w].outcome)
  /\ UNCHANGED <<job, retired, overrun>>

\* The attempts are read outside the transaction of the write.
FinishRead(w) ==
  LET outcome == worker[w].outcome
      exhausted == outcome = "retryable" /\ job[worker[w].job].attempts >= MaxAttempts
  IN
  /\ worker[w].pc = "finish"
  /\ Proceed(w, "write", IF exhausted THEN "blocked" ELSE outcome)
  /\ UNCHANGED <<job, retired, overrun>>

AtWork(w, j) == worker[w].pc # "idle" /\ worker[w].job = j

\* The worker is done with its job; an overrun is over with its last worker.
Leave(w) ==
  /\ worker' = [worker EXCEPT ![w] = Idle]
  /\ overrun' = {j \in overrun : \E v \in Workers \ {w} : AtWork(v, j)}

\* UPDATE ... WHERE id = ?
FinishWrite(w) ==
  LET j == worker[w].job
      outcome == worker[w].outcome IN
  /\ worker[w].pc = "write"
  /\ job' = [job EXCEPT ![j] = MovedTo(job[j], outcome, outcome # "retryable")]
  /\ Leave(w)
  /\ UNCHANGED retired
-----------------------------------------------------------------------------
(* Time and failure *)

LeaseRunsOut(j) ==
  LET late == {w \in Workers : AtWork(w, j)} IN
  /\ job[j].status = "leased" /\ ~ job[j].expired
  /\ late \subseteq Slow
  /\ job' = [job EXCEPT ![j].expired = TRUE]
  /\ overrun' = IF late = {} THEN overrun ELSE overrun \cup {j}
  /\ UNCHANGED <<retired, worker>>

BackoffEnds(j) ==
  /\ job[j].status = "retryable" /\ ~ job[j].due
  /\ job' = [job EXCEPT ![j].due = TRUE]
  /\ UNCHANGED <<retired, worker, overrun>>

\* The process of the worker is killed, and started again.
Crash(w) ==
  /\ worker[w].pc # "idle"
  /\ Leave(w)
  /\ UNCHANGED <<job, retired>>
-----------------------------------------------------------------------------
Poll(w) == Sweep(w) \/ \E j \in Jobs : Lease(w, j)

Process(w) ==
  \/ TextWork(w) \/ TextQueue(w) \/ ClaimWork(w)
  \/ \E outcome \in {"retryable", "blocked"} : WorkFails(w, outcome)
  \/ FinishRead(w) \/ FinishWrite(w)

Next ==
  \/ \E j \in Jobs, status \in {"pending", "blocked"} : Remember(j, status)
  \/ \E s \in Sources : Retire(s)
  \/ \E w \in Workers : Poll(w) \/ Process(w) \/ Crash(w)
  \/ \E j \in Jobs : LeaseRunsOut(j) \/ BackoffEnds(j)

Spec == Init /\ [][Next]_vars

\* Workers poll again and again (improve, dream cycles, the scheduler) and
\* go on with the job they have; time passes.
FairSpec ==
  /\ Spec
  /\ \A w \in Workers : WF_vars(Poll(w)) /\ WF_vars(Process(w))
  /\ \A j \in Jobs : WF_vars(LeaseRunsOut(j)) /\ WF_vars(BackoffEnds(j))
-----------------------------------------------------------------------------
\* A job whose text was extracted has a job for its claims: no crash, retry
\* or retirement loses the second stage.
TextHandsOn ==
  \A s \in Sources :
    job[TextJob(s)].status = "completed" => Queued(ClaimsJob(s))

\* Two workers are at work on one job only if one of those at work on it has
\* outlasted a lease, though any worker may have done so before: whatever dies,
\* fails, is retried or retired.
OneWorkerPerJob ==
  \A v, w \in Workers, j \in Jobs :
    AtWork(v, j) /\ AtWork(w, j) => v = w \/ j \in overrun

\* Neither lease_jobs nor _expire_leases takes up such a job again.
Stranded(j) == job[j].status = "retryable" /\ job[j].attempts >= MaxAttempts

\* A job that used up its attempts is blocked, where an operator sees it; only
\* workers that outlast their leases can strand it.
NoneStranded ==
  [][\A j \in Jobs : ~ Stranded(j) /\ Stranded(j)' => j \in overrun]_vars

\* A completed job is never queued, leased or swept again; it is reopened only
\* by another worker that finishes it, after a lease was outlasted.
CompletedStays ==
  [][\A j \in Jobs : job[j].status = "completed" /\ job'[j].status # "completed" =>
       j \in overrun /\ \E w \in Workers : worker[w].job = j /\ FinishWrite(w)]_vars

Settled(j) == job[j].status \in {"completed", "blocked", "cancelled"}

\* Every job that is queued comes to an end, whoever dies, fails or outlasts a
\* lease, but for one that NoneStranded lets be stranded.
EveryJobSettles == \A j \in Jobs : Queued(j) ~> Settled(j) \/ Stranded(j)

(* What the code does not ensure *)

\* No job is stranded: fails if a worker outlasts its lease on the last but one
\* attempt, and reads the attempts before the last is leased.
EveryJobEnds == \A j \in Jobs : Queued(j) ~> Settled(j)

\* A completed job is done: fails if a worker outlasts its lease and finishes
\* the job after the worker that took it over.
CompletedIsFinal ==
  [][\A j \in Jobs : job[j].status = "completed" => job'[j].status = "completed"]_vars

\* A cancelled job is over: fails if a worker was at work on it.
CancelledStays ==
  [][\A j \in Jobs : job[j].status = "cancelled" => job'[j].status = "cancelled"]_vars
=============================================================================

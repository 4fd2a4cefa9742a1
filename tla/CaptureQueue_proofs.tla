-------------------------- MODULE CaptureQueue_proofs --------------------------
(***************************************************************************)
(* For every finite set of sources, every set of workers and every limit   *)
(* of attempts, slow workers included: the queue keeps its rows            *)
(* well-formed and hands a source on from one stage to the next; and only  *)
(* while a worker is at work that outlasted its lease can a job have two   *)
(* workers, be stranded, or be reopened after it was completed.            *)
(***************************************************************************)
EXTENDS CaptureQueue, FiniteSetTheorems, TLAPS

\* The work at hand is on a queued job, with an outcome once it is known.
WorkIsQueued ==
  \A w \in Workers :
    worker[w].pc # "idle" =>
      /\ worker[w].job \in Jobs
      /\ Queued(worker[w].job)
      /\ worker[w].pc = "queue" => worker[w].job[2] = "text"
      /\ worker[w].pc \in {"finish", "write"} => worker[w].outcome \in Outcomes

\* A worker about to complete a text stage has queued the claim stage.
WorkHandsOn ==
  \A w \in Workers, s \in Sources :
    (worker[w].pc # "idle" /\ worker[w].job = TextJob(s) /\ worker[w].outcome = "completed")
      => Queued(ClaimsJob(s))

IInv == TypeOK /\ WorkIsQueued /\ WorkHandsOn /\ TextHandsOn

LEMMA NextIdType == NextId \in Nat
<1>1. IsFiniteSet(Stages)
  <2>1. Stages = {"text"} \cup {"claims"}
    BY DEF Stages
  <2> QED
    BY <2>1, FS_EmptySet, FS_Singleton, FS_Union
<1>2. IsFiniteSet(Jobs)
  BY <1>1, CaptureQueueAssumption, FS_Product DEF Jobs
<1>3. IsFiniteSet({j \in Jobs : Queued(j)})
  BY <1>2, FS_Subset
<1> QED
  BY <1>3, FS_CardinalityType DEF NextId

\* Every job that was queued still is, in a row of the right shape.
LEMMA WithQueuedType ==
  ASSUME TypeOK, NEW j \in Jobs, NEW status \in JobStatus
  PROVE  /\ WithQueued(j, status) \in [Jobs -> JobRow]
         /\ WithQueued(j, status)[j].status # NotQueued
         /\ \A k \in Jobs \ {j} : WithQueued(j, status)[k] = job[k]
         /\ Queued(j) => WithQueued(j, status) = job
<1>1. NewRow(status, NextId) \in JobRow
  BY NextIdType, CaptureQueueAssumption DEF NewRow, JobRow
<1>2. NotQueued \notin JobStatus
  BY DEF NotQueued, JobStatus
<1> QED
  BY <1>1, <1>2 DEF WithQueued, TypeOK, NewRow, Queued

LEMMA MovedToType ==
  ASSUME NEW row \in JobRow, NEW status \in JobStatus, NEW due \in BOOLEAN
  PROVE  /\ MovedTo(row, status, due) \in JobRow
         /\ MovedTo(row, status, due).status = status
         /\ MovedTo(row, status, due).attempts = row.attempts
         /\ ~ MovedTo(row, status, due).expired
         /\ MovedTo(row, status, due).due = due
BY DEF MovedTo, JobRow

\* The sweep touches only leases that ran out.
LEMMA SweptType ==
  ASSUME NEW row \in JobRow
  PROVE  /\ Swept(row) \in JobRow
         /\ Swept(row).status = NotQueued <=> row.status = NotQueued
         /\ Swept(row).attempts = row.attempts
         /\ Swept(row).status = "completed" <=> row.status = "completed"
         /\ Swept(row).status = "retryable" =>
              row.status = "retryable" \/ row.attempts < MaxAttempts
         /\ ~ (row.status = "leased" /\ row.expired) => Swept(row) = row
<1>1. CASE ~ (row.status = "leased" /\ row.expired)
  BY <1>1 DEF Swept
<1>2. CASE row.status = "leased" /\ row.expired
  <2>1. {"retryable", "blocked"} \subseteq JobStatus /\ row.due \in BOOLEAN
    BY DEF JobStatus, JobRow
  <2>2. CASE row.attempts < MaxAttempts
    <3>1. Swept(row) = MovedTo(row, "retryable", TRUE)
      BY <1>2, <2>2 DEF Swept
    <3>2. /\ Swept(row) \in JobRow /\ Swept(row).status = "retryable"
          /\ Swept(row).attempts = row.attempts
      BY <2>1, <3>1 DEF MovedTo, JobRow
    <3> QED
      BY <1>2, <2>2, <3>2 DEF NotQueued
  <2>3. CASE ~ (row.attempts < MaxAttempts)
    <3>1. Swept(row) = MovedTo(row, "blocked", row.due)
      BY <1>2, <2>3 DEF Swept
    <3>2. /\ Swept(row) \in JobRow /\ Swept(row).status = "blocked"
          /\ Swept(row).attempts = row.attempts
      BY <2>1, <3>1, MovedToType
    <3> QED
      BY <1>2, <2>3, <3>2 DEF NotQueued
  <2> QED
    BY <2>2, <2>3
<1> QED
  BY <1>1, <1>2

LEMMA LeasedRowType ==
  ASSUME NEW row \in JobRow, Due(row)
  PROVE  /\ LeasedRow(row) \in JobRow
         /\ LeasedRow(row).status = "leased"
         /\ ~ LeasedRow(row).expired
BY CaptureQueueAssumption DEF LeasedRow, JobRow, JobStatus, Due

\* What a step that moves the worker w on, or leaves the workers alone, has
\* to show for the workers.
LEMMA WorkersKeep ==
  ASSUME IInv, worker' \in [Workers -> WorkerState],
         \A j \in Jobs : Queued(j) => Queued(j)',
         \A w \in Workers :
           \/ worker'[w] = worker[w]
           \/ worker'[w].pc = "idle"
           \/ /\ worker'[w].job \in Jobs
              /\ job'[worker'[w].job].status # NotQueued
              /\ worker'[w].pc = "queue" => worker'[w].job[2] = "text"
              /\ worker'[w].pc \in {"finish", "write"} => worker'[w].outcome \in Outcomes
              /\ \A s \in Sources :
                   (worker'[w].job = TextJob(s) /\ worker'[w].outcome = "completed")
                     => job'[ClaimsJob(s)].status # NotQueued
  PROVE  WorkIsQueued' /\ WorkHandsOn'
<1>1. \A s \in Sources : ClaimsJob(s) \in Jobs
  BY DEF ClaimsJob, Jobs, Stages
<1>2. WorkIsQueued'
  BY DEF IInv, WorkIsQueued, Queued
<1>3. WorkHandsOn'
  BY <1>1 DEF IInv, WorkHandsOn, Queued
<1> QED
  BY <1>2, <1>3

\* What a step has to show for the table.
LEMMA TableKeeps ==
  ASSUME IInv,
         \A j \in Jobs : Queued(j) => Queued(j)',
         \A s \in Sources : job'[TextJob(s)].status = "completed" =>
           job[TextJob(s)].status = "completed" \/ job'[ClaimsJob(s)].status # NotQueued
  PROVE  TextHandsOn'
<1>1. \A s \in Sources : ClaimsJob(s) \in Jobs
  BY DEF ClaimsJob, Jobs, Stages
<1> QED
  BY <1>1 DEF IInv, TextHandsOn, Queued

LEMMA InitIInv == Init => IInv
<1> SUFFICES ASSUME Init PROVE IInv
  OBVIOUS
<1>1. NewRow(NotQueued, 0) \in JobRow
  BY CaptureQueueAssumption DEF NewRow, JobRow
<1>2. Idle \in WorkerState
  BY DEF Idle, WorkerState
<1>3. TypeOK
  BY <1>1, <1>2 DEF Init, TypeOK
<1>4. \A s \in Sources : TextJob(s) \in Jobs
  BY DEF TextJob, Jobs, Stages
<1> QED
  BY <1>3, <1>4 DEF Init, IInv, WorkIsQueued, WorkHandsOn, TextHandsOn, Idle, NewRow, NotQueued

LEMMA StepIInv == IInv /\ [Next]_vars => IInv'
<1> SUFFICES ASSUME IInv, [Next]_vars PROVE IInv'
  OBVIOUS
<1> USE DEF Queued
<1>t. TypeOK /\ NotQueued \notin JobStatus /\ NotQueued # "completed"
  BY DEF IInv, NotQueued, JobStatus
<1>s. \A s \in Sources : /\ TextJob(s) \in Jobs /\ ClaimsJob(s) \in Jobs
                         /\ TextJob(s) # ClaimsJob(s)
                         /\ TextJob(s)[1] = s /\ TextJob(s)[2] = "text"
  BY DEF TextJob, ClaimsJob, Jobs, Stages
<1>1. CASE UNCHANGED vars
  BY <1>1 DEF vars, IInv, TypeOK, WorkIsQueued, WorkHandsOn, TextHandsOn
<1>2. ASSUME NEW j \in Jobs, NEW status \in {"pending", "blocked"}, Remember(j, status)
      PROVE  IInv'
  <2>1. status \in JobStatus /\ status # "completed"
    BY DEF JobStatus
  <2>2. /\ job' \in [Jobs -> JobRow]
        /\ \A k \in Jobs \ {j} : job'[k] = job[k]
        /\ job'[j].status # NotQueued
    BY <1>2, <2>1, <1>t, WithQueuedType DEF Remember
  <2>3. job'[j].status = status
    BY <1>2, <1>t DEF Remember, WithQueued, NewRow, TypeOK
  <2>4. \A k \in Jobs : Queued(k) => Queued(k)'
    BY <2>2
  <2>5. TypeOK'
    BY <1>2, <1>t, <2>2 DEF Remember, TypeOK
  <2>6. WorkIsQueued' /\ WorkHandsOn'
    BY <1>2, <1>t, <2>4, WorkersKeep DEF Remember, TypeOK
  <2>7. TextHandsOn'
    BY <2>1, <2>2, <2>3, <2>4, <1>s, TableKeeps
  <2> QED
    BY <2>5, <2>6, <2>7 DEF IInv
<1>3. ASSUME NEW s \in Sources, Retire(s) PROVE IInv'
  <2>1. \A j \in Jobs : /\ job'[j] \in JobRow
                        /\ job[j].status # NotQueued => job'[j].status # NotQueued
                        /\ job'[j].status = "completed" => job[j].status = "completed"
    <3> SUFFICES ASSUME NEW j \in Jobs
                 PROVE  /\ job'[j] \in JobRow
                        /\ job[j].status # NotQueued => job'[j].status # NotQueued
                        /\ job'[j].status = "completed" => job[j].status = "completed"
      OBVIOUS
    <3>1. job[j] \in JobRow /\ job[j].due \in BOOLEAN /\ "cancelled" \in JobStatus
      BY <1>t DEF TypeOK, JobRow, JobStatus
    <3>2. job'[j] = job[j] \/ job'[j] = MovedTo(job[j], "cancelled", job[j].due)
      BY <1>3 DEF Retire
    <3> QED
      BY <3>1, <3>2, <1>t, MovedToType
  <2>2. TypeOK'
    BY <1>3, <1>t, <2>1 DEF Retire, TypeOK, CaptureQueueAssumption
  <2>3. WorkIsQueued' /\ WorkHandsOn'
    BY <1>3, <1>t, <2>1, WorkersKeep DEF Retire, TypeOK
  <2>4. TextHandsOn'
    BY <2>1, <1>s, TableKeeps
  <2> QED
    BY <2>2, <2>3, <2>4 DEF IInv
<1>4. ASSUME NEW w \in Workers, NEW j \in Jobs, Lease(w, j) PROVE IInv'
  <2> DEFINE table == [k \in Jobs |-> Swept(job[k])]
             busy == [pc |-> "work", job |-> j, outcome |-> "none"]
  <2>1. \A k \in Jobs : /\ table[k] \in JobRow
                        /\ job[k].status # NotQueued => table[k].status # NotQueued
                        /\ table[k].status = "completed" => job[k].status = "completed"
    BY <1>t, SweptType DEF TypeOK
  <2>2. Due(table[j]) /\ job' = [table EXCEPT ![j] = LeasedRow(table[j])]
    BY <1>4 DEF Lease
  <2> HIDE DEF table
  <2>3. /\ LeasedRow(table[j]) \in JobRow
        /\ LeasedRow(table[j]).status = "leased"
    BY <2>1, <2>2, LeasedRowType
  <2>4. DOMAIN table = Jobs
    BY DEF table
  <2>5. \A k \in Jobs : job'[k] = IF k = j THEN LeasedRow(table[j]) ELSE table[k]
    BY <2>2, <2>4
  <2>6. \A k \in Jobs : /\ job'[k] \in JobRow
                        /\ job[k].status # NotQueued => job'[k].status # NotQueued
                        /\ job'[k].status = "completed" => job[k].status = "completed"
    BY <2>1, <2>3, <2>5 DEF NotQueued
  <2>7. job' = [k \in Jobs |-> job'[k]]
    BY <2>2, <2>4
  <2>8. /\ worker' = [worker EXCEPT ![w] = busy] /\ busy \in WorkerState
        /\ UNCHANGED <<retired, overrun>>
    BY <1>4 DEF Lease, WorkerState
  <2>9. TypeOK'
    BY <1>t, <2>6, <2>7, <2>8 DEF TypeOK
  <2>10. job'[j].status # NotQueued
    BY <2>3, <2>5 DEF NotQueued
  <2>11. WorkIsQueued' /\ WorkHandsOn'
    BY <1>t, <2>6, <2>8, <2>9, <2>10, WorkersKeep DEF TypeOK
  <2>12. TextHandsOn'
    BY <2>6, <1>s, TableKeeps
  <2> QED
    BY <2>9, <2>11, <2>12 DEF IInv
<1>5. ASSUME NEW w \in Workers, Sweep(w) PROVE IInv'
  <2>1. \A k \in Jobs : job'[k] = Swept(job[k])
    BY <1>5 DEF Sweep
  <2>2. \A k \in Jobs : /\ job'[k] \in JobRow
                        /\ job[k].status # NotQueued => job'[k].status # NotQueued
                        /\ job'[k].status = "completed" => job[k].status = "completed"
    BY <1>t, <2>1, SweptType DEF TypeOK
  <2>3. TypeOK'
    BY <1>5, <1>t, <2>2 DEF Sweep, TypeOK
  <2>4. WorkIsQueued' /\ WorkHandsOn'
    BY <1>5, <1>t, <2>2, WorkersKeep DEF Sweep, TypeOK
  <2>5. TextHandsOn'
    BY <2>2, <1>s, TableKeeps
  <2> QED
    BY <2>3, <2>4, <2>5 DEF IInv
<1>6. ASSUME NEW w \in Workers, TextQueue(w) PROVE IInv'
  <2> DEFINE s0 == worker[w].job[1]
             next == ClaimsJob(s0)
             done == [pc |-> "finish", job |-> worker[w].job, outcome |-> "completed"]
  <2>1. /\ worker[w].pc = "queue" /\ worker[w].job \in Jobs
        /\ job[worker[w].job].status # NotQueued /\ worker[w].job[2] = "text"
    BY <1>6 DEF TextQueue, IInv, WorkIsQueued
  <2>2. s0 \in Sources /\ worker[w].job = TextJob(s0)
    BY <2>1 DEF Jobs, TextJob
  <2>3. next \in Jobs
    BY <2>2, <1>s
  <2>4. job' = WithQueued(next, "pending") /\ worker' = [worker EXCEPT ![w] = done]
        /\ UNCHANGED <<retired, overrun>>
    BY <1>6 DEF TextQueue, Proceed
  <2>5. /\ job' \in [Jobs -> JobRow]
        /\ job'[next].status # NotQueued
        /\ \A k \in Jobs \ {next} : job'[k] = job[k]
    BY <2>3, <2>4, <1>t, WithQueuedType DEF JobStatus
  <2>6. \A k \in Jobs : job[k].status # NotQueued => job'[k].status # NotQueued
    BY <2>5
  <2>7. done \in WorkerState
    BY <2>1 DEF WorkerState, Outcomes
  <2>8. TypeOK'
    BY <1>t, <2>4, <2>5, <2>7 DEF TypeOK
  <2>9. \A s \in Sources : worker[w].job = TextJob(s) => s = s0
    BY <1>s
  <2>10. worker'[w] = done /\ \A v \in Workers \ {w} : worker'[v] = worker[v]
    BY <1>t, <2>4 DEF TypeOK
  <2>11. /\ done.job \in Jobs
         /\ job'[done.job].status # NotQueued
         /\ done.pc # "queue"
         /\ done.outcome \in Outcomes
         /\ \A s \in Sources : done.job = TextJob(s) => job'[ClaimsJob(s)].status # NotQueued
    BY <2>1, <2>5, <2>6, <2>9 DEF Outcomes
  <2> HIDE DEF done, next
  <2>12. WorkIsQueued' /\ WorkHandsOn'
    BY <2>6, <2>8, <2>10, <2>11, WorkersKeep DEF TypeOK
  <2>13. TextHandsOn'
    <3> SUFFICES ASSUME NEW s \in Sources, job'[TextJob(s)].status = "completed"
                 PROVE  job[TextJob(s)].status = "completed"
      BY <2>6, TableKeeps
    <3>1. TextJob(s) # next
      BY DEF next, TextJob, ClaimsJob
    <3> QED
      BY <3>1, <2>5, <1>s
  <2> QED
    BY <2>8, <2>12, <2>13 DEF IInv
<1>7. ASSUME NEW w \in Workers,
             TextWork(w) \/ ClaimWork(w)
               \/ (\E outcome \in {"retryable", "blocked"} : WorkFails(w, outcome))
               \/ FinishRead(w)
      PROVE  IInv'
  <2>1. PICK pc \in {"queue", "finish", "write"}, outcome \in Outcomes \cup {"none"} :
          /\ Proceed(w, pc, outcome) /\ job' = job /\ UNCHANGED <<retired, overrun>>
          /\ worker[w].pc # "idle"
          /\ pc = "queue" => worker[w].job[2] = "text"
          /\ pc # "queue" => outcome \in Outcomes
          /\ outcome = "completed" =>
               worker[w].outcome = "completed" \/ worker[w].job[2] = "claims"
    <3>1. CASE TextWork(w)
      BY <3>1 DEF TextWork
    <3>2. CASE ClaimWork(w)
      BY <3>2 DEF ClaimWork, Outcomes
    <3>3. ASSUME NEW o \in {"retryable", "blocked"}, WorkFails(w, o)
          PROVE  Proceed(w, "finish", o) /\ job' = job /\ UNCHANGED <<retired, overrun>>
                 /\ worker[w].pc # "idle" /\ o \in Outcomes /\ o # "completed"
      BY <3>3 DEF WorkFails, Outcomes
    <3>4. CASE FinishRead(w)
      <4> DEFINE o == IF worker[w].outcome = "retryable"
                           /\ job[worker[w].job].attempts >= MaxAttempts
                      THEN "blocked" ELSE worker[w].outcome
      <4>1. Proceed(w, "write", o) /\ job' = job /\ UNCHANGED <<retired, overrun>>
            /\ worker[w].pc = "finish"
        BY <3>4 DEF FinishRead
      <4>2. worker[w].outcome \in Outcomes
        BY <4>1 DEF IInv, WorkIsQueued
      <4>3. o \in Outcomes /\ (o = "completed" => worker[w].outcome = "completed")
        BY <4>2 DEF Outcomes
      <4> HIDE DEF o
      <4> QED
        BY <4>1, <4>3
    <3> QED
      BY <1>7, <3>1, <3>2, <3>3, <3>4
  <2> DEFINE now == [pc |-> pc, job |-> worker[w].job, outcome |-> outcome]
  <2>2. worker'[w] = now /\ \A v \in Workers \ {w} : worker'[v] = worker[v]
    BY <1>t, <2>1 DEF Proceed, TypeOK
  <2>3. worker[w].job \in Jobs /\ job[worker[w].job].status # NotQueued
    BY <2>1 DEF IInv, WorkIsQueued
  <2>4. now \in WorkerState
    BY <2>1, <2>3 DEF WorkerState
  <2>5. TypeOK'
    BY <1>t, <2>1, <2>4 DEF TypeOK, Proceed
  <2>6. \A s \in Sources : (now.job = TextJob(s) /\ now.outcome = "completed")
                            => job[ClaimsJob(s)].status # NotQueued
    BY <2>1, <1>s DEF IInv, WorkHandsOn
  <2>7. WorkIsQueued' /\ WorkHandsOn'
    BY <2>1, <2>2, <2>3, <2>5, <2>6, WorkersKeep DEF TypeOK
  <2>8. TextHandsOn'
    BY <2>1 DEF IInv, TextHandsOn
  <2> QED
    BY <2>5, <2>7, <2>8 DEF IInv
<1>8. ASSUME NEW w \in Workers, FinishWrite(w) PROVE IInv'
  <2> DEFINE j == worker[w].job
             outcome == worker[w].outcome
             row == MovedTo(job[j], outcome, outcome # "retryable")
  <2>1. /\ worker[w].pc = "write" /\ j \in Jobs /\ job[j].status # NotQueued
        /\ outcome \in Outcomes
    BY <1>8 DEF FinishWrite, IInv, WorkIsQueued
  <2>2. outcome \in JobStatus /\ (outcome # "retryable") \in BOOLEAN
    BY <2>1 DEF Outcomes, JobStatus
  <2>3. row \in JobRow /\ row.status = outcome
    <3>1. job[j] \in JobRow
      BY <2>1, <1>t DEF TypeOK
    <3> HIDE DEF j, outcome
    <3> QED
      BY <2>2, <3>1, MovedToType
  <2>4. job' = [job EXCEPT ![j] = row] /\ worker' = [worker EXCEPT ![w] = Idle]
        /\ retired' = retired /\ overrun' \subseteq overrun
    BY <1>8 DEF FinishWrite, Leave
  <2>5. Idle \in WorkerState /\ Idle.pc = "idle"
    BY DEF Idle, WorkerState
  <2> HIDE DEF row
  <2>6. TypeOK'
    BY <2>3, <2>4, <2>5, <1>t DEF TypeOK
  <2>7. \A k \in Jobs : job'[k] = IF k = j THEN row ELSE job[k]
    BY <2>4, <1>t DEF TypeOK
  <2>8. \A k \in Jobs : job[k].status # NotQueued => job'[k].status # NotQueued
    BY <2>2, <2>3, <2>7, <1>t
  <2>9. WorkIsQueued' /\ WorkHandsOn'
    BY <2>4, <2>5, <2>6, <2>8, <1>t, WorkersKeep DEF TypeOK
  <2>10. TextHandsOn'
    <3> SUFFICES ASSUME NEW s \in Sources, job'[TextJob(s)].status = "completed",
                        job[TextJob(s)].status # "completed"
                 PROVE  job'[ClaimsJob(s)].status # NotQueued
      BY <2>8, TableKeeps
    <3>1. j = TextJob(s) /\ outcome = "completed"
      BY <2>3, <2>7, <1>s
    <3>2. job[ClaimsJob(s)].status # NotQueued
      BY <2>1, <3>1 DEF IInv, WorkHandsOn
    <3> QED
      BY <3>2, <2>8, <1>s
  <2> QED
    BY <2>6, <2>9, <2>10 DEF IInv
<1>9. ASSUME NEW j \in Jobs, LeaseRunsOut(j) \/ BackoffEnds(j) PROVE IInv'
  <2>1. PICK e \in BOOLEAN, d \in BOOLEAN :
          job' = [job EXCEPT ![j] = [@ EXCEPT !.expired = e, !.due = d]]
    <3>1. job \in [Jobs -> JobRow]
      BY <1>t DEF TypeOK
    <3>2. job[j].expired \in BOOLEAN /\ job[j].due \in BOOLEAN
      BY <3>1 DEF JobRow
    <3>3. CASE LeaseRunsOut(j)
      <4>1. [job[j] EXCEPT !.expired = TRUE] = [job[j] EXCEPT !.expired = TRUE, !.due = job[j].due]
        BY <3>1 DEF JobRow
      <4> QED
        BY <3>1, <3>2, <3>3, <4>1 DEF LeaseRunsOut
    <3>4. CASE BackoffEnds(j)
      <4>1. [job[j] EXCEPT !.due = TRUE] = [job[j] EXCEPT !.expired = job[j].expired, !.due = TRUE]
        BY <3>1 DEF JobRow
      <4> QED
        BY <3>1, <3>2, <3>4, <4>1 DEF BackoffEnds
    <3> QED
      BY <1>9, <3>3, <3>4
  <2>2. \A k \in Jobs : job'[k] \in JobRow /\ job'[k].status = job[k].status
    BY <2>1, <1>t DEF TypeOK, JobRow
  <2>3. TypeOK' /\ worker' = worker
    BY <1>9, <2>1, <2>2, <1>t DEF LeaseRunsOut, BackoffEnds, TypeOK
  <2>4. WorkIsQueued' /\ WorkHandsOn'
    BY <2>2, <2>3, WorkersKeep DEF TypeOK
  <2>5. TextHandsOn'
    BY <2>2, <1>s, TableKeeps
  <2> QED
    BY <2>3, <2>4, <2>5 DEF IInv
<1>10. ASSUME NEW w \in Workers, Crash(w) PROVE IInv'
  <2>1. Idle \in WorkerState /\ Idle.pc = "idle"
    BY DEF Idle, WorkerState
  <2>2. TypeOK'
    BY <1>10, <2>1, <1>t DEF Crash, Leave, TypeOK
  <2>3. WorkIsQueued' /\ WorkHandsOn'
    BY <1>10, <2>1, <2>2, <1>t, WorkersKeep DEF Crash, Leave, TypeOK
  <2>4. TextHandsOn'
    BY <1>10 DEF Crash, IInv, TextHandsOn
  <2> QED
    BY <2>2, <2>3, <2>4 DEF IInv
<1> QED
  BY <1>1, <1>2, <1>3, <1>4, <1>5, <1>6, <1>7, <1>8, <1>9, <1>10 DEF Next, Poll, Process

\* The rows stay well-formed; in particular no job is attempted more often
\* than the limit (lease_jobs, and the CHECK of the table).
THEOREM TypeCorrect == Spec => []TypeOK
<1>1. IInv => TypeOK
  BY DEF IInv
<1> QED
  BY <1>1, InitIInv, StepIInv, PTL DEF Spec

\* A completed text stage has queued its claim stage, whatever workers
\* overlap, die or are late (_run_text_job queues before it returns).
THEOREM WorkIsHandedOn == Spec => []TextHandsOn
<1>1. IInv => TextHandsOn
  BY DEF IInv
<1> QED
  BY <1>1, InitIInv, StepIInv, PTL DEF Spec
-----------------------------------------------------------------------------
(* A job while nobody at work on it has outlasted a lease *)

\* Its worker, if it has one, holds the lease, or lost it to a retirement; one
\* that is about to write "retryable" has read an attempt count below the
\* limit, and it is still the one of the row.
JobTimely(j) ==
  /\ \A v, w \in Workers : AtWork(v, j) /\ AtWork(w, j) => v = w
  /\ \A w \in Workers : AtWork(w, j) =>
       /\ job[j].status \in {"leased", "cancelled"} /\ ~ job[j].expired
       /\ worker[w].pc = "write" /\ worker[w].outcome = "retryable" =>
            job[j].attempts < MaxAttempts

Timely == \A j \in Jobs : j \in overrun \/ JobTimely(j)

LEMMA RestIsTimely ==
  ASSUME NEW j \in Jobs, \A w \in Workers : ~ AtWork(w, j)'
  PROVE  JobTimely(j)'
BY DEF JobTimely

\* A step that starts no work on the job: who goes on with it keeps the lease
\* and the attempts.
LEMMA GoingOnIsTimely ==
  ASSUME NEW j \in Jobs, JobTimely(j),
         \A w \in Workers : AtWork(w, j)' =>
           /\ AtWork(w, j)
           /\ job'[j].status \in {job[j].status, "cancelled"}
           /\ ~ job'[j].expired /\ job'[j].attempts = job[j].attempts
           /\ \/ worker'[w] = worker[w]
              \/ worker'[w].pc = "write" /\ worker'[w].outcome = "retryable" =>
                   job[j].attempts < MaxAttempts
  PROVE  JobTimely(j)'
BY DEF JobTimely

\* A worker that leaves: its job has no worker left, or is still overrun.
LEMMA LeavingIsTimely ==
  ASSUME TypeOK, NEW w \in Workers, Leave(w), worker[w].pc # "idle",
         NEW j \in Jobs, j \notin overrun', j \in overrun \/ JobTimely(j),
         j # worker[w].job => job'[j] = job[j]
  PROVE  JobTimely(j)'
<1>1. /\ worker'[w].pc = "idle"
      /\ \A v \in Workers \ {w} : worker'[v] = worker[v]
  BY DEF Leave, TypeOK, Idle
<1>2. \A v \in Workers : AtWork(v, j)' => v # w /\ AtWork(v, j)
  BY <1>1 DEF AtWork
<1>3. CASE j \in overrun
  <2>1. \A v \in Workers \ {w} : ~ AtWork(v, j)
    BY <1>3 DEF Leave
  <2> QED
    BY <1>2, <2>1, RestIsTimely
<1>4. CASE JobTimely(j) /\ AtWork(w, j)
  <2>1. \A v \in Workers \ {w} : ~ AtWork(v, j)
    BY <1>4 DEF JobTimely
  <2> QED
    BY <1>2, <2>1, RestIsTimely
<1>5. CASE JobTimely(j) /\ ~ AtWork(w, j)
  <2>1. job'[j] = job[j]
    BY <1>5 DEF AtWork
  <2>2. \A v \in Workers : AtWork(v, j) => ~ job[j].expired
    BY <1>5 DEF JobTimely
  <2> QED
    BY <1>1, <1>2, <1>5, <2>1, <2>2, GoingOnIsTimely
<1> QED
  BY <1>3, <1>4, <1>5

LEMMA StepJobTimely ==
  ASSUME IInv, [Next]_vars, NEW j \in Jobs, j \in overrun \/ JobTimely(j), j \notin overrun'
  PROVE  JobTimely(j)'
<1>t. TypeOK /\ job[j] \in JobRow
  BY DEF IInv, TypeOK
\* No worker starts, and overrun is left alone.
<1>k. ASSUME overrun' = overrun, worker' = worker, job'[j].attempts = job[j].attempts,
             job'[j].status \in {job[j].status, "cancelled"},
             job[j].expired \in {FALSE, TRUE} => job'[j].expired \in {FALSE, job[j].expired}
      PROVE  JobTimely(j)'
  <2>1. JobTimely(j) /\ job[j].expired \in BOOLEAN
    BY <1>k, <1>t DEF JobRow
  <2>2. \A w \in Workers : AtWork(w, j)' => AtWork(w, j) /\ ~ job[j].expired
    BY <1>k, <2>1 DEF AtWork, JobTimely
  <2> QED
    BY <1>k, <2>1, <2>2, GoingOnIsTimely
\* A worker goes on, with the rows of the others as they were.
<1>p. ASSUME overrun' = overrun, NEW w \in Workers, worker[w].pc # "idle",
             NEW pc, NEW outcome, Proceed(w, pc, outcome),
             AtWork(w, j) /\ pc = "write" /\ outcome = "retryable" =>
               job[j].attempts < MaxAttempts,
             (\E v \in Workers : AtWork(v, j)) => job'[j] = job[j]
      PROVE  JobTimely(j)'
  <2>1. /\ worker'[w] = [pc |-> pc, job |-> worker[w].job, outcome |-> outcome]
        /\ \A v \in Workers \ {w} : worker'[v] = worker[v]
    BY <1>p, <1>t DEF Proceed, TypeOK
  <2>2. \A v \in Workers : AtWork(v, j)' => AtWork(v, j)
    BY <1>p, <2>1 DEF AtWork
  <2>3. JobTimely(j)
    BY <1>p
  <2>4. \A v \in Workers : AtWork(v, j) => ~ job[j].expired
    BY <2>3 DEF JobTimely
  <2>5. \A v \in Workers : AtWork(v, j)' =>
          \/ worker'[v] = worker[v]
          \/ worker'[v].pc = "write" /\ worker'[v].outcome = "retryable" =>
               job[j].attempts < MaxAttempts
    BY <1>p, <2>1, <2>2
  <2> QED
    BY <1>p, <2>2, <2>3, <2>4, <2>5, GoingOnIsTimely
\* The sweep touches no job somebody works on within the lease.
<1>w. /\ Swept(job[j]).attempts = job[j].attempts
      /\ JobTimely(j) => \A w \in Workers : AtWork(w, j) => Swept(job[j]) = job[j]
  BY <1>t, SweptType DEF JobTimely
<1>1. CASE UNCHANGED vars
  BY <1>1, <1>k DEF vars
<1>2. ASSUME NEW k \in Jobs, NEW status \in {"pending", "blocked"}, Remember(k, status)
      PROVE  JobTimely(j)'
  <2>1. /\ worker' = worker /\ overrun' = overrun /\ job[k].status = NotQueued
        /\ k # j => job'[j] = job[j]
    BY <1>2, <1>t DEF Remember, WithQueued, Queued, TypeOK
  <2>2. CASE k # j
    BY <1>k, <2>1, <2>2
  <2>3. CASE k = j
    <3>1. \A w \in Workers : ~ AtWork(w, j)
      BY <2>1, <2>3 DEF JobTimely, NotQueued
    <3> QED
      BY <2>1, <3>1, RestIsTimely DEF AtWork
  <2> QED
    BY <2>2, <2>3
<1>3. ASSUME NEW s \in Sources, Retire(s) PROVE JobTimely(j)'
  <2>1. /\ job'[j].attempts = job[j].attempts
        /\ job'[j].expired \in {FALSE, job[j].expired}
        /\ job'[j].status = job[j].status \/ job'[j].status = "cancelled"
        /\ worker' = worker /\ overrun' = overrun
    BY <1>3 DEF Retire, MovedTo
  <2> QED
    BY <2>1, <1>k
<1>4. ASSUME NEW w \in Workers, NEW k \in Jobs, Lease(w, k) PROVE JobTimely(j)'
  <2> DEFINE table == [i \in Jobs |-> Swept(job[i])]
             busy == [pc |-> "work", job |-> k, outcome |-> "none"]
  <2>1. /\ Due(table[k]) /\ job' = [table EXCEPT ![k] = LeasedRow(table[k])]
        /\ worker' = [worker EXCEPT ![w] = busy] /\ overrun' = overrun
        /\ worker[w].pc = "idle"
    BY <1>4 DEF Lease
  <2>2. worker'[w] = busy /\ \A v \in Workers \ {w} : worker'[v] = worker[v]
    BY <2>1, <1>t DEF TypeOK
  <2>3. JobTimely(j)
    BY <2>1
  <2>4. CASE k = j
    <3>1. table[j].status \in {"pending", "retryable"}
      BY <2>1, <2>4 DEF Due
    <3>2. \A v \in Workers : ~ AtWork(v, j)
      BY <1>w, <2>3, <3>1 DEF JobTimely
    <3>3. \A v \in Workers : AtWork(v, j)' => v = w
      BY <2>2, <3>2 DEF AtWork
    <3>4. job'[j].status = "leased" /\ ~ job'[j].expired /\ worker'[w].pc = "work"
      BY <2>1, <2>2, <2>4 DEF LeasedRow
    <3> QED
      BY <3>3, <3>4 DEF JobTimely
  <2>5. CASE k # j
    <3>1. job'[j] = Swept(job[j])
      BY <2>1, <2>5
    <3>2. \A v \in Workers : AtWork(v, j)' => v # w /\ AtWork(v, j)
      BY <2>2, <2>5 DEF AtWork
    <3>3. \A v \in Workers : AtWork(v, j) => job'[j] = job[j] /\ ~ job[j].expired
      BY <1>w, <2>3, <3>1 DEF JobTimely
    <3> QED
      BY <2>2, <2>3, <3>2, <3>3, GoingOnIsTimely
  <2> QED
    BY <2>4, <2>5
<1>5. ASSUME NEW w \in Workers, Sweep(w) PROVE JobTimely(j)'
  <2>1. worker' = worker /\ overrun' = overrun /\ job'[j] = Swept(job[j])
    BY <1>5 DEF Sweep
  <2>2. JobTimely(j) /\ \A v \in Workers : AtWork(v, j)' => AtWork(v, j)
    BY <2>1 DEF AtWork
  <2>3. \A v \in Workers : AtWork(v, j) => job'[j] = job[j] /\ ~ job[j].expired
    BY <1>w, <2>1, <2>2 DEF JobTimely
  <2> QED
    BY <2>1, <2>2, <2>3, GoingOnIsTimely
<1>6. ASSUME NEW w \in Workers, TextQueue(w) PROVE JobTimely(j)'
  <2> DEFINE next == ClaimsJob(worker[w].job[1])
  <2>1. worker[w].pc = "queue" /\ worker[w].job \in Jobs
    BY <1>6 DEF TextQueue, IInv, WorkIsQueued
  <2>2. next \in Jobs
    BY <2>1 DEF ClaimsJob, Jobs, Stages
  <2>3. job' = WithQueued(next, "pending") /\ Proceed(w, "finish", "completed")
        /\ overrun' = overrun
    BY <1>6 DEF TextQueue
  <2> HIDE DEF next
  <2>4. job'[j] = job[j] \/ job[j].status = NotQueued
    BY <2>2, <2>3, <1>t DEF WithQueued, Queued, TypeOK
  <2>5. \A v \in Workers : AtWork(v, j) => job[j].status # NotQueued
    BY <2>3 DEF JobTimely, NotQueued
  <2> QED
    BY <2>1, <2>3, <2>4, <2>5, <1>p
<1>7. ASSUME NEW w \in Workers, TextWork(w) \/ ClaimWork(w) PROVE JobTimely(j)'
  BY <1>7, <1>p DEF TextWork, ClaimWork
<1>8. ASSUME NEW w \in Workers, NEW outcome, WorkFails(w, outcome) PROVE JobTimely(j)'
  BY <1>8, <1>p DEF WorkFails
<1>9. ASSUME NEW w \in Workers, FinishRead(w) PROVE JobTimely(j)'
  <2> DEFINE exhausted == worker[w].outcome = "retryable"
                            /\ job[worker[w].job].attempts >= MaxAttempts
             outcome == IF exhausted THEN "blocked" ELSE worker[w].outcome
  <2>1. worker[w].pc = "finish" /\ Proceed(w, "write", outcome) /\ job' = job
        /\ overrun' = overrun
    BY <1>9 DEF FinishRead
  <2>2. job[j].attempts \in Nat /\ MaxAttempts \in Nat
    BY <1>t, CaptureQueueAssumption DEF JobRow
  <2>3. AtWork(w, j) /\ outcome = "retryable" => job[j].attempts < MaxAttempts
    BY <2>2 DEF AtWork
  <2> HIDE DEF outcome
  <2> QED
    BY <2>1, <2>3, <1>p
<1>10. ASSUME NEW w \in Workers, FinishWrite(w) PROVE JobTimely(j)'
  <2>1. Leave(w) /\ worker[w].pc # "idle" /\ (j # worker[w].job => job'[j] = job[j])
    BY <1>10, <1>t DEF FinishWrite, TypeOK
  <2> QED
    BY <2>1, <1>t, LeavingIsTimely
<1>11. ASSUME NEW w \in Workers, Crash(w) PROVE JobTimely(j)'
  <2>1. Leave(w) /\ worker[w].pc # "idle" /\ job'[j] = job[j]
    BY <1>11 DEF Crash
  <2> QED
    BY <2>1, <1>t, LeavingIsTimely
<1>12. ASSUME NEW k \in Jobs, LeaseRunsOut(k) PROVE JobTimely(j)'
  <2>1. /\ worker' = worker /\ overrun \subseteq overrun'
        /\ k # j => job'[j] = job[j] /\ overrun' \subseteq overrun \cup {k}
    BY <1>12, <1>t DEF LeaseRunsOut, TypeOK
  <2>2. CASE k = j
    <3>1. \A w \in Workers : ~ AtWork(w, j)
      BY <1>12, <2>2 DEF LeaseRunsOut
    <3> QED
      BY <2>1, <3>1, RestIsTimely DEF AtWork
  <2>3. CASE k # j
    <3>1. JobTimely(j) /\ job'[j] = job[j]
      BY <2>1, <2>3
    <3>2. \A v \in Workers : AtWork(v, j)' => AtWork(v, j) /\ ~ job[j].expired
      BY <2>1, <3>1 DEF AtWork, JobTimely
    <3> QED
      BY <2>1, <3>1, <3>2, GoingOnIsTimely
  <2> QED
    BY <2>2, <2>3
<1>13. ASSUME NEW k \in Jobs, BackoffEnds(k) PROVE JobTimely(j)'
  <2>1. /\ worker' = worker /\ overrun' = overrun
        /\ job'[j].status = job[j].status /\ job'[j].attempts = job[j].attempts
        /\ job'[j].expired = job[j].expired
    BY <1>13, <1>t DEF BackoffEnds, TypeOK, JobRow
  <2> QED
    BY <2>1, <1>k
<1> QED
  BY <1>1, <1>2, <1>3, <1>4, <1>5, <1>6, <1>7, <1>8, <1>9, <1>10, <1>11, <1>12, <1>13
  DEF Next, Poll, Process

LEMMA StepTimely == IInv /\ Timely /\ [Next]_vars => Timely'
<1> SUFFICES ASSUME IInv, Timely, [Next]_vars, NEW j \in Jobs, j \notin overrun'
             PROVE  JobTimely(j)'
  BY DEF Timely
<1> QED
  BY StepJobTimely DEF Timely

LEMMA InitTimely == Init => Timely
<1> SUFFICES ASSUME Init PROVE Timely
  OBVIOUS
<1>1. \A w \in Workers, j \in Jobs : ~ AtWork(w, j)
  BY DEF Init, AtWork, Idle
<1> QED
  BY <1>1 DEF Timely, JobTimely

\* Two workers are at work on one job only while one that outlasted a lease on
\* the job is (lease_jobs takes over only what is pending, retryable or
\* expired), for any number of workers, slow or not.
THEOREM LeasesExclude == Spec => []OneWorkerPerJob
<1>1. Timely => OneWorkerPerJob
  BY DEF Timely, JobTimely, OneWorkerPerJob, AtWork
<1> QED
  BY <1>1, InitIInv, InitTimely, StepIInv, StepTimely, PTL DEF Spec

LEMMA StrandedStep ==
  ASSUME IInv, Timely, [Next]_vars, NEW j \in Jobs, ~ Stranded(j), Stranded(j)'
  PROVE  j \in overrun
<1>t. /\ TypeOK /\ job[j] \in JobRow /\ Swept(job[j]) \in JobRow
      /\ job[j].attempts \in Nat /\ MaxAttempts \in Nat
  BY SweptType, CaptureQueueAssumption DEF IInv, TypeOK, JobRow
<1>s. /\ job'[j].status = "retryable" /\ job'[j].attempts >= MaxAttempts
      /\ job[j].status # "retryable" \/ job[j].attempts < MaxAttempts
  BY <1>t DEF Stranded
<1>w. ~ (Swept(job[j]).status = "retryable" /\ Swept(job[j]).attempts >= MaxAttempts)
  BY <1>t, <1>s, SweptType
<1>1. CASE job'[j].status = job[j].status /\ job'[j].attempts = job[j].attempts
  BY <1>1, <1>s, <1>t
<1>2. ASSUME NEW k \in Jobs, NEW status \in {"pending", "blocked"}, Remember(k, status)
      PROVE  FALSE
  BY <1>2, <1>1, <1>s, <1>t DEF Remember, WithQueued, NewRow, TypeOK
<1>3. ASSUME NEW s \in Sources, Retire(s) PROVE FALSE
  BY <1>3, <1>1, <1>s, <1>t DEF Retire, MovedTo
<1>4. ASSUME NEW w \in Workers, NEW k \in Jobs, Lease(w, k) PROVE FALSE
  BY <1>4, <1>s, <1>w DEF Lease, LeasedRow
<1>5. ASSUME NEW w \in Workers, Sweep(w) PROVE FALSE
  BY <1>5, <1>s, <1>w DEF Sweep
<1>6. ASSUME NEW w \in Workers, TextQueue(w) PROVE FALSE
  BY <1>6, <1>1, <1>s, <1>t DEF TextQueue, WithQueued, NewRow, TypeOK
<1>7. ASSUME NEW w \in Workers, FinishWrite(w) PROVE j \in overrun
  <2>1. AtWork(w, j) /\ worker[w].pc = "write" /\ worker[w].outcome = "retryable"
        /\ job'[j].attempts = job[j].attempts
    BY <1>7, <1>1, <1>s, <1>t DEF FinishWrite, MovedTo, AtWork, TypeOK
  <2> QED
    BY <2>1, <1>s, <1>t DEF Timely, JobTimely
<1> QED
  BY <1>1, <1>2, <1>3, <1>4, <1>5, <1>6, <1>7, <1>t
  DEF Next, Poll, Process, TextWork, ClaimWork, WorkFails, FinishRead, Crash, LeaseRunsOut,
      BackoffEnds, vars, TypeOK, JobRow

\* A job is left to be retried without an attempt, where neither lease_jobs
\* nor _expire_leases looks, only while a worker that outlasted its lease is
\* at work on it.
THEOREM StrandedOnlyLate == Spec => NoneStranded
<1> DEFINE Kept == \A j \in Jobs : ~ Stranded(j) /\ Stranded(j)' => j \in overrun
<1>1. IInv /\ Timely /\ [Next]_vars => [Kept]_vars
  BY StrandedStep
<1> QED
  BY <1>1, InitIInv, InitTimely, StepIInv, StepTimely, PTL DEF Spec, NoneStranded

\* Of all the steps only the end of a finish_job reopens a completed job.
LEMMA CompletedStep ==
  ASSUME IInv, [Next]_vars, NEW j \in Jobs, job[j].status = "completed",
         job'[j].status # "completed"
  PROVE  \E w \in Workers : worker[w].job = j /\ FinishWrite(w)
<1>t. TypeOK
  BY DEF IInv
<1>s. job[j] \in JobRow /\ Swept(job[j]).status = "completed"
  BY <1>t, SweptType DEF TypeOK
<1>2. ASSUME NEW k \in Jobs, NEW status \in {"pending", "blocked"}, Remember(k, status)
      PROVE  FALSE
  BY <1>2, <1>t DEF Remember, WithQueued, Queued, NotQueued, TypeOK
<1>3. ASSUME NEW s \in Sources, Retire(s) PROVE FALSE
  BY <1>3 DEF Retire
<1>4. ASSUME NEW w \in Workers, NEW k \in Jobs, Lease(w, k) PROVE FALSE
  BY <1>4, <1>s DEF Lease, Due
<1>5. ASSUME NEW w \in Workers, Sweep(w) PROVE FALSE
  BY <1>5, <1>s DEF Sweep
<1>6. ASSUME NEW w \in Workers, TextQueue(w) PROVE FALSE
  BY <1>6, <1>t DEF TextQueue, WithQueued, Queued, NotQueued, TypeOK
<1>7. ASSUME NEW w \in Workers,
             TextWork(w) \/ ClaimWork(w)
               \/ (\E outcome \in {"retryable", "blocked"} : WorkFails(w, outcome))
               \/ FinishRead(w) \/ Crash(w)
      PROVE  FALSE
  BY <1>7 DEF TextWork, ClaimWork, WorkFails, FinishRead, Crash
<1>8. ASSUME NEW w \in Workers, FinishWrite(w) PROVE worker[w].job = j
  BY <1>8, <1>t DEF FinishWrite, TypeOK
<1>9. ASSUME NEW k \in Jobs, LeaseRunsOut(k) \/ BackoffEnds(k) PROVE FALSE
  BY <1>9, <1>t DEF LeaseRunsOut, BackoffEnds, TypeOK, JobRow
<1>10. CASE UNCHANGED vars
  BY <1>10 DEF vars
<1> QED
  BY <1>2, <1>3, <1>4, <1>5, <1>6, <1>7, <1>8, <1>9, <1>10 DEF Next, Poll, Process

\* A completed job is reopened only by another worker that finishes it, while
\* one that outlasted its lease is at work on it: finish_job looks neither at
\* the owner nor at the status of the job it writes.
THEOREM ReopenedOnlyLate == Spec => CompletedStays
<1> DEFINE Kept == \A j \in Jobs :
                     job[j].status = "completed" /\ job'[j].status # "completed" =>
                       j \in overrun /\ \E w \in Workers : worker[w].job = j /\ FinishWrite(w)
<1>1. IInv /\ Timely /\ [Next]_vars => [Kept]_vars
  <2> SUFFICES ASSUME IInv, Timely, [Next]_vars, NEW j \in Jobs,
                      job[j].status = "completed", job'[j].status # "completed"
               PROVE  j \in overrun /\ \E w \in Workers : worker[w].job = j /\ FinishWrite(w)
    OBVIOUS
  <2>1. PICK w \in Workers : worker[w].job = j /\ FinishWrite(w)
    BY CompletedStep
  <2>2. AtWork(w, j)
    BY <2>1 DEF AtWork, FinishWrite
  <2> QED
    BY <2>1, <2>2 DEF Timely, JobTimely
<1> QED
  BY <1>1, InitIInv, InitTimely, StepIInv, StepTimely, PTL DEF Spec, CompletedStays
=============================================================================

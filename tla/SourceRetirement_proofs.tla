------------------------ MODULE SourceRetirement_proofs ------------------------
(***************************************************************************)
(* For every set of claims, sources and callers.                           *)
(*                                                                         *)
(* Whatever happens: a call of forget takes no claim down while all of its *)
(* sources are active, wherever calls die and however they overlap.  What  *)
(* a call has listed or planned is linked to its source, links are never   *)
(* removed, and a call that applies its plan has retired its source.       *)
(*                                                                         *)
(* Unless an extraction came in between: a call takes down only claims     *)
(* that have lost all their sources, with any number of calls that overlap *)
(* and die (PlanUnsupported).                                              *)
(*                                                                         *)
(* Unless also another retirement or a revalidation came in between: a     *)
(* call that ends has taken down every claim of its source that has no     *)
(* active source left (StillToDo).  The history variable during says what  *)
(* came in between; nothing is assumed of the constants.                   *)
(***************************************************************************)
EXTENDS SourceRetirement, TLAPS

\* What the step theorem needs to know of the shape of the state.
Shape ==
  /\ retired \subseteq Sources
  /\ links \in [Claims -> SUBSET Sources]
  /\ DOMAIN call = Callers
  /\ \A p \in Callers :
       /\ call[p] = [pc |-> call[p].pc, source |-> call[p].source,
                     listed |-> call[p].listed, plan |-> call[p].plan]
       /\ call[p].pc # "idle" => call[p].source \in Sources
       /\ DOMAIN call[p].listed = Claims
       /\ DOMAIN call[p].plan = Claims

\* The claims a call has on its lists are linked to its source.
ListsAreLinked ==
  \A p \in Callers, c \in Claims :
    (call[p].listed[c] # Absent \/ call[p].plan[c] # Absent)
      => call[p].source \in links[c]

\* A call that applies its plan has retired its source.
AppliersRetired ==
  \A p \in Callers : call[p].pc = "apply" => call[p].source \in retired

IInv == Shape /\ ListsAreLinked /\ AppliersRetired

LEMMA InitIInv == Init => IInv
BY DEF Init, IInv, Shape, ListsAreLinked, AppliersRetired, Resting, NoPlan

\* A step that leaves the calls alone removes no link and un-retires nothing.
LEMMA OthersKeep ==
  ASSUME IInv, call' = call, retired' = retired,
         links' \in [Claims -> SUBSET Sources],
         \A c \in Claims : links[c] \subseteq links'[c]
  PROVE  IInv'
BY DEF IInv, Shape, ListsAreLinked, AppliersRetired

\* A step of one call that changes no link.
LEMMA CallKeeps ==
  ASSUME IInv, NEW p \in Callers, NEW now,
         call' = [call EXCEPT ![p] = now],
         now = [pc |-> now.pc, source |-> now.source, listed |-> now.listed, plan |-> now.plan],
         DOMAIN now.listed = Claims, DOMAIN now.plan = Claims,
         now.pc # "idle" => now.source \in Sources,
         links' = links, retired \subseteq retired', retired' \subseteq Sources,
         now.pc = "apply" => now.source \in retired',
         \A c \in Claims : (now.listed[c] # Absent \/ now.plan[c] # Absent) => now.source \in links[c]
  PROVE  IInv'
<1>1. \A q \in Callers : call'[q] = IF q = p THEN now ELSE call[q]
  BY DEF IInv, Shape
<1>2. Shape'
  BY <1>1 DEF IInv, Shape
<1>3. ListsAreLinked'
  BY <1>1 DEF IInv, ListsAreLinked
<1>4. AppliersRetired'
  BY <1>1 DEF IInv, AppliersRetired
<1> QED
  BY <1>2, <1>3, <1>4 DEF IInv

LEMMA StepIInv == IInv /\ [Next]_vars => IInv'
<1> SUFFICES ASSUME IInv, [Next]_vars PROVE IInv'
  OBVIOUS
<1> USE DEF Absent
<1>1. CASE UNCHANGED vars
  BY <1>1, OthersKeep DEF vars, IInv, Shape
<1>2. ASSUME NEW s \in Sources, Remember(s) \/ Lease(s) \/ \E c \in Claims : Extract(s, c)
      PROVE  IInv'
  BY <1>2, OthersKeep DEF Remember, Lease, Extract, IInv, Shape
<1>3. ASSUME NEW s \in Sources, Link(s) PROVE IInv'
  <2>1. links' \in [Claims -> SUBSET Sources]
    BY <1>3 DEF Link, IInv, Shape
  <2>2. \A c \in Claims : links[c] \subseteq links'[c]
    BY <1>3 DEF Link, IInv, Shape
  <2> QED
    BY <1>3, <2>1, <2>2, OthersKeep DEF Link
<1>4. ASSUME NEW c \in Claims, Confirm(c) \/ Reconfirm(c) \/ ForgetClaim(c) PROVE IInv'
  BY <1>4, OthersKeep DEF Confirm, Reconfirm, ForgetClaim, IInv, Shape
<1>5. ASSUME NEW p \in Callers, NEW s \in Sources, CallStart(p, s) PROVE IInv'
  <2> DEFINE now == [pc |-> "list", source |-> s, listed |-> NoPlan, plan |-> NoPlan]
  <2>1. call' = [call EXCEPT ![p] = now] /\ links' = links /\ retired' = retired
    BY <1>5 DEF CallStart
  <2>2. \A c \in Claims : now.listed[c] = Absent /\ now.plan[c] = Absent
    BY DEF NoPlan
  <2>3. DOMAIN now.listed = Claims /\ DOMAIN now.plan = Claims
    BY DEF NoPlan
  <2>4. /\ now = [pc |-> now.pc, source |-> now.source, listed |-> now.listed, plan |-> now.plan]
        /\ now.pc = "list" /\ now.source \in Sources
    OBVIOUS
  <2>5. retired \subseteq retired' /\ retired' \subseteq Sources
    BY <2>1 DEF IInv, Shape
  <2> HIDE DEF now
  <2> QED
    BY <2>1, <2>2, <2>3, <2>4, <2>5, CallKeeps
<1>6. ASSUME NEW p \in Callers, CallList(p) PROVE IInv'
  BY <1>6, CallKeeps DEF CallList, NoPlan, IInv, Shape
<1>7. ASSUME NEW p \in Callers, NEW c \in Claims, CallCount(p, c) PROVE IInv'
  <2> DEFINE old == call[p]
             to == IF ActiveElsewhere(c, old.source) = {} THEN TakenDown(old.listed[c]) ELSE Absent
             now == [pc |-> "count", source |-> old.source,
                     listed |-> [old.listed EXCEPT ![c] = Absent],
                     plan |-> [old.plan EXCEPT ![c] = to]]
  <2>1. \A d \in Claims : (now.listed[d] # Absent \/ now.plan[d] # Absent) => now.source \in links[d]
    <3>1. old.source \in links[c]
      BY <1>7 DEF CallCount, IInv, ListsAreLinked
    <3>2. \A d \in Claims \ {c} : now.listed[d] = old.listed[d] /\ now.plan[d] = old.plan[d]
      BY DEF IInv, Shape
    <3> QED
      BY <3>1, <3>2 DEF IInv, ListsAreLinked
  <2>2. DOMAIN now.listed = Claims /\ DOMAIN now.plan = Claims
    BY DEF IInv, Shape
  <2>3. call' = [call EXCEPT ![p] = now] /\ links' = links /\ retired' = retired
    BY <1>7 DEF CallCount
  <2>4. now.source \in Sources
    BY <1>7 DEF CallCount, IInv, Shape
  <2> HIDE DEF to
  <2> QED
    BY <2>1, <2>2, <2>3, <2>4, CallKeeps DEF IInv, Shape
<1>8. ASSUME NEW p \in Callers, CallRetire(p) PROVE IInv'
  <2> DEFINE now == [pc |-> "apply", source |-> call[p].source, listed |-> NoPlan,
                     plan |-> call[p].plan]
  <2>1. call' = [call EXCEPT ![p] = now] /\ links' = links
    BY <1>8 DEF CallRetire
  <2>2. CASE call[p].source \in Sources
    <3>1. retired \subseteq retired' /\ retired' \subseteq Sources /\ now.source \in retired'
      BY <1>8, <2>2 DEF CallRetire, IInv, Shape
    <3>2. \A c \in Claims : (now.listed[c] # Absent \/ now.plan[c] # Absent) => now.source \in links[c]
      BY DEF NoPlan, IInv, ListsAreLinked
    <3>3. DOMAIN now.listed = Claims /\ DOMAIN now.plan = Claims
      BY DEF NoPlan, IInv, Shape
    <3> QED
      BY <2>1, <3>1, <3>2, <3>3, CallKeeps
  <2> QED
    BY <1>8, <2>2 DEF CallRetire, IInv, Shape
<1>9. ASSUME NEW p \in Callers, NEW c \in Claims, CallApply(p, c) PROVE IInv'
  <2> QED
    BY <1>9, CallKeeps DEF CallApply, NoPlan, IInv, Shape, ListsAreLinked, AppliersRetired
<1>10. ASSUME NEW p \in Callers, CallEnd(p) \/ CallDies(p) PROVE IInv'
  BY <1>10, CallKeeps DEF CallEnd, CallDies, Resting, NoPlan, IInv, Shape
<1> QED
  BY <1>1, <1>2, <1>3, <1>4, <1>5, <1>6, <1>7, <1>8, <1>9, <1>10 DEF Next, Advance

\* A call that dies, overlaps with others or works from a stale plan takes
\* no claim down while every source of the claim is active
\* (_apply_source_actions retires the source before it touches a claim).
THEOREM SourceGoesFirst == Spec => RetiredBeforeTakenDown
<1> DEFINE Safe == \A p \in Callers, c \in Claims :
                     CallApply(p, c) => links[c] \cap retired # {}
<1>1. IInv => Safe
  BY DEF IInv, ListsAreLinked, AppliersRetired, CallApply
<1>2. IInv /\ [Next]_vars => [Safe]_vars
  BY <1>1
<1> QED
  BY <1>2, InitIInv, StepIInv, PTL DEF Spec, RetiredBeforeTakenDown
-----------------------------------------------------------------------------
(* What the steps do to the table *)

\* One claim gets a new status.
SetsStatus(c, to) ==
  /\ TableTypeOK'
  /\ \A d \in Claims : claims'[d].status = IF d = c THEN to ELSE claims[d].status

\* A status write that keeps the replacement.
LEMMA WriteSets ==
  ASSUME TableTypeOK, NEW c \in Claims, NEW to \in Status, NEW why \in {"ordinary", "forget"},
         claims' = [claims EXCEPT ![c] = Moved(@, to, claims[c].replacedBy)],
         log' = [log EXCEPT ![c] = Logged(@, to, why)]
  PROVE  SetsStatus(c, to)
<1> DEFINE row == Moved(claims[c], to, claims[c].replacedBy)
           entry == Logged(log[c], to, why)
<1>1. claims \in [Claims -> Row] /\ log \in [Claims -> LogEntry]
  BY DEF TableTypeOK
<1>2. row \in Row /\ row.status = to
  BY <1>1 DEF Moved, Row
<1>3. entry \in LogEntry
  BY <1>1 DEF Logged, LogEntry, ArchiveReason
<1>4. claims' = [claims EXCEPT ![c] = row] /\ log' = [log EXCEPT ![c] = entry]
  OBVIOUS
<1> HIDE DEF row, entry
<1> QED
  BY <1>1, <1>2, <1>3, <1>4 DEF SetsStatus, TableTypeOK

LEMMA InsertSets ==
  ASSUME TableTypeOK, NEW c \in Claims, InsertTx(c)
  PROVE  SetsStatus(c, "candidate")
<1> DEFINE row == [claims[c] EXCEPT !.status = "candidate"]
           entry == Logged(log[c], "candidate", "ordinary")
<1>1. claims \in [Claims -> Row] /\ log \in [Claims -> LogEntry]
  BY DEF TableTypeOK
<1>2. row \in Row /\ row.status = "candidate"
  BY <1>1 DEF Row, Status
<1>3. entry \in LogEntry
  BY <1>1 DEF Logged, LogEntry, ArchiveReason, Status
<1>4. claims' = [claims EXCEPT ![c] = row] /\ log' = [log EXCEPT ![c] = entry]
  BY <1>1 DEF InsertTx
<1> HIDE DEF row, entry
<1> QED
  BY <1>1, <1>2, <1>3, <1>4 DEF SetsStatus, TableTypeOK

LEMMA ExtractSets ==
  ASSUME TypeOK, NEW s \in Sources, NEW c \in Claims, Extract(s, c)
  PROVE  UNCHANGED tableVars \/ SetsStatus(c, "candidate")
<1>1. CASE InsertTx(c)
  BY <1>1, InsertSets DEF TypeOK
<1>2. CASE ReviveTx(c, ImageOf(c))
  <2>1. /\ claims' = [claims EXCEPT ![c] = Moved(@, "candidate", claims[c].replacedBy)]
        /\ log' = [log EXCEPT ![c] = Logged(@, "candidate", "ordinary")]
    BY <1>2 DEF ReviveTx, ImageOf
  <2> QED
    BY <2>1, WriteSets DEF TypeOK, Status
<1> QED
  BY <1>1, <1>2 DEF Extract

LEMMA ConfirmSets ==
  ASSUME TypeOK, NEW c \in Claims, ConfirmTx(c, ImageOf(c), None)
  PROVE  SetsStatus(c, "confirmed")
<1>1. /\ claims' = [claims EXCEPT ![c] = Moved(@, "confirmed", claims[c].replacedBy)]
      /\ log' = [log EXCEPT ![c] = Logged(@, "confirmed", "ordinary")]
  BY DEF ConfirmTx, ImageOf
<1> QED
  BY <1>1, WriteSets DEF TypeOK, Status

LEMMA TransitionSets ==
  ASSUME TypeOK, NEW c \in Claims, NEW to \in Status, NEW why \in {"ordinary", "forget"},
         TransitionTx(c, ImageOf(c), to, why, None)
  PROVE  SetsStatus(c, to)
<1>1. /\ claims' = [claims EXCEPT ![c] = Moved(@, to, claims[c].replacedBy)]
      /\ log' = [log EXCEPT ![c] = Logged(@, to, why)]
  BY DEF TransitionTx, ImageOf
<1> QED
  BY <1>1, WriteSets DEF TypeOK

\* The governance steps: a claim that is in use or stale is confirmed, or
\* one is archived.
LEMMA GovernanceSets ==
  ASSUME TypeOK, NEW c \in Claims
  PROVE  /\ Confirm(c) => claims[c].status = "candidate" /\ SetsStatus(c, "confirmed")
         /\ Reconfirm(c) => Revalidating /\ SetsStatus(c, "confirmed")
         /\ ForgetClaim(c) => SetsStatus(c, "archived")
BY ConfirmSets, TransitionSets DEF Confirm, Reconfirm, ForgetClaim, Status

LEMMA ApplySets ==
  ASSUME TypeOK, NEW p \in Callers, NEW c \in Claims, CallApply(p, c)
  PROVE  SetsStatus(c, call[p].plan[c])
<1>1. call[p] \in CallState
  BY DEF TypeOK
<1>2. call[p].plan[c] \in Status
  BY <1>1 DEF CallState, CallApply
<1> QED
  BY <1>2, TransitionSets DEF CallApply
-----------------------------------------------------------------------------
(* Types *)

LEMMA NoPlanType == NoPlan \in [Claims -> Status \cup {Absent}]
BY DEF NoPlan

LEMMA RestingType == Resting \in CallState
BY NoPlanType DEF Resting, CallState

LEMMA InitType == Init => TypeOK
<1> SUFFICES ASSUME Init PROVE TypeOK
  OBVIOUS
<1>1. TableTypeOK
  BY DEF Init, TableInit, TableTypeOK, Row, LogEntry, ArchiveReason
<1>2. call \in [Callers -> CallState]
  BY RestingType DEF Init
<1>3. worker \in [Sources -> WorkerState] /\ during \in [Callers -> SUBSET Disturbance]
  BY DEF Init, WorkerState
<1> QED
  BY <1>1, <1>2, <1>3 DEF Init, TypeOK

\* A step of a call leaves a well typed call behind.
LEMMA CallTyped ==
  ASSUME TypeOK, IInv, NEW p \in Callers,
         Advance(p) \/ CallDies(p) \/ \E s \in Sources : CallStart(p, s)
  PROVE  \E now \in CallState : call' = [call EXCEPT ![p] = now]
<1>1. /\ call[p] \in CallState /\ claims \in [Claims -> Row]
      /\ call[p].plan \in [Claims -> Status \cup {Absent}]
      /\ call[p].listed \in [Claims -> Status \cup {Absent}]
      /\ call[p].source \in Sources \cup {None}
  BY DEF TypeOK, TableTypeOK, CallState
<1>2. ASSUME NEW s \in Sources, CallStart(p, s)
      PROVE  \E now \in CallState : call' = [call EXCEPT ![p] = now]
  BY <1>2, NoPlanType DEF CallStart, CallState
<1>3. CASE CallList(p)
  <2> DEFINE listed == [c \in Claims |-> IF call[p].source \in links[c] THEN claims[c].status ELSE Absent]
             now == [pc |-> "count", source |-> call[p].source, plan |-> NoPlan, listed |-> listed]
  <2>1. listed \in [Claims -> Status \cup {Absent}]
    BY <1>1 DEF Row
  <2>2. now \in CallState
    BY <1>1, <2>1, NoPlanType DEF CallState
  <2> QED
    BY <1>3, <2>2 DEF CallList
<1>4. ASSUME NEW c \in Claims, CallCount(p, c)
      PROVE  \E now \in CallState : call' = [call EXCEPT ![p] = now]
  <2> DEFINE to == IF ActiveElsewhere(c, call[p].source) = {} THEN TakenDown(call[p].listed[c])
                   ELSE Absent
             now == [pc |-> "count", source |-> call[p].source,
                     listed |-> [call[p].listed EXCEPT ![c] = Absent],
                     plan |-> [call[p].plan EXCEPT ![c] = to]]
  <2>1. to \in Status \cup {Absent}
    BY DEF TakenDown, Status
  <2>2. call' = [call EXCEPT ![p] = now]
    BY <1>4 DEF CallCount
  <2> HIDE DEF to
  <2>3. now \in CallState
    BY <1>1, <2>1 DEF CallState
  <2> HIDE DEF now
  <2> QED
    BY <2>2, <2>3
<1>5. CASE CallRetire(p)
  BY <1>1, <1>5, NoPlanType DEF CallRetire, CallState
<1>6. ASSUME NEW c \in Claims, CallApply(p, c)
      PROVE  \E now \in CallState : call' = [call EXCEPT ![p] = now]
  <2> DEFINE now == [pc |-> "apply", source |-> call[p].source, listed |-> NoPlan,
                     plan |-> [call[p].plan EXCEPT ![c] = Absent]]
  <2>1. call' = [call EXCEPT ![p] = now]
    BY <1>6 DEF CallApply
  <2>2. now \in CallState
    BY <1>1, NoPlanType DEF CallState
  <2> QED
    BY <2>1, <2>2
<1>7. CASE CallEnd(p) \/ CallDies(p)
  BY <1>7, RestingType DEF CallEnd, CallDies
<1> QED
  BY <1>2, <1>3, <1>4, <1>5, <1>6, <1>7 DEF Advance

\* The history and the queue keep their types.
LEMMA HistoryTyped ==
  ASSUME TypeOK, IInv, [Next]_vars
  PROVE  queued' \subseteq Sources /\ during' \in [Callers -> SUBSET Disturbance]
<1> DEFINE Good == queued' \subseteq Sources /\ during' \in [Callers -> SUBSET Disturbance]
<1>1. queued \subseteq Sources /\ during \in [Callers -> SUBSET Disturbance]
  BY DEF TypeOK
<1>2. ASSUME NEW what \in Disturbance, NEW but, Disturb(what, but)
      PROVE  during' \in [Callers -> SUBSET Disturbance]
  BY <1>1, <1>2 DEF Disturb
<1>3. "extraction" \in Disturbance /\ "retirement" \in Disturbance /\ "revalidation" \in Disturbance
  BY DEF Disturbance
<1>4. ASSUME NEW s \in Sources, Remember(s) \/ Lease(s) PROVE Good
  BY <1>1, <1>4 DEF Remember, Lease
<1>5. ASSUME NEW s \in Sources, Link(s) \/ \E c \in Claims : Extract(s, c) PROVE Good
  <2>1. Disturb("extraction", {}) /\ queued' = queued
    BY <1>5 DEF Extract, Link
  <2> QED
    BY <1>1, <1>2, <1>3, <2>1
<1>6. ASSUME NEW c \in Claims, Confirm(c) \/ ForgetClaim(c) PROVE Good
  BY <1>1, <1>6 DEF Confirm, ForgetClaim
<1>7. ASSUME NEW c \in Claims, Reconfirm(c) PROVE Good
  <2>1. Disturb("revalidation", {}) /\ queued' = queued
    BY <1>7 DEF Reconfirm
  <2> QED
    BY <1>1, <1>2, <1>3, <2>1
<1>8. ASSUME NEW p \in Callers, CallRetire(p) PROVE Good
  <2>1. Disturb("retirement", {p}) /\ queued' \subseteq queued
    BY <1>8 DEF CallRetire
  <2> QED
    BY <1>1, <1>2, <1>3, <2>1
<1>9. ASSUME NEW p \in Callers, NEW s \in Sources, CallStart(p, s) PROVE Good
  BY <1>1, <1>9 DEF CallStart
<1>10. ASSUME NEW p \in Callers, CallList(p) \/ \E c \in Claims : CallCount(p, c) \/ CallApply(p, c)
       PROVE  Good
  BY <1>1, <1>10 DEF CallList, CallCount, CallApply
<1>11. ASSUME NEW p \in Callers, CallEnd(p) \/ CallDies(p) PROVE Good
  BY <1>1, <1>11 DEF CallEnd, CallDies
<1>12. CASE UNCHANGED vars
  BY <1>1, <1>12 DEF vars
<1> HIDE DEF Good
<1>13. Good
  BY <1>4, <1>5, <1>6, <1>7, <1>8, <1>9, <1>10, <1>11, <1>12 DEF Next, Advance, Good
<1> QED
  BY <1>13 DEF Good

LEMMA TypeStep == TypeOK /\ IInv /\ [Next]_vars => TypeOK'
<1> SUFFICES ASSUME TypeOK, IInv, [Next]_vars PROVE TypeOK'
  OBVIOUS
<1>1. /\ TableTypeOK /\ retired \subseteq Sources /\ links \in [Claims -> SUBSET Sources]
      /\ worker \in [Sources -> WorkerState] /\ call \in [Callers -> CallState]
  BY DEF TypeOK
<1>2. retired' \subseteq Sources /\ links' \in [Claims -> SUBSET Sources]
  BY StepIInv DEF IInv, Shape
<1>3. ASSUME UNCHANGED tableVars PROVE TableTypeOK'
  BY <1>1, <1>3 DEF tableVars, TableTypeOK
<1>0. queued' \subseteq Sources /\ during' \in [Callers -> SUBSET Disturbance]
  BY HistoryTyped
<1>4. ASSUME NEW s \in Sources,
             Remember(s) \/ Lease(s) \/ (\E c \in Claims : Extract(s, c)) \/ Link(s)
      PROVE  TypeOK'
  <2>1. \E now \in WorkerState : worker' = [worker EXCEPT ![s] = now]
    <3>1. CASE Lease(s)
      <4>1. [worker[s] EXCEPT !.pc = "leased"] \in WorkerState
        BY <1>1 DEF WorkerState
      <4> QED
        BY <1>1, <3>1, <4>1 DEF Lease
    <3>2. CASE Link(s)
      BY <3>2 DEF Link, WorkerState
    <3>4. CASE Remember(s)
      <4>1. worker' = [worker EXCEPT ![s] = worker[s]]
        BY <1>1, <3>4 DEF Remember
      <4> QED
        BY <1>1, <4>1
    <3>3. ASSUME NEW c \in Claims, Extract(s, c)
          PROVE  \E now \in WorkerState : worker' = [worker EXCEPT ![s] = now]
      BY <3>3 DEF Extract, WorkerState
    <3> QED
      BY <1>4, <3>1, <3>2, <3>3, <3>4
  <2>2. worker' \in [Sources -> WorkerState]
    BY <1>1, <2>1
  <2>3. TableTypeOK' /\ call' = call
    <3>1. CASE Remember(s) \/ Lease(s) \/ Link(s)
      BY <1>3, <3>1 DEF Remember, Lease, Link, tableVars
    <3>2. ASSUME NEW c \in Claims, Extract(s, c) PROVE TableTypeOK' /\ call' = call
      BY <1>3, <3>2, ExtractSets DEF SetsStatus, Extract
    <3> QED
      BY <1>4, <3>1, <3>2
  <2> QED
    BY <1>0, <1>1, <1>2, <2>2, <2>3 DEF TypeOK
<1>5. ASSUME NEW c \in Claims, Confirm(c) \/ Reconfirm(c) \/ ForgetClaim(c) PROVE TypeOK'
  <2>1. TableTypeOK'
    BY <1>5, GovernanceSets DEF SetsStatus
  <2>2. UNCHANGED <<worker, call>>
    BY <1>5 DEF Confirm, Reconfirm, ForgetClaim
  <2> QED
    BY <1>0, <1>1, <1>2, <2>1, <2>2 DEF TypeOK
<1>6. ASSUME NEW p \in Callers, Advance(p) \/ CallDies(p) \/ \E s \in Sources : CallStart(p, s)
      PROVE  TypeOK'
  <2>1. call' \in [Callers -> CallState]
    BY <1>1, <1>6, CallTyped
  <2>2. worker' = worker
    BY <1>6 DEF Advance, CallList, CallCount, CallRetire, CallApply, CallEnd, CallDies, CallStart
  <2>3. TableTypeOK'
    <3>1. UNCHANGED tableVars \/ \E c \in Claims : CallApply(p, c)
      BY <1>6 DEF Advance, CallList, CallCount, CallRetire, CallEnd, CallDies, CallStart, tableVars
    <3> QED
      BY <1>3, <3>1, ApplySets DEF SetsStatus
  <2> QED
    BY <1>0, <1>1, <1>2, <2>1, <2>2, <2>3 DEF TypeOK
<1>7. CASE UNCHANGED vars
  BY <1>0, <1>1, <1>3, <1>7 DEF vars, tableVars, TypeOK
<1> QED
  BY <1>4, <1>5, <1>6, <1>7 DEF Next

\* The invariant of every run of the system.
LEMMA SpecTyped == Spec => [](TypeOK /\ IInv)
<1>1. Init => TypeOK /\ IInv
  BY InitType, InitIInv
<1>2. TypeOK /\ IInv /\ [Next]_vars => TypeOK' /\ IInv'
  BY TypeStep, StepIInv
<1> QED
  BY <1>1, <1>2, PTL DEF Spec

\* Claims, events, links and the state of workers and calls keep their
\* types, with calls that overlap, die and apply plans gone stale.
THEOREM TypeCorrect == Spec => []TypeOK
BY SpecTyped, PTL
-----------------------------------------------------------------------------
(* What a call has planned, and what it has still to do *)

\* A claim that is to be taken down has no active source but the one of the
\* call, unless an extraction came in between.
PlanUnsupported(p) ==
  \A c \in Claims :
    call[p].plan[c] # Absent /\ "extraction" \notin during[p] =>
      links[c] \subseteq retired \cup {call[p].source}

\* A plan takes claims out of use, and none that is not counted yet.
PlanTakesDown(p) ==
  \A c \in Claims :
    /\ call[p].plan[c] \in {Absent, "archived", "stale"}
    /\ call[p].plan[c] # Absent => call[p].pc \in {"count", "apply"}
    /\ call[p].listed[c] # Absent => call[p].plan[c] = Absent

\* A claim in use that has lost its sources, or is about to, is on the list
\* of an undisturbed call or in its plan.
StillToDo(p) ==
  during[p] = {} =>
    \A c \in Claims : Active(c) /\ call[p].source \in links[c] =>
      /\ call[p].pc = "count" /\ links[c] \subseteq retired \cup {call[p].source} =>
           call[p].listed[c] \in {"candidate", "confirmed"} \/ call[p].plan[c] # Absent
      /\ call[p].pc = "apply" /\ links[c] \subseteq retired => call[p].plan[c] # Absent

CInv ==
  /\ TypeOK
  /\ IInv
  /\ \A p \in Callers : PlanUnsupported(p) /\ PlanTakesDown(p) /\ StillToDo(p)

LEMMA InitCInv == Init => CInv
<1> SUFFICES ASSUME Init PROVE CInv
  OBVIOUS
<1>1. TypeOK /\ IInv
  BY InitType, InitIInv
<1>2. ASSUME NEW p \in Callers
      PROVE  call[p].pc = "idle" /\ \A c \in Claims : call[p].plan[c] = Absent /\ call[p].listed[c] = Absent
  BY DEF Init, Resting, NoPlan
<1>3. ASSUME NEW p \in Callers PROVE PlanUnsupported(p) /\ PlanTakesDown(p) /\ StillToDo(p)
  BY <1>2 DEF PlanUnsupported, PlanTakesDown, StillToDo
<1> QED
  BY <1>1, <1>3 DEF CInv

\* A step that lets a call alone and brings no claim into use.
LEMMA CalmStep ==
  ASSUME CInv, NEW q \in Callers, call'[q] = call[q], during'[q] = during[q],
         UNCHANGED <<links, retired>>, \A c \in Claims : Active(c)' => Active(c)
  PROVE  PlanUnsupported(q)' /\ PlanTakesDown(q)' /\ StillToDo(q)'
<1>1. PlanUnsupported(q) /\ PlanTakesDown(q) /\ StillToDo(q)
  BY DEF CInv
<1>2. PlanUnsupported(q)' /\ PlanTakesDown(q)'
  BY <1>1 DEF PlanUnsupported, PlanTakesDown, Absent
<1>3. StillToDo(q)'
  BY <1>1 DEF StillToDo, Absent
<1> QED
  BY <1>2, <1>3

\* A step that disturbs a call: an extraction, or one that leaves the links
\* as they are.
LEMMA DisturbedStep ==
  ASSUME CInv, NEW q \in Callers, call'[q] = call[q],
         call[q].pc # "idle" =>
           /\ during[q] \subseteq during'[q] /\ during'[q] # {}
           /\ "extraction" \in during'[q] \/ (links' = links /\ retired \subseteq retired')
  PROVE  PlanUnsupported(q)' /\ PlanTakesDown(q)' /\ StillToDo(q)'
<1>1. PlanUnsupported(q) /\ PlanTakesDown(q)
  BY DEF CInv
<1>2. PlanTakesDown(q)'
  BY <1>1 DEF PlanTakesDown, Absent
<1>3. CASE call[q].pc = "idle"
  <2>1. \A c \in Claims : call'[q].plan[c] = Absent
    BY <1>1, <1>3 DEF PlanTakesDown
  <2>2. PlanUnsupported(q)'
    BY <2>1 DEF PlanUnsupported, Absent
  <2>3. StillToDo(q)'
    BY <1>3 DEF StillToDo
  <2> QED
    BY <1>2, <2>2, <2>3
<1>4. CASE call[q].pc # "idle"
  <2>1. /\ during[q] \subseteq during'[q] /\ during'[q] # {}
        /\ "extraction" \in during'[q] \/ (links' = links /\ retired \subseteq retired')
    BY <1>4
  <2>2. PlanUnsupported(q)'
    BY <1>1, <2>1 DEF PlanUnsupported, Absent
  <2>3. StillToDo(q)'
    BY <2>1 DEF StillToDo
  <2> QED
    BY <1>2, <2>2, <2>3
<1> QED
  BY <1>3, <1>4

\* The steps that are not steps of a call.
LEMMA OthersCInv ==
  ASSUME CInv, NEW q \in Callers,
         \/ \E s \in Sources : Remember(s) \/ Lease(s) \/ Link(s) \/ \E c \in Claims : Extract(s, c)
         \/ \E c \in Claims : Confirm(c) \/ Reconfirm(c) \/ ForgetClaim(c)
         \/ UNCHANGED vars
  PROVE  PlanUnsupported(q)' /\ PlanTakesDown(q)' /\ StillToDo(q)'
<1> DEFINE Good == PlanUnsupported(q)' /\ PlanTakesDown(q)' /\ StillToDo(q)'
<1>0. TypeOK
  BY DEF CInv
<1>1. ASSUME NEW s \in Sources, Remember(s) \/ Lease(s) PROVE Good
  BY <1>1, CalmStep DEF Remember, Lease, Active
<1>2. ASSUME NEW s \in Sources, Link(s) \/ \E c \in Claims : Extract(s, c) PROVE Good
  <2>1. Disturb("extraction", {}) /\ call' = call
    BY <1>2 DEF Extract, Link
  <2>2. call[q].pc # "idle" => during'[q] = during[q] \cup {"extraction"}
    BY <2>1 DEF Disturb, CallsInProgress
  <2> QED
    BY <2>1, <2>2, DisturbedStep
<1>3. ASSUME NEW c \in Claims, Confirm(c) \/ ForgetClaim(c) PROVE Good
  <2>1. \A d \in Claims : Active(d)' => Active(d)
    BY <1>0, <1>3, GovernanceSets DEF SetsStatus, Active
  <2> QED
    BY <1>3, <2>1, CalmStep DEF Confirm, ForgetClaim
<1>4. ASSUME NEW c \in Claims, Reconfirm(c) PROVE Good
  <2>1. Disturb("revalidation", {}) /\ UNCHANGED <<call, links, retired>>
    BY <1>4 DEF Reconfirm
  <2>2. call[q].pc # "idle" => during'[q] = during[q] \cup {"revalidation"}
    BY <2>1 DEF Disturb, CallsInProgress
  <2> QED
    BY <2>1, <2>2, DisturbedStep
<1>5. ASSUME UNCHANGED vars PROVE Good
  BY <1>5, CalmStep DEF vars, Active
<1> HIDE DEF Good
<1>6. ASSUME NEW s \in Sources,
             Remember(s) \/ Lease(s) \/ Link(s) \/ \E c \in Claims : Extract(s, c)
      PROVE  Good
  BY <1>1, <1>2, <1>6
<1>7. ASSUME NEW c \in Claims, Confirm(c) \/ Reconfirm(c) \/ ForgetClaim(c) PROVE Good
  BY <1>3, <1>4, <1>7
<1>8. Good
  BY <1>5, <1>6, <1>7
<1> QED
  BY <1>8 DEF Good

\* A step of another call.
LEMMA OtherCallCInv ==
  ASSUME CInv, NEW p \in Callers, NEW q \in Callers, q # p,
         Advance(p) \/ CallDies(p) \/ \E s \in Sources : CallStart(p, s)
  PROVE  PlanUnsupported(q)' /\ PlanTakesDown(q)' /\ StillToDo(q)'
<1> DEFINE Good == PlanUnsupported(q)' /\ PlanTakesDown(q)' /\ StillToDo(q)'
<1>0. /\ TypeOK /\ call \in [Callers -> CallState]
      /\ during \in [Callers -> SUBSET Disturbance]
      /\ PlanTakesDown(p)
  BY DEF CInv, TypeOK
<1>1. call'[q] = call[q]
  BY <1>0 DEF Advance, CallDies, CallStart, CallList, CallCount, CallRetire, CallApply, CallEnd
<1>2. ASSUME CallRetire(p) PROVE Good
  <2>1. Disturb("retirement", {p}) /\ links' = links /\ retired \subseteq retired'
    BY <1>2 DEF CallRetire
  <2>2. call[q].pc # "idle" => during'[q] = during[q] \cup {"retirement"}
    BY <2>1 DEF Disturb, CallsInProgress
  <2> QED
    BY <1>1, <2>1, <2>2, DisturbedStep
<1>3. ASSUME NEW c \in Claims, CallApply(p, c) PROVE Good
  <2>1. call[p].plan[c] \in {"archived", "stale"}
    BY <1>0, <1>3 DEF CallApply, PlanTakesDown
  <2>2. \A d \in Claims : Active(d)' => Active(d)
    BY <1>0, <1>3, <2>1, ApplySets DEF SetsStatus, Active
  <2> QED
    BY <1>1, <1>3, <2>2, CalmStep DEF CallApply
<1>4. ASSUME CallEnd(p) \/ CallDies(p) PROVE Good
  <2>1. during'[q] = during[q]
    BY <1>0, <1>4 DEF CallEnd, CallDies
  <2> QED
    BY <1>1, <1>4, <2>1, CalmStep DEF CallEnd, CallDies, Active
<1>5. ASSUME CallList(p) \/ (\E c \in Claims : CallCount(p, c)) \/ \E s \in Sources : CallStart(p, s)
      PROVE  Good
  BY <1>1, <1>5, CalmStep DEF CallList, CallCount, CallStart, Active
<1> HIDE DEF Good
<1>6. Good
  BY <1>2, <1>3, <1>4, <1>5 DEF Advance, Good
<1> QED
  BY <1>6 DEF Good

\* A step of the call itself.
LEMMA OwnCallCInv ==
  ASSUME CInv, NEW p \in Callers,
         Advance(p) \/ CallDies(p) \/ \E s \in Sources : CallStart(p, s)
  PROVE  PlanUnsupported(p)' /\ PlanTakesDown(p)' /\ StillToDo(p)'
<1> DEFINE Good == PlanUnsupported(p)' /\ PlanTakesDown(p)' /\ StillToDo(p)'
           old == call[p]
<1>1. /\ TypeOK /\ IInv /\ old \in CallState /\ claims \in [Claims -> Row]
      /\ old.plan \in [Claims -> Status \cup {Absent}]
      /\ old.listed \in [Claims -> Status \cup {Absent}]
      /\ \A c \in Claims : NoPlan[c] = Absent
      /\ Absent' = Absent
  BY DEF CInv, TypeOK, TableTypeOK, CallState, NoPlan, Absent
<1>2. PlanUnsupported(p) /\ PlanTakesDown(p) /\ StillToDo(p)
  BY DEF CInv
<1>3. ASSUME NEW now, call' = [call EXCEPT ![p] = now] PROVE call'[p] = now
  BY <1>1, <1>3 DEF TypeOK
\* A call without list and plan that is not counting or applying.
<1>4. ASSUME NEW now, call' = [call EXCEPT ![p] = now], now.plan = NoPlan, now.listed = NoPlan,
             now.pc \notin {"count", "apply"}
      PROVE  Good
  <2>1. call'[p] = now
    BY <1>3, <1>4
  <2>2. PlanUnsupported(p)' /\ PlanTakesDown(p)'
    BY <1>1, <1>4, <2>1 DEF PlanUnsupported, PlanTakesDown
  <2>3. StillToDo(p)'
    BY <1>4, <2>1 DEF StillToDo
  <2> QED
    BY <2>2, <2>3
<1>5. ASSUME CallEnd(p) \/ CallDies(p) \/ \E s \in Sources : CallStart(p, s) PROVE Good
  <2>1. ASSUME CallEnd(p) \/ CallDies(p) PROVE Good
    <3>1. /\ call' = [call EXCEPT ![p] = Resting]
          /\ Resting.plan = NoPlan /\ Resting.listed = NoPlan /\ Resting.pc = "idle"
      BY <2>1 DEF CallEnd, CallDies, Resting
    <3> QED
      BY <1>4, <3>1
  <2>2. ASSUME NEW s \in Sources, CallStart(p, s) PROVE Good
    <3> DEFINE now == [pc |-> "list", source |-> s, listed |-> NoPlan, plan |-> NoPlan]
    <3>1. call' = [call EXCEPT ![p] = now]
      BY <2>2 DEF CallStart
    <3>2. now.plan = NoPlan /\ now.listed = NoPlan /\ now.pc = "list"
      OBVIOUS
    <3> HIDE DEF now
    <3> QED
      BY <1>4, <3>1, <3>2
  <2> QED
    BY <1>5, <2>1, <2>2
<1>6. ASSUME CallList(p) PROVE Good
  <2> DEFINE listed == [c \in Claims |-> IF old.source \in links[c] THEN claims[c].status ELSE Absent]
             now == [pc |-> "count", source |-> old.source, plan |-> NoPlan, listed |-> listed]
  <2>1. /\ call' = [call EXCEPT ![p] = now]
        /\ UNCHANGED <<claims, links, retired, during>>
    BY <1>6 DEF CallList
  <2>2. call'[p] = now
    BY <1>3, <2>1
  <2>3. \A c \in Claims : Active(c)' /\ old.source \in links[c] => listed[c] \in {"candidate", "confirmed"}
    BY <2>1 DEF Active
  <2>4. now.pc = "count" /\ now.source = old.source /\ now.plan = NoPlan /\ now.listed = listed
    OBVIOUS
  <2> HIDE DEF now, listed
  <2>5. PlanUnsupported(p)' /\ PlanTakesDown(p)'
    BY <1>1, <2>2, <2>4 DEF PlanUnsupported, PlanTakesDown
  <2>6. StillToDo(p)'
    BY <2>1, <2>2, <2>3, <2>4 DEF StillToDo
  <2> QED
    BY <2>5, <2>6
<1>7. ASSUME NEW c \in Claims, CallCount(p, c) PROVE Good
  <2> DEFINE to == IF ActiveElsewhere(c, old.source) = {} THEN TakenDown(old.listed[c]) ELSE Absent
             plan == [old.plan EXCEPT ![c] = to]
             listed == [old.listed EXCEPT ![c] = Absent]
             now == [pc |-> "count", source |-> old.source, listed |-> listed, plan |-> plan]
  <2>1. /\ call' = [call EXCEPT ![p] = now]
        /\ UNCHANGED <<claims, links, retired, during>>
        /\ old.pc = "count" /\ old.listed[c] # Absent
    BY <1>7 DEF CallCount
  <2>2. call'[p] = now
    BY <1>3, <2>1
  <2>3. to \in {Absent, "archived", "stale"}
    BY DEF TakenDown
  <2>4. to # Absent => links[c] \subseteq retired \cup {old.source}
    BY <1>1 DEF ActiveElsewhere, TypeOK
  <2>5. ASSUME links[c] \subseteq retired \cup {old.source}, old.listed[c] \in {"candidate", "confirmed"}
        PROVE  to # Absent
    <3>1. ActiveElsewhere(c, old.source) = {}
      BY <2>5 DEF ActiveElsewhere
    <3> QED
      BY <2>5, <3>1 DEF TakenDown, Absent
  <2> HIDE DEF to
  <2>6. /\ plan[c] = to /\ listed[c] = Absent
        /\ \A d \in Claims \ {c} : plan[d] = old.plan[d] /\ listed[d] = old.listed[d]
    BY <1>1
  <2>7. now.pc = "count" /\ now.source = old.source /\ now.plan = plan /\ now.listed = listed
    OBVIOUS
  <2> HIDE DEF now, plan, listed
  <2>8. PlanUnsupported(p)'
    <3>1. ASSUME NEW d \in Claims, plan[d] # Absent, "extraction" \notin during[p]
          PROVE  links[d] \subseteq retired \cup {old.source}
      BY <1>2, <2>4, <2>6, <3>1 DEF PlanUnsupported
    <3> QED
      BY <1>1, <2>1, <2>2, <2>7, <3>1 DEF PlanUnsupported
  <2>9. PlanTakesDown(p)'
    <3>1. ASSUME NEW d \in Claims
          PROVE  /\ plan[d] \in {Absent, "archived", "stale"}
                 /\ listed[d] # Absent => plan[d] = Absent
      BY <1>2, <2>3, <2>6 DEF PlanTakesDown
    <3> QED
      BY <1>1, <2>2, <2>7, <3>1 DEF PlanTakesDown
  <2>10. StillToDo(p)'
    <3>1. ASSUME during[p] = {}, NEW d \in Claims, Active(d), old.source \in links[d],
                 links[d] \subseteq retired \cup {old.source}
          PROVE  listed[d] \in {"candidate", "confirmed"} \/ plan[d] # Absent
      <4>1. old.listed[d] \in {"candidate", "confirmed"} \/ old.plan[d] # Absent
        BY <1>2, <2>1, <3>1 DEF StillToDo
      <4>2. CASE d = c
        <5>1. old.plan[c] = Absent
          BY <1>2, <2>1 DEF PlanTakesDown
        <5> QED
          BY <2>5, <2>6, <3>1, <4>1, <4>2, <5>1
      <4>3. CASE d # c
        BY <2>6, <4>1, <4>3
      <4> QED
        BY <4>2, <4>3
    <3>2. \A d \in Claims : Active(d)' = Active(d)
      BY <2>1 DEF Active
    <3> QED
      BY <1>1, <2>1, <2>2, <2>7, <3>1, <3>2 DEF StillToDo
  <2> QED
    BY <2>8, <2>9, <2>10
<1>8. ASSUME CallRetire(p) PROVE Good
  <2> DEFINE now == [pc |-> "apply", source |-> old.source, listed |-> NoPlan, plan |-> old.plan]
  <2>1. /\ call' = [call EXCEPT ![p] = now] /\ UNCHANGED <<claims, links>>
        /\ old.pc = "count" /\ old.listed = NoPlan
        /\ retired' = retired \cup {old.source}
        /\ Disturb("retirement", {p})
    BY <1>8 DEF CallRetire
  <2>2. call'[p] = now /\ during'[p] = during[p]
    BY <1>3, <2>1 DEF Disturb
  <2>3. now.pc = "apply" /\ now.source = old.source /\ now.plan = old.plan /\ now.listed = NoPlan
    OBVIOUS
  <2> HIDE DEF now
  <2>4. PlanUnsupported(p)'
    BY <1>1, <1>2, <2>1, <2>2, <2>3 DEF PlanUnsupported
  <2>5. PlanTakesDown(p)'
    BY <1>1, <1>2, <2>2, <2>3 DEF PlanTakesDown
  <2>6. StillToDo(p)'
    <3>1. ASSUME during[p] = {}, NEW d \in Claims, Active(d), old.source \in links[d],
                 links[d] \subseteq retired'
          PROVE  old.plan[d] # Absent
      <4>1. old.listed[d] \in {"candidate", "confirmed"} \/ old.plan[d] # Absent
        BY <1>2, <2>1, <3>1 DEF StillToDo
      <4> QED
        BY <1>1, <2>1, <4>1 DEF Absent
    <3>2. \A d \in Claims : Active(d)' = Active(d)
      BY <2>1 DEF Active
    <3> QED
      BY <1>1, <2>1, <2>2, <2>3, <3>1, <3>2 DEF StillToDo
  <2> QED
    BY <2>4, <2>5, <2>6
<1>9. ASSUME NEW c \in Claims, CallApply(p, c) PROVE Good
  <2> DEFINE plan == [old.plan EXCEPT ![c] = Absent]
             now == [pc |-> "apply", source |-> old.source, listed |-> NoPlan, plan |-> plan]
  <2>1. /\ call' = [call EXCEPT ![p] = now] /\ UNCHANGED <<links, retired, during>>
        /\ old.pc = "apply" /\ old.plan[c] # Absent
    BY <1>9 DEF CallApply
  <2>2. call'[p] = now
    BY <1>3, <2>1
  <2>3. SetsStatus(c, old.plan[c])
    BY <1>1, <1>9, ApplySets
  <2>4. old.plan[c] \in {"archived", "stale"}
    BY <1>2, <2>1 DEF PlanTakesDown
  <2>5. plan[c] = Absent /\ \A d \in Claims \ {c} : plan[d] = old.plan[d]
    BY <1>1
  <2>6. now.pc = "apply" /\ now.source = old.source /\ now.plan = plan /\ now.listed = NoPlan
    OBVIOUS
  <2> HIDE DEF now, plan
  <2>7. PlanUnsupported(p)'
    BY <1>1, <1>2, <2>1, <2>2, <2>5, <2>6 DEF PlanUnsupported
  <2>8. PlanTakesDown(p)'
    BY <1>1, <1>2, <2>1, <2>2, <2>5, <2>6 DEF PlanTakesDown
  <2>9. StillToDo(p)'
    <3>1. ASSUME NEW d \in Claims, Active(d)' PROVE d # c /\ Active(d)
      BY <2>3, <2>4, <3>1 DEF SetsStatus, Active
    <3> QED
      BY <1>1, <1>2, <2>1, <2>2, <2>5, <2>6, <3>1 DEF StillToDo
  <2> QED
    BY <2>7, <2>8, <2>9
<1> HIDE DEF Good, old
<1>10. Good
  BY <1>5, <1>6, <1>7, <1>8, <1>9 DEF Advance
<1> QED
  BY <1>10 DEF Good

LEMMA StepCInv == CInv /\ [Next]_vars => CInv'
<1> SUFFICES ASSUME CInv, [Next]_vars PROVE CInv'
  OBVIOUS
<1>1. TypeOK' /\ IInv'
  BY TypeStep, StepIInv DEF CInv
<1>2. ASSUME NEW q \in Callers PROVE PlanUnsupported(q)' /\ PlanTakesDown(q)' /\ StillToDo(q)'
  <2> DEFINE Good == PlanUnsupported(q)' /\ PlanTakesDown(q)' /\ StillToDo(q)'
  <2>1. ASSUME NEW p \in Callers, Advance(p) \/ CallDies(p) \/ \E s \in Sources : CallStart(p, s)
        PROVE  Good
    BY <2>1, OwnCallCInv, OtherCallCInv
  <2>2. ASSUME NEW s \in Sources,
               Remember(s) \/ Lease(s) \/ Link(s) \/ \E c \in Claims : Extract(s, c)
        PROVE  Good
    BY <2>2, OthersCInv
  <2>3. ASSUME NEW c \in Claims, Confirm(c) \/ Reconfirm(c) \/ ForgetClaim(c) PROVE Good
    BY <2>3, OthersCInv
  <2>4. ASSUME UNCHANGED vars PROVE Good
    BY <2>4, OthersCInv
  <2> HIDE DEF Good
  <2>5. Good
    BY <2>1, <2>2, <2>3, <2>4 DEF Next
  <2> QED
    BY <2>5 DEF Good
<1>3. \A q \in Callers : PlanUnsupported(q)' /\ PlanTakesDown(q)' /\ StillToDo(q)'
  BY <1>2
<1> QED
  BY <1>1, <1>3 DEF CInv

\* A call takes down only claims that have lost all their sources, unless an
\* extraction came in between: the count of the other sources, made before the
\* source is retired, still holds when the claim is written, although other
\* calls retire sources, overlap and die meanwhile.
THEOREM OnlyUnsupportedTakenDown == Spec => SupportedStaysActive
<1> DEFINE Safe == \A p \in Callers, c \in Claims :
                     CallApply(p, c) /\ "extraction" \notin during[p] => Unsupported(c)
<1>1. ASSUME CInv PROVE Safe
  <2>1. ASSUME NEW p \in Callers, NEW c \in Claims, CallApply(p, c), "extraction" \notin during[p]
        PROVE  Unsupported(c)
    <3>1. call[p].pc = "apply" /\ call[p].plan[c] # Absent
      BY <2>1 DEF CallApply
    <3>2. links[c] \subseteq retired \cup {call[p].source}
      BY <1>1, <2>1, <3>1 DEF CInv, PlanUnsupported
    <3>3. call[p].source \in retired /\ call[p].source \in links[c]
      BY <1>1, <3>1 DEF CInv, IInv, AppliersRetired, ListsAreLinked
    <3> QED
      BY <3>2, <3>3 DEF Unsupported
  <2> QED
    BY <2>1
<1>2. CInv /\ [Next]_vars => [Safe]_vars
  BY <1>1
<1> QED
  BY <1>2, InitCInv, StepCInv, PTL DEF Spec, SupportedStaysActive

\* A call that ends leaves no claim of its source in use without an active
\* source, unless an extraction, another retirement or a revalidation came in
\* between: whoever confirms or forgets claims meanwhile, wherever earlier
\* calls died, and whatever retired sources were captured again.
THEOREM EndedCallIsThorough == Spec => CompletedCallIsThorough
<1> DEFINE Safe == \A p \in Callers :
                     CallEnd(p) /\ during[p] = {} =>
                       \A c \in Claims : call[p].source \in links[c] /\ Unsupported(c) => ~ Active(c)
<1>1. ASSUME CInv PROVE Safe
  <2>1. ASSUME NEW p \in Callers, CallEnd(p), during[p] = {},
               NEW c \in Claims, call[p].source \in links[c], Unsupported(c)
        PROVE  ~ Active(c)
    <3>1. call[p].pc = "apply" /\ call[p].plan[c] = Absent
      BY <2>1 DEF CallEnd, NoPlan
    <3> QED
      BY <1>1, <2>1, <3>1 DEF CInv, StillToDo, Unsupported
  <2> QED
    BY <2>1
<1>2. CInv /\ [Next]_vars => [Safe]_vars
  BY <1>1
<1> QED
  BY <1>2, InitCInv, StepCInv, PTL DEF Spec, CompletedCallIsThorough
=============================================================================

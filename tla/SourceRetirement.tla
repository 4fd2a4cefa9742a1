--------------------------- MODULE SourceRetirement ---------------------------
(***************************************************************************)
(* Forgetting a source (public/v1.py: forget, _source_actions,             *)
(* _apply_source_actions) while the rest of the system goes on: callers    *)
(* that capture a source (remember), workers that extract claims from it   *)
(* and link them (capture/worker.py, bridges/atlas_llm_extractor.py), the  *)
(* validator, and callers that forget a claim directly.                    *)
(*                                                                         *)
(* A call of forget works out a plan from several reads, retires the       *)
(* source in one transaction and then carries the plan out, one            *)
(* transaction per claim.  The row of a claim is read again right before   *)
(* its transaction, and the version guard refuses the write if it changes  *)
(* in between; the call then ends there with an error, which is CallDies.  *)
(* So the re-read and the write are one step here.                         *)
(***************************************************************************)
EXTENDS ClaimTable, FiniteSets

CONSTANTS
  Sources,       \* source items
  Callers,       \* processes that call forget
  MayDie,        \* callers that may crash, or see a write refused, in a call
  Overlapping,   \* sources whose workers may be at work during a call
  Again,         \* sources somebody captures again after they were retired
  Revalidating   \* whether cycles revalidate stale claims (policy mode)

ASSUME SourceRetirementAssumption ==
  /\ MayDie \subseteq Callers
  /\ Overlapping \subseteq Sources
  /\ Again \subseteq Sources
  /\ Revalidating \in BOOLEAN

VARIABLES
  retired,   \* source_items.retired_at IS NOT NULL
  links,     \* claim_evidence_links: claim -> sources of its evidence
  queued,    \* sources with a claim extraction job that is due
  worker,    \* the extraction of a source: idle, leased, or about to link a claim
  call,      \* the forget call of a process
  during     \* history: what others did while the call was in progress

vars == <<claims, log, retired, links, queued, worker, call, during>>

NoPlan == [c \in Claims |-> Absent]

Resting == [pc |-> "idle", source |-> None, listed |-> NoPlan, plan |-> NoPlan]

WorkerState == [pc : {"idle", "leased", "link"}, claim : Claims \cup {None}]

CallState == [pc     : {"idle", "list", "count", "apply"},
              source : Sources \cup {None},
              listed : [Claims -> Status \cup {Absent}],  \* listed, not yet counted
              plan   : [Claims -> Status \cup {Absent}]]  \* target, Absent: leave alone

\* What can make the plan of a call wrong while it is carried out.
Disturbance == {"extraction", "retirement", "revalidation"}

TypeOK ==
  /\ TableTypeOK
  /\ retired \subseteq Sources
  /\ links \in [Claims -> SUBSET Sources]
  /\ queued \subseteq Sources
  /\ worker \in [Sources -> WorkerState]
  /\ call \in [Callers -> CallState]
  /\ during \in [Callers -> SUBSET Disturbance]

Init ==
  /\ TableInit
  /\ retired = {}
  /\ links = [c \in Claims |-> {}]
  /\ queued = {}
  /\ worker = [s \in Sources |-> [pc |-> "idle", claim |-> None]]
  /\ call = [p \in Callers |-> Resting]
  /\ during = [p \in Callers |-> {}]
-----------------------------------------------------------------------------
\* The bound on versions stops the rest of the system early enough for the
\* calls of one caller to have room left.
Spare(c) == claims[c].version + Cardinality(Sources) < MaxVersion

CallsInProgress == {p \in Callers : call[p].pc # "idle"}

\* The calls in progress, but for those of some callers, are disturbed.
Disturb(what, but) ==
  during' = [p \in Callers |->
               IF p \in CallsInProgress \ but THEN during[p] \cup {what} ELSE during[p]]

(* Capture: producers, and a worker on the claim extraction job of a source *)

MayRun(s) == s \in Overlapping \/ CallsInProgress = {}

\* remember, with content the source did not have: the row of the source is
\* updated, its retirement is not looked at and stays, and a job is queued.
Remember(s) ==
  /\ s \in retired => s \in Again
  /\ queued' = queued \cup {s}
  /\ UNCHANGED <<claims, log, retired, links, worker, call, during>>

\* lease_jobs: whether the source is retired is not looked at.  (The jobs of
\* one source are taken one at a time here.)
Lease(s) ==
  /\ MayRun(s)
  /\ s \in queued
  /\ worker[s].pc = "idle"
  /\ queued' = queued \ {s}
  /\ worker' = [worker EXCEPT ![s].pc = "leased"]
  /\ UNCHANGED <<claims, log, retired, links, call, during>>

\* A lease that is out is honoured: the extraction does not look at the
\* source again.  It ingests a claim it found: inserted, revived, or the
\* existing one with the same content.
Extract(s, c) ==
  /\ MayRun(s)
  /\ worker[s].pc = "leased"
  /\ CASE claims[c].status = Absent -> InsertTx(c)
       [] claims[c].status = "archived" /\ log[c].archive # "forget" ->
            Spare(c) /\ ReviveTx(c, ImageOf(c))
       [] OTHER -> UNCHANGED tableVars
  /\ worker' = [worker EXCEPT ![s] = [pc |-> "link", claim |-> c]]
  /\ Disturb("extraction", {})
  /\ UNCHANGED <<retired, links, queued, call>>

\* link_claim_evidence, in a transaction after the one of the ingest.
Link(s) ==
  LET c == worker[s].claim IN
  /\ MayRun(s)
  /\ worker[s].pc = "link"
  /\ links' = [links EXCEPT ![c] = @ \cup {s}]
  /\ worker' = [worker EXCEPT ![s] = [pc |-> "idle", claim |-> None]]
  /\ Disturb("extraction", {})
  /\ UNCHANGED <<claims, log, retired, queued, call>>
-----------------------------------------------------------------------------
(* Governance: the validator and the direct forget.  Neither looks at the  *)
(* links.                                                                   *)

Confirm(c) ==
  /\ claims[c].status = "candidate" /\ Spare(c)
  /\ ConfirmTx(c, ImageOf(c), None)
  /\ UNCHANGED <<retired, links, queued, worker, call, during>>

\* A revalidation cycle confirms a stale claim whose citations and score
\* pass; the citations of a claim outlive the retirement of its source.
Reconfirm(c) ==
  /\ Revalidating
  /\ claims[c].status = "stale" /\ Spare(c)
  /\ ConfirmTx(c, ImageOf(c), None)
  /\ Disturb("revalidation", {})
  /\ UNCHANGED <<retired, links, queued, worker, call>>

\* forget(claim_id).
ForgetClaim(c) ==
  /\ claims[c].status \notin {Absent, "archived"} /\ Spare(c)
  /\ TransitionTx(c, ImageOf(c), "archived", "forget", None)
  /\ UNCHANGED <<retired, links, queued, worker, call, during>>
-----------------------------------------------------------------------------
(* A call of forget(source_item_id, apply) *)

\* get_source_item_by_id: a source that is retired already ends the call,
\* whatever the call that retired it left undone.
CallStart(p, s) ==
  /\ call[p].pc = "idle"
  /\ \A t \in Sources \ Overlapping : worker[t].pc = "idle"
  /\ s \notin retired
  /\ call' = [call EXCEPT ![p] =
       [pc |-> "list", source |-> s, listed |-> NoPlan, plan |-> NoPlan]]
  /\ UNCHANGED <<claims, log, retired, links, queued, worker, during>>

\* claims_for_source: one query.
CallList(p) ==
  LET s == call[p].source IN
  /\ call[p].pc = "list"
  /\ call' = [call EXCEPT ![p] =
       [pc |-> "count", source |-> s, plan |-> NoPlan,
        listed |-> [c \in Claims |-> IF s \in links[c] THEN claims[c].status ELSE Absent]]]
  /\ UNCHANGED <<claims, log, retired, links, queued, worker, during>>

\* Mutant: a source that is retired already still counts as support.
ActiveElsewhereStale(c, s) == links[c] \ {s}

\* Mutant: the retired sources are the ones counted.
ActiveElsewhereRetired(c, s) == (links[c] \cap retired) \ {s}

\* active_supporting_source_count(claim, excluding the source).
ActiveElsewhere(c, s) == links[c] \ (retired \cup {s})

\* The status a claim goes to when its last active source is retired.
TakenDown(status) ==
  CASE status = "candidate" -> "archived"
    [] status = "confirmed" -> "stale"
    [] OTHER -> Absent

\* One query per listed claim.
CallCount(p, c) ==
  LET now == call[p]
      to == IF ActiveElsewhere(c, now.source) = {} THEN TakenDown(now.listed[c]) ELSE Absent
  IN
  /\ now.pc = "count" /\ now.listed[c] # Absent
  /\ call' = [call EXCEPT ![p] =
       [pc |-> "count", source |-> now.source,
        listed |-> [now.listed EXCEPT ![c] = Absent],
        plan |-> [now.plan EXCEPT ![c] = to]]]
  /\ UNCHANGED <<claims, log, retired, links, queued, worker, during>>

\* Mutant: the claims are taken down before the source is retired.
CallRetireLast(p) ==
  /\ call[p].pc = "count" /\ call[p].listed = NoPlan
  /\ call' = [call EXCEPT ![p].pc = "apply"]
  /\ UNCHANGED <<claims, log, retired, links, queued, worker, during>>

\* retire_source; the jobs of the source are cancelled in the same
\* transaction, which a lease that is out does not notice.
CallRetire(p) ==
  LET now == call[p] IN
  /\ now.pc = "count" /\ now.listed = NoPlan
  /\ retired' = retired \cup {now.source}
  /\ call' = [call EXCEPT ![p] =
       [pc |-> "apply", source |-> now.source, listed |-> NoPlan, plan |-> now.plan]]
  /\ queued' = queued \ {now.source}
  /\ Disturb("retirement", {p})
  /\ UNCHANGED <<claims, log, links, worker>>

\* One action of the plan.  The row is current, the plan may not be: the
\* transition is not checked against the status the claim has now.
CallApply(p, c) ==
  LET now == call[p] IN
  /\ now.pc = "apply" /\ now.plan[c] # Absent
  /\ TransitionTx(c, ImageOf(c), now.plan[c], "ordinary", None)
  /\ call' = [call EXCEPT ![p] =
       [pc |-> "apply", source |-> now.source, listed |-> NoPlan,
        plan |-> [now.plan EXCEPT ![c] = Absent]]]
  /\ UNCHANGED <<retired, links, queued, worker, during>>

CallEnd(p) ==
  /\ call[p].pc = "apply" /\ call[p].plan = NoPlan
  /\ call' = [call EXCEPT ![p] = Resting]
  /\ during' = [during EXCEPT ![p] = {}]
  /\ UNCHANGED <<claims, log, retired, links, queued, worker>>

\* A crash, or an exception of a refused write.
CallDies(p) ==
  /\ p \in MayDie
  /\ call[p].pc # "idle"
  /\ call' = [call EXCEPT ![p] = Resting]
  /\ during' = [during EXCEPT ![p] = {}]
  /\ UNCHANGED <<claims, log, retired, links, queued, worker>>
-----------------------------------------------------------------------------
Advance(p) ==
  \/ CallList(p)
  \/ \E c \in Claims : CallCount(p, c)
  \/ CallRetire(p)
  \/ \E c \in Claims : CallApply(p, c)
  \/ CallEnd(p)

Next ==
  \/ \E s \in Sources :
       \/ Remember(s)
       \/ Lease(s)
       \/ \E c \in Claims : Extract(s, c)
       \/ Link(s)
  \/ \E c \in Claims : Confirm(c) \/ Reconfirm(c) \/ ForgetClaim(c)
  \/ \E p \in Callers :
       \/ \E s \in Sources : CallStart(p, s)
       \/ Advance(p)
       \/ CallDies(p)

Spec == Init /\ [][Next]_vars
-----------------------------------------------------------------------------
Active(c) == claims[c].status \in {"candidate", "confirmed"}

Unsupported(c) == links[c] # {} /\ links[c] \subseteq retired

\* A call that ends has taken down every claim of its source that has no
\* active source left, unless an extraction, another retirement or a
\* revalidation came in between: whatever else happens meanwhile (claims are
\* confirmed or forgotten, sources captured again), wherever earlier calls
\* died, and also for claims that other retired sources support.
CompletedCallIsThorough ==
  [][\A p \in Callers :
       CallEnd(p) /\ during[p] = {} =>
         \A c \in Claims : call[p].source \in links[c] /\ Unsupported(c) => ~ Active(c)]_vars

\* A call takes a claim down only if none of its sources is active any more,
\* unless an extraction came in between; calls may overlap and die.
SupportedStaysActive ==
  [][\A p \in Callers, c \in Claims :
       CallApply(p, c) /\ "extraction" \notin during[p] => Unsupported(c)]_vars

\* The source goes first: wherever a call dies, no claim was taken down while
\* all of its sources are still active.
RetiredBeforeTakenDown ==
  [][\A p \in Callers, c \in Claims :
       CallApply(p, c) => links[c] \cap retired # {}]_vars

(* What the code does not ensure *)

\* No call is in progress, and no claim waits for its link.
Settled == CallsInProgress = {} /\ \A s \in Sources : worker[s].pc # "link"

\* When no call is in progress, a claim all of whose sources are retired is
\* neither a candidate nor confirmed (docs/public-v1.md:88-90).  Fails if a
\* call died after it retired the source, if two calls overlap, if a source
\* is extracted late or captured again, and under revalidation.
UnsupportedIsOut ==
  Settled => \A c \in Claims : Unsupported(c) => ~ Active(c)

\* SupportedStaysActive whatever came in between: fails if the claim gets a
\* link while the call is between its count and its write.
PlansStayRight ==
  [][\A p \in Callers, c \in Claims : CallApply(p, c) => Unsupported(c)]_vars

\* A claim that was forgotten on request stays archived: fails if it was
\* forgotten while a call had planned to make it stale.
ForgottenStaysArchived ==
  \A c \in Claims : log[c].archive = "forget" => claims[c].status = "archived"
=============================================================================

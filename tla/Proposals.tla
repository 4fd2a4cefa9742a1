------------------------------ MODULE Proposals ------------------------------
(***************************************************************************)
(* Proposals to retire or demote a claim (govern/steward.py and            *)
(* govern/jobs/curation_drain.py), over the claims table.                  *)
(*                                                                         *)
(* A proposal is an event; so is its resolution.  Whether a proposal is    *)
(* pending is computed by reading both back, and the status of its claim.  *)
(* Resolving one takes three transactions and several reads: look the      *)
(* proposal up, read the claim, write the claim, record the resolution.    *)
(* Nothing holds them together, so two callers may resolve one proposal at *)
(* once, and a caller may die with the claim written and nothing recorded. *)
(* The drain resolves what no person has to look at, cycle after cycle.    *)
(* An operator resolves whatever he likes, and everybody else goes on      *)
(* writing the claims.                                                     *)
(***************************************************************************)
EXTENDS ClaimTable, Sequences, FiniteSets

CONSTANTS
  Operators,     \* callers of resolve_steward_proposal other than the drain
  Drain,         \* the drain
  Starts,        \* the tables the system may start from: Claims -> status
  Filings,       \* the proposals that may be filed
  Pinnable,      \* the claims an operator may pin and unpin
  Window,        \* how many of the newest proposals a resolution looks among
  Limit,         \* how many of the newest pending proposals a drain takes
  MaxProposals,  \* bound on the proposals filed
  MaxCalls,      \* bound on the calls of operators
  MaxDeaths,     \* bound on the deaths of the drain
  Busy           \* [Claims -> Nat]: the version up to which the other writers write a claim

\* What the filers propose: a retirement names its replacement, a conflict
\* the claim that contradicts the target or nobody.  A held proposal comes
\* from a model or a similarity score and waits for a person.
Wanted == {"superseded", "stale", "conflicted"}

Proposal ==
  {t \in [target : Claims, to : Wanted, other : Claims \cup {None}, held : BOOLEAN] :
     /\ t.other # t.target
     /\ t.to = "superseded" => t.other # None
     /\ t.to = "stale" => t.other = None /\ ~ t.held
     /\ t.to = "conflicted" /\ t.held => t.other = None}

ASSUME ProposalsAssumption ==
  /\ Drain \notin Operators
  /\ Starts \subseteq [Claims -> {"candidate", "confirmed", "conflicted"}]
  /\ \A s \in Starts, c, d \in Claims :
       c # d /\ s[c] = "confirmed" /\ s[d] = "confirmed"
         => TupleOf[c] # TupleOf[d] \/ TupleOf[c] = NoTuple
  /\ Filings \subseteq Proposal
  /\ Pinnable \subseteq Claims
  /\ {Window, Limit} \subseteq Nat \ {0}
  /\ {MaxProposals, MaxCalls, MaxDeaths} \subseteq Nat
  /\ Busy \in [Claims -> Nat]

VARIABLES
  proposals,     \* the proposal events, oldest first
  audit,         \* the resolution events, oldest first
  call,          \* the call of resolve_steward_proposal of each caller
  todo,          \* the proposals the drain has listed and not yet taken
  run,           \* the run of the validator
  calls, deaths  \* counters for the bounds

vars == <<claims, log, proposals, audit, call, todo, run, calls, deaths>>

Callers == Operators \cup {Drain}

Resolution == [of : Nat, verdict : {"approved", "rejected"}, applied : BOOLEAN]

Act == {"approve", "approve only", "reject"}

NoImage == [status |-> Absent, version |-> 0, replacedBy |-> None, supersedes |-> None]

Idle == [pc |-> "idle", of |-> 0, act |-> "reject", img |-> NoImage, applied |-> FALSE]

Calls == [pc : {"idle", "look", "read", "write", "record"}, of : Nat, act : Act,
          img : Image, applied : BOOLEAN]

NoRun == [on |-> FALSE, blocked |-> {}]

TypeOK ==
  /\ TableTypeOK
  /\ proposals \in Seq(Proposal)
  /\ audit \in Seq(Resolution)
  /\ call \in [Callers -> Calls]
  /\ todo \in SUBSET Nat
  /\ run \in [on : BOOLEAN, blocked : SUBSET Claims]
  /\ {calls, deaths} \subseteq Nat

\* Claims without links.
Init ==
  /\ \E s \in Starts :
       /\ claims = [c \in Claims |->
            [status |-> s[c], version |-> IF s[c] = "candidate" THEN 0 ELSE 1,
             replacedBy |-> None, supersedes |-> None, pinned |-> FALSE]]
       /\ log = [c \in Claims |-> [to |-> s[c], archive |-> "never"]]
  /\ proposals = <<>>
  /\ audit = <<>>
  /\ call = [r \in Callers |-> Idle]
  /\ todo = {}
  /\ run = NoRun
  /\ calls = 0
  /\ deaths = 0
-----------------------------------------------------------------------------
(* Reading the events back *)

\* Mutant: an approval counts although it was recorded without a write.
CountsUnapplied(i, p) == audit[i].of = p

\* An approval that wrote nothing resolves nothing.
Counts(i, p) ==
  /\ audit[i].of = p
  /\ audit[i].verdict = "approved" => audit[i].applied

Resolutions(p) == {i \in DOMAIN audit : Counts(i, p)}

\* Mutant: of two resolutions the newest stands.
StandsNewest(i, p) == \A j \in Resolutions(p) : j <= i

\* The events come newest first and each overwrites the one before it, so
\* of two resolutions the oldest stands.
Stands(i, p) == \A j \in Resolutions(p) : i <= j

Resolved(p, verdict) ==
  \E i \in Resolutions(p) : Stands(i, p) /\ audit[i].verdict = verdict

\* Mutant: a claim that was superseded meanwhile still waits for a verdict.
OutcomeReachedOpen(p) ==
  claims[proposals[p].target].status \in {proposals[p].to, "archived"}

\* _outcome_already_reached: nothing is left to decide.
OutcomeReached(p) ==
  claims[proposals[p].target].status \in {proposals[p].to, "archived", "superseded"}

\* list_steward_proposals.
Pending(p) ==
  /\ p \in DOMAIN proposals
  /\ Resolutions(p) = {}
  /\ ~ OutcomeReached(p)

\* pending_supersession_ids: the claims declared outdated, as the validator
\* sees them.  It does not know the details of held proposals.
PendingSupersession ==
  {proposals[p].target : p \in {q \in DOMAIN proposals : /\ proposals[q].to = "superseded"
                                                         /\ ~ proposals[q].held
                                                         /\ Resolutions(q) = {}}}
-----------------------------------------------------------------------------
(* Filing *)

\* The steward cycle, the ingest of a declared replacement, the dream worker
\* and the two deduplication jobs read the claim some time before they file,
\* so the claim may have any status by now.
File(t) ==
  /\ Len(proposals) < MaxProposals
  /\ Exists(t.target)
  /\ proposals' = Append(proposals, t)
  /\ UNCHANGED <<claims, log, audit, call, todo, run, calls, deaths>>
-----------------------------------------------------------------------------
(* resolve_steward_proposal *)

\* An operator picks a proposal from his queue.
Choose(o, p, act) ==
  /\ call[o].pc = "idle"
  /\ calls < MaxCalls
  /\ p \in DOMAIN proposals
  /\ call' = [call EXCEPT ![o] = [Idle EXCEPT !.pc = "look", !.of = p, !.act = act]]
  /\ calls' = calls + 1
  /\ UNCHANGED <<claims, log, proposals, audit, todo, run, deaths>>

\* list_steward_proposals again, and the check of the status it finds.  A
\* proposal that is not among the newest is not found, which is an error.
Look(r) ==
  LET j == call[r] IN
  /\ j.pc = "look"
  /\ call' = [call EXCEPT ![r] =
       IF Resolutions(j.of) # {} \/ Len(proposals) - j.of >= Window THEN Idle
       ELSE [j EXCEPT !.pc = IF j.act = "approve" THEN "read" ELSE "record"]]
  /\ UNCHANGED <<claims, log, proposals, audit, todo, run, calls, deaths>>

\* What the checks made on the image of the claim say: write it, take it for
\* done because it has the wanted status, or fail.
Verdict(p, img) ==
  LET to == proposals[p].to IN
  CASE to = img.status /\ to # "superseded" -> "done"
    [] CanTransition(img.status, to) /\ (to = "superseded" => img.replacedBy = None) -> "write"
    [] OTHER -> "fail"

\* _apply_steward_approval up to the transaction of transition_claim or
\* mark_superseded.
Read(r) ==
  LET j == call[r]
      img == ImageOf(proposals[j.of].target)
  IN
  /\ j.pc = "read"
  /\ call' = [call EXCEPT ![r] =
       IF Verdict(j.of, img) = "write"
       THEN [j EXCEPT !.pc = "write", !.img = img]
       ELSE [j EXCEPT !.pc = "record", !.applied = (Verdict(j.of, img) = "done")]]
  /\ UNCHANGED <<claims, log, proposals, audit, todo, run, calls, deaths>>

\* The transaction.  A conflict that names a claim leaves it in the column
\* of the replacement.
ApplyTx(p, img) ==
  LET t == proposals[p] IN
  IF t.to = "superseded" THEN MarkSupersededTx(t.target, img, t.other)
                         ELSE TransitionTx(t.target, img, t.to, "ordinary", t.other)

Refused(p, img) ==
  LET t == proposals[p] IN
  IF t.to = "superseded" THEN ~ MarkAllowed(t.target, img, t.other)
                         ELSE ~ Current(t.target, img)

Write(r) ==
  LET j == call[r] IN
  /\ j.pc = "write"
  /\ ApplyTx(j.of, j.img)
  /\ call' = [call EXCEPT ![r] = [j EXCEPT !.pc = "record", !.img = NoImage, !.applied = TRUE]]
  /\ UNCHANGED <<proposals, audit, todo, run, calls, deaths>>

\* The version has moved, or the replacement was taken: apply_error.
WriteRefused(r) ==
  LET j == call[r] IN
  /\ j.pc = "write"
  /\ Refused(j.of, j.img)
  /\ call' = [call EXCEPT ![r] = [j EXCEPT !.pc = "record", !.img = NoImage]]
  /\ UNCHANGED <<claims, log, proposals, audit, todo, run, calls, deaths>>

\* The event.  A failed approval is recorded as apply_failed, which no
\* reader of resolutions looks at.
Record(r) ==
  LET j == call[r] IN
  /\ j.pc = "record"
  /\ audit' = IF j.act = "approve" /\ ~ j.applied THEN audit
              ELSE Append(audit, [of |-> j.of,
                                  verdict |-> IF j.act = "reject" THEN "rejected" ELSE "approved",
                                  applied |-> j.applied])
  /\ call' = [call EXCEPT ![r] = Idle]
  /\ UNCHANGED <<claims, log, proposals, todo, run, calls, deaths>>

Resolve(r) == Look(r) \/ Read(r) \/ Write(r) \/ WriteRefused(r) \/ Record(r)
-----------------------------------------------------------------------------
(* drain_proposals *)

\* Held proposals are listed too, but do not use up the limit.
Drainable == {p \in DOMAIN proposals : Pending(p) /\ ~ proposals[p].held}

InReach(p) == Cardinality({q \in Drainable : q > p}) < Limit

DrainList ==
  /\ call[Drain].pc = "idle" /\ todo = {}
  /\ todo' = {p \in Drainable : InReach(p)}
  /\ UNCHANGED <<claims, log, proposals, audit, call, run, calls, deaths>>

\* Newest first.  A pinned claim is the operator's.
DrainTake(p) ==
  /\ call[Drain].pc = "idle"
  /\ p \in todo /\ \A q \in todo : q <= p
  /\ todo' = todo \ {p}
  /\ call' = [call EXCEPT ![Drain] =
       IF claims[proposals[p].target].pinned THEN Idle
       ELSE [Idle EXCEPT !.pc = "look", !.of = p, !.act = "approve"]]
  /\ UNCHANGED <<claims, log, proposals, audit, run, calls, deaths>>

OperatorDies(o) ==
  /\ call[o].pc # "idle"
  /\ call' = [call EXCEPT ![o] = Idle]
  /\ UNCHANGED <<claims, log, proposals, audit, todo, run, calls, deaths>>

DrainDies ==
  /\ call[Drain].pc # "idle" \/ todo # {}
  /\ deaths < MaxDeaths
  /\ deaths' = deaths + 1
  /\ call' = [call EXCEPT ![Drain] = Idle]
  /\ todo' = {}
  /\ UNCHANGED <<claims, log, proposals, audit, run, calls>>
-----------------------------------------------------------------------------
\* The other writers leave the drain room to write.
Free(c) == claims[c].version < Busy[c]

(* The validator *)

\* The proposals are read once, before the first claim is looked at.
ValidatorScan ==
  /\ ~ run.on
  /\ run' = [on |-> TRUE, blocked |-> PendingSupersession]
  /\ UNCHANGED <<claims, log, proposals, audit, call, todo, calls, deaths>>

\* A claim with enough evidence.
ValidatorConfirm(c) ==
  /\ run.on /\ c \notin run.blocked
  /\ CanTransition(claims[c].status, "confirmed") /\ Free(c)
  /\ ConfirmTx(c, ImageOf(c), None)
  /\ UNCHANGED <<proposals, audit, call, todo, run, calls, deaths>>

ValidatorEnd ==
  /\ run.on
  /\ run' = NoRun
  /\ UNCHANGED <<claims, log, proposals, audit, call, todo, calls, deaths>>
-----------------------------------------------------------------------------
(* The other writers, each in one step: what another caller writes between *)
(* their read and their transaction only makes the transaction fail.       *)

\* Decay, revalidation and the steward cycle that applies its own decisions.
Demote(c, to) ==
  /\ to \in {"stale", "conflicted"} /\ CanTransition(claims[c].status, to)
  /\ Free(c)
  /\ TransitionTx(c, ImageOf(c), to, "ordinary", None)
  /\ UNCHANGED <<proposals, audit, call, todo, run, calls, deaths>>

\* drain_conflicts and the conflict resolver: the loser goes.
Lose(c, d) ==
  /\ c # d /\ Free(c)
  /\ SupersedeClaimTx(c, d)
  /\ UNCHANGED <<proposals, audit, call, todo, run, calls, deaths>>

\* drain_conflicts: a conflicted claim takes the place of its rival.
Win(c, d) ==
  /\ c # d /\ claims[c].status = "conflicted" /\ Free(d)
  /\ HandoverTx(c, ImageOf(c), d)
  /\ UNCHANGED <<proposals, audit, call, todo, run, calls, deaths>>

Archive(c) ==
  /\ Free(c)
  /\ CompactTx(c)
  /\ UNCHANGED <<proposals, audit, call, todo, run, calls, deaths>>

Revive(c) ==
  /\ claims[c].status = "archived" /\ Free(c)
  /\ ReviveTx(c, ImageOf(c))
  /\ UNCHANGED <<proposals, audit, call, todo, run, calls, deaths>>

Pin(c, b) ==
  /\ c \in Pinnable
  /\ claims[c].pinned # b
  /\ SetPinnedTx(c, b)
  /\ UNCHANGED <<proposals, audit, call, todo, run, calls, deaths>>

Validate == ValidatorScan \/ (\E c \in Claims : ValidatorConfirm(c)) \/ ValidatorEnd

Others ==
  \/ \E c \in Claims, to \in {"stale", "conflicted"} : Demote(c, to)
  \/ \E c, d \in Claims : Lose(c, d) \/ Win(c, d)
  \/ \E c \in Claims : Archive(c) \/ Revive(c)
  \/ \E c \in Claims, b \in BOOLEAN : Pin(c, b)

Draining == DrainList \/ (\E p \in todo : DrainTake(p)) \/ Resolve(Drain)

Next ==
  \/ \E t \in Filings : File(t)
  \/ \E o \in Operators, p \in 1..Len(proposals), act \in Act : Choose(o, p, act)
  \/ \E o \in Operators : Resolve(o) \/ OperatorDies(o)
  \/ Draining
  \/ DrainDies
  \/ Validate
  \/ Others

Spec == Init /\ [][Next]_vars

\* The drain is scheduled again and again, and gets on with its run.
FairSpec == Spec /\ WF_vars(Draining)
-----------------------------------------------------------------------------
(* Properties *)

\* No latch: what the record calls an approved retirement has retired its
\* claim, whoever resolved it, raced or died in between, and however often
\* the claim was written since.
ApprovedTookEffect ==
  \A p \in DOMAIN proposals :
    Resolved(p, "approved") /\ proposals[p].to = "superseded"
      => claims[proposals[p].target].replacedBy # None

\* A verdict that stands is never replaced by that of a caller who looked
\* the proposal up before it was recorded.  Only the record is settled by
\* that: an approval that comes second has retired the claim all the same,
\* and the rejection that stands does not undo it.
ResolutionsStand ==
  [][\A p \in DOMAIN proposals, v \in {"approved", "rejected"} :
       Resolved(p, v) => Resolved(p, v)']_vars

\* What the store refuses, or the drain leaves to the operator: approving
\* fails, or is not tried.
Blocked(p) ==
  LET t == proposals[p]
      row == claims[t.target]
  IN
  \/ row.pinned
  \/ Len(proposals) - p >= Window
  \/ row.status = "candidate" /\ t.to = "stale"
  \/ t.to = "superseded" /\ row.replacedBy # None
  \/ t.to = "superseded" /\ claims[t.other].supersedes \notin {None, t.target}

\* As many newer proposals of which nothing can be made as a drain takes:
\* it never gets past them.
Crowded(p) == Cardinality({q \in Drainable : q > p /\ Blocked(q)}) >= Limit

\* The queue drains: a proposal no person has to look at does not stay
\* pending, unless nothing can be made of it or of a whole listing of newer
\* ones.  Newer proposals of which something can be made only delay it.
EveryProposalSettles ==
  \A p \in 1..MaxProposals :
    (Pending(p) /\ ~ proposals[p].held) ~> (~ Pending(p) \/ Blocked(p) \/ Crowded(p))

\* Not checked in a regular run: what can be approved is not starved by
\* newer proposals.
NobodyStarves ==
  \A p \in 1..MaxProposals :
    (Pending(p) /\ ~ proposals[p].held) ~> (~ Pending(p) \/ Blocked(p))

\* Not checked in a regular run: the validator never promotes a claim that
\* somebody has declared outdated.
PromotionWaits ==
  [][\A c \in Claims : ValidatorConfirm(c) => c \notin PendingSupersession]_vars

\* Not checked in a regular run: the drain gets rid of everything that is
\* neither held nor pinned.
NothingIsStuck ==
  \A p \in 1..MaxProposals :
    (Pending(p) /\ ~ proposals[p].held)
      ~> (~ Pending(p) \/ claims[proposals[p].target].pinned)

\* Not checked in a regular run: a retirement that is approved has a
\* replacement that is still in use.
SuccessorIsLive ==
  [][\A r \in Callers : Write(r) /\ proposals[call[r].of].to = "superseded"
       => claims[proposals[call[r].of].other].status \notin {"superseded", "archived"}]_vars
=============================================================================

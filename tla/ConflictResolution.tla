-------------------------- MODULE ConflictResolution --------------------------
(***************************************************************************)
(* The two resolvers that settle contradicting claims, run from the        *)
(* command line by any number of processes on one claims table:            *)
(*                                                                         *)
(*  - auto_resolver.py carries a running winner through the conflicted     *)
(*    claims of a tuple and asks a language model for each pair; a loser   *)
(*    is retired by mark_superseded.  The verdict is arbitrary.            *)
(*  - conflict_resolver.py takes one snapshot of the group, and if one     *)
(*    claim beats every other by an explicit link, a pin or as a duplicate *)
(*    retires the others by supersede_claim.                               *)
(*                                                                         *)
(* Every read of a row is a step of its own, and so is every transaction:  *)
(* between two of them the other resolvers and the operator, who pins and  *)
(* unpins claims, may act.  All claims of the module are in the table from *)
(* the start, with a status a validator or an ingest gave them.            *)
(***************************************************************************)
EXTENDS ClaimTable, FiniteSets

CONSTANTS
  AutoRuns,   \* runs of the language model resolver
  DetRuns,    \* runs of the deterministic resolver
  ObjectOf,   \* [Claims -> object value]
  Pinning     \* whether the operator pins and unpins meanwhile

VARIABLES
  auto,       \* AutoRuns -> state of the run
  det         \* DetRuns -> state of the run

vars == <<claims, log, auto, det>>

Group(c) == {d \in Claims : TupleOf[d] = TupleOf[c]}

Unset == [status |-> Absent, version |-> 0, replacedBy |-> None, supersedes |-> None]

AutoIdle == [pc |-> "idle", group |-> {}, todo |-> {}, winner |-> None,
             contender |-> None, kept |-> None, img |-> Unset, settled |-> TRUE]

DetIdle == [pc |-> "idle", champion |-> None, losers |-> {}]

AutoRun == [pc : {"idle", "scan", "refresh", "judge", "mark", "done"},
            group : SUBSET Claims, todo : SUBSET Claims,
            winner : Claims \cup {None}, contender : Claims \cup {None},
            kept : Claims \cup {None}, img : Image, settled : BOOLEAN]

DetRun == [pc : {"idle", "apply"}, champion : Claims \cup {None}, losers : SUBSET Claims]

TypeOK ==
  /\ TableTypeOK
  /\ auto \in [AutoRuns -> AutoRun]
  /\ det \in [DetRuns -> DetRun]

Init ==
  /\ \E st \in [Claims -> {"candidate", "confirmed", "conflicted"}] :
       /\ claims = [c \in Claims |-> [status |-> st[c], version |-> 0, replacedBy |-> None,
                                      supersedes |-> None, pinned |-> FALSE]]
       /\ log = [c \in Claims |-> [to |-> st[c], archive |-> "never"]]
       /\ \A c, d \in Claims :
            st[c] = "confirmed" /\ st[d] = "confirmed" /\ TupleOf[c] = TupleOf[d] => c = d
  /\ auto = [r \in AutoRuns |-> AutoIdle]
  /\ det = [r \in DetRuns |-> DetIdle]
-----------------------------------------------------------------------------
(* The language model resolver: _resolve_group_pairs on one group *)

\* auto_resolve_conflicts: find_by_status("conflicted"), grouped by tuple.
AutoStart(r, c) ==
  LET found == {d \in Group(c) : claims[d].status = "conflicted"} IN
  /\ auto[r].pc \in {"idle", "done"}
  /\ c \in found /\ Cardinality(found) >= 2
  /\ auto' = [auto EXCEPT ![r] =
       [AutoIdle EXCEPT !.pc = "scan", !.group = found, !.todo = found]]
  /\ UNCHANGED <<claims, log, det>>

\* Read the next claim of the list again: the winner if there is none yet,
\* else a contender, unless it has left the status meanwhile.
AutoTake(r, c) ==
  LET run == auto[r] IN
  /\ run.pc = "scan" /\ c \in run.todo
  /\ auto' = [auto EXCEPT ![r] =
       IF claims[c].status # "conflicted" THEN [run EXCEPT !.todo = @ \ {c}]
       ELSE IF run.winner = None THEN [run EXCEPT !.todo = @ \ {c}, !.winner = c]
       ELSE [run EXCEPT !.todo = @ \ {c}, !.contender = c, !.pc = "refresh"]]
  /\ UNCHANGED <<claims, log, det>>

\* Read the running winner again: if it is gone the contender succeeds it.
AutoRefresh(r) ==
  LET run == auto[r] IN
  /\ run.pc = "refresh"
  /\ auto' = [auto EXCEPT ![r] =
       IF claims[run.winner].status # "conflicted"
       THEN [run EXCEPT !.winner = run.contender, !.pc = "scan"]
       ELSE [run EXCEPT !.pc = "judge"]]
  /\ UNCHANGED <<claims, log, det>>

Loser(run) == IF run.kept = run.winner THEN run.contender ELSE run.winner

\* The model picks w, and mark_superseded reads the loser and checks it: a
\* loser that is retired already or cannot be retired ends the pair.
AutoJudge(r, w) ==
  LET run == [auto[r] EXCEPT !.kept = w]
      loser == Loser(run)
  IN /\ run.pc = "judge" /\ w \in {run.winner, run.contender}
     /\ auto' = [auto EXCEPT ![r] =
          IF SupersedeAllowed(loser, w)
          THEN [run EXCEPT !.pc = "mark", !.img = ImageOf(loser)]
          ELSE [run EXCEPT !.pc = "scan", !.kept = None]]
     /\ UNCHANGED <<claims, log, det>>

\* The model fails, answers nonsense or cannot decide: both claims stay.
AutoUndecided(r) ==
  /\ auto[r].pc = "judge"
  /\ auto' = [auto EXCEPT ![r].pc = "scan", ![r].settled = FALSE]
  /\ UNCHANGED <<claims, log, det>>

\* The transaction of mark_superseded; the survivor carries forward.
AutoMark(r) ==
  LET run == auto[r] IN
  /\ run.pc = "mark"
  /\ MarkSupersededTx(Loser(run), run.img, run.kept)
  /\ auto' = [auto EXCEPT ![r] =
       [run EXCEPT !.pc = "scan", !.winner = run.kept, !.kept = None, !.img = Unset]]
  /\ UNCHANGED det

\* The transaction is refused: the pair failed, the running winner stays.
AutoRefused(r) ==
  LET run == auto[r] IN
  /\ run.pc = "mark"
  /\ ~ MarkAllowed(Loser(run), run.img, run.kept)
  /\ auto' = [auto EXCEPT ![r] = [run EXCEPT !.pc = "scan", !.kept = None, !.img = Unset]]
  /\ UNCHANGED <<claims, log, det>>

AutoEnd(r) ==
  /\ auto[r].pc = "scan" /\ auto[r].todo = {}
  /\ auto' = [auto EXCEPT ![r] = [AutoIdle EXCEPT !.pc = "done", !.group = auto[r].group,
                                                   !.settled = auto[r].settled]]
  /\ UNCHANGED <<claims, log, det>>

\* The process of a run dies.
AutoCrash(r) ==
  /\ auto[r].pc \notin {"idle", "done"}
  /\ auto' = [auto EXCEPT ![r] = AutoIdle]
  /\ UNCHANGED <<claims, log, det>>
-----------------------------------------------------------------------------
(* The deterministic resolver *)

\* _verdict says that the rival wins over claim c.  Confidence, freshness
\* and citations decide between duplicates: any order of them is possible.
Loses(c, rival) ==
  /\ claims[c].supersedes # rival
  /\ \/ claims[rival].supersedes = c
     \/ claims[rival].pinned /\ ~ claims[c].pinned
     \/ ObjectOf[c] = ObjectOf[rival] /\ claims[c].pinned = claims[rival].pinned

\* _settle_group: one claim beats every other of the group.
Champion(group, c) == \A d \in group \ {c} : Loses(d, c)

\* Mutant: the snapshot keeps the claims that were retired already.
DetDetectRetired(r, champion) ==
  LET group == Group(champion)
      losers == {d \in group \ {champion} : ~ claims[d].pinned}
  IN /\ det[r].pc = "idle"
     /\ Champion(group, champion) /\ losers # {}
     /\ \E c, d \in group : ObjectOf[c] # ObjectOf[d]
     /\ det' = [det EXCEPT ![r] = [pc |-> "apply", champion |-> champion, losers |-> losers]]
     /\ UNCHANGED <<claims, log, auto>>

\* detect_conflicts, and the checks of resolve_conflicts on the snapshot: a
\* pinned loser is skipped.
DetDetect(r, champion) ==
  LET group == {d \in Group(champion) : claims[d].status \in {"confirmed", "candidate", "conflicted"}}
      losers == {d \in group \ {champion} : ~ claims[d].pinned}
  IN /\ det[r].pc = "idle"
     /\ champion \in group /\ Champion(group, champion) /\ losers # {}
     /\ \E c, d \in group : ObjectOf[c] # ObjectOf[d]
     /\ det' = [det EXCEPT ![r] = [pc |-> "apply", champion |-> champion, losers |-> losers]]
     /\ UNCHANGED <<claims, log, auto>>

Applied(r, loser) ==
  LET rest == det[r].losers \ {loser} IN
  det' = [det EXCEPT ![r] = IF rest = {} THEN DetIdle ELSE [@ EXCEPT !.losers = rest]]

DetApply(r, loser) ==
  /\ det[r].pc = "apply" /\ loser \in det[r].losers
  /\ SupersedeClaimTx(loser, det[r].champion)
  /\ Applied(r, loser)
  /\ UNCHANGED auto

\* SupersessionRaceLost, or a loser that can no longer be superseded.
DetLostRace(r, loser) ==
  /\ det[r].pc = "apply" /\ loser \in det[r].losers
  /\ ~ SupersedeAllowed(loser, det[r].champion)
  /\ Applied(r, loser)
  /\ UNCHANGED <<claims, log, auto>>

DetCrash(r) ==
  /\ det[r].pc = "apply"
  /\ det' = [det EXCEPT ![r] = DetIdle]
  /\ UNCHANGED <<claims, log, auto>>
-----------------------------------------------------------------------------
\* set_pinned, from the command line, with the value the claim does not have.
Pin(c) ==
  /\ Pinning
  /\ SetPinnedTx(c, ~ claims[c].pinned)
  /\ UNCHANGED <<auto, det>>

AutoStep(r) ==
  \/ \E c \in Claims : AutoTake(r, c) \/ AutoJudge(r, c)
  \/ AutoRefresh(r) \/ AutoUndecided(r)
  \/ AutoMark(r) \/ AutoRefused(r) \/ AutoEnd(r)

DetStep(r) == \E c \in Claims : DetApply(r, c) \/ DetLostRace(r, c)

\* What the process of a run does, and may suffer.
AutoNext(r) == (\E c \in Claims : AutoStart(r, c)) \/ AutoStep(r) \/ AutoCrash(r)

DetNext(r) == (\E c \in Claims : DetDetect(r, c)) \/ DetStep(r) \/ DetCrash(r)

Next ==
  \/ \E r \in AutoRuns : AutoNext(r)
  \/ \E r \in DetRuns : DetNext(r)
  \/ \E c \in Claims : Pin(c)

Spec == Init /\ [][Next]_vars
-----------------------------------------------------------------------------
(* Properties *)

\* Whatever resolvers race for a loser, the first one wins: the replacement
\* of a claim, once set, is never another (SupersessionRaceLost, the guards
\* of mark_superseded).
ReplacementIsFinal ==
  [][\A c \in Claims : claims[c].replacedBy # None =>
                         claims'[c].replacedBy = claims[c].replacedBy]_vars

\* A back link is never left behind: the claim it names was replaced by the
\* one that carries it, also after the resolvers raced for that claim.
BackLinkTruthful ==
  \A c, d \in Claims : claims[d].supersedes = c => claims[c].replacedBy = d

\* Both sides of a supersession are linked: the replacement of a claim names
\* it back, and the claim a replacement names was replaced by it.
PairsSymmetric ==
  \A c, d \in Claims : claims[c].replacedBy = d <=> claims[d].supersedes = c

\* Following the replacements of a retired claim ends at one that is not
\* retired: no claims, each retired in favour of another of them, form a
\* cycle in which the knowledge is lost.  It holds of one run at a time,
\* through crashes and the runs after them; two runs of the language model
\* resolver break it by opposite verdicts on one pair.
LosersLeadToSurvivor ==
  \A S \in SUBSET {c \in Claims : claims[c].status = "superseded"} :
    S # {} => \E c \in S : claims[c].replacedBy \notin S

\* A run in which the model decided every pair leaves at most one conflicted
\* claim of the group it found.
FinishedRunLeavesOneConflicted ==
  \A r \in AutoRuns :
    auto[r].pc = "done" /\ auto[r].settled =>
      Cardinality({c \in auto[r].group : claims[c].status = "conflicted"}) <= 1

\* No resolver retires a claim that is pinned.
PinnedNotAutoSuperseded ==
  [][\A c \in Claims :
       claims[c].pinned /\ claims[c].status # "superseded" =>
         claims'[c].status # "superseded"]_vars
=============================================================================

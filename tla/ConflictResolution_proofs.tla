----------------------- MODULE ConflictResolution_proofs -----------------------
(***************************************************************************)
(* For every set of claims, every assignment of tuples and values, and any *)
(* number of runs of both resolvers that race while the operator pins and  *)
(* unpins claims: a replacement is set once, and no back link is left      *)
(* behind.  For language model runs only: both sides of a supersession are *)
(* linked.  For a run that is alone: following the replacements ends.      *)
(*                                                                         *)
(* The argument: the loser of a pair is never its winner (RunsOK), every   *)
(* transaction of a resolver finds the loser without a replacement         *)
(* (Retire), so the link it sets is the first one and no claim points back *)
(* to the loser yet.                                                       *)
(***************************************************************************)
EXTENDS ConflictResolution, TLAPS

\* The claims a language model run carries are not on its list any more, and
\* the two of a pair differ.
AutoOK(run) ==
  /\ run.winner \notin run.todo
  /\ run.pc \in {"refresh", "judge", "mark"} =>
       /\ run.winner \in Claims /\ run.contender \in Claims
       /\ run.winner # run.contender
       /\ run.contender \notin run.todo
  /\ run.pc = "mark" => run.kept \in {run.winner, run.contender}

\* The champion of a deterministic run is not among its losers.
DetOK(run) ==
  run.pc = "apply" => run.champion \in Claims /\ run.champion \notin run.losers

RunsOK ==
  /\ \A r \in AutoRuns : AutoOK(auto[r])
  /\ \A r \in DetRuns : DetOK(det[r])

\* The inductive invariant.
IInv == TypeOK /\ RunsOK /\ BackLinkTruthful
-----------------------------------------------------------------------------
(* The table *)

\* What each transaction of a resolver does: a claim that has no replacement
\* is retired for another one, which is linked back.
Retire(old, new) ==
  /\ old # new
  /\ claims[old].replacedBy = None
  /\ claims' = [claims EXCEPT ![old] = Moved(@, "superseded", new),
                              ![new] = Linked(@, old)]
  /\ log' = [log EXCEPT ![old] = Logged(@, "superseded", "ordinary")]

\* A moved row and a linked row are rows, with the columns they were given.
LEMMA RowsWritten ==
  ASSUME NEW row \in Row, NEW c \in Claims
  PROVE  /\ Moved(row, "superseded", c) \in Row
         /\ Moved(row, "superseded", c).status = "superseded"
         /\ Moved(row, "superseded", c).replacedBy = c
         /\ Moved(row, "superseded", c).supersedes = row.supersedes
         /\ Linked(row, c) \in Row
         /\ Linked(row, c).status = row.status
         /\ Linked(row, c).replacedBy = row.replacedBy
         /\ Linked(row, c).supersedes = c
BY DEF Moved, Linked, Row, Status

\* A retirement, column by column.
LEMMA RetireColumns ==
  ASSUME TableTypeOK, NEW old \in Claims, NEW new \in Claims, Retire(old, new)
  PROVE  /\ TableTypeOK'
         /\ claims'[old].status = "superseded"
         /\ claims'[old].replacedBy = new
         /\ claims'[new].supersedes = old
         /\ \A d \in Claims \ {old} : /\ claims'[d].status = claims[d].status
                                      /\ claims'[d].replacedBy = claims[d].replacedBy
         /\ \A d \in Claims \ {new} : claims'[d].supersedes = claims[d].supersedes
<1>1. /\ claims \in [Claims -> Row] /\ log \in [Claims -> LogEntry] /\ old # new
  BY DEF TableTypeOK, Retire
<1> DEFINE row == Moved(claims[old], "superseded", new)
           back == Linked(claims[new], old)
           entry == Logged(log[old], "superseded", "ordinary")
<1>2. /\ row \in Row /\ back \in Row
      /\ row.status = "superseded" /\ row.replacedBy = new
      /\ row.supersedes = claims[old].supersedes
      /\ back.status = claims[new].status /\ back.replacedBy = claims[new].replacedBy
      /\ back.supersedes = old
  BY <1>1, RowsWritten
<1>3. entry \in LogEntry
  BY <1>1 DEF Logged, LogEntry, Status
<1>4. /\ claims' = [claims EXCEPT ![old] = row, ![new] = back]
      /\ log' = [log EXCEPT ![old] = entry]
  BY <1>1 DEF Retire
<1> HIDE DEF row, back, entry
<1>5. /\ claims' \in [Claims -> Row] /\ claims'[old] = row /\ claims'[new] = back
      /\ \A d \in Claims \ {old, new} : claims'[d] = claims[d]
  BY <1>1, <1>2, <1>4
<1>6. log' \in [Claims -> LogEntry]
  BY <1>1, <1>3, <1>4
<1> QED
  BY <1>1, <1>2, <1>5, <1>6 DEF TableTypeOK

\* A pin changes no other column.
LEMMA PinColumns ==
  ASSUME TableTypeOK, NEW c \in Claims, NEW b \in BOOLEAN, SetPinnedTx(c, b)
  PROVE  /\ TableTypeOK'
         /\ \A d \in Claims : /\ claims'[d].status = claims[d].status
                              /\ claims'[d].replacedBy = claims[d].replacedBy
                              /\ claims'[d].supersedes = claims[d].supersedes
<1>1. claims \in [Claims -> Row] /\ log' = log
  BY DEF TableTypeOK, SetPinnedTx
<1>2. [claims[c] EXCEPT !.pinned = b] \in Row
  BY <1>1 DEF Row
<1> QED
  BY <1>1, <1>2 DEF SetPinnedTx, TableTypeOK, Row
-----------------------------------------------------------------------------
(* The runs *)

\* The loser of the pair a run marks is the claim it does not keep.
LEMMA LoserIsNotKept ==
  ASSUME NEW run, AutoOK(run), run.pc = "mark"
  PROVE  Loser(run) \in Claims /\ run.kept \in Claims /\ Loser(run) # run.kept
BY DEF AutoOK, Loser

\* A language model run writes the table when it marks a loser.
LEMMA AutoWrites ==
  ASSUME RunsOK, NEW r \in AutoRuns, AutoNext(r)
  PROVE  \/ /\ AutoMark(r)
            /\ Loser(auto[r]) \in Claims /\ auto[r].kept \in Claims
            /\ Retire(Loser(auto[r]), auto[r].kept)
         \/ UNCHANGED <<claims, log>>
<1>1. CASE AutoMark(r)
  <2>1. AutoOK(auto[r]) /\ auto[r].pc = "mark"
    BY <1>1 DEF RunsOK, AutoMark
  <2>2. /\ Loser(auto[r]) \in Claims /\ auto[r].kept \in Claims
        /\ Loser(auto[r]) # auto[r].kept
    BY <2>1, LoserIsNotKept
  <2>3. Retire(Loser(auto[r]), auto[r].kept)
    BY <1>1, <2>2 DEF AutoMark, MarkSupersededTx, MarkAllowed, Retire
  <2> QED
    BY <1>1, <2>2, <2>3
<1>2. CASE ~ AutoMark(r)
  BY <1>2 DEF AutoNext, AutoStep, AutoStart, AutoTake, AutoRefresh, AutoJudge, AutoUndecided,
              AutoRefused, AutoEnd, AutoCrash
<1> QED
  BY <1>1, <1>2

\* A deterministic run writes the table when it applies its verdict to a loser.
LEMMA DetWrites ==
  ASSUME RunsOK, NEW r \in DetRuns, DetNext(r)
  PROVE  \/ \E c \in Claims : /\ DetApply(r, c)
                              /\ det[r].champion \in Claims
                              /\ Retire(c, det[r].champion)
         \/ UNCHANGED <<claims, log>>
<1>1. ASSUME NEW c \in Claims, DetApply(r, c)
      PROVE  det[r].champion \in Claims /\ Retire(c, det[r].champion)
  <2>1. det[r].champion \in Claims /\ det[r].champion # c
    BY <1>1 DEF RunsOK, DetOK, DetApply
  <2> QED
    BY <1>1, <2>1 DEF DetApply, SupersedeClaimTx, SupersedeAllowed, Retire
<1>2. (\E c \in Claims : DetApply(r, c)) \/ UNCHANGED <<claims, log>>
  BY DEF DetNext, DetStep, DetDetect, DetLostRace, DetCrash
<1> QED
  BY <1>1, <1>2

\* A pin leaves the runs, the status and the links alone.
LEMMA PinWrites ==
  ASSUME TypeOK, NEW c \in Claims, Pin(c)
  PROVE  /\ TableTypeOK' /\ UNCHANGED <<auto, det>>
         /\ \A d \in Claims : /\ claims'[d].status = claims[d].status
                              /\ claims'[d].replacedBy = claims[d].replacedBy
                              /\ claims'[d].supersedes = claims[d].supersedes
<1>1. (~ claims[c].pinned) \in BOOLEAN
  OBVIOUS
<1> QED
  BY <1>1, PinColumns DEF Pin, TypeOK
-----------------------------------------------------------------------------
(* The runs stay well formed *)

LEMMA ImageOfType ==
  ASSUME TableTypeOK, NEW c \in Claims
  PROVE  ImageOf(c) \in Image
BY DEF ImageOf, Image, TableTypeOK, Row

LEMMA UnsetType == Unset \in Image
BY DEF Unset, Image

\* A step of a language model run leaves a well formed run behind.
LEMMA AutoStepKeeps ==
  ASSUME TypeOK, RunsOK, NEW r \in AutoRuns, AutoNext(r)
  PROVE  /\ det' = det
         /\ \E new \in AutoRun : AutoOK(new) /\ auto' = [auto EXCEPT ![r] = new]
<1> DEFINE run == auto[r]
           Becomes(new) == new \in AutoRun /\ AutoOK(new) /\ auto' = [auto EXCEPT ![r] = new]
<1>1. /\ run \in AutoRun /\ AutoOK(run) /\ auto \in [AutoRuns -> AutoRun]
      /\ TableTypeOK /\ None \notin Claims
  BY ClaimTableAssumption DEF TypeOK, RunsOK
<1>2. AutoIdle \in AutoRun /\ AutoOK(AutoIdle)
  BY UnsetType DEF AutoIdle, AutoRun, AutoOK
<1>3. ASSUME NEW c \in Claims, AutoStart(r, c)
      PROVE  det' = det /\ \E new \in AutoRun : Becomes(new)
  <2> DEFINE found == {d \in Group(c) : claims[d].status = "conflicted"}
             new == [AutoIdle EXCEPT !.pc = "scan", !.group = found, !.todo = found]
  <2>1. found \in SUBSET Claims
    BY DEF Group
  <2>2. new \in AutoRun /\ AutoOK(new)
    BY <1>1, <2>1, UnsetType DEF AutoIdle, AutoRun, AutoOK
  <2>3. det' = det /\ auto' = [auto EXCEPT ![r] = new]
    BY <1>3 DEF AutoStart
  <2> QED
    BY <2>2, <2>3
<1>4. ASSUME NEW c \in Claims, AutoTake(r, c)
      PROVE  det' = det /\ \E new \in AutoRun : Becomes(new)
  <2> DEFINE skip == [run EXCEPT !.todo = @ \ {c}]
             first == [run EXCEPT !.todo = @ \ {c}, !.winner = c]
             second == [run EXCEPT !.todo = @ \ {c}, !.contender = c, !.pc = "refresh"]
             new == IF claims[c].status # "conflicted" THEN skip
                    ELSE IF run.winner = None THEN first ELSE second
  <2>1. run.pc = "scan" /\ c \in run.todo
    BY <1>4 DEF AutoTake
  <2>2. skip \in AutoRun /\ AutoOK(skip)
    BY <1>1, <2>1 DEF AutoRun, AutoOK
  <2>3. first \in AutoRun /\ AutoOK(first)
    BY <1>1, <2>1 DEF AutoRun, AutoOK
  <2>4. ASSUME run.winner # None
        PROVE  second \in AutoRun /\ AutoOK(second)
    BY <1>1, <2>1, <2>4 DEF AutoRun, AutoOK
  <2>5. det' = det /\ auto' = [auto EXCEPT ![r] = new]
    BY <1>4 DEF AutoTake
  <2>6. new \in AutoRun /\ AutoOK(new)
    BY <2>2, <2>3, <2>4
  <2> QED
    BY <2>5, <2>6
<1>5. ASSUME AutoRefresh(r)
      PROVE  det' = det /\ \E new \in AutoRun : Becomes(new)
  <2> DEFINE succeeded == [run EXCEPT !.winner = run.contender, !.pc = "scan"]
             kept == [run EXCEPT !.pc = "judge"]
             new == IF claims[run.winner].status # "conflicted" THEN succeeded ELSE kept
  <2>1. run.pc = "refresh"
    BY <1>5 DEF AutoRefresh
  <2>2. succeeded \in AutoRun /\ AutoOK(succeeded)
    BY <1>1, <2>1 DEF AutoRun, AutoOK
  <2>3. kept \in AutoRun /\ AutoOK(kept)
    BY <1>1, <2>1 DEF AutoRun, AutoOK
  <2>4. det' = det /\ auto' = [auto EXCEPT ![r] = new]
    BY <1>5 DEF AutoRefresh
  <2> QED
    BY <2>2, <2>3, <2>4
<1>6. ASSUME NEW w \in Claims, AutoJudge(r, w)
      PROVE  det' = det /\ \E new \in AutoRun : Becomes(new)
  <2> DEFINE picked == [run EXCEPT !.kept = w]
             loser == Loser(picked)
             mark == [picked EXCEPT !.pc = "mark", !.img = ImageOf(loser)]
             dropped == [picked EXCEPT !.pc = "scan", !.kept = None]
             new == IF SupersedeAllowed(loser, w) THEN mark ELSE dropped
  <2>1. run.pc = "judge" /\ w \in {run.winner, run.contender}
    BY <1>6 DEF AutoJudge
  <2>2. picked \in AutoRun /\ picked.winner = run.winner /\ picked.contender = run.contender
    BY <1>1 DEF AutoRun
  <2>3. loser \in Claims
    BY <1>1, <2>1, <2>2 DEF AutoOK, Loser
  <2>4. ImageOf(loser) \in Image
    BY <1>1, <2>3, ImageOfType
  <2>5. mark \in AutoRun /\ AutoOK(mark)
    BY <1>1, <2>1, <2>4 DEF AutoRun, AutoOK
  <2>6. dropped \in AutoRun /\ AutoOK(dropped)
    BY <1>1, <2>1 DEF AutoRun, AutoOK
  <2>7. det' = det /\ auto' = [auto EXCEPT ![r] = new]
    BY <1>6 DEF AutoJudge
  <2> QED
    BY <2>5, <2>6, <2>7
<1>7. ASSUME AutoUndecided(r)
      PROVE  det' = det /\ \E new \in AutoRun : Becomes(new)
  <2> DEFINE new == [run EXCEPT !.pc = "scan", !.settled = FALSE]
  <2>1. new \in AutoRun /\ AutoOK(new)
    BY <1>1 DEF AutoRun, AutoOK
  <2>2. det' = det /\ auto' = [auto EXCEPT ![r] = new]
    BY <1>1, <1>7 DEF AutoUndecided
  <2> QED
    BY <2>1, <2>2
<1>8. ASSUME AutoMark(r)
      PROVE  det' = det /\ \E new \in AutoRun : Becomes(new)
  <2> DEFINE new == [run EXCEPT !.pc = "scan", !.winner = run.kept, !.kept = None, !.img = Unset]
  <2>1. run.pc = "mark" /\ det' = det /\ auto' = [auto EXCEPT ![r] = new]
    BY <1>8 DEF AutoMark
  <2>2. new \in AutoRun /\ AutoOK(new)
    BY <1>1, <2>1, UnsetType DEF AutoRun, AutoOK
  <2> QED
    BY <2>1, <2>2
<1>9. ASSUME AutoRefused(r)
      PROVE  det' = det /\ \E new \in AutoRun : Becomes(new)
  <2> DEFINE new == [run EXCEPT !.pc = "scan", !.kept = None, !.img = Unset]
  <2>1. det' = det /\ auto' = [auto EXCEPT ![r] = new]
    BY <1>9 DEF AutoRefused
  <2>2. new \in AutoRun /\ AutoOK(new)
    BY <1>1, UnsetType DEF AutoRun, AutoOK
  <2> QED
    BY <2>1, <2>2
<1>10. ASSUME AutoEnd(r)
       PROVE  det' = det /\ \E new \in AutoRun : Becomes(new)
  <2> DEFINE new == [AutoIdle EXCEPT !.pc = "done", !.group = auto[r].group,
                                     !.settled = auto[r].settled]
  <2>1. det' = det /\ auto' = [auto EXCEPT ![r] = new]
    BY <1>10 DEF AutoEnd
  <2>2. new \in AutoRun /\ AutoOK(new)
    BY <1>1, UnsetType DEF AutoIdle, AutoRun, AutoOK
  <2> QED
    BY <2>1, <2>2
<1>11. ASSUME AutoCrash(r)
       PROVE  det' = det /\ \E new \in AutoRun : Becomes(new)
  BY <1>2, <1>11 DEF AutoCrash
<1> HIDE DEF Becomes, run
<1>12. det' = det /\ \E new \in AutoRun : Becomes(new)
  BY <1>3, <1>4, <1>5, <1>6, <1>7, <1>8, <1>9, <1>10, <1>11 DEF AutoNext, AutoStep
<1> QED
  BY <1>12 DEF Becomes

\* So does a step of a deterministic run.
LEMMA DetStepKeeps ==
  ASSUME TypeOK, RunsOK, NEW r \in DetRuns, DetNext(r)
  PROVE  /\ auto' = auto
         /\ \E new \in DetRun : DetOK(new) /\ det' = [det EXCEPT ![r] = new]
<1>1. det[r] \in DetRun /\ DetOK(det[r]) /\ det \in [DetRuns -> DetRun]
  BY DEF TypeOK, RunsOK
<1>2. DetIdle \in DetRun /\ DetOK(DetIdle)
  BY DEF DetIdle, DetRun, DetOK
<1>3. ASSUME NEW c \in Claims, DetDetect(r, c)
      PROVE  auto' = auto /\ \E new \in DetRun : DetOK(new) /\ det' = [det EXCEPT ![r] = new]
  <2> DEFINE group == {d \in Group(c) : claims[d].status \in {"confirmed", "candidate", "conflicted"}}
             losers == {d \in group \ {c} : ~ claims[d].pinned}
             new == [pc |-> "apply", champion |-> c, losers |-> losers]
  <2>1. new \in DetRun /\ DetOK(new)
    BY DEF DetRun, DetOK, Group
  <2>2. auto' = auto /\ det' = [det EXCEPT ![r] = new]
    BY <1>3 DEF DetDetect
  <2> QED
    BY <2>1, <2>2
<1>4. ASSUME NEW c \in Claims, Applied(r, c), det[r].pc = "apply"
      PROVE  \E new \in DetRun : DetOK(new) /\ det' = [det EXCEPT ![r] = new]
  <2> DEFINE rest == det[r].losers \ {c}
             left == [det[r] EXCEPT !.losers = rest]
             new == IF rest = {} THEN DetIdle ELSE left
  <2>1. left \in DetRun /\ DetOK(left)
    BY <1>1 DEF DetRun, DetOK
  <2>2. det' = [det EXCEPT ![r] = new]
    BY <1>1, <1>4 DEF Applied
  <2> QED
    BY <1>2, <2>1, <2>2
<1>5. ASSUME NEW c \in Claims, DetApply(r, c) \/ DetLostRace(r, c)
      PROVE  auto' = auto /\ \E new \in DetRun : DetOK(new) /\ det' = [det EXCEPT ![r] = new]
  BY <1>4, <1>5 DEF DetApply, DetLostRace
<1>6. ASSUME DetCrash(r)
      PROVE  auto' = auto /\ \E new \in DetRun : DetOK(new) /\ det' = [det EXCEPT ![r] = new]
  BY <1>2, <1>6 DEF DetCrash
<1> QED
  BY <1>3, <1>5, <1>6 DEF DetNext, DetStep
-----------------------------------------------------------------------------
(* The invariant *)

LEMMA InitIInv == Init => IInv
<1> SUFFICES ASSUME Init PROVE IInv
  OBVIOUS
<1>1. PICK st \in [Claims -> {"candidate", "confirmed", "conflicted"}] :
        /\ claims = [c \in Claims |-> [status |-> st[c], version |-> 0, replacedBy |-> None,
                                       supersedes |-> None, pinned |-> FALSE]]
        /\ log = [c \in Claims |-> [to |-> st[c], archive |-> "never"]]
  BY DEF Init
<1>2. TableTypeOK
  BY <1>1 DEF TableTypeOK, Row, LogEntry, ArchiveReason, Status
<1>3. auto \in [AutoRuns -> AutoRun] /\ det \in [DetRuns -> DetRun]
  BY UnsetType DEF Init, AutoIdle, AutoRun, DetIdle, DetRun
<1>4. RunsOK
  BY ClaimTableAssumption DEF Init, RunsOK, AutoOK, DetOK, AutoIdle, DetIdle
<1>5. BackLinkTruthful
  BY <1>1, ClaimTableAssumption DEF BackLinkTruthful
<1> QED
  BY <1>2, <1>3, <1>4, <1>5 DEF IInv, TypeOK

\* A retirement leaves the replacements that are set and the back links true.
LEMMA RetireLinks ==
  ASSUME TableTypeOK, BackLinkTruthful, NEW old \in Claims, NEW new \in Claims, Retire(old, new)
  PROVE  /\ TableTypeOK' /\ BackLinkTruthful'
         /\ \A c \in Claims : claims[c].replacedBy # None =>
                               claims'[c].replacedBy = claims[c].replacedBy
  <1>1. old # new /\ claims[old].replacedBy = None /\ None \notin Claims
    BY ClaimTableAssumption DEF Retire
  <1>2. /\ TableTypeOK'
        /\ claims'[old].replacedBy = new
        /\ claims'[new].supersedes = old
        /\ \A d \in Claims \ {old} : claims'[d].replacedBy = claims[d].replacedBy
        /\ \A d \in Claims \ {new} : claims'[d].supersedes = claims[d].supersedes
    BY RetireColumns
  <1>3. BackLinkTruthful'
    BY <1>1, <1>2 DEF BackLinkTruthful
  <1> QED
    BY <1>1, <1>2, <1>3

\* What every step does to the table.
LEMMA TableStep ==
  ASSUME IInv, [Next]_vars
  PROVE  /\ TableTypeOK' /\ BackLinkTruthful'
         /\ \A c \in Claims : claims[c].replacedBy # None =>
                               claims'[c].replacedBy = claims[c].replacedBy
<1> DEFINE Good == /\ TableTypeOK' /\ BackLinkTruthful'
                   /\ \A c \in Claims : claims[c].replacedBy # None =>
                                         claims'[c].replacedBy = claims[c].replacedBy
<1>1. TableTypeOK /\ TypeOK /\ RunsOK /\ BackLinkTruthful
  BY DEF IInv, TypeOK
<1>2. ASSUME UNCHANGED <<claims, log>> PROVE Good
  BY <1>1, <1>2 DEF TableTypeOK, BackLinkTruthful
<1>3. ASSUME NEW old \in Claims, NEW new \in Claims, Retire(old, new) PROVE Good
  BY <1>1, <1>3, RetireLinks
<1>4. ASSUME NEW c \in Claims, Pin(c) PROVE Good
  <2>1. /\ TableTypeOK'
        /\ \A d \in Claims : /\ claims'[d].replacedBy = claims[d].replacedBy
                             /\ claims'[d].supersedes = claims[d].supersedes
    BY <1>1, <1>4, PinWrites
  <2> QED
    BY <1>1, <2>1 DEF BackLinkTruthful
<1> HIDE DEF Good
<1>5. ASSUME NEW r \in AutoRuns, AutoNext(r) PROVE Good
  BY <1>1, <1>2, <1>3, <1>5, AutoWrites
<1>6. ASSUME NEW r \in DetRuns, DetNext(r) PROVE Good
  BY <1>1, <1>2, <1>3, <1>6, DetWrites
<1>7. ASSUME UNCHANGED vars PROVE Good
  BY <1>2, <1>7 DEF vars
<1>8. Good
  BY <1>4, <1>5, <1>6, <1>7 DEF Next
<1> QED
  BY <1>8 DEF Good

LEMMA RunStep ==
  ASSUME IInv, [Next]_vars
  PROVE  auto' \in [AutoRuns -> AutoRun] /\ det' \in [DetRuns -> DetRun] /\ RunsOK'
<1> DEFINE Good == auto' \in [AutoRuns -> AutoRun] /\ det' \in [DetRuns -> DetRun] /\ RunsOK'
<1>1. /\ TypeOK /\ RunsOK
      /\ auto \in [AutoRuns -> AutoRun] /\ det \in [DetRuns -> DetRun]
  BY DEF IInv, TypeOK
<1>2. ASSUME UNCHANGED <<auto, det>> PROVE Good
  BY <1>1, <1>2 DEF RunsOK
<1>3. ASSUME NEW r \in AutoRuns, AutoNext(r) PROVE Good
  <2>1. PICK new \in AutoRun : AutoOK(new) /\ auto' = [auto EXCEPT ![r] = new]
    BY <1>1, <1>3, AutoStepKeeps
  <2>2. det' = det
    BY <1>1, <1>3, AutoStepKeeps
  <2>3. /\ auto' \in [AutoRuns -> AutoRun] /\ auto'[r] = new
        /\ \A q \in AutoRuns \ {r} : auto'[q] = auto[q]
    BY <1>1, <2>1
  <2> QED
    BY <1>1, <2>1, <2>2, <2>3 DEF RunsOK
<1>4. ASSUME NEW r \in DetRuns, DetNext(r) PROVE Good
  <2>1. PICK new \in DetRun : DetOK(new) /\ det' = [det EXCEPT ![r] = new]
    BY <1>1, <1>4, DetStepKeeps
  <2>2. auto' = auto
    BY <1>1, <1>4, DetStepKeeps
  <2>3. /\ det' \in [DetRuns -> DetRun] /\ det'[r] = new
        /\ \A q \in DetRuns \ {r} : det'[q] = det[q]
    BY <1>1, <2>1
  <2> QED
    BY <1>1, <2>1, <2>2, <2>3 DEF RunsOK
<1>5. ASSUME NEW c \in Claims, Pin(c) PROVE Good
  BY <1>1, <1>2, <1>5, PinWrites
<1> HIDE DEF Good
<1>6. ASSUME UNCHANGED vars PROVE Good
  BY <1>2, <1>6 DEF vars
<1>7. Good
  BY <1>3, <1>4, <1>5, <1>6 DEF Next
<1> QED
  BY <1>7 DEF Good

LEMMA NextIInv == IInv /\ [Next]_vars => IInv'
BY TableStep, RunStep DEF IInv, TypeOK

LEMMA SpecIInv == Spec => []IInv
BY InitIInv, NextIInv, PTL DEF Spec

\* The rows, the events, and the state of every run stay what the code
\* declares them to be, whatever the runs do to each other.
THEOREM TypeCorrect == Spec => []TypeOK
<1>1. IInv => TypeOK
  BY DEF IInv
<1> QED
  BY <1>1, SpecIInv, PTL

\* A claim that says it supersedes another was set as the replacement of
\* that one, with any number of resolvers of both kinds at work and runs
\* that die between two steps (supersede_claim overwrites the back link of
\* the winner, mark_superseded refuses to).
THEOREM BackLinksAreTrue == Spec => []BackLinkTruthful
<1>1. IInv => BackLinkTruthful
  BY DEF IInv
<1> QED
  BY <1>1, SpecIInv, PTL

\* Of the resolvers that race for one loser the first one wins: the
\* replacement it sets is never replaced by another.
THEOREM FirstReplacementStays == Spec => ReplacementIsFinal
<1>1. IInv /\ [Next]_vars => [\A c \in Claims : claims[c].replacedBy # None =>
                                claims'[c].replacedBy = claims[c].replacedBy]_vars
  BY TableStep
<1> QED
  BY <1>1, SpecIInv, PTL DEF Spec, ReplacementIsFinal
-----------------------------------------------------------------------------
(* A run that is alone *)

\* One run, of either kind.  With two of a kind, or one of each, a claim may
\* be retired for one that another run has retired meanwhile, and cycles of
\* replacements occur.
Lone ==
  \/ DetRuns = {} /\ \A q, r \in AutoRuns : q = r
  \/ AutoRuns = {} /\ \A q, r \in DetRuns : q = r

\* The claims a run is about to keep are still standing.
AutoStands(run) ==
  /\ run.pc \in {"scan", "refresh", "judge", "mark"} /\ run.winner # None =>
       claims[run.winner].status = "conflicted"
  /\ run.pc \in {"refresh", "judge", "mark"} =>
       claims[run.contender].status = "conflicted"

DetStands(run) == run.pc = "apply" => claims[run.champion].status # "superseded"

Standing ==
  /\ \A r \in AutoRuns : AutoStands(auto[r])
  /\ \A r \in DetRuns : DetStands(det[r])

\* The status a step does not write stays.
LEMMA StandingTransfers ==
  ASSUME IInv, Standing, UNCHANGED <<auto, det>>,
         \A c \in Claims : claims'[c].status = claims[c].status
  PROVE  Standing'
<1>1. /\ auto \in [AutoRuns -> AutoRun] /\ det \in [DetRuns -> DetRun] /\ RunsOK
  BY DEF IInv, TypeOK
<1>2. ASSUME NEW r \in AutoRuns PROVE AutoStands(auto[r])'
  <2>1. /\ auto[r] \in AutoRun /\ AutoOK(auto[r]) /\ AutoStands(auto[r]) /\ auto'[r] = auto[r]
    BY <1>1 DEF RunsOK, Standing
  <2> QED
    BY <2>1 DEF AutoRun, AutoOK, AutoStands
<1>3. ASSUME NEW r \in DetRuns PROVE DetStands(det[r])'
  <2>1. /\ det[r] \in DetRun /\ DetOK(det[r]) /\ DetStands(det[r]) /\ det'[r] = det[r]
    BY <1>1 DEF RunsOK, Standing
  <2> QED
    BY <2>1 DEF DetRun, DetOK, DetStands
<1> QED
  BY <1>2, <1>3 DEF Standing

\* The only language model run keeps claims nobody else can retire.
LEMMA LoneAutoStands ==
  ASSUME IInv, Standing, Lone, NEW r \in AutoRuns, AutoNext(r)
  PROVE  Standing'
<1>1. /\ DetRuns = {} /\ \A q \in AutoRuns : q = r
      /\ auto \in [AutoRuns -> AutoRun] /\ auto[r] \in AutoRun
      /\ AutoOK(auto[r]) /\ AutoStands(auto[r]) /\ TypeOK /\ TableTypeOK /\ RunsOK
      /\ None \notin Claims
  BY ClaimTableAssumption DEF IInv, TypeOK, RunsOK, Standing, Lone
<1> DEFINE run == auto[r]
<1>2. ASSUME AutoStands(auto[r])' PROVE Standing'
  BY <1>1, <1>2 DEF Standing
<1>3. ASSUME NEW c \in Claims, AutoStart(r, c) PROVE AutoStands(auto[r])'
  <2>1. auto'[r].pc = "scan" /\ auto'[r].winner = None
    BY <1>1, <1>3 DEF AutoStart, AutoIdle
  <2> QED
    BY <2>1 DEF AutoStands
<1>4. ASSUME NEW c \in Claims, AutoTake(r, c) PROVE AutoStands(auto[r])'
  <2>1. run.pc = "scan" /\ claims' = claims
    BY <1>4 DEF AutoTake
  <2>2. CASE claims[c].status # "conflicted"
    <3>1. auto'[r].pc = "scan" /\ auto'[r].winner = run.winner
      BY <1>1, <1>4, <2>1, <2>2 DEF AutoTake, AutoRun
    <3> QED
      BY <1>1, <2>1, <3>1 DEF AutoStands
  <2>3. CASE claims[c].status = "conflicted" /\ run.winner = None
    <3>1. auto'[r].pc = "scan" /\ auto'[r].winner = c
      BY <1>1, <1>4, <2>1, <2>3 DEF AutoTake, AutoRun
    <3> QED
      BY <2>1, <2>3, <3>1 DEF AutoStands
  <2>4. CASE claims[c].status = "conflicted" /\ run.winner # None
    <3>1. auto'[r].winner = run.winner /\ auto'[r].contender = c
      BY <1>1, <1>4, <2>4 DEF AutoTake, AutoRun
    <3> QED
      BY <1>1, <2>1, <2>4, <3>1 DEF AutoStands
  <2> QED
    BY <2>2, <2>3, <2>4
<1>5. ASSUME AutoRefresh(r) PROVE AutoStands(auto[r])'
  <2>1. run.pc = "refresh" /\ claims' = claims /\ run.winner \in Claims
    BY <1>1, <1>5 DEF AutoRefresh, AutoOK
  <2>2. claims[run.winner].status = "conflicted" /\ claims[run.contender].status = "conflicted"
    BY <1>1, <2>1 DEF AutoStands
  <2>3. auto'[r].pc = "judge" /\ auto'[r].winner = run.winner /\ auto'[r].contender = run.contender
    BY <1>1, <1>5, <2>2 DEF AutoRefresh, AutoRun
  <2> QED
    BY <2>1, <2>2, <2>3 DEF AutoStands
\* A step that neither writes the table nor changes the pair.
<1>6. ASSUME claims' = claims, run.pc \in {"judge", "mark"},
             auto'[r].winner = run.winner, auto'[r].contender = run.contender
      PROVE  AutoStands(auto[r])'
  <2>1. run.winner \in Claims
    BY <1>1, <1>6 DEF AutoOK
  <2>2. claims[run.winner].status = "conflicted" /\ claims[run.contender].status = "conflicted"
    BY <1>1, <1>6, <2>1 DEF AutoStands
  <2> QED
    BY <1>6, <2>2 DEF AutoStands
<1>7. ASSUME NEW w \in Claims, AutoJudge(r, w) PROVE AutoStands(auto[r])'
  <2>1. claims' = claims /\ run.pc = "judge"
    BY <1>7 DEF AutoJudge
  <2>2. auto'[r].winner = run.winner /\ auto'[r].contender = run.contender
    BY <1>1, <1>7 DEF AutoJudge, AutoRun
  <2> QED
    BY <1>6, <2>1, <2>2
<1>8. ASSUME AutoUndecided(r) PROVE AutoStands(auto[r])'
  BY <1>1, <1>6, <1>8 DEF AutoUndecided, AutoRun
<1>9. ASSUME AutoRefused(r) PROVE AutoStands(auto[r])'
  BY <1>1, <1>6, <1>9 DEF AutoRefused, AutoRun
<1>10. ASSUME AutoMark(r) PROVE AutoStands(auto[r])'
  <2>1. /\ Loser(run) \in Claims /\ run.kept \in Claims /\ Retire(Loser(run), run.kept)
    <3>1. run.pc = "mark" /\ AutoOK(run)
      BY <1>1, <1>10 DEF AutoMark
    <3>2. Loser(run) \in Claims /\ run.kept \in Claims /\ Loser(run) # run.kept
      BY <3>1, LoserIsNotKept
    <3> QED
      BY <1>10, <3>2 DEF AutoMark, MarkSupersededTx, MarkAllowed, Retire
  <2>2. claims'[run.kept].status = claims[run.kept].status
    <3> DEFINE old == Loser(run)
               new == run.kept
    <3>1. old \in Claims /\ new \in Claims /\ Retire(old, new) /\ TableTypeOK
      BY <1>1, <2>1
    <3> HIDE DEF old, new
    <3>2. \A d \in Claims \ {old} : claims'[d].status = claims[d].status
      BY <3>1, RetireColumns
    <3>3. claims'[new].status = claims[new].status
      BY <3>1, <3>2 DEF Retire
    <3> QED
      BY <3>3 DEF new
  <2>3. claims[run.kept].status = "conflicted"
    BY <1>1, <1>10, <2>1 DEF AutoMark, AutoOK, AutoStands
  <2>4. auto'[r].pc = "scan" /\ auto'[r].winner = run.kept
    BY <1>1, <1>10 DEF AutoMark, AutoRun
  <2> QED
    BY <2>2, <2>3, <2>4 DEF AutoStands
<1>11. ASSUME AutoEnd(r) PROVE AutoStands(auto[r])'
  <2>1. auto'[r].pc = "done"
    BY <1>1, <1>11 DEF AutoEnd, AutoIdle
  <2> QED
    BY <2>1 DEF AutoStands
<1>12. ASSUME AutoCrash(r) PROVE AutoStands(auto[r])'
  <2>1. auto'[r].pc = "idle"
    BY <1>1, <1>12 DEF AutoCrash, AutoIdle
  <2> QED
    BY <2>1 DEF AutoStands
<1> QED
  BY <1>2, <1>3, <1>4, <1>5, <1>7, <1>8, <1>9, <1>10, <1>11, <1>12 DEF AutoNext, AutoStep

\* The only deterministic run never retires its champion.
LEMMA LoneDetStands ==
  ASSUME IInv, Standing, Lone, NEW r \in DetRuns, DetNext(r)
  PROVE  Standing'
<1>1. /\ AutoRuns = {} /\ \A q \in DetRuns : q = r
      /\ det \in [DetRuns -> DetRun] /\ det[r] \in DetRun
      /\ DetOK(det[r]) /\ DetStands(det[r]) /\ TableTypeOK
  BY DEF IInv, TypeOK, RunsOK, Standing, Lone
<1>2. ASSUME DetStands(det[r])' PROVE Standing'
  BY <1>1, <1>2 DEF Standing
<1>3. ASSUME NEW c \in Claims, DetDetect(r, c) PROVE DetStands(det[r])'
  <2>1. claims' = claims /\ claims[c].status \in {"confirmed", "candidate", "conflicted"}
    BY <1>3 DEF DetDetect
  <2>2. det'[r].champion = c
    BY <1>1, <1>3 DEF DetDetect
  <2> QED
    BY <2>1, <2>2 DEF DetStands
<1>4. ASSUME NEW c \in Claims, Applied(r, c)
      PROVE  det'[r].pc # "apply" \/ det'[r].champion = det[r].champion
  BY <1>1, <1>4 DEF Applied, DetIdle, DetRun
<1>5. ASSUME NEW c \in Claims, DetApply(r, c) PROVE DetStands(det[r])'
  <2>1. /\ det[r].champion \in Claims /\ det[r].champion # c
        /\ claims[det[r].champion].status # "superseded"
    BY <1>1, <1>5 DEF DetApply, DetOK, DetStands
  <2>2. Retire(c, det[r].champion)
    BY <1>5, <2>1 DEF DetApply, SupersedeClaimTx, SupersedeAllowed, Retire
  <2>3. claims'[det[r].champion].status # "superseded"
    BY <1>1, <2>1, <2>2, RetireColumns
  <2>4. det'[r].pc # "apply" \/ det'[r].champion = det[r].champion
    BY <1>4, <1>5 DEF DetApply
  <2> QED
    BY <2>3, <2>4 DEF DetStands
<1>6. ASSUME NEW c \in Claims, DetLostRace(r, c) PROVE DetStands(det[r])'
  <2>1. /\ claims' = claims /\ claims[det[r].champion].status # "superseded"
    BY <1>1, <1>6 DEF DetLostRace, DetStands
  <2>2. det'[r].pc # "apply" \/ det'[r].champion = det[r].champion
    BY <1>4, <1>6 DEF DetLostRace
  <2> QED
    BY <2>1, <2>2 DEF DetStands
<1>7. ASSUME DetCrash(r) PROVE DetStands(det[r])'
  BY <1>1, <1>7 DEF DetCrash, DetIdle, DetStands
<1> QED
  BY <1>2, <1>3, <1>5, <1>6, <1>7 DEF DetNext, DetStep

\* Retiring a claim for one that stands closes no cycle: a set of retired
\* claims that holds the new loser does not hold its replacement.
LEMMA RetireLeadsOn ==
  ASSUME TableTypeOK, LosersLeadToSurvivor, NEW old \in Claims, NEW new \in Claims,
         Retire(old, new), claims[new].status # "superseded"
  PROVE  LosersLeadToSurvivor'
<1>1. old # new
  BY DEF Retire
<1>2. /\ claims'[old].replacedBy = new
      /\ \A d \in Claims \ {old} : /\ claims'[d].status = claims[d].status
                                   /\ claims'[d].replacedBy = claims[d].replacedBy
  BY RetireColumns
<1>3. ASSUME NEW S \in SUBSET {c \in Claims : claims'[c].status = "superseded"}, S # {}
      PROVE  \E c \in S : claims'[c].replacedBy \notin S
  <2>1. CASE old \in S
    BY <1>1, <1>2, <2>1
  <2>2. CASE old \notin S
    <3>1. S \in SUBSET {c \in Claims : claims[c].status = "superseded"}
      BY <1>2, <2>2
    <3>2. PICK c \in S : claims[c].replacedBy \notin S
      BY <1>3, <3>1 DEF LosersLeadToSurvivor
    <3> QED
      BY <1>2, <2>2, <3>1, <3>2
  <2> QED
    BY <2>1, <2>2
<1> QED
  BY <1>3 DEF LosersLeadToSurvivor

\* A step of a lone run keeps the ends of all chains.
LEMMA LoneStep ==
  ASSUME Lone, IInv, Standing, LosersLeadToSurvivor, [Next]_vars
  PROVE  Standing' /\ LosersLeadToSurvivor'
<1> DEFINE Good == Standing' /\ LosersLeadToSurvivor'
<1>1. /\ TypeOK /\ TableTypeOK /\ RunsOK /\ None \notin Claims
  BY ClaimTableAssumption DEF IInv, TypeOK
<1>2. ASSUME \A c \in Claims : /\ claims'[c].status = claims[c].status
                               /\ claims'[c].replacedBy = claims[c].replacedBy
      PROVE  LosersLeadToSurvivor'
  BY <1>2 DEF LosersLeadToSurvivor
<1>3. ASSUME NEW r \in AutoRuns, AutoNext(r) PROVE Good
  <2>1. Standing'
    BY <1>3, LoneAutoStands
  <2>2. CASE UNCHANGED <<claims, log>>
    BY <1>2, <2>1, <2>2
  <2>3. CASE AutoMark(r)
    <3>1. /\ Loser(auto[r]) \in Claims /\ auto[r].kept \in Claims
          /\ Retire(Loser(auto[r]), auto[r].kept)
      <4>1. auto[r].pc = "mark" /\ AutoOK(auto[r])
        BY <1>1, <2>3 DEF AutoMark, RunsOK
      <4>2. Loser(auto[r]) \in Claims /\ auto[r].kept \in Claims /\ Loser(auto[r]) # auto[r].kept
        BY <4>1, LoserIsNotKept
      <4> QED
        BY <2>3, <4>2 DEF AutoMark, MarkSupersededTx, MarkAllowed, Retire
    <3>2. claims[auto[r].kept].status # "superseded"
      <4>1. AutoOK(auto[r]) /\ AutoStands(auto[r]) /\ auto[r].pc = "mark"
        BY <1>1, <2>3 DEF RunsOK, Standing, AutoMark
      <4> QED
        BY <1>1, <4>1 DEF AutoOK, AutoStands
    <3> QED
      BY <1>1, <2>1, <3>1, <3>2, RetireLeadsOn
  <2> QED
    BY <1>1, <1>3, <2>2, <2>3, AutoWrites
<1>4. ASSUME NEW r \in DetRuns, DetNext(r) PROVE Good
  <2>1. Standing'
    BY <1>4, LoneDetStands
  <2>2. CASE UNCHANGED <<claims, log>>
    BY <1>2, <2>1, <2>2
  <2>3. ASSUME NEW c \in Claims, DetApply(r, c), det[r].champion \in Claims,
               Retire(c, det[r].champion)
        PROVE  Good
    <3>1. claims[det[r].champion].status # "superseded"
      BY <2>3 DEF DetApply, Standing, DetStands
    <3> QED
      BY <1>1, <2>1, <2>3, <3>1, RetireLeadsOn
  <2> QED
    BY <1>1, <1>4, <2>2, <2>3, DetWrites
<1>5. ASSUME NEW c \in Claims, Pin(c) PROVE Good
  BY <1>1, <1>2, <1>5, PinWrites, StandingTransfers
<1>6. ASSUME UNCHANGED vars PROVE Good
  BY <1>2, <1>6, StandingTransfers DEF vars
<1> HIDE DEF Good
<1>7. Good
  BY <1>3, <1>4, <1>5, <1>6 DEF Next
<1> QED
  BY <1>7 DEF Good

\* When one run is at work at a time, following the replacements of a retired
\* claim ends at one that is not retired, whatever the model decides, whoever
\* pins claims and wherever the run dies: no knowledge is lost in a cycle.
THEOREM LoneRunKeepsSurvivor == Lone /\ Spec => []LosersLeadToSurvivor
<1> DEFINE LInv == IInv /\ Standing /\ LosersLeadToSurvivor
<1>1. Init => Standing /\ LosersLeadToSurvivor
  <2> SUFFICES ASSUME Init PROVE Standing /\ LosersLeadToSurvivor
    OBVIOUS
  <2>1. Standing
    BY DEF Init, Standing, AutoStands, DetStands, AutoIdle, DetIdle
  <2>2. \A c \in Claims : claims[c].status # "superseded"
    BY DEF Init
  <2> QED
    BY <2>1, <2>2 DEF LosersLeadToSurvivor
<1>2. SUFFICES ASSUME Lone PROVE Spec => []LosersLeadToSurvivor
  OBVIOUS
<1>3. Init => LInv
  BY <1>1, InitIInv
<1>4. LInv /\ [Next]_vars => LInv'
  BY <1>2, LoneStep, NextIInv
<1>5. LInv => LosersLeadToSurvivor
  OBVIOUS
<1> HIDE DEF LInv
<1> QED
  BY <1>3, <1>4, <1>5, PTL DEF Spec
-----------------------------------------------------------------------------
(* Language model runs alone: both sides of a supersession are linked *)

\* A transaction of mark_superseded takes a back link that is not set yet,
\* so it breaks no other pair.
LEMMA MarkLinksBoth ==
  ASSUME IInv, PairsSymmetric, NEW r \in AutoRuns, AutoMark(r)
  PROVE  PairsSymmetric'
<1> DEFINE old == Loser(auto[r])
           new == auto[r].kept
<1>1. /\ TableTypeOK /\ RunsOK /\ None \notin Claims
  BY ClaimTableAssumption DEF IInv, TypeOK
<1>2. AutoOK(auto[r]) /\ auto[r].pc = "mark"
  BY <1>1 DEF AutoMark, RunsOK
<1>3. old \in Claims /\ new \in Claims /\ old # new
  BY <1>2, LoserIsNotKept
<1>4. /\ Retire(old, new)
      /\ claims[old].replacedBy = None /\ claims[new].supersedes \in {None, old}
  BY <1>3 DEF AutoMark, MarkSupersededTx, MarkAllowed, Retire
<1> HIDE DEF old, new
<1>5. claims[new].supersedes = None
  BY <1>1, <1>3, <1>4 DEF PairsSymmetric
<1>6. /\ claims'[old].replacedBy = new /\ claims'[new].supersedes = old
      /\ \A d \in Claims \ {old} : claims'[d].replacedBy = claims[d].replacedBy
      /\ \A d \in Claims \ {new} : claims'[d].supersedes = claims[d].supersedes
  BY <1>1, <1>3, <1>4, RetireColumns
<1>7. ASSUME NEW c \in Claims, NEW d \in Claims
      PROVE  claims'[c].replacedBy = d <=> claims'[d].supersedes = c
  <2>1. claims[c].replacedBy = d <=> claims[d].supersedes = c
    BY DEF PairsSymmetric
  <2> QED
    BY <1>1, <1>3, <1>4, <1>5, <1>6, <2>1
<1> QED
  BY <1>7 DEF PairsSymmetric

LEMMA PairsStep ==
  ASSUME DetRuns = {}, IInv, PairsSymmetric, [Next]_vars
  PROVE  PairsSymmetric'
<1>1. TypeOK /\ RunsOK
  BY DEF IInv
<1>2. ASSUME \A c \in Claims : /\ claims'[c].replacedBy = claims[c].replacedBy
                               /\ claims'[c].supersedes = claims[c].supersedes
      PROVE  PairsSymmetric'
  BY <1>2 DEF PairsSymmetric
<1>3. ASSUME NEW r \in AutoRuns, AutoNext(r) PROVE PairsSymmetric'
  BY <1>1, <1>2, <1>3, AutoWrites, MarkLinksBoth
<1>4. ASSUME NEW c \in Claims, Pin(c) PROVE PairsSymmetric'
  BY <1>1, <1>2, <1>4, PinWrites
<1>5. ASSUME UNCHANGED vars PROVE PairsSymmetric'
  BY <1>2, <1>5 DEF vars
<1> QED
  BY <1>3, <1>4, <1>5 DEF Next

\* As long as only the language model resolver is at work, in any number of
\* processes that race and die, a claim names its replacement if and only if
\* the replacement names it back.  The deterministic resolver is excluded
\* because supersede_claim takes the back link of the winner from the loser
\* it was set for (resolve_lone).
THEOREM LanguageModelRunsLinkBothSides == DetRuns = {} /\ Spec => []PairsSymmetric
<1> DEFINE SInv == IInv /\ PairsSymmetric
<1>1. Init => PairsSymmetric
  BY ClaimTableAssumption DEF Init, PairsSymmetric
<1>2. SUFFICES ASSUME DetRuns = {} PROVE Spec => []PairsSymmetric
  OBVIOUS
<1>3. Init => SInv
  BY <1>1, InitIInv
<1>4. SInv /\ [Next]_vars => SInv'
  BY <1>2, PairsStep, NextIInv
<1>5. SInv => PairsSymmetric
  OBVIOUS
<1> HIDE DEF SInv
<1> QED
  BY <1>3, <1>4, <1>5, PTL DEF Spec
=============================================================================

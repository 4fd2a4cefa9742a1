--------------------------- MODULE Proposals_proofs ---------------------------
(***************************************************************************)
(* Proofs about Proposals, for every set of claims and operators, every    *)
(* filing, window and bound.                                               *)
(*                                                                         *)
(* A verdict stands because resolutions are only appended and the oldest   *)
(* counts.  That an approved retirement took effect needs more: the        *)
(* approval is recorded in a later transaction than the write, and in      *)
(* between anybody may write the claim.  RowStep says that no transaction  *)
(* erases a replacement, provided the image it was computed from is exact  *)
(* when its version is current; CallOK says that of the images the calls   *)
(* hold, and carries the fact that a write happened from the call to the   *)
(* record (AuditOK).  It also carries the check of the transition from the *)
(* image to the write, so that every step follows the abstract life cycle. *)
(***************************************************************************)
EXTENDS Proposals, TLAPS

\* What one transaction may do to one row.
RowStep(row, next) ==
  /\ next.version >= row.version
  /\ next.version = row.version =>
       next.replacedBy = row.replacedBy /\ next.status = row.status
  /\ row.replacedBy # None => next.replacedBy # None

\* Every row takes such a step.
Advance == TableTypeOK' /\ \A d \in Claims : RowStep(claims[d], claims'[d])

\* The claim of a proposal to retire it has a replacement.
Effective(p) ==
  proposals[p].to = "superseded" => claims[proposals[p].target].replacedBy # None

\* What is known of a call that is under way.
CallOK(j) ==
  /\ j.of \in DOMAIN proposals
  /\ j.applied => Effective(j.of)
  /\ j.pc = "write" =>
       /\ j.img.version <= claims[proposals[j.of].target].version
       /\ Current(proposals[j.of].target, j.img) =>
            /\ claims[proposals[j.of].target].replacedBy = j.img.replacedBy
            /\ claims[proposals[j.of].target].status = j.img.status
       /\ CanTransition(j.img.status, proposals[j.of].to)

CallsOK == \A r \in Callers : call[r].pc # "idle" => CallOK(call[r])

\* What was recorded as applied is effective.
AuditOK ==
  \A i \in DOMAIN audit :
    audit[i].of \in DOMAIN proposals /\ (audit[i].applied => Effective(audit[i].of))

\* The inductive invariant.
IInv == TypeOK /\ CallsOK /\ AuditOK /\ todo \subseteq DOMAIN proposals
-----------------------------------------------------------------------------
(* Operators *)

\* A moved row is a row, with the link and version it was given.
LEMMA MovedRow ==
  ASSUME NEW row \in Row, NEW to \in Status, NEW repl \in Claims \cup {None}
  PROVE  /\ Moved(row, to, repl) \in Row
         /\ Moved(row, to, repl).replacedBy = repl
         /\ Moved(row, to, repl).version = row.version + 1
BY DEF Moved, Row

\* A linked row is a row that differs in its back link only.
LEMMA LinkedRow ==
  ASSUME NEW row \in Row, NEW old \in Claims
  PROVE  /\ Linked(row, old) \in Row
         /\ Linked(row, old).replacedBy = row.replacedBy
         /\ Linked(row, old).version = row.version
         /\ Linked(row, old).status = row.status
BY DEF Linked, Row

\* A log entry stays a log entry.
LEMMA LoggedEntry ==
  ASSUME NEW e \in LogEntry, NEW to \in Status
  PROVE  Logged(e, to, "ordinary") \in LogEntry
BY DEF Logged, LogEntry, ArchiveReason

\* A move that does not erase the link is a step of the row.
LEMMA MovedStep ==
  ASSUME NEW row \in Row, NEW to \in Status, NEW repl \in Claims \cup {None},
         row.replacedBy # None => repl # None
  PROVE  RowStep(row, Moved(row, to, repl))
<1>1. row.version \in Nat
  BY DEF Row
<1> QED
  BY <1>1 DEF Moved, RowStep

\* So is leaving the row alone.
LEMMA SameStep ==
  ASSUME NEW row \in Row
  PROVE  RowStep(row, row)
<1>1. row.version \in Nat
  BY DEF Row
<1> QED
  BY <1>1 DEF RowStep

\* Setting the back link afterwards makes no difference to that.
LEMMA LinkedStep ==
  ASSUME NEW row \in Row, NEW next \in Row, NEW old \in Claims, RowStep(row, next)
  PROVE  RowStep(row, Linked(next, old))
BY LinkedRow DEF RowStep
-----------------------------------------------------------------------------
(* The transactions *)

\* One row is moved and keeps its link or gets another.
LEMMA MoveAdvances ==
  ASSUME TableTypeOK, NEW c \in Claims, NEW to \in Status, NEW repl \in Claims \cup {None},
         claims[c].replacedBy # None => repl # None,
         claims' = [claims EXCEPT ![c] = Moved(@, to, repl)],
         log' = [log EXCEPT ![c] = Logged(@, to, "ordinary")]
  PROVE  Advance /\ claims'[c].replacedBy = repl
<1>1. claims \in [Claims -> Row] /\ log \in [Claims -> LogEntry]
  BY DEF TableTypeOK
<1> DEFINE row == Moved(claims[c], to, repl)
           entry == Logged(log[c], to, "ordinary")
<1>2. /\ row \in Row /\ row.replacedBy = repl /\ RowStep(claims[c], row)
      /\ entry \in LogEntry
  BY <1>1, MovedRow, MovedStep, LoggedEntry
<1>3. claims' = [claims EXCEPT ![c] = row] /\ log' = [log EXCEPT ![c] = entry]
  OBVIOUS
<1> HIDE DEF row, entry
<1>4. TableTypeOK' /\ claims'[c] = row /\ \A d \in Claims \ {c} : claims'[d] = claims[d]
  BY <1>1, <1>2, <1>3 DEF TableTypeOK
<1> QED
  BY <1>1, <1>2, <1>4, SameStep DEF Advance

\* The loser is moved, with the winner as its replacement; the winner is
\* linked, or moved and linked.
LEMMA RetireAdvances ==
  ASSUME TableTypeOK, NEW old \in Claims, NEW new \in Claims, old # new,
         NEW next \in Row, RowStep(claims[new], next),
         claims' = [claims EXCEPT ![old] = Moved(@, "superseded", new), ![new] = next],
         log' \in [Claims -> LogEntry]
  PROVE  Advance /\ claims'[old].replacedBy = new
<1>1. claims \in [Claims -> Row] /\ new # None /\ "superseded" \in Status
  BY ClaimTableAssumption DEF TableTypeOK, Status
<1> DEFINE row == Moved(claims[old], "superseded", new)
<1>2. row \in Row /\ row.replacedBy = new /\ RowStep(claims[old], row)
  BY <1>1, MovedRow, MovedStep
<1>3. claims' = [claims EXCEPT ![old] = row, ![new] = next]
  OBVIOUS
<1> HIDE DEF row
<1>4. /\ claims' \in [Claims -> Row] /\ claims'[old] = row /\ claims'[new] = next
      /\ \A d \in Claims \ {old, new} : claims'[d] = claims[d]
  BY <1>1, <1>2, <1>3
<1> QED
  BY <1>1, <1>2, <1>4, SameStep DEF Advance, TableTypeOK

\* A supersession outside a confirmation, by mark_superseded or supersede_claim.
LEMMA SupersessionAdvances ==
  ASSUME TableTypeOK, NEW old \in Claims, NEW new \in Claims, old # new,
         claims' = [claims EXCEPT ![old] = Moved(@, "superseded", new), ![new] = Linked(@, old)],
         log' = [log EXCEPT ![old] = Logged(@, "superseded", "ordinary")]
  PROVE  Advance /\ claims'[old].replacedBy = new
<1>1. claims[new] \in Row /\ log \in [Claims -> LogEntry] /\ "superseded" \in Status
  BY DEF TableTypeOK, Status
<1> DEFINE next == Linked(claims[new], old)
<1>2. next \in Row /\ RowStep(claims[new], next)
  BY <1>1, LinkedRow, LinkedStep, SameStep
<1>3. claims' = [claims EXCEPT ![old] = Moved(@, "superseded", new), ![new] = next]
  BY DEF TableTypeOK
<1>4. log' \in [Claims -> LogEntry]
  BY <1>1, LoggedEntry
<1> HIDE DEF next
<1> QED
  BY <1>2, <1>3, <1>4, RetireAdvances

\* Images are exact when they are taken.
LEMMA ImageExact ==
  ASSUME TableTypeOK, NEW c \in Claims
  PROVE  /\ ImageOf(c) \in Image
         /\ ImageOf(c).version = claims[c].version
         /\ ImageOf(c).replacedBy = claims[c].replacedBy
         /\ ImageOf(c).status = claims[c].status
         /\ claims[c].replacedBy \in Claims \cup {None}
         /\ claims[c].version \in Nat
BY DEF TableTypeOK, Row, Image, ImageOf

\* What a write of resolve_steward_proposal works on.
LEMMA WritingCall ==
  ASSUME IInv, NEW r \in Callers, Write(r)
  PROVE  /\ call[r] \in Calls /\ CallOK(call[r])
         /\ proposals[call[r].of] \in Proposal
         /\ proposals[call[r].of].target \in Claims
         /\ proposals[call[r].of].to \in Status
         /\ proposals[call[r].of].other \in Claims \cup {None}
         /\ proposals[call[r].of].other # proposals[call[r].of].target
         /\ proposals[call[r].of].to = "superseded" => proposals[call[r].of].other # None
         /\ call[r].img \in Image
<1>1. call[r] \in Calls /\ CallOK(call[r])
  BY DEF IInv, TypeOK, CallsOK, Write
<1>2. proposals[call[r].of] \in Proposal
  BY <1>1 DEF IInv, TypeOK, CallOK
<1>3. Wanted \subseteq Status
  BY DEF Wanted, Status
<1> QED
  BY <1>1, <1>2, <1>3 DEF Proposal, Calls

\* The write of a resolution erases no link, and makes its proposal effective.
LEMMA WriteAdvances ==
  ASSUME IInv, NEW r \in Callers, Write(r)
  PROVE  /\ Advance
         /\ proposals[call[r].of].to = "superseded"
              => claims'[proposals[call[r].of].target].replacedBy # None
<1> DEFINE j == call[r]
           t == proposals[j.of]
<1>1. /\ CallOK(j) /\ t.target \in Claims /\ t.to \in Status /\ t.other \in Claims \cup {None}
      /\ t.other # t.target /\ (t.to = "superseded" => t.other # None) /\ j.img \in Image
  BY WritingCall
<1>2. TableTypeOK /\ j.pc = "write" /\ ApplyTx(j.of, j.img)
  BY DEF IInv, TypeOK, Write
<1>3. CASE t.to = "superseded"
  <2>1. MarkSupersededTx(t.target, j.img, t.other) /\ t.other \in Claims /\ t.other # None
    BY <1>1, <1>2, <1>3 DEF ApplyTx
  <2>2. Advance /\ claims'[t.target].replacedBy = t.other
    BY <1>1, <1>2, <2>1, SupersessionAdvances DEF MarkSupersededTx
  <2> QED
    BY <2>1, <2>2
<1>4. CASE t.to # "superseded"
  <2> DEFINE repl == IF t.other # None THEN t.other ELSE j.img.replacedBy
  <2>1. TransitionTx(t.target, j.img, t.to, "ordinary", t.other)
    BY <1>2, <1>4 DEF ApplyTx
  <2>2. repl \in Claims \cup {None}
    BY <1>1 DEF Image
  <2>3. claims[t.target].replacedBy # None => repl # None
    BY <1>1, <1>2, <2>1 DEF CallOK, TransitionTx
  <2>4. Advance
    BY <1>1, <1>2, <2>1, <2>2, <2>3, MoveAdvances DEF TransitionTx
  <2> QED
    BY <1>4, <2>4
<1> QED
  BY <1>3, <1>4

\* So does what the validator and the other writers write.
LEMMA OthersAdvance ==
  ASSUME TableTypeOK, Others \/ \E c \in Claims : ValidatorConfirm(c)
  PROVE  Advance
<1>1. /\ claims \in [Claims -> Row] /\ log \in [Claims -> LogEntry]
      /\ {"stale", "conflicted", "confirmed", "archived", "candidate", "superseded"} \subseteq Status
  BY DEF TableTypeOK, Status
<1>2. ASSUME NEW c \in Claims, ValidatorConfirm(c)
      PROVE  Advance
  BY <1>1, <1>2, ImageExact, MoveAdvances DEF ValidatorConfirm, ConfirmTx
<1>3. ASSUME NEW c \in Claims, NEW to \in {"stale", "conflicted"}, Demote(c, to)
      PROVE  Advance
  <2>1. claims' = [claims EXCEPT ![c] = Moved(@, to, ImageOf(c).replacedBy)]
        /\ log' = [log EXCEPT ![c] = Logged(@, to, "ordinary")]
    BY <1>3 DEF Demote, TransitionTx
  <2> QED
    BY <1>1, <2>1, ImageExact, MoveAdvances
<1>4. ASSUME NEW c \in Claims, NEW d \in Claims, Lose(c, d)
      PROVE  Advance
  BY <1>4, SupersessionAdvances DEF Lose, SupersedeClaimTx
<1>5. ASSUME NEW c \in Claims, NEW d \in Claims, Win(c, d)
      PROVE  Advance
  <2> DEFINE mid == Moved(claims[c], "confirmed", ImageOf(c).replacedBy)
             next == Linked(mid, d)
  <2>1. /\ claims' = [claims EXCEPT ![d] = Moved(@, "superseded", c), ![c] = Linked(Moved(@, "confirmed", ImageOf(c).replacedBy), d)]
        /\ log' = [log EXCEPT ![d] = Logged(@, "superseded", "ordinary"),
                              ![c] = Logged(@, "confirmed", "ordinary")]
        /\ c # d
    <3>1. Predecessor(ImageOf(c), d) = d
      BY ClaimTableAssumption DEF Predecessor
    <3> QED
      BY <1>5, <3>1 DEF Win, HandoverTx
  <2>2. mid \in Row /\ RowStep(claims[c], mid)
    BY <1>1, ImageExact, MovedRow, MovedStep
  <2>3. next \in Row /\ RowStep(claims[c], next)
    BY <1>1, <2>2, LinkedRow, LinkedStep
  <2>4. log' \in [Claims -> LogEntry]
    BY <1>1, <2>1, LoggedEntry
  <2>5. claims' = [claims EXCEPT ![d] = Moved(@, "superseded", c), ![c] = next]
    BY <1>1, <2>1
  <2> HIDE DEF next, mid
  <2> QED
    BY <2>1, <2>3, <2>4, <2>5, RetireAdvances
<1>6. ASSUME NEW c \in Claims, Archive(c)
      PROVE  Advance
  <2>1. claims' = [claims EXCEPT ![c] = Moved(@, "archived", claims[c].replacedBy)]
    BY <1>1, <1>6 DEF Archive, CompactTx
  <2> QED
    BY <1>1, <1>6, <2>1, ImageExact, MoveAdvances DEF Archive, CompactTx
<1>7. ASSUME NEW c \in Claims, Revive(c)
      PROVE  Advance
  BY <1>1, <1>7, ImageExact, MoveAdvances DEF Revive, ReviveTx
<1>8. ASSUME NEW c \in Claims, NEW b \in BOOLEAN, Pin(c, b)
      PROVE  Advance
  <2> DEFINE row == [claims[c] EXCEPT !.pinned = b]
  <2>1. row \in Row /\ row.version = claims[c].version
        /\ row.replacedBy = claims[c].replacedBy /\ row.status = claims[c].status
    BY <1>1 DEF Row
  <2>2. claims' = [claims EXCEPT ![c] = row] /\ log' = log
    BY <1>1, <1>8 DEF Pin, SetPinnedTx
  <2>3. RowStep(claims[c], row)
    BY <2>1, ImageExact DEF RowStep
  <2> HIDE DEF row
  <2>4. TableTypeOK'
    BY <1>1, <2>1, <2>2 DEF TableTypeOK
  <2>5. \A d \in Claims : RowStep(claims[d], claims'[d])
    BY <1>1, <2>2, <2>3, SameStep
  <2> QED
    BY <2>4, <2>5 DEF Advance
<1> QED
  BY <1>2, <1>3, <1>4, <1>5, <1>6, <1>7, <1>8 DEF Others

\* A step that leaves the table alone.
LEMMA UnchangedAdvances ==
  ASSUME TableTypeOK, UNCHANGED <<claims, log>>
  PROVE  Advance
<1>1. claims \in [Claims -> Row]
  BY DEF TableTypeOK
<1> QED
  BY <1>1, SameStep DEF Advance, TableTypeOK
-----------------------------------------------------------------------------
(* The calls and the record *)

\* A step that advances the table and forgets no proposal leaves what is
\* known of a call or of an effective proposal true.
LEMMA Kept ==
  ASSUME IInv, Advance, DOMAIN proposals \subseteq DOMAIN proposals',
         \A p \in DOMAIN proposals : proposals'[p] = proposals[p]
  PROVE  /\ \A p \in DOMAIN proposals : Effective(p) => Effective(p)'
         /\ \A j \in Calls : CallOK(j) => CallOK(j)'
<1>1. \A p \in DOMAIN proposals : proposals[p].target \in Claims
  BY DEF IInv, TypeOK, Proposal
<1>2. \A p \in DOMAIN proposals : Effective(p) => Effective(p)'
  BY <1>1 DEF Effective, Advance, RowStep
<1>3. ASSUME NEW j \in Calls, CallOK(j)
      PROVE  CallOK(j)'
  <2> DEFINE c == proposals[j.of].target
  <2>1. /\ j.of \in DOMAIN proposals /\ c \in Claims
        /\ proposals'[j.of].target = c
        /\ j.applied => Effective(j.of)
    BY <1>1, <1>3 DEF CallOK
  <2>2. /\ claims[c].version \in Nat /\ claims'[c].version \in Nat
        /\ j.img.version \in Nat
        /\ RowStep(claims[c], claims'[c])
    BY <2>1 DEF Advance, IInv, TypeOK, TableTypeOK, Row, Calls, Image
  <2>3. ASSUME j.pc = "write"
        PROVE  /\ j.img.version <= claims'[c].version
               /\ claims'[c].version = j.img.version =>
                    claims'[c].replacedBy = j.img.replacedBy /\ claims'[c].status = j.img.status
    <3>1. /\ j.img.version <= claims[c].version
          /\ claims[c].version = j.img.version =>
               claims[c].replacedBy = j.img.replacedBy /\ claims[c].status = j.img.status
      BY <1>3, <2>3 DEF CallOK, Current
    <3> QED
      BY <2>2, <3>1 DEF RowStep
  <2>4. /\ j.applied => Effective(j.of)'
        /\ j.pc = "write" => CanTransition(j.img.status, proposals'[j.of].to)
    BY <1>2, <1>3, <2>1 DEF CallOK
  <2> QED
    BY <2>1, <2>3, <2>4 DEF CallOK, Current
<1> QED
  BY <1>2, <1>3

\* The calls stay as known when at most one of them changes, to an idle one
\* or one that is as known.
LEMMA CallStep ==
  ASSUME IInv, Advance, DOMAIN proposals \subseteq DOMAIN proposals',
         \A p \in DOMAIN proposals : proposals'[p] = proposals[p],
         NEW r \in Callers, NEW j \in Calls,
         call' = [call EXCEPT ![r] = j], j.pc # "idle" => CallOK(j)'
  PROVE  call' \in [Callers -> Calls] /\ CallsOK'
<1>1. call \in [Callers -> Calls]
  BY DEF IInv, TypeOK
<1>2. call' \in [Callers -> Calls] /\ call'[r] = j
      /\ \A q \in Callers \ {r} : call'[q] = call[q]
  BY <1>1
<1>3. ASSUME NEW q \in Callers, call'[q].pc # "idle"
      PROVE  CallOK(call[q])'
  <2>1. CASE q = r
    BY <1>2, <1>3, <2>1 DEF CallOK, Current, Effective
  <2>2. CASE q # r
    <3>1. call'[q] = call[q] /\ call[q] \in Calls /\ CallOK(call[q])
      BY <1>1, <1>2, <1>3, <2>2 DEF IInv, CallsOK
    <3>2. \A k \in Calls : CallOK(k) => CallOK(k)'
      BY Kept
    <3> QED
      BY <3>1, <3>2 DEF CallOK, Current, Effective
  <2> QED
    BY <2>1, <2>2
<1> QED
  BY <1>2, <1>3 DEF CallsOK

\* The record stays as known when nothing is added to it.
LEMMA AuditKept ==
  ASSUME IInv, Advance, DOMAIN proposals \subseteq DOMAIN proposals',
         \A p \in DOMAIN proposals : proposals'[p] = proposals[p],
         UNCHANGED audit
  PROVE  AuditOK'
<1>1. \A p \in DOMAIN proposals : Effective(p) => Effective(p)'
  BY Kept
<1>2. \A i \in DOMAIN audit : audit[i].of \in DOMAIN proposals
                              /\ (audit[i].applied => Effective(audit[i].of))
  BY DEF IInv, AuditOK
<1>3. \A i \in DOMAIN audit : audit[i].of \in DOMAIN proposals'
                              /\ (audit[i].applied => Effective(audit[i].of)')
  BY <1>1, <1>2
<1> QED
  BY <1>3 DEF AuditOK, Effective

\* The values calls and runs start from.
LEMMA StartValues ==
  /\ NoImage \in Image /\ Idle \in Calls /\ NoRun \in [on : BOOLEAN, blocked : SUBSET Claims]
  /\ Idle.pc = "idle"
BY DEF NoImage, Image, Idle, Calls, NoRun, Act

\* A new proposal disturbs neither calls nor record.
LEMMA FileInv ==
  ASSUME IInv, NEW t \in Filings, File(t)
  PROVE  IInv'
<1>1. t \in Proposal /\ proposals \in Seq(Proposal)
  BY ProposalsAssumption DEF IInv, TypeOK
<1>2. /\ proposals' \in Seq(Proposal)
      /\ DOMAIN proposals \subseteq DOMAIN proposals'
      /\ \A p \in DOMAIN proposals : proposals'[p] = proposals[p]
  BY <1>1 DEF File
<1>3. Advance /\ TableTypeOK'
  BY UnchangedAdvances DEF File, IInv, TypeOK, Advance
<1>4. CallsOK'
  <2>1. \A j \in Calls : CallOK(j) => CallOK(j)'
    BY <1>2, <1>3, Kept
  <2>2. call \in [Callers -> Calls] /\ call' = call /\ CallsOK
    BY DEF IInv, TypeOK, File
  <2> QED
    BY <2>1, <2>2 DEF CallsOK, CallOK, Current, Effective
<1>5. AuditOK'
  BY <1>2, <1>3, AuditKept DEF File
<1>6. TypeOK' /\ todo' \subseteq DOMAIN proposals'
  BY <1>2, <1>3 DEF IInv, TypeOK, File
<1> QED
  BY <1>4, <1>5, <1>6 DEF IInv

\* Nor does a write of a claim.
LEMMA TableInv ==
  ASSUME IInv, Advance, UNCHANGED <<proposals, audit, call, todo, run, calls, deaths>>
  PROVE  IInv'
<1>1. CallsOK'
  <2>1. \A j \in Calls : CallOK(j) => CallOK(j)'
    BY Kept
  <2>2. call \in [Callers -> Calls] /\ call' = call /\ CallsOK
    BY DEF IInv, TypeOK
  <2> QED
    BY <2>1, <2>2 DEF CallsOK, CallOK, Current, Effective
<1>2. AuditOK'
  BY AuditKept
<1>3. TypeOK'
  BY DEF IInv, TypeOK, Advance
<1> QED
  BY <1>1, <1>2, <1>3 DEF IInv

\* A call moves on and nothing is recorded.
LEMMA CallInv ==
  ASSUME IInv, Advance, NEW r \in Callers, NEW j \in Calls,
         call' = [call EXCEPT ![r] = j], j.pc # "idle" => CallOK(j)',
         UNCHANGED <<proposals, audit, run>>,
         todo' \subseteq todo, calls' \in Nat, deaths' \in Nat
  PROVE  IInv'
<1>1. call' \in [Callers -> Calls] /\ CallsOK'
  BY CallStep
<1>2. AuditOK'
  BY AuditKept
<1>3. TypeOK'
  BY <1>1 DEF IInv, TypeOK, Advance
<1> QED
  BY <1>1, <1>2, <1>3 DEF IInv

\* What is in a sequence after an element was appended.
LEMMA Appended ==
  ASSUME NEW S, NEW s \in Seq(S), NEW e \in S, NEW t, t = Append(s, e)
  PROVE  /\ t \in Seq(S)
         /\ DOMAIN s \subseteq DOMAIN t
         /\ \A i \in DOMAIN s : t[i] = s[i] /\ i < Len(s) + 1
         /\ \A i \in DOMAIN t : i \in DOMAIN s \/ (i = Len(s) + 1 /\ t[i] = e)
<1>1. Len(s) \in Nat /\ DOMAIN s = 1..Len(s) /\ DOMAIN t = 1..(Len(s) + 1) /\ t \in Seq(S)
  OBVIOUS
<1>2. t[Len(s) + 1] = e /\ \A i \in 1..Len(s) : t[i] = s[i]
  OBVIOUS
<1>3. \A i \in 1..Len(s) : i \in 1..(Len(s) + 1) /\ i < Len(s) + 1
  BY <1>1
<1>4. \A i \in 1..(Len(s) + 1) : i \in 1..Len(s) \/ i = Len(s) + 1
  BY <1>1
<1> QED
  BY <1>1, <1>2, <1>3, <1>4, Zenon

\* One step of resolve_steward_proposal.
LEMMA ResolveInv ==
  ASSUME IInv, NEW r \in Callers, Resolve(r)
  PROVE  IInv'
<1> DEFINE j == call[r]
<1>1. /\ j \in Calls /\ TableTypeOK /\ {calls, deaths} \subseteq Nat
      /\ j.pc # "idle" => CallOK(j) /\ proposals[j.of].target \in Claims
  BY DEF IInv, TypeOK, CallsOK, CallOK, Proposal
<1>2. CASE Look(r)
  <2>1. PICK k \in {Idle, [j EXCEPT !.pc = IF j.act = "approve" THEN "read" ELSE "record"]} :
          call' = [call EXCEPT ![r] = k]
    BY <1>2 DEF Look
  <2>2. UNCHANGED <<claims, log, proposals, audit, todo, run, calls, deaths>> /\ j.pc = "look"
    BY <1>2 DEF Look
  <2>3. k \in Calls /\ (k.pc # "idle" => CallOK(k)')
    BY <1>1, <2>1, <2>2, StartValues DEF CallOK, Effective, Calls
  <2>4. Advance
    BY <1>1, <2>2, UnchangedAdvances
  <2> QED
    BY <1>1, <2>1, <2>2, <2>3, <2>4, CallInv
<1>3. CASE Read(r)
  <2> DEFINE img == ImageOf(proposals[j.of].target)
             done == [j EXCEPT !.pc = "record", !.applied = (Verdict(j.of, img) = "done")]
             write == [j EXCEPT !.pc = "write", !.img = img]
  <2>1. PICK k : /\ call' = [call EXCEPT ![r] = k]
                 /\ k = done \/ (k = write /\ Verdict(j.of, img) = "write")
    BY <1>3 DEF Read
  <2>2. UNCHANGED <<claims, log, proposals, audit, todo, run, calls, deaths>> /\ j.pc = "read"
    BY <1>3 DEF Read
  <2>3. /\ img \in Image /\ img.version = claims[proposals[j.of].target].version
        /\ img.replacedBy = claims[proposals[j.of].target].replacedBy
        /\ img.status = claims[proposals[j.of].target].status
        /\ img.version \in Nat
    BY <1>1, <2>2, ImageExact
  <2>4. /\ Verdict(j.of, img) = "done" => proposals[j.of].to # "superseded"
        /\ Verdict(j.of, img) = "write" => CanTransition(img.status, proposals[j.of].to)
    BY DEF Verdict
  <2>5. ASSUME k = done
        PROVE  k \in Calls /\ (k.pc # "idle" => CallOK(k)')
    <3>1. k \in Calls /\ k.of = j.of /\ k.pc = "record"
          /\ (k.applied => proposals[j.of].to # "superseded")
      BY <1>1, <2>4, <2>5 DEF Calls
    <3> QED
      BY <1>1, <2>2, <3>1 DEF CallOK, Effective
  <2>6. ASSUME k = write, Verdict(j.of, img) = "write"
        PROVE  k \in Calls /\ (k.pc # "idle" => CallOK(k)')
    <3>0. CanTransition(img.status, proposals[j.of].to)
      BY <2>4, <2>6
    <3> HIDE DEF img
    <3>1. k \in Calls /\ k.of = j.of /\ k.img = img /\ k.applied = j.applied
      BY <1>1, <2>3, <2>6 DEF Calls
    <3>2. CallOK(j)
      BY <1>1, <2>2
    <3>3. CallOK(k)'
      BY <2>2, <2>3, <3>0, <3>1, <3>2 DEF CallOK, Effective, Current
    <3> QED
      BY <3>1, <3>3
  <2>7. Advance
    BY <1>1, <2>2, UnchangedAdvances
  <2>8. k \in Calls /\ (k.pc # "idle" => CallOK(k)')
    BY <2>1, <2>5, <2>6
  <2> QED
    BY <1>1, <2>1, <2>2, <2>7, <2>8, CallInv
<1>4. CASE Write(r)
  <2>k. PICK k : k = [j EXCEPT !.pc = "record", !.img = NoImage, !.applied = TRUE]
    OBVIOUS
  <2>1. /\ call' = [call EXCEPT ![r] = k] /\ j.pc = "write"
        /\ UNCHANGED <<proposals, audit, todo, run, calls, deaths>>
    BY <1>4, <2>k DEF Write
  <2>2. /\ Advance
        /\ proposals[j.of].to = "superseded" => claims'[proposals[j.of].target].replacedBy # None
    BY <1>4, WriteAdvances
  <2>3. k \in Calls /\ k.of = j.of /\ k.pc = "record"
    BY <1>1, <2>k, StartValues DEF Calls
  <2>4. CallOK(k)'
    BY <1>1, <2>1, <2>2, <2>3 DEF CallOK, Effective
  <2> QED
    BY <1>1, <2>1, <2>2, <2>3, <2>4, CallInv
<1>5. CASE WriteRefused(r)
  <2>k. PICK k : k = [j EXCEPT !.pc = "record", !.img = NoImage]
    OBVIOUS
  <2>1. /\ call' = [call EXCEPT ![r] = k] /\ j.pc = "write"
        /\ UNCHANGED <<claims, log, proposals, audit, todo, run, calls, deaths>>
    BY <1>5, <2>k DEF WriteRefused
  <2>2. Advance
    BY <1>1, <2>1, UnchangedAdvances
  <2>3. k \in Calls /\ k.of = j.of /\ k.pc = "record" /\ k.applied = j.applied
    BY <1>1, <2>k, StartValues DEF Calls
  <2>4. CallOK(k)'
    BY <1>1, <2>1, <2>3 DEF CallOK, Effective
  <2> QED
    BY <1>1, <2>1, <2>2, <2>3, <2>4, CallInv
<1>6. CASE Record(r)
  <2>e. PICK e : e = [of |-> j.of, applied |-> j.applied,
                      verdict |-> IF j.act = "reject" THEN "rejected" ELSE "approved"]
    OBVIOUS
  <2>1. /\ call' = [call EXCEPT ![r] = Idle] /\ j.pc = "record"
        /\ UNCHANGED <<claims, log, proposals, todo, run, calls, deaths>>
        /\ audit' \in {audit, Append(audit, e)}
    BY <1>6, <2>e DEF Record
  <2>2. Advance
    BY <1>1, <2>1, UnchangedAdvances
  <2>3. call' \in [Callers -> Calls] /\ CallsOK'
    BY <2>1, <2>2, CallStep, StartValues
  <2>4. e \in Resolution /\ e.of \in DOMAIN proposals /\ (e.applied => Effective(e.of))
    BY <1>1, <2>e, <2>1 DEF Resolution, Calls, CallOK
  <2>a. audit \in Seq(Resolution) /\ AuditOK
    BY DEF IInv, TypeOK
  <2>5. audit' \in Seq(Resolution)
    BY <2>1, <2>4, <2>a
  <2>6. \A i \in DOMAIN audit' : audit'[i] = e \/ (i \in DOMAIN audit /\ audit'[i] = audit[i])
    <3>1. CASE audit' = audit
      BY <3>1
    <3>2. CASE audit' = Append(audit, e)
      <4>1. e \in Resolution /\ audit \in Seq(Resolution)
        BY <2>4, <2>a
      <4>2. /\ \A i \in DOMAIN audit : audit'[i] = audit[i]
            /\ \A i \in DOMAIN audit' : i \in DOMAIN audit \/ audit'[i] = e
        BY <3>2, <4>1, Appended
      <4> QED
        BY <4>2
    <3> QED
      BY <2>1, <3>1, <3>2
  <2>7. AuditOK'
    BY <2>1, <2>4, <2>a, <2>6 DEF AuditOK, Effective
  <2>8. TypeOK'
    BY <2>1, <2>2, <2>3, <2>5 DEF IInv, TypeOK, Advance
  <2> QED
    BY <2>1, <2>3, <2>7, <2>8 DEF IInv
<1> QED
  BY <1>2, <1>3, <1>4, <1>5, <1>6 DEF Resolve

\* The drain takes a listed proposal, or lists them.
LEMMA DrainInv ==
  ASSUME IInv, DrainList \/ \E p \in todo : DrainTake(p)
  PROVE  IInv'
<1>1. CASE DrainList
  <2>1. /\ UNCHANGED <<claims, log, proposals, audit, call, run, calls, deaths>>
        /\ todo' \subseteq DOMAIN proposals /\ DOMAIN proposals \subseteq Nat
    BY <1>1 DEF DrainList, Drainable, IInv, TypeOK
  <2>2. TypeOK' /\ AuditOK' /\ CallsOK'
    BY <2>1 DEF IInv, TypeOK, TableTypeOK, AuditOK, CallsOK, CallOK, Effective, Current
  <2> QED
    BY <2>1, <2>2 DEF IInv
<1>2. ASSUME NEW p \in todo, DrainTake(p)
      PROVE  IInv'
  <2>1. PICK k \in {Idle, [Idle EXCEPT !.pc = "look", !.of = p, !.act = "approve"]} :
          call' = [call EXCEPT ![Drain] = k]
    BY <1>2 DEF DrainTake
  <2>2. /\ UNCHANGED <<claims, log, proposals, audit, run, calls, deaths>>
        /\ todo' \subseteq todo /\ p \in DOMAIN proposals /\ p \in Nat /\ Drain \in Callers
    BY <1>2 DEF DrainTake, IInv, TypeOK, Callers
  <2>3. k \in Calls /\ (k.pc # "idle" => CallOK(k)')
    BY <2>1, <2>2, StartValues DEF Idle, CallOK, Calls, Act
  <2>4. Advance
    BY <2>2, UnchangedAdvances DEF IInv, TypeOK
  <2> QED
    BY <2>1, <2>2, <2>3, <2>4, CallInv DEF IInv, TypeOK
<1> QED
  BY <1>1, <1>2
-----------------------------------------------------------------------------
(* The invariant *)

LEMMA InvInit == Init => IInv
<1> SUFFICES ASSUME Init PROVE IInv
  OBVIOUS
<1>1. PICK s \in Starts :
        /\ claims = [c \in Claims |->
             [status |-> s[c], version |-> IF s[c] = "candidate" THEN 0 ELSE 1,
              replacedBy |-> None, supersedes |-> None, pinned |-> FALSE]]
        /\ log = [c \in Claims |-> [to |-> s[c], archive |-> "never"]]
  BY DEF Init
<1>2. \A c \in Claims : s[c] \in Status
  BY ProposalsAssumption DEF Status
<1>3. TableTypeOK
  BY <1>1, <1>2 DEF TableTypeOK, Row, LogEntry, ArchiveReason
<1>4. /\ proposals = <<>> /\ audit = <<>> /\ call = [r \in Callers |-> Idle] /\ todo = {}
      /\ run = NoRun /\ calls = 0 /\ deaths = 0
  BY DEF Init
<1>5. TypeOK
  BY <1>3, <1>4, StartValues DEF TypeOK
<1>6. CallsOK /\ AuditOK
  BY <1>4, StartValues DEF CallsOK, AuditOK
<1> QED
  BY <1>4, <1>5, <1>6 DEF IInv

LEMMA InvNext == IInv /\ [Next]_vars => IInv'
<1> SUFFICES ASSUME IInv, [Next]_vars PROVE IInv'
  OBVIOUS
<1>0. TableTypeOK /\ {calls, deaths} \subseteq Nat /\ DOMAIN proposals \subseteq Nat
      /\ todo \in SUBSET Nat /\ todo \subseteq DOMAIN proposals
  BY DEF IInv, TypeOK
<1>1. ASSUME NEW t \in Filings, File(t)
      PROVE  IInv'
  BY <1>1, FileInv
<1>2. ASSUME NEW o \in Operators, NEW p \in 1..Len(proposals), NEW act \in Act, Choose(o, p, act)
      PROVE  IInv'
  <2>1. PICK k : k = [Idle EXCEPT !.pc = "look", !.of = p, !.act = act]
    OBVIOUS
  <2>2. /\ call' = [call EXCEPT ![o] = k] /\ p \in DOMAIN proposals /\ o \in Callers
        /\ calls' = calls + 1
        /\ UNCHANGED <<claims, log, proposals, audit, todo, run, deaths>>
    BY <1>2, <2>1 DEF Choose, Callers
  <2>3. k \in Calls /\ (k.pc # "idle" => CallOK(k)')
    BY <1>0, <2>1, <2>2, StartValues DEF Idle, CallOK, Calls
  <2>4. Advance
    BY <1>0, <2>2, UnchangedAdvances
  <2>5. calls' \in Nat /\ deaths' \in Nat /\ todo' \subseteq todo /\ UNCHANGED <<proposals, audit, run>>
    BY <1>0, <2>2
  <2> QED
    BY <2>2, <2>3, <2>4, <2>5, CallInv
<1>3. ASSUME NEW r \in Callers, Resolve(r)
      PROVE  IInv'
  BY <1>3, ResolveInv
<1>4. ASSUME NEW r \in Callers, call' = [call EXCEPT ![r] = Idle], todo' \subseteq todo,
             deaths' \in Nat, UNCHANGED <<claims, log, proposals, audit, run, calls>>
      PROVE  IInv'
  <2>1. Advance
    BY <1>0, <1>4, UnchangedAdvances
  <2> QED
    BY <1>0, <1>4, <2>1, StartValues, CallInv
<1>5. CASE DrainList \/ \E p \in todo : DrainTake(p)
  BY <1>5, DrainInv
<1>6. CASE ValidatorScan \/ ValidatorEnd
  <2>1. /\ UNCHANGED <<claims, log, proposals, audit, call, todo, calls, deaths>>
        /\ run' \in [on : BOOLEAN, blocked : SUBSET Claims]
    <3>1. PendingSupersession \subseteq Claims
      BY DEF PendingSupersession, IInv, TypeOK, Proposal
    <3>2. CASE ValidatorScan
      BY <3>1, <3>2 DEF ValidatorScan
    <3>3. CASE ValidatorEnd
      BY <3>3, StartValues DEF ValidatorEnd
    <3> QED
      BY <1>6, <3>2, <3>3
  <2>2. TypeOK' /\ AuditOK' /\ CallsOK'
    BY <2>1 DEF IInv, TypeOK, TableTypeOK, AuditOK, CallsOK, CallOK, Effective, Current
  <2> QED
    BY <2>1, <2>2 DEF IInv
<1>7. CASE Others \/ \E c \in Claims : ValidatorConfirm(c)
  <2>1. UNCHANGED <<proposals, audit, call, todo, run, calls, deaths>>
    BY <1>7 DEF Others, ValidatorConfirm, Demote, Lose, Win, Archive, Revive, Pin
  <2> QED
    BY <1>0, <1>7, <2>1, OthersAdvance, TableInv
<1>8. CASE UNCHANGED vars
  <2>1. Advance
    BY <1>0, <1>8, UnchangedAdvances DEF vars
  <2> QED
    BY <1>8, <2>1, TableInv DEF vars
<1>9. CASE \E o \in Operators : Resolve(o) \/ OperatorDies(o)
  <2>1. \A o \in Operators : o \in Callers
    BY DEF Callers
  <2> QED
    BY <1>0, <1>3, <1>4, <1>9, <2>1 DEF OperatorDies
<1>10. CASE DrainDies
  <2>1. Drain \in Callers /\ deaths + 1 \in Nat
    BY <1>0 DEF Callers
  <2> QED
    BY <1>4, <1>10, <2>1 DEF DrainDies
<1>11. CASE Draining
  <2>1. Drain \in Callers
    BY DEF Callers
  <2> QED
    BY <1>3, <1>5, <1>11, <2>1 DEF Draining
<1> QED
  BY <1>1, <1>2, <1>6, <1>7, <1>8, <1>9, <1>10, <1>11 DEF Next, Validate

THEOREM Invariant == Spec => []IInv
<1>1. Init => IInv
  BY InvInit
<1>2. IInv /\ [Next]_vars => IInv'
  BY InvNext
<1> QED
  BY <1>1, <1>2, PTL DEF Spec

\* Every variable keeps its type.
THEOREM TypeCorrect == Spec => []TypeOK
<1>1. IInv => TypeOK
  BY DEF IInv
<1> QED
  BY <1>1, Invariant, PTL

\* An approval that is on record has retired its claim, for good: whoever
\* resolved the proposal, in whatever order, and whatever was written since.
THEOREM ApprovalsTakeEffect == Spec => []ApprovedTookEffect
<1>1. IInv => ApprovedTookEffect
  <2> SUFFICES ASSUME IInv, NEW p \in DOMAIN proposals, Resolved(p, "approved"),
                      proposals[p].to = "superseded"
               PROVE  claims[proposals[p].target].replacedBy # None
    BY DEF ApprovedTookEffect
  <2>1. PICK i \in DOMAIN audit : Counts(i, p) /\ audit[i].verdict = "approved"
    BY DEF Resolved, Resolutions
  <2>2. audit[i].of = p /\ audit[i].applied
    BY <2>1 DEF Counts
  <2> QED
    BY <2>2 DEF IInv, AuditOK, Effective
<1> QED
  BY <1>1, Invariant, PTL

\* The first verdict on a proposal is never replaced by a later one.
THEOREM VerdictsStand == Spec => ResolutionsStand
<1>1. IInv /\ [Next]_vars =>
        \A p \in DOMAIN proposals, v \in {"approved", "rejected"} :
          Resolved(p, v) => Resolved(p, v)'
  <2> SUFFICES ASSUME IInv, [Next]_vars, NEW p \in DOMAIN proposals,
                      NEW v \in {"approved", "rejected"}, Resolved(p, v)
               PROVE  Resolved(p, v)'
    OBVIOUS
  <2>1. audit \in Seq(Resolution) /\ DOMAIN audit \subseteq Nat
    BY DEF IInv, TypeOK
  <2>2. audit' = audit \/ \E e \in Resolution : audit' = Append(audit, e)
    <3>1. ASSUME NEW r \in Callers, Record(r)
          PROVE  audit' = audit \/ \E e \in Resolution : audit' = Append(audit, e)
      <4>1. call[r] \in Calls
        BY DEF IInv, TypeOK
      <4> QED
        BY <3>1, <4>1 DEF Record, Resolution, Calls
    <3>2. ASSUME NEW r \in Callers, Resolve(r)
          PROVE  audit' = audit \/ \E e \in Resolution : audit' = Append(audit, e)
      BY <3>1, <3>2 DEF Resolve, Look, Read, Write, WriteRefused
    <3>3. CASE Others \/ Validate \/ DrainDies \/ UNCHANGED vars
      BY <3>3 DEF Others, Validate, DrainDies, vars, ValidatorScan, ValidatorConfirm,
                  ValidatorEnd, Demote, Lose, Win, Archive, Revive, Pin
    <3>4. CASE Draining
      BY <3>2, <3>4 DEF Draining, DrainList, DrainTake, Callers
    <3>5. CASE \E t \in Filings : File(t)
      BY <3>5 DEF File
    <3>6. CASE \E o \in Operators, q \in 1..Len(proposals), act \in Act : Choose(o, q, act)
      BY <3>6 DEF Choose
    <3>7. CASE \E o \in Operators : Resolve(o) \/ OperatorDies(o)
      BY <3>2, <3>7 DEF OperatorDies, Callers
    <3> QED
      BY <3>3, <3>4, <3>5, <3>6, <3>7 DEF Next
  <2>3. PICK i \in DOMAIN audit :
          /\ Counts(i, p) /\ audit[i].verdict = v
          /\ \A j \in DOMAIN audit : Counts(j, p) => i <= j
    BY DEF Resolved, Resolutions, Stands
  <2>4. /\ DOMAIN audit \subseteq DOMAIN audit' /\ DOMAIN audit' \subseteq Nat
        /\ \A j \in DOMAIN audit : audit'[j] = audit[j]
        /\ \A j \in DOMAIN audit' : j \in DOMAIN audit \/ i <= j
    <3>1. CASE audit' = audit
      BY <2>1, <3>1
    <3>2. ASSUME NEW e \in Resolution, audit' = Append(audit, e)
          PROVE  /\ DOMAIN audit \subseteq DOMAIN audit' /\ DOMAIN audit' \subseteq Nat
                 /\ \A j \in DOMAIN audit : audit'[j] = audit[j]
                 /\ \A j \in DOMAIN audit' : j \in DOMAIN audit \/ i <= j
      BY <2>1, <2>3, <3>2, Appended
    <3> QED
      BY <2>2, <3>1, <3>2
  <2>5. \A j \in DOMAIN audit : Counts(j, p)' <=> Counts(j, p)
    BY <2>4 DEF Counts
  <2>6. /\ i \in DOMAIN audit' /\ Counts(i, p)' /\ audit'[i].verdict = v
        /\ \A j \in DOMAIN audit' : Counts(j, p)' => i <= j
    BY <2>3, <2>4, <2>5
  <2> QED
    BY <2>6 DEF Resolved, Resolutions, Stands
<1> QED
  BY <1>1, Invariant, PTL DEF Spec, ResolutionsStand
-----------------------------------------------------------------------------
(* The life cycle *)

\* The claims as the abstract life cycle sees them.  Nothing in this module
\* archives a claim because somebody asked to forget it.
Life == INSTANCE ClaimLifecycle WITH
  status <- [c \in Claims |-> claims[c].status],
  forgotten <- {}

statusBar == [c \in Claims |-> claims[c].status]

LEMMA SameTransitions ==
  ASSUME NEW s, NEW t, CanTransition(s, t)
  PROVE  Life!CanTransition(s, t) /\ t \in Life!Status /\ t \in Status
BY DEF CanTransition, AllowedTransitions, Status, Life!CanTransition, Life!AllowedTransitions,
       Life!Status

\* One claim moves along an allowed transition, or an archived one comes back.
LEMMA OneMoves ==
  ASSUME NEW c \in Claims, NEW to, claims'[c].status = to,
         \A d \in Claims \ {c} : claims'[d].status = claims[d].status,
         \/ CanTransition(claims[c].status, to)
         \/ claims[c].status = "archived" /\ to = "candidate"
  PROVE  Life!Next
<1>1. statusBar' = [statusBar EXCEPT ![c] = to] /\ statusBar[c] = claims[c].status
  BY DEF statusBar
<1>2. CASE CanTransition(claims[c].status, to)
  <2>1. Life!Move(c, to) /\ to \in Life!Status
    BY <1>1, <1>2, SameTransitions DEF Life!Move, statusBar
  <2> QED
    BY <2>1 DEF Life!Next
<1>3. CASE claims[c].status = "archived" /\ to = "candidate"
  <2>1. Life!Revive(c)
    BY <1>1, <1>3 DEF Life!Revive, statusBar
  <2> QED
    BY <2>1 DEF Life!Next
<1> QED
  BY <1>2, <1>3

\* A confirmed claim leaves the slot to the one that takes it.
LEMMA TwoMove ==
  ASSUME NEW old \in Claims, NEW new \in Claims, old # new,
         claims[old].status = "confirmed", claims'[old].status = "superseded",
         CanTransition(claims[new].status, "confirmed"), claims'[new].status = "confirmed",
         \A d \in Claims \ {old, new} : claims'[d].status = claims[d].status
  PROVE  Life!Next
<1>1. /\ statusBar' = [statusBar EXCEPT ![old] = "superseded", ![new] = "confirmed"]
      /\ statusBar[old] = claims[old].status /\ statusBar[new] = claims[new].status
  BY DEF statusBar
<1>2. Life!Handover(old, new)
  BY <1>1, SameTransitions DEF Life!Handover, statusBar
<1> QED
  BY <1>2 DEF Life!Next

LEMMA NoneMoves ==
  ASSUME \A d \in Claims : claims'[d].status = claims[d].status
  PROVE  UNCHANGED Life!vars
BY DEF Life!vars

\* What moving one row, and retiring one for another, do to the statuses.
LEMMA MovedStatus ==
  ASSUME TableTypeOK, NEW c \in Claims, NEW to, NEW repl,
         claims' = [claims EXCEPT ![c] = Moved(@, to, repl)]
  PROVE  /\ claims'[c].status = to
         /\ \A d \in Claims \ {c} : claims'[d].status = claims[d].status
<1>1. Moved(claims[c], to, repl).status = to /\ claims \in [Claims -> Row]
  BY DEF Moved, TableTypeOK
<1> QED
  BY <1>1

LEMMA RetiredStatus ==
  ASSUME TableTypeOK, NEW old \in Claims, NEW new \in Claims, old # new,
         claims' = [claims EXCEPT ![old] = Moved(@, "superseded", new), ![new] = Linked(@, old)]
  PROVE  /\ claims'[old].status = "superseded"
         /\ \A d \in Claims \ {old} : claims'[d].status = claims[d].status
<1>1. /\ Moved(claims[old], "superseded", new).status = "superseded"
      /\ Linked(claims[new], old).status = claims[new].status
      /\ claims \in [Claims -> Row]
  BY DEF Moved, Linked, TableTypeOK
<1> QED
  BY <1>1

\* The write of a resolution: what was checked on the image holds of the row.
LEMMA WriteMoves ==
  ASSUME IInv, NEW r \in Callers, Write(r)
  PROVE  Life!Next
<1> DEFINE j == call[r]
           t == proposals[j.of]
<1>1. /\ CallOK(j) /\ t.target \in Claims /\ t.to \in Status /\ t.other \in Claims \cup {None}
      /\ t.other # t.target /\ (t.to = "superseded" => t.other # None)
  BY WritingCall
<1>2. TableTypeOK /\ j.pc = "write" /\ ApplyTx(j.of, j.img)
  BY DEF IInv, TypeOK, Write
<1>3. Current(t.target, j.img)
  BY <1>2 DEF ApplyTx, MarkSupersededTx, MarkAllowed, TransitionTx
<1>4. CanTransition(claims[t.target].status, t.to)
  BY <1>1, <1>2, <1>3 DEF CallOK
<1>5. CASE t.to = "superseded"
  <2>1. MarkSupersededTx(t.target, j.img, t.other) /\ t.other \in Claims
    BY <1>1, <1>2, <1>5 DEF ApplyTx
  <2>2. /\ claims'[t.target].status = "superseded"
        /\ \A d \in Claims \ {t.target} : claims'[d].status = claims[d].status
    BY <1>1, <1>2, <2>1, RetiredStatus DEF MarkSupersededTx
  <2> QED
    BY <1>1, <1>4, <1>5, <2>2, OneMoves
<1>6. CASE t.to # "superseded"
  <2>1. TransitionTx(t.target, j.img, t.to, "ordinary", t.other)
    BY <1>2, <1>6 DEF ApplyTx
  <2>2. /\ claims'[t.target].status = t.to
        /\ \A d \in Claims \ {t.target} : claims'[d].status = claims[d].status
    BY <1>1, <1>2, <2>1, MovedStatus DEF TransitionTx
  <2> QED
    BY <1>1, <1>4, <2>2, OneMoves
<1> QED
  BY <1>5, <1>6

\* The validator, and everybody else who writes the claims.
LEMMA OthersMove ==
  ASSUME TableTypeOK, Others \/ \E c \in Claims : ValidatorConfirm(c)
  PROVE  Life!Next \/ UNCHANGED Life!vars
<1> DEFINE Good == Life!Next \/ UNCHANGED Life!vars
<1>1. ASSUME NEW c \in Claims, ValidatorConfirm(c) PROVE Good
  <2>1. /\ claims' = [claims EXCEPT ![c] = Moved(@, "confirmed", ImageOf(c).replacedBy)]
        /\ CanTransition(claims[c].status, "confirmed")
    BY <1>1 DEF ValidatorConfirm, ConfirmTx
  <2> QED
    BY <2>1, MovedStatus, OneMoves
<1>2. ASSUME NEW c \in Claims, NEW to \in {"stale", "conflicted"}, Demote(c, to) PROVE Good
  <2>1. /\ claims' = [claims EXCEPT ![c] = Moved(@, to, ImageOf(c).replacedBy)]
        /\ CanTransition(claims[c].status, to)
    BY <1>2 DEF Demote, TransitionTx
  <2> QED
    BY <2>1, MovedStatus, OneMoves
<1>3. ASSUME NEW c \in Claims, NEW d \in Claims, Lose(c, d) PROVE Good
  <2>1. /\ claims'[c].status = "superseded"
        /\ \A e \in Claims \ {c} : claims'[e].status = claims[e].status
    BY <1>3, RetiredStatus DEF Lose, SupersedeClaimTx
  <2>2. CanTransition(claims[c].status, "superseded")
    BY <1>3 DEF Lose, SupersedeClaimTx, SupersedeAllowed
  <2> QED
    BY <2>1, <2>2, OneMoves
<1>4. ASSUME NEW c \in Claims, NEW d \in Claims, Win(c, d) PROVE Good
  <2> DEFINE next == Linked(Moved(claims[c], "confirmed", ImageOf(c).replacedBy), d)
             row == Moved(claims[d], "superseded", c)
  <2>1. Predecessor(ImageOf(c), d) = d /\ c # d
    BY <1>4, ClaimTableAssumption DEF Predecessor, Win
  <2>2. claims' = [claims EXCEPT ![d] = row, ![c] = next] /\ claims \in [Claims -> Row]
    BY <1>4, <2>1 DEF Win, HandoverTx, TableTypeOK
  <2>3. next.status = "confirmed" /\ row.status = "superseded"
    BY DEF Moved, Linked
  <2>4. claims[d].status = "confirmed" /\ CanTransition(claims[c].status, "confirmed")
    BY <1>4, <2>1 DEF Win, HandoverTx, IsTuplePredecessor, CanTransition, AllowedTransitions, Status
  <2> HIDE DEF next, row
  <2>5. /\ claims'[d].status = "superseded" /\ claims'[c].status = "confirmed"
        /\ \A e \in Claims \ {d, c} : claims'[e].status = claims[e].status
    BY <2>1, <2>2, <2>3
  <2> QED
    BY <2>1, <2>4, <2>5, TwoMove
<1>5. ASSUME NEW c \in Claims, Archive(c) PROVE Good
  <2>1. /\ claims' = [claims EXCEPT ![c] = Moved(@, "archived", claims[c].replacedBy)]
        /\ CanTransition(claims[c].status, "archived")
    BY <1>5 DEF Archive, CompactTx, TableTypeOK
  <2> QED
    BY <2>1, MovedStatus, OneMoves
<1>6. ASSUME NEW c \in Claims, Revive(c) PROVE Good
  <2>1. /\ claims' = [claims EXCEPT ![c] = Moved(@, "candidate", ImageOf(c).replacedBy)]
        /\ claims[c].status = "archived"
    BY <1>6 DEF Revive, ReviveTx
  <2> QED
    BY <2>1, MovedStatus, OneMoves
<1>7. ASSUME NEW c \in Claims, NEW b \in BOOLEAN, Pin(c, b) PROVE Good
  <2>1. claims' = [claims EXCEPT ![c].pinned = b] /\ claims \in [Claims -> Row]
    BY <1>7 DEF Pin, SetPinnedTx, TableTypeOK
  <2>2. \A d \in Claims : claims'[d].status = claims[d].status
    BY <2>1 DEF Row
  <2> QED
    BY <2>2, NoneMoves
<1> HIDE DEF Good
<1>8. Good
  BY <1>1, <1>2, <1>3, <1>4, <1>5, <1>6, <1>7 DEF Others
<1> QED
  BY <1>8 DEF Good

\* A claim whose status was checked long before it is written, by a drain, an
\* operator, a validator or anybody else, moves along the life cycle all the
\* same: every step is a step of the abstract specification the claim store
\* implements, or leaves the statuses alone (transition_claim checks the
\* transition on the row it read, apply_status_transition the version).
THEOREM StaysInLifecycle == Spec => [][Life!Next]_(Life!vars)
<1>1. ASSUME IInv, [Next]_vars
      PROVE  [Life!Next]_(Life!vars)
  <2> DEFINE Good == Life!Next \/ UNCHANGED Life!vars
  <2>1. ASSUME UNCHANGED claims PROVE Good
    BY <2>1, NoneMoves
  <2>2. TableTypeOK
    BY <1>1 DEF IInv, TypeOK
  <2>3. ASSUME NEW r \in Callers, Resolve(r) PROVE Good
    <3>1. CASE Write(r)
      BY <1>1, <3>1, WriteMoves
    <3>2. CASE Look(r) \/ Read(r) \/ WriteRefused(r) \/ Record(r)
      BY <2>1, <3>2 DEF Look, Read, WriteRefused, Record
    <3> QED
      BY <2>3, <3>1, <3>2 DEF Resolve
  <2>4. ASSUME Others \/ \E c \in Claims : ValidatorConfirm(c) PROVE Good
    BY <2>2, <2>4, OthersMove
  <2> HIDE DEF Good
  <2>5. ASSUME \E t \in Filings : File(t) PROVE Good
    BY <2>1, <2>5 DEF File
  <2>6. ASSUME \E o \in Operators, p \in 1..Len(proposals), act \in Act : Choose(o, p, act)
        PROVE  Good
    BY <2>1, <2>6 DEF Choose
  <2>7. ASSUME \E o \in Operators : Resolve(o) \/ OperatorDies(o) PROVE Good
    BY <2>1, <2>3, <2>7 DEF OperatorDies, Callers
  <2>8. ASSUME Draining PROVE Good
    BY <2>1, <2>3, <2>8 DEF Draining, DrainList, DrainTake, Callers
  <2>9. ASSUME DrainDies PROVE Good
    BY <2>1, <2>9 DEF DrainDies
  <2>10. ASSUME Validate PROVE Good
    BY <2>1, <2>4, <2>10 DEF Validate, ValidatorScan, ValidatorEnd
  <2>11. ASSUME UNCHANGED vars PROVE Good
    BY <2>1, <2>11 DEF vars
  <2>12. Good
    BY <1>1, <2>4, <2>5, <2>6, <2>7, <2>8, <2>9, <2>10, <2>11 DEF Next
  <2> QED
    BY <2>12 DEF Good
<1> QED
  BY <1>1, Invariant, PTL DEF Spec
=============================================================================

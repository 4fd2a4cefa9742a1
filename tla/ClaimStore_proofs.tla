--------------------------- MODULE ClaimStore_proofs ---------------------------
(***************************************************************************)
(* Proofs about ClaimStore, for every set of claims and processes, every   *)
(* assignment of tuples and contents, and every version bound.             *)
(*                                                                         *)
(* The argument is the one optimistic locking rests on.  RowStep says what *)
(* any transaction does to any row: the version never decreases, a row     *)
(* whose version did not change kept its status and its replacement link,  *)
(* rows are never removed and links never erased.  From it follows that    *)
(* the images pending calls hold stay truthful (CallOK), hence that a      *)
(* write which passes the version guard starts from the status it was      *)
(* decided on; the safety properties and the refinement follow.            *)
(***************************************************************************)
EXTENDS ClaimStore, TLAPS

\* What one transaction may do to one row.
RowStep(row, next) ==
  /\ next.version >= row.version
  /\ next.version = row.version /\ row.status # Absent =>
       next.status = row.status /\ next.replacedBy = row.replacedBy
  /\ row.status # Absent => next.status # Absent
  /\ row.replacedBy # None => next.replacedBy # None

\* What is known of a pending call: the checks made when it was loaded hold
\* of its image, and the image is exact while the version has not moved.
CallOK(j) ==
  /\ j.img.version <= claims[j.claim].version
  /\ j.op # "ingest" =>
       /\ Exists(j.claim)
       /\ Current(j.claim, j.img) => /\ claims[j.claim].status = j.img.status
                                     /\ claims[j.claim].replacedBy = j.img.replacedBy
  /\ j.other # None => j.other # j.claim /\ Exists(j.other)
  /\ j.op = "transition" => /\ CanTransition(j.img.status, j.to)
                            /\ j.to = "superseded" => j.other # None
                            /\ j.why = "forget" => j.to = "archived"
  /\ j.op = "supersede" => /\ CanTransition(j.img.status, "superseded")
                           /\ j.other # None
  /\ j.op = "revive" => j.img.status = "archived"

CallsOK == \A p \in Procs : job[p] # Idle => CallOK(job[p])

\* The inductive invariant.
IInv ==
  /\ TypeOK
  /\ CallsOK
  /\ LogAgrees
  /\ ForgottenStaysArchived
  /\ SupersededHasSuccessor
  /\ BackLinkBacked
-----------------------------------------------------------------------------
(* Operators *)

\* A moved row is a row, with the status, link and version it was given.
LEMMA MovedRow ==
  ASSUME NEW row \in Row, NEW to \in Status, NEW repl \in Claims \cup {None}
  PROVE  /\ Moved(row, to, repl) \in Row
         /\ Moved(row, to, repl).status = to
         /\ Moved(row, to, repl).replacedBy = repl
         /\ Moved(row, to, repl).version = row.version + 1
         /\ Moved(row, to, repl).supersedes = row.supersedes
BY DEF Moved, Row

\* A linked row is a row that differs in its back link only.
LEMMA LinkedRow ==
  ASSUME NEW row \in Row, NEW old \in Claims
  PROVE  /\ Linked(row, old) \in Row
         /\ Linked(row, old).status = row.status
         /\ Linked(row, old).replacedBy = row.replacedBy
         /\ Linked(row, old).version = row.version
         /\ Linked(row, old).supersedes = old
BY DEF Linked, Row

\* A log entry stays a log entry, and only an archival changes its reason.
LEMMA LoggedEntry ==
  ASSUME NEW e \in LogEntry, NEW to \in Status, NEW why \in {"ordinary", "forget"}
  PROVE  /\ Logged(e, to, why) \in LogEntry
         /\ Logged(e, to, why).to = to
         /\ to # "archived" => Logged(e, to, why).archive = e.archive
         /\ to = "archived" => Logged(e, to, why).archive = why
BY DEF Logged, LogEntry, ArchiveReason

\* What can_transition allows, and that "absent" has no way out or in.
LEMMA Transitions ==
  ASSUME NEW s, NEW t, CanTransition(s, t)
  PROVE  /\ s \in Status /\ t \in Status /\ s # t /\ s # Absent /\ t # Absent
         /\ s # "archived"
         /\ s = "superseded" => t = "archived"
         /\ t # "candidate"
BY DEF CanTransition, AllowedTransitions, Status, Absent

\* Every status but "archived" may be archived.
LEMMA Archivable ==
  ASSUME NEW s \in Status, s # "archived"
  PROVE  CanTransition(s, "archived")
BY DEF CanTransition, AllowedTransitions, Status

LEMMA AbsentIsNoStatus == Absent \notin Status
BY DEF Absent, Status
-----------------------------------------------------------------------------
(* The shapes a write can have *)

\* Claim c is moved to a status, its link kept or set, its event appended.
Write(c, to, repl, why) ==
  /\ Exists(c)
  /\ \/ CanTransition(claims[c].status, to)
     \/ claims[c].status = "archived" /\ to = "candidate" /\ log[c].archive # "forget"
  /\ claims[c].replacedBy # None => repl # None
  /\ to = "superseded" => repl # None /\ Exists(repl)
  /\ why = "forget" => to = "archived"
  /\ claims' = [claims EXCEPT ![c] = Moved(@, to, repl)]
  /\ log' = [log EXCEPT ![c] = Logged(@, to, why)]

\* Claim old is retired in favour of new, which is linked back.
Retire(old, new) ==
  /\ old # new /\ Exists(new)
  /\ CanTransition(claims[old].status, "superseded")
  /\ claims' = [claims EXCEPT ![old] = Moved(@, "superseded", new),
                              ![new] = Linked(@, old)]
  /\ log' = [log EXCEPT ![old] = Logged(@, "superseded", "ordinary")]

\* Claim new takes the slot of the confirmed claim old.
HandOver(old, new) ==
  /\ old # new
  /\ claims[old].status = "confirmed"
  /\ CanTransition(claims[new].status, "confirmed")
  /\ claims[new].replacedBy = None
  /\ claims' = [claims EXCEPT ![old] = Moved(@, "superseded", new),
                              ![new] = Linked(Moved(@, "confirmed", None), old)]
  /\ log' = [log EXCEPT ![old] = Logged(@, "superseded", "ordinary"),
                        ![new] = Logged(@, "confirmed", "ordinary")]

Shape ==
  \/ \E c \in Claims, to \in Status, repl \in Claims \cup {None}, why \in {"ordinary", "forget"} :
       Write(c, to, repl, why)
  \/ \E old, new \in Claims : Retire(old, new) \/ HandOver(old, new)
  \/ \E c \in Claims : InsertTx(c)
  \/ \E c \in Claims, b \in BOOLEAN : SetPinnedTx(c, b)
  \/ UNCHANGED tableVars

\* The pending call of a process that is about to commit.
LEMMA PendingCall ==
  ASSUME IInv, NEW p \in Procs, job[p].op \in Op
  PROVE  /\ job[p] \in Calls /\ CallOK(job[p])
         /\ job[p].claim \in Claims /\ job[p].to \in Status
         /\ job[p].why \in {"ordinary", "forget"} /\ job[p].other \in Claims \cup {None}
         /\ job[p].img \in Image
<1>1. job[p] # Idle
  BY DEF Idle, Op
<1>2. job[p] \in Calls
  BY <1>1 DEF IInv, TypeOK
<1> QED
  BY <1>1, <1>2 DEF IInv, CallsOK, Calls

\* A committing call whose image is current writes from the status it read.
LEMMA CommitShape ==
  ASSUME IInv, NEW p \in Procs, Commit(p)
  PROVE  Shape
<1> DEFINE j == job[p]
<1>1. CASE CommitTransition(p)
  <2>1. j.op = "transition" /\ j.op \in Op
    BY <1>1 DEF CommitTransition, Op
  <2>2. CallOK(j) /\ j.claim \in Claims /\ j.to \in Status /\ j.why \in {"ordinary", "forget"}
        /\ j.other \in Claims \cup {None} /\ j.img \in Image
    BY <2>1, PendingCall
  <2> DEFINE repl == IF j.other # None THEN j.other ELSE j.img.replacedBy
  <2>3. repl \in Claims \cup {None}
    BY <2>2 DEF Image
  <2>4. Current(j.claim, j.img)
    BY <1>1 DEF CommitTransition, TransitionTx
  <2>5. Write(j.claim, j.to, repl, j.why)
    BY <1>1, <2>1, <2>2, <2>4 DEF CommitTransition, TransitionTx, CallOK, Write
  <2> QED
    BY <2>2, <2>3, <2>5 DEF Shape
<1>2. CASE CommitConfirm(p)
  <2>1. j.op = "transition" /\ j.op \in Op /\ j.to = "confirmed" /\ "confirmed" \in Status
    BY <1>2 DEF CommitConfirm, Op, Status
  <2>2. CallOK(j) /\ j.claim \in Claims /\ j.img \in Image
    BY <2>1, PendingCall
  <2>3. j.img.replacedBy \in Claims \cup {None}
    BY <2>2 DEF Image
  <2>4. Current(j.claim, j.img)
    BY <1>2 DEF CommitConfirm, ConfirmTx
  <2>5. Write(j.claim, "confirmed", j.img.replacedBy, "ordinary")
    BY <1>2, <2>1, <2>2, <2>4 DEF CommitConfirm, ConfirmTx, CallOK, Write
  <2> QED
    BY <2>1, <2>2, <2>3, <2>5 DEF Shape
<1>3. CASE CommitHandover(p)
  <2>1. j.op = "transition" /\ j.op \in Op /\ j.to = "confirmed"
    BY <1>3 DEF CommitHandover, Op
  <2>2. CallOK(j) /\ j.claim \in Claims /\ j.img \in Image /\ j.other \in Claims \cup {None}
    BY <2>1, PendingCall
  <2> DEFINE pred == Predecessor(j.img, j.other)
  <2>3. pred \in Claims
    BY <1>3, <2>2 DEF CommitHandover, HandoverTx, Predecessor, Image
  <2>4. /\ Current(j.claim, j.img)
        /\ IsTuplePredecessor(j.claim, j.img, pred)
        /\ claims[j.claim].status = j.img.status
        /\ claims[j.claim].replacedBy = j.img.replacedBy
    BY <1>3, <2>1, <2>2 DEF CommitHandover, HandoverTx, CallOK
  <2>5. CanTransition(j.img.status, "confirmed")
    BY <2>1, <2>2 DEF CallOK
  <2>6. pred # j.claim
    BY <2>4, <2>5, Transitions DEF IsTuplePredecessor
  <2>7. HandOver(pred, j.claim)
    BY <1>3, <2>4, <2>5, <2>6 DEF CommitHandover, HandoverTx, HandOver, IsTuplePredecessor
  <2> QED
    BY <2>2, <2>3, <2>7 DEF Shape
<1>4. CASE CommitSupersede(p)
  <2>1. j.op = "supersede" /\ j.op \in Op
    BY <1>4 DEF CommitSupersede, Op
  <2>2. CallOK(j) /\ j.claim \in Claims /\ j.other \in Claims /\ j.other # j.claim
    BY <2>1, PendingCall DEF CallOK
  <2>3. Retire(j.claim, j.other)
    BY <1>4, <2>1, <2>2 DEF CommitSupersede, MarkSupersededTx, MarkAllowed, CallOK, Retire
  <2> QED
    BY <2>2, <2>3 DEF Shape
<1>5. CASE CommitRevive(p)
  <2>1. j.op = "revive" /\ j.op \in Op /\ "candidate" \in Status
    BY <1>5 DEF CommitRevive, Op, Status
  <2>2. CallOK(j) /\ j.claim \in Claims /\ j.img \in Image
    BY <2>1, PendingCall
  <2>3. j.img.replacedBy \in Claims \cup {None}
    BY <2>2 DEF Image
  <2>4. Write(j.claim, "candidate", j.img.replacedBy, "ordinary")
    BY <1>5, <2>1, <2>2 DEF CommitRevive, ReviveTx, CallOK, Write
  <2> QED
    BY <2>1, <2>2, <2>3, <2>4 DEF Shape
<1>6. CASE CommitIngest(p)
  <2>1. j.op = "ingest" /\ j.op \in Op
    BY <1>6 DEF CommitIngest, Op
  <2>2. j.claim \in Claims
    BY <2>1, PendingCall
  <2> QED
    BY <1>6, <2>2 DEF CommitIngest, Shape
<1> QED
  BY <1>1, <1>2, <1>3, <1>4, <1>5, <1>6 DEF Commit

\* Every step of the specification is one of the shapes.
LEMMA StepShape ==
  ASSUME IInv, [Next]_vars
  PROVE  Shape
<1>1. CASE UNCHANGED vars
  BY <1>1 DEF vars, Shape, tableVars
<1>2. ASSUME NEW p \in Procs, Load(p)
      PROVE  UNCHANGED tableVars
  BY <1>2 DEF Load, LoadTransition, LoadArchiveBySource, LoadForget, LoadArchive,
              LoadRevive, LoadIngest, LoadSupersede, Begin
<1>3. ASSUME NEW p \in Procs, Abandon(p)
      PROVE  UNCHANGED tableVars
  BY <1>3 DEF Abandon
<1>4. ASSUME NEW old \in Claims, NEW new \in Claims, Supersede(old, new)
      PROVE  Retire(old, new)
  BY <1>4 DEF Supersede, SupersedeClaimTx, SupersedeAllowed, Retire
<1>5. ASSUME NEW c \in Claims, Compact(c)
      PROVE  Write(c, "archived", claims[c].replacedBy, "ordinary")
  BY <1>5, Transitions DEF Compact, CompactTx, Write, Exists, Moved
<1>6. "archived" \in Status /\ \A c \in Claims : claims[c].replacedBy \in Claims \cup {None}
  BY DEF Status, IInv, TypeOK, TableTypeOK, Row
<1>7. ASSUME NEW c \in Claims, NEW b \in BOOLEAN, SetPinned(c, b)
      PROVE  SetPinnedTx(c, b)
  BY <1>7 DEF SetPinned
<1> QED
  BY <1>1, <1>2, <1>3, <1>4, <1>5, <1>6, <1>7, CommitShape DEF Next, Shape
-----------------------------------------------------------------------------
(* What every shape preserves *)

\* A move that does not erase the link advances the row.
LEMMA MovedStep ==
  ASSUME NEW row \in Row, NEW to \in Status, NEW repl \in Claims \cup {None},
         row.replacedBy # None => repl # None
  PROVE  RowStep(row, Moved(row, to, repl))
<1>1. row.version \in Nat
  BY DEF Row
<1>2. to # Absent
  BY AbsentIsNoStatus
<1> QED
  BY <1>1, <1>2 DEF Moved, RowStep

\* Setting the back link afterwards makes no difference to that.
LEMMA LinkedStep ==
  ASSUME NEW row \in Row, NEW next \in Row, NEW old \in Claims, RowStep(row, next)
  PROVE  RowStep(row, Linked(next, old))
BY LinkedRow DEF RowStep

\* Rows that are not touched advance.
LEMMA SameStep ==
  ASSUME NEW row \in Row
  PROVE  RowStep(row, row)
<1>1. row.version \in Nat
  BY DEF Row
<1> QED
  BY <1>1 DEF RowStep

\* The table after old is retired for new, row by row.
LEMMA RetireRows ==
  ASSUME TableTypeOK, NEW old \in Claims, NEW new \in Claims, Retire(old, new)
  PROVE  /\ TableTypeOK'
         /\ claims'[old] = Moved(claims[old], "superseded", new)
         /\ claims'[new] = Linked(claims[new], old)
         /\ log'[old] = Logged(log[old], "superseded", "ordinary") /\ log'[new] = log[new]
         /\ \A d \in Claims \ {old, new} : claims'[d] = claims[d] /\ log'[d] = log[d]
<1>1. /\ claims \in [Claims -> Row] /\ log \in [Claims -> LogEntry] /\ old # new
      /\ "superseded" \in Status /\ "ordinary" \in {"ordinary", "forget"}
  BY DEF TableTypeOK, Retire, Status
<1> DEFINE row == Moved(claims[old], "superseded", new)
           back == Linked(claims[new], old)
           entry == Logged(log[old], "superseded", "ordinary")
<1>2. row \in Row /\ back \in Row /\ entry \in LogEntry
  BY <1>1, MovedRow, LinkedRow, LoggedEntry
<1>3. /\ claims' = [claims EXCEPT ![old] = row, ![new] = back]
      /\ log' = [log EXCEPT ![old] = entry]
  BY <1>1 DEF Retire
<1> HIDE DEF row, back, entry
<1>4. /\ claims' \in [Claims -> Row] /\ claims'[old] = row /\ claims'[new] = back
      /\ \A d \in Claims \ {old, new} : claims'[d] = claims[d]
  BY <1>1, <1>2, <1>3
<1>5. /\ log' \in [Claims -> LogEntry] /\ log'[old] = entry
      /\ \A d \in Claims \ {old} : log'[d] = log[d]
  BY <1>1, <1>2, <1>3
<1> QED
  BY <1>1, <1>4, <1>5 DEF TableTypeOK, row, back, entry

\* The table after new has taken the slot of old, row by row.
LEMMA HandOverRows ==
  ASSUME TableTypeOK, NEW old \in Claims, NEW new \in Claims, HandOver(old, new)
  PROVE  /\ TableTypeOK'
         /\ claims'[old] = Moved(claims[old], "superseded", new)
         /\ claims'[new] = Linked(Moved(claims[new], "confirmed", None), old)
         /\ log'[old] = Logged(log[old], "superseded", "ordinary")
         /\ log'[new] = Logged(log[new], "confirmed", "ordinary")
         /\ \A d \in Claims \ {old, new} : claims'[d] = claims[d] /\ log'[d] = log[d]
<1>1. /\ claims \in [Claims -> Row] /\ log \in [Claims -> LogEntry] /\ old # new
      /\ {"superseded", "confirmed"} \subseteq Status /\ "ordinary" \in {"ordinary", "forget"}
  BY DEF TableTypeOK, HandOver, Status
<1> DEFINE row == Moved(claims[old], "superseded", new)
           mid == Moved(claims[new], "confirmed", None)
           next == Linked(Moved(claims[new], "confirmed", None), old)
           out == Logged(log[old], "superseded", "ordinary")
           in == Logged(log[new], "confirmed", "ordinary")
<1>2. row \in Row /\ mid \in Row /\ out \in LogEntry /\ in \in LogEntry
  BY <1>1, MovedRow, LoggedEntry
<1>3. next \in Row
  BY <1>2, LinkedRow
<1>4. claims' = [claims EXCEPT ![old] = row, ![new] = next]
  BY <1>1 DEF HandOver
<1>5. log' = [log EXCEPT ![old] = out, ![new] = in]
  BY <1>1 DEF HandOver
<1> HIDE DEF row, next, out, in
<1>6. /\ claims' \in [Claims -> Row] /\ claims'[old] = row /\ claims'[new] = next
      /\ \A d \in Claims \ {old, new} : claims'[d] = claims[d]
  BY <1>1, <1>2, <1>3, <1>4
<1>7. /\ log' \in [Claims -> LogEntry] /\ log'[old] = out /\ log'[new] = in
      /\ \A d \in Claims \ {old, new} : log'[d] = log[d]
  BY <1>1, <1>2, <1>5
<1> QED
  BY <1>6, <1>7 DEF TableTypeOK, row, next, out, in

\* A shape keeps the table well typed and advances every row.
LEMMA ShapeRows ==
  ASSUME IInv, Shape
  PROVE  TableTypeOK' /\ \A d \in Claims : RowStep(claims[d], claims'[d])
<1>0. /\ claims \in [Claims -> Row] /\ log \in [Claims -> LogEntry] /\ TableTypeOK
      /\ \A d \in Claims : claims[d].version \in Nat
  BY DEF IInv, TypeOK, TableTypeOK, Row
<1>1. ASSUME NEW c \in Claims, NEW to \in Status, NEW repl \in Claims \cup {None},
             NEW why \in {"ordinary", "forget"}, Write(c, to, repl, why)
      PROVE  TableTypeOK' /\ \A d \in Claims : RowStep(claims[d], claims'[d])
  <2>1. TableTypeOK'
    BY <1>0, <1>1, MovedRow, LoggedEntry DEF Write, TableTypeOK
  <2>2. RowStep(claims[c], claims'[c])
    BY <1>0, <1>1, MovedRow, AbsentIsNoStatus DEF Write, RowStep
  <2>3. \A d \in Claims \ {c} : RowStep(claims[d], claims'[d])
    BY <1>0, <1>1 DEF Write, RowStep
  <2> QED
    BY <2>1, <2>2, <2>3
<1>2. ASSUME NEW old \in Claims, NEW new \in Claims, Retire(old, new)
      PROVE  TableTypeOK' /\ \A d \in Claims : RowStep(claims[d], claims'[d])
  <2>1. "superseded" \in Status /\ new # None
    BY ClaimTableAssumption DEF Status
  <2>2. /\ TableTypeOK'
        /\ claims'[old] = Moved(claims[old], "superseded", new)
        /\ claims'[new] = Linked(claims[new], old)
        /\ \A d \in Claims \ {old, new} : claims'[d] = claims[d]
    BY <1>0, <1>2, RetireRows
  <2>3. RowStep(claims[old], claims'[old])
    BY <1>0, <2>1, <2>2, MovedStep
  <2>4. RowStep(claims[new], claims'[new])
    BY <1>0, <2>2, LinkedStep, SameStep
  <2>5. \A d \in Claims \ {old, new} : RowStep(claims[d], claims'[d])
    BY <1>0, <2>2, SameStep
  <2> QED
    BY <2>2, <2>3, <2>4, <2>5
<1>3. ASSUME NEW old \in Claims, NEW new \in Claims, HandOver(old, new)
      PROVE  TableTypeOK' /\ \A d \in Claims : RowStep(claims[d], claims'[d])
  <2>1. {"superseded", "confirmed"} \subseteq Status /\ new # None /\ claims[new].replacedBy = None
    BY <1>3, ClaimTableAssumption DEF Status, HandOver
  <2>2. /\ TableTypeOK'
        /\ claims'[old] = Moved(claims[old], "superseded", new)
        /\ claims'[new] = Linked(Moved(claims[new], "confirmed", None), old)
        /\ \A d \in Claims \ {old, new} : claims'[d] = claims[d]
    BY <1>0, <1>3, HandOverRows
  <2>3. RowStep(claims[old], claims'[old])
    BY <1>0, <2>1, <2>2, MovedStep
  <2>4. /\ Moved(claims[new], "confirmed", None) \in Row
        /\ RowStep(claims[new], Moved(claims[new], "confirmed", None))
    BY <1>0, <2>1, MovedRow, MovedStep
  <2>5. RowStep(claims[new], claims'[new])
    BY <1>0, <2>2, <2>4, LinkedStep
  <2>6. \A d \in Claims \ {old, new} : RowStep(claims[d], claims'[d])
    BY <1>0, <2>2, SameStep
  <2> QED
    BY <2>2, <2>3, <2>5, <2>6
<1>4. ASSUME NEW c \in Claims, InsertTx(c)
      PROVE  TableTypeOK' /\ \A d \in Claims : RowStep(claims[d], claims'[d])
  <2>1. [claims[c] EXCEPT !.status = "candidate"] \in Row
    BY <1>0 DEF Row, Status
  <2>2. Logged(log[c], "candidate", "ordinary") \in LogEntry
    BY <1>0, LoggedEntry DEF Status
  <2>3. TableTypeOK'
    BY <1>0, <1>4, <2>1, <2>2 DEF InsertTx, TableTypeOK
  <2>4. \A d \in Claims : RowStep(claims[d], claims'[d])
    BY <1>0, <1>4 DEF InsertTx, RowStep, Exists, Row, Absent, Status
  <2> QED
    BY <2>3, <2>4
<1>5. ASSUME NEW c \in Claims, NEW b \in BOOLEAN, SetPinnedTx(c, b)
      PROVE  TableTypeOK' /\ \A d \in Claims : RowStep(claims[d], claims'[d])
  <2>1. [claims[c] EXCEPT !.pinned = b] \in Row
    BY <1>0 DEF Row
  <2>2. TableTypeOK'
    BY <1>0, <1>5, <2>1 DEF SetPinnedTx, TableTypeOK
  <2>3. \A d \in Claims : RowStep(claims[d], claims'[d])
    BY <1>0, <1>5 DEF SetPinnedTx, RowStep, Row
  <2> QED
    BY <2>2, <2>3
<1>6. CASE UNCHANGED tableVars
  BY <1>0, <1>6 DEF tableVars, TableTypeOK, RowStep
<1> QED
  BY <1>1, <1>2, <1>3, <1>4, <1>5, <1>6 DEF Shape

\* What Retire and HandOver have in common: old is retired for new.
Succession(old, new) ==
  /\ old # new
  /\ CanTransition(claims[old].status, "superseded")
  /\ claims'[old].status = "superseded"
  /\ claims'[old].replacedBy = new
  /\ claims'[old].supersedes = claims[old].supersedes
  /\ log'[old] = Logged(log[old], "superseded", "ordinary")
  /\ claims'[new].supersedes = old
  /\ claims'[new].status # Absent
  /\ claims'[new].status = "superseded" =>
       claims[new].status = "superseded" /\ claims'[new].replacedBy = claims[new].replacedBy
  /\ claims'[new].status = claims[new].status \/ claims[new].status # "archived"
  /\ log'[new].to = claims'[new].status
  /\ log'[new].archive = log[new].archive
  /\ \A d \in Claims \ {old, new} : claims'[d] = claims[d] /\ log'[d] = log[d]

\* A shape logs what it writes, keeps forgotten claims archived, and leaves
\* no retired claim or back link without its counterpart.
LEMMA ShapeSafe ==
  ASSUME IInv, Shape
  PROVE  (LogAgrees /\ ForgottenStaysArchived /\ SupersededHasSuccessor /\ BackLinkBacked)'
<1>0. /\ claims \in [Claims -> Row] /\ log \in [Claims -> LogEntry] /\ TableTypeOK
      /\ LogAgrees /\ ForgottenStaysArchived /\ SupersededHasSuccessor /\ BackLinkBacked
      /\ \A d \in Claims : claims[d].supersedes \in Claims \cup {None}
  BY DEF IInv, TypeOK, TableTypeOK, Row
<1>r. \A d \in Claims : RowStep(claims[d], claims'[d])
  BY ShapeRows
<1>1. ASSUME NEW c \in Claims, NEW to \in Status, NEW repl \in Claims \cup {None},
             NEW why \in {"ordinary", "forget"}, Write(c, to, repl, why)
      PROVE  (LogAgrees /\ ForgottenStaysArchived /\ SupersededHasSuccessor /\ BackLinkBacked)'
  <2>1. /\ claims'[c] = Moved(claims[c], to, repl) /\ log'[c] = Logged(log[c], to, why)
        /\ \A d \in Claims \ {c} : claims'[d] = claims[d] /\ log'[d] = log[d]
        /\ claims'[c].status = to /\ claims'[c].replacedBy = repl
        /\ claims'[c].supersedes = claims[c].supersedes
        /\ log'[c].to = to
        /\ to # "archived" => log'[c].archive = log[c].archive
    BY <1>0, <1>1, MovedRow, LoggedEntry DEF Write
  <2>2. LogAgrees'
    BY <1>0, <2>1 DEF LogAgrees
  <2>3. ForgottenStaysArchived'
    BY <1>0, <1>1, <2>1, Transitions DEF ForgottenStaysArchived, Write
  <2>4. SupersededHasSuccessor'
    BY <1>0, <1>1, <1>r, <2>1 DEF SupersededHasSuccessor, Write, RowStep, Exists
  <2>5. BackLinkBacked'
    BY <1>0, <1>r, <2>1 DEF BackLinkBacked, RowStep
  <2> QED
    BY <2>2, <2>3, <2>4, <2>5
<1>2. ASSUME NEW old \in Claims, NEW new \in Claims, Succession(old, new)
      PROVE  (LogAgrees /\ ForgottenStaysArchived /\ SupersededHasSuccessor /\ BackLinkBacked)'
  <2>1. log'[old].to = "superseded" /\ log'[old].archive = log[old].archive
    BY <1>0, <1>2, LoggedEntry DEF Succession, Status
  <2>2. LogAgrees'
    BY <1>0, <1>2, <2>1 DEF Succession, LogAgrees
  <2>3. ForgottenStaysArchived'
    BY <1>0, <1>2, <2>1, Transitions DEF Succession, ForgottenStaysArchived
  <2>4. SupersededHasSuccessor'
    BY <1>0, <1>2, <1>r DEF Succession, SupersededHasSuccessor, RowStep, Exists
  <2>5. BackLinkBacked'
    <3>1. \A d \in Claims : claims[d].replacedBy # None => claims'[d].replacedBy # None
      BY <1>r DEF RowStep
    <3>2. /\ claims'[old].replacedBy # None /\ claims'[new].supersedes = old
          /\ \A d \in Claims \ {new} : claims'[d].supersedes = claims[d].supersedes
      BY <1>2, ClaimTableAssumption DEF Succession
    <3>3. \A d \in Claims :
            claims[d].supersedes # None =>
              claims[d].supersedes \in Claims /\ claims[claims[d].supersedes].replacedBy # None
      BY <1>0 DEF BackLinkBacked
    <3> QED
      BY <3>1, <3>2, <3>3 DEF BackLinkBacked
  <2> QED
    BY <2>2, <2>3, <2>4, <2>5
<1>3. ASSUME NEW old \in Claims, NEW new \in Claims, Retire(old, new)
      PROVE  (LogAgrees /\ ForgottenStaysArchived /\ SupersededHasSuccessor /\ BackLinkBacked)'
  <2>1. "superseded" \in Status
    BY DEF Status
  <2>2. /\ claims'[old] = Moved(claims[old], "superseded", new)
        /\ claims'[new] = Linked(claims[new], old)
        /\ log'[old] = Logged(log[old], "superseded", "ordinary") /\ log'[new] = log[new]
        /\ \A d \in Claims \ {old, new} : claims'[d] = claims[d] /\ log'[d] = log[d]
    BY <1>0, <1>3, RetireRows
  <2>3. /\ claims'[old].status = "superseded" /\ claims'[old].replacedBy = new
        /\ claims'[old].supersedes = claims[old].supersedes
        /\ claims'[new].supersedes = old /\ claims'[new].status = claims[new].status
        /\ claims'[new].replacedBy = claims[new].replacedBy
    BY <1>0, <2>1, <2>2, MovedRow, LinkedRow
  <2>4. /\ old # new /\ CanTransition(claims[old].status, "superseded")
        /\ claims[new].status # Absent /\ log[new].to = claims[new].status
    BY <1>0, <1>3 DEF Retire, LogAgrees, Exists
  <2>5. Succession(old, new)
    BY <2>2, <2>3, <2>4 DEF Succession
  <2> QED
    BY <1>2, <2>5
<1>4. ASSUME NEW old \in Claims, NEW new \in Claims, HandOver(old, new)
      PROVE  (LogAgrees /\ ForgottenStaysArchived /\ SupersededHasSuccessor /\ BackLinkBacked)'
  <2>1. "superseded" \in Status /\ "confirmed" \in Status
    BY DEF Status
  <2>2. /\ claims'[old] = Moved(claims[old], "superseded", new)
        /\ claims'[new] = Linked(Moved(claims[new], "confirmed", None), old)
        /\ log'[old] = Logged(log[old], "superseded", "ordinary")
        /\ log'[new] = Logged(log[new], "confirmed", "ordinary")
        /\ \A d \in Claims \ {old, new} : claims'[d] = claims[d] /\ log'[d] = log[d]
    BY <1>0, <1>4, HandOverRows
  <2>m. Moved(claims[new], "confirmed", None) \in Row
        /\ Moved(claims[new], "confirmed", None).status = "confirmed"
    BY <1>0, <2>1, MovedRow
  <2>3. /\ claims'[old].status = "superseded" /\ claims'[old].replacedBy = new
        /\ claims'[old].supersedes = claims[old].supersedes
        /\ claims'[new].supersedes = old /\ claims'[new].status = "confirmed"
    <3>1. /\ Moved(claims[old], "superseded", new).status = "superseded"
          /\ Moved(claims[old], "superseded", new).replacedBy = new
          /\ Moved(claims[old], "superseded", new).supersedes = claims[old].supersedes
      BY <1>0, <2>1, MovedRow
    <3>2. /\ Linked(Moved(claims[new], "confirmed", None), old).supersedes = old
          /\ Linked(Moved(claims[new], "confirmed", None), old).status = "confirmed"
      BY <2>m, LinkedRow
    <3> QED
      BY <2>2, <3>1, <3>2
  <2>4. log'[new].to = "confirmed" /\ log'[new].archive = log[new].archive
    BY <1>0, <2>1, <2>2, LoggedEntry
  <2>5. claims[new].status # "archived" /\ CanTransition(claims[old].status, "superseded")
    BY <1>4, Transitions DEF HandOver, CanTransition, AllowedTransitions, Status
  <2>6. old # new /\ "confirmed" # "superseded" /\ "confirmed" # Absent
    BY <1>4 DEF HandOver, Absent
  <2>7. Succession(old, new)
    BY <2>2, <2>3, <2>4, <2>5, <2>6 DEF Succession
  <2> QED
    BY <1>2, <2>7
<1>5. ASSUME NEW c \in Claims, InsertTx(c)
      PROVE  (LogAgrees /\ ForgottenStaysArchived /\ SupersededHasSuccessor /\ BackLinkBacked)'
  <2>1. /\ claims'[c] = [claims[c] EXCEPT !.status = "candidate"]
        /\ log'[c] = Logged(log[c], "candidate", "ordinary")
        /\ claims[c].status = Absent
        /\ \A d \in Claims \ {c} : claims'[d] = claims[d] /\ log'[d] = log[d]
    BY <1>0, <1>5 DEF InsertTx, Exists
  <2>2. /\ claims'[c].status = "candidate" /\ claims'[c].supersedes = claims[c].supersedes
        /\ log'[c].to = "candidate" /\ log'[c].archive = log[c].archive
    BY <1>0, <2>1, LoggedEntry DEF Row, Status
  <2>3. LogAgrees'
    BY <1>0, <2>1, <2>2 DEF LogAgrees
  <2>f. ForgottenStaysArchived'
    <3>1. log[c].archive # "forget"
      BY <1>0, <2>1 DEF ForgottenStaysArchived, Absent
    <3> QED
      BY <1>0, <2>1, <2>2, <3>1 DEF ForgottenStaysArchived
  <2>4. SupersededHasSuccessor'
    <3>1. ASSUME NEW d \in Claims, claims'[d].status = "superseded"
          PROVE  claims'[d].replacedBy \in Claims /\ claims'[claims'[d].replacedBy].status # Absent
      <4>1. d # c /\ claims'[d] = claims[d]
        BY <2>1, <2>2, <3>1
      <4>2. claims[d].replacedBy \in Claims /\ Exists(claims[d].replacedBy)
        BY <1>0, <3>1, <4>1 DEF SupersededHasSuccessor
      <4> QED
        BY <1>r, <4>1, <4>2 DEF RowStep, Exists
    <3> QED
      BY <3>1 DEF SupersededHasSuccessor, Exists
  <2>5. BackLinkBacked'
    <3>1. \A d \in Claims : claims'[d].supersedes = claims[d].supersedes
      BY <2>1, <2>2
    <3> QED
      BY <1>0, <1>r, <3>1 DEF BackLinkBacked, RowStep
  <2> QED
    BY <2>3, <2>f, <2>4, <2>5
<1>6. ASSUME NEW c \in Claims, NEW b \in BOOLEAN, SetPinnedTx(c, b)
      PROVE  (LogAgrees /\ ForgottenStaysArchived /\ SupersededHasSuccessor /\ BackLinkBacked)'
  <2>1. /\ log' = log
        /\ \A d \in Claims : /\ claims'[d].status = claims[d].status
                             /\ claims'[d].replacedBy = claims[d].replacedBy
                             /\ claims'[d].supersedes = claims[d].supersedes
    BY <1>0, <1>6 DEF SetPinnedTx, Row
  <2> QED
    BY <1>0, <2>1 DEF LogAgrees, ForgottenStaysArchived, SupersededHasSuccessor, BackLinkBacked, Exists
<1>7. CASE UNCHANGED tableVars
  BY <1>0, <1>7 DEF tableVars, LogAgrees, ForgottenStaysArchived, SupersededHasSuccessor,
                    BackLinkBacked, Exists
<1> QED
  BY <1>1, <1>3, <1>4, <1>5, <1>6, <1>7 DEF Shape
-----------------------------------------------------------------------------
(* The pending calls *)

\* The call a process has just loaded.
LEMMA LoadedCall ==
  ASSUME IInv, NEW p \in Procs, Load(p)
  PROVE  /\ \E call \in Calls : job' = [job EXCEPT ![p] = call] /\ CallOK(call)
         /\ UNCHANGED tableVars
<1>0. /\ \A c \in Claims : ImageOf(c) \in Image /\ ImageOf(c).version = claims[c].version
                           /\ ImageOf(c).status = claims[c].status
                           /\ ImageOf(c).replacedBy = claims[c].replacedBy
                           /\ claims[c].version \in Nat
                           /\ claims[c].status \in Status \cup {Absent}
  BY DEF IInv, TypeOK, TableTypeOK, Row, Image, ImageOf
<1>1. ASSUME NEW op \in Op, NEW c \in Claims, NEW to \in Status,
             NEW why \in {"ordinary", "forget"}, NEW other \in Claims \cup {None}
      PROVE  /\ Call(op, c, to, why, other) \in Calls
             /\ Call(op, c, to, why, other).op = op /\ Call(op, c, to, why, other).claim = c
             /\ Call(op, c, to, why, other).to = to /\ Call(op, c, to, why, other).why = why
             /\ Call(op, c, to, why, other).other = other
             /\ Call(op, c, to, why, other).img = ImageOf(c)
  BY <1>0 DEF Call, Calls
<1>2. /\ {"transition", "supersede", "revive", "ingest"} \subseteq Op
      /\ {"superseded", "archived", "candidate"} \subseteq Status
      /\ "ordinary" # "forget"
  BY DEF Op, Status
<1>3. ASSUME NEW c \in Claims, NEW to \in Status, NEW other \in Claims \cup {None},
             LoadTransition(p, c, to, other)
      PROVE  CallOK(Call("transition", c, to, "ordinary", other))
  <2> DEFINE call == Call("transition", c, to, "ordinary", other)
  <2>1. Exists(c)
    BY <1>3, Transitions DEF LoadTransition, Exists
  <2>2. /\ call.op = "transition" /\ call.claim = c /\ call.to = to /\ call.why = "ordinary"
        /\ call.other = other
        /\ call.img.version = claims[c].version /\ call.img.status = claims[c].status
        /\ call.img.replacedBy = claims[c].replacedBy
    BY <1>0, <1>1, <1>2
  <2>3. /\ CanTransition(claims[c].status, to) /\ other # c
        /\ to = "superseded" => other # None
        /\ other # None => Exists(other)
    BY <1>3 DEF LoadTransition
  <2>4. claims[c].version <= claims[c].version
    BY <1>0
  <2>5. ASSUME NEW k, k = call
        PROVE  CallOK(k)
    <3> HIDE DEF call
    <3> QED
      BY <2>1, <2>2, <2>3, <2>4, <2>5 DEF CallOK
  <2> QED
    BY <2>5
<1>4. ASSUME NEW c \in Claims, NEW why \in {"ordinary", "forget"}, LoadArchive(p, c, why)
      PROVE  CallOK(Call("transition", c, "archived", why, None))
  <2>1. CanTransition(claims[c].status, "archived")
    BY <1>0, <1>4, Archivable DEF LoadArchive, Exists
  <2> QED
    BY <1>0, <1>1, <1>2, <1>4, <2>1 DEF LoadArchive, CallOK
<1>5. ASSUME NEW old \in Claims, NEW new \in Claims, LoadSupersede(p, old, new)
      PROVE  CallOK(Call("supersede", old, "superseded", "ordinary", new))
  <2>1. Exists(old)
    BY <1>5, Transitions DEF LoadSupersede, Exists
  <2> QED
    <3> DEFINE call == Call("supersede", old, "superseded", "ordinary", new)
    <3>1. /\ call.op = "supersede" /\ call.claim = old /\ call.other = new
          /\ call.img.version = claims[old].version /\ call.img.status = claims[old].status
          /\ call.img.replacedBy = claims[old].replacedBy
      BY <1>0, <1>1, <1>2
    <3>2. new # None /\ new # old /\ Exists(new) /\ CanTransition(claims[old].status, "superseded")
      BY <1>5, ClaimTableAssumption DEF LoadSupersede
    <3>3. claims[old].version <= claims[old].version
      BY <1>0
    <3>4. ASSUME NEW k, k = call
          PROVE  CallOK(k)
      <4> HIDE DEF call
      <4> QED
        BY <2>1, <3>1, <3>2, <3>3, <3>4 DEF CallOK
    <3> QED
      BY <3>4
<1>6. ASSUME NEW c \in Claims, LoadRevive(p, c)
      PROVE  CallOK(Call("revive", c, "candidate", "ordinary", None))
  BY <1>0, <1>1, <1>2, <1>6 DEF LoadRevive, CallOK, Exists, Absent
<1>7. ASSUME NEW c \in Claims, LoadIngest(p, c)
      PROVE  CallOK(Call("ingest", c, "candidate", "ordinary", None))
  BY <1>0, <1>1, <1>2, <1>7 DEF LoadIngest, CallOK
<1> QED
  BY <1>1, <1>2, <1>3, <1>4, <1>5, <1>6, <1>7
     DEF Load, LoadTransition, LoadArchiveBySource, LoadForget, LoadArchive, LoadSupersede,
         LoadRevive, LoadIngest, Begin

\* A pending call survives any write: rows only advance.
LEMMA CallSurvives ==
  ASSUME IInv, TableTypeOK', NEW j \in Calls, CallOK(j),
         \A d \in Claims : RowStep(claims[d], claims'[d])
  PROVE  CallOK(j)'
<1>1. /\ j.claim \in Claims /\ j.other \in Claims \cup {None} /\ j.img.version \in Nat
  BY DEF Calls, Image
<1>2. /\ claims[j.claim].version \in Nat /\ claims'[j.claim].version \in Nat
  BY <1>1 DEF IInv, TypeOK, TableTypeOK, Row
<1>3. RowStep(claims[j.claim], claims'[j.claim])
  BY <1>1
<1>4. (j.img.version <= claims[j.claim].version)'
  BY <1>1, <1>2, <1>3 DEF RowStep, CallOK
<1>5. ASSUME j.op # "ingest"
      PROVE  /\ Exists(j.claim)'
             /\ Current(j.claim, j.img)' => /\ claims'[j.claim].status = j.img.status
                                            /\ claims'[j.claim].replacedBy = j.img.replacedBy
  BY <1>1, <1>2, <1>3, <1>5 DEF RowStep, CallOK, Exists, Current
<1>6. j.other # None => j.other # j.claim /\ Exists(j.other)'
  BY <1>1 DEF RowStep, CallOK, Exists
<1> QED
  BY <1>4, <1>5, <1>6 DEF CallOK

\* Every step keeps the pending calls well typed and truthful.
LEMMA CallsStep ==
  ASSUME IInv, [Next]_vars
  PROVE  job' \in [Procs -> Calls \cup {Idle}] /\ CallsOK'
<1>0. /\ job \in [Procs -> Calls \cup {Idle}] /\ CallsOK
      /\ TableTypeOK' /\ \A d \in Claims : RowStep(claims[d], claims'[d])
  BY StepShape, ShapeRows DEF IInv, TypeOK
<1>1. ASSUME NEW q \in Procs, job[q] # Idle, job'[q] = job[q]
      PROVE  CallOK(job[q])'
  <2>1. PICK j \in Calls : j = job[q]
    BY <1>0, <1>1
  <2>2. CallOK(j)
    BY <1>0, <1>1, <2>1 DEF CallsOK
  <2>3. CallOK(j)'
    BY <1>0, <2>2, CallSurvives
  <2>4. job'[q] = j
    BY <1>1, <2>1
  <2> QED
    BY <2>3, <2>4 DEF CallOK, Current, Exists
<1>2. ASSUME UNCHANGED job
      PROVE  job' \in [Procs -> Calls \cup {Idle}] /\ CallsOK'
  <2>1. ASSUME NEW q \in Procs, (job[q] # Idle)'
        PROVE  CallOK(job[q])'
    BY <1>1, <1>2, <2>1
  <2> QED
    BY <1>0, <1>2, <2>1 DEF CallsOK
<1>3. ASSUME NEW p \in Procs, End(p)
      PROVE  job' \in [Procs -> Calls \cup {Idle}] /\ CallsOK'
  <2>1. job' = [job EXCEPT ![p] = Idle]
    BY <1>3 DEF End
  <2>2. \A q \in Procs : job'[q] # Idle => job'[q] = job[q] /\ job[q] # Idle
    BY <1>0, <2>1
  <2>3. ASSUME NEW q \in Procs, (job[q] # Idle)'
        PROVE  CallOK(job[q])'
    BY <1>1, <2>2, <2>3
  <2>4. job' \in [Procs -> Calls \cup {Idle}]
    BY <1>0, <2>1
  <2> QED
    BY <2>3, <2>4 DEF CallsOK
<1>4. ASSUME NEW p \in Procs, Load(p)
      PROVE  job' \in [Procs -> Calls \cup {Idle}] /\ CallsOK'
  <2>1. PICK call \in Calls : job' = [job EXCEPT ![p] = call] /\ CallOK(call) /\ UNCHANGED tableVars
    BY <1>4, LoadedCall
  <2>2. CallOK(call)'
    BY <1>0, <2>1, CallSurvives
  <2>3. \A q \in Procs \ {p} : job'[q] = job[q]
    BY <1>0, <2>1
  <2>4. job'[p] = call
    BY <1>0, <2>1
  <2>5. CallOK(job[p])'
    BY <2>2, <2>4 DEF CallOK, Current, Exists
  <2>6. job' \in [Procs -> Calls \cup {Idle}]
    BY <1>0, <2>1
  <2>7. ASSUME NEW q \in Procs, (job[q] # Idle)'
        PROVE  CallOK(job[q])'
    <3>1. CASE q = p
      BY <2>5, <3>1
    <3>2. CASE q # p
      BY <1>1, <2>3, <2>7, <3>2
    <3> QED
      BY <3>1, <3>2
  <2> QED
    BY <2>6, <2>7 DEF CallsOK
<1>5. ASSUME NEW p \in Procs, Commit(p) \/ Abandon(p)
      PROVE  End(p)
  BY <1>5 DEF Commit, Abandon, CommitTransition, CommitConfirm, CommitHandover,
              CommitSupersede, CommitRevive, CommitIngest
<1>6. CASE \E old, new \in Claims : Supersede(old, new)
  BY <1>2, <1>6 DEF Supersede
<1>7. CASE \E c \in Claims : Compact(c)
  BY <1>2, <1>7 DEF Compact
<1>8. CASE \E c \in Claims, b \in BOOLEAN : SetPinned(c, b)
  BY <1>2, <1>8 DEF SetPinned
<1>9. CASE UNCHANGED vars
  BY <1>2, <1>9 DEF vars
<1> QED
  BY <1>3, <1>4, <1>5, <1>6, <1>7, <1>8, <1>9 DEF Next
-----------------------------------------------------------------------------
(* The inductive invariant and its consequences *)

LEMMA InitIInv == Init => IInv
<1> SUFFICES ASSUME Init PROVE IInv
  OBVIOUS
<1>1. TypeOK
  BY DEF Init, TypeOK, TableInit, TableTypeOK, Row, LogEntry, ArchiveReason, Idle
<1>2. CallsOK
  BY DEF Init, CallsOK
<1>3. LogAgrees /\ ForgottenStaysArchived /\ SupersededHasSuccessor /\ BackLinkBacked
  BY DEF Init, TableInit, LogAgrees, ForgottenStaysArchived, SupersededHasSuccessor,
         BackLinkBacked, Absent
<1> QED
  BY <1>1, <1>2, <1>3 DEF IInv

LEMMA NextIInv ==
  ASSUME IInv, [Next]_vars
  PROVE  IInv'
<1>1. Shape
  BY StepShape
<1>2. TypeOK' /\ CallsOK'
  BY <1>1, ShapeRows, CallsStep DEF TypeOK
<1>3. (LogAgrees /\ ForgottenStaysArchived /\ SupersededHasSuccessor /\ BackLinkBacked)'
  BY <1>1, ShapeSafe
<1> QED
  BY <1>2, <1>3 DEF IInv

LEMMA SpecIInv == Spec => []IInv
BY InitIInv, NextIInv, PTL DEF Spec

\* Types, for every instance.
THEOREM TypeCorrect == Spec => []TypeOK
BY SpecIInv, PTL DEF IInv

\* The version guard protects what a write takes from its image.
THEOREM OptimisticLocking == Spec => []CurrentImagesAreExact
<1>1. IInv => CurrentImagesAreExact
  BY DEF IInv, CallsOK, CallOK, CurrentImagesAreExact
<1> QED
  BY <1>1, SpecIInv, PTL

\* The event log and the table tell the same story.
THEOREM LogIsFaithful == Spec => []LogAgrees
BY SpecIInv, PTL DEF IInv

\* A forgotten claim never comes back, whatever was pending.
THEOREM ForgottenForEver == Spec => []ForgottenStaysArchived
BY SpecIInv, PTL DEF IInv

\* A retired claim names the claim that took its place, and that claim is in
\* the table, whichever of the four ways it was retired by.
THEOREM RetiredHasSuccessor == Spec => []SupersededHasSuccessor
BY SpecIInv, PTL DEF IInv

\* The claim a back link names was replaced: it names a replacement itself.
THEOREM LinksAreBacked == Spec => []BackLinkBacked
BY SpecIInv, PTL DEF IInv

\* No stale image erases a replacement link.
THEOREM LinksAreKept == Spec => ReplacementNeverErased
<1>1. ASSUME IInv, [Next]_vars
      PROVE  \A c \in Claims : claims[c].replacedBy # None => claims'[c].replacedBy # None
  BY <1>1, StepShape, ShapeRows DEF RowStep
<1> QED
  BY <1>1, SpecIInv, PTL DEF Spec, ReplacementNeverErased

\* No step inserts a claim whose content somebody asked to forget.
LEMMA RetiredStaysOut ==
  ASSUME IInv, [Next]_vars, NEW c \in Claims, ~ Exists(c), claims'[c].status # Absent
  PROVE  ~ RetiredContent(c)
<1>0. claims[c].status = Absent /\ claims \in [Claims -> Row]
  BY DEF Exists, IInv, TypeOK, TableTypeOK
<1>1. ASSUME NEW d \in Claims, NEW to \in Status, NEW repl \in Claims \cup {None},
             NEW why \in {"ordinary", "forget"}, Write(d, to, repl, why)
      PROVE  FALSE
  <2>1. d # c
    BY <1>0, <1>1 DEF Write, Exists
  <2> QED
    BY <1>0, <1>1, <2>1 DEF Write
<1>2. ASSUME NEW old \in Claims, NEW new \in Claims, Retire(old, new) \/ HandOver(old, new)
      PROVE  FALSE
  <2>1. claims[old].status # Absent /\ claims[new].status # Absent
    BY <1>2, Transitions DEF Retire, HandOver, Exists
  <2>2. claims'[c] = claims[c]
    BY <1>0, <1>2, <2>1 DEF Retire, HandOver
  <2> QED
    BY <1>0, <2>2
<1>3. ASSUME NEW d \in Claims, InsertTx(d)
      PROVE  ~ RetiredContent(c)
  <2>1. d # c => claims'[c] = claims[c]
    BY <1>0, <1>3 DEF InsertTx
  <2> QED
    BY <1>0, <1>3, <2>1 DEF InsertTx
<1>4. ASSUME NEW d \in Claims, NEW b \in BOOLEAN, SetPinnedTx(d, b)
      PROVE  FALSE
  <2>1. d # c
    BY <1>0, <1>4 DEF SetPinnedTx, Exists
  <2> QED
    BY <1>0, <1>4, <2>1 DEF SetPinnedTx
<1>5. CASE UNCHANGED tableVars
  BY <1>0, <1>5 DEF tableVars
<1> QED
  BY <1>1, <1>2, <1>3, <1>4, <1>5, StepShape DEF Shape

\* Forgotten content is not inserted again.
THEOREM ForgottenContentStaysOut == Spec => ForgottenContentNotReinserted
<1>0. ASSUME IInv, [Next]_vars
      PROVE  \A c \in Claims : ~ Exists(c) /\ claims'[c].status # Absent => ~ RetiredContent(c)
  BY <1>0, RetiredStaysOut
<1> QED
  BY <1>0, SpecIInv, PTL DEF Spec, ForgottenContentNotReinserted
-----------------------------------------------------------------------------
(* Refinement of the abstract life cycle *)

statusBar == [c \in Claims |-> claims[c].status]

forgottenBar == {c \in Claims : log[c].archive = "forget"}

LEMMA SameTransitions ==
  ASSUME NEW s, NEW t, CanTransition(s, t)
  PROVE  Abstract!CanTransition(s, t)
BY DEF CanTransition, AllowedTransitions, Status,
       Abstract!CanTransition, Abstract!AllowedTransitions, Abstract!Status

\* A shape is a step of the abstract specification, or changes nothing in it.
LEMMA ShapeRefines ==
  ASSUME IInv, Shape
  PROVE  Abstract!Next \/ UNCHANGED <<statusBar, forgottenBar>>
<1>0. /\ claims \in [Claims -> Row] /\ log \in [Claims -> LogEntry] /\ TableTypeOK
      /\ ForgottenStaysArchived
      /\ \A s \in Status : s \in Abstract!Status
  BY DEF IInv, TypeOK, TableTypeOK, Status, Abstract!Status
<1>1. ASSUME NEW c \in Claims, NEW to \in Status, NEW repl \in Claims \cup {None},
             NEW why \in {"ordinary", "forget"}, Write(c, to, repl, why)
      PROVE  Abstract!Next
  <2>1. /\ claims'[c].status = to
        /\ \A d \in Claims \ {c} : claims'[d] = claims[d] /\ log'[d] = log[d]
        /\ to # "archived" => log'[c].archive = log[c].archive
        /\ to = "archived" => log'[c].archive = why
    BY <1>0, <1>1, MovedRow, LoggedEntry DEF Write
  <2>2. statusBar' = [statusBar EXCEPT ![c] = to] /\ statusBar[c] = claims[c].status
    BY <2>1 DEF statusBar
  <2>3. CASE CanTransition(claims[c].status, to) /\ why = "forget"
    <3>1. to = "archived"
      BY <1>1, <2>3 DEF Write
    <3>2. forgottenBar' = forgottenBar \cup {c}
      BY <2>1, <2>3, <3>1 DEF forgottenBar
    <3>3. Abstract!Forget(c)
      BY <2>2, <2>3, <3>1, <3>2, SameTransitions DEF Abstract!Forget, statusBar, forgottenBar
    <3> QED
      BY <3>3 DEF Abstract!Next
  <2>4. CASE CanTransition(claims[c].status, to) /\ why # "forget"
    <3>1. claims[c].status # "archived"
      BY <2>4, Transitions
    <3>2. log[c].archive # "forget"
      BY <1>0, <3>1 DEF ForgottenStaysArchived
    <3>3. forgottenBar' = forgottenBar
      BY <2>1, <2>4, <3>2 DEF forgottenBar
    <3>4. Abstract!Move(c, to)
      BY <2>2, <2>4, <3>3, SameTransitions DEF Abstract!Move, statusBar, forgottenBar
    <3> QED
      BY <1>0, <3>4 DEF Abstract!Next
  <2>5. CASE claims[c].status = "archived" /\ to = "candidate" /\ log[c].archive # "forget"
    <3>1. forgottenBar' = forgottenBar /\ c \notin forgottenBar
      BY <2>1, <2>5 DEF forgottenBar
    <3>2. Abstract!Revive(c)
      BY <2>2, <2>5, <3>1 DEF Abstract!Revive, statusBar, forgottenBar
    <3> QED
      BY <3>2 DEF Abstract!Next
  <2> QED
    BY <1>1, <2>3, <2>4, <2>5 DEF Write
<1>2. ASSUME NEW old \in Claims, NEW new \in Claims, Retire(old, new)
      PROVE  Abstract!Next
  <2>1. /\ "superseded" \in Status /\ claims[old].status # "archived"
    BY <1>2, Transitions DEF Retire, Status
  <2>r. /\ claims'[old] = Moved(claims[old], "superseded", new)
        /\ claims'[new] = Linked(claims[new], old)
        /\ log'[old] = Logged(log[old], "superseded", "ordinary") /\ log'[new] = log[new]
        /\ \A d \in Claims \ {old, new} : claims'[d] = claims[d] /\ log'[d] = log[d]
    BY <1>0, <1>2, RetireRows
  <2>2. /\ claims'[old].status = "superseded" /\ claims'[new].status = claims[new].status
        /\ log'[old].archive = log[old].archive
    BY <1>0, <2>1, <2>r, MovedRow, LinkedRow, LoggedEntry
  <2>s. statusBar' = [statusBar EXCEPT ![old] = "superseded"]
    BY <2>2, <2>r DEF statusBar
  <2>3. statusBar' = [statusBar EXCEPT ![old] = "superseded"] /\ forgottenBar' = forgottenBar
    BY <2>2, <2>r, <2>s DEF forgottenBar
  <2>4. Abstract!Move(old, "superseded")
    BY <1>2, <2>3, SameTransitions DEF Retire, Abstract!Move, statusBar, forgottenBar
  <2> QED
    BY <1>0, <2>1, <2>4 DEF Abstract!Next
<1>3. ASSUME NEW old \in Claims, NEW new \in Claims, HandOver(old, new)
      PROVE  Abstract!Next
  <2>1. "superseded" \in Status /\ "confirmed" \in Status
    BY DEF Status
  <2>m. /\ Moved(claims[new], "confirmed", None) \in Row
        /\ Moved(claims[new], "confirmed", None).status = "confirmed"
    BY <1>0, <2>1, MovedRow
  <2>n. /\ claims'[old] = Moved(claims[old], "superseded", new)
        /\ claims'[new] = Linked(Moved(claims[new], "confirmed", None), old)
        /\ \A d \in Claims \ {old, new} : claims'[d] = claims[d] /\ log'[d] = log[d]
        /\ log'[old] = Logged(log[old], "superseded", "ordinary")
        /\ log'[new] = Logged(log[new], "confirmed", "ordinary")
    BY <1>0, <1>3, HandOverRows
  <2>2. claims'[old].status = "superseded"
    BY <1>0, <2>1, <2>n, MovedRow
  <2>3. claims'[new].status = "confirmed"
    BY <2>m, <2>n, LinkedRow
  <2>a. \A e \in LogEntry : /\ Logged(e, "superseded", "ordinary").archive = e.archive
                            /\ Logged(e, "confirmed", "ordinary").archive = e.archive
    BY DEF Logged, LogEntry
  <2>4. log'[old].archive = log[old].archive /\ log'[new].archive = log[new].archive
    BY <1>0, <2>n, <2>a
  <2>b. old # new
    BY <1>3 DEF HandOver
  <2>5. statusBar' = [statusBar EXCEPT ![old] = "superseded", ![new] = "confirmed"]
    BY <2>b, <2>2, <2>3, <2>n DEF statusBar
  <2>6. forgottenBar' = forgottenBar
    BY <2>4, <2>n DEF forgottenBar
  <2>7. Abstract!Handover(old, new)
    BY <1>3, <2>5, <2>6, SameTransitions DEF HandOver, Abstract!Handover, statusBar, forgottenBar
  <2> QED
    BY <2>7 DEF Abstract!Next
<1>4. ASSUME NEW c \in Claims, InsertTx(c)
      PROVE  Abstract!Next
  <2>1. /\ claims'[c].status = "candidate" /\ claims[c].status = Absent
        /\ \A d \in Claims \ {c} : claims'[d] = claims[d] /\ log'[d] = log[d]
        /\ log'[c].archive = log[c].archive
    BY <1>0, <1>4, LoggedEntry DEF InsertTx, Exists, Row, Status
  <2>2. statusBar' = [statusBar EXCEPT ![c] = "candidate"] /\ forgottenBar' = forgottenBar
    BY <2>1 DEF statusBar, forgottenBar
  <2>3. Abstract!Ingest(c)
    BY <2>1, <2>2 DEF Abstract!Ingest, statusBar, forgottenBar, Absent, Abstract!Absent
  <2> QED
    BY <2>3 DEF Abstract!Next
<1>5. ASSUME NEW c \in Claims, NEW b \in BOOLEAN, SetPinnedTx(c, b)
      PROVE  UNCHANGED <<statusBar, forgottenBar>>
  <2>1. log' = log /\ \A d \in Claims : claims'[d].status = claims[d].status
    BY <1>0, <1>5 DEF SetPinnedTx, Row
  <2> QED
    BY <2>1 DEF statusBar, forgottenBar
<1>6. CASE UNCHANGED tableVars
  BY <1>6 DEF tableVars, statusBar, forgottenBar
<1> QED
  BY <1>1, <1>2, <1>3, <1>4, <1>5, <1>6 DEF Shape

\* The claim store, with concurrent callers and stale images, implements the
\* abstract life cycle.
THEOREM Refinement == Spec => ImplementsLifecycle
<1>1. Init => Abstract!Init
  BY DEF Init, TableInit, Abstract!Init, Absent, Abstract!Absent
<1>2. ASSUME IInv, [Next]_vars
      PROVE  [Abstract!Next]_(Abstract!vars)
  BY <1>2, StepShape, ShapeRefines DEF Abstract!vars, statusBar, forgottenBar
<1> QED
  BY <1>1, <1>2, SpecIInv, PTL DEF Spec, ImplementsLifecycle, Abstract!Spec
=============================================================================

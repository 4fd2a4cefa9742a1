------------------------------ MODULE ClaimTable ------------------------------
(***************************************************************************)
(* The claims table of the SQLite store and the transactions that write    *)
(* it (stores/_storage_lifecycle.py, stores/_storage_write_claims.py,      *)
(* govern/conflict_resolver.py, govern/jobs/compactor.py).                 *)
(*                                                                         *)
(* Every action of this module is ONE transaction.  The arguments called   *)
(* img are images: rows some caller read earlier, in another transaction.  *)
(* Whether such an image is still current is what the version guard of a   *)
(* transaction decides; who calls, and what it read before, is the         *)
(* business of the modules that extend this one (ClaimStore,               *)
(* ConflictResolution).                                                    *)
(***************************************************************************)
EXTENDS Lifecycle, Naturals

CONSTANTS
  Claims,      \* the rows the table can hold, one per idempotency key
  None,        \* the NULL of a link column
  TupleOf,     \* [Claims -> tuple]: tenant, subject, predicate, scope, visibility, principal
  NoTuple,     \* the tuple of a claim without subject or predicate
  ContentOf,   \* [Claims -> content]: the text, tenant, scope and identity
  MaxVersion   \* bound on the version counter, for model checking

ASSUME ClaimTableAssumption ==
  /\ None \notin Claims
  /\ TupleOf \in [Claims -> {TupleOf[c] : c \in Claims}]
  /\ MaxVersion \in Nat

VARIABLES
  claims,      \* the claims table: Claims -> row
  log          \* what the append-only events table says about each claim

tableVars == <<claims, log>>

Row == [status     : Status \cup {Absent},
        version    : Nat,
        replacedBy : Claims \cup {None},
        supersedes : Claims \cup {None},
        pinned     : BOOLEAN]

\* An image keeps the columns a later transaction looks at; the pin it looks
\* at is never the one of the claim it writes.
Image == [status     : Status \cup {Absent},
          version    : Nat,
          replacedBy : Claims \cup {None},
          supersedes : Claims \cup {None}]

\* What is kept of the events of a claim: the last status an event announced,
\* which only an audit of the log would compare with the row, and the reason
\* of the last archival, which latest_archive_reason reads back: "ordinary" or
\* one that forbids a revival.
ArchiveReason == {"never", "ordinary", "forget"}

LogEntry == [to : Status \cup {Absent}, archive : ArchiveReason]

TableTypeOK ==
  /\ claims \in [Claims -> Row]
  /\ log \in [Claims -> LogEntry]

TableInit ==
  /\ claims = [c \in Claims |-> [status |-> Absent, version |-> 0, replacedBy |-> None,
                                 supersedes |-> None, pinned |-> FALSE]]
  /\ log = [c \in Claims |-> [to |-> Absent, archive |-> "never"]]
-----------------------------------------------------------------------------
Exists(c) == claims[c].status # Absent

\* get_claim.
ImageOf(c) == [status |-> claims[c].status, version |-> claims[c].version,
               replacedBy |-> claims[c].replacedBy, supersedes |-> claims[c].supersedes]

\* UPDATE ... WHERE id = ? AND version = ? finds its row.
Current(c, img) == claims[c].version = img.version

\* The version counter has room (bound of the model, not of the code).
Room(c) == claims[c].version < MaxVersion

\* Mutant: the status write forgets to advance the version.
MovedSameVersion(row, to, repl) ==
  [status |-> to, version |-> row.version, replacedBy |-> repl,
   supersedes |-> row.supersedes, pinned |-> row.pinned]

\* The row after a status write, with the link column it writes.
Moved(row, to, repl) ==
  [status |-> to, version |-> row.version + 1, replacedBy |-> repl,
   supersedes |-> row.supersedes, pinned |-> row.pinned]

\* The row with its back link set: no version bump.
Linked(row, old) ==
  [status |-> row.status, version |-> row.version, replacedBy |-> row.replacedBy,
   supersedes |-> old, pinned |-> row.pinned]

\* Mutant: the columns of the event are written in the wrong order.
LoggedSwapped(entry, to, why) == [to |-> why, archive |-> to]

\* _insert_event_row: the transition event appended in the same transaction.
Logged(entry, to, why) ==
  [to |-> to, archive |-> IF to = "archived" THEN why ELSE entry.archive]

\* idx_claims_*_confirmed_tuple_unique, with the row c about to be confirmed
\* and the row leaving about to leave the index in the same transaction.
SlotFree(c, leaving) ==
  \/ TupleOf[c] = NoTuple
  \/ \A d \in Claims \ {c, leaving} :
       ~ (claims[d].status = "confirmed" /\ TupleOf[d] = TupleOf[c])

\* _retired_content_match: somebody asked to forget this very content.
RetiredContent(c) ==
  \E d \in Claims : /\ claims[d].status = "archived"
                    /\ ContentOf[d] = ContentOf[c]
                    /\ log[d].archive = "forget"

\* is_tuple_predecessor, on the image of the claim and the row of the rival
\* as it is inside the transaction.
IsTuplePredecessor(c, img, rival) ==
  /\ img.replacedBy = None
  /\ claims[rival].status = "confirmed"
  /\ claims[rival].replacedBy = None
  /\ ~ claims[rival].pinned
  /\ TupleOf[c] # NoTuple
  /\ TupleOf[c] = TupleOf[rival]
-----------------------------------------------------------------------------
(* Insertion *)

\* Mutant: the content is not looked up again under the write lock.
InsertTxBlind(c) ==
  /\ ~ Exists(c)
  /\ claims' = [claims EXCEPT ![c].status = "candidate"]
  /\ log' = [log EXCEPT ![c] = Logged(@, "candidate", "ordinary")]

\* create_claim.  A key that is already there is returned unchanged by the
\* callers; content somebody asked to forget is not inserted.
InsertTx(c) ==
  /\ ~ Exists(c)
  /\ ~ RetiredContent(c)
  /\ claims' = [claims EXCEPT ![c].status = "candidate"]
  /\ log' = [log EXCEPT ![c] = Logged(@, "candidate", "ordinary")]
-----------------------------------------------------------------------------
(* apply_status_transition, one action per kind of target *)

\* Mutant: the version guard is missing.
TransitionTxUnguarded(c, img, to, why, repl) ==
  /\ Room(c)
  /\ claims' = [claims EXCEPT ![c] =
                  Moved(@, to, IF repl # None THEN repl ELSE img.replacedBy)]
  /\ log' = [log EXCEPT ![c] = Logged(@, to, why)]

\* Mutant: the replacement the caller names is dropped.
TransitionTxUnlinked(c, img, to, why, repl) ==
  /\ Current(c, img) /\ Room(c)
  /\ claims' = [claims EXCEPT ![c] = Moved(@, to, img.replacedBy)]
  /\ log' = [log EXCEPT ![c] = Logged(@, to, why)]

\* Any target but "confirmed", and no revival.
TransitionTx(c, img, to, why, repl) ==
  /\ Current(c, img) /\ Room(c)
  /\ claims' = [claims EXCEPT ![c] =
                  Moved(@, to, IF repl # None THEN repl ELSE img.replacedBy)]
  /\ log' = [log EXCEPT ![c] = Logged(@, to, why)]

\* Archived -> candidate because the content was ingested again; the reason
\* of the last archival is read again under the write lock.
ReviveTx(c, img) ==
  /\ log[c].archive # "forget"
  /\ Current(c, img) /\ Room(c)
  /\ claims' = [claims EXCEPT ![c] = Moved(@, "candidate", img.replacedBy)]
  /\ log' = [log EXCEPT ![c] = Logged(@, "candidate", "ordinary")]

\* The predecessor a confirmation may retire: the one the caller names, or
\* else the one the image of the claim is linked to.
Predecessor(img, named) == IF named # None THEN named ELSE img.supersedes

\* A confirmation that retires nobody.
ConfirmTx(c, img, named) ==
  LET pred == Predecessor(img, named) IN
  /\ named = None
  /\ ~ (pred # None /\ IsTuplePredecessor(c, img, pred))
  /\ Current(c, img) /\ Room(c)
  /\ SlotFree(c, c)
  /\ claims' = [claims EXCEPT ![c] = Moved(@, "confirmed", img.replacedBy)]
  /\ log' = [log EXCEPT ![c] = Logged(@, "confirmed", "ordinary")]

\* Mutant: the retirement of the predecessor is not logged.
HandoverTxUnlogged(c, img, named) ==
  LET pred == Predecessor(img, named) IN
  /\ pred # None
  /\ IsTuplePredecessor(c, img, pred)
  /\ claims[c].supersedes \in {None, pred}
  /\ Current(c, img) /\ Room(c) /\ Room(pred)
  /\ SlotFree(c, pred)
  /\ claims' = [claims EXCEPT
       ![pred] = Moved(@, "superseded", c),
       ![c] = Linked(Moved(@, "confirmed", img.replacedBy), pred)]
  /\ log' = [log EXCEPT ![c] = Logged(@, "confirmed", "ordinary")]

\* A confirmation that retires its predecessor first, in the same
\* transaction: the slot passes from one to the other.
HandoverTx(c, img, named) ==
  LET pred == Predecessor(img, named) IN
  /\ pred # None
  /\ named # None => img.supersedes \in {None, named}
  /\ IsTuplePredecessor(c, img, pred)
  /\ claims[c].supersedes \in {None, pred}
  /\ Current(c, img) /\ Room(c) /\ Room(pred)
  /\ SlotFree(c, pred)
  /\ claims' = [claims EXCEPT
       ![pred] = Moved(@, "superseded", c),
       ![c] = Linked(Moved(@, "confirmed", img.replacedBy), pred)]
  /\ log' = [log EXCEPT ![pred] = Logged(@, "superseded", "ordinary"),
                        ![c] = Logged(@, "confirmed", "ordinary")]
-----------------------------------------------------------------------------
(* Supersession outside a confirmation *)

\* Mutant: the UPDATE of the loser has no guard.
MarkAllowedUnguarded(old, img, new) ==
  /\ Exists(new)
  /\ claims[new].supersedes \in {None, old}
  /\ img.version <= claims[old].version

\* What the transaction of mark_superseded requires, or it raises.
MarkAllowed(old, img, new) ==
  /\ Exists(new)
  /\ claims[new].supersedes \in {None, old}
  /\ Current(old, img)
  /\ claims[old].status # "superseded"
  /\ claims[old].replacedBy = None

\* Mutant: only the winner is linked.
MarkSupersededTxOneSided(old, img, new) ==
  /\ MarkAllowed(old, img, new)
  /\ Room(old)
  /\ claims' = [claims EXCEPT ![old] = Moved(@, "superseded", None),
                              ![new] = Linked(@, old)]
  /\ log' = [log EXCEPT ![old] = Logged(@, "superseded", "ordinary")]

MarkSupersededTx(old, img, new) ==
  /\ MarkAllowed(old, img, new)
  /\ Room(old)
  /\ claims' = [claims EXCEPT ![old] = Moved(@, "superseded", new),
                              ![new] = Linked(@, old)]
  /\ log' = [log EXCEPT ![old] = Logged(@, "superseded", "ordinary")]

\* Mutant: the resolver trusts the status it saw when it detected the conflict.
SupersedeAllowedStale(old, new) == Exists(old) /\ Exists(new)

\* What supersede_claim requires, or it reports a lost race or raises.
SupersedeAllowed(old, new) ==
  /\ Exists(new)
  /\ claims[old].replacedBy = None
  /\ CanTransition(claims[old].status, "superseded")

\* supersede_claim of the conflict resolver: reads and writes under one
\* write lock, and takes the back link of the winner whatever it was.
SupersedeClaimTx(old, new) ==
  /\ SupersedeAllowed(old, new)
  /\ Room(old)
  /\ claims' = [claims EXCEPT ![old] = Moved(@, "superseded", new),
                              ![new] = Linked(@, old)]
  /\ log' = [log EXCEPT ![old] = Logged(@, "superseded", "ordinary")]
-----------------------------------------------------------------------------
(* Other writers of the row *)

\* Mutant: the status the claim had when it was selected is trusted.
CompactTxBlind(c) ==
  /\ Exists(c)
  /\ Room(c)
  /\ claims' = [claims EXCEPT ![c] = Moved(@, "archived", @.replacedBy)]
  /\ log' = [log EXCEPT ![c] = Logged(@, "archived", "ordinary")]

\* One claim of _archive_claims_sqlite_transaction: the status is read again
\* inside the transaction.
CompactTx(c) ==
  /\ CanTransition(claims[c].status, "archived")
  /\ Room(c)
  /\ claims' = [claims EXCEPT ![c] = Moved(@, "archived", @.replacedBy)]
  /\ log' = [log EXCEPT ![c] = Logged(@, "archived", "ordinary")]

\* set_pinned: no version bump.
SetPinnedTx(c, b) ==
  /\ Exists(c)
  /\ claims' = [claims EXCEPT ![c].pinned = b]
  /\ UNCHANGED log
=============================================================================

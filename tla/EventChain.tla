------------------------------ MODULE EventChain ------------------------------
(***************************************************************************)
(* The hash chains of the event log (stores/_storage_schema.py:            *)
(* _insert_event_row, _backfill_event_chain) and what the integrity check  *)
(* asks of them (stores/_storage_lifecycle.py: reconcile_integrity).       *)
(*                                                                         *)
(* Every event names the hash of the event before it, and the hash of the  *)
(* event before it of its tenant.  Many connections record events, several *)
(* in a transaction, and a transaction may be rolled back.  Some of them   *)
(* insert a raw row, one without hashes: govern/candidate_dedupe.py:304,   *)
(* govern/llm_steward.py:730, bridges/db_merge.py:402,                     *)
(* bridges/dream_bridge.py:779 and the fallback of _insert_event_row.  A   *)
(* database that is older than the chain holds nothing else.  A process    *)
(* that opens the database (or repairs it, _storage_lifecycle.py:425)      *)
(* fills the missing hashes in.                                            *)
(*                                                                         *)
(* A hash stands for what it is computed from.  Apart from the claim, what *)
(* an event says is left out.                                              *)
(***************************************************************************)
EXTENDS Naturals, Sequences

CONSTANTS
  Claims, Tenants, NoTenant,
  TenantOf,     \* the tenant of each claim
  Writers,      \* connections that record events
  Upgraders,    \* processes that open the database and fill in the hashes
  Legacy,       \* the claims of the events that are older than the chain
  MaxEvents     \* bound on the events

ASSUME EventChainAssumption ==
  /\ NoTenant \notin Tenants
  /\ TenantOf \in [Claims -> Tenants \cup {NoTenant}]
  /\ Legacy \in Seq(Claims)
  /\ MaxEvents \in Nat

VARIABLES
  events,   \* the committed rows, in the order of their ids
  tx,       \* the rows each connection has inserted in its transaction
  fill,     \* the rows each process has read, and those it has been through
  guarded   \* the triggers refuse to update rows of events

vars == <<events, tx, fill, guarded>>

NoHash == <<>>
Digest(claim, prev) == <<claim, prev>>
TenantDigest(tenant, hash, prev) == <<tenant, hash, prev>>

\* A row inserted without hashes, which "raw" remembers for the properties once
\* they have been filled in.  It names no tenant.
RawRow(c) ==
  [claim |-> c, tenant |-> NoTenant, prev |-> NoHash, hash |-> NoHash,
   tenantPrev |-> NoHash, tenantHash |-> NoHash, raw |-> TRUE]

Closed == [open |-> FALSE, rows |-> <<>>]
Opened(rows) == [open |-> TRUE, rows |-> rows]

\* A backfill that has read nothing has nothing to fill in.
NoFill == [on |-> FALSE, rows |-> <<>>, done |-> <<>>]
Filling(rows, done) == [on |-> TRUE, rows |-> rows, done |-> done]

Init ==
  /\ events = [i \in 1..Len(Legacy) |-> RawRow(Legacy[i])]
  /\ tx = [w \in Writers |-> Closed]
  /\ fill = [u \in Upgraders |-> NoFill]
  /\ guarded = TRUE

-----------------------------------------------------------------------------
(* Recording events. *)

\* One transaction at a time holds the write lock, and no head is read before
\* a transaction holds it.
\* Mutant: the transaction begins without the lock.
BeginDeferred(w) ==
  /\ ~tx[w].open
  /\ tx' = [tx EXCEPT ![w] = Opened(<<>>)]
  /\ UNCHANGED <<events, fill, guarded>>

Begin(w) ==
  /\ \A v \in Writers : ~tx[v].open
  /\ tx' = [tx EXCEPT ![w] = Opened(<<>>)]
  /\ UNCHANGED <<events, fill, guarded>>

\* The greatest of a set of ids, 0 if there is none.
IsLast(i, ids) == IF ids = {} THEN i = 0 ELSE i \in ids /\ \A k \in ids : k <= i

Hashed(rows) == {i \in 1..Len(rows) : rows[i].hash # NoHash}

OfTenant(rows, t) == {i \in 1..Len(rows) : rows[i].tenant = t /\ t # NoTenant}

HashAt(rows, i) == IF i = 0 THEN NoHash ELSE rows[i].hash
TenantHashAt(rows, i) == IF i = 0 THEN NoHash ELSE rows[i].tenantHash

NewRow(c, prev, tenantPrev) ==
  [claim |-> c, tenant |-> TenantOf[c], prev |-> prev, hash |-> Digest(c, prev),
   tenantPrev |-> tenantPrev,
   tenantHash |-> IF TenantOf[c] = NoTenant THEN NoHash
                  ELSE TenantDigest(TenantOf[c], Digest(c, prev), tenantPrev),
   raw |-> FALSE]

\* A connection sees its own rows after the committed ones.
Table(w) == events \o tx[w].rows

Record(w, c) ==
  /\ tx[w].open
  /\ Len(Table(w)) < MaxEvents
  /\ \E i, j \in 0..Len(Table(w)) :
       /\ IsLast(i, Hashed(Table(w)))
       /\ IsLast(j, OfTenant(Table(w), TenantOf[c]))
       /\ tx' = [tx EXCEPT ![w] = Opened(Append(tx[w].rows,
                    NewRow(c, HashAt(Table(w), i), TenantHashAt(Table(w), j))))]
  /\ UNCHANGED <<events, fill, guarded>>

\* A plain INSERT of the columns that say what happened.
RecordRaw(w, c) ==
  /\ tx[w].open
  /\ Len(Table(w)) < MaxEvents
  /\ tx' = [tx EXCEPT ![w] = Opened(Append(tx[w].rows, RawRow(c)))]
  /\ UNCHANGED <<events, fill, guarded>>

Commit(w) ==
  /\ tx[w].open
  /\ events' = Table(w)
  /\ tx' = [tx EXCEPT ![w] = Closed]
  /\ UNCHANGED <<fill, guarded>>

\* The transaction fails after some of its events, or its process dies.
Rollback(w) ==
  /\ tx[w].open
  /\ tx' = [tx EXCEPT ![w] = Closed]
  /\ UNCHANGED <<events, fill, guarded>>

-----------------------------------------------------------------------------
(* Opening a database: the triggers are dropped, the rows read if one of    *)
(* them lacks a hash, the missing hashes worked out row by row and written  *)
(* in a transaction that puts the triggers back.                            *)

Pending == \E i \in 1..Len(events) : events[i].hash = NoHash

ReadRows(u) ==
  /\ ~fill[u].on
  /\ guarded' = FALSE
  /\ fill' = [fill EXCEPT ![u] = Filling(IF Pending THEN events ELSE <<>>, <<>>)]
  /\ UNCHANGED <<events, tx>>

\* A row that has a hash keeps it; another gets one that follows the row before.
Rehashed(row, prev) == [row EXCEPT !.prev = prev, !.hash = Digest(row.claim, prev)]

\* Mutant: every hash is worked out again.
HashedAlways(row, prev) == Rehashed(row, prev)

HashedRow(row, prev) == IF row.hash # NoHash THEN row ELSE Rehashed(row, prev)

HashNextRow(u) ==
  /\ Len(fill[u].done) < Len(fill[u].rows)
  /\ LET n == Len(fill[u].done)
     IN  fill' = [fill EXCEPT ![u] = Filling(@.rows,
                    Append(@.done, HashedRow(@.rows[n + 1], HashAt(@.done, n))))]
  /\ UNCHANGED <<events, tx, guarded>>

\* The rows to write are those that have become others.
ToWrite(u) == {i \in 1..Len(fill[u].rows) : fill[u].done[i] # fill[u].rows[i]}

FilledIn(u) == [i \in 1..Len(events) |-> IF i \in ToWrite(u) THEN fill[u].done[i] ELSE events[i]]

\* The triggers may be back, put there by a process that was quicker: then the
\* write fails, and with it the opening of the database.
WriteHashes(u) ==
  /\ fill[u].on
  /\ Len(fill[u].done) = Len(fill[u].rows)
  /\ \A w \in Writers : ~tx[w].open
  /\ IF guarded /\ ToWrite(u) # {} THEN UNCHANGED events ELSE events' = FilledIn(u)
  /\ guarded' = TRUE
  /\ fill' = [fill EXCEPT ![u] = NoFill]
  /\ UNCHANGED tx

\* A process that dies leaves the triggers dropped.
UpgraderDies(u) ==
  /\ fill[u].on
  /\ fill' = [fill EXCEPT ![u] = NoFill]
  /\ UNCHANGED <<events, tx, guarded>>

-----------------------------------------------------------------------------

Recording(w) ==
  Begin(w) \/ Commit(w) \/ Rollback(w) \/ \E c \in Claims : Record(w, c) \/ RecordRaw(w, c)

Upgrading(u) == ReadRows(u) \/ HashNextRow(u) \/ WriteHashes(u) \/ UpgraderDies(u)

Next ==
  \/ \E w \in Writers : Recording(w)
  \/ \E u \in Upgraders : Upgrading(u)

Spec == Init /\ [][Next]_vars

-----------------------------------------------------------------------------
(* Properties. *)

\* What the integrity check recomputes of each row, and the row it expects
\* each row to follow.
Follows(rows, i) ==
  /\ rows[i].hash = Digest(rows[i].claim, rows[i].prev)
  /\ rows[i].prev = HashAt(rows, i - 1)

FollowsInTenant(rows, i) ==
  rows[i].tenant # NoTenant =>
    /\ rows[i].tenantHash = TenantDigest(rows[i].tenant, rows[i].hash, rows[i].tenantPrev)
    /\ \E j \in 0..(i - 1) :
         /\ IsLast(j, {k \in OfTenant(rows, rows[i].tenant) : k < i})
         /\ rows[i].tenantPrev = TenantHashAt(rows, j)

\* Once every row has a hash the integrity check finds the chain whole: no two
\* events follow the same one.  The comment of _insert_event_row names the lock
\* as what keeps two writers from that (_storage_schema.py:1069-1072).  It does
\* not hold: a raw row is not seen as the head.
ChainVerifies == Pending \/ \A i \in 1..Len(events) : Follows(events, i)

\* The row another follows, with only raw rows in between.
Skips(rows, i, k) ==
  /\ rows[i].prev = HashAt(rows, k)
  /\ k > 0 => rows[k].hash # NoHash
  /\ \A j \in (k + 1)..(i - 1) : rows[j].raw

\* A raw row without a hash, or one that has got it; a recorded row.
Unfilled(rows, i) == rows[i].raw /\ rows[i].hash = NoHash

Filled(rows, i) == rows[i].raw /\ Follows(rows, i)

Recorded(rows, i) ==
  /\ ~rows[i].raw
  /\ rows[i].hash = Digest(rows[i].claim, rows[i].prev)
  /\ \E k \in 0..(i - 1) : Skips(rows, i, k)

\* What the integrity check can find is bounded: however the transactions that
\* record events interleave, whichever are rolled back and however many
\* processes fill in hashes at once, no hash is wrong, the chain of a tenant is
\* whole, and a broken link is one that skips raw rows and no other: two
\* recorded events never follow the same one (_storage_schema.py:1069-1121,
\* 955-993).
OnlyRawRowsAreSkipped ==
  \A i \in 1..Len(events) :
    /\ Unfilled(events, i) \/ Filled(events, i) \/ Recorded(events, i)
    /\ FollowsInTenant(events, i)

\* Events are only added, and the hashes of an event never change once it has
\* them: not when hashes are filled in around it, nor by a process that read the
\* rows before another had filled them in (_storage_schema.py:965-993).
HashesAreFinal ==
  [][ /\ Len(events) <= Len(events')
      /\ \A i \in 1..Len(events) : events[i].hash # NoHash => events'[i] = events[i] ]_vars
=============================================================================

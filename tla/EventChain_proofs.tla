--------------------------- MODULE EventChain_proofs ---------------------------
(***************************************************************************)
(* What the hash chains guarantee whatever the number of connections,      *)
(* claims, tenants, old rows and raw events: no hash is wrong, the chains  *)
(* of the tenants are whole, a broken link skips raw rows only, and a hash *)
(* that is there stays as it is.                                           *)
(***************************************************************************)
EXTENDS EventChain, TLAPS

USE DEF NoHash

(***************************************************************************)
(* The invariant.  A table is a sequence of rows, whatever a row may be;   *)
(* one transaction at a time is open, and the table it sees is sound, its  *)
(* own uncommitted rows included.  Hashes are filled in from the first row *)
(* on, so the row before one that was filled in has its hash.              *)
(***************************************************************************)
Shaped(S) ==
  /\ events \in Seq(S)
  /\ tx \in [Writers -> [open : BOOLEAN, rows : Seq(S)]]
  /\ fill \in [Upgraders -> [on : BOOLEAN, rows : Seq(S), done : Seq(S)]]

OneAtATime == \A v, w \in Writers : tx[v].open /\ tx[w].open => v = w

IsRaw(rows, i) == rows[i] = RawRow(rows[i].claim)

IsFilled(rows, i) ==
  /\ rows[i] = Rehashed(RawRow(rows[i].claim), HashAt(rows, i - 1))
  /\ i > 1 => rows[i - 1].hash # NoHash

SoundAt(rows, i) ==
  /\ IsRaw(rows, i) \/ IsFilled(rows, i) \/ Recorded(rows, i)
  /\ FollowsInTenant(rows, i)

Sound(rows) == \A i \in 1..Len(rows) : SoundAt(rows, i)

\* What a process has read is what the table held: a row with a hash is still
\* that row, and one without was raw and still says the same.
ReadRight(read) ==
  /\ Len(read) <= Len(events)
  /\ \A i \in 1..Len(read) :
       IF read[i].hash # NoHash THEN read[i] = events[i]
       ELSE read[i] = RawRow(events[i].claim) /\ events[i].raw

\* What it has worked out of that, and that it agrees with the table where
\* another process has filled the hashes in.
DoneRight(read, done) ==
  /\ Len(done) <= Len(read)
  /\ \A i \in 1..Len(done) :
       /\ done[i] = HashedRow(read[i], HashAt(done, i - 1))
       /\ done[i].hash # NoHash
       /\ events[i].hash # NoHash => events[i] = done[i]

\* Two processes work out the same.
Agree(a, b) == \A i \in 1..Len(a) : i <= Len(b) => a[i] = b[i]

FillsRight ==
  /\ \A u \in Upgraders :
       ReadRight(fill[u].rows) /\ DoneRight(fill[u].rows, fill[u].done)
  /\ \A u, v \in Upgraders : Agree(fill[u].done, fill[v].done)

Whole ==
  /\ OneAtATime
  /\ Sound(events)
  /\ \A w \in Writers : tx[w].open => Sound(Table(w))
  /\ FillsRight

Inv == (\E S : Shaped(S)) /\ Whole

-----------------------------------------------------------------------------
(* Facts about tables. *)

\* Appending a row keeps the rows there are and adds one at the end.
LEMMA AppendKeeps ==
  ASSUME NEW S, NEW rows \in Seq(S), NEW r
  PROVE  /\ Append(rows, r) \in Seq(S \cup {r})
         /\ Len(Append(rows, r)) = Len(rows) + 1
         /\ \A i \in 1..Len(rows) : Append(rows, r)[i] = rows[i]
         /\ Append(rows, r)[Len(rows) + 1] = r
<1>. DEFINE T == S \cup {r}
<1>1. rows \in Seq(T) /\ r \in T
  OBVIOUS
<1>. HIDE DEF T
<1>2. QED
  BY <1>1 DEF T

\* A row appended to the rows of a transaction is appended to its table.
LEMMA AppendConcat ==
  ASSUME NEW S, NEW a \in Seq(S), NEW b \in Seq(S), NEW r
  PROVE  a \o Append(b, r) = Append(a \o b, r)
<1>. DEFINE T == S \cup {r}
<1>1. a \in Seq(T) /\ b \in Seq(T) /\ r \in T
  OBVIOUS
<1>. HIDE DEF T
<1>2. QED
  BY <1>1

\* Whether a row has its hash tells raw rows from the others.
LEMMA Kinds ==
  ASSUME NEW rows, NEW i, SoundAt(rows, i)
  PROVE  /\ rows[i].hash = NoHash <=> IsRaw(rows, i)
         /\ IsRaw(rows, i) \/ IsFilled(rows, i) => rows[i].raw /\ rows[i].tenant = NoTenant
         /\ Recorded(rows, i) => ~rows[i].raw
<1>1. IsRaw(rows, i) => rows[i].hash = NoHash /\ rows[i].raw /\ rows[i].tenant = NoTenant
  BY DEF IsRaw, RawRow
<1>2. ASSUME IsFilled(rows, i)
      PROVE  rows[i].hash # NoHash /\ rows[i].raw /\ rows[i].tenant = NoTenant
  <2>1. PICK c, prev : rows[i] = Rehashed(RawRow(c), prev)
    BY <1>2 DEF IsFilled
  <2>2. QED
    BY <2>1 DEF Rehashed, RawRow, Digest
<1>3. Recorded(rows, i) => rows[i].hash # NoHash /\ ~rows[i].raw
  BY DEF Recorded, Digest
<1>4. QED
  BY <1>1, <1>2, <1>3 DEF SoundAt

\* A table goes on from another: a row with its hash stays, and a row without
\* stays raw and without a tenant.
GoesOn(rows, more) ==
  /\ Len(rows) \in Nat /\ Len(more) \in Nat /\ Len(rows) <= Len(more)
  /\ \A i \in 1..Len(rows) :
       IF rows[i].hash # NoHash THEN more[i] = rows[i]
       ELSE more[i].raw /\ more[i].tenant = NoTenant

\* Going on from a sound table, the rows of each tenant stay the same.
LEMMA SameIds ==
  ASSUME NEW rows, NEW more, Sound(rows), GoesOn(rows, more),
         NEW t, NEW n \in 1..(Len(rows) + 1)
  PROVE  {k \in OfTenant(more, t) : k < n} = {k \in OfTenant(rows, t) : k < n}
<1>1. \A k \in 1..Len(rows) : more[k].tenant = rows[k].tenant
  BY Kinds DEF GoesOn, Sound, SoundAt
<1>2. ASSUME NEW k
      PROVE  k \in OfTenant(more, t) /\ k < n <=> k \in OfTenant(rows, t) /\ k < n
  <2>1. k \in 1..Len(more) /\ k < n <=> k \in 1..Len(rows) /\ k < n
    BY DEF GoesOn
  <2>2. QED
    BY <1>1, <2>1 DEF OfTenant
<1>3. QED
  BY <1>2 DEF OfTenant

\* Going on from a sound table, a row that has its hash is as sound as it was.
LEMMA KeptSound ==
  ASSUME NEW rows, NEW more, Sound(rows), GoesOn(rows, more),
         NEW k \in 1..Len(rows), rows[k].hash # NoHash
  PROVE  SoundAt(more, k)
<1>1. more[k] = rows[k] /\ SoundAt(rows, k) /\ k \in 1..Len(more)
  BY DEF GoesOn, Sound
<1>2. ASSUME NEW j \in 0..Len(rows), j > 0 => rows[j].hash # NoHash
      PROVE  HashAt(more, j) = HashAt(rows, j)
  BY <1>2 DEF GoesOn, HashAt
<1>3. \A j \in 1..Len(rows) : rows[j].raw => more[j].raw
  BY DEF GoesOn
<1>4. CASE IsFilled(rows, k)
  <2>1. k > 1 => k - 1 \in 1..Len(rows) /\ rows[k - 1].hash # NoHash /\ more[k - 1] = rows[k - 1]
    BY <1>4 DEF IsFilled, GoesOn
  <2>2. HashAt(more, k - 1) = HashAt(rows, k - 1)
    BY <2>1 DEF HashAt, GoesOn
  <2>3. IsFilled(more, k)
    BY <1>1, <1>4, <2>1, <2>2 DEF IsFilled
  <2>4. FollowsInTenant(more, k)
    BY <1>1, <1>4, Kinds DEF FollowsInTenant
  <2>5. QED
    BY <2>3, <2>4 DEF SoundAt
<1>5. CASE Recorded(rows, k)
  <2>1. PICK i \in 0..(k - 1) : Skips(rows, k, i)
    BY <1>5 DEF Recorded
  <2>2. i \in 0..Len(rows) /\ (i > 0 => rows[i].hash # NoHash /\ more[i] = rows[i])
    BY <2>1 DEF Skips, GoesOn
  <2>3. HashAt(more, i) = HashAt(rows, i)
    BY <1>2, <2>2
  <2>4. \A j \in (i + 1)..(k - 1) : more[j].raw
    <3>1. \A j \in (i + 1)..(k - 1) : j \in 1..Len(rows)
      BY DEF GoesOn
    <3>2. QED
      BY <1>3, <2>1, <3>1 DEF Skips
  <2>5. Skips(more, k, i)
    BY <1>1, <2>1, <2>2, <2>3, <2>4 DEF Skips
  <2>6. Recorded(more, k)
    BY <1>1, <1>5, <2>5 DEF Recorded
  <2>7. SUFFICES ASSUME rows[k].tenant # NoTenant
                 PROVE  FollowsInTenant(more, k)
    BY <1>1, <2>6 DEF SoundAt, FollowsInTenant
  <2>8. PICK j \in 0..(k - 1) :
          /\ IsLast(j, {x \in OfTenant(rows, rows[k].tenant) : x < k})
          /\ rows[k].tenantPrev = TenantHashAt(rows, j)
    BY <1>1, <2>7 DEF SoundAt, FollowsInTenant
  <2>9. {x \in OfTenant(more, rows[k].tenant) : x < k}
          = {x \in OfTenant(rows, rows[k].tenant) : x < k}
    <3>1. k \in 1..(Len(rows) + 1)
      BY DEF GoesOn
    <3>2. QED
      BY <3>1, SameIds
  <2>10. TenantHashAt(more, j) = TenantHashAt(rows, j)
    <3>1. CASE j = 0
      BY <3>1 DEF TenantHashAt
    <3>2. CASE j # 0
      <4>1. j \in OfTenant(rows, rows[k].tenant)
        BY <2>8, <3>2 DEF IsLast
      <4>2. j \in 1..Len(rows) /\ rows[j].tenant # NoTenant
        BY <2>7, <4>1 DEF OfTenant
      <4>3. rows[j].hash # NoHash
        BY <4>2, Kinds DEF Sound
      <4>4. more[j] = rows[j]
        BY <4>2, <4>3 DEF GoesOn
      <4>5. QED
        BY <4>4 DEF TenantHashAt
    <3>3. QED
      BY <3>1, <3>2
  <2>11. QED
    BY <1>1, <2>8, <2>9, <2>10 DEF SoundAt, FollowsInTenant
<1>6. QED
  BY <1>1, <1>4, <1>5, Kinds DEF SoundAt

\* A sound table with one more row: what is left to show is the new row.
LEMMA AppendSound ==
  ASSUME NEW S, NEW rows \in Seq(S), Sound(rows), NEW r,
         SoundAt(Append(rows, r), Len(rows) + 1)
  PROVE  Sound(Append(rows, r))
<1>. DEFINE all == Append(rows, r)
<1>1. /\ Len(rows) \in Nat /\ Len(all) = Len(rows) + 1
      /\ \A k \in 1..Len(rows) : all[k] = rows[k]
  BY AppendKeeps
<1>2. GoesOn(rows, all)
  BY <1>1, Kinds DEF GoesOn, Sound
<1>3. ASSUME NEW k \in 1..Len(rows)
      PROVE  SoundAt(all, k)
  <2>1. CASE rows[k].hash # NoHash
    BY <1>2, <2>1, KeptSound
  <2>2. CASE rows[k].hash = NoHash
    <3>1. IsRaw(rows, k) /\ rows[k].tenant = NoTenant
      BY <2>2, Kinds DEF Sound
    <3>2. IsRaw(all, k) /\ FollowsInTenant(all, k)
      BY <1>1, <3>1 DEF IsRaw, FollowsInTenant
    <3>3. QED
      BY <3>2 DEF SoundAt
  <2>3. QED
    BY <2>1, <2>2
<1>4. \A k \in 1..Len(all) : k \in 1..Len(rows) \/ k = Len(rows) + 1
  BY <1>1
<1>5. QED
  BY <1>3, <1>4 DEF Sound

\* Inserting a raw row leaves the table sound.
LEMMA RawSound ==
  ASSUME NEW S, NEW rows \in Seq(S), Sound(rows), NEW c
  PROVE  Sound(Append(rows, RawRow(c)))
<1>1. Append(rows, RawRow(c))[Len(rows) + 1] = RawRow(c)
  BY AppendKeeps
<1>2. RawRow(c).claim = c /\ RawRow(c).tenant = NoTenant
  BY DEF RawRow
<1>3. SoundAt(Append(rows, RawRow(c)), Len(rows) + 1)
  BY <1>1, <1>2 DEF SoundAt, IsRaw, FollowsInTenant
<1>4. QED
  BY <1>3, AppendSound

\* Recording extends the chains: the event that is recorded follows the last row
\* with a hash, past raw rows only, and the head of its tenant
\* (_storage_schema.py: _insert_event_row).
LEMMA RecordSound ==
  ASSUME NEW S, NEW rows \in Seq(S), Sound(rows), NEW c \in Claims,
         NEW i \in 0..Len(rows), IsLast(i, Hashed(rows)),
         NEW j \in 0..Len(rows), IsLast(j, OfTenant(rows, TenantOf[c]))
  PROVE  Sound(Append(rows, NewRow(c, HashAt(rows, i), TenantHashAt(rows, j))))
<1>. DEFINE r == NewRow(c, HashAt(rows, i), TenantHashAt(rows, j))
            n == Len(rows)
            all == Append(rows, r)
<1>1. /\ n \in Nat /\ Len(all) = n + 1 /\ (n + 1) - 1 = n
      /\ \A k \in 1..n : all[k] = rows[k]
      /\ all[n + 1] = r
  BY AppendKeeps
<1>2. GoesOn(rows, all)
  BY <1>1, Kinds DEF GoesOn, Sound
<1>3. Recorded(all, n + 1)
  <2>1. ~r.raw /\ r.hash = Digest(r.claim, r.prev) /\ r.prev = HashAt(rows, i)
    BY DEF NewRow
  <2>2. i > 0 => i \in 1..n /\ rows[i].hash # NoHash
    BY DEF IsLast, Hashed
  <2>3. HashAt(all, i) = HashAt(rows, i)
    BY <1>1 DEF HashAt
  <2>4. ASSUME NEW k \in (i + 1)..((n + 1) - 1)
        PROVE  all[k].raw
    <3>1. k \in 1..n /\ k > i
      BY <1>1
    <3>2. rows[k].hash = NoHash
      BY <1>1, <3>1 DEF IsLast, Hashed
    <3>3. rows[k].raw
      BY <3>1, <3>2, Kinds DEF Sound
    <3>4. QED
      BY <1>1, <3>1, <3>3
  <2>5. Skips(all, n + 1, i)
    BY <1>1, <2>1, <2>2, <2>3, <2>4 DEF Skips
  <2>6. i \in 0..((n + 1) - 1)
    BY <1>1
  <2>7. QED
    BY <1>1, <2>1, <2>5, <2>6 DEF Recorded
<1>4. FollowsInTenant(all, n + 1)
  <2>1. r.tenant = TenantOf[c]
    BY DEF NewRow
  <2>2. SUFFICES ASSUME TenantOf[c] # NoTenant
                 PROVE  FollowsInTenant(all, n + 1)
    BY <1>1, <2>1 DEF FollowsInTenant
  <2>3. r.tenantHash = TenantDigest(r.tenant, r.hash, r.tenantPrev)
          /\ r.tenantPrev = TenantHashAt(rows, j)
    BY <2>2 DEF NewRow
  <2>4. {x \in OfTenant(all, TenantOf[c]) : x < n + 1} = OfTenant(rows, TenantOf[c])
    <3>1. n + 1 \in 1..(n + 1)
      BY <1>1
    <3>2. {x \in OfTenant(all, TenantOf[c]) : x < n + 1}
            = {x \in OfTenant(rows, TenantOf[c]) : x < n + 1}
      BY <1>2, <3>1, SameIds
    <3>3. \A x \in OfTenant(rows, TenantOf[c]) : x < n + 1
      BY <1>1 DEF OfTenant
    <3>4. QED
      BY <3>2, <3>3
  <2>5. TenantHashAt(all, j) = TenantHashAt(rows, j)
    BY <1>1 DEF TenantHashAt
  <2>6. j \in 0..((n + 1) - 1)
    BY <1>1
  <2>7. QED
    BY <1>1, <2>1, <2>3, <2>4, <2>5, <2>6 DEF FollowsInTenant
<1>5. QED
  <2>1. SoundAt(all, n + 1)
    BY <1>3, <1>4 DEF SoundAt
  <2>2. QED
    BY <2>1, AppendSound

-----------------------------------------------------------------------------
(* Filling in the hashes. *)

\* The row that is hashed next.
LEMMA HashNextRight ==
  ASSUME NEW S, NEW read \in Seq(S), NEW done \in Seq(S), Sound(events),
         ReadRight(read), DoneRight(read, done), Len(done) < Len(read),
         events \in Seq(S), NEW row,
         row = HashedRow(read[Len(done) + 1], HashAt(done, Len(done)))
  PROVE  DoneRight(read, Append(done, row))
<1>. DEFINE n == Len(done)
            all == Append(done, row)
<1>1. /\ n \in Nat /\ Len(all) = n + 1 /\ n + 1 \in 1..Len(read) /\ (n + 1) - 1 = n
      /\ Len(read) \in Nat /\ Len(events) \in Nat
      /\ \A k \in 1..n : all[k] = done[k]
      /\ all[n + 1] = row
  BY AppendKeeps
<1>2. \A k \in 0..n : HashAt(all, k) = HashAt(done, k)
  BY <1>1 DEF HashAt
<1>3. row.hash # NoHash
  <2>1. CASE read[n + 1].hash # NoHash
    BY <2>1 DEF HashedRow
  <2>2. CASE read[n + 1].hash = NoHash
    <3>1. PICK c : read[n + 1] = RawRow(c)
      BY <1>1, <2>2 DEF ReadRight
    <3>2. row = Rehashed(RawRow(c), HashAt(done, n))
      BY <2>2, <3>1 DEF HashedRow
    <3>3. QED
      BY <3>2 DEF Rehashed, RawRow, Digest
  <2>3. QED
    BY <2>1, <2>2
<1>4. ASSUME events[n + 1].hash # NoHash
      PROVE  events[n + 1] = row
  <2>1. CASE read[n + 1].hash # NoHash
    BY <1>1, <2>1 DEF ReadRight, HashedRow
  <2>2. CASE read[n + 1].hash = NoHash
    <3>1. read[n + 1] = RawRow(events[n + 1].claim) /\ events[n + 1].raw
      BY <1>1, <2>2 DEF ReadRight
    <3>2. n + 1 \in 1..Len(events) /\ SoundAt(events, n + 1)
      BY <1>1 DEF ReadRight, Sound
    <3>3. IsFilled(events, n + 1)
      BY <1>4, <3>1, <3>2, Kinds DEF SoundAt
    <3>4. HashAt(events, n) = HashAt(done, n)
      <4>1. CASE n = 0
        BY <4>1 DEF HashAt
      <4>2. CASE n # 0
        <5>1. n \in 1..n /\ events[n].hash # NoHash
          BY <1>1, <3>3, <4>2 DEF IsFilled
        <5>2. events[n] = done[n]
          BY <5>1 DEF DoneRight
        <5>3. QED
          BY <5>2 DEF HashAt
      <4>3. QED
        BY <4>1, <4>2
    <3>5. events[n + 1] = Rehashed(read[n + 1], HashAt(done, n))
      BY <1>1, <3>1, <3>3, <3>4 DEF IsFilled
    <3>6. QED
      BY <2>2, <3>5 DEF HashedRow
  <2>3. QED
    BY <2>1, <2>2
<1>5. ASSUME NEW i \in 1..Len(all)
      PROVE  /\ all[i] = HashedRow(read[i], HashAt(all, i - 1))
             /\ all[i].hash # NoHash
             /\ events[i].hash # NoHash => events[i] = all[i]
  <2>1. CASE i \in 1..n
    <3>1. i - 1 \in 0..n
      BY <1>1, <2>1
    <3>2. QED
      BY <1>1, <1>2, <2>1, <3>1 DEF DoneRight
  <2>2. CASE i = n + 1
    BY <1>1, <1>2, <1>3, <1>4, <2>2
  <2>3. QED
    BY <1>1, <2>1, <2>2
<1>6. QED
  BY <1>1, <1>5 DEF DoneRight

\* It agrees with what another process has worked out.
LEMMA HashNextAgrees ==
  ASSUME NEW S, NEW read \in Seq(S), NEW done \in Seq(S), Sound(events),
         ReadRight(read), DoneRight(read, done), Len(done) < Len(read),
         NEW read2 \in Seq(S), NEW done2 \in Seq(S),
         ReadRight(read2), DoneRight(read2, done2), Agree(done, done2),
         events \in Seq(S), NEW row,
         row = HashedRow(read[Len(done) + 1], HashAt(done, Len(done)))
  PROVE  Agree(Append(done, row), done2)
<1>. DEFINE n == Len(done)
            all == Append(done, row)
<1>1. /\ n \in Nat /\ Len(all) = n + 1 /\ n + 1 \in 1..Len(read) /\ (n + 1) - 1 = n
      /\ Len(read) \in Nat /\ Len(events) \in Nat /\ Len(read2) \in Nat /\ Len(done2) \in Nat
      /\ \A k \in 1..n : all[k] = done[k]
      /\ all[n + 1] = row
  BY AppendKeeps
<1>2. ASSUME n + 1 <= Len(done2)
      PROVE  row = done2[n + 1]
  <2>1. n + 1 \in 1..Len(done2) /\ n + 1 \in 1..Len(read2)
    BY <1>1, <1>2 DEF DoneRight
  <2>2. HashAt(done, n) = HashAt(done2, n)
    <3>1. n # 0 => n \in 1..Len(done) /\ n <= Len(done2)
      BY <1>1, <1>2
    <3>2. n # 0 => done[n] = done2[n]
      BY <3>1 DEF Agree
    <3>3. QED
      BY <3>2 DEF HashAt
  <2>3. done2[n + 1] = HashedRow(read2[n + 1], HashAt(done2, n))
    BY <1>1, <2>1 DEF DoneRight
  <2>4. events[n + 1].hash # NoHash => events[n + 1] = row
    <3>1. DoneRight(read, all)
      BY HashNextRight
    <3>2. QED
      BY <1>1, <3>1 DEF DoneRight
  <2>5. events[n + 1].hash # NoHash => events[n + 1] = done2[n + 1]
    BY <2>1 DEF DoneRight
  <2>6. CASE events[n + 1].hash # NoHash
    BY <2>4, <2>5, <2>6
  <2>7. CASE events[n + 1].hash = NoHash
    <3>1. read[n + 1].hash = NoHash /\ read2[n + 1].hash = NoHash
      BY <1>1, <2>1, <2>7 DEF ReadRight
    <3>2. read[n + 1] = read2[n + 1]
      BY <1>1, <2>1, <3>1 DEF ReadRight
    <3>3. QED
      BY <2>2, <2>3, <3>2
  <2>8. QED
    BY <2>6, <2>7
<1>3. QED
  BY <1>1, <1>2 DEF Agree

\* The table with the hashes filled in: a process that has been through all it
\* read writes what it has worked out, and no hash that is there is changed.
LEMMA FilledInRight ==
  ASSUME NEW S, Shaped(S), NEW u \in Upgraders, Sound(events),
         ReadRight(fill[u].rows), DoneRight(fill[u].rows, fill[u].done),
         Len(fill[u].done) = Len(fill[u].rows)
  PROVE  /\ FilledIn(u) \in Seq(S)
         /\ Len(FilledIn(u)) = Len(events)
         /\ \A i \in 1..Len(fill[u].rows) : FilledIn(u)[i] = fill[u].done[i]
         /\ \A i \in 1..Len(events) : i > Len(fill[u].rows) => FilledIn(u)[i] = events[i]
         /\ \A i \in 1..Len(events) : events[i].hash # NoHash => FilledIn(u)[i] = events[i]
<1>. DEFINE read == fill[u].rows
            done == fill[u].done
            new == FilledIn(u)
<1>1. /\ events \in Seq(S) /\ read \in Seq(S) /\ done \in Seq(S)
      /\ Len(read) \in Nat /\ Len(events) \in Nat /\ Len(read) <= Len(events)
  BY DEF Shaped, ReadRight
<1>2. \A i \in 1..Len(events) : new[i] = IF i \in ToWrite(u) THEN done[i] ELSE events[i]
  BY DEF FilledIn
<1>3. \A i \in ToWrite(u) : i \in 1..Len(read) /\ done[i] # read[i] /\ done[i] \in S
  BY <1>1 DEF ToWrite
<1>4. new \in [1..Len(events) -> S]
  <2>1. \A i \in 1..Len(events) : events[i] \in S
    BY <1>1
  <2>2. QED
    BY <1>3, <2>1 DEF FilledIn
<1>5. new \in Seq(S) /\ Len(new) = Len(events)
  BY <1>1, <1>4
<1>6. ASSUME NEW i \in 1..Len(read)
      PROVE  new[i] = done[i] /\ (events[i].hash # NoHash => new[i] = events[i])
  <2>1. i \in 1..Len(events) /\ i \in 1..Len(done)
    BY <1>1
  <2>2. done[i].hash # NoHash /\ (events[i].hash # NoHash => events[i] = done[i])
    BY <2>1 DEF DoneRight
  <2>3. CASE done[i] # read[i]
    BY <1>2, <2>1, <2>2, <2>3 DEF ToWrite
  <2>4. CASE done[i] = read[i]
    <3>1. read[i] = events[i]
      BY <2>2, <2>4 DEF ReadRight
    <3>2. QED
      BY <1>2, <1>3, <2>1, <2>4, <3>1
  <2>5. QED
    BY <2>3, <2>4
<1>7. ASSUME NEW i \in 1..Len(events), i > Len(read)
      PROVE  new[i] = events[i]
  BY <1>1, <1>2, <1>3, <1>7
<1>8. ASSUME NEW i \in 1..Len(events), events[i].hash # NoHash
      PROVE  new[i] = events[i]
  BY <1>1, <1>6, <1>7, <1>8
<1>9. QED
  BY <1>5, <1>6, <1>7, <1>8

\* That table is sound.
LEMMA FilledInSound ==
  ASSUME NEW S, Shaped(S), NEW u \in Upgraders, Sound(events),
         ReadRight(fill[u].rows), DoneRight(fill[u].rows, fill[u].done),
         Len(fill[u].done) = Len(fill[u].rows)
  PROVE  GoesOn(events, FilledIn(u)) /\ Sound(FilledIn(u))
<1>. DEFINE read == fill[u].rows
            done == fill[u].done
            new == FilledIn(u)
<1>1. /\ new \in Seq(S) /\ Len(new) = Len(events)
      /\ \A i \in 1..Len(read) : new[i] = done[i]
      /\ \A i \in 1..Len(events) : i > Len(read) => new[i] = events[i]
      /\ \A i \in 1..Len(events) : events[i].hash # NoHash => new[i] = events[i]
  BY FilledInRight
<1>2. Len(read) \in Nat /\ Len(events) \in Nat /\ Len(read) <= Len(events)
  BY DEF Shaped, ReadRight
<1>. HIDE DEF new
<1>3. ASSUME NEW i \in 1..Len(events), events[i].hash = NoHash, i \in 1..Len(read)
      PROVE  IsFilled(new, i) /\ new[i].tenant = NoTenant /\ new[i].raw
  <2>1. i \in 1..Len(done) /\ read[i].hash = NoHash
    BY <1>2, <1>3 DEF ReadRight
  <2>2. read[i] = RawRow(events[i].claim)
    BY <1>3, <2>1 DEF ReadRight
  <2>3. new[i] = Rehashed(RawRow(events[i].claim), HashAt(done, i - 1))
    BY <1>1, <1>3, <2>1, <2>2 DEF DoneRight, HashedRow
  <2>4. new[i].claim = events[i].claim /\ new[i].tenant = NoTenant /\ new[i].raw
    BY <2>3 DEF Rehashed, RawRow
  <2>5. i > 1 => i - 1 \in 1..Len(read) /\ i - 1 \in 1..Len(done)
    BY <1>2, <1>3
  <2>6. HashAt(new, i - 1) = HashAt(done, i - 1)
    BY <1>1, <2>5 DEF HashAt
  <2>7. i > 1 => new[i - 1].hash # NoHash
    BY <1>1, <2>5 DEF DoneRight
  <2>8. QED
    BY <2>3, <2>4, <2>6, <2>7 DEF IsFilled
<1>4. ASSUME NEW i \in 1..Len(events), events[i].hash = NoHash, i > Len(read)
      PROVE  IsRaw(new, i) /\ new[i].tenant = NoTenant /\ new[i].raw
  <2>1. IsRaw(events, i) /\ new[i] = events[i]
    BY <1>1, <1>4, Kinds DEF Sound
  <2>2. QED
    BY <2>1 DEF IsRaw, RawRow
<1>5. GoesOn(events, new)
  BY <1>1, <1>2, <1>3, <1>4 DEF GoesOn
<1>6. ASSUME NEW i \in 1..Len(events)
      PROVE  SoundAt(new, i)
  <2>1. CASE events[i].hash # NoHash
    BY <1>5, <2>1, KeptSound
  <2>2. CASE events[i].hash = NoHash /\ i \in 1..Len(read)
    BY <1>3, <2>2 DEF SoundAt, FollowsInTenant
  <2>3. CASE events[i].hash = NoHash /\ i > Len(read)
    BY <1>4, <2>3 DEF SoundAt, FollowsInTenant
  <2>4. QED
    BY <1>2, <2>1, <2>2, <2>3
<1>7. QED
  BY <1>1, <1>5, <1>6 DEF Sound, new

\* What other processes have read and worked out is right of that table too.
LEMMA FilledInOthers ==
  ASSUME NEW S, Shaped(S), NEW u \in Upgraders, Sound(events),
         ReadRight(fill[u].rows), DoneRight(fill[u].rows, fill[u].done),
         Len(fill[u].done) = Len(fill[u].rows), events' = FilledIn(u),
         NEW read, NEW done, ReadRight(read), DoneRight(read, done),
         Len(read) \in Nat, Len(done) \in Nat, Agree(fill[u].done, done)
  PROVE  /\ Len(read) <= Len(events')
         /\ \A i \in 1..Len(read) :
              IF read[i].hash # NoHash THEN read[i] = events'[i]
              ELSE read[i] = RawRow(events'[i].claim) /\ events'[i].raw
         /\ \A i \in 1..Len(done) : events'[i].hash # NoHash => events'[i] = done[i]
<1>. DEFINE mine == fill[u].rows
<1>1. /\ Len(events') = Len(events)
      /\ \A i \in 1..Len(mine) : events'[i] = fill[u].done[i]
      /\ \A i \in 1..Len(events) : i > Len(mine) => events'[i] = events[i]
      /\ \A i \in 1..Len(events) : events[i].hash # NoHash => events'[i] = events[i]
  BY FilledInRight
<1>2. Len(mine) \in Nat /\ Len(events) \in Nat /\ Len(mine) <= Len(events)
      /\ Len(read) <= Len(events) /\ Len(done) <= Len(read)
  BY DEF Shaped, ReadRight, DoneRight
<1>3. \A i \in 1..Len(events) : events[i].raw => events'[i].raw
  BY FilledInSound DEF GoesOn
<1>4. ASSUME NEW i \in 1..Len(events), events[i].hash = NoHash
      PROVE  events'[i].claim = events[i].claim
  <2>1. CASE i > Len(mine)
    BY <1>1, <2>1
  <2>2. CASE i \in 1..Len(mine)
    <3>1. mine[i].hash = NoHash /\ i \in 1..Len(fill[u].done)
      BY <1>2, <1>4, <2>2 DEF ReadRight
    <3>2. mine[i] = RawRow(events[i].claim)
      BY <2>2, <3>1 DEF ReadRight
    <3>3. events'[i] = Rehashed(RawRow(events[i].claim), HashAt(fill[u].done, i - 1))
      BY <1>1, <2>2, <3>1, <3>2 DEF DoneRight, HashedRow
    <3>4. QED
      BY <3>3 DEF Rehashed, RawRow
  <2>3. QED
    BY <1>2, <2>1, <2>2
<1>5. ASSUME NEW i \in 1..Len(read)
      PROVE  IF read[i].hash # NoHash THEN read[i] = events'[i]
             ELSE read[i] = RawRow(events'[i].claim) /\ events'[i].raw
  <2>1. i \in 1..Len(events)
    BY <1>2
  <2>2. CASE read[i].hash # NoHash
    BY <1>1, <2>1, <2>2 DEF ReadRight
  <2>3. CASE read[i].hash = NoHash
    <3>1. read[i] = RawRow(events[i].claim) /\ events[i].raw
      BY <2>3 DEF ReadRight
    <3>2. events'[i].claim = events[i].claim
      BY <1>1, <1>4, <2>1
    <3>3. QED
      BY <1>3, <2>1, <2>3, <3>1, <3>2
  <2>4. QED
    BY <2>2, <2>3
<1>6. ASSUME NEW i \in 1..Len(done), events'[i].hash # NoHash
      PROVE  events'[i] = done[i]
  <2>1. i \in 1..Len(events)
    BY <1>2
  <2>2. CASE events[i].hash # NoHash
    BY <1>1, <2>1, <2>2 DEF DoneRight
  <2>3. CASE events[i].hash = NoHash
    <3>1. i \in 1..Len(mine)
      BY <1>1, <1>2, <1>6, <2>1, <2>3
    <3>2. fill[u].done[i] = done[i]
      BY <3>1 DEF Agree
    <3>3. QED
      BY <1>1, <3>1, <3>2
  <2>4. QED
    BY <2>2, <2>3
<1>7. QED
  BY <1>1, <1>2, <1>5, <1>6

-----------------------------------------------------------------------------
(* The invariant is inductive. *)

\* The shape of a table does not change when the set of rows grows.
LEMMA ShapedGrows ==
  ASSUME NEW S, NEW r, Shaped(S)
  PROVE  Shaped(S \cup {r})
<1>. DEFINE T == S \cup {r}
<1>1. \A s \in Seq(S) : s \in Seq(T)
  OBVIOUS
<1>. HIDE DEF T
<1>2. events \in Seq(T)
  BY <1>1 DEF Shaped
<1>3. [open : BOOLEAN, rows : Seq(S)] \subseteq [open : BOOLEAN, rows : Seq(T)]
  BY <1>1
<1>4. [on : BOOLEAN, rows : Seq(S), done : Seq(S)]
        \subseteq [on : BOOLEAN, rows : Seq(T), done : Seq(T)]
  BY <1>1
<1>5. Shaped(T)
  BY <1>2, <1>3, <1>4 DEF Shaped
<1>6. QED
  BY <1>5 DEF T

\* A database starts with old rows that have no hashes.
LEMMA InitWhole ==
  ASSUME Init
  PROVE  Inv
<1>. DEFINE S == {RawRow(c) : c \in Claims}
<1>1. /\ Legacy \in Seq(Claims) /\ Len(Legacy) \in Nat
      /\ events = [i \in 1..Len(Legacy) |-> RawRow(Legacy[i])]
  BY EventChainAssumption DEF Init
<1>2. \A i \in 1..Len(Legacy) : RawRow(Legacy[i]) \in S
  BY <1>1
<1>. HIDE DEF S
<1>3. events \in Seq(S) /\ Len(events) = Len(Legacy)
  BY <1>1, <1>2
<1>4. Shaped(S)
  BY <1>3 DEF Init, Shaped, Closed, NoFill
<1>5. ASSUME NEW i \in 1..Len(events)
      PROVE  SoundAt(events, i)
  <2>1. events[i] = RawRow(Legacy[i])
    BY <1>1, <1>3
  <2>2. events[i].claim = Legacy[i] /\ events[i].tenant = NoTenant
    BY <2>1 DEF RawRow
  <2>3. QED
    BY <2>1, <2>2 DEF SoundAt, IsRaw, FollowsInTenant
<1>6. \A u \in Upgraders : fill[u] = NoFill
  BY DEF Init
<1>7. \A u \in Upgraders : ReadRight(fill[u].rows) /\ DoneRight(fill[u].rows, fill[u].done)
  BY <1>1, <1>3, <1>6 DEF NoFill, ReadRight, DoneRight
<1>8. \A u, v \in Upgraders : Agree(fill[u].done, fill[v].done)
  BY <1>6 DEF NoFill, Agree
<1>9. \A w \in Writers : ~tx[w].open
  BY DEF Init, Closed
<1>10. Whole
  BY <1>5, <1>7, <1>8, <1>9 DEF Whole, OneAtATime, Sound, FillsRight
<1>11. QED
  BY <1>4, <1>10 DEF Inv

\* What the processes have read and worked out stays right while the table stays.
LEMMA FillsSame ==
  ASSUME FillsRight, events' = events, fill' = fill
  PROVE  FillsRight'
BY DEF FillsRight, ReadRight, DoneRight, Agree

\* It stays right when rows are added at the end of the table.
LEMMA FillsKept ==
  ASSUME NEW S, Shaped(S), FillsRight, fill' = fill,
         NEW more \in Seq(S), events' = events \o more
  PROVE  FillsRight'
<1>1. /\ Len(events) \in Nat /\ Len(events') \in Nat /\ Len(events) <= Len(events')
      /\ \A i \in 1..Len(events) : events'[i] = events[i]
  BY DEF Shaped
<1>2. ASSUME NEW u \in Upgraders
      PROVE  (ReadRight(fill[u].rows) /\ DoneRight(fill[u].rows, fill[u].done))'
  <2>1. ReadRight(fill[u].rows) /\ DoneRight(fill[u].rows, fill[u].done)
    BY DEF FillsRight
  <2>2. Len(fill[u].rows) \in Nat /\ Len(fill[u].done) \in Nat
    BY DEF Shaped
  <2>3. /\ \A i \in 1..Len(fill[u].rows) : i \in 1..Len(events)
        /\ \A i \in 1..Len(fill[u].done) : i \in 1..Len(events)
    BY <1>1, <2>1, <2>2 DEF ReadRight, DoneRight
  <2>4. ReadRight(fill[u].rows)'
    BY <1>1, <2>1, <2>2, <2>3 DEF ReadRight
  <2>5. DoneRight(fill[u].rows, fill[u].done)'
    BY <1>1, <2>1, <2>3 DEF DoneRight
  <2>6. QED
    BY <2>4, <2>5
<1>3. QED
  BY <1>2 DEF FillsRight, Agree

\* A connection inserts a row.
LEMMA InsertInv ==
  ASSUME Inv, NEW w \in Writers, NEW r, tx[w].open, Sound(Append(Table(w), r)),
         tx' = [tx EXCEPT ![w] = Opened(Append(tx[w].rows, r))],
         events' = events, fill' = fill
  PROVE  Inv'
<1>1. PICK S : Shaped(S)
  BY DEF Inv
<1>2. tx[w].rows \in Seq(S) /\ events \in Seq(S)
  BY <1>1 DEF Shaped
<1>3. Append(tx[w].rows, r) \in Seq(S \cup {r})
  BY <1>2, AppendKeeps
<1>4. Shaped(S \cup {r})'
  BY <1>1, <1>3, ShapedGrows DEF Shaped, Opened
<1>5. tx'[w] = Opened(Append(tx[w].rows, r))
  BY <1>1 DEF Shaped
<1>6. Table(w)' = Append(Table(w), r)
  <2>1. events \o Append(tx[w].rows, r) = Append(events \o tx[w].rows, r)
    <3>1. PICK a \in Seq(S), b \in Seq(S) : a = events /\ b = tx[w].rows
      BY <1>2
    <3>2. a \o Append(b, r) = Append(a \o b, r)
      BY AppendConcat
    <3>3. QED
      BY <3>1, <3>2
  <2>2. tx'[w].rows = Append(tx[w].rows, r)
    BY <1>5 DEF Opened
  <2>3. events' \o tx'[w].rows = Append(events \o tx[w].rows, r)
    BY <2>1, <2>2
  <2>4. QED
    BY <2>3, Zenon DEF Table
<1>7. \A v \in Writers : tx'[v].open => v = w
  <2>1. \A v \in Writers : v # w => tx'[v] = tx[v]
    BY <1>1 DEF Shaped
  <2>2. QED
    BY <2>1 DEF Inv, Whole, OneAtATime
<1>8. FillsRight'
  BY FillsSame DEF Inv, Whole
<1>9. Sound(events)'
  BY DEF Inv, Whole, Sound
<1>10. \A v \in Writers : tx'[v].open => Sound(Table(v)')
  BY <1>6, <1>7
<1>11. Whole'
  BY <1>7, <1>8, <1>9, <1>10 DEF Whole, OneAtATime
<1>12. QED
  BY <1>4, <1>11 DEF Inv

\* Every step of a connection keeps the invariant.
LEMMA RecordingInv ==
  ASSUME Inv, NEW w \in Writers, Recording(w)
  PROVE  Inv'
<1>1. PICK S : Shaped(S)
  BY DEF Inv
<1>2. tx[w].rows \in Seq(S) /\ events \in Seq(S) /\ Table(w) \in Seq(S)
  BY <1>1 DEF Shaped, Table
<1>3. CASE Begin(w)
  <2>1. Shaped(S)'
    BY <1>1, <1>3 DEF Shaped, Begin, Opened
  <2>2. tx'[w] = Opened(<<>>) /\ events' = events /\ fill' = fill
    BY <1>1, <1>3 DEF Begin, Shaped
  <2>3. \A v \in Writers : tx'[v].open => v = w
    BY <1>1, <1>3 DEF Begin, Shaped
  <2>4. Table(w)' = events
    BY <1>2, <2>2 DEF Table, Opened
  <2>5. FillsRight'
    BY <2>2, FillsSame DEF Inv, Whole
  <2>6. Whole'
    BY <2>2, <2>3, <2>4, <2>5 DEF Inv, Whole, OneAtATime
  <2>7. QED
    BY <2>1, <2>6 DEF Inv
<1>4. ASSUME NEW c \in Claims, Record(w, c)
      PROVE  Inv'
  <2>1. PICK i, j \in 0..Len(Table(w)) :
          /\ IsLast(i, Hashed(Table(w)))
          /\ IsLast(j, OfTenant(Table(w), TenantOf[c]))
          /\ tx' = [tx EXCEPT ![w] = Opened(Append(tx[w].rows,
                       NewRow(c, HashAt(Table(w), i), TenantHashAt(Table(w), j))))]
    BY <1>4 DEF Record
  <2>2. PICK r : r = NewRow(c, HashAt(Table(w), i), TenantHashAt(Table(w), j))
    OBVIOUS
  <2>3. tx[w].open /\ events' = events /\ fill' = fill
    BY <1>4 DEF Record
  <2>4. Sound(Append(Table(w), r))
    BY <1>2, <2>1, <2>2, <2>3, RecordSound DEF Inv, Whole
  <2>5. tx' = [tx EXCEPT ![w] = Opened(Append(tx[w].rows, r))]
    BY <2>1, <2>2
  <2>6. QED
    BY <2>3, <2>4, <2>5, InsertInv
<1>5. ASSUME NEW c \in Claims, RecordRaw(w, c)
      PROVE  Inv'
  <2>1. tx[w].open /\ events' = events /\ fill' = fill
          /\ tx' = [tx EXCEPT ![w] = Opened(Append(tx[w].rows, RawRow(c)))]
    BY <1>5 DEF RecordRaw
  <2>2. Sound(Append(Table(w), RawRow(c)))
    BY <1>2, <2>1, RawSound DEF Inv, Whole
  <2>3. QED
    BY <2>1, <2>2, InsertInv
<1>6. CASE Commit(w)
  <2>1. tx' = [tx EXCEPT ![w] = Closed] /\ events' = events \o tx[w].rows
          /\ events' = Table(w) /\ fill' = fill /\ tx[w].open
    BY <1>6 DEF Commit, Table
  <2>2. Shaped(S)'
    BY <1>1, <1>2, <2>1 DEF Shaped, Closed
  <2>3. \A v \in Writers : ~tx'[v].open
    BY <1>1, <2>1 DEF Shaped, Closed, Inv, Whole, OneAtATime
  <2>4. FillsRight'
    BY <1>1, <1>2, <2>1, FillsKept DEF Inv, Whole
  <2>5. Whole'
    BY <2>1, <2>3, <2>4 DEF Inv, Whole, OneAtATime
  <2>6. QED
    BY <2>2, <2>5 DEF Inv
<1>7. CASE Rollback(w)
  <2>1. tx' = [tx EXCEPT ![w] = Closed] /\ events' = events /\ fill' = fill /\ tx[w].open
    BY <1>7 DEF Rollback
  <2>2. Shaped(S)'
    BY <1>1, <2>1 DEF Shaped, Closed
  <2>3. \A v \in Writers : ~tx'[v].open
    BY <1>1, <2>1 DEF Shaped, Closed, Inv, Whole, OneAtATime
  <2>4. FillsRight'
    BY <2>1, FillsSame DEF Inv, Whole
  <2>5. Whole'
    BY <2>1, <2>3, <2>4 DEF Inv, Whole, OneAtATime
  <2>6. QED
    BY <2>2, <2>5 DEF Inv
<1>8. QED
  BY <1>3, <1>4, <1>5, <1>6, <1>7 DEF Recording

\* A process reads the rows, or none if it has nothing to fill in.
LEMMA ReadRowsInv ==
  ASSUME Inv, NEW u \in Upgraders, ReadRows(u)
  PROVE  Inv'
<1>1. PICK S : Shaped(S)
  BY DEF Inv
<1>2. PICK read : read \in {events, <<>>} /\ fill' = [fill EXCEPT ![u] = Filling(read, <<>>)]
  BY DEF ReadRows
<1>3. events' = events /\ tx' = tx
  BY DEF ReadRows
<1>4. Shaped(S)'
  <2>1. read \in Seq(S) /\ <<>> \in Seq(S)
    <3>1. <<>> \in Seq(S)
      OBVIOUS
    <3>2. events \in Seq(S)
      BY <1>1 DEF Shaped
    <3>3. QED
      BY <1>2, <3>1, <3>2, Zenon
  <2>2. Filling(read, <<>>) \in [on : BOOLEAN, rows : Seq(S), done : Seq(S)]
    BY <2>1 DEF Filling
  <2>3. QED
    BY <1>1, <1>2, <1>3, <2>2 DEF Shaped
<1>5. /\ fill'[u].rows = read /\ fill'[u].done = <<>>
      /\ \A v \in Upgraders : v # u => fill'[v] = fill[v]
  BY <1>1, <1>2 DEF Shaped, Filling
<1>6. ReadRight(read)
  <2>1. ReadRight(<<>>)
    BY <1>1 DEF Shaped, ReadRight
  <2>2. ASSUME NEW i \in 1..Len(events), events[i].hash = NoHash
        PROVE  events[i] = RawRow(events[i].claim) /\ events[i].raw
    BY <2>2, Kinds DEF Inv, Whole, Sound, IsRaw
  <2>3. ReadRight(events)
    BY <1>1, <2>2 DEF Shaped, ReadRight
  <2>4. QED
    BY <1>2, <2>1, <2>3
<1>7. DoneRight(read, <<>>)
  <2>1. Len(read) \in Nat
    BY <1>1, <1>2 DEF Shaped
  <2>2. QED
    BY <2>1 DEF DoneRight
<1>8. \A v \in Upgraders : ReadRight(fill'[v].rows) /\ DoneRight(fill'[v].rows, fill'[v].done)
  BY <1>5, <1>6, <1>7 DEF Inv, Whole, FillsRight
<1>9. \A v, x \in Upgraders : Agree(fill'[v].done, fill'[x].done)
  <2>1. ASSUME NEW a, NEW S2, a \in Seq(S2)
        PROVE  Agree(<<>>, a) /\ Agree(a, <<>>)
    BY <2>1 DEF Agree
  <2>2. \A v \in Upgraders : fill[v].done \in Seq(S)
    BY <1>1 DEF Shaped
  <2>3. <<>> \in Seq(S)
    OBVIOUS
  <2>4. QED
    BY <1>5, <2>1, <2>2, <2>3 DEF Inv, Whole, FillsRight
<1>10. FillsRight'
  BY <1>3, <1>8, <1>9 DEF FillsRight, ReadRight, DoneRight, Agree
<1>11. Whole'
  BY <1>3, <1>10 DEF Inv, Whole, OneAtATime, Table, Sound
<1>12. QED
  BY <1>4, <1>11 DEF Inv

\* A process works out the hash of one more row.
LEMMA HashNextRowInv ==
  ASSUME Inv, NEW u \in Upgraders, HashNextRow(u)
  PROVE  Inv'
<1>1. PICK S : Shaped(S)
  BY DEF Inv
<1>. DEFINE read == fill[u].rows
            done == fill[u].done
<1>2. PICK row : row = HashedRow(read[Len(done) + 1], HashAt(done, Len(done)))
  OBVIOUS
<1>3. /\ events' = events /\ tx' = tx /\ Len(done) < Len(read)
      /\ fill' = [fill EXCEPT ![u] = Filling(read, Append(done, row))]
  BY <1>1, <1>2 DEF HashNextRow, Shaped
<1>4. read \in Seq(S) /\ done \in Seq(S) /\ events \in Seq(S)
  BY <1>1 DEF Shaped
<1>5. Append(done, row) \in Seq(S \cup {row})
  BY <1>4, AppendKeeps
<1>6. Shaped(S \cup {row})
  BY <1>1, ShapedGrows
<1>7. Shaped(S \cup {row})'
  BY <1>3, <1>5, <1>6 DEF Shaped, Filling
<1>8. /\ fill'[u].rows = read /\ fill'[u].done = Append(done, row)
      /\ \A v \in Upgraders : v # u => fill'[v] = fill[v]
  BY <1>1, <1>3 DEF Shaped, Filling
<1>9. \A v \in Upgraders : fill[v].rows \in Seq(S) /\ fill[v].done \in Seq(S)
                            /\ ReadRight(fill[v].rows) /\ DoneRight(fill[v].rows, fill[v].done)
  BY <1>1 DEF Shaped, Inv, Whole, FillsRight
<1>10. Sound(events)
  BY DEF Inv, Whole
<1>11. DoneRight(read, Append(done, row))
  BY <1>2, <1>3, <1>4, <1>9, <1>10, HashNextRight
<1>12. ASSUME NEW v \in Upgraders
       PROVE  Agree(Append(done, row), fill[v].done)
  <2>1. Agree(done, fill[v].done)
    BY DEF Inv, Whole, FillsRight
  <2>2. QED
    BY <1>2, <1>3, <1>4, <1>9, <1>10, <2>1, HashNextAgrees
<1>13. \A v \in Upgraders : Agree(fill[v].done, Append(done, row))
  <2>1. ASSUME NEW v \in Upgraders
        PROVE  Agree(fill[v].done, Append(done, row))
    <3>1. Len(fill[v].done) \in Nat /\ Len(Append(done, row)) \in Nat
      BY <1>4, <1>9, AppendKeeps
    <3>2. QED
      BY <1>12, <3>1 DEF Agree
  <2>2. QED
    BY <2>1
<1>14. Agree(Append(done, row), Append(done, row))
  BY DEF Agree
<1>15. \A v, x \in Upgraders : Agree(fill'[v].done, fill'[x].done)
  BY <1>8, <1>12, <1>13, <1>14 DEF Inv, Whole, FillsRight
<1>16. \A v \in Upgraders : ReadRight(fill'[v].rows) /\ DoneRight(fill'[v].rows, fill'[v].done)
  BY <1>8, <1>9, <1>11
<1>17. FillsRight'
  BY <1>3, <1>15, <1>16 DEF FillsRight, ReadRight, DoneRight, Agree
<1>18. Whole'
  BY <1>3, <1>17 DEF Inv, Whole, OneAtATime, Table, Sound
<1>19. QED
  BY <1>7, <1>18 DEF Inv

\* A process that ends, having written nothing, leaves the rest as it is.
LEMMA EndInv ==
  ASSUME Inv, NEW u \in Upgraders, fill' = [fill EXCEPT ![u] = NoFill],
         events' = events, tx' = tx
  PROVE  Inv'
<1>1. PICK S : Shaped(S)
  BY DEF Inv
<1>2. Shaped(S)'
  BY <1>1 DEF Shaped, NoFill
<1>3. /\ fill'[u].rows = <<>> /\ fill'[u].done = <<>>
      /\ \A v \in Upgraders : v # u => fill'[v] = fill[v]
  BY <1>1 DEF Shaped, NoFill
<1>4. ReadRight(<<>>) /\ DoneRight(<<>>, <<>>)
  BY <1>1 DEF Shaped, ReadRight, DoneRight
<1>5. \A v \in Upgraders : ReadRight(fill'[v].rows) /\ DoneRight(fill'[v].rows, fill'[v].done)
  BY <1>3, <1>4 DEF Inv, Whole, FillsRight
<1>6. \A v, x \in Upgraders : Agree(fill'[v].done, fill'[x].done)
  <2>1. \A v \in Upgraders : fill[v].done \in Seq(S)
    BY <1>1 DEF Shaped
  <2>2. \A a \in Seq(S) : Agree(<<>>, a) /\ Agree(a, <<>>)
    BY DEF Agree
  <2>3. <<>> \in Seq(S)
    OBVIOUS
  <2>4. QED
    BY <1>3, <2>1, <2>2, <2>3 DEF Inv, Whole, FillsRight
<1>7. FillsRight'
  BY <1>5, <1>6 DEF FillsRight, ReadRight, DoneRight, Agree
<1>8. Whole'
  BY <1>7 DEF Inv, Whole, OneAtATime, Table, Sound
<1>9. QED
  BY <1>2, <1>8 DEF Inv

\* A process writes the hashes it has worked out.
LEMMA FilledInInv ==
  ASSUME Inv, NEW u \in Upgraders, WriteHashes(u), events' = FilledIn(u)
  PROVE  Inv'
<1>1. PICK S : Shaped(S)
  BY DEF Inv
<1>2. /\ fill' = [fill EXCEPT ![u] = NoFill] /\ tx' = tx
      /\ Len(fill[u].done) = Len(fill[u].rows) /\ \A w \in Writers : ~tx[w].open
  BY DEF WriteHashes
<1>3. Sound(events) /\ ReadRight(fill[u].rows) /\ DoneRight(fill[u].rows, fill[u].done)
  BY DEF Inv, Whole, FillsRight
<1>4. events' \in Seq(S) /\ Sound(events)'
  <2>1. FilledIn(u) \in Seq(S) /\ Sound(FilledIn(u))
    BY <1>1, <1>2, <1>3, FilledInRight, FilledInSound
  <2>2. QED
    BY <2>1 DEF Sound
<1>5. Shaped(S)'
  BY <1>1, <1>2, <1>4 DEF Shaped, NoFill
<1>6. /\ fill'[u].rows = <<>> /\ fill'[u].done = <<>>
      /\ \A v \in Upgraders : v # u => fill'[v] = fill[v]
  BY <1>1, <1>2 DEF Shaped, NoFill
<1>7. ASSUME NEW v \in Upgraders
      PROVE  (ReadRight(fill[v].rows) /\ DoneRight(fill[v].rows, fill[v].done))'
  <2>1. CASE v = u
    <3>1. Len(events') \in Nat
      BY <1>4
    <3>2. QED
      BY <1>6, <2>1, <3>1 DEF ReadRight, DoneRight
  <2>2. CASE v # u
    <3>1. Len(fill[v].rows) \in Nat /\ Len(fill[v].done) \in Nat
      BY <1>1 DEF Shaped
    <3>2. ReadRight(fill[v].rows) /\ DoneRight(fill[v].rows, fill[v].done)
            /\ Agree(fill[u].done, fill[v].done)
      BY DEF Inv, Whole, FillsRight
    <3>3. /\ Len(fill[v].rows) <= Len(events')
          /\ \A i \in 1..Len(fill[v].rows) :
               IF fill[v].rows[i].hash # NoHash THEN fill[v].rows[i] = events'[i]
               ELSE fill[v].rows[i] = RawRow(events'[i].claim) /\ events'[i].raw
          /\ \A i \in 1..Len(fill[v].done) :
               events'[i].hash # NoHash => events'[i] = fill[v].done[i]
      BY <1>1, <1>2, <1>3, <3>1, <3>2, FilledInOthers
    <3>4. fill'[v] = fill[v]
      BY <1>6, <2>2
    <3>5. ReadRight(fill[v].rows)'
      BY <3>3, <3>4 DEF ReadRight
    <3>6. DoneRight(fill[v].rows, fill[v].done)'
      BY <3>2, <3>3, <3>4 DEF DoneRight
    <3>7. QED
      BY <3>5, <3>6
  <2>3. QED
    BY <2>1, <2>2
<1>8. \A v, x \in Upgraders : Agree(fill'[v].done, fill'[x].done)
  <2>1. \A v \in Upgraders : fill[v].done \in Seq(S)
    BY <1>1 DEF Shaped
  <2>2. \A a \in Seq(S) : Agree(<<>>, a) /\ Agree(a, <<>>)
    BY DEF Agree
  <2>3. <<>> \in Seq(S)
    OBVIOUS
  <2>4. QED
    BY <1>6, <2>1, <2>2, <2>3 DEF Inv, Whole, FillsRight
<1>9. FillsRight'
  BY <1>7, <1>8 DEF FillsRight, Agree
<1>10. Whole'
  BY <1>2, <1>4, <1>9 DEF Whole, OneAtATime
<1>11. QED
  BY <1>5, <1>10 DEF Inv

\* The invariant is inductive.
LEMMA NextInv ==
  ASSUME Inv, [Next]_vars
  PROVE  Inv'
<1>1. ASSUME NEW w \in Writers, Recording(w)
      PROVE  Inv'
  BY <1>1, RecordingInv
<1>2. ASSUME NEW u \in Upgraders, Upgrading(u)
      PROVE  Inv'
  <2>1. CASE ReadRows(u)
    BY <2>1, ReadRowsInv
  <2>2. CASE HashNextRow(u)
    BY <2>2, HashNextRowInv
  <2>3. CASE WriteHashes(u)
    <3>1. CASE events' = FilledIn(u)
      BY <2>3, <3>1, FilledInInv
    <3>2. CASE events' = events
      BY <2>3, <3>2, EndInv DEF WriteHashes
    <3>3. QED
      BY <2>3, <3>1, <3>2 DEF WriteHashes
  <2>4. CASE UpgraderDies(u)
    BY <2>4, EndInv DEF UpgraderDies
  <2>5. QED
    BY <1>2, <2>1, <2>2, <2>3, <2>4 DEF Upgrading
<1>3. CASE UNCHANGED vars
  <2>1. events' = events /\ tx' = tx /\ fill' = fill
    BY <1>3 DEF vars
  <2>2. FillsRight'
    BY <2>1, FillsSame DEF Inv, Whole
  <2>3. Whole'
    BY <2>1, <2>2 DEF Inv, Whole, OneAtATime, Table, Sound
  <2>4. QED
    BY <2>1, <2>3 DEF Inv, Shaped
<1>4. QED
  BY <1>1, <1>2, <1>3 DEF Next

-----------------------------------------------------------------------------
(* The theorems. *)

\* However events are recorded, with hashes or without, and however many
\* processes fill in what is missing: no hash is wrong, the chains of the tenants
\* are whole, and a broken link skips raw rows only (_storage_schema.py:1069-1121).
THEOREM BrokenLinksSkipRawRows == Spec => []OnlyRawRowsAreSkipped
<1>1. Init => Inv
  BY InitWhole
<1>2. Inv /\ [Next]_vars => Inv'
  BY NextInv
<1>3. Inv => OnlyRawRowsAreSkipped
  <2>1. ASSUME NEW rows, NEW i, IsRaw(rows, i)
        PROVE  Unfilled(rows, i)
    BY <2>1 DEF IsRaw, RawRow, Unfilled
  <2>2. ASSUME NEW rows, NEW i, IsFilled(rows, i)
        PROVE  Filled(rows, i)
    <3>1. rows[i] = Rehashed(RawRow(rows[i].claim), HashAt(rows, i - 1))
      BY <2>2 DEF IsFilled
    <3>2. PICK c, prev : c = rows[i].claim /\ prev = HashAt(rows, i - 1)
      OBVIOUS
    <3>3. rows[i] = Rehashed(RawRow(c), prev)
      BY <3>1, <3>2
    <3>4. rows[i].raw /\ rows[i].hash = Digest(c, prev) /\ rows[i].prev = prev
      BY <3>3 DEF Rehashed, RawRow
    <3>5. QED
      BY <3>2, <3>4 DEF Filled, Follows
  <2>3. QED
    BY <2>1, <2>2 DEF Inv, Whole, Sound, SoundAt, OnlyRawRowsAreSkipped
<1>4. QED
  BY <1>1, <1>2, <1>3, PTL DEF Spec

\* Events are only added and a hash that is there is never changed, whichever
\* rows lack hashes and however many processes that read them at different
\* times fill them in (_storage_schema.py:965-993).
THEOREM HashesNeverChange == Spec => HashesAreFinal
<1>. DEFINE Grows == /\ Len(events) <= Len(events')
                     /\ \A i \in 1..Len(events) :
                          events[i].hash # NoHash => events'[i] = events[i]
<1>1. Init => Inv
  BY InitWhole
<1>2. Inv /\ [Next]_vars => Inv'
  BY NextInv
<1>3. ASSUME Inv, Next
      PROVE  Grows
  <2>1. PICK S : Shaped(S)
    BY <1>3 DEF Inv
  <2>2. ASSUME events' = events
        PROVE  Grows
    BY <2>1, <2>2 DEF Shaped
  <2>3. ASSUME NEW u \in Upgraders, Upgrading(u)
        PROVE  Grows
    <3>1. CASE events' = FilledIn(u) /\ WriteHashes(u)
      <4>1. Sound(events) /\ ReadRight(fill[u].rows)
              /\ DoneRight(fill[u].rows, fill[u].done)
              /\ Len(fill[u].done) = Len(fill[u].rows)
        BY <1>3, <3>1 DEF Inv, Whole, FillsRight, WriteHashes
      <4>2. /\ Len(FilledIn(u)) = Len(events)
            /\ \A i \in 1..Len(events) :
                 events[i].hash # NoHash => FilledIn(u)[i] = events[i]
        BY <2>1, <4>1, FilledInRight
      <4>3. Len(events) \in Nat
        BY <2>1 DEF Shaped
      <4>4. QED
        BY <3>1, <4>2, <4>3
    <3>2. CASE ~(events' = FilledIn(u) /\ WriteHashes(u))
      BY <2>2, <2>3, <3>2 DEF Upgrading, ReadRows, HashNextRow, WriteHashes, UpgraderDies
    <3>3. QED
      BY <3>1, <3>2
  <2>4. ASSUME NEW w \in Writers, Recording(w)
        PROVE  Grows
    <3>1. CASE Commit(w)
      <4>1. events \in Seq(S) /\ tx[w].rows \in Seq(S)
        BY <2>1 DEF Shaped
      <4>2. events' = events \o tx[w].rows
        BY <3>1 DEF Commit, Table
      <4>3. QED
        BY <4>1, <4>2
    <3>2. CASE ~Commit(w)
      BY <2>2, <2>4, <3>2 DEF Recording, Begin, Record, RecordRaw, Rollback
    <3>3. QED
      BY <3>1, <3>2
  <2>5. QED
    BY <1>3, <2>3, <2>4 DEF Next
<1>4. Inv /\ [Next]_vars => [Grows]_vars
  BY <1>3
<1>5. QED
  BY <1>1, <1>2, <1>4, PTL DEF Spec, HashesAreFinal
=============================================================================

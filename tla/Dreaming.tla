------------------------------- MODULE Dreaming -------------------------------
(***************************************************************************)
(* The captures of one session and the runs that digest them               *)
(* (dreaming/capture.py, ledger.py, worker.py, held.py).                   *)
(*                                                                         *)
(* Producers read what is new in the transcript and store it as a capture, *)
(* or append it to the last capture that no run has finished reading.  A   *)
(* run holds a lease and takes a capture through extraction, window by     *)
(* window, the triage of its candidates, consolidation and application,    *)
(* then prunes old captures.  The lease is renewed before each provider    *)
(* call and each write; it runs out while the provider is silent or when   *)
(* its owner has died.  An operator releases held candidates at any time.  *)
(*                                                                         *)
(* A message is its position in the transcript, and a capture a stretch of *)
(* positions, first < m <= last.  A run works on one capture at a time.    *)
(* The idle gate and the retention periods are left open: any capture may  *)
(* be idle, and any closed one old, at any time.                           *)
(***************************************************************************)
EXTENDS Naturals, FiniteSets, FiniteSetsExt

CONSTANTS
  MaxMessages,  \* bound on the length of the transcript
  MaxCaptures,  \* bound on the captures stored
  MinTurns,     \* turns a capture needs to be worked on
  Telling,      \* the messages a candidate is extracted from
  Producers,    \* processes that capture the session
  Workers,      \* processes that run the worker
  MaxCrashes    \* bound on the processes that die

ASSUME DreamingAssumption ==
  /\ MaxMessages \in Nat /\ MaxCaptures \in Nat /\ MaxCrashes \in Nat
  /\ MinTurns \in Nat \ {0}
  /\ Telling \subseteq 1 .. MaxMessages
  /\ "no one" \notin Workers

Messages == 1 .. MaxMessages
Positions == 0 .. MaxMessages
Captures == 1 .. MaxCaptures
NoCapture == 0
NoOne == "no one"

VARIABLES
  said,         \* messages in the transcript
  cursor,       \* the committed position of the producers
  producer,     \* what each producer does
  state,        \* state of each capture
  first, last,  \* the stretch of each capture
  keyEnd,       \* the end of the envelope each capture was made from
  through,      \* the position up to which each capture was extracted
  sent,         \* the messages of each capture the extractor was given
  note,         \* the triage of each candidate
  decided,      \* the candidates of each capture with a decision
  judged,       \* decisions were stored for the capture
  deferred,     \* they are those of a run that ran out of budget
  failed,       \* the stage whose semantic failure is on record
  lease,        \* owner of the worker's lease
  run,          \* what each worker does
  claimed,      \* candidates of each capture that became a claim
  displaced,    \* those whose claim has ever left candidate and confirmed
  applications, \* candidates recorded as applied
  credited,     \* those of them recorded with their claim
  crashes

stretch == <<first, last, keyEnd>>
extraction == <<through, sent>>
review == <<note, decided, judged, deferred, failed>>
applied == <<claimed, displaced, applications, credited>>
capture == <<state, stretch, extraction, review>>
source == <<said, cursor, producer>>
working == <<lease, run>>

vars == <<source, capture, working, applied, crashes>>

CaptureState == {"none", "captured", "retryable", "extracted", "consolidated",
                 "applied", "quarantined", "skipped", "gone"}
Note == {"none", "fresh", "admitted", "held", "released"}
Stage == {"extract", "consolidate", "apply"}

\* A producer has read the transcript from .. to, found the capture .into to
\* append to, or none.
ProducerState == [pc : {"idle", "look", "store", "commit"},
                  from : Positions, to : Positions, into : Captures \cup {NoCapture}]

Capturing(pc, from, to, into) == [pc |-> pc, from |-> from, to |-> to, into |-> into]
Aside == Capturing("idle", 0, 0, NoCapture)

\* A worker has read a capture that ends at .seen, extracted up to .at, and has
\* asked for the messages up to .upto; .base are the decisions it has read,
\* .todo the candidates it wants decided or applied, .old the captures to prune.
RunState == [pc : {"idle", "pick", "window", "extracting", "triage", "consolidate",
                   "consolidating", "pending", "apply", "record", "ignore", "prune"},
             on : Captures \cup {NoCapture}, seen : Positions, at : Positions,
             upto : Positions, base : SUBSET Messages, todo : SUBSET Messages,
             old : SUBSET Captures]

Resting(pc) == [pc |-> pc, on |-> NoCapture, seen |-> 0, at |-> 0, upto |-> 0,
                base |-> {}, todo |-> {}, old |-> {}]
Extracting(pc, c, seen, at, upto) ==
  [pc |-> pc, on |-> c, seen |-> seen, at |-> at, upto |-> upto, base |-> {}, todo |-> {},
   old |-> {}]
Deciding(pc, c, base, todo) ==
  [pc |-> pc, on |-> c, seen |-> 0, at |-> 0, upto |-> 0, base |-> base, todo |-> todo,
   old |-> {}]
Pruning(old) ==
  [pc |-> "prune", on |-> NoCapture, seen |-> 0, at |-> 0, upto |-> 0, base |-> {},
   todo |-> {}, old |-> old]

TypeOK ==
  /\ said \in Positions /\ cursor \in Positions
  /\ producer \in [Producers -> ProducerState]
  /\ state \in [Captures -> CaptureState]
  /\ first \in [Captures -> Positions] /\ last \in [Captures -> Positions]
  /\ keyEnd \in [Captures -> Positions] /\ through \in [Captures -> Positions]
  /\ sent \in [Captures -> SUBSET Messages]
  /\ note \in [Captures -> [Messages -> Note]]
  /\ decided \in [Captures -> SUBSET Messages]
  /\ judged \in [Captures -> BOOLEAN] /\ deferred \in [Captures -> BOOLEAN]
  /\ failed \in [Captures -> Stage \cup {"none"}]
  /\ lease \in Workers \cup {NoOne}
  /\ run \in [Workers -> RunState]
  /\ claimed \in [Captures -> SUBSET Messages]
  /\ displaced \in [Captures -> SUBSET Messages]
  /\ applications \in [Captures -> SUBSET Messages]
  /\ credited \in [Captures -> SUBSET Messages]
  /\ crashes \in 0 .. MaxCrashes


Init ==
  /\ said = 0 /\ cursor = 0
  /\ producer = [p \in Producers |-> Aside]
  /\ state = [c \in Captures |-> "none"]
  /\ first = [c \in Captures |-> 0] /\ last = [c \in Captures |-> 0]
  /\ keyEnd = [c \in Captures |-> 0] /\ through = [c \in Captures |-> 0]
  /\ sent = [c \in Captures |-> {}]
  /\ note = [c \in Captures |-> [m \in Messages |-> "none"]]
  /\ decided = [c \in Captures |-> {}]
  /\ judged = [c \in Captures |-> FALSE] /\ deferred = [c \in Captures |-> FALSE]
  /\ failed = [c \in Captures |-> "none"]
  /\ lease = NoOne
  /\ run = [w \in Workers |-> Resting("idle")]
  /\ claimed = [c \in Captures |-> {}] /\ displaced = [c \in Captures |-> {}]
  /\ applications = [c \in Captures |-> {}] /\ credited = [c \in Captures |-> {}]
  /\ crashes = 0
-----------------------------------------------------------------------------
(* The transcript and its producers *)

Say ==
  /\ said < MaxMessages
  /\ said' = said + 1
  /\ UNCHANGED <<cursor, producer, capture, working, applied, crashes>>

Advance(p, progress) == producer' = [producer EXCEPT ![p] = progress]

\* read_increment: the messages since the committed cursor.  (A transcript
\* only grows here: one that was cut or replaced is read from the start, the
\* generation_reset of capture_control.py:140-149.)
ReadIncrement(p) ==
  /\ producer[p].pc = "idle" /\ cursor < said
  /\ Advance(p, Capturing("look", cursor, said, NoCapture))
  /\ UNCHANGED <<said, cursor, capture, working, applied, crashes>>

Captured == {c \in Captures : state[c] = "captured"}
Stored == {c \in Captures : state[c] \notin {"none", "gone"}}

\* The capture an envelope may be appended to: the one that reaches farthest,
\* the newest of those.
IsLatest(c) ==
  /\ c \in Captured
  /\ \A d \in Captured : last[d] < last[c] \/ (last[d] = last[c] /\ d <= c)

\* The envelope has been stored before, as a capture of its own.
Exact(from, to) == \E c \in Stored : first[c] = from /\ keyEnd[c] = to

\* The latest capture holds the envelope already.
Contained(from, to) ==
  \E c \in Captured : IsLatest(c) /\ to <= last[c] /\ first[c] <= from

\* The envelope follows what the latest capture holds.
Continues(c, from, to) ==
  IsLatest(c) /\ last[c] = from /\ ~ Contained(from, to)

Extend(c, to) ==
  /\ last' = [last EXCEPT ![c] = to]
  /\ UNCHANGED <<state, first, keyEnd, extraction, review>>

\* The row of a new capture.
Create(c, from, to) ==
  /\ state[c] = "none" /\ \A d \in Captures : d < c => state[d] # "none"
  /\ state' = [state EXCEPT ![c] = "captured"]
  /\ first' = [first EXCEPT ![c] = from]
  /\ last' = [last EXCEPT ![c] = to]
  /\ keyEnd' = [keyEnd EXCEPT ![c] = to]
  /\ through' = [through EXCEPT ![c] = from]
  /\ UNCHANGED <<sent, review>>

\* INSERT OR IGNORE: a row of the same key stays as it is.
Insert(from, to) ==
  IF Exact(from, to) THEN UNCHANGED capture
  ELSE \E c \in Captures : Create(c, from, to)

\* enqueue, up to its first write.
Look(p) ==
  LET from == producer[p].from
      to == producer[p].to
      next == {c \in Captures : Continues(c, from, to)} IN
  /\ producer[p].pc = "look"
  /\ \/ /\ Exact(from, to) \/ Contained(from, to)
        /\ Advance(p, Capturing("commit", from, to, NoCapture))
     \/ /\ ~ Exact(from, to) /\ ~ Contained(from, to)
        /\ \E into \in IF next = {} THEN {NoCapture} ELSE next :
             Advance(p, Capturing("store", from, to, into))
  /\ UNCHANGED <<said, cursor, capture, working, applied, crashes>>

\* Mutant: the append is not guarded by the end that was read.
SameUnguarded(c, from) == state[c] = "captured"

\* The capture is as the producer has read it.
Same(c, from) == state[c] = "captured" /\ last[c] = from

\* Another producer has appended to the capture in the meantime.
RaceLost(c, from) == state[c] = "captured" /\ ~ Same(c, from)

\* The append, or a second try under the write lock when another producer was
\* first; a capture of its own when no capture can take the envelope.
StoreEnvelope(into, from, to) ==
  LET again == into # NoCapture /\ RaceLost(into, from)
      next == {c \in Captures : again /\ Continues(c, from, to)} IN
  \/ into # NoCapture /\ Same(into, from) /\ Extend(into, to)
  \/ again /\ Contained(from, to) /\ UNCHANGED capture
  \/ \E c \in next : Extend(c, to)
  \/ /\ into # NoCapture => ~ Same(into, from)
     /\ again => ~ Contained(from, to) /\ next = {}
     /\ Insert(from, to)

Store(p) ==
  /\ producer[p].pc = "store"
  /\ StoreEnvelope(producer[p].into, producer[p].from, producer[p].to)
  /\ Advance(p, Capturing("commit", producer[p].from, producer[p].to, NoCapture))
  /\ UNCHANGED <<said, cursor, working, applied, crashes>>

\* commit_cursor; it writes an older position only when another producer has
\* committed between its read and its write.
Commit(p) ==
  /\ producer[p].pc = "commit"
  /\ \/ cursor' = producer[p].to
     \/ cursor > producer[p].to /\ cursor' = cursor
  /\ Advance(p, Aside)
  /\ UNCHANGED <<said, capture, working, applied, crashes>>

ProducerDies(p) ==
  /\ producer[p].pc # "idle" /\ crashes < MaxCrashes
  /\ crashes' = crashes + 1
  /\ Advance(p, Aside)
  /\ UNCHANGED <<said, cursor, capture, working, applied>>
-----------------------------------------------------------------------------
(* The lease of the worker *)

Enter(w, r) == run' = [run EXCEPT ![w] = r]

\* Its owner is dead, or waits for a provider longer than the lease lasts.
Lapsed == lease # NoOne /\ run[lease].pc \in {"idle", "extracting", "consolidating"}

Acquire(w) ==
  /\ run[w].pc = "idle"
  /\ lease = NoOne \/ Lapsed
  /\ lease' = w
  /\ Enter(w, Resting("pick"))
  /\ UNCHANGED <<source, capture, applied, crashes>>

\* Mutant: a lease that is gone is taken for its own.
HoldsGone(w) == lease \in {w, NoOne}

\* _hold_lease, before each call and each write.
Holds(w) == lease = w

LeaseLost(w) ==
  /\ run[w].pc # "idle" /\ ~ Holds(w)
  /\ Enter(w, Resting("idle"))
  /\ UNCHANGED <<source, capture, lease, applied, crashes>>

WorkerDies(w) ==
  /\ run[w].pc # "idle" /\ crashes < MaxCrashes
  /\ crashes' = crashes + 1
  /\ Enter(w, Resting("idle"))
  /\ UNCHANGED <<source, capture, lease, applied>>

\* A step of the run w, between a renewal of its lease and the next one.
Working(w, pc) == run[w].pc = pc /\ Holds(w) /\ UNCHANGED <<source, lease, crashes>>
-----------------------------------------------------------------------------
(* Extraction *)

Stretch(c) == {m \in Messages : first[c] < m /\ m <= last[c]}

Eligible(c) ==
  /\ state[c] \in {"captured", "retryable", "extracted"}
  /\ last[c] - first[c] >= MinTurns

\* The candidates a run may decide on, by their notes.
Open(notes) == {m \in Messages : notes[m] \notin {"none", "held"}}

Held(c) == {m \in Messages : note[c][m] = "held"}
Released(c) == {m \in Messages : note[c][m] = "released"}

\* _reopened: what a capture with decisions still wants decided.
Reopened(c) ==
  (IF deferred[c] THEN Open(note[c]) ELSE Released(c)) \ decided[c]

\* The capture is extracted: the run goes on with what it has read of it.
\* (Decisions reviewed by another version of the program are made again,
\* worker.py:611-615; the version does not change here.)
Reviewed(c) ==
  IF judged[c] THEN Deciding("consolidate", c, decided[c], Reopened(c))
  ELSE Deciding("triage", c, {}, Open(note[c]))

Pick(w, c) ==
  /\ Working(w, "pick") /\ Eligible(c)
  /\ Enter(w, IF through[c] = last[c] THEN Reviewed(c)
              ELSE Extracting("window", c, last[c], through[c], 0))
  /\ UNCHANGED <<capture, applied>>

\* Nothing is idle long enough, or the budget for extraction is spent.
ExtractNone(w) ==
  /\ run[w].pc \in {"pick", "window"} /\ Working(w, run[w].pc)
  /\ Enter(w, Resting("pending"))
  /\ UNCHANGED <<capture, applied>>

\* next_window: some of the messages that were read, from the cursor on.
CallExtractor(w, upto) ==
  LET r == run[w] IN
  /\ Working(w, "window")
  /\ upto \in (r.at + 1) .. r.seen
  /\ sent' = [sent EXCEPT ![r.on] = @ \cup ((r.at + 1) .. upto)]
  /\ Enter(w, Extracting("extracting", r.on, r.seen, r.at, upto))
  /\ UNCHANGED <<state, stretch, through, review, applied>>

\* Mutant: the end of the window is compared with the length that was read.
WindowIsLastAsRead(c, r) == r.upto = r.seen

\* The window was the last one of the capture as it is now.
WindowIsLast(c, r) == Max({through[c], r.upto}) >= last[c]

\* The candidates of the window, next to those already there.
Extracted(c, r) ==
  [m \in Messages |-> IF m \in Telling /\ r.at < m /\ m <= r.upto /\ note[c][m] = "none"
                      THEN "fresh" ELSE note[c][m]]

\* save_extraction_window; a capture appended to during the call is left for
\* another run, and so is one with more windows than a run takes.
SaveWindow(w, more) ==
  LET r == run[w]
      c == r.on
      reached == Min({last[c], Max({through[c], r.upto})}) IN
  /\ Working(w, "extracting")
  /\ through' = [through EXCEPT ![c] = reached]
  /\ note' = [note EXCEPT ![c] = Extracted(c, r)]
  /\ IF WindowIsLast(c, r)
     THEN /\ state' = [state EXCEPT ![c] = "extracted"]
          /\ failed' = [failed EXCEPT ![c] = "none"]
          /\ deferred' = [deferred EXCEPT ![c] = FALSE]
          /\ Enter(w, Deciding("triage", c, {}, Open(Extracted(c, r))))
     ELSE /\ UNCHANGED <<state, failed, deferred>>
          /\ Enter(w, IF more /\ last[c] = r.seen
                      THEN Extracting("window", c, last[c], reached, 0)
                      ELSE Resting("pending"))
  /\ UNCHANGED <<stretch, sent, decided, judged, applied>>

\* _mark_semantic_failure: the second failure of a stage in validation puts
\* the capture in quarantine, and so does a failure of any kind that brings
\* its errors to their limit; otherwise it is left to be retried.
Fail(w, stage, semantic, limit) ==
  LET c == run[w].on
      same == failed[c] = stage IN
  /\ state' = [state EXCEPT ![c] =
       IF limit \/ (semantic /\ same) THEN "quarantined" ELSE "retryable"]
  /\ failed' = [failed EXCEPT ![c] = IF semantic \/ same THEN stage ELSE "none"]
  /\ deferred' = [deferred EXCEPT ![c] = FALSE]
  /\ Enter(w, Resting("pending"))
  /\ UNCHANGED <<stretch, extraction, note, decided, judged, applied>>

ExtractionFails(w, semantic, limit) ==
  Working(w, "extracting") /\ Fail(w, "extract", semantic, limit)
-----------------------------------------------------------------------------
(* Triage and consolidation *)

\* Mutant: a candidate that does not pass is rejected.
TriagedRejected(c, hold) ==
  [m \in Messages |-> IF note[c][m] # "fresh" THEN note[c][m]
                      ELSE IF m \in hold THEN "rejected" ELSE "admitted"]

Triaged(c, hold) ==
  [m \in Messages |-> IF note[c][m] # "fresh" THEN note[c][m]
                      ELSE IF m \in hold THEN "held" ELSE "admitted"]

\* _triage: each candidate without a note is held or admitted, once.
Triage(w, hold) ==
  LET r == run[w]
      c == r.on
      fresh == {m \in Messages : note[c][m] = "fresh"} IN
  /\ Working(w, "triage")
  /\ hold \subseteq fresh
  /\ note' = [note EXCEPT ![c] = Triaged(c, hold)]
  /\ Enter(w, Deciding("consolidate", c, {},
                IF fresh = {} THEN r.todo ELSE Open(Triaged(c, hold))))
  /\ UNCHANGED <<state, stretch, extraction, decided, judged, deferred, failed, applied>>

CallConsolidator(w) ==
  LET r == run[w] IN
  /\ Working(w, "consolidate") /\ r.todo # {}
  /\ Enter(w, Deciding("consolidating", r.on, r.base, r.todo))
  /\ UNCHANGED <<capture, applied>>

\* Mutant: a capture is closed without looking for released candidates again.
StaysOpenUnread(c, decisions) == FALSE

\* A candidate was released that has no decision yet.
StaysOpen(c, decisions) == Released(c) \ decisions # {}

\* _set_capture for a capture that is done.
Close(c, as, decisions) ==
  state' = [state EXCEPT ![c] = IF StaysOpen(c, decisions) THEN "extracted" ELSE as]

\* set_decisions, with the decisions the run has read and those it has made.
SetDecisions(w, decisions) ==
  LET c == run[w].on IN
  /\ Close(c, "consolidated", decisions)
  /\ decided' = [decided EXCEPT ![c] = decisions]
  /\ judged' = [judged EXCEPT ![c] = TRUE]
  /\ deferred' = [deferred EXCEPT ![c] = FALSE]
  /\ Enter(w, Resting("pending"))
  /\ UNCHANGED <<stretch, extraction, note, applied>>

\* Nothing to decide: the decisions that were there stand, and so does the
\* failure on record.
NothingToDecide(w) ==
  /\ Working(w, "consolidate") /\ run[w].todo = {}
  /\ SetDecisions(w, run[w].base)
  /\ failed' = [failed EXCEPT ![run[w].on] = IF judged[run[w].on] THEN @ ELSE "none"]

Decide(w) ==
  /\ Working(w, "consolidating")
  /\ SetDecisions(w, run[w].base \cup run[w].todo)
  /\ failed' = [failed EXCEPT ![run[w].on] = "none"]

ConsolidationFails(w, semantic, limit) ==
  Working(w, "consolidating") /\ Fail(w, "consolidate", semantic, limit)

\* A failure of the provider as a whole: the capture stays as it is.
ProviderFails(w) ==
  /\ Working(w, "consolidating")
  /\ Enter(w, Resting("pending"))
  /\ UNCHANGED <<capture, applied>>

\* The budget ends before a call (made = {}) or between two of them: the
\* decisions made so far are kept (checkpoint_decisions).
Defer(w, made) ==
  LET r == run[w]
      c == r.on IN
  /\ run[w].pc \in {"consolidate", "consolidating"} /\ Working(w, run[w].pc)
  /\ r.todo # {} /\ made \subseteq r.todo /\ made # r.todo
  /\ made # {} => run[w].pc = "consolidating"
  /\ state' = [state EXCEPT ![c] = "extracted"]
  /\ decided' = [decided EXCEPT ![c] = IF made = {} THEN @ ELSE r.base \cup made]
  /\ judged' = [judged EXCEPT ![c] = @ \/ made # {}]
  /\ deferred' = [deferred EXCEPT ![c] = TRUE]
  /\ Enter(w, Resting("pending"))
  /\ UNCHANGED <<stretch, extraction, note, failed, applied>>
-----------------------------------------------------------------------------
(* Application *)

PickPending(w, c) ==
  /\ Working(w, "pending") /\ state[c] = "consolidated"
  /\ Enter(w, Deciding("apply", c, {}, decided[c]))
  /\ UNCHANGED <<capture, applied>>

\* Mutant: the claim a run before made of the candidate counts as another's.
IgnorableOwn(c, m) == TRUE

\* A decision makes no claim: to ignore, rejected by the source review, a
\* proposal of stale, already remembered by another claim, or the claim made
\* of the candidate before is neither a candidate nor confirmed any more.
Ignorable(c, m) == m \in claimed[c] => m \in displaced[c]

\* Mutant: an ingest that failed is taken for one that was done.
IngestSwallowed(w, m) ==
  LET r == run[w] IN
  /\ Working(w, "apply") /\ m \in r.todo
  /\ Enter(w, Deciding("record", r.on, {m}, r.todo))
  /\ UNCHANGED <<capture, applied>>

\* _apply_decision, unless its application is on record.  A claim is ingested
\* under a key of the candidate, so once more changes nothing.
Ingest(w, m) ==
  LET r == run[w] IN
  /\ Working(w, "apply") /\ m \in r.todo
  /\ \/ /\ m \in applications[r.on]
        /\ Enter(w, Deciding("apply", r.on, {}, r.todo \ {m}))
        /\ UNCHANGED claimed
     \/ /\ m \notin applications[r.on] /\ Ignorable(r.on, m)
        /\ Enter(w, Deciding("ignore", r.on, {m}, r.todo))
        /\ UNCHANGED claimed
     \/ /\ m \notin applications[r.on]
        /\ Enter(w, Deciding("record", r.on, {m}, r.todo))
        /\ claimed' = [claimed EXCEPT ![r.on] = @ \cup {m}]
  /\ UNCHANGED <<capture, displaced, applications, credited>>

\* record_application, with the claim or without.
RecordApplication(w) ==
  LET r == run[w] IN
  /\ r.pc \in {"record", "ignore"} /\ Working(w, r.pc)
  /\ applications' = [applications EXCEPT ![r.on] = @ \cup r.base]
  /\ credited' = IF r.pc = "record" THEN [credited EXCEPT ![r.on] = @ \cup r.base]
                 ELSE credited
  /\ Enter(w, Deciding("apply", r.on, {}, r.todo \ r.base))
  /\ UNCHANGED <<capture, claimed, displaced>>

\* The rest of the system takes a claim out of candidate and confirmed.
Displace(c, m) ==
  /\ m \in claimed[c] \ displaced[c]
  /\ displaced' = [displaced EXCEPT ![c] = @ \cup {m}]
  /\ UNCHANGED <<source, capture, working, claimed, applications, credited, crashes>>

ApplicationFails(w, semantic, limit) ==
  Working(w, "apply") /\ run[w].todo # {} /\ Fail(w, "apply", semantic, limit)

MarkApplied(w) ==
  LET c == run[w].on IN
  /\ Working(w, "apply") /\ run[w].todo = {}
  /\ Close(c, "applied", decided[c])
  /\ failed' = [failed EXCEPT ![c] = "none"]
  /\ deferred' = [deferred EXCEPT ![c] = FALSE]
  /\ Enter(w, Resting("pending"))
  /\ UNCHANGED <<stretch, extraction, note, decided, judged, applied>>
-----------------------------------------------------------------------------
(* The end of a run *)

\* retire_below_min_turns, and the selection of the captures to prune.
Retire(w, skip, prune) ==
  /\ Working(w, "pending")
  /\ skip \subseteq {c \in Captured : last[c] - first[c] < MinTurns}
  /\ prune \subseteq {c \in Captures : state[c] \in {"applied", "quarantined"}}
  /\ state' = [c \in Captures |-> IF c \in skip THEN "skipped" ELSE state[c]]
  /\ Enter(w, Pruning(prune))
  /\ UNCHANGED <<stretch, extraction, review, applied>>

\* _delete_pruned deletes by id.
Delete(w, c) ==
  /\ Working(w, "prune") /\ c \in run[w].old
  /\ state' = [state EXCEPT ![c] = "gone"]
  /\ Enter(w, Pruning(run[w].old \ {c}))
  /\ UNCHANGED <<stretch, extraction, review, applied>>

\* The run is over, or a provider is not configured (DreamProviderStopped).
Finish(w) ==
  /\ \/ run[w].pc = "prune" /\ run[w].old = {}
     \/ run[w].pc \in {"extracting", "consolidating"}
  /\ Holds(w)
  /\ lease' = NoOne
  /\ Enter(w, Resting("idle"))
  /\ UNCHANGED <<source, capture, applied, crashes>>
-----------------------------------------------------------------------------
(* held.release *)

Release(c, m) ==
  /\ m \in Held(c)
  /\ state[c] \notin {"quarantined", "gone"}
  /\ note' = [note EXCEPT ![c][m] = "released"]
  /\ state' = [state EXCEPT ![c] =
       IF @ \in {"consolidated", "applied"} THEN "extracted" ELSE @]
  /\ UNCHANGED <<source, stretch, extraction, decided, judged, deferred, failed,
                 working, applied, crashes>>
-----------------------------------------------------------------------------
Produce(p) == ReadIncrement(p) \/ Look(p) \/ Store(p) \/ Commit(p)

Extract(w) ==
  \/ \E c \in Captures : Pick(w, c)
  \/ ExtractNone(w)
  \/ \E upto \in Messages : CallExtractor(w, upto)
  \/ \E more \in BOOLEAN : SaveWindow(w, more)
  \/ \E semantic, limit \in BOOLEAN : ExtractionFails(w, semantic, limit)

Consolidate(w) ==
  \/ \E hold \in SUBSET Telling : Triage(w, hold)
  \/ CallConsolidator(w) \/ NothingToDecide(w) \/ Decide(w) \/ ProviderFails(w)
  \/ \E semantic, limit \in BOOLEAN : ConsolidationFails(w, semantic, limit)
  \/ \E made \in SUBSET Telling : Defer(w, made)

Apply(w) ==
  \/ \E c \in Captures : PickPending(w, c)
  \/ \E m \in Telling : Ingest(w, m)
  \/ RecordApplication(w) \/ MarkApplied(w)
  \/ \E semantic, limit \in BOOLEAN : ApplicationFails(w, semantic, limit)

CloseRun(w) ==
  \/ \E skip, prune \in SUBSET Captures : Retire(w, skip, prune)
  \/ \E c \in Captures : Delete(w, c)
  \/ Finish(w) \/ LeaseLost(w)

Work(w) == Acquire(w) \/ Extract(w) \/ Consolidate(w) \/ Apply(w) \/ CloseRun(w)

Next ==
  \/ Say
  \/ \E p \in Producers : Produce(p) \/ ProducerDies(p)
  \/ \E w \in Workers : Work(w) \/ WorkerDies(w)
  \/ \E c \in Captures, m \in Telling : Release(c, m) \/ Displace(c, m)

Spec == Init /\ [][Next]_vars
-----------------------------------------------------------------------------
Digested == {"extracted", "consolidated", "applied"}

\* What the cursor of the producers has passed is in a capture, however their
\* reads, appends and commits interleave with each other and with the runs
\* that close captures.
NoMessageSkipped ==
  \A m \in 1 .. cursor : \E c \in Captures : state[c] # "none" /\ m \in Stretch(c)

\* Every message of a capture that a run has done with was given to the
\* extractor, those appended while it was being extracted included.
DigestedWasSent == \A c \in Captures : state[c] \in Digested => Stretch(c) \subseteq sent[c]

\* A capture is not done while a candidate that was released waits for its
\* decision, whenever the release comes.
ReleasedIsDecided ==
  \A c \in Captures : state[c] \in {"consolidated", "applied"} => Released(c) \subseteq decided[c]

\* A run that has lost its lease undoes no decision of another: what was
\* decided stays decided.
DecisionsStand == [][\A c \in Captures : decided[c] \subseteq decided'[c]]_vars

\* A capture is applied when each of its decisions is, and an application
\* that names a claim has it, wherever runs die.
AppliedIsRecorded ==
  \A c \in Captures :
    /\ state[c] = "applied" => decided[c] \subseteq applications[c]
    /\ credited[c] \subseteq claimed[c]

\* A run that died after it made a claim is taken up by one that records the
\* claim: only a claim the rest of the system has displaced goes unnamed.
ClaimIsCredited ==
  \A c \in Captures :
    claimed[c] \cap applications[c] \subseteq credited[c] \cup displaced[c]

\* A capture that is done has decided every candidate it does not hold.
ClosedIsDecided ==
  \A c \in Captures :
    state[c] \in {"consolidated", "applied"} => Open(note[c]) \subseteq decided[c]

\* A candidate that was released stays until it was decided.
ReleasedIsKept ==
  [][\A c \in Captures :
       state[c] # "gone" /\ state'[c] = "gone" /\ state[c] # "quarantined"
       => Released(c) \subseteq decided[c]]_vars
=============================================================================

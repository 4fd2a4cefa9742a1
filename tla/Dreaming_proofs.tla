--------------------------- MODULE Dreaming_proofs ----------------------------
(***************************************************************************)
(* What the captures and runs of Dreaming keep, for every transcript and   *)
(* every number of producers, workers, captures and crashes.               *)
(***************************************************************************)
EXTENDS Dreaming, TLAPS

USE DEF Messages, Positions, Captures, NoCapture, NoOne

LEMMA Bounds ==
  /\ MaxMessages \in Nat /\ MaxCaptures \in Nat /\ MaxCrashes \in Nat
  /\ 0 \in Positions /\ 0 \in 0 .. MaxCrashes
  /\ \A n \in Positions : n < MaxMessages => n + 1 \in Positions
  /\ \A n \in 0 .. MaxCrashes : n < MaxCrashes => n + 1 \in 0 .. MaxCrashes
<1>1. MaxMessages \in Nat /\ MaxCaptures \in Nat /\ MaxCrashes \in Nat
  BY DreamingAssumption
<1> QED
  BY <1>1

LEMMA MaxOfTwo ==
  ASSUME NEW a \in Nat, NEW b \in Nat
  PROVE  Max({a, b}) \in {a, b} /\ Max({a, b}) >= a /\ Max({a, b}) >= b
<1>1. \E x \in {a, b} : \A y \in {a, b} : x >= y
  <2>1. CASE a >= b
    BY <2>1
  <2>2. CASE b >= a
    BY <2>2
  <2> QED
    BY <2>1, <2>2
<1> QED
  BY <1>1 DEF Max

LEMMA MinOfTwo ==
  ASSUME NEW a \in Nat, NEW b \in Nat
  PROVE  Min({a, b}) \in {a, b} /\ Min({a, b}) <= a /\ Min({a, b}) <= b
<1>1. \E x \in {a, b} : \A y \in {a, b} : x <= y
  <2>1. CASE a <= b
    BY <2>1
  <2>2. CASE b <= a
    BY <2>2
  <2> QED
    BY <2>1, <2>2
<1> QED
  BY <1>1 DEF Min
-----------------------------------------------------------------------------
(* The types of what a producer and a worker do *)

ProducerPc == {"idle", "look", "store", "commit"}
RunPc == {"idle", "pick", "window", "extracting", "triage", "consolidate",
          "consolidating", "pending", "apply", "record", "ignore", "prune"}

LEMMA CapturingTyped ==
  ASSUME NEW pc \in ProducerPc, NEW from \in Positions, NEW to \in Positions,
         NEW into \in Captures \cup {NoCapture}
  PROVE  Capturing(pc, from, to, into) \in ProducerState
  BY DEF Capturing, ProducerState, ProducerPc

LEMMA RestingTyped ==
  ASSUME NEW pc \in RunPc
  PROVE  Resting(pc) \in RunState
  BY Bounds DEF Resting, RunState, RunPc

LEMMA ExtractingTyped ==
  ASSUME NEW pc \in RunPc, NEW c \in Captures, NEW seen \in Positions,
         NEW at \in Positions, NEW upto \in Positions
  PROVE  Extracting(pc, c, seen, at, upto) \in RunState
  BY DEF Extracting, RunState, RunPc

LEMMA DecidingTyped ==
  ASSUME NEW pc \in RunPc, NEW c \in Captures,
         NEW base \in SUBSET Messages, NEW todo \in SUBSET Messages
  PROVE  Deciding(pc, c, base, todo) \in RunState
  BY Bounds DEF Deciding, RunState, RunPc

LEMMA PruningTyped ==
  ASSUME NEW old \in SUBSET Captures
  PROVE  Pruning(old) \in RunState /\ Pruning(old).pc = "prune"
  BY Bounds DEF Pruning, RunState

\* A worker at these steps is at work on a capture.
AtWork == {"window", "extracting", "triage", "consolidate", "consolidating", "apply", "record",
           "ignore"}
RunsOnCapture == \A w \in Workers : run[w].pc \in AtWork => run[w].on \in Captures

Typed == TypeOK /\ RunsOnCapture

LEMMA RunFields ==
  ASSUME TypeOK, NEW w \in Workers
  PROVE  /\ run[w] \in RunState
         /\ run[w].on \in Captures \cup {NoCapture}
         /\ run[w].seen \in Positions /\ run[w].at \in Positions /\ run[w].upto \in Positions
         /\ run[w].base \in SUBSET Messages /\ run[w].todo \in SUBSET Messages
         /\ run[w].old \in SUBSET Captures
<1>1. run[w] \in RunState
  BY DEF TypeOK
<1> QED
  BY <1>1 DEF RunState

LEMMA EnterTyped ==
  ASSUME Typed, NEW w \in Workers, NEW r \in RunState, Enter(w, r),
         r.pc \in AtWork => r.on \in Captures
  PROVE  run' \in [Workers -> RunState] /\ RunsOnCapture'
<1>1. run \in [Workers -> RunState]
  BY DEF Typed, TypeOK
<1>2. run' \in [Workers -> RunState]
  BY <1>1 DEF Enter
<1>3. \A v \in Workers : run'[v] = IF v = w THEN r ELSE run[v]
  BY <1>1 DEF Enter
<1> QED
  BY <1>2, <1>3 DEF Typed, RunsOnCapture

LEMMA AdvanceTyped ==
  ASSUME TypeOK, NEW p \in Producers, NEW r \in ProducerState, Advance(p, r)
  PROVE  producer' \in [Producers -> ProducerState]
  BY DEF TypeOK, Advance

LEMMA RestEnters ==
  ASSUME Typed, NEW w \in Workers, NEW pc \in RunPc \ AtWork, Enter(w, Resting(pc))
  PROVE  run' \in [Workers -> RunState] /\ RunsOnCapture'
<1>1. Resting(pc) \in RunState /\ Resting(pc).pc = pc
  BY RestingTyped DEF Resting
<1> QED
  BY <1>1, EnterTyped

LEMMA ExtractEnters ==
  ASSUME Typed, NEW w \in Workers, NEW pc \in RunPc, NEW c \in Captures,
         NEW seen \in Positions, NEW at \in Positions, NEW upto \in Positions,
         Enter(w, Extracting(pc, c, seen, at, upto))
  PROVE  run' \in [Workers -> RunState] /\ RunsOnCapture'
<1>1. Extracting(pc, c, seen, at, upto) \in RunState
  BY ExtractingTyped
<1>2. Extracting(pc, c, seen, at, upto).on = c
  BY DEF Extracting
<1> QED
  BY <1>1, <1>2, EnterTyped

LEMMA DecideEnters ==
  ASSUME Typed, NEW w \in Workers, NEW pc \in RunPc, NEW c \in Captures,
         NEW base \in SUBSET Messages, NEW todo \in SUBSET Messages,
         Enter(w, Deciding(pc, c, base, todo))
  PROVE  run' \in [Workers -> RunState] /\ RunsOnCapture'
<1>1. Deciding(pc, c, base, todo) \in RunState
  BY DecidingTyped
<1>2. Deciding(pc, c, base, todo).on = c /\ Deciding(pc, c, base, todo).pc = pc
  BY DEF Deciding
<1> QED
  BY <1>1, <1>2, EnterTyped
-----------------------------------------------------------------------------
(* Type correctness *)

LEMMA InitTyped == Init => Typed
<1> SUFFICES ASSUME Init PROVE Typed
  OBVIOUS
<1>1. producer \in [Producers -> ProducerState]
  <2>1. Aside \in ProducerState
    BY Bounds, CapturingTyped DEF Aside, ProducerPc
  <2> QED
    BY <2>1 DEF Init
<1>2. run \in [Workers -> RunState] /\ RunsOnCapture
  <2>1. Resting("idle") \in RunState /\ Resting("idle").pc = "idle"
    BY RestingTyped DEF RunPc, Resting
  <2> QED
    BY <2>1 DEF Init, RunsOnCapture, AtWork
<1>3. note \in [Captures -> [Messages -> Note]]
  BY DEF Init, Note
<1> QED
  BY <1>1, <1>2, <1>3, Bounds DEF Init, Typed, TypeOK, CaptureState

LEMMA ExtendTyped ==
  ASSUME Typed, NEW c \in Captures, NEW to \in Positions, Extend(c, to)
  PROVE  /\ state' \in [Captures -> CaptureState]
         /\ last' \in [Captures -> Positions]
         /\ UNCHANGED <<first, keyEnd, extraction, review>>
  BY DEF Typed, TypeOK, Extend

LEMMA CaptureTyped ==
  ASSUME Typed, NEW p \in Producers, Store(p)
  PROVE  /\ state' \in [Captures -> CaptureState]
         /\ first' \in [Captures -> Positions] /\ last' \in [Captures -> Positions]
         /\ keyEnd' \in [Captures -> Positions] /\ through' \in [Captures -> Positions]
         /\ UNCHANGED <<sent, review>>
<1> DEFINE from == producer[p].from
           to == producer[p].to
           into == producer[p].into
<1>1. from \in Positions /\ to \in Positions /\ into \in Captures \cup {NoCapture}
  BY DEF Typed, TypeOK, ProducerState
<1>2. /\ state \in [Captures -> CaptureState]
      /\ first \in [Captures -> Positions] /\ last \in [Captures -> Positions]
      /\ keyEnd \in [Captures -> Positions] /\ through \in [Captures -> Positions]
  BY DEF Typed, TypeOK
<1>3. \/ \E c \in Captures : Extend(c, to)
      \/ UNCHANGED capture
      \/ \E c \in Captures : Create(c, from, to)
  BY <1>1 DEF Store, StoreEnvelope, Insert
<1> HIDE DEF from, to, into
<1>4. CASE \E c \in Captures : Extend(c, to)
  BY <1>1, <1>2, <1>4, ExtendTyped DEF extraction
<1>5. CASE UNCHANGED capture
  BY <1>2, <1>5 DEF capture, stretch, extraction
<1>6. CASE \E c \in Captures : Create(c, from, to)
  BY <1>1, <1>2, <1>6 DEF Create, CaptureState
<1> QED
  BY <1>3, <1>4, <1>5, <1>6

LEMMA ProducersTyped ==
  ASSUME Typed, NEW p \in Producers, Produce(p) \/ ProducerDies(p)
  PROVE  Typed'
<1>1. /\ producer[p] \in ProducerState
      /\ producer[p].from \in Positions /\ producer[p].to \in Positions
      /\ cursor \in Positions /\ said \in Positions
  BY DEF Typed, TypeOK, ProducerState
<1>2. Aside \in ProducerState
  BY Bounds, CapturingTyped DEF Aside, ProducerPc
<1>3. \A from, to \in Positions :
        Capturing("commit", from, to, NoCapture) \in ProducerState
  BY CapturingTyped DEF ProducerPc
<1> USE DEF source, capture, stretch, extraction, review, working, applied
<1>4. CASE ReadIncrement(p)
  <2>1. Capturing("look", cursor, said, NoCapture) \in ProducerState
    BY <1>1, CapturingTyped DEF ProducerPc
  <2>2. producer' \in [Producers -> ProducerState]
    BY <1>4, <2>1, AdvanceTyped DEF ReadIncrement, Typed
  <2> QED
    BY <1>4, <2>2 DEF ReadIncrement, Typed, TypeOK, RunsOnCapture
<1>5. CASE Look(p)
  <2>1. \A into \in Captures \cup {NoCapture} :
          Capturing("store", producer[p].from, producer[p].to, into) \in ProducerState
    BY <1>1, CapturingTyped DEF ProducerPc
  <2>2. \E r \in ProducerState : Advance(p, r)
    BY <1>1, <1>3, <1>5, <2>1 DEF Look
  <2>3. producer' \in [Producers -> ProducerState]
    BY <2>2, AdvanceTyped DEF Typed
  <2> QED
    BY <1>5, <2>3 DEF Look, Typed, TypeOK, RunsOnCapture
<1>6. CASE Store(p)
  <2>1. producer' \in [Producers -> ProducerState]
    BY <1>1, <1>3, <1>6, AdvanceTyped DEF Store, Typed
  <2>2. UNCHANGED <<said, cursor, working, applied, crashes>>
    BY <1>6 DEF Store
  <2> QED
    BY <1>6, <2>1, <2>2, CaptureTyped DEF Typed, TypeOK, RunsOnCapture
<1>7. CASE Commit(p)
  <2>1. producer' \in [Producers -> ProducerState]
    BY <1>2, <1>7, AdvanceTyped DEF Commit, Typed
  <2> QED
    BY <1>1, <1>7, <2>1 DEF Commit, Typed, TypeOK, RunsOnCapture
<1>8. CASE ProducerDies(p)
  <2>1. producer' \in [Producers -> ProducerState]
    BY <1>2, <1>8, AdvanceTyped DEF ProducerDies, Typed
  <2>2. crashes' \in 0 .. MaxCrashes
    BY <1>8, Bounds DEF ProducerDies, Typed, TypeOK
  <2> QED
    BY <1>8, <2>1, <2>2 DEF ProducerDies, Typed, TypeOK, RunsOnCapture
<1> QED
  BY <1>4, <1>5, <1>6, <1>7, <1>8 DEF Produce

LEMMA LeaseTyped ==
  ASSUME Typed, NEW w \in Workers,
         Acquire(w) \/ LeaseLost(w) \/ WorkerDies(w) \/ Finish(w)
  PROVE  Typed'
<1> USE DEF source, capture, stretch, extraction, review, working, applied
<1>1. \E pc \in RunPc \ AtWork : Enter(w, Resting(pc))
  BY DEF Acquire, LeaseLost, WorkerDies, Finish, RunPc, AtWork
<1>2. run' \in [Workers -> RunState] /\ RunsOnCapture'
  BY <1>1, RestEnters
<1>3. lease' \in Workers \cup {NoOne}
  BY DEF Acquire, LeaseLost, WorkerDies, Finish, Typed, TypeOK
<1>4. crashes' \in 0 .. MaxCrashes
  <2>1. crashes' = crashes \/ (crashes < MaxCrashes /\ crashes' = crashes + 1)
    BY DEF Acquire, LeaseLost, WorkerDies, Finish
  <2>2. crashes \in 0 .. MaxCrashes
    BY DEF Typed, TypeOK
  <2> QED
    BY <2>1, <2>2, Bounds
<1>5. UNCHANGED <<source, capture, applied>>
  BY DEF Acquire, LeaseLost, WorkerDies, Finish
<1> QED
  BY <1>2, <1>3, <1>4, <1>5 DEF Typed, TypeOK

\* The capture a worker is at work on, and what it has read of it.
LEMMA OnCapture ==
  ASSUME Typed, NEW w \in Workers, run[w].pc \in AtWork
  PROVE  run[w].on \in Captures
  BY DEF Typed, RunsOnCapture

LEMMA CaptureFields ==
  ASSUME Typed, NEW c \in Captures
  PROVE  /\ first[c] \in Positions /\ last[c] \in Positions /\ through[c] \in Positions
         /\ note[c] \in [Messages -> Note]
         /\ decided[c] \in SUBSET Messages /\ judged[c] \in BOOLEAN
         /\ Open(note[c]) \in SUBSET Messages /\ Released(c) \in SUBSET Messages
  BY DEF Typed, TypeOK, Open, Released

LEMMA ReviewEnters ==
  ASSUME Typed, NEW w \in Workers, NEW c \in Captures, Enter(w, Reviewed(c))
  PROVE  run' \in [Workers -> RunState] /\ RunsOnCapture'
<1>1. /\ decided[c] \in SUBSET Messages /\ {} \in SUBSET Messages
      /\ Reopened(c) \in SUBSET Messages /\ Open(note[c]) \in SUBSET Messages
  BY CaptureFields DEF Reopened
<1>2. CASE judged[c]
  <2>1. Enter(w, Deciding("consolidate", c, decided[c], Reopened(c)))
    BY <1>2 DEF Reviewed
  <2> QED
    BY <1>1, <2>1, DecideEnters DEF RunPc
<1>3. CASE ~ judged[c]
  <2>1. Enter(w, Deciding("triage", c, {}, Open(note[c])))
    BY <1>3 DEF Reviewed
  <2> QED
    BY <1>1, <2>1, DecideEnters DEF RunPc
<1> QED
  BY <1>2, <1>3

LEMMA PickTyped ==
  ASSUME Typed, NEW w \in Workers, NEW c \in Captures,
         Pick(w, c) \/ ExtractNone(w) \/ PickPending(w, c)
  PROVE  Typed'
<1> USE DEF source, capture, stretch, extraction, review, working, applied
<1>1. UNCHANGED <<source, lease, crashes, capture, applied>>
  BY DEF Pick, ExtractNone, PickPending, Working
<1>2. run' \in [Workers -> RunState] /\ RunsOnCapture'
  <2>1. CASE Pick(w, c)
    <3>1. CASE through[c] = last[c]
      BY <2>1, <3>1, ReviewEnters DEF Pick
    <3>2. CASE through[c] # last[c]
      <4>1. Enter(w, Extracting("window", c, last[c], through[c], 0))
        BY <2>1, <3>2 DEF Pick
      <4> QED
        BY <4>1, ExtractEnters, CaptureFields, Bounds DEF RunPc
    <3> QED
      BY <3>1, <3>2
  <2>2. CASE ExtractNone(w)
    BY <2>2, RestEnters DEF ExtractNone, RunPc, AtWork
  <2>3. CASE PickPending(w, c)
    <3>1. Enter(w, Deciding("apply", c, {}, decided[c]))
      BY <2>3 DEF PickPending
    <3> QED
      BY <3>1, DecideEnters, CaptureFields DEF RunPc
  <2> QED
    BY <2>1, <2>2, <2>3
<1> QED
  BY <1>1, <1>2 DEF Typed, TypeOK

LEMMA CallTyped ==
  ASSUME Typed, NEW w \in Workers, NEW upto \in Messages, CallExtractor(w, upto)
  PROVE  Typed'
<1> USE DEF source, capture, stretch, extraction, review, working, applied
<1> DEFINE r == run[w]
<1>1. r.on \in Captures
  BY OnCapture DEF CallExtractor, Working, AtWork
<1>2. r.seen \in Positions /\ r.at \in Positions /\ upto \in Positions
  BY RunFields, Bounds DEF Typed
<1>3. (r.at + 1) .. upto \subseteq Messages
  BY <1>2, Bounds
<1>4. sent' \in [Captures -> SUBSET Messages]
  BY <1>3 DEF CallExtractor, Typed, TypeOK
<1>5. run' \in [Workers -> RunState] /\ RunsOnCapture'
  BY <1>1, <1>2, ExtractEnters DEF CallExtractor, RunPc
<1> QED
  BY <1>4, <1>5 DEF CallExtractor, Working, Typed, TypeOK

LEMMA FailTyped ==
  ASSUME Typed, NEW w \in Workers, NEW stage \in Stage, NEW semantic \in BOOLEAN, NEW limit \in BOOLEAN,
         Fail(w, stage, semantic, limit), UNCHANGED <<source, lease, crashes>>
  PROVE  Typed'
<1> USE DEF source, capture, stretch, extraction, review, working, applied
<1>1. run' \in [Workers -> RunState] /\ RunsOnCapture'
  BY RestEnters DEF Fail, RunPc, AtWork
<1>2. state' \in [Captures -> CaptureState]
  BY DEF Fail, Typed, TypeOK, CaptureState
<1>3. failed' \in [Captures -> Stage \cup {"none"}]
  BY DEF Fail, Typed, TypeOK
<1>4. deferred' \in [Captures -> BOOLEAN]
  BY DEF Fail, Typed, TypeOK
<1> QED
  BY <1>1, <1>2, <1>3, <1>4 DEF Fail, Typed, TypeOK

LEMMA SaveTyped ==
  ASSUME Typed, NEW w \in Workers, NEW more \in BOOLEAN, SaveWindow(w, more)
  PROVE  Typed'
<1> USE DEF source, capture, stretch, extraction, review, working, applied
<1> DEFINE r == run[w]
           c == r.on
           reached == Min({last[c], Max({through[c], r.upto})})
<1>1. c \in Captures
  BY OnCapture DEF SaveWindow, Working, AtWork
<1>2. r.upto \in Positions /\ last[c] \in Positions /\ through[c] \in Positions
  BY <1>1, RunFields, CaptureFields DEF Typed
<1>3. reached \in Positions
  <2>1. Max({through[c], r.upto}) \in Positions
    BY <1>2, MaxOfTwo, Bounds
  <2>2. Max({through[c], r.upto}) \in Nat /\ last[c] \in Nat
    BY <1>2, <2>1, Bounds
  <2> QED
    BY <1>2, <2>1, <2>2, MinOfTwo
<1>4. Extracted(c, r) \in [Messages -> Note]
  BY <1>1, CaptureFields DEF Extracted, Note
<1>5. /\ through' \in [Captures -> Positions]
      /\ note' \in [Captures -> [Messages -> Note]]
  BY <1>1, <1>3, <1>4 DEF SaveWindow, Typed, TypeOK
<1>6. Open(Extracted(c, r)) \in SUBSET Messages
  BY DEF Open
<1>7. CASE WindowIsLast(c, r)
  <2>1. /\ state' = [state EXCEPT ![c] = "extracted"]
        /\ failed' = [failed EXCEPT ![c] = "none"]
        /\ deferred' = [deferred EXCEPT ![c] = FALSE]
        /\ Enter(w, Deciding("triage", c, {}, Open(Extracted(c, r))))
    BY <1>7 DEF SaveWindow
  <2>2. run' \in [Workers -> RunState] /\ RunsOnCapture'
    BY <1>1, <1>6, <2>1, DecideEnters DEF RunPc
  <2>3. /\ state' \in [Captures -> CaptureState]
        /\ failed' \in [Captures -> Stage \cup {"none"}]
        /\ deferred' \in [Captures -> BOOLEAN]
    BY <2>1 DEF Typed, TypeOK, CaptureState
  <2> QED
    BY <1>5, <2>2, <2>3 DEF SaveWindow, Working, Typed, TypeOK
<1>8. CASE ~ WindowIsLast(c, r)
  <2>1. /\ UNCHANGED <<state, failed, deferred>>
        /\ \/ Enter(w, Extracting("window", c, last[c], reached, 0))
           \/ Enter(w, Resting("pending"))
    BY <1>8 DEF SaveWindow
  <2> HIDE DEF reached
  <2>2. run' \in [Workers -> RunState] /\ RunsOnCapture'
    BY <1>1, <1>2, <1>3, <2>1, ExtractEnters, RestEnters, Bounds DEF RunPc, AtWork
  <2> QED
    BY <1>5, <2>1, <2>2 DEF SaveWindow, Working, Typed, TypeOK
<1> QED
  BY <1>7, <1>8

LEMMA TriageTyped ==
  ASSUME Typed, NEW w \in Workers, NEW hold \in SUBSET Telling, Triage(w, hold)
  PROVE  Typed'
<1> USE DEF source, capture, stretch, extraction, review, working, applied
<1> DEFINE c == run[w].on
           fresh == {m \in Messages : note[c][m] = "fresh"}
           todo == IF fresh = {} THEN run[w].todo ELSE Open(Triaged(c, hold))
<1>1. c \in Captures
  BY OnCapture DEF Triage, Working, AtWork
<1>2. Triaged(c, hold) \in [Messages -> Note]
  BY <1>1, CaptureFields DEF Triaged, Note
<1>3. note' \in [Captures -> [Messages -> Note]]
  BY <1>2 DEF Triage, Typed, TypeOK
<1>4. todo \in SUBSET Messages
  <2>1. run[w].todo \in SUBSET Messages
    BY RunFields DEF Typed
  <2> QED
    BY <2>1 DEF Open
<1>5. Enter(w, Deciding("consolidate", c, {}, todo))
  BY DEF Triage
<1> HIDE DEF todo
<1>6. run' \in [Workers -> RunState] /\ RunsOnCapture'
  BY <1>1, <1>4, <1>5, DecideEnters DEF RunPc
<1> QED
  BY <1>3, <1>6 DEF Triage, Working, Typed, TypeOK

LEMMA DecisionsTyped ==
  ASSUME Typed, NEW w \in Workers, NEW decisions \in SUBSET Messages,
         SetDecisions(w, decisions), failed' \in [Captures -> Stage \cup {"none"}],
         UNCHANGED <<source, lease, crashes>>
  PROVE  Typed'
<1> USE DEF source, capture, stretch, extraction, review, working, applied
<1>1. run' \in [Workers -> RunState] /\ RunsOnCapture'
  BY RestEnters DEF SetDecisions, RunPc, AtWork
<1>2. /\ state' \in [Captures -> CaptureState]
      /\ decided' \in [Captures -> SUBSET Messages]
      /\ judged' \in [Captures -> BOOLEAN] /\ deferred' \in [Captures -> BOOLEAN]
  BY DEF SetDecisions, Close, Typed, TypeOK, CaptureState
<1> QED
  BY <1>1, <1>2 DEF SetDecisions, Typed, TypeOK

LEMMA ConsolidateTyped ==
  ASSUME Typed, NEW w \in Workers, Consolidate(w)
  PROVE  Typed'
<1> USE DEF source, capture, stretch, extraction, review, working, applied
<1> DEFINE r == run[w]
           c == r.on
<1>1. r.base \in SUBSET Messages /\ r.todo \in SUBSET Messages /\ c \in Captures \cup {NoCapture}
  BY RunFields DEF Typed
<1>2. failed \in [Captures -> Stage \cup {"none"}]
  BY DEF Typed, TypeOK
<1>3. ASSUME NEW hold \in SUBSET Telling, Triage(w, hold) PROVE Typed'
  BY <1>3, TriageTyped
<1>4. CASE CallConsolidator(w)
  <2>1. c \in Captures
    BY <1>4, OnCapture DEF CallConsolidator, Working, AtWork
  <2>2. Enter(w, Deciding("consolidating", c, r.base, r.todo))
    BY <1>4 DEF CallConsolidator
  <2>3. run' \in [Workers -> RunState] /\ RunsOnCapture'
    BY <1>1, <2>1, <2>2, DecideEnters DEF RunPc
  <2> QED
    BY <1>4, <2>3 DEF CallConsolidator, Working, Typed, TypeOK
<1>5. CASE NothingToDecide(w)
  <2>1. failed' \in [Captures -> Stage \cup {"none"}]
    BY <1>2, <1>5 DEF NothingToDecide
  <2> QED
    BY <1>1, <1>5, <2>1, DecisionsTyped DEF NothingToDecide, Working
<1>6. CASE Decide(w)
  <2>1. failed' \in [Captures -> Stage \cup {"none"}]
    BY <1>2, <1>6 DEF Decide
  <2>2. r.base \cup r.todo \in SUBSET Messages
    BY <1>1
  <2> QED
    BY <1>6, <2>1, <2>2, DecisionsTyped DEF Decide, Working
<1>7. CASE ProviderFails(w)
  <2>1. run' \in [Workers -> RunState] /\ RunsOnCapture'
    BY <1>7, RestEnters DEF ProviderFails, RunPc, AtWork
  <2> QED
    BY <1>7, <2>1 DEF ProviderFails, Working, Typed, TypeOK
<1>8. ASSUME NEW semantic \in BOOLEAN, NEW limit \in BOOLEAN, ConsolidationFails(w, semantic, limit) PROVE Typed'
  BY <1>8, FailTyped DEF ConsolidationFails, Working, Stage
<1>9. ASSUME NEW made \in SUBSET Telling, Defer(w, made) PROVE Typed'
  <2>1. run' \in [Workers -> RunState] /\ RunsOnCapture'
    BY <1>9, RestEnters DEF Defer, RunPc, AtWork
  <2>2. made \in SUBSET Messages
    BY DreamingAssumption
  <2>3. /\ state' \in [Captures -> CaptureState]
        /\ decided' \in [Captures -> SUBSET Messages]
        /\ judged' \in [Captures -> BOOLEAN] /\ deferred' \in [Captures -> BOOLEAN]
    BY <1>1, <1>9, <2>2 DEF Defer, Typed, TypeOK, CaptureState
  <2> QED
    BY <1>9, <2>1, <2>3 DEF Defer, Working, Typed, TypeOK
<1> QED
  BY <1>3, <1>4, <1>5, <1>6, <1>7, <1>8, <1>9 DEF Consolidate

LEMMA ApplyTyped ==
  ASSUME Typed, NEW w \in Workers, Apply(w)
  PROVE  Typed'
<1> USE DEF source, capture, stretch, extraction, review, working, applied
<1> DEFINE r == run[w]
           c == r.on
<1>1. r.base \in SUBSET Messages /\ r.todo \in SUBSET Messages
  BY RunFields DEF Typed
<1>2. ASSUME NEW d \in Captures, PickPending(w, d) PROVE Typed'
  BY <1>2, PickTyped
<1>3. ASSUME NEW m \in Telling, Ingest(w, m) PROVE Typed'
  <2>1. c \in Captures /\ m \in Messages
    BY <1>3, OnCapture, DreamingAssumption DEF Ingest, Working, AtWork
  <2>2. \/ Enter(w, Deciding("apply", c, {}, r.todo \ {m}))
        \/ Enter(w, Deciding("ignore", c, {m}, r.todo))
        \/ Enter(w, Deciding("record", c, {m}, r.todo))
    BY <1>3 DEF Ingest
  <2>3. r.todo \ {m} \in SUBSET Messages /\ {m} \in SUBSET Messages
    BY <1>1, <2>1
  <2> HIDE DEF r, c
  <2>4. run' \in [Workers -> RunState] /\ RunsOnCapture'
    BY <1>1, <2>1, <2>2, <2>3, DecideEnters DEF RunPc, r
  <2>5. claimed' \in [Captures -> SUBSET Messages]
    <3>1. \/ claimed' = claimed
          \/ claimed' = [claimed EXCEPT ![c] = @ \cup {m}]
      BY <1>3 DEF Ingest, r, c
    <3>2. claimed \in [Captures -> SUBSET Messages]
      BY DEF Typed, TypeOK
    <3> QED
      BY <2>1, <3>1, <3>2
  <2> QED
    BY <1>3, <2>4, <2>5 DEF Ingest, Working, Typed, TypeOK
<1>4. CASE RecordApplication(w)
  <2>1. c \in Captures
    BY <1>4, OnCapture DEF RecordApplication, Working, AtWork
  <2>2. Enter(w, Deciding("apply", c, {}, r.todo \ r.base))
    BY <1>4 DEF RecordApplication
  <2>3. run' \in [Workers -> RunState] /\ RunsOnCapture'
    BY <1>1, <2>1, <2>2, DecideEnters DEF RunPc
  <2>4. /\ applications' \in [Captures -> SUBSET Messages]
        /\ credited' \in [Captures -> SUBSET Messages]
    BY <1>1, <1>4 DEF RecordApplication, Typed, TypeOK
  <2> QED
    BY <1>4, <2>3, <2>4 DEF RecordApplication, Working, Typed, TypeOK
<1>5. CASE MarkApplied(w)
  <2>1. run' \in [Workers -> RunState] /\ RunsOnCapture'
    BY <1>5, RestEnters DEF MarkApplied, RunPc, AtWork
  <2>2. /\ state' \in [Captures -> CaptureState]
        /\ failed' \in [Captures -> Stage \cup {"none"}]
        /\ deferred' \in [Captures -> BOOLEAN]
    BY <1>5 DEF MarkApplied, Close, Typed, TypeOK, CaptureState
  <2> QED
    BY <1>5, <2>1, <2>2 DEF MarkApplied, Working, Typed, TypeOK
<1>6. ASSUME NEW semantic \in BOOLEAN, NEW limit \in BOOLEAN, ApplicationFails(w, semantic, limit) PROVE Typed'
  BY <1>6, FailTyped DEF ApplicationFails, Working, Stage
<1> QED
  BY <1>2, <1>3, <1>4, <1>5, <1>6 DEF Apply

LEMMA PruneEnters ==
  ASSUME Typed, NEW w \in Workers, NEW old \in SUBSET Captures, Enter(w, Pruning(old))
  PROVE  run' \in [Workers -> RunState] /\ RunsOnCapture'
<1>1. Pruning(old) \in RunState /\ Pruning(old).pc \notin AtWork
  BY PruningTyped DEF AtWork
<1> QED
  BY <1>1, EnterTyped

LEMMA CloseTyped ==
  ASSUME Typed, NEW w \in Workers,
         \/ \E skip, prune \in SUBSET Captures : Retire(w, skip, prune)
         \/ \E c \in Captures : Delete(w, c)
  PROVE  Typed'
<1> USE DEF source, capture, stretch, extraction, review, working, applied
<1>1. ASSUME NEW skip \in SUBSET Captures, NEW prune \in SUBSET Captures,
             Retire(w, skip, prune)
      PROVE  Typed'
  <2>1. run' \in [Workers -> RunState] /\ RunsOnCapture'
    BY <1>1, PruneEnters DEF Retire
  <2>2. state' \in [Captures -> CaptureState]
    BY <1>1 DEF Retire, Typed, TypeOK, CaptureState
  <2> QED
    BY <1>1, <2>1, <2>2 DEF Retire, Working, Typed, TypeOK
<1>2. ASSUME NEW c \in Captures, Delete(w, c) PROVE Typed'
  <2>1. run[w].old \ {c} \in SUBSET Captures
    BY RunFields DEF Typed
  <2>2. run' \in [Workers -> RunState] /\ RunsOnCapture'
    BY <1>2, <2>1, PruneEnters DEF Delete
  <2>3. state' \in [Captures -> CaptureState]
    BY <1>2 DEF Delete, Typed, TypeOK, CaptureState
  <2> QED
    BY <1>2, <2>2, <2>3 DEF Delete, Working, Typed, TypeOK
<1> QED
  BY <1>1, <1>2

LEMMA ReleaseTyped ==
  ASSUME Typed, NEW c \in Captures, NEW m \in Telling, Release(c, m)
  PROVE  Typed'
<1> USE DEF source, capture, stretch, extraction, review, working, applied
<1>1. state' \in [Captures -> CaptureState]
  BY DEF Release, Typed, TypeOK, CaptureState
<1>2. note' \in [Captures -> [Messages -> Note]]
  BY DEF Release, Typed, TypeOK, Note
<1> QED
  BY <1>1, <1>2 DEF Release, Typed, TypeOK, RunsOnCapture

LEMMA DisplaceTyped ==
  ASSUME Typed, NEW c \in Captures, NEW m \in Telling, Displace(c, m)
  PROVE  Typed'
<1> USE DEF source, capture, stretch, extraction, review, working, applied
<1>1. displaced' \in [Captures -> SUBSET Messages]
  BY DreamingAssumption DEF Displace, Typed, TypeOK
<1> QED
  BY <1>1 DEF Displace, Typed, TypeOK, RunsOnCapture

LEMMA TypeStep == Typed /\ [Next]_vars => Typed'
<1> SUFFICES ASSUME Typed, [Next]_vars PROVE Typed'
  OBVIOUS
<1> USE DEF source, capture, stretch, extraction, review, working, applied
<1>1. CASE Say
  <2>1. said' \in Positions
    BY <1>1, Bounds DEF Say, Typed, TypeOK
  <2> QED
    BY <1>1, <2>1 DEF Say, Typed, TypeOK, RunsOnCapture
<1>2. ASSUME NEW p \in Producers, Produce(p) \/ ProducerDies(p) PROVE Typed'
  BY <1>2, ProducersTyped
<1>3. ASSUME NEW w \in Workers, Acquire(w) \/ CloseRun(w) \/ WorkerDies(w) PROVE Typed'
  BY <1>3, LeaseTyped, CloseTyped DEF CloseRun
<1>4. ASSUME NEW w \in Workers, Extract(w) PROVE Typed'
  <2>1. ASSUME NEW semantic \in BOOLEAN, NEW limit \in BOOLEAN, ExtractionFails(w, semantic, limit) PROVE Typed'
    BY <2>1, FailTyped DEF ExtractionFails, Working, Stage
  <2>2. ASSUME ExtractNone(w) PROVE Typed'
    <3>1. run' \in [Workers -> RunState] /\ RunsOnCapture'
      BY <2>2, RestEnters DEF ExtractNone, RunPc, AtWork
    <3> QED
      BY <2>2, <3>1 DEF ExtractNone, Working, Typed, TypeOK
  <2> QED
    BY <1>4, <2>1, <2>2, PickTyped, CallTyped, SaveTyped DEF Extract
<1>5. ASSUME NEW w \in Workers, Consolidate(w) \/ Apply(w) PROVE Typed'
  BY <1>5, ConsolidateTyped, ApplyTyped
<1>6. ASSUME NEW c \in Captures, NEW m \in Telling, Release(c, m) \/ Displace(c, m)
      PROVE  Typed'
  BY <1>6, ReleaseTyped, DisplaceTyped
<1>7. CASE UNCHANGED vars
  BY <1>7 DEF vars, Typed, TypeOK, RunsOnCapture
<1> QED
  BY <1>1, <1>2, <1>3, <1>4, <1>5, <1>6, <1>7 DEF Next, Work

LEMMA Inductive == Spec => []Typed
<1> QED
  BY InitTyped, TypeStep, PTL DEF Spec

\* Every variable keeps its type, and a run that is at work on a capture has one.
THEOREM TypeCorrect == Spec => []TypeOK
<1>1. Typed => TypeOK
  BY DEF Typed
<1> QED
  BY <1>1, Inductive, PTL
-----------------------------------------------------------------------------
(* The strengthening of the properties *)

Closed == {"consolidated", "applied"}
Extraction == {"window", "extracting"}
Consolidation == {"consolidate", "consolidating"}
Review == {"triage", "consolidate", "consolidating", "apply", "record", "ignore"}

\* What the ledger keeps of a capture: how far it was read, what it has
\* decided and what of that was applied.
Ledger(c) ==
  /\ first[c] <= through[c] /\ through[c] <= last[c] /\ keyEnd[c] <= last[c]
  /\ state[c] = "captured" => through[c] < last[c]
  /\ state[c] \in Digested => through[c] = last[c]
  /\ \A m \in Messages : first[c] < m /\ m <= through[c] => m \in sent[c]
  /\ judged[c] => through[c] = last[c] /\ state[c] \notin {"none", "captured"}
  /\ ~ judged[c] => decided[c] = {}
  /\ credited[c] \subseteq claimed[c]
  /\ claimed[c] \cap applications[c] \subseteq credited[c] \cup displaced[c]
  /\ state[c] = "applied" => decided[c] \subseteq applications[c]
  /\ state[c] \in Closed => Released(c) \subseteq decided[c]

\* What the holder of the lease has read still agrees with the ledger.
Fits(r) ==
  /\ r.pc \in Extraction =>
       r.at <= through[r.on] /\ ~ judged[r.on] /\ state[r.on] # "none"
  /\ r.pc = "extracting" => (r.at + 1) .. r.upto \subseteq sent[r.on]
  /\ r.pc \in Review =>
       through[r.on] = last[r.on] /\ state[r.on] \notin {"none", "captured"}
  /\ r.pc = "triage" => ~ judged[r.on]
  /\ r.pc \in Consolidation => decided[r.on] \subseteq r.base
  /\ r.pc \in {"apply", "record", "ignore"} =>
       decided[r.on] \ r.todo \subseteq applications[r.on]
  /\ r.pc = "record" => r.base \subseteq claimed[r.on]
  /\ r.pc = "ignore" => r.base \cap claimed[r.on] \subseteq displaced[r.on]

\* Every message up to a position is in a capture.
Covered(n) ==
  \A m \in 1 .. n : \E c \in Captures : state[c] # "none" /\ m \in Stretch(c)

\* What a producer stores continues what the captures hold.
Continuing(p) ==
  /\ producer[p].pc # "idle" => producer[p].from < producer[p].to
  /\ producer[p].pc \in {"look", "store"} => Covered(producer[p].from)
  /\ producer[p].pc = "commit" => Covered(producer[p].to)

LedgerOK == \A c \in Captures : Ledger(c)
HolderOK == \A w \in Workers : lease = w => Fits(run[w])
ProducersOK == Covered(cursor) /\ \A p \in Producers : Continuing(p)

Sound == Typed /\ LedgerOK /\ HolderOK /\ ProducersOK

\* A row of the ledger, as far as Ledger reads it.
Row(c) == <<state[c], first[c], last[c], keyEnd[c], through[c], sent[c], Released(c),
            decided[c], judged[c], applications[c], claimed[c], displaced[c], credited[c]>>

LEMMA RowKept ==
  ASSUME NEW c \in Captures, Ledger(c), UNCHANGED Row(c)
  PROVE  Ledger(c)'
  BY DEF Row, Ledger

LEMMA RowTyped ==
  ASSUME Typed, NEW c \in Captures
  PROVE  /\ first[c] \in Nat /\ last[c] \in Nat /\ through[c] \in Nat /\ keyEnd[c] \in Nat
         /\ last[c] \in Positions /\ through[c] \in Positions
<1>1. /\ first[c] \in Positions /\ last[c] \in Positions
      /\ through[c] \in Positions /\ keyEnd[c] \in Positions
  BY DEF Typed, TypeOK
<1> QED
  BY <1>1, Bounds

\* The domain of every variable of the ledger.
LEMMA Rows ==
  ASSUME Typed
  PROVE  /\ state = [c \in Captures |-> state[c]]
         /\ first = [c \in Captures |-> first[c]] /\ last = [c \in Captures |-> last[c]]
         /\ keyEnd = [c \in Captures |-> keyEnd[c]]
         /\ through = [c \in Captures |-> through[c]] /\ sent = [c \in Captures |-> sent[c]]
         /\ note = [c \in Captures |-> note[c]]
         /\ decided = [c \in Captures |-> decided[c]]
         /\ judged = [c \in Captures |-> judged[c]]
         /\ applications = [c \in Captures |-> applications[c]]
         /\ claimed = [c \in Captures |-> claimed[c]]
         /\ displaced = [c \in Captures |-> displaced[c]]
         /\ credited = [c \in Captures |-> credited[c]]
  BY DEF Typed, TypeOK

LEMMA InitSound == Init => Sound
<1> SUFFICES ASSUME Init PROVE Sound
  OBVIOUS
<1>1. LedgerOK
  <2> SUFFICES ASSUME NEW c \in Captures PROVE Ledger(c)
    BY DEF LedgerOK
  <2>1. /\ state[c] = "none" /\ first[c] = 0 /\ last[c] = 0 /\ through[c] = 0 /\ keyEnd[c] = 0
        /\ decided[c] = {} /\ judged[c] = FALSE /\ applications[c] = {} /\ claimed[c] = {}
        /\ credited[c] = {}
    BY DEF Init
  <2>2. \A m \in Messages : ~ m <= 0
    BY Bounds
  <2> QED
    BY <2>1, <2>2 DEF Ledger, Digested, Closed
<1>2. HolderOK
  <2>1. Resting("idle").pc = "idle"
    BY DEF Resting
  <2> QED
    BY <2>1 DEF Init, HolderOK, Fits, Extraction, Review, Consolidation
<1>3. ProducersOK
  <2>1. Aside.pc = "idle"
    BY DEF Aside, Capturing
  <2>2. Covered(cursor)
    <3>1. cursor = 0
      BY DEF Init
    <3>2. \A m \in 1 .. 0 : FALSE
      OBVIOUS
    <3> QED
      BY <3>1, <3>2 DEF Covered
  <2>3. \A p \in Producers : producer[p].pc = "idle"
    BY <2>1 DEF Init
  <2> QED
    BY <2>2, <2>3 DEF ProducersOK, Continuing
<1> QED
  BY <1>1, <1>2, <1>3, InitTyped DEF Sound
-----------------------------------------------------------------------------
(* What the producers do *)

\* Captures only grow, so what they cover stays covered.
LEMMA CoveredStays ==
  ASSUME Typed, Typed', NEW n \in Positions, Covered(n),
         \A c \in Captures : state[c] # "none" =>
           state'[c] # "none" /\ first'[c] = first[c] /\ last[c] <= last'[c]
  PROVE  Covered(n)'
<1> SUFFICES ASSUME NEW m \in 1 .. n
             PROVE  \E c \in Captures : state'[c] # "none" /\ m \in Stretch(c)'
  BY DEF Covered
<1>1. PICK c \in Captures : state[c] # "none" /\ m \in Stretch(c)
  BY DEF Covered
<1>2. m \in Nat /\ last[c] \in Nat /\ last'[c] \in Nat
  <2>1. last'[c] \in Positions
    BY DEF Typed, TypeOK
  <2> QED
    BY <2>1, RowTyped, Bounds
<1>3. m <= last'[c]
  BY <1>1, <1>2 DEF Stretch
<1> QED
  BY <1>1, <1>3 DEF Stretch

\* The steps of a producer other than Store leave the captures and the runs
\* alone.
LEMMA NothingStored ==
  ASSUME Sound, UNCHANGED <<capture, working, applied>>
  PROVE  LedgerOK' /\ HolderOK'
<1> USE DEF capture, stretch, extraction, review, working, applied
<1>1. ASSUME NEW c \in Captures PROVE Ledger(c)'
  <2>1. Ledger(c) /\ UNCHANGED Row(c)
    BY DEF Sound, LedgerOK, Row, Released
  <2> QED
    BY <2>1, RowKept
<1>2. HolderOK'
  BY DEF Sound, HolderOK, Fits
<1> QED
  BY <1>1, <1>2 DEF LedgerOK

\* A new capture, or a longer one, agrees with the ledger.
LEMMA ExtendKeeps ==
  ASSUME Sound, Typed', NEW c \in Captures, NEW from \in Positions, NEW to \in Positions,
         from < to, state[c] = "captured", last[c] = from, Extend(c, to),
         UNCHANGED <<working, applied>>
  PROVE  /\ LedgerOK' /\ HolderOK'
         /\ \A d \in Captures : state[d] # "none" =>
              state'[d] # "none" /\ first'[d] = first[d] /\ last[d] <= last'[d]
         /\ Covered(from) => Covered(to)'
<1> USE DEF extraction, review, working, applied
<1>1. /\ last'[c] = to /\ \A d \in Captures \ {c} : last'[d] = last[d]
      /\ UNCHANGED <<state, first, keyEnd, through, sent, note, decided, judged, applications,
                     claimed, displaced, credited, lease, run>>
  BY Rows DEF Extend, Sound
<1>2. \A d \in Captures : last[d] <= last'[d]
  <2>1. \A d \in Captures : last[d] \in Nat
    BY RowTyped DEF Sound
  <2> QED
    BY <1>1, <2>1, Bounds
<1>3. \A d \in Captures : Ledger(d)'
  <2>1. ASSUME NEW d \in Captures \ {c} PROVE Ledger(d)'
    <3>1. Ledger(d) /\ UNCHANGED Row(d)
      BY <1>1 DEF Sound, LedgerOK, Row, Released
    <3> QED
      BY <3>1, RowKept
  <2>2. Ledger(c)'
    <3>1. Ledger(c)
      BY DEF Sound, LedgerOK
    <3>2. first[c] \in Nat /\ through[c] \in Nat /\ last[c] \in Nat /\ keyEnd[c] \in Nat
          /\ to \in Nat
      BY RowTyped, Bounds DEF Sound
    <3>3. /\ first[c] <= through[c] /\ through[c] < to /\ keyEnd[c] <= to
      BY <3>1, <3>2 DEF Ledger
    <3>4. /\ state'[c] = "captured" /\ ~ judged'[c] /\ decided'[c] = {}
          /\ first'[c] = first[c] /\ through'[c] = through[c] /\ keyEnd'[c] = keyEnd[c]
          /\ sent'[c] = sent[c] /\ applications'[c] = applications[c]
          /\ claimed'[c] = claimed[c] /\ displaced'[c] = displaced[c]
          /\ credited'[c] = credited[c]
      BY <1>1, <3>1 DEF Ledger
    <3>5. through[c] <= to
      BY <3>2, <3>3
    <3>6. /\ credited[c] \subseteq claimed[c]
          /\ claimed[c] \cap applications[c] \subseteq credited[c] \cup displaced[c]
          /\ \A m \in Messages : first[c] < m /\ m <= through[c] => m \in sent[c]
      BY <3>1 DEF Ledger
    <3> QED
      BY <1>1, <3>3, <3>4, <3>5, <3>6 DEF Ledger, Digested, Closed
  <2> QED
    BY <2>1, <2>2
<1>4. HolderOK'
  <2> SUFFICES ASSUME NEW w \in Workers, lease = w PROVE Fits(run[w])'
    BY <1>1 DEF HolderOK
  <2>1. Fits(run[w])
    BY DEF Sound, HolderOK
  <2>2. run[w].pc \in Review => run[w].on # c
    BY <2>1 DEF Fits
  <2>3. run[w].pc \in AtWork => run[w].on \in Captures
    BY DEF Sound, Typed, RunsOnCapture
  <2> QED
    BY <1>1, <2>1, <2>2, <2>3 DEF Fits, Review, AtWork
<1>5. ASSUME Covered(from) PROVE Covered(to)'
  <2>1. Covered(from)'
    BY <1>1, <1>2, <1>5, CoveredStays DEF Sound
  <2>2. ASSUME NEW m \in 1 .. to, ~ m <= from PROVE m \in Stretch(c)'
    <3>1. m \in Messages
      BY Bounds
    <3>2. first[c] \in Nat /\ last[c] \in Nat /\ first[c] <= last[c]
      <4>1. Ledger(c) /\ through[c] \in Nat /\ first[c] \in Nat /\ last[c] \in Nat
        BY RowTyped DEF Sound, LedgerOK
      <4> QED
        BY <4>1 DEF Ledger
    <3>3. first[c] < m /\ m <= to
      BY <2>2, <3>2, Bounds
    <3> QED
      BY <1>1, <3>1, <3>3 DEF Stretch
  <2>3. state'[c] # "none"
    BY <1>1
  <2>4. \A m \in 1 .. to : m <= from => m \in 1 .. from
    BY Bounds
  <2> QED
    BY <2>1, <2>2, <2>3, <2>4 DEF Covered
<1> QED
  BY <1>1, <1>2, <1>3, <1>4, <1>5 DEF LedgerOK

LEMMA CreateKeeps ==
  ASSUME Sound, Typed', NEW c \in Captures, NEW from \in Positions, NEW to \in Positions,
         from < to, Create(c, from, to), UNCHANGED <<working, applied>>
  PROVE  /\ LedgerOK' /\ HolderOK'
         /\ \A d \in Captures : state[d] # "none" =>
              state'[d] # "none" /\ first'[d] = first[d] /\ last[d] <= last'[d]
         /\ Covered(from) => Covered(to)'
<1> USE DEF review, working, applied
<1>1. /\ state[c] = "none" /\ state'[c] = "captured" /\ first'[c] = from
      /\ last'[c] = to /\ keyEnd'[c] = to /\ through'[c] = from
      /\ UNCHANGED <<sent, note, decided, judged, applied, lease, run>>
  BY Rows DEF Create, Sound
<1>2. \A d \in Captures \ {c} :
        /\ state'[d] = state[d] /\ first'[d] = first[d] /\ last'[d] = last[d]
        /\ keyEnd'[d] = keyEnd[d] /\ through'[d] = through[d]
  BY Rows DEF Create, Sound
<1>3. \A d \in Captures : last[d] \in Nat
  BY RowTyped DEF Sound
<1>4. from \in Nat /\ to \in Nat
  BY Bounds
<1>5. \A d \in Captures : Ledger(d)'
  <2>1. ASSUME NEW d \in Captures \ {c} PROVE Ledger(d)'
    <3>1. Ledger(d) /\ UNCHANGED Row(d)
      BY <1>1, <1>2 DEF Sound, LedgerOK, Row, Released
    <3> QED
      BY <3>1, RowKept
  <2>2. Ledger(c)'
    <3>1. /\ ~ judged[c] /\ decided[c] = {} /\ credited[c] \subseteq claimed[c]
          /\ claimed[c] \cap applications[c] \subseteq credited[c] \cup displaced[c]
      BY <1>1 DEF Sound, LedgerOK, Ledger
    <3>2. \A m \in Messages : ~ (from < m /\ m <= from)
      BY <1>4, Bounds
    <3>3. from <= from /\ from <= to /\ to <= to
      BY <1>4
    <3> QED
      BY <1>1, <3>1, <3>2, <3>3 DEF Ledger, Digested, Closed
  <2> QED
    BY <2>1, <2>2
<1>6. HolderOK'
  <2> SUFFICES ASSUME NEW w \in Workers, lease = w PROVE Fits(run[w])'
    BY <1>1 DEF HolderOK
  <2>1. Fits(run[w])
    BY DEF Sound, HolderOK
  <2>2. run[w].pc \in AtWork => run[w].on # c
    BY <1>1, <2>1 DEF Fits, AtWork, Review, Extraction
  <2>3. run[w].pc \in AtWork => run[w].on \in Captures
    BY DEF Sound, Typed, RunsOnCapture
  <2> QED
    BY <1>1, <1>2, <2>1, <2>2, <2>3
    DEF Fits, Review, Extraction, Consolidation, AtWork
<1>7. \A d \in Captures : state[d] # "none" =>
        state'[d] # "none" /\ first'[d] = first[d] /\ last[d] <= last'[d]
  BY <1>1, <1>2, <1>3
<1>8. ASSUME Covered(from) PROVE Covered(to)'
  <2>1. Covered(from)'
    BY <1>7, <1>8, CoveredStays DEF Sound
  <2>2. ASSUME NEW m \in 1 .. to, ~ m <= from PROVE m \in Stretch(c)'
    <3>1. m \in Messages
      BY Bounds
    <3>2. from < m /\ m <= to
      BY <1>4, <2>2
    <3> QED
      BY <1>1, <3>1, <3>2 DEF Stretch
  <2>3. \A m \in 1 .. to : m <= from => m \in 1 .. from
    BY <1>4
  <2> QED
    BY <1>1, <2>1, <2>2, <2>3 DEF Covered
<1> QED
  BY <1>5, <1>6, <1>7, <1>8 DEF LedgerOK

\* An envelope that is a capture already, or within one, is covered.
LEMMA ContainedCovers ==
  ASSUME Sound, NEW from \in Positions, NEW to \in Positions, Covered(from),
         Exact(from, to) \/ Contained(from, to)
  PROVE  Covered(to)
<1>1. PICK c \in Captures : state[c] # "none" /\ first[c] <= from /\ to <= last[c]
  <2>1. CASE Exact(from, to)
    <3>1. PICK c \in Captures : state[c] # "none" /\ first[c] = from /\ keyEnd[c] = to
      BY <2>1 DEF Exact, Stored
    <3>2. Ledger(c)
      BY DEF Sound, LedgerOK
    <3>3. from <= from /\ from \in Nat
      BY Bounds
    <3> QED
      BY <3>1, <3>2, <3>3 DEF Ledger
  <2>2. CASE Contained(from, to)
    BY <2>2 DEF Contained, Captured
  <2> QED
    BY <2>1, <2>2
<1>2. first[c] \in Nat /\ last[c] \in Nat /\ from \in Nat /\ to \in Nat
  BY RowTyped, Bounds DEF Sound
<1>3. ASSUME NEW m \in 1 .. to PROVE m \in 1 .. from \/ m \in Stretch(c)
  <2>1. m \in Messages
    BY Bounds
  <2>2. m <= from \/ (first[c] < m /\ m <= last[c])
    BY <1>1, <1>2
  <2> QED
    BY <1>2, <2>1, <2>2 DEF Stretch
<1> QED
  BY <1>1, <1>3 DEF Covered

Grows == \A c \in Captures : state[c] # "none" =>
           state'[c] # "none" /\ first'[c] = first[c] /\ last[c] <= last'[c]

\* Where the captures only grow and no producer moves, what they have read
\* stays continued.
LEMMA ContinuingStays ==
  ASSUME Sound, Typed', Grows, NEW p \in Producers, producer'[p] = producer[p]
  PROVE  Continuing(p)'
<1>1. PICK from \in Positions, to \in Positions :
        from = producer[p].from /\ to = producer[p].to
  BY DEF Sound, Typed, TypeOK, ProducerState
<1>2. Continuing(p)
  BY DEF Sound, ProducersOK
<1>3. (Covered(from) => Covered(from)') /\ (Covered(to) => Covered(to)')
  BY CoveredStays DEF Sound, Grows
<1> QED
  BY <1>1, <1>2, <1>3 DEF Continuing

LEMMA ProducersStay ==
  ASSUME Sound, Typed', Grows, UNCHANGED <<cursor, producer>>
  PROVE  ProducersOK'
<1>1. PICK n \in Positions : n = cursor
  BY DEF Sound, Typed, TypeOK
<1>2. Covered(cursor)'
  BY <1>1, CoveredStays DEF Sound, ProducersOK, Grows
<1> QED
  BY <1>2, ContinuingStays DEF ProducersOK

\* A producer moves to a step of its own that continues the captures.
LEMMA ProducerMoves ==
  ASSUME Sound, Typed', Grows, NEW p \in Producers,
         NEW pc \in ProducerPc, NEW from \in Positions, NEW to \in Positions,
         NEW into \in Captures \cup {NoCapture},
         Advance(p, Capturing(pc, from, to, into)),
         pc # "idle" => from < to,
         pc \in {"look", "store"} => Covered(from)',
         pc = "commit" => Covered(to)',
         Covered(cursor)'
  PROVE  ProducersOK'
<1>1. \A q \in Producers \ {p} : producer'[q] = producer[q]
  BY DEF Advance, Sound, Typed, TypeOK
<1>2. /\ producer'[p].pc = pc /\ producer'[p].from = from /\ producer'[p].to = to
  BY DEF Advance, Capturing, Sound, Typed, TypeOK
<1>3. Continuing(p)'
  BY <1>2 DEF Continuing
<1> QED
  BY <1>1, <1>3, ContinuingStays DEF ProducersOK

LEMMA StoreSound ==
  ASSUME Sound, Typed', NEW p \in Producers, Store(p)
  PROVE  LedgerOK' /\ HolderOK' /\ ProducersOK'
<1>1. PICK from \in Positions, to \in Positions, into \in Captures \cup {NoCapture} :
        from = producer[p].from /\ to = producer[p].to /\ into = producer[p].into
  BY DEF Sound, Typed, TypeOK, ProducerState
<1>2. /\ StoreEnvelope(into, from, to)
      /\ Advance(p, Capturing("commit", from, to, NoCapture))
      /\ UNCHANGED <<cursor, working, applied>>
      /\ producer[p].pc = "store"
  BY <1>1 DEF Store
<1>3. from < to /\ Covered(from)
  BY <1>1, <1>2 DEF Sound, ProducersOK, Continuing
<1>4. \/ \E c \in Captures : state[c] = "captured" /\ last[c] = from /\ Extend(c, to)
      \/ UNCHANGED capture /\ (Exact(from, to) \/ Contained(from, to))
      \/ \E c \in Captures : Create(c, from, to)
  BY <1>2 DEF StoreEnvelope, Insert, Same, Continues, IsLatest, Captured
<1>5. LedgerOK' /\ HolderOK' /\ Grows /\ Covered(to)'
  <2>1. CASE \E c \in Captures : state[c] = "captured" /\ last[c] = from /\ Extend(c, to)
    BY <1>2, <1>3, <2>1, ExtendKeeps DEF Grows
  <2>2. CASE UNCHANGED capture /\ (Exact(from, to) \/ Contained(from, to))
    <3>1. Grows
      BY <2>2, RowTyped DEF Grows, capture, stretch, Sound
    <3>2. Covered(to)'
      BY <1>3, <2>2, <3>1, ContainedCovers, CoveredStays DEF Sound, Grows
    <3> QED
      BY <1>2, <2>2, <3>1, <3>2, NothingStored
  <2>3. CASE \E c \in Captures : Create(c, from, to)
    BY <1>2, <1>3, <2>3, CreateKeeps DEF Grows
  <2> QED
    BY <1>4, <2>1, <2>2, <2>3
<1>6. Covered(cursor)'
  <2>1. PICK n \in Positions : n = cursor
    BY DEF Sound, Typed, TypeOK
  <2>2. Covered(n)'
    BY <1>5, <2>1, CoveredStays DEF Sound, ProducersOK, Grows
  <2> QED
    BY <1>2, <2>1, <2>2
<1>7. ProducersOK'
  BY <1>2, <1>3, <1>5, <1>6, ProducerMoves DEF ProducerPc
<1> QED
  BY <1>5, <1>7

LEMMA ProduceSound ==
  ASSUME Sound, Typed', NEW p \in Producers, Produce(p) \/ ProducerDies(p)
  PROVE  LedgerOK' /\ HolderOK' /\ ProducersOK'
<1>1. PICK from \in Positions, to \in Positions, n \in Positions :
        from = producer[p].from /\ to = producer[p].to /\ n = cursor
  BY DEF Sound, Typed, TypeOK, ProducerState
<1>2. Continuing(p) /\ Covered(cursor)
  BY DEF Sound, ProducersOK
<1>3. CASE Store(p)
  BY <1>3, StoreSound
<1>4. CASE UNCHANGED <<capture, working, applied>>
  <2>1. LedgerOK' /\ HolderOK'
    BY <1>4, NothingStored
  <2>2. Grows
    BY <1>4, RowTyped DEF Grows, capture, stretch, Sound
  <2>3. \A k \in Positions : Covered(k) => Covered(k)'
    BY <2>2, CoveredStays DEF Sound, Grows
  <2>4. CASE ReadIncrement(p)
    <3>1. PICK m \in Positions : m = said
      BY DEF Sound, Typed, TypeOK
    <3>2. Advance(p, Capturing("look", n, m, NoCapture)) /\ n < m /\ cursor' = cursor
      BY <1>1, <2>4, <3>1 DEF ReadIncrement
    <3> QED
      BY <1>1, <1>2, <2>1, <2>2, <2>3, <3>2, ProducerMoves DEF ProducerPc
  <2>5. CASE Look(p)
    <3>1. from < to /\ Covered(from)
      BY <1>1, <1>2, <2>5 DEF Look, Continuing
    <3>2. Covered(cursor)'
      BY <1>1, <1>2, <2>3, <2>5 DEF Look
    <3>3. CASE Exact(from, to) \/ Contained(from, to)
      <4>1. Advance(p, Capturing("commit", from, to, NoCapture))
        BY <1>1, <2>5, <3>3 DEF Look
      <4>2. Covered(to)'
        BY <2>3, <3>1, <3>3, ContainedCovers
      <4> QED
        BY <2>1, <2>2, <3>1, <3>2, <4>1, <4>2, ProducerMoves DEF ProducerPc
    <3>4. CASE ~ Exact(from, to) /\ ~ Contained(from, to)
      <4>1. PICK into \in Captures \cup {NoCapture} :
              Advance(p, Capturing("store", from, to, into))
        BY <1>1, <2>5, <3>4 DEF Look
      <4> QED
        BY <2>1, <2>2, <2>3, <3>1, <3>2, <4>1, ProducerMoves DEF ProducerPc
    <3> QED
      BY <3>3, <3>4
  <2>6. CASE Commit(p) \/ ProducerDies(p)
    <3>1. Advance(p, Capturing("idle", 0, 0, NoCapture))
      BY <2>6 DEF Commit, ProducerDies, Aside
    <3>2. Covered(cursor)'
      <4>1. cursor' = cursor \/ (Commit(p) /\ cursor' = to)
        BY <1>1, <2>6 DEF Commit, ProducerDies
      <4>2. Commit(p) => Covered(to)
        BY <1>1, <1>2 DEF Commit, Continuing
      <4>3. Covered(n)' /\ (Commit(p) => Covered(to)')
        BY <1>1, <1>2, <2>3, <4>2
      <4> QED
        BY <1>1, <4>1, <4>3
    <3> QED
      BY <2>1, <2>2, <3>1, <3>2, Bounds, ProducerMoves DEF ProducerPc
  <2> QED
    BY <1>4, <2>1, <2>4, <2>5, <2>6, <1>3 DEF Produce
<1> QED
  BY <1>3, <1>4 DEF Produce, ReadIncrement, Look, Commit, ProducerDies, working
-----------------------------------------------------------------------------
(* What the runs do *)

\* The holder of the lease moves to a step that agrees with the ledger.
LEMMA HolderMoves ==
  ASSUME Typed, NEW w \in Workers, NEW r, Enter(w, r), lease = w, lease' = lease, Fits(r)'
  PROVE  HolderOK'
<1>1. run'[w] = r
  BY DEF Enter, Typed, TypeOK
<1>2. Fits(run[w])'
  BY <1>1 DEF Fits
<1> QED
  BY <1>2 DEF HolderOK

\* A run that rests has nothing to agree with.
LEMMA RestFits ==
  ASSUME Typed, NEW w \in Workers, NEW pc \in RunPc \ AtWork, Enter(w, Resting(pc)),
         lease = w, lease' = lease
  PROVE  HolderOK'
<1>1. PICK r : r = Resting(pc)
  OBVIOUS
<1>2. r.pc = pc
  BY <1>1 DEF Resting
<1>3. Fits(r)'
  BY <1>2 DEF Fits, RunPc, AtWork, Extraction, Review, Consolidation
<1> QED
  BY <1>1, <1>3, HolderMoves

LEMMA WorkKeeps ==
  ASSUME Sound, NEW w \in Workers, Work(w) \/ WorkerDies(w)
  PROVE  Grows /\ UNCHANGED <<cursor, producer>>
<1> USE DEF source, capture, stretch
<1>1. UNCHANGED <<stretch, cursor, producer>>
  BY DEF Work, WorkerDies, Acquire, Extract, Consolidate, Apply, CloseRun, Working, Pick,
         ExtractNone, CallExtractor, SaveWindow, ExtractionFails, Fail, Triage,
         CallConsolidator, NothingToDecide, Decide, SetDecisions, ProviderFails,
         ConsolidationFails, Defer, PickPending, Ingest, RecordApplication, MarkApplied,
         ApplicationFails, Retire, Delete, Finish, LeaseLost
<1>2. \A c \in Captures : state[c] # "none" => state'[c] # "none"
  <2>1. \/ UNCHANGED state
        \/ \E c \in Captures \cup {NoCapture}, s \in CaptureState \ {"none"} :
             state' = [state EXCEPT ![c] = s]
        \/ \E skip \in SUBSET Captures :
             state' = [c \in Captures |-> IF c \in skip THEN "skipped" ELSE state[c]]
    <3>1. run[w].on \in Captures \cup {NoCapture}
      BY RunFields DEF Sound, Typed
    <3> QED
      BY <3>1
      DEF Work, WorkerDies, Acquire, Extract, Consolidate, Apply, CloseRun, Working, Pick,
          ExtractNone, CallExtractor, SaveWindow, ExtractionFails, Fail, Triage,
          CallConsolidator, NothingToDecide, Decide, SetDecisions, Close, ProviderFails,
          ConsolidationFails, Defer, PickPending, Ingest, RecordApplication, MarkApplied,
          ApplicationFails, Retire, Delete, Finish, LeaseLost, CaptureState
  <2> QED
    BY <2>1, Rows DEF Sound
<1> QED
  BY <1>1, <1>2, RowTyped DEF Grows, Sound

\* A step that changes neither the ledger nor what was applied.
LEMMA LedgerKept ==
  ASSUME Sound, UNCHANGED <<capture, applied>>
  PROVE  LedgerOK'
<1> USE DEF capture, stretch, extraction, review, applied
<1>1. ASSUME NEW c \in Captures PROVE Ledger(c)'
  <2>1. Ledger(c) /\ UNCHANGED Row(c)
    BY DEF Sound, LedgerOK, Row, Released
  <2> QED
    BY <2>1, RowKept
<1> QED
  BY <1>1 DEF LedgerOK

LEMMA LeaseSound ==
  ASSUME Sound, NEW w \in Workers,
         Acquire(w) \/ LeaseLost(w) \/ WorkerDies(w) \/ Finish(w)
  PROVE  LedgerOK' /\ HolderOK'
<1>1. UNCHANGED <<capture, applied>>
  BY DEF Acquire, LeaseLost, WorkerDies, Finish
<1>2. \E pc \in {"idle", "pick"} : Enter(w, Resting(pc))
  BY DEF Acquire, LeaseLost, WorkerDies, Finish
<1>3. run'[w].pc \in {"idle", "pick"} /\ \A v \in Workers \ {w} : run'[v] = run[v]
  <2>1. PICK r : Enter(w, r) /\ r.pc \in {"idle", "pick"}
    BY <1>2 DEF Resting
  <2>2. run \in [Workers -> RunState]
    BY DEF Sound, Typed, TypeOK
  <2> QED
    BY <2>1, <2>2 DEF Enter
<1>4. lease' \in {lease, w, NoOne}
  BY DEF Acquire, LeaseLost, WorkerDies, Finish
<1>5. ASSUME NEW v \in Workers, lease' = v PROVE Fits(run[v])'
  <2>1. CASE v = w
    BY <1>3, <2>1 DEF Fits, Extraction, Review, Consolidation
  <2>2. CASE v # w
    <3>1. lease = v
      BY <1>4, <1>5, <2>2, DreamingAssumption
    <3>2. Fits(run[v])
      BY <3>1 DEF Sound, HolderOK
    <3> QED
      BY <1>1, <1>3, <2>2, <3>2
      DEF Fits, capture, stretch, extraction, review, applied
  <2> QED
    BY <2>1, <2>2
<1> QED
  BY <1>1, <1>5, LedgerKept DEF HolderOK

\* A run that only reads moves to a step that fits what it has read.
LEMMA ReadSound ==
  ASSUME Sound, NEW w \in Workers, NEW r, Enter(w, r), lease = w, lease' = lease,
         UNCHANGED <<capture, applied>>, Fits(r)
  PROVE  LedgerOK' /\ HolderOK'
<1>1. Fits(r)'
  BY DEF Fits, capture, stretch, extraction, review, applied
<1> QED
  BY <1>1, LedgerKept, HolderMoves DEF Sound

LEMMA PickSound ==
  ASSUME Sound, NEW w \in Workers, NEW c \in Captures, Pick(w, c) \/ PickPending(w, c)
  PROVE  LedgerOK' /\ HolderOK'
<1>1. lease = w /\ lease' = lease /\ UNCHANGED <<capture, applied>>
  BY DEF Pick, PickPending, Working, Holds
<1>2. Ledger(c)
  BY DEF Sound, LedgerOK
<1>3. /\ through[c] \in Nat /\ last[c] \in Nat /\ through[c] <= through[c]
      /\ judged[c] \in BOOLEAN
  BY RowTyped, CaptureFields DEF Sound
<1>4. \E r : Enter(w, r) /\ Fits(r)
  <2>1. CASE Pick(w, c) /\ through[c] = last[c] /\ judged[c]
    <3>1. PICK r : r = Deciding("consolidate", c, decided[c], Reopened(c))
      OBVIOUS
    <3>2. Enter(w, r)
      BY <2>1, <3>1 DEF Pick, Reviewed
    <3>3. r.pc = "consolidate" /\ r.on = c /\ r.base = decided[c]
      BY <3>1 DEF Deciding
    <3> QED
      BY <1>2, <1>3, <2>1, <3>2, <3>3
      DEF Ledger, Pick, Eligible, Fits, Extraction, Review, Consolidation
  <2>2. CASE Pick(w, c) /\ through[c] = last[c] /\ ~ judged[c]
    <3>1. PICK r : r = Deciding("triage", c, {}, Open(note[c]))
      OBVIOUS
    <3>2. Enter(w, r)
      BY <2>2, <3>1 DEF Pick, Reviewed
    <3>3. r.pc = "triage" /\ r.on = c
      BY <3>1 DEF Deciding
    <3> QED
      BY <1>2, <1>3, <2>2, <3>2, <3>3
      DEF Ledger, Pick, Eligible, Fits, Extraction, Review, Consolidation
  <2>3. CASE Pick(w, c) /\ through[c] # last[c]
    <3>1. PICK r : r = Extracting("window", c, last[c], through[c], 0)
      OBVIOUS
    <3>2. Enter(w, r)
      BY <2>3, <3>1 DEF Pick
    <3>3. r.pc = "window" /\ r.on = c /\ r.at = through[c]
      BY <3>1 DEF Extracting
    <3> QED
      BY <1>2, <1>3, <2>3, <3>2, <3>3
      DEF Ledger, Pick, Eligible, Fits, Extraction, Review, Consolidation
  <2>4. CASE PickPending(w, c)
    <3>1. PICK r : r = Deciding("apply", c, {}, decided[c])
      OBVIOUS
    <3>2. Enter(w, r)
      BY <2>4, <3>1 DEF PickPending
    <3>3. r.pc = "apply" /\ r.on = c /\ r.todo = decided[c]
      BY <3>1 DEF Deciding
    <3> QED
      BY <1>2, <2>4, <3>2, <3>3
      DEF Ledger, PickPending, Digested, Fits, Extraction, Review, Consolidation
  <2> QED
    BY <2>1, <2>2, <2>3, <2>4
<1> QED
  BY <1>1, <1>4, ReadSound

\* A step of the holder that changes one row of the ledger.
LEMMA RowSound ==
  ASSUME Sound, NEW c \in Captures, Ledger(c)',
         \A d \in Captures \ {c} : UNCHANGED Row(d)
  PROVE  LedgerOK'
  BY RowKept DEF Sound, LedgerOK

LEMMA CallSound ==
  ASSUME Sound, NEW w \in Workers,
         \/ \E upto \in Messages : CallExtractor(w, upto)
         \/ ExtractNone(w) \/ CallConsolidator(w) \/ ProviderFails(w)
  PROVE  LedgerOK' /\ HolderOK'
<1>1. lease = w /\ lease' = lease
  BY DEF CallExtractor, ExtractNone, CallConsolidator, ProviderFails, Working, Holds
<1>2. Fits(run[w])
  BY <1>1 DEF Sound, HolderOK
<1>3. CASE \E upto \in Messages : CallExtractor(w, upto)
  <2>1. PICK upto \in Messages : CallExtractor(w, upto)
    BY <1>3
  <2>2. PICK c, at, seen : c = run[w].on /\ at = run[w].at /\ seen = run[w].seen
    OBVIOUS
  <2>3. c \in Captures
    BY <2>1, <2>2, OnCapture DEF CallExtractor, Working, AtWork, Sound
  <2>4. PICK r : r = Extracting("extracting", c, seen, at, upto)
    OBVIOUS
  <2>5. /\ r.pc = "extracting" /\ r.on = c /\ r.at = at /\ r.upto = upto
    BY <2>4 DEF Extracting
  <2>6. /\ Enter(w, r) /\ sent'[c] = sent[c] \cup ((at + 1) .. upto)
        /\ \A d \in Captures \ {c} : sent'[d] = sent[d]
        /\ UNCHANGED <<state, stretch, through, review, applied>>
        /\ run[w].pc = "window"
    BY <2>1, <2>2, <2>3, <2>4 DEF CallExtractor, Working, Sound, Typed, TypeOK
  <2>7. Fits(r)'
    BY <1>2, <2>2, <2>5, <2>6 DEF Fits, Extraction, Review, Consolidation, review
  <2>8. Ledger(c)'
    BY <2>3, <2>6 DEF Sound, LedgerOK, Ledger, Released, stretch, review, applied
  <2>9. LedgerOK'
    BY <2>3, <2>6, <2>8, RowSound DEF Row, Released, stretch, review, applied
  <2> QED
    BY <1>1, <2>6, <2>7, <2>9, HolderMoves DEF Sound
<1>4. CASE ExtractNone(w) \/ ProviderFails(w)
  <2>1. Enter(w, Resting("pending")) /\ UNCHANGED <<capture, applied>>
    BY <1>4 DEF ExtractNone, ProviderFails
  <2> QED
    BY <1>1, <2>1, RestFits, LedgerKept DEF RunPc, AtWork, Sound
<1>5. CASE CallConsolidator(w)
  <2>1. PICK r : r = Deciding("consolidating", run[w].on, run[w].base, run[w].todo)
    OBVIOUS
  <2>2. /\ r.pc = "consolidating" /\ r.on = run[w].on /\ r.base = run[w].base
    BY <2>1 DEF Deciding
  <2>3. Enter(w, r) /\ UNCHANGED <<capture, applied>> /\ run[w].pc = "consolidate"
    BY <1>5, <2>1 DEF CallConsolidator, Working
  <2>4. Fits(r)
    BY <1>2, <2>2, <2>3 DEF Fits, Extraction, Review, Consolidation
  <2> QED
    BY <1>1, <2>3, <2>4, ReadSound
<1> QED
  BY <1>3, <1>4, <1>5

LEMMA SaveSound ==
  ASSUME Sound, NEW w \in Workers, NEW more \in BOOLEAN, SaveWindow(w, more)
  PROVE  LedgerOK' /\ HolderOK'
<1>1. lease = w /\ lease' = lease /\ run[w].pc = "extracting" /\ Fits(run[w])
  BY DEF SaveWindow, Working, Holds, Sound, HolderOK
<1>2. PICK c, at, upto, reached :
        /\ c = run[w].on /\ at = run[w].at /\ upto = run[w].upto
        /\ reached = Min({last[c], Max({through[c], upto})})
  OBVIOUS
<1>3. c \in Captures
  BY <1>1, <1>2, OnCapture DEF AtWork, Sound
<1>4. /\ upto \in Nat /\ at \in Nat /\ last[c] \in Nat /\ through[c] \in Nat
      /\ first[c] \in Nat
  BY <1>2, <1>3, RunFields, RowTyped, Bounds DEF Sound, Typed
<1>5. Ledger(c) /\ through[c] <= last[c] /\ at <= through[c] /\ ~ judged[c]
  BY <1>1, <1>2, <1>3 DEF Sound, LedgerOK, Ledger, Fits, Extraction
<1>6. /\ reached \in Nat /\ through[c] <= reached /\ reached <= last[c]
      /\ reached <= through[c] \/ reached <= upto
      /\ WindowIsLast(c, run[w]) => reached = last[c]
      /\ ~ WindowIsLast(c, run[w]) => reached < last[c]
  <2>1. PICK high : high = Max({through[c], upto})
    OBVIOUS
  <2>2. high \in {through[c], upto} /\ high >= through[c]
    BY <1>4, <2>1, MaxOfTwo
  <2>3. reached \in {last[c], high} /\ reached <= last[c] /\ reached <= high
    <3>1. high \in Nat /\ last[c] \in Nat /\ reached = Min({last[c], high})
      BY <1>2, <1>4, <2>1, <2>2
    <3> QED
      BY <3>1, MinOfTwo
  <2>4. WindowIsLast(c, run[w]) <=> high >= last[c]
    BY <1>2, <2>1 DEF WindowIsLast
  <2> QED
    BY <1>4, <1>5, <2>2, <2>3, <2>4
<1>7. /\ through'[c] = reached /\ \A d \in Captures \ {c} : through'[d] = through[d]
      /\ UNCHANGED <<stretch, sent, decided, judged, applied>>
      /\ note'[c] = Extracted(c, run[w]) /\ \A d \in Captures \ {c} : note'[d] = note[d]
  BY <1>2, <1>3 DEF SaveWindow, Sound, Typed, TypeOK
<1>8. IF WindowIsLast(c, run[w])
      THEN /\ state'[c] = "extracted" /\ \A d \in Captures \ {c} : state'[d] = state[d]
           /\ Enter(w, Deciding("triage", c, {}, Open(Extracted(c, run[w]))))
      ELSE /\ UNCHANGED state
           /\ \/ Enter(w, Extracting("window", c, last[c], reached, 0))
              \/ Enter(w, Resting("pending"))
  <2>1. CASE WindowIsLast(c, run[w])
    <3>1. /\ state' = [state EXCEPT ![c] = "extracted"]
          /\ Enter(w, Deciding("triage", c, {}, Open(Extracted(c, run[w]))))
      BY <1>2, <2>1 DEF SaveWindow
    <3>2. state \in [Captures -> CaptureState]
      BY DEF Sound, Typed, TypeOK
    <3> QED
      BY <1>3, <2>1, <3>1, <3>2
  <2>2. CASE ~ WindowIsLast(c, run[w])
    BY <1>2, <1>3, <2>2 DEF SaveWindow
  <2> QED
    BY <2>1, <2>2
<1>9. Released(c)' = Released(c)
  BY <1>7 DEF Released, Extracted
<1>10. \A m \in Messages : first[c] < m /\ m <= reached => m \in sent[c]
  <2> SUFFICES ASSUME NEW m \in Messages, first[c] < m, m <= reached PROVE m \in sent[c]
    OBVIOUS
  <2>1. m \in Nat
    BY Bounds
  <2>2. CASE m <= through[c]
    BY <1>5, <2>2 DEF Ledger
  <2>3. CASE ~ m <= through[c]
    <3>1. m \in (at + 1) .. upto
      BY <1>4, <1>5, <1>6, <2>1, <2>3
    <3> QED
      BY <1>1, <1>2, <3>1 DEF Fits
  <2> QED
    BY <2>2, <2>3
<1>11. first[c] <= reached
  BY <1>4, <1>5, <1>6 DEF Ledger
<1>12. \A d \in Captures \ {c} : UNCHANGED Row(d)
  BY <1>7, <1>8 DEF Row, Released, stretch, applied
<1>13. CASE WindowIsLast(c, run[w])
  <2>1. PICK r : r = Deciding("triage", c, {}, Open(Extracted(c, run[w])))
    OBVIOUS
  <2>2. r.pc = "triage" /\ r.on = c /\ Enter(w, r)
    BY <1>8, <1>13, <2>1 DEF Deciding
  <2>3. Fits(r)'
    BY <1>5, <1>6, <1>7, <1>8, <1>13, <2>2
    DEF Fits, Extraction, Review, Consolidation, stretch
  <2>4. Ledger(c)'
    BY <1>5, <1>6, <1>7, <1>8, <1>10, <1>11, <1>13
    DEF Ledger, Digested, Closed, stretch, applied
  <2> QED
    BY <1>1, <1>3, <1>12, <2>2, <2>3, <2>4, RowSound, HolderMoves DEF Sound
<1>14. CASE ~ WindowIsLast(c, run[w])
  <2>1. reached < last[c] /\ through[c] < last[c] /\ UNCHANGED state
    BY <1>4, <1>6, <1>8, <1>14
  <2>2. Ledger(c)'
    <3>1. state[c] \notin Digested /\ state[c] \notin Closed /\ state[c] # "applied"
      BY <1>4, <1>5, <2>1 DEF Ledger, Digested, Closed
    <3>2. reached <= last[c]
      BY <1>6
    <3> QED
      BY <1>5, <1>7, <1>10, <1>11, <2>1, <3>1, <3>2 DEF Ledger, stretch, applied
  <2>3. CASE Enter(w, Resting("pending"))
    BY <1>1, <1>3, <1>12, <2>2, <2>3, RowSound, RestFits DEF Sound, RunPc, AtWork
  <2>4. CASE Enter(w, Extracting("window", c, last[c], reached, 0))
    <3>1. PICK r : r = Extracting("window", c, last[c], reached, 0)
      OBVIOUS
    <3>2. r.pc = "window" /\ r.on = c /\ r.at = reached /\ Enter(w, r)
      BY <2>4, <3>1 DEF Extracting
    <3>3. state[c] # "none" /\ reached <= reached
      BY <1>1, <1>2, <1>6 DEF Fits, Extraction
    <3>4. Fits(r)'
      BY <1>5, <1>7, <2>1, <3>2, <3>3 DEF Fits, Extraction, Review, Consolidation
    <3> QED
      BY <1>1, <1>3, <1>12, <2>2, <3>2, <3>4, RowSound, HolderMoves DEF Sound
  <2> QED
    BY <1>8, <1>14, <2>3, <2>4
<1> QED
  BY <1>13, <1>14

\* The holder at a step of the review: its capture, and what fits it.
LEMMA OnReview ==
  ASSUME Sound, NEW w \in Workers, lease = w, run[w].pc \in Review
  PROVE  /\ run[w].on \in Captures /\ Ledger(run[w].on) /\ Fits(run[w])
         /\ through[run[w].on] = last[run[w].on]
         /\ state[run[w].on] \notin {"none", "captured"}
<1>1. run[w].on \in Captures
  BY OnCapture DEF Sound, AtWork, Review
<1> QED
  BY <1>1 DEF Sound, LedgerOK, HolderOK, Fits

LEMMA FailSound ==
  ASSUME Sound, NEW w \in Workers, NEW stage \in Stage, NEW semantic \in BOOLEAN, NEW limit \in BOOLEAN,
         run[w].pc \in AtWork, lease = w, lease' = lease, Fail(w, stage, semantic, limit)
  PROVE  LedgerOK' /\ HolderOK'
<1>1. PICK c : c = run[w].on
  OBVIOUS
<1>2. c \in Captures
  BY <1>1, OnCapture DEF Sound
<1>3. /\ state'[c] \in {"quarantined", "retryable"}
      /\ \A d \in Captures \ {c} : state'[d] = state[d]
      /\ UNCHANGED <<stretch, extraction, note, decided, judged, applied>>
  BY <1>1, <1>2 DEF Fail, Sound, Typed, TypeOK
<1>4. Ledger(c)
  BY <1>2 DEF Sound, LedgerOK
<1>5. Ledger(c)'
  BY <1>3, <1>4 DEF Ledger, Digested, Closed, stretch, extraction, applied
<1>6. \A d \in Captures \ {c} : UNCHANGED Row(d)
  BY <1>3 DEF Row, Released, stretch, extraction, applied
<1>7. Enter(w, Resting("pending"))
  BY DEF Fail
<1> QED
  BY <1>2, <1>5, <1>6, <1>7, RowSound, RestFits DEF Sound, RunPc, AtWork

LEMMA TriageSound ==
  ASSUME Sound, NEW w \in Workers, NEW hold \in SUBSET Telling, Triage(w, hold)
  PROVE  LedgerOK' /\ HolderOK'
<1>1. lease = w /\ lease' = lease /\ run[w].pc = "triage"
  BY DEF Triage, Working, Holds
<1>2. PICK c : c = run[w].on
  OBVIOUS
<1>3. /\ c \in Captures /\ Ledger(c) /\ Fits(run[w])
      /\ through[c] = last[c] /\ state[c] \notin {"none", "captured"}
  BY <1>1, <1>2, OnReview DEF Review
<1>4. /\ note'[c] = Triaged(c, hold) /\ \A d \in Captures \ {c} : note'[d] = note[d]
      /\ UNCHANGED <<state, stretch, extraction, decided, judged, applied>>
  BY <1>2, <1>3 DEF Triage, Sound, Typed, TypeOK
<1>5. Released(c)' = Released(c)
  BY <1>4 DEF Released, Triaged
<1>6. \A d \in Captures : UNCHANGED Row(d)
  BY <1>4, <1>5 DEF Row, Released, stretch, extraction, applied
<1>7. LedgerOK'
  BY <1>6, RowKept DEF Sound, LedgerOK
<1>8. PICK r : Enter(w, r) /\ r.pc = "consolidate" /\ r.on = c
  BY <1>2 DEF Triage, Deciding
<1>9. decided[c] = {}
  BY <1>1, <1>2, <1>3 DEF Ledger, Fits
<1>10. Fits(r)'
  BY <1>3, <1>4, <1>8, <1>9 DEF Fits, Extraction, Review, Consolidation, stretch, extraction
<1> QED
  BY <1>1, <1>7, <1>8, <1>10, HolderMoves DEF Sound

\* What SetDecisions writes, from either of its two callers.
LEMMA DecisionsSound ==
  ASSUME Sound, NEW w \in Workers, NEW decisions \in SUBSET Messages,
         run[w].pc \in Consolidation, lease = w, lease' = lease, SetDecisions(w, decisions)
  PROVE  LedgerOK' /\ HolderOK'
<1>1. PICK c : c = run[w].on
  OBVIOUS
<1>2. c \in Captures /\ Ledger(c) /\ through[c] = last[c]
  BY <1>1, OnReview DEF Review, Consolidation
<1>3. /\ state'[c] = IF StaysOpen(c, decisions) THEN "extracted" ELSE "consolidated"
      /\ decided'[c] = decisions /\ judged'[c] = TRUE
      /\ \A d \in Captures \ {c} :
           state'[d] = state[d] /\ decided'[d] = decided[d] /\ judged'[d] = judged[d]
      /\ UNCHANGED <<stretch, extraction, note, applied>>
  BY <1>1, <1>2 DEF SetDecisions, Close, Sound, Typed, TypeOK
<1>4. state'[c] = "consolidated" => Released(c)' \subseteq decisions
  BY <1>3 DEF StaysOpen, Released
<1>5. Ledger(c)'
  BY <1>2, <1>3, <1>4 DEF Ledger, Digested, Closed, stretch, extraction, applied
<1>6. \A d \in Captures \ {c} : UNCHANGED Row(d)
  BY <1>3 DEF Row, Released, stretch, extraction, applied
<1>7. Enter(w, Resting("pending"))
  BY DEF SetDecisions
<1> QED
  BY <1>2, <1>5, <1>6, <1>7, RowSound, RestFits DEF Sound, RunPc, AtWork

LEMMA DeferSound ==
  ASSUME Sound, NEW w \in Workers, NEW made \in SUBSET Telling, Defer(w, made)
  PROVE  LedgerOK' /\ HolderOK'
<1>1. lease = w /\ lease' = lease /\ run[w].pc \in Consolidation
  BY DEF Defer, Working, Holds, Consolidation
<1>2. PICK c : c = run[w].on
  OBVIOUS
<1>3. /\ c \in Captures /\ Ledger(c) /\ through[c] = last[c]
      /\ judged[c] \in BOOLEAN
  BY <1>1, <1>2, OnReview, CaptureFields DEF Review, Consolidation, Sound
<1>4. /\ state'[c] = "extracted" /\ judged'[c] = (judged[c] \/ made # {})
      /\ made = {} => decided'[c] = decided[c]
      /\ \A d \in Captures \ {c} :
           state'[d] = state[d] /\ decided'[d] = decided[d] /\ judged'[d] = judged[d]
      /\ UNCHANGED <<stretch, extraction, note, applied>>
  BY <1>2, <1>3 DEF Defer, Sound, Typed, TypeOK
<1>5. Ledger(c)'
  <2>1. judged'[c] \/ decided'[c] = {}
    BY <1>3, <1>4 DEF Ledger
  <2> QED
    BY <1>3, <1>4, <2>1 DEF Ledger, Digested, Closed, stretch, extraction, applied
<1>6. \A d \in Captures \ {c} : UNCHANGED Row(d)
  BY <1>4 DEF Row, Released, stretch, extraction, applied
<1>7. Enter(w, Resting("pending"))
  BY DEF Defer
<1> QED
  BY <1>1, <1>3, <1>5, <1>6, <1>7, RowSound, RestFits DEF Sound, RunPc, AtWork

LEMMA IngestSound ==
  ASSUME Sound, NEW w \in Workers, NEW m \in Telling, Ingest(w, m)
  PROVE  LedgerOK' /\ HolderOK'
<1>1. /\ lease = w /\ lease' = lease /\ run[w].pc = "apply"
      /\ UNCHANGED <<capture, displaced, applications, credited>>
  BY DEF Ingest, Working, Holds
<1>2. PICK c, todo : c = run[w].on /\ todo = run[w].todo
  OBVIOUS
<1>3. /\ c \in Captures /\ Ledger(c) /\ Fits(run[w])
      /\ through[c] = last[c] /\ state[c] \notin {"none", "captured"}
  BY <1>1, <1>2, OnReview DEF Review
<1>4. decided[c] \ todo \subseteq applications[c]
  BY <1>1, <1>2, <1>3 DEF Fits
<1>5. ASSUME m \in applications[c], Enter(w, Deciding("apply", c, {}, todo \ {m})),
             UNCHANGED claimed
      PROVE  LedgerOK' /\ HolderOK'
  <2>1. PICK r : r = Deciding("apply", c, {}, todo \ {m})
    OBVIOUS
  <2>2. /\ r.pc = "apply" /\ r.on = c /\ r.todo = todo \ {m}
        /\ Enter(w, r) /\ UNCHANGED applied
    BY <1>1, <1>5, <2>1 DEF Deciding, applied
  <2>3. Fits(r)
    BY <1>3, <1>4, <1>5, <2>2 DEF Fits, Extraction, Review, Consolidation
  <2> QED
    BY <1>1, <2>2, <2>3, ReadSound
<1>6. ASSUME Ignorable(c, m), Enter(w, Deciding("ignore", c, {m}, todo)), UNCHANGED claimed
      PROVE  LedgerOK' /\ HolderOK'
  <2>1. PICK r : r = Deciding("ignore", c, {m}, todo)
    OBVIOUS
  <2>2. /\ r.pc = "ignore" /\ r.on = c /\ r.todo = todo /\ r.base = {m}
        /\ Enter(w, r) /\ UNCHANGED applied
    BY <1>1, <1>6, <2>1 DEF Deciding, applied
  <2>3. Fits(r)
    BY <1>3, <1>4, <1>6, <2>2 DEF Fits, Ignorable, Extraction, Review, Consolidation
  <2> QED
    BY <1>1, <2>2, <2>3, ReadSound
<1>7. ASSUME m \notin applications[c], Enter(w, Deciding("record", c, {m}, todo)),
             claimed' = [claimed EXCEPT ![c] = @ \cup {m}]
      PROVE  LedgerOK' /\ HolderOK'
  <2>1. PICK r : r = Deciding("record", c, {m}, todo)
    OBVIOUS
  <2>2. /\ r.pc = "record" /\ r.on = c /\ r.todo = todo /\ r.base = {m} /\ Enter(w, r)
    BY <1>7, <2>1 DEF Deciding
  <2>3. /\ claimed'[c] = claimed[c] \cup {m}
        /\ \A d \in Captures \ {c} : claimed'[d] = claimed[d]
    BY <1>3, <1>7 DEF Sound, Typed, TypeOK
  <2>4. Fits(r)'
    BY <1>1, <1>3, <1>4, <2>2, <2>3
    DEF Fits, Extraction, Review, Consolidation, capture, stretch, extraction, review
  <2>5. Ledger(c)'
    <3>1. /\ credited[c] \subseteq claimed'[c]
          /\ claimed'[c] \cap applications[c] \subseteq credited[c] \cup displaced[c]
      BY <1>3, <1>7, <2>3 DEF Ledger
    <3> QED
      BY <1>1, <1>3, <3>1 DEF Ledger, Released, capture, stretch, extraction, review
  <2>6. \A d \in Captures \ {c} : UNCHANGED Row(d)
    BY <1>1, <2>3 DEF Row, Released, capture, stretch, extraction, review
  <2> QED
    BY <1>1, <1>3, <2>2, <2>4, <2>5, <2>6, RowSound, HolderMoves DEF Sound
<1> QED
  BY <1>2, <1>5, <1>6, <1>7 DEF Ingest

LEMMA RecordSound ==
  ASSUME Sound, NEW w \in Workers, RecordApplication(w)
  PROVE  LedgerOK' /\ HolderOK'
<1>1. /\ lease = w /\ lease' = lease /\ run[w].pc \in {"record", "ignore"}
      /\ UNCHANGED <<capture, claimed, displaced>>
  BY DEF RecordApplication, Working, Holds
<1>2. PICK c, todo, base : c = run[w].on /\ todo = run[w].todo /\ base = run[w].base
  OBVIOUS
<1>3. /\ c \in Captures /\ Ledger(c) /\ Fits(run[w])
      /\ through[c] = last[c] /\ state[c] \notin {"none", "captured"}
  BY <1>1, <1>2, OnReview DEF Review
<1>4. /\ decided[c] \ todo \subseteq applications[c]
      /\ run[w].pc = "record" => base \subseteq claimed[c]
      /\ run[w].pc = "ignore" => base \cap claimed[c] \subseteq displaced[c]
  BY <1>1, <1>2, <1>3 DEF Fits
<1>5. PICK r : r = Deciding("apply", c, {}, todo \ base)
  OBVIOUS
<1>6. /\ r.pc = "apply" /\ r.on = c /\ r.todo = todo \ base /\ Enter(w, r)
      /\ applications'[c] = applications[c] \cup base
      /\ \A d \in Captures \ {c} : applications'[d] = applications[d]
  BY <1>2, <1>3, <1>5 DEF RecordApplication, Deciding, Sound, Typed, TypeOK
<1>7. /\ credited'[c] = IF run[w].pc = "record" THEN credited[c] \cup base ELSE credited[c]
      /\ \A d \in Captures \ {c} : credited'[d] = credited[d]
  BY <1>2, <1>3 DEF RecordApplication, Sound, Typed, TypeOK
<1>8. Fits(r)'
  BY <1>1, <1>3, <1>4, <1>6
  DEF Fits, Extraction, Review, Consolidation, capture, stretch, extraction, review
<1>9. Ledger(c)'
  <2>1. /\ credited'[c] \subseteq claimed[c]
        /\ claimed[c] \cap applications'[c] \subseteq credited'[c] \cup displaced[c]
    BY <1>1, <1>3, <1>4, <1>6, <1>7 DEF Ledger
  <2> QED
    BY <1>1, <1>3, <1>6, <2>1 DEF Ledger, Released, capture, stretch, extraction, review
<1>10. \A d \in Captures \ {c} : UNCHANGED Row(d)
  BY <1>1, <1>6, <1>7 DEF Row, Released, capture, stretch, extraction, review
<1> QED
  BY <1>1, <1>3, <1>6, <1>8, <1>9, <1>10, RowSound, HolderMoves DEF Sound

LEMMA MarkSound ==
  ASSUME Sound, NEW w \in Workers, MarkApplied(w)
  PROVE  LedgerOK' /\ HolderOK'
<1>1. lease = w /\ lease' = lease /\ run[w].pc = "apply" /\ run[w].todo = {}
  BY DEF MarkApplied, Working, Holds
<1>2. PICK c : c = run[w].on
  OBVIOUS
<1>3. c \in Captures /\ Ledger(c) /\ Fits(run[w]) /\ through[c] = last[c]
  BY <1>1, <1>2, OnReview DEF Review
<1>4. decided[c] \subseteq applications[c]
  BY <1>1, <1>2, <1>3 DEF Fits
<1>5. /\ state'[c] = IF StaysOpen(c, decided[c]) THEN "extracted" ELSE "applied"
      /\ \A d \in Captures \ {c} : state'[d] = state[d]
      /\ UNCHANGED <<stretch, extraction, note, decided, judged, applied>>
  BY <1>2, <1>3 DEF MarkApplied, Close, Sound, Typed, TypeOK
<1>6. state'[c] = "applied" => Released(c)' \subseteq decided[c]
  BY <1>5 DEF StaysOpen, Released
<1>7. Ledger(c)'
  BY <1>3, <1>4, <1>5, <1>6 DEF Ledger, Digested, Closed, stretch, extraction, applied
<1>8. \A d \in Captures \ {c} : UNCHANGED Row(d)
  BY <1>5 DEF Row, Released, stretch, extraction, applied
<1>9. Enter(w, Resting("pending"))
  BY DEF MarkApplied
<1> QED
  BY <1>1, <1>3, <1>7, <1>8, <1>9, RowSound, RestFits DEF Sound, RunPc, AtWork

LEMMA PruneSound ==
  ASSUME Sound, NEW w \in Workers,
         \/ \E skip, prune \in SUBSET Captures : Retire(w, skip, prune)
         \/ \E c \in Captures : Delete(w, c)
  PROVE  LedgerOK' /\ HolderOK'
<1>1. lease = w /\ lease' = lease /\ UNCHANGED <<stretch, extraction, review, applied>>
  BY DEF Retire, Delete, Working, Holds
<1>2. \E old : Enter(w, Pruning(old))
  BY DEF Retire, Delete
<1>3. PICK r : Enter(w, r) /\ r.pc = "prune"
  BY <1>2 DEF Pruning
<1>4. HolderOK'
  <2>1. Fits(r)'
    BY <1>3 DEF Fits, Extraction, Review, Consolidation
  <2> QED
    BY <1>1, <1>3, <2>1, HolderMoves DEF Sound
<1>5. \A c \in Captures : state'[c] \in {state[c], "gone", "skipped"}
  BY DEF Retire, Delete, Sound, Typed, TypeOK
<1>6. ASSUME NEW c \in Captures PROVE Ledger(c)'
  <2>1. Ledger(c) /\ Released(c)' = Released(c)
    BY <1>1 DEF Sound, LedgerOK, Released, review
  <2> QED
    BY <1>1, <1>5, <2>1
    DEF Ledger, Digested, Closed, stretch, extraction, review, applied
<1> QED
  BY <1>4, <1>6 DEF LedgerOK

LEMMA ReleaseSound ==
  ASSUME Sound, NEW c \in Captures, NEW m \in Telling, Release(c, m)
  PROVE  LedgerOK' /\ HolderOK' /\ Grows /\ UNCHANGED <<cursor, producer>>
<1>1. /\ UNCHANGED <<source, stretch, extraction, decided, judged, working, applied>>
      /\ \A d \in Captures \ {c} : state'[d] = state[d] /\ note'[d] = note[d]
      /\ state'[c] = IF state[c] \in Closed THEN "extracted" ELSE state[c]
  BY DEF Release, Closed, Sound, Typed, TypeOK
<1>2. Ledger(c)'
  <2>1. Ledger(c) /\ state'[c] \notin Closed /\ state'[c] # "applied"
    BY <1>1 DEF Sound, LedgerOK, Closed
  <2> QED
    BY <1>1, <2>1 DEF Ledger, Digested, Closed, stretch, extraction, applied
<1>3. \A d \in Captures \ {c} : UNCHANGED Row(d)
  BY <1>1 DEF Row, Released, stretch, extraction, applied
<1>4. LedgerOK'
  BY <1>2, <1>3, RowSound
<1>5. HolderOK'
  <2> SUFFICES ASSUME NEW w \in Workers, lease = w PROVE Fits(run[w])'
    BY <1>1 DEF HolderOK, working
  <2>1. Fits(run[w])
    BY DEF Sound, HolderOK
  <2>2. run[w].pc \in AtWork => run[w].on \in Captures
    BY DEF Sound, Typed, RunsOnCapture
  <2>3. \A d \in Captures :
          /\ state[d] # "none" => state'[d] # "none"
          /\ state[d] \notin {"none", "captured"} => state'[d] \notin {"none", "captured"}
    BY <1>1
  <2> QED
    BY <1>1, <2>1, <2>2, <2>3
    DEF Fits, Review, Extraction, Consolidation, AtWork, stretch, extraction, working, applied
<1>6. Grows
  BY <1>1, RowTyped DEF Grows, stretch, Sound
<1> QED
  BY <1>1, <1>4, <1>5, <1>6 DEF source

LEMMA DisplaceSound ==
  ASSUME Sound, NEW c \in Captures, NEW m \in Telling, Displace(c, m)
  PROVE  LedgerOK' /\ HolderOK' /\ Grows /\ UNCHANGED <<cursor, producer>>
<1>1. /\ UNCHANGED <<source, capture, working, claimed, applications, credited>>
      /\ displaced' = [displaced EXCEPT ![c] = @ \cup {m}]
  BY DEF Displace
<1>2. /\ \A d \in Captures : displaced[d] \subseteq displaced'[d]
      /\ \A d \in Captures \ {c} : displaced'[d] = displaced[d]
  BY <1>1 DEF Sound, Typed, TypeOK
<1>3. Ledger(c)'
  <2>1. Ledger(c)
    BY DEF Sound, LedgerOK
  <2>2. claimed[c] \cap applications[c] \subseteq credited[c] \cup displaced'[c]
    BY <1>2, <2>1 DEF Ledger
  <2> QED
    BY <1>1, <2>1, <2>2 DEF Ledger, Released, capture, stretch, extraction, review
<1>4. \A d \in Captures \ {c} : UNCHANGED Row(d)
  BY <1>1, <1>2 DEF Row, Released, capture, stretch, extraction, review
<1>5. LedgerOK'
  BY <1>3, <1>4, RowSound
<1>6. HolderOK'
  <2> SUFFICES ASSUME NEW w \in Workers, lease = w PROVE Fits(run[w])'
    BY <1>1 DEF HolderOK, working
  <2>1. Fits(run[w])
    BY DEF Sound, HolderOK
  <2>2. run[w].pc \in AtWork => run[w].on \in Captures
    BY DEF Sound, Typed, RunsOnCapture
  <2> QED
    BY <1>1, <1>2, <2>1, <2>2
    DEF Fits, Review, Extraction, Consolidation, AtWork, capture, stretch, extraction, review,
        working
<1>7. Grows
  BY <1>1, RowTyped DEF Grows, capture, stretch, Sound
<1> QED
  BY <1>1, <1>5, <1>6, <1>7 DEF source

LEMMA WorkSound ==
  ASSUME Sound, Typed', NEW w \in Workers, Work(w) \/ WorkerDies(w)
  PROVE  LedgerOK' /\ HolderOK'
<1>1. ASSUME NEW semantic \in BOOLEAN, NEW limit \in BOOLEAN,
             \/ ExtractionFails(w, semantic, limit) \/ ConsolidationFails(w, semantic, limit)
             \/ ApplicationFails(w, semantic, limit)
      PROVE  LedgerOK' /\ HolderOK'
  <2>1. /\ \E stage \in Stage : Fail(w, stage, semantic, limit)
        /\ run[w].pc \in AtWork /\ lease = w /\ lease' = lease
    BY <1>1
    DEF ExtractionFails, ConsolidationFails, ApplicationFails, Working, Holds, Stage, AtWork
  <2> QED
    BY <2>1, FailSound
<1>2. ASSUME NothingToDecide(w) \/ Decide(w) PROVE LedgerOK' /\ HolderOK'
  <2>1. run[w].base \in SUBSET Messages /\ run[w].todo \in SUBSET Messages
    BY RunFields DEF Sound, Typed
  <2>2. PICK decisions \in SUBSET Messages :
          decisions \in {run[w].base, run[w].base \cup run[w].todo}
          /\ SetDecisions(w, decisions)
    BY <1>2, <2>1 DEF NothingToDecide, Decide
  <2>3. run[w].pc \in Consolidation /\ lease = w /\ lease' = lease
    BY <1>2 DEF NothingToDecide, Decide, Working, Holds, Consolidation
  <2> QED
    BY <2>2, <2>3, DecisionsSound
<1>3. ASSUME Extract(w) PROVE LedgerOK' /\ HolderOK'
  BY <1>1, <1>3, PickSound, CallSound, SaveSound DEF Extract
<1>4. ASSUME Consolidate(w) PROVE LedgerOK' /\ HolderOK'
  BY <1>1, <1>2, <1>4, TriageSound, CallSound, DeferSound DEF Consolidate
<1>5. ASSUME Apply(w) PROVE LedgerOK' /\ HolderOK'
  BY <1>1, <1>5, PickSound, IngestSound, RecordSound, MarkSound DEF Apply
<1> QED
  BY <1>3, <1>4, <1>5, LeaseSound, PruneSound DEF Work, CloseRun

LEMMA SoundStep == Sound /\ [Next]_vars => Sound'
<1> SUFFICES ASSUME Sound, [Next]_vars PROVE Sound'
  OBVIOUS
<1>1. Typed'
  BY TypeStep DEF Sound
<1>2. CASE UNCHANGED <<cursor, producer, capture, working, applied>>
  <2>1. Grows
    BY <1>2, RowTyped DEF Grows, capture, stretch, Sound
  <2> QED
    BY <1>1, <1>2, <2>1, NothingStored, ProducersStay DEF Sound
<1>3. ASSUME NEW p \in Producers, Produce(p) \/ ProducerDies(p) PROVE Sound'
  BY <1>1, <1>3, ProduceSound DEF Sound
<1>4. ASSUME NEW w \in Workers, Work(w) \/ WorkerDies(w) PROVE Sound'
  BY <1>1, <1>4, WorkSound, WorkKeeps, ProducersStay DEF Sound
<1>5. ASSUME NEW c \in Captures, NEW m \in Telling, Release(c, m) \/ Displace(c, m)
      PROVE  Sound'
  BY <1>1, <1>5, ReleaseSound, DisplaceSound, ProducersStay DEF Sound
<1> QED
  BY <1>2, <1>3, <1>4, <1>5 DEF Next, Say, vars, source

LEMMA SoundAlways == Spec => []Sound
<1> QED
  BY InitSound, SoundStep, PTL DEF Spec
-----------------------------------------------------------------------------
(* The properties *)

\* The cursor of the producers never passes a message that no capture holds.
THEOREM NoMessageIsSkipped == Spec => []NoMessageSkipped
<1>1. Sound => NoMessageSkipped
  BY DEF Sound, ProducersOK, Covered, NoMessageSkipped
<1> QED
  BY <1>1, SoundAlways, PTL

\* The extractor was given every message of a capture that is digested.
THEOREM DigestedMessagesWereSent == Spec => []DigestedWasSent
<1>1. Sound => DigestedWasSent
  <2> SUFFICES ASSUME Sound, NEW c \in Captures, state[c] \in Digested,
                      NEW m \in Stretch(c)
               PROVE  m \in sent[c]
    BY DEF DigestedWasSent
  <2> QED
    BY DEF Sound, LedgerOK, Ledger, Stretch
<1> QED
  BY <1>1, SoundAlways, PTL

\* A capture is closed only when its released candidates are decided.
THEOREM ReleasedAreDecided == Spec => []ReleasedIsDecided
<1>1. Sound => ReleasedIsDecided
  BY DEF Sound, LedgerOK, Ledger, Closed, ReleasedIsDecided
<1> QED
  BY <1>1, SoundAlways, PTL

\* An applied capture has every decision on record as applied, and every
\* application that names a claim has it.
THEOREM AppliedAreRecorded == Spec => []AppliedIsRecorded
<1>1. Sound => AppliedIsRecorded
  BY DEF Sound, LedgerOK, Ledger, AppliedIsRecorded
<1> QED
  BY <1>1, SoundAlways, PTL

\* A claim that a run made of a candidate is named by the application of the
\* candidate, though the run died or lost its lease before it recorded it,
\* unless the rest of the system displaced the claim.
THEOREM MadeClaimsAreCredited == Spec => []ClaimIsCredited
<1>1. Sound => ClaimIsCredited
  BY DEF Sound, LedgerOK, Ledger, ClaimIsCredited
<1> QED
  BY <1>1, SoundAlways, PTL

\* Only the holder of the lease stores decisions, and what it stores contains
\* every decision that is there.
LEMMA DecisionsOnlyGrow ==
  ASSUME Sound, [Next]_vars, NEW c \in Captures
  PROVE  decided[c] \subseteq decided'[c]
<1>1. ASSUME NEW w \in Workers, NEW decisions,
             run[w].pc \in Consolidation, lease = w, run[w].base \subseteq decisions,
             \/ decided' = [decided EXCEPT ![run[w].on] = decisions]
      PROVE  decided[c] \subseteq decided'[c]
  <2>1. decided[run[w].on] \subseteq run[w].base
    BY <1>1, OnReview DEF Fits, Review, Consolidation
  <2>2. decided \in [Captures -> SUBSET Messages]
    BY DEF Sound, Typed, TypeOK
  <2> QED
    BY <1>1, <2>1, <2>2
<1>2. CASE UNCHANGED decided
  BY <1>2
<1>3. CASE \E w \in Workers : NothingToDecide(w) \/ Decide(w)
  <2>1. PICK w \in Workers : NothingToDecide(w) \/ Decide(w)
    BY <1>3
  <2>2. /\ run[w].pc \in Consolidation /\ lease = w
        /\ \/ decided' = [decided EXCEPT ![run[w].on] = run[w].base]
           \/ decided' = [decided EXCEPT ![run[w].on] = run[w].base \cup run[w].todo]
    BY <2>1 DEF NothingToDecide, Decide, SetDecisions, Working, Holds, Consolidation
  <2> QED
    BY <1>1, <2>2
<1>4. ASSUME NEW w \in Workers, NEW made \in SUBSET Telling, Defer(w, made)
      PROVE  decided[c] \subseteq decided'[c]
  <2>1. CASE made = {}
    BY <1>4, <2>1 DEF Defer, Sound, Typed, TypeOK
  <2>2. CASE made # {}
    <3>1. /\ decided' = [decided EXCEPT ![run[w].on] = run[w].base \cup made]
          /\ run[w].pc \in Consolidation /\ lease = w
      BY <1>4, <2>2 DEF Defer, Working, Holds, Consolidation
    <3> QED
      BY <1>1, <3>1
  <2> QED
    BY <2>1, <2>2
<1>5. ASSUME NEW p \in Producers, Produce(p) \/ ProducerDies(p) PROVE UNCHANGED decided
  BY <1>5
  DEF Produce, ProducerDies, ReadIncrement, Look, Store, StoreEnvelope, Insert, Extend, Create,
      Commit, capture, review
<1>6. ASSUME NEW w \in Workers, Work(w) \/ WorkerDies(w)
      PROVE  \/ UNCHANGED decided
             \/ NothingToDecide(w) \/ Decide(w)
             \/ \E made \in SUBSET Telling : Defer(w, made)
  BY <1>6
  DEF Work, WorkerDies, Acquire, Extract, Consolidate, Apply, CloseRun, Working, Pick,
      ExtractNone, CallExtractor, SaveWindow, ExtractionFails, Fail, Triage,
      CallConsolidator, ProviderFails, ConsolidationFails, PickPending, Ingest,
      RecordApplication, MarkApplied, ApplicationFails, Retire, Delete, Finish, LeaseLost,
      capture, review
<1> QED
  BY <1>2, <1>3, <1>4, <1>5, <1>6 DEF Next, Say, Release, Displace, vars, capture, review

\* A decision once stored is never lost, whoever holds the lease.
THEOREM DecisionsAlwaysStand == Spec => DecisionsStand
<1>1. Sound /\ [Next]_vars => [\A c \in Captures : decided[c] \subseteq decided'[c]]_vars
  BY DecisionsOnlyGrow
<1> QED
  BY <1>1, SoundAlways, PTL DEF Spec, DecisionsStand
=============================================================================

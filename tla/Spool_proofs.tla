---------------------------- MODULE Spool_proofs ------------------------------
(***************************************************************************)
(* The spool loses nothing, and makes one claim of an envelope, for every  *)
(* number of writers, drains and crashes.                                  *)
(***************************************************************************)
EXTENDS Spool, TLAPS

\* Where no open file can be renamed and every file that exists can be read.
Exclusive == ~ RenameOpen /\ ~ ReadFaults

\* An append has the file it opened to itself and its fellow writers until
\* it has written.
AppendsInPlace ==
  \A m \in Memories :
    /\ append[m] = "unwritten" => path[m] = "none"
    /\ append[m] = "open" => handle[m] \in Files /\ path[handle[m]] = "pending"
    /\ append[m] = "written" =>
         /\ handle[m] \in Files /\ path[handle[m]] # "none"
         /\ m \in lines[handle[m]]

\* The files of a drain are its own or another drain's, no writer's.
ClaimedFiles ==
  \A d \in Drainers :
    /\ \A f \in drain[d].todo : path[f] \in {"draining", "removed"}
    /\ drain[d].pc \in {"replay", "insert"} =>
         drain[d].file \in Files /\ path[drain[d].file] \in {"draining", "removed"}

\* A drain at work on a file has yet to replay what was not handled.
LeftToReplay ==
  \A d \in Drainers :
    drain[d].pc \in {"replay", "insert"} =>
      \A m \in lines[drain[d].file] : Handled(m) \/ m \in drain[d].text

\* What a removed file held was handled.
RemovedIsHandled ==
  \A f \in Files : path[f] = "removed" => \A m \in lines[f] : Handled(m)

IInv == TypeOK /\ AppendsInPlace /\ ClaimedFiles /\ LeftToReplay /\ RemovedIsHandled
-----------------------------------------------------------------------------
USE DEF Files, NoFile, NoLine, OnDisk, At, Claiming, Idle, DrainState, Enter

LEMMA CrashesBounded ==
  /\ 0 \in 0 .. MaxCrashes
  /\ \A n \in 0 .. MaxCrashes : n < MaxCrashes => n + 1 \in 0 .. MaxCrashes
<1>1. MaxCrashes \in Nat
  BY SpoolAssumption
<1> QED
  BY <1>1

LEMMA InitInv == Init => IInv
<1> SUFFICES ASSUME Init PROVE IInv
  OBVIOUS
<1>1. TypeOK
  <2>1. drain \in [Drainers -> DrainState]
    BY DEF Init
  <2>2. claim \in [Memories -> Claim]
    BY DEF Init, Claim, ClaimStatus
  <2>3. crashes \in 0 .. MaxCrashes
    BY CrashesBounded DEF Init
  <2> QED
    BY <2>1, <2>2, <2>3 DEF Init, TypeOK
<1>2. AppendsInPlace /\ ClaimedFiles
  BY DEF Init, AppendsInPlace, ClaimedFiles
<1>3. LeftToReplay /\ RemovedIsHandled
  BY DEF Init, LeftToReplay, RemovedIsHandled
<1> QED
  BY <1>1, <1>2, <1>3 DEF IInv

\* The table of claims keeps its type when one claim gets a new row.
LEMMA ClaimTyped ==
  ASSUME TypeOK, NEW m \in Memories, NEW status \in ClaimStatus, NEW rows \in Nat
  PROVE  Becomes(m, status, rows) \in [Memories -> Claim]
  BY DEF TypeOK, Becomes, Claim

LEMMA TypeStep == TypeOK /\ [Next]_vars => TypeOK'
<1> SUFFICES ASSUME TypeOK, [Next]_vars PROVE TypeOK'
  OBVIOUS
<1> USE SpoolAssumption DEF TypeOK, spoolFiles, outcomes
<1>1. ASSUME NEW m \in Memories, Open(m) \/ Write(m) \/ Abort(m) PROVE TypeOK'
  <2>1. CASE Open(m)
    BY <2>1 DEF Open, Pending
  <2>2. CASE Write(m)
    <3>1. handle[m] \in Files => lines'[handle[m]] \subseteq Memories
      BY <2>2 DEF Write
    <3> QED
      BY <2>2, <3>1 DEF Write
  <2>3. CASE Abort(m)
    BY <2>3 DEF Abort
  <2> QED
    BY <1>1, <2>1, <2>2, <2>3
<1>2. ASSUME NEW d \in Drainers, Drain(d) \/ Crash(d) PROVE TypeOK'
  <2>1. CASE ListLeftovers(d)
    BY <2>1 DEF ListLeftovers
  <2>2. CASE ListPending(d)
    BY <2>2 DEF ListPending
  <2>3. CASE ClaimedAll(d)
    BY <2>3 DEF ClaimedAll
  <2>4. ASSUME NEW f \in Files, Rename(d, f) PROVE TypeOK'
    <3>1. drain[d].names \subseteq Files /\ drain[d].todo \subseteq Files
      OBVIOUS
    <3>2. \A names, todo \in SUBSET Files : Claiming("rename", names, todo) \in DrainState
      OBVIOUS
    <3>3. \E names, todo \in SUBSET Files :
            drain' = [drain EXCEPT ![d] = Claiming("rename", names, todo)]
      <4> HIDE DEF TypeOK, DrainState, Claiming
      <4> QED
        BY <2>4, <3>1 DEF Rename
    <3>4. drain' \in [Drainers -> DrainState]
      <4>1. \E state \in DrainState : drain' = [drain EXCEPT ![d] = state]
        <5> HIDE DEF TypeOK, DrainState, Claiming
        <5> QED
          BY <3>2, <3>3
      <4>2. drain \in [Drainers -> DrainState]
        OBVIOUS
      <4> HIDE DEF TypeOK, DrainState
      <4> QED
        BY <4>1, <4>2
    <3>5. path' \in [Files -> {"none", "pending", "draining", "removed"}]
      BY <2>4 DEF Rename
    <3> QED
      BY <2>4, <3>4, <3>5 DEF Rename
  <2>5. ASSUME NEW f \in Files, NEW readable \in BOOLEAN, Read(d, f, readable) PROVE TypeOK'
    BY <2>5 DEF Read, ReadLines
  <2>6. ASSUME NEW m \in Memories, ReplayFound(d, m) PROVE TypeOK'
    <3>1. claim[m].rows \in Nat /\ claim' \in [Memories -> Claim]
      BY <2>6, ClaimTyped DEF ReplayFound, Claim, ClaimStatus
    <3> QED
      BY <2>6, <3>1 DEF ReplayFound, Done, Taking
  <2>7. ASSUME NEW m \in Memories, ReplayAbsent(d, m) PROVE TypeOK'
    BY <2>7 DEF ReplayAbsent, Taking
  <2>8. ASSUME NEW m \in Memories, Insert(d, m) PROVE TypeOK'
    <3>1. claim[m].rows \in Nat
      BY DEF Claim
    <3> HIDE DEF TypeOK
    <3>3. claim[m].rows + 1 \in Nat
      BY <3>1
    <3>2. claim' \in [Memories -> Claim]
      BY <2>8, <3>3, ClaimTyped DEF Insert, ClaimStatus, TypeOK
    <3> QED
      BY <2>8, <3>2 DEF Insert, Done, Inserting, TypeOK
  <2>9. ASSUME NEW m \in Memories, QuarantineLine(d, m) PROVE TypeOK'
    BY <2>9 DEF QuarantineLine, Done
  <2>10. CASE Unlink(d)
    BY <2>10 DEF Unlink
  <2>11. CASE DrainEnds(d)
    BY <2>11 DEF DrainEnds
  <2>12. CASE Crash(d)
    <3>1. crashes' \in 0 .. MaxCrashes
      BY <2>12, CrashesBounded DEF Crash
    <3> QED
      BY <2>12, <3>1 DEF Crash
  <2> QED
    BY <1>2, <2>1, <2>2, <2>3, <2>4, <2>5, <2>6, <2>7, <2>8, <2>9, <2>10, <2>11, <2>12
       DEF Drain
<1>3. ASSUME NEW m \in Memories, NEW status \in {"archived", "forgotten"}, Retire(m, status)
      PROVE TypeOK'
  <2>1. claim[m].rows \in Nat /\ status \in ClaimStatus
    BY DEF Claim, ClaimStatus
  <2> QED
    BY <1>3, <2>1, ClaimTyped DEF Retire
<1>4. CASE UNCHANGED vars
  BY <1>4 DEF vars
<1> QED
  BY <1>1, <1>2, <1>3, <1>4 DEF Next
-----------------------------------------------------------------------------
(* What a step does to the parts of the invariant *)

LEMMA AppendStep ==
  ASSUME IInv, Exclusive, NEW m \in Memories, Open(m) \/ Write(m) \/ Abort(m)
  PROVE  AppendsInPlace' /\ ClaimedFiles' /\ LeftToReplay' /\ RemovedIsHandled'
<1> USE DEF IInv, TypeOK
<1>1. CASE Open(m)
  <2>1. PICK f \in Files :
          /\ path[f] = "pending" \/ (f = m /\ path[f] = "none")
          /\ handle' = [handle EXCEPT ![m] = f]
          /\ path' = [path EXCEPT ![f] = "pending"]
    BY <1>1 DEF Open, Pending, AppendsInPlace
  <2>2. /\ append[m] = "unwritten" /\ append' = [append EXCEPT ![m] = "open"]
        /\ UNCHANGED <<lines, drain, claim, quarantine>>
    BY <1>1 DEF Open, outcomes
  <2>3. AppendsInPlace'
    <3>1. \A n \in Memories \ {m} :
            append'[n] = append[n] /\ handle'[n] = handle[n]
      BY <2>1, <2>2
    <3>2. append'[m] = "open" /\ handle'[m] = f
      BY <2>1, <2>2
    <3>3. \A g \in Files : path'[g] = IF g = f THEN "pending" ELSE path[g]
      BY <2>1
    <3>4. \A n \in Memories \ {m} : append[n] = "unwritten" => n # f
      BY <2>1, <2>2 DEF AppendsInPlace
    <3>5. UNCHANGED lines
      BY <2>2
    <3> HIDE DEF IInv, TypeOK
    <3>6. ASSUME NEW n \in Memories \ {m}
          PROVE /\ append'[n] = "unwritten" => path'[n] = "none"
                /\ append'[n] = "open" => handle'[n] \in Files /\ path'[handle'[n]] = "pending"
                /\ append'[n] = "written" =>
                     /\ handle'[n] \in Files /\ path'[handle'[n]] # "none"
                     /\ n \in lines'[handle'[n]]
      <4>1. AppendsInPlace
        BY DEF IInv
      <4> QED
        BY <3>1, <3>3, <3>4, <3>5, <4>1 DEF AppendsInPlace
    <3> QED
      BY <3>2, <3>3, <3>6 DEF AppendsInPlace
  <2>4. ClaimedFiles'
    BY <2>1, <2>2 DEF ClaimedFiles
  <2>5. LeftToReplay' /\ RemovedIsHandled'
    BY <2>1, <2>2 DEF LeftToReplay, RemovedIsHandled, Handled
  <2> QED
    BY <2>3, <2>4, <2>5
<1>2. CASE Write(m)
  <2>1. /\ append[m] = "open" /\ append' = [append EXCEPT ![m] = "written"]
        /\ lines' = [lines EXCEPT ![handle[m]] = lines[handle[m]] \cup {m}]
        /\ UNCHANGED <<handle, path, drain, claim, quarantine>>
    BY <1>2 DEF Write, outcomes
  <2>2. handle[m] \in Files /\ path[handle[m]] = "pending"
    BY <2>1 DEF AppendsInPlace
  <2>3. AppendsInPlace'
    <3>1. \A n \in Memories : append'[n] = IF n = m THEN "written" ELSE append[n]
      BY <2>1
    <3>2. \A g \in Files : lines'[g] = IF g = handle[m] THEN lines[g] \cup {m} ELSE lines[g]
      BY <2>1, <2>2
    <3>3. AppendsInPlace /\ UNCHANGED <<handle, path>>
      BY <2>1
    <3> HIDE DEF IInv, TypeOK
    <3> QED
      BY <2>1, <2>2, <3>1, <3>2, <3>3 DEF AppendsInPlace
  <2>4. ClaimedFiles'
    BY <2>1 DEF ClaimedFiles
  <2>5. LeftToReplay' /\ RemovedIsHandled'
    BY <2>1, <2>2 DEF LeftToReplay, RemovedIsHandled, Handled, ClaimedFiles
  <2> QED
    BY <2>3, <2>4, <2>5
<1>3. CASE Abort(m)
  <2>1. \A n \in Memories : append'[n] = IF n = m THEN "aborted" ELSE append[n]
    BY <1>3 DEF Abort
  <2>2. UNCHANGED <<handle, path, lines, drain, claim, quarantine>>
    BY <1>3 DEF Abort, outcomes
  <2> HIDE DEF TypeOK
  <2>3. AppendsInPlace'
    BY <2>1, <2>2 DEF AppendsInPlace
  <2>4. ClaimedFiles' /\ LeftToReplay' /\ RemovedIsHandled'
    BY <2>2 DEF ClaimedFiles, LeftToReplay, RemovedIsHandled, Handled
  <2> QED
    BY <2>3, <2>4
<1> QED
  BY <1>1, <1>2, <1>3

\* Steps that handle envelopes and leave the files alone.
LEMMA OutcomeStep ==
  ASSUME IInv, UNCHANGED <<append, handle, path, lines>>,
         \A m \in Memories : Handled(m) => Handled(m)'
  PROVE  AppendsInPlace' /\ RemovedIsHandled'
  BY DEF IInv, AppendsInPlace, RemovedIsHandled, TypeOK

\* The drain d goes on with another state.
LEMMA DrainMoves ==
  ASSUME IInv, NEW d \in Drainers, NEW state \in DrainState,
         drain' = [drain EXCEPT ![d] = state],
         UNCHANGED lines,
         \A f \in Files : path[f] \in {"draining", "removed"} =>
                            path'[f] \in {"draining", "removed"},
         \A m \in Memories : Handled(m) => Handled(m)',
         \A f \in state.todo : path'[f] \in {"draining", "removed"},
         state.pc \in {"replay", "insert"} =>
           /\ state.file \in Files /\ path'[state.file] \in {"draining", "removed"}
           /\ \A m \in lines[state.file] : Handled(m)' \/ m \in state.text
  PROVE  ClaimedFiles' /\ LeftToReplay'
<1>1. \A e \in Drainers : drain'[e] = IF e = d THEN state ELSE drain[e]
  BY DEF IInv, TypeOK
<1>2. \A e \in Drainers : drain[e].todo \subseteq Files
  BY DEF IInv, TypeOK
<1> HIDE DEF DrainState
<1>3. ClaimedFiles'
  BY <1>1, <1>2 DEF ClaimedFiles, IInv
<1>4. LeftToReplay'
  <2>1. ASSUME NEW e \in Drainers, drain[e].pc \in {"replay", "insert"}
        PROVE  drain[e].file \in Files /\ lines[drain[e].file] \subseteq Memories
    BY <2>1 DEF IInv, TypeOK, ClaimedFiles
  <2> QED
    BY <1>1, <2>1 DEF LeftToReplay, IInv
<1> QED
  BY <1>3, <1>4

\* The state a drain enters is the one it is in afterwards.
LEMMA Entered ==
  ASSUME TypeOK, NEW d \in Drainers, NEW state, Enter(d, state)
  PROVE  drain'[d] = state
  BY DEF TypeOK

LEMMA DrainStep ==
  ASSUME IInv, TypeOK', Exclusive, NEW d \in Drainers, Drain(d) \/ Crash(d)
  PROVE  AppendsInPlace' /\ ClaimedFiles' /\ LeftToReplay' /\ RemovedIsHandled'
<1>1. UNCHANGED <<append, handle, lines>>
  BY DEF Drain, Crash, ListLeftovers, ListPending, ClaimedAll, Rename, Read, ReplayFound,
     ReplayAbsent, Insert, QuarantineLine, Unlink, DrainEnds, spoolFiles
<1>2. PICK state \in DrainState : drain' = [drain EXCEPT ![d] = state] /\ drain'[d] = state
  <2>1. drain \in [Drainers -> DrainState] /\ drain'[d] \in DrainState
    BY DEF IInv, TypeOK
  <2>2. \E s : drain' = [drain EXCEPT ![d] = s]
    BY DEF Drain, Crash, ListLeftovers, ListPending, ClaimedAll, Rename, Read, ReplayFound,
       ReplayAbsent, Insert, QuarantineLine, Unlink, DrainEnds, Done
  <2> HIDE DEF DrainState
  <2> QED
    BY <2>1, <2>2
<1>3. TypeOK /\ ClaimedFiles /\ LeftToReplay /\ RemovedIsHandled /\ AppendsInPlace
  BY DEF IInv
<1>4. \A m \in Memories : Handled(m) => Handled(m)'
  <2>1. UNCHANGED <<claim, quarantine>> \/ \E m \in Memories :
          ReplayFound(d, m) \/ Insert(d, m) \/ QuarantineLine(d, m)
    BY DEF Drain, Crash, ListLeftovers, ListPending, ClaimedAll, Rename, Read, ReplayAbsent,
       Unlink, DrainEnds, outcomes
  <2>2. ASSUME NEW m \in Memories, ReplayFound(d, m) \/ Insert(d, m) \/ QuarantineLine(d, m)
        PROVE  \A n \in Memories : Handled(n) => Handled(n)'
    <3>1. quarantine \subseteq quarantine'
      BY <2>2 DEF ReplayFound, Insert, QuarantineLine
    <3>2. claim \in [Memories -> Claim]
      BY <1>3 DEF TypeOK
    <3>3. \A n \in Memories : claim[n].status # "none" => claim'[n].status # "none"
      <4>1. UNCHANGED claim \/ \E rows : claim' = Becomes(m, "live", rows)
        BY <2>2 DEF ReplayFound, Insert, QuarantineLine
      <4>2. ASSUME NEW rows, claim' = Becomes(m, "live", rows)
            PROVE  \A n \in Memories : claim[n].status # "none" => claim'[n].status # "none"
        BY <3>2, <4>2 DEF Becomes
      <4> QED
        BY <4>1, <4>2
    <3> QED
      BY <3>1, <3>3 DEF Handled
  <2> QED
    BY <2>1, <2>2 DEF Handled
<1>5. \A f \in Files : path'[f] = path[f] \/ (path[f] = "pending" /\ path'[f] = "draining")
                         \/ (path'[f] = "removed" /\ Unlink(d) /\ f = drain[d].file)
  <2>1. UNCHANGED path \/ Unlink(d) \/ \E f \in Files : Rename(d, f)
    BY DEF Drain, Crash, ListLeftovers, ListPending, ClaimedAll, Read, ReplayFound,
       ReplayAbsent, Insert, QuarantineLine, DrainEnds, spoolFiles
  <2>2. path \in [Files -> {"none", "pending", "draining", "removed"}]
    BY <1>3 DEF TypeOK
  <2> QED
    BY <2>1, <2>2 DEF Unlink, Rename, CanRename
<1>6. \A f \in Files : path[f] \in {"draining", "removed"} =>
                         path'[f] \in {"draining", "removed"}
  BY <1>5
<1> HIDE DEF Enter, At, Claiming, Idle
<1>7. /\ \A f \in state.todo : path'[f] \in {"draining", "removed"}
      /\ state.pc \in {"replay", "insert"} =>
           /\ state.file \in Files /\ path'[state.file] \in {"draining", "removed"}
           /\ \A m \in lines[state.file] : Handled(m)' \/ m \in state.text
  <2> DEFINE Kept == /\ state.todo \subseteq drain[d].todo
                     /\ state.pc \notin {"replay", "insert"}
  <2>1. CASE ListLeftovers(d)
    <3>1. state = Claiming("list", {}, {f \in Files : path[f] = "draining"})
      BY <1>2, <1>3, <2>1, Entered DEF ListLeftovers
    <3>2. state.todo = {f \in Files : path[f] = "draining"} /\ state.pc = "list"
      BY <3>1 DEF Claiming, At
    <3> QED
      BY <1>6, <3>2
  <2>2. CASE ListPending(d) \/ ClaimedAll(d) \/ DrainEnds(d) \/ Crash(d) \/ Unlink(d)
    <3>1. Kept
      <4>1. state = Idle \/ \E pc \in {"rename", "drain"}, names \in SUBSET Files :
                               state = Claiming(pc, names, drain[d].todo)
        BY <1>2, <1>3, <2>2, Entered DEF ListPending, ClaimedAll, DrainEnds, Crash, Unlink
      <4> QED
        <5>1. Idle.todo = {} /\ Idle.pc = "idle"
          BY DEF Idle, At
        <5> QED
          <6>1. CASE state = Idle
            BY <5>1, <6>1
          <6>2. ASSUME NEW pc \in {"rename", "drain"}, NEW names \in SUBSET Files,
                       state = Claiming(pc, names, drain[d].todo)
                PROVE  Kept
            <7>1. state.todo = drain[d].todo /\ state.pc = pc
              BY <6>2 DEF Claiming, At
            <7> QED
              BY <7>1
          <6> QED
            BY <4>1, <6>1, <6>2
    <3> QED
      BY <1>3, <1>6, <3>1 DEF ClaimedFiles, TypeOK
  <2>3. ASSUME NEW f \in Files, Rename(d, f) PROVE <1>7!1 /\ <1>7!2
    <3>1. /\ state.todo \subseteq drain[d].todo \cup {f}
          /\ state.pc = "rename"
          /\ f \in state.todo => f \in drain[d].todo \/ path'[f] = "draining"
      <4>1. \/ /\ CanRename(f) /\ path'[f] = "draining"
               /\ state = Claiming("rename", drain[d].names \ {f}, drain[d].todo \cup {f})
            \/ state = Claiming("rename", drain[d].names \ {f}, drain[d].todo)
        <5>1. path'[f] = "draining" \/ ~ CanRename(f)
          <6>1. path \in [Files -> {"none", "pending", "draining", "removed"}]
            BY <1>3 DEF TypeOK
          <6> QED
            BY <2>3, <6>1 DEF Rename
        <5> QED
          BY <1>2, <1>3, <2>3, <5>1, Entered DEF Rename
      <4>2. ASSUME NEW todo, state = Claiming("rename", drain[d].names \ {f}, todo)
            PROVE  state.todo = todo /\ state.pc = "rename"
        BY <4>2 DEF Claiming, At
      <4> QED
        BY <4>1, <4>2
    <3>2. drain[d].todo \subseteq Files
      BY <1>3 DEF TypeOK
    <3> QED
      BY <1>3, <1>6, <3>1, <3>2 DEF ClaimedFiles
  <2>4. ASSUME NEW f \in Files, NEW readable \in BOOLEAN, Read(d, f, readable)
        PROVE  <1>7!1 /\ <1>7!2
    <3>1. f \in drain[d].todo /\ readable
      BY <2>4 DEF Read, Exclusive
    <3>2. state = At("replay", {}, drain[d].todo \ {f}, f, ReadLines(f, readable), NoLine)
      BY <1>2, <1>3, <2>4, Entered DEF Read
    <3>3. /\ state.todo \subseteq drain[d].todo /\ state.file = f
          /\ state.text = ReadLines(f, readable)
      BY <3>2 DEF At
    <3>4. path[f] \in {"draining", "removed"} /\ drain[d].todo \subseteq Files
      BY <1>3, <3>1 DEF ClaimedFiles, TypeOK
    <3>5. \A m \in lines[f] : Handled(m) \/ m \in ReadLines(f, readable)
      BY <1>3, <3>1, <3>4 DEF ReadLines, RemovedIsHandled
    <3>6. lines[f] \subseteq Memories
      BY <1>3 DEF TypeOK
    <3> QED
      <4>1. \A g \in state.todo : path'[g] \in {"draining", "removed"}
        BY <1>3, <1>6, <3>3, <3>4 DEF ClaimedFiles
      <4>2. state.file \in Files /\ path'[state.file] \in {"draining", "removed"}
        BY <1>6, <3>1, <3>3, <3>4
      <4>3. \A m \in lines[state.file] : Handled(m)' \/ m \in state.text
        BY <1>4, <3>3, <3>5, <3>6
      <4> QED
        BY <4>1, <4>2, <4>3
  <2>5. ASSUME NEW m \in Memories,
               ReplayFound(d, m) \/ ReplayAbsent(d, m) \/ Insert(d, m) \/ QuarantineLine(d, m)
        PROVE  <1>7!1 /\ <1>7!2
    <3>1. drain[d].pc \in {"replay", "insert"}
      BY <2>5 DEF ReplayFound, ReplayAbsent, Insert, QuarantineLine, Taking, Inserting
    <3>2. CASE ReplayAbsent(d, m)
      <4>1. /\ state.todo = drain[d].todo /\ state.file = drain[d].file
            /\ state.text = drain[d].text
        <5>1. state = At("insert", {}, drain[d].todo, drain[d].file, drain[d].text, m)
          BY <1>2, <1>3, <3>2, Entered DEF ReplayAbsent
        <5> QED
          BY <5>1 DEF At
      <4>2. \A f \in state.todo : f \in Files /\ path[f] \in {"draining", "removed"}
        BY <1>3, <4>1 DEF ClaimedFiles, TypeOK
      <4>3. /\ state.file \in Files /\ path[state.file] \in {"draining", "removed"}
            /\ lines[state.file] \subseteq Memories
        BY <1>3, <3>1, <4>1 DEF ClaimedFiles, TypeOK
      <4>4. \A n \in lines[state.file] : Handled(n) \/ n \in state.text
        BY <1>3, <3>1, <4>1 DEF LeftToReplay
      <4> QED
        BY <1>4, <1>6, <4>2, <4>3, <4>4
    <3>3. CASE ReplayFound(d, m) \/ Insert(d, m) \/ QuarantineLine(d, m)
      <4>1. /\ state.todo = drain[d].todo /\ state.file = drain[d].file
            /\ state.text = drain[d].text \ {m}
        <5>1. state = At("replay", {}, drain[d].todo, drain[d].file, drain[d].text \ {m}, NoLine)
          BY <1>2, <1>3, <3>3, Entered DEF ReplayFound, Insert, QuarantineLine, Done
        <5> QED
          BY <5>1 DEF At
      <4>2. \A f \in state.todo : f \in Files /\ path[f] \in {"draining", "removed"}
        BY <1>3, <4>1 DEF ClaimedFiles, TypeOK
      <4>3. /\ state.file \in Files /\ path[state.file] \in {"draining", "removed"}
            /\ lines[state.file] \subseteq Memories
        BY <1>3, <3>1, <4>1 DEF ClaimedFiles, TypeOK
      <4>4. \A n \in lines[state.file] : Handled(n) \/ n = m \/ n \in state.text
        BY <1>3, <3>1, <4>1 DEF LeftToReplay
      <4>5. Handled(m)'
        <5>1. claim \in [Memories -> Claim]
          BY <1>3 DEF TypeOK
        <5> QED
          <6>1. CASE ReplayFound(d, m)
            BY <5>1, <6>1 DEF ReplayFound, Handled, Becomes
          <6>2. CASE Insert(d, m)
            BY <5>1, <6>2 DEF Insert, Handled, Becomes
          <6>3. CASE QuarantineLine(d, m)
            BY <6>3 DEF QuarantineLine, Handled
          <6> QED
            BY <3>3, <6>1, <6>2, <6>3
      <4> QED
        BY <1>4, <1>6, <4>2, <4>3, <4>4, <4>5
    <3> QED
      BY <2>5, <3>2, <3>3
  <2> QED
    BY <2>1, <2>2, <2>3, <2>4, <2>5 DEF Drain
<1>8. ClaimedFiles' /\ LeftToReplay'
  <2> QED
    BY <1>1, <1>2, <1>4, <1>6, <1>7, DrainMoves
<1>9. AppendsInPlace'
  <2>1. ASSUME NEW f \in Files, \E m \in Memories : append[m] = "open" /\ handle[m] = f
        PROVE  path'[f] = path[f]
    <3>1. path[f] = "pending" /\ IsOpen(f)
      BY <1>3, <2>1 DEF AppendsInPlace, IsOpen
    <3>2. ~ CanRename(f)
      BY <3>1 DEF CanRename, Exclusive
    <3>3. Unlink(d) => f # drain[d].file
      BY <1>3, <3>1 DEF Unlink, ClaimedFiles
    <3>4. \A g \in Files : Rename(d, g) => path'[f] = path[f]
      <4>1. ASSUME NEW g \in Files, Rename(d, g) PROVE path'[f] = path[f]
        <5>1. path \in [Files -> {"none", "pending", "draining", "removed"}]
          BY <1>3 DEF TypeOK
        <5>2. CASE g = f
          BY <3>2, <4>1, <5>2 DEF Rename
        <5>3. CASE g # f
          BY <4>1, <5>1, <5>3 DEF Rename
        <5> QED
          BY <5>2, <5>3
      <4> QED
        BY <4>1
    <3>5. UNCHANGED path \/ Unlink(d) \/ \E g \in Files : Rename(d, g)
      BY DEF Drain, Crash, ListLeftovers, ListPending, ClaimedAll, Read, ReplayFound,
         ReplayAbsent, Insert, QuarantineLine, DrainEnds, spoolFiles
    <3> QED
      <4>1. path \in [Files -> {"none", "pending", "draining", "removed"}]
        BY <1>3 DEF TypeOK
      <4>2. CASE Unlink(d)
        BY <3>3, <4>1, <4>2 DEF Unlink
      <4> QED
        BY <3>4, <3>5, <4>2
  <2>2. \A m \in Memories : append[m] = "unwritten" => path'[m] = "none"
    <3>1. \A f \in Files : path[f] = "none" => path'[f] = path[f]
      <4>1. Unlink(d) => path[drain[d].file] # "none"
        BY <1>3 DEF Unlink, ClaimedFiles
      <4> QED
        BY <1>5, <4>1
    <3> QED
      BY <1>3, <3>1 DEF AppendsInPlace
  <2> QED
    <3>1. ASSUME NEW m \in Memories, append[m] = "open"
          PROVE  handle[m] \in Files /\ path'[handle[m]] = "pending"
      BY <1>3, <2>1, <3>1 DEF AppendsInPlace
    <3>2. ASSUME NEW m \in Memories, append[m] = "written"
          PROVE  /\ handle[m] \in Files /\ path'[handle[m]] # "none"
                 /\ m \in lines[handle[m]]
      <4>1. /\ handle[m] \in Files /\ path[handle[m]] # "none"
            /\ m \in lines[handle[m]]
        BY <1>3, <3>2 DEF AppendsInPlace
      <4> QED
        BY <1>5, <4>1
    <3> QED
      BY <1>1, <2>2, <3>1, <3>2 DEF AppendsInPlace
<1>10. RemovedIsHandled'
  <2>1. ASSUME NEW f \in Files, path'[f] = "removed"
        PROVE  \A m \in lines[f] : Handled(m)
    <3>1. CASE path[f] = "removed"
      BY <1>3, <3>1 DEF RemovedIsHandled
    <3>2. CASE path[f] # "removed"
      <4>1. Unlink(d) /\ f = drain[d].file
        BY <1>5, <2>1, <3>2
      <4>2. drain[d].pc = "replay" /\ drain[d].text = {}
        BY <4>1 DEF Unlink
      <4> QED
        BY <1>3, <4>1, <4>2 DEF LeftToReplay
    <3> QED
      BY <3>1, <3>2
  <2>2. \A f \in Files : lines[f] \subseteq Memories
    BY <1>3 DEF TypeOK
  <2> QED
    BY <1>1, <1>4, <2>1, <2>2 DEF RemovedIsHandled
<1> QED
  BY <1>8, <1>9, <1>10
-----------------------------------------------------------------------------
LEMMA NextInv == ASSUME IInv, Exclusive, [Next]_vars PROVE IInv'
<1>1. TypeOK'
  BY TypeStep DEF IInv
<1>2. ASSUME NEW m \in Memories, Open(m) \/ Write(m) \/ Abort(m) PROVE IInv'
  BY <1>1, <1>2, AppendStep DEF IInv
<1>3. ASSUME NEW d \in Drainers, Drain(d) \/ Crash(d) PROVE IInv'
  BY <1>1, <1>3, DrainStep DEF IInv
<1>4. ASSUME NEW m \in Memories, NEW status \in {"archived", "forgotten"}, Retire(m, status)
      PROVE  IInv'
  <2>1. UNCHANGED <<append, handle, path, lines, drain, quarantine>>
    BY <1>4 DEF Retire, spoolFiles
  <2>2. \A n \in Memories : Handled(n) => Handled(n)'
    <3>1. claim \in [Memories -> Claim] /\ status # "none"
      BY DEF IInv, TypeOK
    <3> QED
      BY <1>4, <3>1, <2>1 DEF Retire, Handled, Becomes
  <2>3. AppendsInPlace' /\ ClaimedFiles'
    BY <2>1 DEF IInv, AppendsInPlace, ClaimedFiles
  <2>4. RemovedIsHandled'
    <3>1. \A f \in Files : lines[f] \subseteq Memories
      BY DEF IInv, TypeOK
    <3> QED
      BY <2>1, <2>2, <3>1 DEF IInv, RemovedIsHandled
  <2>5. LeftToReplay'
    <3>1. ASSUME NEW e \in Drainers, drain[e].pc \in {"replay", "insert"}
          PROVE  lines[drain[e].file] \subseteq Memories
      BY <3>1 DEF IInv, TypeOK, ClaimedFiles
    <3> QED
      BY <2>1, <2>2, <3>1 DEF IInv, LeftToReplay
  <2> QED
    BY <1>1, <2>3, <2>4, <2>5 DEF IInv
<1>5. CASE UNCHANGED vars
  <2>1. UNCHANGED <<append, handle, path, lines, drain, claim, quarantine>>
    BY <1>5 DEF vars
  <2> QED
    BY <1>1, <2>1 DEF IInv, AppendsInPlace, ClaimedFiles, LeftToReplay, RemovedIsHandled,
       Handled
<1> QED
  BY <1>2, <1>3, <1>4, <1>5 DEF Next

\* The state of the spool keeps its type on every platform.
THEOREM TypeCorrect == Spec => []TypeOK
<1>1. Init => TypeOK
  BY InitInv DEF IInv
<1> QED
  BY <1>1, TypeStep, PTL DEF Spec

\* Where a file cannot be renamed while it is open and can be read while it
\* exists, no envelope that was written is lost, for every number of writers,
\* drains and crashes.
THEOREM NothingIsLost == Exclusive /\ Spec => []NothingLost
<1>1. ASSUME IInv PROVE NothingLost
  <2>1. ASSUME NEW m \in Memories, append[m] = "written"
        PROVE  \/ Handled(m)
               \/ OnDisk(handle[m]) /\ m \in lines[handle[m]]
    <3>1. /\ handle[m] \in Files /\ path[handle[m]] # "none"
          /\ m \in lines[handle[m]]
      BY <1>1, <2>1 DEF IInv, AppendsInPlace
    <3>2. path[handle[m]] \in {"none", "pending", "draining", "removed"}
      BY <1>1, <3>1 DEF IInv, TypeOK
    <3> QED
      BY <1>1, <3>1, <3>2 DEF IInv, RemovedIsHandled
  <2> QED
    BY <2>1 DEF NothingLost
<1>2. SUFFICES ASSUME Exclusive PROVE Spec => []NothingLost
  OBVIOUS
<1>3. IInv /\ [Next]_vars => IInv'
  BY <1>2, NextInv
<1> QED
  BY <1>1, <1>3, InitInv, PTL DEF Spec
-----------------------------------------------------------------------------
(* One claim of an envelope *)

\* A claim has at most one row, and none before it was made.
RowsOK ==
  \A m \in Memories :
    /\ claim[m].rows <= 1
    /\ claim[m].status = "none" => claim[m].rows = 0

\* A claim is written anew, and its rows stay in bounds.
LEMMA RowsKept ==
  ASSUME TypeOK, RowsOK, NEW m \in Memories, NEW status \in ClaimStatus \ {"none"},
         NEW rows \in 0 .. 1, claim' = Becomes(m, status, rows)
  PROVE  RowsOK'
<1>1. \A n \in Memories : claim'[n] = IF n = m THEN [status |-> status, rows |-> rows]
                                               ELSE claim[n]
  BY DEF Becomes, TypeOK
<1> QED
  BY <1>1 DEF RowsOK

LEMMA RowsStep == TypeOK /\ RowsOK /\ [Next]_vars => RowsOK'
<1> SUFFICES ASSUME TypeOK, RowsOK, [Next]_vars PROVE RowsOK'
  OBVIOUS
<1>1. \A m \in Memories : claim[m].rows \in 0 .. 1 /\ claim[m].status \in ClaimStatus
  <2>1. \A m \in Memories : claim[m] \in Claim
    BY DEF TypeOK
  <2>2. \A m \in Memories : claim[m].rows \in Nat /\ claim[m].status \in ClaimStatus
    BY <2>1 DEF Claim
  <2>3. \A m \in Memories : claim[m].rows <= 1
    BY DEF RowsOK
  <2> QED
    BY <2>2, <2>3
<1>2. ASSUME UNCHANGED claim PROVE RowsOK'
  BY <1>2 DEF RowsOK
<1>3. ASSUME NEW m \in Memories, Open(m) \/ Write(m) \/ Abort(m) PROVE RowsOK'
  BY <1>2, <1>3 DEF Open, Write, Abort, outcomes
<1>4. ASSUME NEW d \in Drainers, NEW m \in Memories, ReplayFound(d, m) PROVE RowsOK'
  <2>1. claim' = claim \/ claim' = Becomes(m, "live", claim[m].rows)
    BY <1>4 DEF ReplayFound
  <2> QED
    BY <1>1, <1>2, <2>1, RowsKept DEF ClaimStatus
<1>5. ASSUME NEW d \in Drainers, NEW m \in Memories, Insert(d, m) PROVE RowsOK'
  <2>1. CASE claim[m].status = "none"
    <3>1. claim[m].rows = 0 /\ claim' = Becomes(m, "live", claim[m].rows + 1)
      BY <1>5, <2>1 DEF Insert, RowsOK
    <3>2. claim' = Becomes(m, "live", 1)
      BY <3>1
    <3> QED
      BY <3>2, RowsKept DEF ClaimStatus
  <2>2. CASE claim[m].status # "none"
    BY <1>2, <1>5, <2>2 DEF Insert
  <2> QED
    BY <2>1, <2>2
<1>6. ASSUME NEW d \in Drainers, Drain(d) \/ Crash(d) PROVE RowsOK'
  <2>1. \/ UNCHANGED claim
        \/ \E m \in Memories : ReplayFound(d, m) \/ Insert(d, m)
    BY <1>6 DEF Drain, Crash, ListLeftovers, ListPending, ClaimedAll, Rename, Read, ReplayAbsent,
       QuarantineLine, Unlink, DrainEnds, outcomes
  <2> QED
    BY <1>2, <1>4, <1>5, <2>1
<1>7. ASSUME NEW m \in Memories, NEW status \in {"archived", "forgotten"}, Retire(m, status)
      PROVE  RowsOK'
  BY <1>1, <1>7, RowsKept DEF Retire, ClaimStatus
<1>8. ASSUME UNCHANGED vars PROVE RowsOK'
  BY <1>2, <1>8 DEF vars
<1> QED
  BY <1>3, <1>6, <1>7, <1>8 DEF Next

\* An envelope becomes at most one claim, on every platform: drains that look
\* up the same line and both find nothing insert one row between them, and a
\* drain that dies and is repeated makes no second one.
THEOREM OneClaimOfEach == Spec => []OneClaimEach
<1>1. Init => TypeOK /\ RowsOK
  <2>1. Init => TypeOK
    BY InitInv DEF IInv
  <2>2. Init => RowsOK
    <3>1. Init => claim = [m \in Memories |-> [status |-> "none", rows |-> 0]]
      BY DEF Init
    <3>2. claim = [m \in Memories |-> [status |-> "none", rows |-> 0]] => RowsOK
      BY DEF RowsOK
    <3> QED
      BY <3>1, <3>2
  <2> QED
    BY <2>1, <2>2
<1>2. TypeOK /\ RowsOK /\ [Next]_vars => TypeOK' /\ RowsOK'
  BY TypeStep, RowsStep
<1>3. RowsOK => OneClaimEach
  BY DEF RowsOK, OneClaimEach
<1> QED
  BY <1>1, <1>2, <1>3, PTL DEF Spec
=============================================================================

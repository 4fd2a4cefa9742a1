---------------------------- MODULE ClaimLifecycle ----------------------------
(***************************************************************************)
(* What the claim store promises, without versions, links, snapshots or    *)
(* writers: claims move along the allowed transitions one at a time,       *)
(* except that a promotion may retire the claim that held the tuple in the *)
(* same step; an archived claim may come back as a candidate when it is    *)
(* ingested again, unless it was archived because somebody asked to forget *)
(* it, in which case it stays archived for ever.                           *)
(***************************************************************************)
EXTENDS Lifecycle

CONSTANT Claims

VARIABLES
  status,     \* the status of every claim
  forgotten   \* the claims retired on explicit request

vars == <<status, forgotten>>

Init ==
  /\ status = [c \in Claims |-> Absent]
  /\ forgotten = {}

Ingest(c) ==
  /\ status[c] = Absent
  /\ status' = [status EXCEPT ![c] = "candidate"]
  /\ UNCHANGED forgotten

Move(c, to) ==
  /\ CanTransition(status[c], to)
  /\ status' = [status EXCEPT ![c] = to]
  /\ UNCHANGED forgotten

Forget(c) ==
  /\ CanTransition(status[c], "archived")
  /\ status' = [status EXCEPT ![c] = "archived"]
  /\ forgotten' = forgotten \cup {c}

\* The new claim takes the tuple slot of the old one: both moves or neither.
Handover(old, new) ==
  /\ old # new
  /\ status[old] = "confirmed"
  /\ CanTransition(status[new], "confirmed")
  /\ status' = [status EXCEPT ![old] = "superseded", ![new] = "confirmed"]
  /\ UNCHANGED forgotten

Revive(c) ==
  /\ status[c] = "archived"
  /\ c \notin forgotten
  /\ status' = [status EXCEPT ![c] = "candidate"]
  /\ UNCHANGED forgotten

Next ==
  \/ \E c \in Claims : Ingest(c) \/ Forget(c) \/ Revive(c)
  \/ \E c \in Claims, to \in Status : Move(c, to)
  \/ \E old, new \in Claims : Handover(old, new)

Spec == Init /\ [][Next]_vars
=============================================================================

------------------------------ MODULE Lifecycle ------------------------------
(***************************************************************************)
(* The claim statuses of MemoryMaster and the transitions the lifecycle    *)
(* allows between them (core/lifecycle.py).  The module has no state: the  *)
(* abstract specification ClaimLifecycle and the claims table ClaimTable   *)
(* both build on it.                                                       *)
(***************************************************************************)

\* A row that create_claim has not inserted yet has the status "absent".
Status == {"candidate", "confirmed", "stale", "superseded", "conflicted", "archived"}

Absent == "absent"

\* ALLOWED_TRANSITIONS.
AllowedTransitions ==
  [s \in Status |->
     CASE s = "candidate"  -> {"confirmed", "conflicted", "superseded", "archived"}
       [] s = "confirmed"  -> {"stale", "superseded", "conflicted", "archived"}
       [] s = "stale"      -> {"confirmed", "superseded", "conflicted", "archived"}
       [] s = "superseded" -> {"archived"}
       [] s = "conflicted" -> {"confirmed", "superseded", "stale", "archived"}
       [] s = "archived"   -> {}]

\* can_transition: an unknown current status has no targets.
CanTransition(s, t) == s \in Status /\ t \in AllowedTransitions[s]
=============================================================================

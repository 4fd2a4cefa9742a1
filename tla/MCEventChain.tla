----------------------------- MODULE MCEventChain -----------------------------
(* Small instances of EventChain. *)
EXTENDS EventChain, TLC

CONSTANTS w1, w2, u1, u2

\* Claims of two tenants and one without.
TenantOfEach == ("a" :> "t") @@ ("b" :> NoTenant) @@ ("c" :> "s")

NoneOld == <<>>

TwoOld == <<"a", "b">>

Symmetric == Permutations(Writers) \cup Permutations(Upgraders)
=============================================================================

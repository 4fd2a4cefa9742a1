----------------------------- MODULE MCProposals -----------------------------
(* Small instances of Proposals. *)
EXTENDS Proposals, TLC

CONSTANTS c1, c2, o1, o2, drain

\* Two claims that are rivals for one tuple.
OneTuple == [c \in Claims |-> "tuple"]
OneContent == [c \in Claims |-> c]

\* Retire a claim in favour of its rival, or let the rival contradict it.
Rivalry ==
  {[target |-> c1, to |-> "superseded", other |-> c2, held |-> FALSE],
   [target |-> c1, to |-> "conflicted", other |-> c2, held |-> FALSE]}

Early == (c1 :> 3) @@ (c2 :> 0)

Contested == {(c1 :> "confirmed") @@ (c2 :> "conflicted")}
=============================================================================

----------------------------- MODULE MCClaimStore -----------------------------
(* Small instances of ClaimStore. *)
EXTENDS ClaimStore, TLC

CONSTANTS t1, w1

\* Two rivals for one tuple, with the same content under two keys.
OneTuple == [c \in Claims |-> t1]
OneContent == [c \in Claims |-> w1]

\* The rivals are interchangeable, and so are the processes.
Symmetry == Permutations(Claims) \cup Permutations(Procs)
=============================================================================

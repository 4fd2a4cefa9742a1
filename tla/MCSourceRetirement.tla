-------------------------- MODULE MCSourceRetirement --------------------------
(* Small instances of SourceRetirement. *)
EXTENDS SourceRetirement, TLC

CONSTANTS c1, c2, w1, w2

\* The claims are about different things and say different things.
NoTuples == [c \in Claims |-> NoTuple]
Contents == [c \in Claims |-> IF c = c1 THEN w1 ELSE w2]

Symmetry == Permutations(Callers)
=============================================================================

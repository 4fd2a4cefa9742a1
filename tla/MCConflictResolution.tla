------------------------- MODULE MCConflictResolution -------------------------
(* Small instances of ConflictResolution. *)
EXTENDS ConflictResolution, TLC

CONSTANTS c1, c2, c3, t1, w1, red, blue

\* Three claims about one subject and predicate, with different texts; two
\* of them say the same, the third contradicts them.
OneTuple == [c \in Claims |-> t1]
OneContent == [c \in Claims |-> w1]
TwoValues == (c1 :> red) @@ (c2 :> red) @@ (c3 :> blue)

\* The runs of one resolver are interchangeable.
Symmetry == Permutations(AutoRuns) \cup Permutations(DetRuns)
=============================================================================

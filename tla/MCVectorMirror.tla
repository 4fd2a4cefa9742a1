---------------------------- MODULE MCVectorMirror ----------------------------
(* Small instances of VectorMirror. *)
EXTENDS VectorMirror, TLC

CONSTANTS p1, p2, c1, c2

\* One claim that is stored, archived and revived, and one that is only stored.
OneRevived == (c1 :> 3) @@ (c2 :> 1)
=============================================================================

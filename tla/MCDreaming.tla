------------------------------ MODULE MCDreaming ------------------------------
EXTENDS Dreaming, TLC

Symmetric == Permutations(Producers) \cup Permutations(Workers)

\* Bound: once the whole transcript is said, nobody has died and one worker at
\* a time is at work.  Deaths and workers that take the lease from each other
\* are checked on the transcript without its last message.
Bounded ==
  said = MaxMessages =>
    /\ crashes = 0
    /\ \A v, w \in Workers : run[v].pc # "idle" /\ run[w].pc # "idle" => v = w
=============================================================================

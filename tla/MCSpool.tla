------------------------------- MODULE MCSpool --------------------------------
EXTENDS Spool, TLC

CONSTANTS m1, m2, w1, d1, d2

\* Two envelopes of one writer, in one file or in two.
ByOne == (m1 :> w1) @@ (m2 :> w1)
=============================================================================

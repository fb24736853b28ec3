---------------------------- MODULE MCTokenBucket ----------------------------
(* Model values of the token bucket and the symmetry of its threads.       *)
EXTENDS TokenBucket, TLC

CONSTANTS t1, t2, t3

OneThread == {t1}
TwoThreads == {t1, t2}
ThreeThreads == {t1, t2, t3}

\* update_config lowers the capacity, or raises it and stops the refill.
LowerAndRaise == {<<1, 2>>, <<3, 0>>}

Symmetry == Permutations(Threads)
=============================================================================

---------------------------- MODULE MCThreadPool ----------------------------
(* Model values of the thread pool and the symmetry of its threads.        *)
EXTENDS ThreadPool, TLC

CONSTANTS w1, w2, w3, s1, s2

ThreeWorkers == {w1, w2, w3}
TwoWorkers == {w1, w2}
TwoSubmitters == {s1, s2}

Symmetry == Permutations(Workers) \cup Permutations(Submitters)
=============================================================================

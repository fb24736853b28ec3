----------------------------- MODULE MCRepository -----------------------------
(* Model values of the repository and its symmetries.                      *)
EXTENDS Repository, TLC

CONSTANTS t1, t2, k1, k2

TwoThreads == {t1, t2}
OneKey == {k1}
TwoKeys == {k1, k2}

Symmetry == Permutations(Threads) \cup Permutations(Keys)
=============================================================================

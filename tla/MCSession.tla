------------------------------ MODULE MCSession ------------------------------
(* Model values of a connection and the symmetry of the io threads.        *)
EXTENDS Session, TLC

CONSTANTS t1, t2

OneThread == {t1}
TwoThreads == {t1, t2}

Symmetry == Permutations(IoThreads)
=============================================================================

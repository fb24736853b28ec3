------------------------------ MODULE MCServer ------------------------------
(* Model values of the server and its symmetries.                          *)
EXTENDS Server, TLC

CONSTANTS main, i1, i2, w1, w2, c1, c2

TwoIoThreads == {main, i1}
ThreeIoThreads == {main, i1, i2}
OneWorker == {w1}
OneConn == {c1}
TwoConns == {c1, c2}

Symmetry == Permutations(IoThreads \ {Main}) \cup Permutations(Conns)
=============================================================================

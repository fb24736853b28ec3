--------------------------- MODULE MCConnectionPool ---------------------------
(* Model values of the connection pool and the symmetry of its borrowers.  *)
EXTENDS ConnectionPool, TLC

CONSTANTS t1, t2, t3, t4

ThreeThreads == {t1, t2, t3}
FourThreads == {t1, t2, t3, t4}

Symmetry == Permutations(Threads)
=============================================================================

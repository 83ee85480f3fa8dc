--------------------------- MODULE MCGunicornWorker ---------------------------
(* GunicornWorker for TLC: connections are alike, and so are threads.         *)
EXTENDS GunicornWorker, TLC

AnyConnAnyThread == Permutations(Conns) \cup Permutations(Threads)
=============================================================================

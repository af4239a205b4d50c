--------------------------- MODULE MCWorkerManager ---------------------------
(* Small instances of WorkerManager: two calls for what must happen in the  *)
(* end, three for what an abort stops.                                      *)
EXTENDS WorkerManager

CONSTANTS r1, r2, r3

MCRequest == {r1, r2, r3}
SmallRequest == {r1, r2}

Symmetry == Permutations(MCRequest)
=============================================================================

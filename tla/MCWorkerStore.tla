--------------------------- MODULE MCWorkerStore ---------------------------
(***************************************************************************)
(* Instances of WorkerStore for TLC.                                       *)
(***************************************************************************)
EXTENDS MCWorker, WorkerStore, TLC

CONSTANTS t2, t3, b

TokenSymmetry == Permutations({t1, t2, t3})
=============================================================================

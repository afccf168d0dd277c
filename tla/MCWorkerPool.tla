----------------------------- MODULE MCWorkerPool ---------------------------
(* Model checking instances of WorkerPool.                                   *)
EXTENDS WorkerPool

CONSTANTS j1, j2, j3, j4, j5, j6

\* Two jobs that spawn another one, and two that do not.
TwoParents == [j \in Jobs |-> CASE j = j1 -> j4 [] j = j2 -> j5 [] OTHER -> NoJob]

=============================================================================

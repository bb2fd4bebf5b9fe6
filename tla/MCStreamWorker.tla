--------------------------- MODULE MCStreamWorker ---------------------------
(***************************************************************************)
(* Instances of StreamWorker for TLC.                                      *)
(***************************************************************************)
EXTENDS StreamWorker, TLC

TwoRuns == 1..2

\* Processes are interchangeable; run ids are handed out in order.
Processes == Permutations(Replicas)
=============================================================================

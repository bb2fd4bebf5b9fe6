----------------------------- MODULE MCRunQueue -----------------------------
(***************************************************************************)
(* Instances of RunQueue for TLC.                                          *)
(***************************************************************************)
EXTENDS RunQueue, TLC

CONSTANTS w1, w2, c1

TwoRuns == {1, 2}
TwoWorkers == {w1, w2}
OneWorker == {w1}
OneCall == {c1}

\* Run 1 records lineage on success and task node_runs on failure.
FlushOfRun1 == {<<1, "succeeded">>, <<1, "failed">>}
NoneOf == {}
OnlyRun1 == {1}

Symmetry == Permutations(TwoWorkers)
=============================================================================

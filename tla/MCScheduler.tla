---------------------------- MODULE MCScheduler ----------------------------
(***************************************************************************)
(* An instance of Scheduler for TLC.                                       *)
(***************************************************************************)
EXTENDS Scheduler

\* Two adjacent firings: one can be missed, or swallowed by a retry of the other.
Minutely == [s \in Schedules |-> {1, 2}]
=============================================================================

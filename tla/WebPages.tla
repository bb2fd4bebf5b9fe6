------------------------------ MODULE WebPages ------------------------------
(***************************************************************************)
(* The other pages of the web client about one thing each, or without row   *)
(* actions: the session, a migration, a run, the runs, the dashboard, the   *)
(* audit log.  MCWeb opens one of them, or another screen, and checks it;   *)
(* WebPagesProofs has the proofs.                                           *)
(***************************************************************************)
EXTENDS WebState

CONSTANTS
  Nodes, All,     \* the nodes of a run, and the filter that shows them all
  Queries         \* the queries of the list of runs

OnSession == INSTANCE SessionShell WITH MaxToken <- Bound.token, MaxClicks <- Bound.clicks.session
OnMigration == INSTANCE MigrationPage WITH Kept <- Bound.kept, MaxRuns <- Bound.kept + 1, MaxClicks <- Bound.clicks.migration
OnNewMigration == INSTANCE MigrationForm WITH MaxClicks <- Bound.clicks.newMigration
OnRun == INSTANCE RunPage WITH MaxClicks <- Bound.clicks.run
OnRuns == INSTANCE RunsPage WITH Page <- Bound.page, Cap <- Bound.cap, MaxClicks <- Bound.clicks.runs
OnDashboard == INSTANCE DashboardPage WITH Pipelines <- Rows, Loads <- Bound.loads, MaxClicks <- Bound.clicks.dashboard
OnAudit == INSTANCE AuditPage WITH PageSize <- Bound.pageSize, MaxLog <- Bound.log, MaxClicks <- Bound.clicks.audit

ASSUME BoundAssumption == Bound.token \in Nat \ {0} /\ Bound.kept \in Nat

\* A page of the audit log has rows, the first page of runs is no longer than the
\* longest one, and the requests of the dashboard's loads have names of their own.
ASSUME SizesAssumption ==
  /\ Bound.pageSize \in Nat \ {0} /\ Bound.log \in Nat /\ Bound.clicks.run \in Nat
  /\ Bound.page \in Nat /\ Bound.cap \in Nat /\ Bound.page <= Bound.cap
  /\ Bound.loads \in Nat \ {0} /\ Distinct({"load", "schedules"}, 1..Bound.loads, {})
=============================================================================

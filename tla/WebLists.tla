------------------------------ MODULE WebLists ------------------------------
(***************************************************************************)
(* The pages of the web client that are lists with forms and row actions,   *)
(* and the dialogs of the diagram designer.  MCWeb opens one of them, or    *)
(* another screen, and checks it; WebListsProofs has the proofs.            *)
(***************************************************************************)
EXTENDS WebState

OnMigrations == INSTANCE MigrationsPage WITH Migrations <- Rows, MaxRuns <- Bound.runs, MaxClicks <- Bound.clicks.migrations
OnPipelines == INSTANCE PipelinesPage WITH Pipelines <- Rows, MaxRuns <- Bound.runs, MaxClicks <- Bound.clicks.pipelines
OnSchedules == INSTANCE SchedulesPage WITH Schedules <- Rows, MaxClicks <- Bound.clicks.schedules
OnSensors == INSTANCE SensorsPage WITH Sensors <- Rows, MaxClicks <- Bound.clicks.sensors
OnConnections == INSTANCE ConnectionsPage WITH Conns <- Rows, MaxClicks <- Bound.clicks.connections
OnMembers == INSTANCE MembersPage WITH MaxClicks <- Bound.clicks.members
OnVariables == INSTANCE VariablesPage WITH MaxClicks <- Bound.clicks.variables
OnDiagrams == INSTANCE ErdList WITH MaxClicks <- Bound.clicks.diagrams
OnDialogs == INSTANCE ErdDialogs WITH MaxClicks <- Bound.clicks.dialogs

\* The requests of a page about its rows have names of their own.
ASSUME NamesAssumption ==
  /\ Distinct({"trigger"}, Rows, {"list", "conns", "runs", "create", "remove", "reload", "params", "dry", "run", "delete"})
  /\ Distinct({"toggle", "toggled"}, OnSchedules!AnyRow, {"refresh", "saved", "deleted", "run", "delete", "save"})
  /\ Distinct({"check"}, OnSensors!AnyRow, {"refresh", "saved", "deleted", "delete", "save"})
  /\ Distinct({"test"}, OnConnections!AnyRow, {"refresh", "saved", "deleted", "usage", "all", "delete", "save"})
  /\ Distinct({"role", "changed"}, OnMembers!Users, {"refresh", "added", "removed", "add", "remove"})
  /\ Distinct({"delete", "deleted"}, OnVariables!AnyName, {"load", "saved", "usage", "set"})
  /\ Distinct({"rename", "renamed", "delete", "deleted"}, OnDiagrams!Diagrams, {"load", "create", "import"})
  /\ Distinct({"tables"}, OnDialogs!Conns, {"columns", "list", "create"})
  /\ Distinct({"columns"}, OnDialogs!Drawn, {"columns", "list", "create"} \cup {OnDialogs!Listing(c) : c \in OnDialogs!Conns})
=============================================================================

------------------------------- MODULE MCWeb -------------------------------
(***************************************************************************)
(* The screens of the web client for TLC, one at a time: the first state    *)
(* opens one of them, and each behaviour is that of its screen.  `page`     *)
(* says which; the variables of the others are at rest.  The builder's      *)
(* canvas (small graphs, node by node) and its page (graphs as values, the  *)
(* undo stack, saving) are two of them.                                     *)
(***************************************************************************)
EXTENDS PipelineEditor, WebLists, WebPages, TLC

CONSTANTS
  Screens,        \* the screens a behaviour may open
  Cursors         \* the values a table's cursor may have

VARIABLES page, canvas, minted, drawn

drawing == <<canvas, minted, drawn>>
webVars == <<page, browser, drawing, vars>>

FourNodes == 1..4

Canvas == INSTANCE BuilderCanvas WITH
  history <- canvas, edits <- drawn, NodeIds <- FourNodes, Palette <- {"transform", "join"},
  Capacity <- Bound.depth, MaxEdits <- Bound.drawn, Start <- {}
OnBackfill == INSTANCE BackfillDialog WITH Tables <- Rows, Windows <- Bound.windows, MaxClicks <- Bound.clicks.backfill
OnDesigner == INSTANCE ErdDesigner WITH MaxTables <- Bound.tables, MaxSaves <- Bound.saves, MaxClicks <- Bound.clicks.designer
OnConfigs == INSTANCE PipelineConfig WITH MaxClicks <- Bound.clicks.configs
OnMigrationConfigs == INSTANCE MigrationConfig WITH MaxClicks <- Bound.clicks.configs

BuilderScreens == {"canvas", "editor", "configs", "migration configs", "designer"}
PageScreens ==
  {"run", "runs", "migrations", "pipelines", "backfill", "schedules", "sensors", "connections", "dashboard", "audit", "members", "variables", "session", "migration", "new migration", "dialogs", "diagrams"}

\* Small enough for a run, and still every action happens.
SmallBounds ==
  [clicks |-> [run |-> 1, runs |-> 2, migrations |-> 3, pipelines |-> 2, backfill |-> 3, schedules |-> 3, sensors |-> 2,
               connections |-> 2, dashboard |-> 1, audit |-> 3, members |-> 3, variables |-> 3, session |-> 2,
               migration |-> 2, newMigration |-> 5, dialogs |-> 4, diagrams |-> 3, designer |-> 2, configs |-> 2],
   page |-> 1, cap |-> 2, runs |-> 1, windows |-> 3, loads |-> 2, pageSize |-> 1, log |-> 3, token |-> 2, kept |-> 1,
   tables |-> 4, saves |-> 2, depth |-> 2, drawn |-> 4]

\* Nothing tells one graph that can be saved from another.
GraphSymmetry == Permutations(Graphs \ Invalid)

AllScreens == BuilderScreens \cup PageScreens
ASSUME ScreensAssumption == Screens \subseteq AllScreens

\* The designer's saves have names of their own.
ASSUME DesignerAssumption == Bound.saves \in Nat /\ "get" \notin OnDesigner!SaveKeys

NoBrowser == ui = <<>> /\ net = <<>> /\ srv = <<>> /\ clicks = 0 /\ noise = {}
NoCanvas == canvas = NoHistory /\ minted = 0 /\ drawn = 0
NoEditor ==
  /\ history = NoHistory /\ settings = Defaults /\ triggers = NoTriggers /\ saved = None
  /\ metaDirty = FALSE /\ pipeline = None /\ loading = "idle" /\ save = <<>> /\ server = <<>>
  /\ edits = 0 /\ loads = 0 /\ stale = FALSE

WebInit ==
  /\ page \in Screens
  /\ IF page = "editor" THEN Init ELSE NoEditor
  /\ IF page = "canvas" THEN Canvas!Init ELSE NoCanvas
  /\ CASE page \in {"canvas", "editor"} -> NoBrowser
       [] page = "run" -> OnRun!Init
       [] page = "runs" -> OnRuns!Init
       [] page = "migrations" -> OnMigrations!Init
       [] page = "pipelines" -> OnPipelines!Init
       [] page = "backfill" -> OnBackfill!Init
       [] page = "schedules" -> OnSchedules!Init
       [] page = "sensors" -> OnSensors!Init
       [] page = "connections" -> OnConnections!Init
       [] page = "dashboard" -> OnDashboard!Init
       [] page = "audit" -> OnAudit!Init
       [] page = "members" -> OnMembers!Init
       [] page = "variables" -> OnVariables!Init
       [] page = "session" -> OnSession!Init
       [] page = "migration" -> OnMigration!Init
       [] page = "new migration" -> OnNewMigration!Init
       [] page = "designer" -> OnDesigner!Init
       [] page = "dialogs" -> OnDialogs!Init
       [] page = "diagrams" -> OnDiagrams!Init
       [] page = "configs" -> OnConfigs!Init
       [] page = "migration configs" -> OnMigrationConfigs!Init

PageNext ==
  \/ page = "run" /\ OnRun!Next
  \/ page = "runs" /\ OnRuns!Next
  \/ page = "migrations" /\ OnMigrations!Next
  \/ page = "pipelines" /\ OnPipelines!Next
  \/ page = "backfill" /\ OnBackfill!Next
  \/ page = "schedules" /\ OnSchedules!Next
  \/ page = "sensors" /\ OnSensors!Next
  \/ page = "connections" /\ OnConnections!Next
  \/ page = "dashboard" /\ OnDashboard!Next
  \/ page = "audit" /\ OnAudit!Next
  \/ page = "members" /\ OnMembers!Next
  \/ page = "variables" /\ OnVariables!Next
  \/ page = "session" /\ OnSession!Next
  \/ page = "migration" /\ OnMigration!Next
  \/ page = "new migration" /\ OnNewMigration!Next
  \/ page = "designer" /\ OnDesigner!Next
  \/ page = "dialogs" /\ OnDialogs!Next
  \/ page = "diagrams" /\ OnDiagrams!Next
  \/ page = "configs" /\ OnConfigs!Next
  \/ page = "migration configs" /\ OnMigrationConfigs!Next

WebNext ==
  /\ UNCHANGED page
  /\ \/ page = "editor" /\ Next /\ UNCHANGED <<browser, drawing>>
     \/ page = "canvas" /\ Canvas!Next /\ UNCHANGED <<browser, vars>>
     \/ PageNext /\ UNCHANGED <<drawing, vars>>

WebSpec == WebInit /\ [][WebNext]_webVars

(* The types of the state of every page; the builder's screens have theirs in
   ShapeKept, the backfill dialog in EachRowOnce. *)
WebTypeOK ==
  /\ page = "run" => OnRun!TypeOK
  /\ page = "runs" => OnRuns!TypeOK
  /\ page = "migrations" => OnMigrations!TypeOK
  /\ page = "pipelines" => OnPipelines!TypeOK
  /\ page = "schedules" => OnSchedules!TypeOK
  /\ page = "sensors" => OnSensors!TypeOK
  /\ page = "connections" => OnConnections!TypeOK
  /\ page = "dashboard" => OnDashboard!TypeOK
  /\ page = "audit" => OnAudit!TypeOK
  /\ page = "members" => OnMembers!TypeOK
  /\ page = "variables" => OnVariables!TypeOK
  /\ page = "session" => OnSession!TypeOK
  /\ page = "migration" => OnMigration!TypeOK
  /\ page = "new migration" => OnNewMigration!TypeOK
  /\ page = "dialogs" => OnDialogs!TypeOK
  /\ page = "diagrams" => OnDiagrams!TypeOK

(* A list at rest shows what the server has, or the answer to the query that was
   asked last, on every page: however reads, polls, filters and changes overlap,
   with the exceptions each page's own property names. *)
ListsShowServer ==
  /\ page = "run" => OnRun!LogsFollowFilter
  /\ page = "runs" => OnRuns!ShowsQuery
  /\ page = "migrations" => OnMigrations!ShowsServer
  /\ page = "pipelines" => OnPipelines!ShowsServer
  /\ page = "schedules" => OnSchedules!ShowsServer
  /\ page = "sensors" => OnSensors!ShowsServer
  /\ page = "connections" => OnConnections!ShowsServer
  /\ page = "dashboard" => OnDashboard!ShowsServer
  /\ page = "audit" => OnAudit!PagesMissNothing
  /\ page = "members" => OnMembers!ShowsServer
  /\ page = "variables" => OnVariables!ShowsServer
  /\ page = "session" => OnSession!ShowsServer
  /\ page = "migration" => OnMigration!ShowsServer
  /\ page = "dialogs" => OnDialogs!ShowsDatabase
  /\ page = "diagrams" => OnDiagrams!ShowsServer

(* A button that is busy, and so cannot be clicked, waits for a request that is
   under way, on every page: none stays busy for good after a failure. *)
SpinnersHaveRequests ==
  /\ page = "migrations" => OnMigrations!SpinnersHaveRequests
  /\ page = "pipelines" => OnPipelines!SpinnersHaveRequests
  /\ page = "backfill" => OnBackfill!SpinnersHaveRequests
  /\ page = "schedules" => OnSchedules!SpinnersHaveRequests
  /\ page = "sensors" => OnSensors!SpinnersHaveRequests
  /\ page = "connections" => OnConnections!SpinnersHaveRequests
  /\ page = "members" => OnMembers!SpinnersHaveRequests
  /\ page = "variables" => OnVariables!SpinnersHaveRequests
  /\ page = "session" => OnSession!SpinnersHaveRequests
  /\ page = "migration" => OnMigration!SpinnersHaveRequests
  /\ page = "new migration" => OnNewMigration!SpinnersHaveRequests
  /\ page = "dialogs" => OnDialogs!SpinnersHaveRequests
  /\ page = "diagrams" => OnDiagrams!SpinnersHaveRequests

(* What is written keeps the rules only its writers enforce: a workspace keeps an
   owner, a migration has one schedule, no bulk deletion runs beside another bulk
   operation, a pipeline is made of a table its source has, a value saved as it
   stood stays what it was, a diagram keeps its tables; with each page's exceptions. *)
WritesKeepRules ==
  /\ page = "migrations" => OnMigrations!BulksExclude
  /\ page = "members" => OnMembers!KeepsOwner
  /\ page = "variables" => OnVariables!SavedAsItStood
  /\ page = "migration" => OnMigration!OneSchedule
  /\ page = "new migration" => OnNewMigration!MakesMigrations
  /\ page = "dialogs" => OnDialogs!MakesWhatItCounts

(* The builder: no snapshot has an edge without its nodes, a cycle, a doubled
   edge or an input too many (graph-canvas.tsx connectionAllowed and the
   operations of graph-editor.tsx).  The diagram designer: what refers to a table
   or to a column refers to one there is, the script creates a table after those
   it refers to, no table is lost but by a deletion, and none is out of reach
   (erd-designer.tsx, erd-design.ts).  With them the types of these screens. *)
ShapeKept ==
  /\ page = "editor" => TypeOK
  /\ page = "canvas" => Canvas!TypeOK /\ Canvas!ShapeKept
  /\ page = "designer" => OnDesigner!TypeOK /\ OnDesigner!RefersToTables /\ OnDesigner!ScriptInOrder
  /\ page = "designer" => OnDesigner!KeepsTables /\ OnDesigner!NothingHidden
  /\ page = "configs" => OnConfigs!TypeOK
  /\ page = "migration configs" => OnMigrationConfigs!TypeOK

(* The builder and the designer: a page that says nothing is unsaved shows what
   is stored, with the exceptions PipelineEditor and ErdDesigner name
   (edit/page.tsx dirty, erd-designer.tsx saveState). *)
CleanShowsStored ==
  /\ page = "editor" => CleanIsStored
  /\ page = "designer" => OnDesigner!SavedIsStored /\ OnDesigner!SavingIsUnderWay

(* The conversions of the builder (pipeline-config.ts) and of the migration form
   (migration-config.ts, migration-utils.ts): what was saved is opened as it was
   saved, what is opened and saved stays what it was, the list and the form of
   migrations name the same strategy, stored tasks wait for and branch to tasks
   there are, and every edge is drawn to the right; with the exceptions the two
   modules name. *)
ConfigsSurvive ==
  /\ page = "configs" =>
       OnConfigs!ReopensAsSaved /\ OnConfigs!SavingKeepsIt /\ OnConfigs!TasksFit /\ OnConfigs!LayoutFits
  /\ page = "migration configs" =>
       OnMigrationConfigs!ListedAsOpened /\ OnMigrationConfigs!ReopensAsSaved /\ OnMigrationConfigs!SavingKeepsIt

(* The builder: what its user sees of undo and redo is UndoStack
   (use-graph-history.ts), from its first state on and with every step. *)
UndoAsPromised == Abstract!Init /\ [][page = "editor" => [Abstract!Next]_(Abstract!vars)]_webVars

(* The run page: once it stops polling it shows the run as it ended, with all
   of its log lines (runs/[id]/page.tsx, the polling effect). *)
EndedRunIsComplete == page = "run" => OnRun!EndedRunIsComplete

(* The backfill dialog: the windows of a suggestion read each row once
   (backfill-suggest.ts).  With it the types of the dialog, which are about the
   split points its folds compute. *)
EachRowOnce == page = "backfill" => OnBackfill!TypeOK /\ OnBackfill!EachRowOnce
=============================================================================

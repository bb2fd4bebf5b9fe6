---------------------------- MODULE MCWebProofs ----------------------------
(***************************************************************************)
(* Proofs about the web client as a whole, whichever screen is open.        *)
(***************************************************************************)
EXTENDS MCWeb, WebListsProofs, WebPagesProofs, PipelineEditorProofs

------------------------------------------------------------------------------
(* The backfill dialog *)

\* What is kept on this page: the record has the two flags.
BackfillSpins == {"suggesting", "submitting"} \subseteq DOMAIN ui /\ OnBackfill!SpinnersHaveRequests

\* It holds when the page opens.
LEMMA BackfillInit == OnBackfill!Init => BackfillSpins
  BY DEF OnBackfill!Init, BackfillSpins, OnBackfill!SpinnersHaveRequests

\* Every step of the page keeps it.
LEMMA BackfillStep == BackfillSpins /\ OnBackfill!Next => BackfillSpins'
<1> SUFFICES ASSUME BackfillSpins, OnBackfill!Next PROVE BackfillSpins'
  OBVIOUS
<1> USE DEF BackfillSpins, OnBackfill!SpinnersHaveRequests, OnBackfill!Out
<1>1. CASE OnBackfill!Serve
  BY <1>1 DEF OnBackfill!Serve, OnBackfill!Handles, OnBackfill!Blank
<1>2. CASE OnBackfill!SuggestBack
  BY <1>2 DEF OnBackfill!SuggestBack, OnBackfill!Blank, OnBackfill!Closed, OnBackfill!Without, OnBackfill!Restrict
<1>3. CASE OnBackfill!SubmitBack
  BY <1>3 DEF OnBackfill!SubmitBack, OnBackfill!Closed, OnBackfill!Without, OnBackfill!Restrict
<1>4. ASSUME NEW p, OnBackfill!Open(p) PROVE BackfillSpins'
  BY <1>4 DEF OnBackfill!Open, OnBackfill!Blank
<1>5. CASE OnBackfill!Close
  BY <1>5 DEF OnBackfill!Close
<1>6. CASE OnBackfill!Suggest
  BY <1>6 DEF OnBackfill!Suggest, OnBackfill!Sent, OnBackfill!With
<1>7. CASE OnBackfill!Submit
  BY <1>7 DEF OnBackfill!Submit, OnBackfill!Sent, OnBackfill!With
<1>8. CASE OnBackfill!TypeSplits
  BY <1>8 DEF OnBackfill!TypeSplits
<1>9. ASSUME NEW k \in DOMAIN net, OnBackfill!Breaks(k) PROVE BackfillSpins'
  BY <1>9 DEF OnBackfill!Breaks, OnBackfill!Fails
<1> QED
  BY <1>1, <1>2, <1>3, <1>4, <1>5, <1>6, <1>7, <1>8, <1>9 DEF OnBackfill!Next, OnBackfill!Returns, OnBackfill!Clicks

------------------------------------------------------------------------------
(* All pages *)

\* What is kept, whichever page is open.
Spinning ==
  /\ page = "migrations" => MigrationsSpins
  /\ page = "pipelines" => PipelinesSpins
  /\ page = "backfill" => BackfillSpins
  /\ page = "schedules" => SchedulesSpins
  /\ page = "sensors" => SensorsSpins
  /\ page = "connections" => ConnectionsSpins
  /\ page = "members" => MembersSpins
  /\ page = "variables" => VariablesSpins
  /\ page = "session" => SessionSpins
  /\ page = "migration" => MigrationSpins
  /\ page = "new migration" => NewMigrationSpins
  /\ page = "dialogs" => DialogsSpins
  /\ page = "diagrams" => DiagramsSpins

\* It holds when a page opens.
LEMMA SpinningInit == WebInit => Spinning
<1> SUFFICES ASSUME WebInit PROVE Spinning
  OBVIOUS
<1>1. page = "migrations" => MigrationsSpins
  <2>1. page = "migrations" => OnMigrations!Init
    BY DEF WebInit
  <2> QED
    BY <2>1, MigrationsInit
<1>2. page = "pipelines" => PipelinesSpins
  <2>1. page = "pipelines" => OnPipelines!Init
    BY DEF WebInit
  <2> QED
    BY <2>1, PipelinesInit
<1>3. page = "backfill" => BackfillSpins
  <2>1. page = "backfill" => OnBackfill!Init
    BY DEF WebInit
  <2> QED
    BY <2>1, BackfillInit
<1>4. page = "schedules" => SchedulesSpins
  <2>1. page = "schedules" => OnSchedules!Init
    BY DEF WebInit
  <2> QED
    BY <2>1, SchedulesInit
<1>5. page = "sensors" => SensorsSpins
  <2>1. page = "sensors" => OnSensors!Init
    BY DEF WebInit
  <2> QED
    BY <2>1, SensorsInit
<1>6. page = "connections" => ConnectionsSpins
  <2>1. page = "connections" => OnConnections!Init
    BY DEF WebInit
  <2> QED
    BY <2>1, ConnectionsInit
<1>7. page = "members" => MembersSpins
  <2>1. page = "members" => OnMembers!Init
    BY DEF WebInit
  <2> QED
    BY <2>1, MembersInit
<1>8. page = "variables" => VariablesSpins
  <2>1. page = "variables" => OnVariables!Init
    BY DEF WebInit
  <2> QED
    BY <2>1, VariablesInit
<1>9. page = "session" => SessionSpins
  <2>1. page = "session" => OnSession!Init
    BY DEF WebInit
  <2> QED
    BY <2>1, SessionInit
<1>10. page = "migration" => MigrationSpins
  <2>1. page = "migration" => OnMigration!Init
    BY DEF WebInit
  <2> QED
    BY <2>1, MigrationInit
<1>11. page = "new migration" => NewMigrationSpins
  <2>1. page = "new migration" => OnNewMigration!Init
    BY DEF WebInit
  <2> QED
    BY <2>1, NewMigrationInit
<1>12. page = "dialogs" => DialogsSpins
  <2>1. page = "dialogs" => OnDialogs!Init
    BY DEF WebInit
  <2> QED
    BY <2>1, DialogsInit
<1>13. page = "diagrams" => DiagramsSpins
  <2>1. page = "diagrams" => OnDiagrams!Init
    BY DEF WebInit
  <2> QED
    BY <2>1, DiagramsInit
<1> QED
  BY <1>1, <1>2, <1>3, <1>4, <1>5, <1>6, <1>7, <1>8, <1>9, <1>10, <1>11, <1>12, <1>13 DEF Spinning

\* A step that leaves the page's state alone leaves it so.
LEMMA SpinningSame == Spinning /\ UNCHANGED <<page, browser>> => Spinning'
<1> SUFFICES ASSUME Spinning, UNCHANGED <<page, browser>> PROVE Spinning'
  OBVIOUS
<1>0. page' = page /\ ui' = ui /\ net' = net /\ srv' = srv
  BY DEF browser
<1>1. page = "migrations" => MigrationsSpins'
  <2>1. MigrationsSpins => MigrationsSpins'
    BY <1>0 DEF MigrationsSpins, OnMigrations!SpinnersHaveRequests, OnMigrations!Out
  <2> QED
    BY <2>1 DEF Spinning
<1>2. page = "pipelines" => PipelinesSpins'
  <2>1. PipelinesSpins => PipelinesSpins'
    BY <1>0 DEF PipelinesSpins, OnPipelines!SpinnersHaveRequests, OnPipelines!Out
  <2> QED
    BY <2>1 DEF Spinning
<1>3. page = "backfill" => BackfillSpins'
  <2>1. BackfillSpins => BackfillSpins'
    BY <1>0 DEF BackfillSpins, OnBackfill!SpinnersHaveRequests, OnBackfill!Out
  <2> QED
    BY <2>1 DEF Spinning
<1>4. page = "schedules" => SchedulesSpins'
  <2>1. SchedulesSpins => SchedulesSpins'
    BY <1>0 DEF SchedulesSpins, OnSchedules!SpinnersHaveRequests, OnSchedules!Out
  <2> QED
    BY <2>1 DEF Spinning
<1>5. page = "sensors" => SensorsSpins'
  <2>1. SensorsSpins => SensorsSpins'
    BY <1>0 DEF SensorsSpins, OnSensors!SpinnersHaveRequests, OnSensors!Out
  <2> QED
    BY <2>1 DEF Spinning
<1>6. page = "connections" => ConnectionsSpins'
  <2>1. ConnectionsSpins => ConnectionsSpins'
    BY <1>0 DEF ConnectionsSpins, OnConnections!SpinnersHaveRequests, OnConnections!Out
  <2> QED
    BY <2>1 DEF Spinning
<1>7. page = "members" => MembersSpins'
  <2>1. MembersSpins => MembersSpins'
    BY <1>0 DEF MembersSpins, OnMembers!SpinnersHaveRequests, OnMembers!Out
  <2> QED
    BY <2>1 DEF Spinning
<1>8. page = "variables" => VariablesSpins'
  <2>1. VariablesSpins => VariablesSpins'
    BY <1>0 DEF VariablesSpins, OnVariables!SpinnersHaveRequests, OnVariables!Out
  <2> QED
    BY <2>1 DEF Spinning
<1>9. page = "session" => SessionSpins'
  <2>1. SessionSpins => SessionSpins'
    BY <1>0 DEF SessionSpins, OnSession!SpinnersHaveRequests, OnSession!Out
  <2> QED
    BY <2>1 DEF Spinning
<1>10. page = "migration" => MigrationSpins'
  <2>1. MigrationSpins => MigrationSpins'
    BY <1>0 DEF MigrationSpins, OnMigration!SpinnersHaveRequests, OnMigration!Out
  <2> QED
    BY <2>1 DEF Spinning
<1>11. page = "new migration" => NewMigrationSpins'
  <2>1. NewMigrationSpins => NewMigrationSpins'
    BY <1>0 DEF NewMigrationSpins, OnNewMigration!SpinnersHaveRequests, OnNewMigration!Out, OnNewMigration!Row
  <2> QED
    BY <2>1 DEF Spinning
<1>12. page = "dialogs" => DialogsSpins'
  <2>1. DialogsSpins => DialogsSpins'
    BY <1>0 DEF DialogsSpins, OnDialogs!SpinnersHaveRequests, OnDialogs!Quiet
  <2> QED
    BY <2>1 DEF Spinning
<1>13. page = "diagrams" => DiagramsSpins'
  <2>1. DiagramsSpins => DiagramsSpins'
    BY <1>0 DEF DiagramsSpins, OnDiagrams!SpinnersHaveRequests, OnDiagrams!Out, OnDiagrams!Here
  <2> QED
    BY <2>1 DEF Spinning
<1>14. /\ page' = "migrations" => MigrationsSpins'
       /\ page' = "pipelines" => PipelinesSpins'
       /\ page' = "backfill" => BackfillSpins'
       /\ page' = "schedules" => SchedulesSpins'
       /\ page' = "sensors" => SensorsSpins'
       /\ page' = "connections" => ConnectionsSpins'
  BY <1>0, <1>1, <1>2, <1>3, <1>4, <1>5, <1>6
<1>15. /\ page' = "members" => MembersSpins'
       /\ page' = "variables" => VariablesSpins'
       /\ page' = "session" => SessionSpins'
       /\ page' = "migration" => MigrationSpins'
       /\ page' = "new migration" => NewMigrationSpins'
       /\ page' = "dialogs" => DialogsSpins'
       /\ page' = "diagrams" => DiagramsSpins'
  BY <1>0, <1>7, <1>8, <1>9, <1>10, <1>11, <1>12, <1>13
<1> QED
  BY <1>14, <1>15 DEF Spinning

\* Every step of the open page, and of a screen that has no such buttons, keeps it.
LEMMA SpinningStep == Spinning /\ [WebNext]_webVars => Spinning'
<1> SUFFICES ASSUME Spinning, [WebNext]_webVars PROVE Spinning'
  OBVIOUS
<1>1. CASE UNCHANGED webVars
  BY <1>1, SpinningSame DEF webVars
<1>2. CASE WebNext
  <2>1. page' = page
    BY <1>2 DEF WebNext
  <2>2. CASE page \in {"editor", "canvas"}
    BY <2>1, <2>2 DEF Spinning
  <2>3. CASE page \notin {"editor", "canvas"} /\ PageNext
    <3>1. page = "migrations" => MigrationsSpins'
      <4>1. page = "migrations" => OnMigrations!Next
        BY <2>3 DEF PageNext
      <4> QED
        BY <4>1, MigrationsStep DEF Spinning
    <3>2. page = "pipelines" => PipelinesSpins'
      <4>1. page = "pipelines" => OnPipelines!Next
        BY <2>3 DEF PageNext
      <4> QED
        BY <4>1, PipelinesStep DEF Spinning
    <3>3. page = "backfill" => BackfillSpins'
      <4>1. page = "backfill" => OnBackfill!Next
        BY <2>3 DEF PageNext
      <4> QED
        BY <4>1, BackfillStep DEF Spinning
    <3>4. page = "schedules" => SchedulesSpins'
      <4>1. page = "schedules" => OnSchedules!Next
        BY <2>3 DEF PageNext
      <4> QED
        BY <4>1, SchedulesStep DEF Spinning
    <3>5. page = "sensors" => SensorsSpins'
      <4>1. page = "sensors" => OnSensors!Next
        BY <2>3 DEF PageNext
      <4> QED
        BY <4>1, SensorsStep DEF Spinning
    <3>6. page = "connections" => ConnectionsSpins'
      <4>1. page = "connections" => OnConnections!Next
        BY <2>3 DEF PageNext
      <4> QED
        BY <4>1, ConnectionsStep DEF Spinning
    <3>7. page = "members" => MembersSpins'
      <4>1. page = "members" => OnMembers!Next
        BY <2>3 DEF PageNext
      <4> QED
        BY <4>1, MembersStep DEF Spinning
    <3>8. page = "variables" => VariablesSpins'
      <4>1. page = "variables" => OnVariables!Next
        BY <2>3 DEF PageNext
      <4> QED
        BY <4>1, VariablesStep DEF Spinning
    <3>9. page = "session" => SessionSpins'
      <4>1. page = "session" => OnSession!Next
        BY <2>3 DEF PageNext
      <4> QED
        BY <4>1, SessionStep DEF Spinning
    <3>10. page = "migration" => MigrationSpins'
      <4>1. page = "migration" => OnMigration!Next
        BY <2>3 DEF PageNext
      <4> QED
        BY <4>1, MigrationStep DEF Spinning
    <3>11. page = "new migration" => NewMigrationSpins'
      <4>1. page = "new migration" => OnNewMigration!Next
        BY <2>3 DEF PageNext
      <4> QED
        BY <4>1, NewMigrationStep DEF Spinning
    <3>12. page = "dialogs" => DialogsSpins'
      <4>1. page = "dialogs" => OnDialogs!Next
        BY <2>3 DEF PageNext
      <4> QED
        BY <4>1, DialogsStep DEF Spinning
    <3>13. page = "diagrams" => DiagramsSpins'
      <4>1. page = "diagrams" => OnDiagrams!Next
        BY <2>3 DEF PageNext
      <4> QED
        BY <4>1, DiagramsStep DEF Spinning
    <3>14. /\ page' = "migrations" => MigrationsSpins'
           /\ page' = "pipelines" => PipelinesSpins'
           /\ page' = "backfill" => BackfillSpins'
           /\ page' = "schedules" => SchedulesSpins'
           /\ page' = "sensors" => SensorsSpins'
           /\ page' = "connections" => ConnectionsSpins'
      BY <2>1, <3>1, <3>2, <3>3, <3>4, <3>5, <3>6
    <3>15. /\ page' = "members" => MembersSpins'
           /\ page' = "variables" => VariablesSpins'
           /\ page' = "session" => SessionSpins'
           /\ page' = "migration" => MigrationSpins'
           /\ page' = "new migration" => NewMigrationSpins'
           /\ page' = "dialogs" => DialogsSpins'
           /\ page' = "diagrams" => DiagramsSpins'
      BY <2>1, <3>7, <3>8, <3>9, <3>10, <3>11, <3>12, <3>13
    <3> QED
      BY <3>14, <3>15 DEF Spinning
  <2> QED
    BY <1>2, <2>2, <2>3 DEF WebNext
<1> QED
  BY <1>1, <1>2 DEF webVars

(* A button that is busy waits for a request that is under way, on every page,
   whatever overlaps, fails or is answered late. *)
THEOREM NoSpinnerIsStuck == WebSpec => []SpinnersHaveRequests
<1>1. WebInit => Spinning
  BY SpinningInit
<1>2. Spinning /\ [WebNext]_webVars => Spinning'
  BY SpinningStep
<1>3. Spinning => SpinnersHaveRequests
  <2>1. Spinning => /\ page = "migrations" => OnMigrations!SpinnersHaveRequests
                    /\ page = "pipelines" => OnPipelines!SpinnersHaveRequests
                    /\ page = "backfill" => OnBackfill!SpinnersHaveRequests
                    /\ page = "schedules" => OnSchedules!SpinnersHaveRequests
                    /\ page = "sensors" => OnSensors!SpinnersHaveRequests
                    /\ page = "connections" => OnConnections!SpinnersHaveRequests
    BY DEF Spinning, MigrationsSpins, PipelinesSpins, BackfillSpins, SchedulesSpins, SensorsSpins, ConnectionsSpins
  <2>2. Spinning => /\ page = "members" => OnMembers!SpinnersHaveRequests
                    /\ page = "variables" => OnVariables!SpinnersHaveRequests
                    /\ page = "session" => OnSession!SpinnersHaveRequests
                    /\ page = "migration" => OnMigration!SpinnersHaveRequests
                    /\ page = "new migration" => OnNewMigration!SpinnersHaveRequests
                    /\ page = "dialogs" => OnDialogs!SpinnersHaveRequests
                    /\ page = "diagrams" => OnDiagrams!SpinnersHaveRequests
    BY DEF Spinning, MembersSpins, VariablesSpins, SessionSpins, MigrationSpins, NewMigrationSpins, DialogsSpins, DiagramsSpins
  <2> QED
    BY <2>1, <2>2 DEF SpinnersHaveRequests
<1> QED
  BY <1>1, <1>2, <1>3, PTL DEF WebSpec

\* What is kept of the rules, whichever page is open.
Ruling ==
  /\ page = "migrations" => MigrationsRules
  /\ page = "members" => MembersRules
  /\ page = "variables" => VariablesRules
  /\ page = "migration" => MigrationRules
  /\ page = "new migration" => NewMigrationRules
  /\ page = "dialogs" => DialogsRules

\* It holds when a page opens.
LEMMA RulingInit == WebInit => Ruling
<1> SUFFICES ASSUME WebInit PROVE Ruling
  OBVIOUS
<1>1. page = "migrations" => MigrationsRules
  <2>1. page = "migrations" => OnMigrations!Init
    BY DEF WebInit
  <2> QED
    BY <2>1, MigrationsRulesInit
<1>2. page = "members" => MembersRules
  <2>1. page = "members" => OnMembers!Init
    BY DEF WebInit
  <2> QED
    BY <2>1, MembersRulesInit
<1>3. page = "variables" => VariablesRules
  <2>1. page = "variables" => OnVariables!Init
    BY DEF WebInit
  <2> QED
    BY <2>1, VariablesRulesInit
<1>4. page = "migration" => MigrationRules
  <2>1. page = "migration" => OnMigration!Init
    BY DEF WebInit
  <2> QED
    BY <2>1, MigrationRulesInit
<1>5. page = "new migration" => NewMigrationRules
  <2>1. page = "new migration" => OnNewMigration!Init
    BY DEF WebInit
  <2> QED
    BY <2>1, NewMigrationRulesInit
<1>6. page = "dialogs" => DialogsRules
  <2>1. page = "dialogs" => OnDialogs!Init
    BY DEF WebInit
  <2> QED
    BY <2>1, DialogsRulesInit
<1> QED
  BY <1>1, <1>2, <1>3, <1>4, <1>5, <1>6 DEF Ruling

\* A step that leaves the page's state alone leaves it so.
LEMMA RulingSame == Ruling /\ UNCHANGED <<page, browser>> => Ruling'
<1> SUFFICES ASSUME Ruling, UNCHANGED <<page, browser>> PROVE Ruling'
  OBVIOUS
<1>0. page' = page /\ ui' = ui /\ net' = net /\ srv' = srv /\ noise' = noise
  BY DEF browser
<1>1. page = "migrations" => MigrationsRules'
  <2>1. MigrationsRules => MigrationsRules'
    BY <1>0 DEF MigrationsRules, OnMigrations!BulksExclude
  <2> QED
    BY <2>1 DEF Ruling
<1>2. page = "members" => MembersRules'
  <2>1. MembersRules => MembersRules'
    BY <1>0 DEF MembersRules, OnMembers!Owners, OnMembers!There
  <2> QED
    BY <2>1 DEF Ruling
<1>3. page = "variables" => VariablesRules'
  <2>1. VariablesRules => VariablesRules'
    BY <1>0 DEF VariablesRules, AllAsTheyStood, AsItStood, FormAsItStood
  <2> QED
    BY <2>1 DEF Ruling
<1>4. page = "migration" => MigrationRules'
  <2>1. MigrationRules => MigrationRules'
    BY <1>0 DEF MigrationRules, KnowsSchedule, OnMigration!First
  <2> QED
    BY <2>1 DEF Ruling
<1>5. page = "new migration" => NewMigrationRules'
  <2>1. NewMigrationRules => NewMigrationRules'
    BY <1>0 DEF NewMigrationRules, FormFits
  <2> QED
    BY <2>1 DEF Ruling
<1>6. page = "dialogs" => DialogsRules'
  <2>1. DialogsRules => DialogsRules'
    BY <1>0 DEF DialogsRules, OnDialogs!MakesWhatItCounts, OnDialogs!Is, OnDialogs!Answered, OnDialogs!Out
  <2> QED
    BY <2>1 DEF Ruling
<1> QED
  BY <1>0, <1>1, <1>2, <1>3, <1>4, <1>5, <1>6 DEF Ruling

\* Every step of the open page, and of a screen that writes by no rule, keeps it.
LEMMA RulingStep == Ruling /\ [WebNext]_webVars => Ruling'
<1> SUFFICES ASSUME Ruling, [WebNext]_webVars PROVE Ruling'
  OBVIOUS
<1>1. CASE UNCHANGED webVars
  BY <1>1, RulingSame DEF webVars
<1>2. CASE WebNext
  <2>1. page' = page
    BY <1>2 DEF WebNext
  <2>2. CASE page \in {"editor", "canvas"}
    BY <2>1, <2>2 DEF Ruling
  <2>3. CASE page \notin {"editor", "canvas"} /\ PageNext
    <3>1. page = "migrations" => MigrationsRules'
      <4>1. page = "migrations" => OnMigrations!Next
        BY <2>3 DEF PageNext
      <4> QED
        BY <4>1, MigrationsRulesStep DEF Ruling
    <3>2. page = "members" => MembersRules'
      <4>1. page = "members" => OnMembers!Next
        BY <2>3 DEF PageNext
      <4> QED
        BY <4>1, MembersRulesStep DEF Ruling
    <3>3. page = "variables" => VariablesRules'
      <4>1. page = "variables" => OnVariables!Next
        BY <2>3 DEF PageNext
      <4> QED
        BY <4>1, VariablesRulesStep DEF Ruling
    <3>4. page = "migration" => MigrationRules'
      <4>1. page = "migration" => OnMigration!Next
        BY <2>3 DEF PageNext
      <4> QED
        BY <4>1, MigrationRulesStep DEF Ruling
    <3>5. page = "new migration" => NewMigrationRules'
      <4>1. page = "new migration" => OnNewMigration!Next
        BY <2>3 DEF PageNext
      <4> QED
        BY <4>1, NewMigrationRulesStep DEF Ruling
    <3>6. page = "dialogs" => DialogsRules'
      <4>1. page = "dialogs" => OnDialogs!Next
        BY <2>3 DEF PageNext
      <4> QED
        BY <4>1, DialogsRulesStep DEF Ruling
    <3> QED
      BY <2>1, <3>1, <3>2, <3>3, <3>4, <3>5, <3>6 DEF Ruling
  <2> QED
    BY <1>2, <2>2, <2>3 DEF WebNext
<1> QED
  BY <1>1, <1>2 DEF webVars

(* What the pages write keeps the rules only its writers enforce: a workspace
   keeps an owner, a migration has one schedule, no bulk deletion runs beside
   another bulk operation, a migration copies a table its source has, a value
   saved as it stood stays what it was, and as many migrations are made of a
   diagram as are counted, with the exceptions each page's property names. *)
THEOREM RulesAreKept == WebSpec => []WritesKeepRules
<1>1. WebInit => Ruling
  BY RulingInit
<1>2. Ruling /\ [WebNext]_webVars => Ruling'
  BY RulingStep
<1>3. Ruling => WritesKeepRules
  BY MembersRulesEnough, VariablesRulesEnough, MigrationRulesEnough, NewMigrationRulesEnough DEF Ruling, WritesKeepRules, MigrationsRules, DialogsRules
<1> QED
  BY <1>1, <1>2, <1>3, PTL DEF WebSpec

\* What is kept of lists and types, whichever page is open.
PagesShow ==
  /\ page = "migrations" => MigrationsShow
  /\ page = "pipelines" => PipelinesShow
  /\ page = "schedules" => SchedulesShow
  /\ page = "sensors" => SensorsShow
  /\ page = "connections" => ConnectionsShow
  /\ page = "dashboard" => DashboardShow
  /\ page = "audit" => AuditShow
  /\ page = "runs" => RunsShow
  /\ page = "run" => RunFollows
  /\ page = "members" => MembersShow
  /\ page = "variables" => VariablesShow
  /\ page = "session" => SessionShow
  /\ page = "migration" => MigrationShow
  /\ page = "new migration" => NewMigrationShow
  /\ page = "dialogs" => DialogsShow
  /\ page = "diagrams" => DiagramsShow

\* It holds when a page opens.
LEMMA PagesShowInit == WebInit => PagesShow
<1> SUFFICES ASSUME WebInit PROVE PagesShow
  OBVIOUS
<1>1. page = "migrations" => MigrationsShow
  <2>1. page = "migrations" => OnMigrations!Init
    BY DEF WebInit
  <2> QED
    BY <2>1, MigrationsShowInit
<1>2. page = "pipelines" => PipelinesShow
  <2>1. page = "pipelines" => OnPipelines!Init
    BY DEF WebInit
  <2> QED
    BY <2>1, PipelinesShowInit
<1>3. page = "schedules" => SchedulesShow
  <2>1. page = "schedules" => OnSchedules!Init
    BY DEF WebInit
  <2> QED
    BY <2>1, SchedulesShowInit
<1>4. page = "sensors" => SensorsShow
  <2>1. page = "sensors" => OnSensors!Init
    BY DEF WebInit
  <2> QED
    BY <2>1, SensorsShowInit
<1>5. page = "connections" => ConnectionsShow
  <2>1. page = "connections" => OnConnections!Init
    BY DEF WebInit
  <2> QED
    BY <2>1, ConnectionsShowInit
<1>6. page = "dashboard" => DashboardShow
  <2>1. page = "dashboard" => OnDashboard!Init
    BY DEF WebInit
  <2> QED
    BY <2>1, DashboardShowInit
<1>7. page = "audit" => AuditShow
  <2>1. page = "audit" => OnAudit!Init
    BY DEF WebInit
  <2> QED
    BY <2>1, AuditShowInit
<1>8. page = "runs" => RunsShow
  <2>1. page = "runs" => OnRuns!Init
    BY DEF WebInit
  <2> QED
    BY <2>1, RunsShowInit
<1>9. page = "run" => RunFollows
  <2>1. page = "run" => OnRun!Init
    BY DEF WebInit
  <2> QED
    BY <2>1, RunFollowsInit
<1>10. page = "members" => MembersShow
  <2>1. page = "members" => OnMembers!Init
    BY DEF WebInit
  <2> QED
    BY <2>1, MembersShowInit
<1>11. page = "variables" => VariablesShow
  <2>1. page = "variables" => OnVariables!Init
    BY DEF WebInit
  <2> QED
    BY <2>1, VariablesShowInit
<1>12. page = "session" => SessionShow
  <2>1. page = "session" => OnSession!Init
    BY DEF WebInit
  <2> QED
    BY <2>1, SessionShowInit
<1>13. page = "migration" => MigrationShow
  <2>1. page = "migration" => OnMigration!Init
    BY DEF WebInit
  <2> QED
    BY <2>1, MigrationShowInit
<1>14. page = "new migration" => NewMigrationShow
  <2>1. page = "new migration" => OnNewMigration!Init
    BY DEF WebInit
  <2> QED
    BY <2>1, NewMigrationShowInit
<1>15. page = "dialogs" => DialogsShow
  <2>1. page = "dialogs" => OnDialogs!Init
    BY DEF WebInit
  <2> QED
    BY <2>1, DialogsShowInit
<1>16. page = "diagrams" => DiagramsShow
  <2>1. page = "diagrams" => OnDiagrams!Init
    BY DEF WebInit
  <2> QED
    BY <2>1, DiagramsShowInit
<1> QED
  BY <1>1, <1>2, <1>3, <1>4, <1>5, <1>6, <1>7, <1>8, <1>9, <1>10, <1>11, <1>12, <1>13, <1>14, <1>15, <1>16 DEF PagesShow

\* Where nothing changes, what is kept of the list of migrations is kept.
LEMMA MigrationsShowSame == ASSUME MigrationsShow, UNCHANGED browser PROVE MigrationsShow'
  BY DEF browser, MigrationsShow, MigrationsRules, OnMigrations!BulksExclude, MigrationsTypes, MigrationsBrought, MigrationsFresh

\* Where nothing changes, what is kept of the list of pipelines is kept.
LEMMA PipelinesShowSame == ASSUME PipelinesShow, UNCHANGED browser PROVE PipelinesShow'
  BY DEF browser, PipelinesShow, PipelinesTypes, OnPipelines!TypeOK, PipelinesBrought, PipelinesDelete, PipelinesFresh,
         PipelinesFailed, PipelinesGone

\* Where nothing changes, what is kept of schedules is kept.
LEMMA SchedulesShowSame == ASSUME SchedulesShow, UNCHANGED browser PROVE SchedulesShow'
  BY DEF browser, SchedulesShow, SchedulesTypes, OnSchedules!TypeOK, OnSchedules!Shown

\* Where nothing changes, what is kept of sensors is kept.
LEMMA SensorsShowSame == ASSUME SensorsShow, UNCHANGED browser PROVE SensorsShow'
  BY DEF browser, SensorsShow, SensorsTypes, OnSensors!TypeOK, OnSensors!There, OnSensors!Shown, SensorsBrought,
         OnSensors!Out, SensorsShown, SensorsThere

\* Where nothing changes, what is kept of connections is kept.
LEMMA ConnectionsShowSame == ASSUME ConnectionsShow, UNCHANGED browser PROVE ConnectionsShow'
  BY DEF browser, ConnectionsShow, ConnectionsTypes, OnConnections!TypeOK, OnConnections!There, OnConnections!Shown,
         ConnectionsBrought, OnConnections!Out

\* Where nothing changes, what is kept of the dashboard is kept.
LEMMA DashboardShowSame == ASSUME DashboardShow, UNCHANGED browser PROVE DashboardShow'
  BY DEF browser, DashboardShow, DashboardUi, DashboardServer, DashboardNet, DashboardSnap, OnDashboard!TypeOK,
         DashboardFresh, DashboardListed

\* Where nothing changes, what is kept of the audit log is kept.
LEMMA AuditShowSame == ASSUME AuditShow, UNCHANGED browser PROVE AuditShow'
  BY DEF browser, AuditShow, AuditTypes, OnAudit!TypeOK, AuditServed, AuditBrought, OnAudit!Query,
         OnAudit!PagesMissNothing, OnAudit!Quiet, AuditAhead

\* Where nothing changes, what is kept of the list of runs is kept.
LEMMA RunsShowSame == ASSUME RunsShow, UNCHANGED browser PROVE RunsShow'
  BY DEF browser, RunsShow, RunsTypes, OnRuns!TypeOK, RunsRead, RunsAnswer, RunsShown

\* Where nothing changes, what is kept of a run's page is kept.
LEMMA RunFollowsSame == ASSUME RunFollows, UNCHANGED browser PROVE RunFollows'
  BY DEF browser, RunFollows, RunKnows, RunShape, RunLoop, OnRun!Out, RunRead, KnowsEnd, OnRun!Row, OnRun!Answered,
         RunFailures, OnRun!Rejected, RunEnds, LastTick, RunTypes, OnRun!TypeOK, RunReadsFilter

\* Where nothing changes, what is kept of members is kept.
LEMMA MembersShowSame == ASSUME MembersShow, UNCHANGED browser PROVE MembersShow'
  BY DEF browser, MembersShow, MembersTypes, OnMembers!TypeOK, OnMembers!There, MembersAsked, MembersPaired, MembersPast

\* Where nothing changes, what is kept of variables is kept.
LEMMA VariablesShowSame == ASSUME VariablesShow, UNCHANGED browser PROVE VariablesShow'
  BY DEF browser, VariablesShow, VariablesTypes, OnVariables!TypeOK, OnVariables!There, VariablesAsked, OnVariables!Out,
         OnVariables!Answered

\* Where nothing changes, what is kept of the session is kept.
LEMMA SessionShowSame == ASSUME SessionShow, UNCHANGED browser PROVE SessionShow'
<1>0. ui' = ui /\ net' = net /\ srv' = srv /\ noise' = noise
  BY DEF browser
<1>1. SessionBrought'
  BY <1>0, ZenonT(60) DEF SessionShow, SessionBrought, OnSession!Ok, OnSession!Answered, OnSession!Out
<1>2. SessionServer'
  BY <1>0 DEF SessionShow, SessionServer
<1>3. Rested(net, ui) => Rested(net, ui)'
  <2>1. \A u : OnSession!Sees(u)' = OnSession!Sees(u)
    <3> TAKE u
    <3>1. {w \in DOMAIN srv.ws : OnSession!Member(u, w)}' = {w \in DOMAIN srv.ws : OnSession!Member(u, w)}
      BY <1>0
    <3> QED
      BY <1>0, <3>1 DEF OnSession!Sees
  <2> QED
    BY <1>0, <2>1 DEF Rested
<1> QED
  BY <1>0, <1>1, <1>2, <1>3 DEF SessionShow

\* Where nothing changes, what is kept of a migration's page is kept.
LEMMA MigrationShowSame == ASSUME MigrationShow, UNCHANGED browser PROVE MigrationShow'
<1>0. ui' = ui /\ net' = net /\ srv' = srv /\ noise' = noise
  BY DEF browser
<1>1. KnowsSchedule => KnowsSchedule'
  BY <1>0 DEF KnowsSchedule
<1>2. MigrationRules'
  BY <1>0, <1>1 DEF MigrationShow, MigrationRules
<1>3. MigrationTypes'
  BY <1>0 DEF MigrationShow, MigrationTypes, OnMigration!TypeOK
<1>4. KnowsConfig => KnowsConfig'
  BY <1>0 DEF KnowsConfig
<1> QED
  BY <1>0, <1>2, <1>3, <1>4 DEF MigrationShow

\* Where nothing changes, what is kept of the form of a new migration is kept.
LEMMA NewMigrationShowSame == ASSUME NewMigrationShow, UNCHANGED browser PROVE NewMigrationShow'
  BY DEF browser, NewMigrationShow, NewMigrationRules

\* Where nothing changes, what is kept of the dialogs of the diagrams is kept.
LEMMA DialogsShowSame == ASSUME DialogsShow, UNCHANGED browser PROVE DialogsShow'
  BY DEF browser, DialogsShow, DialogsSpins, OnDialogs!SpinnersHaveRequests, OnDialogs!Quiet, DialogsTypes,
         OnDialogs!TypeOK, ImportGood, VerifyGood

\* Where nothing changes, what is kept of the list of diagrams is kept.
LEMMA DiagramsShowSame == ASSUME DiagramsShow, UNCHANGED browser PROVE DiagramsShow'
  BY DEF browser, DiagramsShow, DiagramsSpins, OnDiagrams!SpinnersHaveRequests, OnDiagrams!Here, OnDiagrams!Out, DiagramsBusy, DiagramsPast

\* A step that leaves the page's state alone keeps it, whichever page that is.
LEMMA PagesShowSame == PagesShow /\ UNCHANGED <<page, browser>> => PagesShow'
<1> SUFFICES ASSUME PagesShow, UNCHANGED <<page, browser>> PROVE PagesShow'
  OBVIOUS
<1>0. page' = page /\ UNCHANGED browser
  OBVIOUS
<1>1. page' = "migrations" => MigrationsShow'
  <2>1. MigrationsShow /\ UNCHANGED browser => MigrationsShow'
    BY MigrationsShowSame
  <2> QED
    BY <1>0, <2>1 DEF PagesShow
<1>2. page' = "pipelines" => PipelinesShow'
  <2>1. PipelinesShow /\ UNCHANGED browser => PipelinesShow'
    BY PipelinesShowSame
  <2> QED
    BY <1>0, <2>1 DEF PagesShow
<1>3. page' = "schedules" => SchedulesShow'
  <2>1. SchedulesShow /\ UNCHANGED browser => SchedulesShow'
    BY SchedulesShowSame
  <2> QED
    BY <1>0, <2>1 DEF PagesShow
<1>4. page' = "sensors" => SensorsShow'
  <2>1. SensorsShow /\ UNCHANGED browser => SensorsShow'
    BY SensorsShowSame
  <2> QED
    BY <1>0, <2>1 DEF PagesShow
<1>5. page' = "connections" => ConnectionsShow'
  <2>1. ConnectionsShow /\ UNCHANGED browser => ConnectionsShow'
    BY ConnectionsShowSame
  <2> QED
    BY <1>0, <2>1 DEF PagesShow
<1>6. page' = "dashboard" => DashboardShow'
  <2>1. DashboardShow /\ UNCHANGED browser => DashboardShow'
    BY DashboardShowSame
  <2> QED
    BY <1>0, <2>1 DEF PagesShow
<1>7. page' = "audit" => AuditShow'
  <2>1. AuditShow /\ UNCHANGED browser => AuditShow'
    BY AuditShowSame
  <2> QED
    BY <1>0, <2>1 DEF PagesShow
<1>8. page' = "runs" => RunsShow'
  <2>1. RunsShow /\ UNCHANGED browser => RunsShow'
    BY RunsShowSame
  <2> QED
    BY <1>0, <2>1 DEF PagesShow
<1>9. page' = "run" => RunFollows'
  <2>1. RunFollows /\ UNCHANGED browser => RunFollows'
    BY RunFollowsSame
  <2> QED
    BY <1>0, <2>1 DEF PagesShow
<1>10. page' = "members" => MembersShow'
  <2>1. MembersShow /\ UNCHANGED browser => MembersShow'
    BY MembersShowSame
  <2> QED
    BY <1>0, <2>1 DEF PagesShow
<1>11. page' = "variables" => VariablesShow'
  <2>1. VariablesShow /\ UNCHANGED browser => VariablesShow'
    BY VariablesShowSame
  <2> QED
    BY <1>0, <2>1 DEF PagesShow
<1>12. page' = "session" => SessionShow'
  <2>1. SessionShow /\ UNCHANGED browser => SessionShow'
    BY SessionShowSame
  <2> QED
    BY <1>0, <2>1 DEF PagesShow
<1>13. page' = "migration" => MigrationShow'
  <2>1. MigrationShow /\ UNCHANGED browser => MigrationShow'
    BY MigrationShowSame
  <2> QED
    BY <1>0, <2>1 DEF PagesShow
<1>14. page' = "new migration" => NewMigrationShow'
  <2>1. NewMigrationShow /\ UNCHANGED browser => NewMigrationShow'
    BY NewMigrationShowSame
  <2> QED
    BY <1>0, <2>1 DEF PagesShow
<1>15. page' = "dialogs" => DialogsShow'
  <2>1. DialogsShow /\ UNCHANGED browser => DialogsShow'
    BY DialogsShowSame
  <2> QED
    BY <1>0, <2>1 DEF PagesShow
<1>16. page' = "diagrams" => DiagramsShow'
  <2>1. DiagramsShow /\ UNCHANGED browser => DiagramsShow'
    BY DiagramsShowSame
  <2> QED
    BY <1>0, <2>1 DEF PagesShow
<1> QED
  BY <1>1, <1>2, <1>3, <1>4, <1>5, <1>6, <1>7, <1>8, <1>9, <1>10, <1>11, <1>12, <1>13, <1>14, <1>15, <1>16 DEF PagesShow

\* Every step of the open page, and of a screen without lists, keeps it.
LEMMA PagesShowStep == PagesShow /\ [WebNext]_webVars => PagesShow'
<1> SUFFICES ASSUME PagesShow, [WebNext]_webVars PROVE PagesShow'
  OBVIOUS
<1>1. CASE UNCHANGED webVars
  BY <1>1, PagesShowSame DEF webVars
<1>2. CASE WebNext
  <2>1. page' = page
    BY <1>2 DEF WebNext
  <2>2. CASE page \in {"editor", "canvas"}
    BY <2>1, <2>2 DEF PagesShow
  <2>3. CASE page \notin {"editor", "canvas"} /\ PageNext
    <3>1. page = "migrations" => MigrationsShow'
      <4>1. page = "migrations" => OnMigrations!Next
        BY <2>3 DEF PageNext
      <4> QED
        BY <4>1, MigrationsShowStep DEF PagesShow
    <3>2. page = "pipelines" => PipelinesShow'
      <4>1. page = "pipelines" => OnPipelines!Next
        BY <2>3 DEF PageNext
      <4> QED
        BY <4>1, PipelinesShowStep DEF PagesShow
    <3>3. page = "schedules" => SchedulesShow'
      <4>1. page = "schedules" => OnSchedules!Next
        BY <2>3 DEF PageNext
      <4> QED
        BY <4>1, SchedulesShowStep DEF PagesShow
    <3>4. page = "sensors" => SensorsShow'
      <4>1. page = "sensors" => OnSensors!Next
        BY <2>3 DEF PageNext
      <4> QED
        BY <4>1, SensorsShowStep DEF PagesShow
    <3>5. page = "connections" => ConnectionsShow'
      <4>1. page = "connections" => OnConnections!Next
        BY <2>3 DEF PageNext
      <4> QED
        BY <4>1, ConnectionsShowStep DEF PagesShow
    <3>6. page = "dashboard" => DashboardShow'
      <4>1. page = "dashboard" => OnDashboard!Next
        BY <2>3 DEF PageNext
      <4> QED
        BY <4>1, DashboardShowStep DEF PagesShow
    <3>7. page = "audit" => AuditShow'
      <4>1. page = "audit" => OnAudit!Next
        BY <2>3 DEF PageNext
      <4> QED
        BY <4>1, AuditShowStep DEF PagesShow
    <3>8. page = "runs" => RunsShow'
      <4>1. page = "runs" => OnRuns!Next
        BY <2>3 DEF PageNext
      <4> QED
        BY <4>1, RunsShowStep DEF PagesShow
    <3>9. page = "run" => RunFollows'
      <4>1. page = "run" => OnRun!Next
        BY <2>3 DEF PageNext
      <4> QED
        BY <4>1, RunFollowsStep DEF PagesShow
    <3>10. page = "members" => MembersShow'
      <4>1. page = "members" => OnMembers!Next
        BY <2>3 DEF PageNext
      <4> QED
        BY <4>1, MembersShowStep DEF PagesShow
    <3>11. page = "variables" => VariablesShow'
      <4>1. page = "variables" => OnVariables!Next
        BY <2>3 DEF PageNext
      <4> QED
        BY <4>1, VariablesShowStep DEF PagesShow
    <3>12. page = "session" => SessionShow'
      <4>1. page = "session" => OnSession!Next
        BY <2>3 DEF PageNext
      <4> QED
        BY <4>1, SessionShowStep DEF PagesShow
    <3>13. page = "migration" => MigrationShow'
      <4>1. page = "migration" => OnMigration!Next
        BY <2>3 DEF PageNext
      <4> QED
        BY <4>1, MigrationShowStep DEF PagesShow
    <3>14. page = "new migration" => NewMigrationShow'
      <4>1. page = "new migration" => OnNewMigration!Next
        BY <2>3 DEF PageNext
      <4> QED
        BY <4>1, NewMigrationShowStep DEF PagesShow
    <3>15. page = "dialogs" => DialogsShow'
      <4>1. page = "dialogs" => OnDialogs!Next
        BY <2>3 DEF PageNext
      <4> QED
        BY <4>1, DialogsShowStep DEF PagesShow
    <3>16. page = "diagrams" => DiagramsShow'
      <4>1. page = "diagrams" => OnDiagrams!Next
        BY <2>3 DEF PageNext
      <4> QED
        BY <4>1, DiagramsShowStep DEF PagesShow
    <3>17. /\ page' = "migrations" => MigrationsShow'
           /\ page' = "pipelines" => PipelinesShow'
           /\ page' = "schedules" => SchedulesShow'
           /\ page' = "sensors" => SensorsShow'
           /\ page' = "connections" => ConnectionsShow'
           /\ page' = "dashboard" => DashboardShow'
           /\ page' = "audit" => AuditShow'
           /\ page' = "runs" => RunsShow'
      BY <2>1, <3>1, <3>2, <3>3, <3>4, <3>5, <3>6, <3>7, <3>8
    <3>18. /\ page' = "run" => RunFollows'
           /\ page' = "members" => MembersShow'
           /\ page' = "variables" => VariablesShow'
           /\ page' = "session" => SessionShow'
           /\ page' = "migration" => MigrationShow'
           /\ page' = "new migration" => NewMigrationShow'
           /\ page' = "dialogs" => DialogsShow'
           /\ page' = "diagrams" => DiagramsShow'
      BY <2>1, <3>9, <3>10, <3>11, <3>12, <3>13, <3>14, <3>15, <3>16
    <3> QED
      BY <3>17, <3>18 DEF PagesShow
  <2> QED
    BY <1>2, <2>2, <2>3 DEF WebNext
<1> QED
  BY <1>1, <1>2 DEF webVars

\* It is enough for the two invariants the run checks.
LEMMA PagesShowEnough == PagesShow => ListsShowServer /\ WebTypeOK
<1> SUFFICES ASSUME PagesShow PROVE ListsShowServer /\ WebTypeOK
  OBVIOUS
<1>1. page = "migrations" => OnMigrations!ShowsServer /\ OnMigrations!TypeOK
  BY MigrationsShowEnough DEF PagesShow
<1>2. page = "pipelines" => OnPipelines!ShowsServer /\ OnPipelines!TypeOK
  BY PipelinesShowEnough DEF PagesShow
<1>3. page = "schedules" => OnSchedules!ShowsServer /\ OnSchedules!TypeOK
  BY SchedulesShowEnough DEF PagesShow
<1>4. page = "sensors" => OnSensors!ShowsServer /\ OnSensors!TypeOK
  BY SensorsShowEnough DEF PagesShow
<1>5. page = "connections" => OnConnections!ShowsServer /\ OnConnections!TypeOK
  BY ConnectionsShowEnough DEF PagesShow
<1>6. page = "dashboard" => OnDashboard!ShowsServer /\ OnDashboard!TypeOK
  BY DashboardShowEnough DEF PagesShow
<1>7. page = "audit" => OnAudit!PagesMissNothing /\ OnAudit!TypeOK
  BY AuditShowEnough DEF PagesShow
<1>8. page = "runs" => OnRuns!ShowsQuery /\ OnRuns!TypeOK
  BY RunsShowEnough DEF PagesShow
<1>9. page = "run" => OnRun!LogsFollowFilter /\ OnRun!TypeOK
  BY RunFollowsEnough DEF PagesShow
<1>10. page = "members" => OnMembers!ShowsServer /\ OnMembers!TypeOK
  BY MembersShowEnough DEF PagesShow
<1>11. page = "variables" => OnVariables!ShowsServer /\ OnVariables!TypeOK
  BY VariablesShowEnough DEF PagesShow
<1>12. page = "session" => OnSession!ShowsServer /\ OnSession!TypeOK
  BY SessionShowEnough DEF PagesShow
<1>13. page = "migration" => OnMigration!ShowsServer /\ OnMigration!TypeOK
  BY MigrationShowEnough DEF PagesShow
<1>14. page = "new migration" => OnNewMigration!TypeOK
  BY NewMigrationShowEnough DEF PagesShow
<1>15. page = "dialogs" => OnDialogs!ShowsDatabase /\ OnDialogs!TypeOK
  BY DialogsShowEnough DEF PagesShow
<1>16. page = "diagrams" => OnDiagrams!ShowsServer /\ OnDiagrams!TypeOK
  BY DiagramsShowEnough DEF PagesShow
<1>17. /\ page = "migrations" => OnMigrations!ShowsServer
       /\ page = "pipelines" => OnPipelines!ShowsServer
       /\ page = "schedules" => OnSchedules!ShowsServer
       /\ page = "sensors" => OnSensors!ShowsServer
       /\ page = "connections" => OnConnections!ShowsServer
       /\ page = "dashboard" => OnDashboard!ShowsServer
       /\ page = "audit" => OnAudit!PagesMissNothing
       /\ page = "runs" => OnRuns!ShowsQuery
  BY <1>1, <1>2, <1>3, <1>4, <1>5, <1>6, <1>7, <1>8
<1>18. /\ page = "run" => OnRun!LogsFollowFilter
       /\ page = "members" => OnMembers!ShowsServer
       /\ page = "variables" => OnVariables!ShowsServer
       /\ page = "session" => OnSession!ShowsServer
       /\ page = "migration" => OnMigration!ShowsServer
       /\ page = "dialogs" => OnDialogs!ShowsDatabase
       /\ page = "diagrams" => OnDiagrams!ShowsServer
  BY <1>9, <1>10, <1>11, <1>12, <1>13, <1>15, <1>16
<1>19. ListsShowServer
  BY <1>17, <1>18 DEF ListsShowServer
<1>20. /\ page = "migrations" => OnMigrations!TypeOK
       /\ page = "pipelines" => OnPipelines!TypeOK
       /\ page = "schedules" => OnSchedules!TypeOK
       /\ page = "sensors" => OnSensors!TypeOK
       /\ page = "connections" => OnConnections!TypeOK
       /\ page = "dashboard" => OnDashboard!TypeOK
       /\ page = "audit" => OnAudit!TypeOK
       /\ page = "runs" => OnRuns!TypeOK
  BY <1>1, <1>2, <1>3, <1>4, <1>5, <1>6, <1>7, <1>8
<1>21. /\ page = "run" => OnRun!TypeOK
       /\ page = "members" => OnMembers!TypeOK
       /\ page = "variables" => OnVariables!TypeOK
       /\ page = "session" => OnSession!TypeOK
       /\ page = "migration" => OnMigration!TypeOK
       /\ page = "new migration" => OnNewMigration!TypeOK
       /\ page = "dialogs" => OnDialogs!TypeOK
       /\ page = "diagrams" => OnDiagrams!TypeOK
  BY <1>9, <1>10, <1>11, <1>12, <1>13, <1>14, <1>15, <1>16
<1>22. WebTypeOK
  BY <1>20, <1>21 DEF WebTypeOK
<1> QED
  BY <1>19, <1>22

(* A list at rest shows what the server has, or the answer to the query asked
   last, on every page, however reads, polls, filters and changes overlap and
   whichever of them fail; with the exceptions each page names. *)
THEOREM ListsShow == WebSpec => []ListsShowServer
<1>1. PagesShow => ListsShowServer
  BY PagesShowEnough
<1> QED
  BY <1>1, PagesShowInit, PagesShowStep, PTL DEF WebSpec

(* The state of every page keeps its types: what an answer brings is what its
   handler puts there. *)
THEOREM TypesAreKept == WebSpec => []WebTypeOK
<1>1. PagesShow => WebTypeOK
  BY PagesShowEnough
<1> QED
  BY <1>1, PagesShowInit, PagesShowStep, PTL DEF WebSpec

(* Once the run page stops polling it shows the run as it ended, with all of its
   log lines, whatever overlaps, unless a request failed or a button was answered
   while the loop read the row. *)
THEOREM EndedRunIsShown == WebSpec => []EndedRunIsComplete
<1> DEFINE Inv == page = "run" => RunKnows
<1>1. WebInit => Inv
  BY RunKnowsInit DEF WebInit
<1>2. Inv /\ [WebNext]_webVars => Inv'
  <2> SUFFICES ASSUME Inv, [WebNext]_webVars, page' = "run" PROVE RunKnows'
    OBVIOUS
  <2>1. CASE UNCHANGED webVars
    BY <2>1, RunKnowsSame DEF webVars
  <2>2. CASE WebNext
    <3>1. page = "run" /\ OnRun!Next
      BY <2>2 DEF WebNext, PageNext
    <3> QED
      BY <3>1, RunKnowsStep
  <2> QED
    BY <2>1, <2>2
<1>3. Inv => EndedRunIsComplete
  BY DEF EndedRunIsComplete, OnRun!EndedRunIsComplete, RunKnows, RunRead, RunEnds, LastTick, KnowsEnd
<1> QED
  BY <1>1, <1>2, <1>3, PTL DEF WebSpec

------------------------------------------------------------------------------
(* The diagram designer *)

\* What the page has of a diagram, and each of its requests.
DesignerShape ==
  /\ {"design", "name", "loaded", "save", "timer", "tab", "deleting", "closing", "minted", "saves", "deleted"}
       \subseteq DOMAIN ui
  /\ {"doc", "had"} \subseteq DOMAIN srv /\ ui.saves \in Nat
  /\ \A k \in DOMAIN net : {"arg", "stage", "got"} \subseteq DOMAIN net[k]

OnScreen == [name |-> ui.name, design |-> ui.design]
SavesOut == DOMAIN net \cap OnDesigner!SaveKeys

\* A diagram that is not there yet is not saved.
NothingToSave == ~ui.timer /\ ui.save = "idle" /\ SavesOut = {}

\* One save at a time stores, unless the timer runs, what is on the screen, and
\* once it has answered the server has it.
SavesTell ==
  "overlap" \notin noise =>
    /\ \A j, k \in SavesOut : j = k
    /\ ~ui.timer => \A k \in SavesOut : net[k].arg = OnScreen
    /\ \A k \in SavesOut : net[k].stage = "answered" => srv.doc = net[k].arg
    /\ ui.save = "saved" /\ ~ui.timer /\ SavesOut = {} => srv.doc = OnScreen

DesignerClean ==
  /\ DesignerShape /\ SavesTell /\ OnDesigner!SavingIsUnderWay
  /\ ~ui.loaded => NothingToSave

\* It holds when the page opens.
LEMMA DesignerInit == OnDesigner!Init => DesignerClean
<1> SUFFICES ASSUME OnDesigner!Init PROVE DesignerClean
  OBVIOUS
<1>1. /\ DOMAIN net = {"get"} /\ DOMAIN net["get"] = {"arg", "stage", "got"}
      /\ ~ui.timer /\ ui.save = "idle" /\ ui.saves = 0
  <2>1. net = OnDesigner!With(<<>>, "get", {})
    BY DEF OnDesigner!Init
  <2>2. DOMAIN net = {"get"} /\ DOMAIN net["get"] = {"arg", "stage", "got"}
    BY <2>1 DEF OnDesigner!With
  <2>3. ~ui.timer /\ ui.save = "idle" /\ ui.saves = 0
    BY DEF OnDesigner!Init
  <2> QED
    BY <2>2, <2>3
<1>2. SavesOut = {}
  BY <1>1, DesignerAssumption DEF SavesOut
<1>3. DesignerShape
  BY <1>1 DEF OnDesigner!Init, DesignerShape
<1> QED
  BY <1>1, <1>2, <1>3 DEF DesignerClean, SavesTell, NothingToSave, OnDesigner!SavingIsUnderWay

\* What the page remembers beside the diagram, its saving and its name does not
\* matter.
LEMMA DesignerSame ==
  ASSUME DesignerClean, net' = net, srv' = srv, noise \subseteq noise', DOMAIN ui' = DOMAIN ui,
         ui'.name = ui.name, ui'.design = ui.design, ui'.loaded = ui.loaded,
         ui'.save = ui.save, ui'.timer = ui.timer, ui'.saves = ui.saves
  PROVE  DesignerClean'
<1>1. SavesOut' = SavesOut /\ OnScreen' = OnScreen
  BY DEF SavesOut, OnScreen
<1> QED
  BY <1>1 DEF DesignerClean, DesignerShape, SavesTell, NothingToSave, OnDesigner!SavingIsUnderWay, OnDesigner!Out

\* A change starts the timer, of a diagram that is there.
LEMMA DesignerChanges ==
  ASSUME DesignerClean, srv' = srv, noise \subseteq noise', NEW u, ui' = OnDesigner!Changed(u),
         DOMAIN u = DOMAIN ui, u.saves = ui.saves,
         \A k \in DOMAIN net' : k \in DOMAIN net /\ net'[k] = net[k],
         u.loaded \/ (u.loaded = ui.loaded /\ u.save = ui.save /\ u.timer = ui.timer)
  PROVE  DesignerClean'
<1>1. /\ DOMAIN ui' = DOMAIN ui /\ ui'.loaded = u.loaded /\ ui'.saves = ui.saves
      /\ IF u.loaded THEN ui'.save = "saving" /\ ui'.timer = TRUE ELSE ui'.save = u.save /\ ui'.timer = u.timer
  BY DEF OnDesigner!Changed, DesignerClean, DesignerShape
<1>2. SavesOut' \subseteq SavesOut
  BY DEF SavesOut
<1>3. DesignerShape'
  BY <1>1 DEF DesignerClean, DesignerShape
<1>4. \A k \in SavesOut' : k \in SavesOut /\ net'[k] = net[k]
  BY <1>2 DEF SavesOut
<1>5. CASE u.loaded
  BY <1>1, <1>3, <1>4, <1>5 DEF DesignerClean, SavesTell, NothingToSave, OnDesigner!SavingIsUnderWay
<1>6. CASE ~u.loaded
  <2>1. ~ui'.timer /\ ui'.save = "idle" /\ SavesOut' = {}
    BY <1>1, <1>2, <1>6 DEF DesignerClean, NothingToSave
  <2> QED
    BY <1>3, <2>1 DEF DesignerClean, SavesTell, NothingToSave, OnDesigner!SavingIsUnderWay
<1> QED
  BY <1>5, <1>6

\* The diagram is read, or is not.
LEMMA DesignerLoads == DesignerClean /\ OnDesigner!LoadBack => DesignerClean'
<1> SUFFICES ASSUME DesignerClean, OnDesigner!LoadBack PROVE DesignerClean'
  OBVIOUS
<1> DEFINE u == IF OnDesigner!Answered("get")
                THEN [ui EXCEPT !.design = net["get"].got.design, !.name = net["get"].got.name, !.loaded = TRUE]
                ELSE [ui EXCEPT !.design = OnDesigner!Empty, !.loaded = TRUE]
<1>1. ui' = OnDesigner!Changed(u) /\ net' = OnDesigner!Closed("get") /\ srv' = srv /\ noise \subseteq noise'
  BY DEF OnDesigner!LoadBack
<1>2. DOMAIN u = DOMAIN ui /\ u.loaded /\ u.saves = ui.saves
  BY DEF DesignerClean, DesignerShape
<1>3. \A k \in DOMAIN net' : k \in DOMAIN net /\ net'[k] = net[k]
  BY <1>1 DEF OnDesigner!Closed, OnDesigner!Without, OnDesigner!Restrict
<1> HIDE DEF u
<1> QED
  BY <1>1, <1>2, <1>3, DesignerChanges

\* The timer sends what is on the screen.
LEMMA DesignerSends == DesignerClean /\ OnDesigner!TimerRunsOut => DesignerClean'
<1> SUFFICES ASSUME DesignerClean, OnDesigner!TimerRunsOut PROVE DesignerClean'
  OBVIOUS
<1> DEFINE n == ui.saves + 1
           k == OnDesigner!Named("save", n)
           a == OnScreen
<1>1. /\ ui.timer /\ ui.saves < Bound.saves /\ srv' = srv /\ net' = OnDesigner!With(net, k, a)
      /\ ui' = [ui EXCEPT !.timer = FALSE, !.saves = @ + 1]
      /\ noise \subseteq noise' /\ ("overlap" \notin noise' => \A j \in OnDesigner!SaveKeys : ~OnDesigner!Out(j))
  BY DEF OnDesigner!TimerRunsOut, OnDesigner!Sent, OnScreen
<1>2. k \in OnDesigner!SaveKeys
  <2>1. n \in 1..Bound.saves
    BY <1>1, DesignerAssumption DEF DesignerClean, DesignerShape
  <2> HIDE DEF n
  <2> QED
    BY <2>1 DEF OnDesigner!SaveKeys
<1>3. /\ DOMAIN ui' = DOMAIN ui /\ ~ui'.timer /\ ui'.save = ui.save /\ ui'.loaded = ui.loaded
      /\ ui'.saves = ui.saves + 1 /\ ui'.name = ui.name /\ ui'.design = ui.design
  BY <1>1 DEF DesignerClean, DesignerShape
<1> HIDE DEF n, k, a
<1>4. /\ DOMAIN net' = DOMAIN net \cup {k} /\ net'[k].stage = "sent" /\ net'[k].arg = a
      /\ DOMAIN net'[k] = {"arg", "stage", "got"} /\ \A j \in DOMAIN net : j # k => net'[j] = net[j]
  BY <1>1 DEF OnDesigner!With
<1>5. DesignerShape'
  BY <1>1, <1>3, <1>4 DEF DesignerClean, DesignerShape
<1>6. k \in SavesOut' /\ OnScreen' = a
  BY <1>2, <1>3, <1>4 DEF SavesOut, OnScreen, a
<1>7. SavesTell'
  <2> SUFFICES ASSUME "overlap" \notin noise' PROVE SavesTell'
    BY DEF SavesTell
  <2>1. SavesOut' = {k}
    BY <1>1, <1>4, <1>6 DEF SavesOut, OnDesigner!Out
  <2> QED
    BY <1>4, <1>6, <2>1 DEF SavesTell
<1> QED
  BY <1>1, <1>2, <1>3, <1>4, <1>5, <1>7 DEF DesignerClean, NothingToSave, OnDesigner!SavingIsUnderWay, OnDesigner!Out

\* A save is answered.
LEMMA DesignerSaved == ASSUME NEW k \in OnDesigner!SaveKeys PROVE DesignerClean /\ OnDesigner!SaveBack(k) => DesignerClean'
<1> SUFFICES ASSUME DesignerClean, OnDesigner!SaveBack(k) PROVE DesignerClean'
  OBVIOUS
<1>1. /\ srv' = srv /\ noise' = noise /\ net' = OnDesigner!Closed(k) /\ k \in SavesOut
      /\ DOMAIN ui' = DOMAIN ui /\ ui'.name = ui.name /\ ui'.design = ui.design /\ ui'.loaded = ui.loaded
      /\ ui'.timer = ui.timer /\ ui'.saves = ui.saves
      /\ ui'.save = IF OnDesigner!Answered(k) THEN "saved" ELSE "idle"
  BY DEF OnDesigner!SaveBack, OnDesigner!Returned, OnDesigner!Answered, OnDesigner!Rejected, OnDesigner!Out,
         DesignerClean, DesignerShape, SavesOut
<1>2. \A j \in DOMAIN net' : j \in DOMAIN net /\ net'[j] = net[j]
  BY <1>1 DEF OnDesigner!Closed, OnDesigner!Without, OnDesigner!Restrict
<1>3. SavesOut' \subseteq SavesOut /\ OnScreen' = OnScreen
  BY <1>1, <1>2 DEF SavesOut, OnScreen
<1>4. ui.loaded
  BY <1>1 DEF DesignerClean, NothingToSave
<1>5. DesignerShape'
  BY <1>1, <1>2 DEF DesignerClean, DesignerShape
<1>6. SavesTell'
  <2> SUFFICES ASSUME "overlap" \notin noise PROVE SavesTell'
    BY <1>1 DEF SavesTell
  <2>1. ui'.save = "saved" /\ ~ui'.timer => srv.doc = OnScreen
    BY <1>1 DEF DesignerClean, SavesTell, OnDesigner!Answered
  <2>2. \A j \in SavesOut' : j \in SavesOut /\ net'[j] = net[j]
    BY <1>2, <1>3 DEF SavesOut
  <2> QED
    BY <1>1, <1>3, <2>1, <2>2 DEF DesignerClean, SavesTell
<1> QED
  BY <1>1, <1>4, <1>5, <1>6 DEF DesignerClean, OnDesigner!SavingIsUnderWay

\* The server handles a request, or it is refused.
LEMMA DesignerServes ==
  DesignerClean /\ (OnDesigner!Serve \/ \E k \in DOMAIN net : OnDesigner!Breaks(k)) => DesignerClean'
<1>0. ASSUME DesignerClean, NEW k \in DOMAIN net, ui' = ui, noise' = noise, DOMAIN net' = DOMAIN net,
             \A j \in DOMAIN net : j # k => net'[j] = net[j],
             net'[k].arg = net[k].arg, DOMAIN net'[k] = DOMAIN net[k],
             DOMAIN srv' = DOMAIN srv,
             k \in SavesOut /\ net'[k].stage = "answered" => srv'.doc = net[k].arg,
             srv'.doc = srv.doc \/ (k \in SavesOut /\ net'[k].stage = "answered")
      PROVE  DesignerClean'
  <2>1. SavesOut' = SavesOut /\ OnScreen' = OnScreen
    BY <1>0 DEF SavesOut, OnScreen
  <2>2. DesignerShape'
    BY <1>0 DEF DesignerClean, DesignerShape
  <2>3. SavesTell'
    <3> SUFFICES ASSUME "overlap" \notin noise PROVE SavesTell'
      BY <1>0 DEF SavesTell
    <3>1. \A j \in SavesOut : net'[j].arg = net[j].arg
      BY <1>0 DEF SavesOut
    <3>2. \A j \in SavesOut : j # k => net'[j] = net[j]
      BY <1>0 DEF SavesOut
    <3>3. \A i, j \in SavesOut : i = j
      BY <1>0 DEF DesignerClean, SavesTell
    <3>4. \A j \in SavesOut : net'[j].stage = "answered" => srv'.doc = net'[j].arg
      <4> SUFFICES ASSUME NEW j \in SavesOut, net'[j].stage = "answered" PROVE srv'.doc = net[j].arg
        BY <3>1
      <4>1. CASE j = k
        BY <1>0, <4>1
      <4>2. CASE j # k
        <5>1. k \notin SavesOut /\ net'[j] = net[j]
          BY <3>2, <3>3, <4>2
        <5> QED
          BY <1>0, <5>1 DEF DesignerClean, SavesTell
      <4> QED
        BY <4>1, <4>2
    <3> QED
      BY <1>0, <2>1, <3>1, <3>3, <3>4 DEF DesignerClean, SavesTell
  <2> QED
    BY <1>0, <2>1, <2>2, <2>3 DEF DesignerClean, NothingToSave, OnDesigner!SavingIsUnderWay, OnDesigner!Out
<1> SUFFICES ASSUME DesignerClean, OnDesigner!Serve \/ \E k \in DOMAIN net : OnDesigner!Breaks(k)
             PROVE  DesignerClean'
  OBVIOUS
<1>1. \A k \in DOMAIN net : {"arg", "stage", "got"} \subseteq DOMAIN net[k]
  BY DEF DesignerClean, DesignerShape
<1>2. CASE OnDesigner!Handles("get", srv, srv.doc)
  <2>1. "get" \notin SavesOut
    BY DesignerAssumption DEF SavesOut
  <2> QED
    BY <1>0, <1>1, <1>2, <2>1 DEF OnDesigner!Handles, OnDesigner!Out
<1>3. ASSUME NEW k \in DOMAIN net \cap OnDesigner!SaveKeys, OnDesigner!Handles(k, [srv EXCEPT !.doc = net[k].arg], {})
      PROVE  DesignerClean'
  <2>1. k \in SavesOut /\ DOMAIN srv' = DOMAIN srv /\ srv'.doc = net[k].arg
    BY <1>3 DEF SavesOut, OnDesigner!Handles, DesignerClean, DesignerShape
  <2>2. /\ ui' = ui /\ noise' = noise /\ DOMAIN net' = DOMAIN net
        /\ \A j \in DOMAIN net : j # k => net'[j] = net[j]
        /\ net'[k].arg = net[k].arg /\ DOMAIN net'[k] = DOMAIN net[k] /\ net'[k].stage = "answered"
    BY <1>1, <1>3 DEF OnDesigner!Handles, OnDesigner!Out
  <2> QED
    BY <1>0, <2>1, <2>2
<1>4. ASSUME NEW k \in DOMAIN net, OnDesigner!Breaks(k) PROVE DesignerClean'
  <2>1. /\ ui' = ui /\ srv' = srv /\ noise' = noise /\ DOMAIN net' = DOMAIN net
        /\ \A j \in DOMAIN net : j # k => net'[j] = net[j]
        /\ net'[k].arg = net[k].arg /\ DOMAIN net'[k] = DOMAIN net[k] /\ net'[k].stage = "failed"
    BY <1>1, <1>4 DEF OnDesigner!Breaks, OnDesigner!Fails, OnDesigner!Out
  <2> QED
    BY <1>0, <2>1
<1> QED
  BY <1>2, <1>3, <1>4 DEF OnDesigner!Serve

\* What the user does to the diagram changes it, or something else of the page.
LEMMA DesignerEdits == DesignerClean /\ OnDesigner!Edits => DesignerClean'
<1> SUFFICES ASSUME DesignerClean, OnDesigner!Edits PROVE DesignerClean'
  OBVIOUS
<1>0. {"design", "name", "loaded", "save", "timer", "tab", "deleting", "closing", "minted", "saves", "deleted"} \subseteq DOMAIN ui
  BY DEF DesignerClean, DesignerShape
<1>1. ASSUME NEW u, ui' = OnDesigner!Changed(u), net' = net, srv' = srv, noise \subseteq noise',
             DOMAIN u = DOMAIN ui, u.loaded = ui.loaded, u.save = ui.save, u.timer = ui.timer, u.saves = ui.saves
      PROVE  DesignerClean'
  BY <1>1, DesignerChanges
<1>2. ASSUME NEW d, OnDesigner!Gesture, noise \subseteq noise', OnDesigner!Edit(d) PROVE DesignerClean'
  <2> DEFINE u == [ui EXCEPT !.design = d]
  <2>1. ui' = OnDesigner!Changed(u) /\ net' = net /\ srv' = srv
    BY <1>2 DEF OnDesigner!Edit, OnDesigner!Gesture
  <2>2. DOMAIN u = DOMAIN ui /\ u.loaded = ui.loaded /\ u.save = ui.save /\ u.timer = ui.timer /\ u.saves = ui.saves
    BY <1>0
  <2> HIDE DEF u
  <2> QED
    BY <1>1, <1>2, <2>1, <2>2
<1>3. ASSUME NEW d, NEW n, OnDesigner!Gesture, noise \subseteq noise', OnDesigner!Minting(d, n) PROVE DesignerClean'
  <2> DEFINE u == [ui EXCEPT !.design = d, !.minted = @ + n]
  <2>1. ui' = OnDesigner!Changed(u) /\ net' = net /\ srv' = srv
    BY <1>3 DEF OnDesigner!Minting, OnDesigner!Gesture
  <2>2. DOMAIN u = DOMAIN ui /\ u.loaded = ui.loaded /\ u.save = ui.save /\ u.timer = ui.timer /\ u.saves = ui.saves
    BY <1>0
  <2> HIDE DEF u
  <2> QED
    BY <1>1, <1>3, <2>1, <2>2
<1>4. CASE OnDesigner!Touch
  BY <1>2, <1>4 DEF OnDesigner!Touch
<1>5. CASE \/ OnDesigner!Drag \/ OnDesigner!Resize \/ OnDesigner!Layout \/ OnDesigner!EditTable \/ OnDesigner!EditRelation
           \/ OnDesigner!EditShape \/ OnDesigner!CommitAreaRename
  BY <1>4, <1>5 DEF OnDesigner!Drag, OnDesigner!Resize, OnDesigner!Layout, OnDesigner!EditTable, OnDesigner!EditRelation,
                    OnDesigner!EditShape, OnDesigner!CommitAreaRename
<1>6. CASE OnDesigner!OnAddTable
  BY <1>3, <1>6 DEF OnDesigner!OnAddTable
<1>7. CASE OnDesigner!AddShape \/ OnDesigner!DeleteShape
  BY <1>2, <1>7 DEF OnDesigner!AddShape, OnDesigner!DeleteShape
<1>8. CASE OnDesigner!Clear
  <2> DEFINE u == [ui EXCEPT !.design = OnDesigner!Empty, !.deleted = @ \cup OnDesigner!Tables(ui.design)]
  <2>1. ui' = OnDesigner!Changed(u) /\ net' = net /\ srv' = srv /\ noise' = noise
    BY <1>8 DEF OnDesigner!Clear, OnDesigner!Gesture
  <2>2. DOMAIN u = DOMAIN ui /\ u.loaded = ui.loaded /\ u.save = ui.save /\ u.timer = ui.timer /\ u.saves = ui.saves
    BY <1>0
  <2> HIDE DEF u
  <2> QED
    BY <1>1, <2>1, <2>2
<1>9. CASE OnDesigner!RenameDiagram
  <2> DEFINE u == [ui EXCEPT !.name = IF @ = "" THEN "Untitled" ELSE "other"]
  <2>1. ui' = OnDesigner!Changed(u) /\ net' = net /\ srv' = srv /\ noise' = noise
    BY <1>9 DEF OnDesigner!RenameDiagram, OnDesigner!Gesture
  <2>2. DOMAIN u = DOMAIN ui /\ u.loaded = ui.loaded /\ u.save = ui.save /\ u.timer = ui.timer /\ u.saves = ui.saves
    BY <1>0
  <2> HIDE DEF u
  <2> QED
    BY <1>1, <2>1, <2>2
<1>10. CASE OnDesigner!ImportTables
  BY <1>3, <1>10 DEF OnDesigner!ImportTables
<1>11. ASSUME NEW tabbed \in BOOLEAN, OnDesigner!ImportFile(tabbed) PROVE DesignerClean'
  <2>1. PICK all, n : /\ ui' = OnDesigner!Changed([ui EXCEPT !.design = all, !.minted = @ + n, !.tab = OnDesigner!NoTab])
                      /\ net' = net /\ srv' = srv /\ noise \subseteq noise'
    BY <1>11 DEF OnDesigner!ImportFile, OnDesigner!Gesture
  <2> DEFINE u == [ui EXCEPT !.design = all, !.minted = @ + n, !.tab = OnDesigner!NoTab]
  <2>2. DOMAIN u = DOMAIN ui /\ u.loaded = ui.loaded /\ u.save = ui.save /\ u.timer = ui.timer /\ u.saves = ui.saves
    BY <1>0
  <2>3. ui' = OnDesigner!Changed(u)
    BY <2>1
  <2> HIDE DEF u
  <2> QED
    BY <1>1, <2>1, <2>2, <2>3
<1>12. ASSUME NEW t, NEW v, OnDesigner!Connect(t, v) PROVE DesignerClean'
  BY <1>2, <1>12 DEF OnDesigner!Connect
<1>13. ASSUME NEW t, OnDesigner!Duplicate(t) PROVE DesignerClean'
  <2>1. noise \subseteq noise'
    BY <1>13 DEF OnDesigner!Duplicate
  <2> QED
    BY <1>3, <1>13, <2>1 DEF OnDesigner!Duplicate
<1>14. ASSUME NEW t, OnDesigner!RenameTable(t) PROVE DesignerClean'
  BY <1>2, <1>14 DEF OnDesigner!RenameTable
<1>15. ASSUME NEW t, NEW c, OnDesigner!RenameColumn(t, c) PROVE DesignerClean'
  BY <1>2, <1>15 DEF OnDesigner!RenameColumn
<1>16. ASSUME NEW t, NEW c, OnDesigner!DropColumn(t, c) PROVE DesignerClean'
  <2>1. noise \subseteq noise'
    BY <1>16 DEF OnDesigner!DropColumn
  <2> QED
    BY <1>2, <1>16, <2>1 DEF OnDesigner!DropColumn
<1> QED
  BY <1>5, <1>6, <1>7, <1>8, <1>9, <1>10, <1>11, <1>12, <1>13, <1>14, <1>15, <1>16 DEF OnDesigner!Edits

\* So do deletions and tabs.
LEMMA DesignerDeletes == DesignerClean /\ OnDesigner!Deletes => DesignerClean'
<1> SUFFICES ASSUME DesignerClean, OnDesigner!Deletes PROVE DesignerClean'
  OBVIOUS
<1>0. {"design", "name", "loaded", "save", "timer", "tab", "deleting", "closing", "minted", "saves", "deleted"} \subseteq DOMAIN ui
  BY DEF DesignerClean, DesignerShape
<1>1. ASSUME NEW u, ui' = OnDesigner!Changed(u), net' = net, srv' = srv, noise' = noise,
             DOMAIN u = DOMAIN ui, u.loaded = ui.loaded, u.save = ui.save, u.timer = ui.timer, u.saves = ui.saves
      PROVE  DesignerClean'
  BY <1>1, DesignerChanges
<1>2. CASE OnDesigner!ConfirmDelete
  <2>1. PICK d, g : /\ ui' = OnDesigner!Changed([ui EXCEPT !.design = d, !.deleting = OnDesigner!NoDelete, !.deleted = @ \cup g])
                    /\ net' = net /\ srv' = srv /\ noise' = noise
    BY <1>2 DEF OnDesigner!ConfirmDelete
  <2> DEFINE u == [ui EXCEPT !.design = d, !.deleting = OnDesigner!NoDelete, !.deleted = @ \cup g]
  <2>2. DOMAIN u = DOMAIN ui /\ u.loaded = ui.loaded /\ u.save = ui.save /\ u.timer = ui.timer /\ u.saves = ui.saves
    BY <1>0
  <2>3. ui' = OnDesigner!Changed(u)
    BY <2>1
  <2> HIDE DEF u
  <2> QED
    BY <1>1, <2>1, <2>2, <2>3
<1>3. CASE OnDesigner!ConfirmClose
  <2> DEFINE u == [ui EXCEPT !.design = OnDesigner!Closing(@, ui.closing), !.closing = OnDesigner!NoTab, !.tab = OnDesigner!NoTab,
                             !.deleted = @ \cup OnDesigner!Announced(ui.design, ui.closing)]
  <2>1. ui' = OnDesigner!Changed(u) /\ net' = net /\ srv' = srv /\ noise' = noise
    BY <1>3 DEF OnDesigner!ConfirmClose
  <2>2. DOMAIN u = DOMAIN ui /\ u.loaded = ui.loaded /\ u.save = ui.save /\ u.timer = ui.timer /\ u.saves = ui.saves
    BY <1>0
  <2> HIDE DEF u
  <2> QED
    BY <1>1, <2>1, <2>2
<1>4. CASE OnDesigner!AddArea
  <2> DEFINE u == [ui EXCEPT !.design.areas = Append(@, [id |-> OnDesigner!NextArea(ui.design), tables |-> {}]),
                             !.tab = OnDesigner!NextArea(ui.design)]
  <2>1. ui' = OnDesigner!Changed(u) /\ net' = net /\ srv' = srv /\ noise' = noise
    BY <1>4 DEF OnDesigner!AddArea, OnDesigner!Gesture
  <2>2. DOMAIN u = DOMAIN ui /\ u.loaded = ui.loaded /\ u.save = ui.save /\ u.timer = ui.timer /\ u.saves = ui.saves
    BY <1>0
  <2> HIDE DEF u
  <2> QED
    BY <1>1, <2>1, <2>2
<1>5. CASE OnDesigner!LeaveDialog
  BY <1>0, <1>5, DesignerSame DEF OnDesigner!LeaveDialog
<1>6. CASE OnDesigner!AskClose
  BY <1>0, <1>6, DesignerSame DEF OnDesigner!AskClose, OnDesigner!Gesture
<1>7. ASSUME NEW id, OnDesigner!OpenTab(id) PROVE DesignerClean'
  BY <1>0, <1>7, DesignerSame DEF OnDesigner!OpenTab, OnDesigner!Gesture
<1>8. ASSUME NEW id, OnDesigner!JumpTo(id) PROVE DesignerClean'
  <2>1. PICK tab : ui' = [ui EXCEPT !.tab = tab] /\ net' = net /\ srv' = srv /\ noise' = noise
    BY <1>8 DEF OnDesigner!JumpTo, OnDesigner!Gesture
  <2> QED
    BY <1>0, <2>1, DesignerSame
<1>9. ASSUME NEW n, NEW e, OnDesigner!AskDelete(n, e) PROVE DesignerClean'
  <2>1. PICK r : ui' = [ui EXCEPT !.deleting = r] /\ net' = net /\ srv' = srv /\ noise' = noise
    BY <1>9 DEF OnDesigner!AskDelete, OnDesigner!Gesture
  <2> QED
    BY <1>0, <2>1, DesignerSame
<1> QED
  BY <1>2, <1>3, <1>4, <1>5, <1>6, <1>7, <1>8, <1>9 DEF OnDesigner!Deletes

\* Every step of the page keeps it.
LEMMA DesignerStep == DesignerClean /\ OnDesigner!Next => DesignerClean'
  BY DesignerLoads, DesignerSends, DesignerSaved, DesignerServes, DesignerEdits, DesignerDeletes DEF OnDesigner!Next

(* A page that says nothing is unsaved shows what is stored: the pipeline editor
   and the diagram designer, with the exceptions they name. *)
THEOREM CleanIsShown == WebSpec => []CleanShowsStored
<1> DEFINE Inv == /\ page = "editor" => IInv /\ CleanInv
                  /\ page = "designer" => DesignerClean
<1>1. WebInit => Inv
  BY InitInvariant, CleanInit, DesignerInit DEF WebInit
<1>2. Inv /\ [WebNext]_webVars => Inv'
  <2> SUFFICES ASSUME Inv, [WebNext]_webVars PROVE Inv'
    OBVIOUS
  <2>1. CASE UNCHANGED webVars
    <3>1. page' = page /\ UNCHANGED vars /\ UNCHANGED browser
      BY <2>1 DEF webVars
    <3>2. page = "editor" => IInv' /\ CleanInv'
      BY <3>1, StepFacts, CleanStep
    <3>3. page = "designer" => DesignerClean'
      BY <3>1, DesignerSame DEF browser
    <3> QED
      BY <3>1, <3>2, <3>3
  <2>2. CASE WebNext
    <3>1. page' = page
      BY <2>2 DEF WebNext
    <3>2. page = "editor" => IInv' /\ CleanInv'
      <4>1. page = "editor" => [Next]_vars
        BY <2>2 DEF WebNext
      <4> QED
        BY <4>1, StepFacts, CleanStep
    <3>3. page = "designer" => DesignerClean'
      <4>1. page = "designer" => OnDesigner!Next
        BY <2>2 DEF WebNext, PageNext
      <4> QED
        BY <4>1, DesignerStep
    <3> QED
      BY <3>1, <3>2, <3>3
  <2> QED
    BY <2>1, <2>2
<1>3. Inv => CleanShowsStored
  <2>1. DesignerClean => OnDesigner!SavedIsStored
    BY DEF DesignerClean, SavesTell, SavesOut, OnScreen, OnDesigner!SavedIsStored, OnDesigner!Quiet
  <2> QED
    BY <2>1, CleanEnough DEF CleanShowsStored, DesignerClean
<1> QED
  BY <1>1, <1>2, <1>3, PTL DEF WebSpec

(* What the user of the builder sees of undo and redo is UndoStack, with every
   step of the client. *)
THEOREM UndoIsAsPromised == WebSpec => UndoAsPromised
<1> DEFINE Inv == page = "editor" => IInv
<1>1. WebInit => Inv /\ Abstract!Init
  <2> SUFFICES ASSUME WebInit PROVE Inv /\ Abstract!Init
    OBVIOUS
  <2>1. history = NoHistory
    BY DEF WebInit, Init, NoEditor
  <2>2. history.stack = <<>> /\ history.index = -1 /\ screen = NoGraph
    BY <2>1 DEF NoHistory, screen, Shown
  <2>3. SubSeq(<<>>, 1, -1) = <<>> /\ SubSeq(<<>>, -1 + 2, Len(<<>>)) = <<>>
    BY SubSeqEmpty, EmptySeq
  <2>4. Abstract!Init
    BY <2>2, <2>3 DEF Abstract!Init
  <2> QED
    BY <2>4, InitInvariant DEF WebInit
<1>2. Inv /\ [WebNext]_webVars => Inv' /\ (page = "editor" => [Abstract!Next]_(Abstract!vars))
  <2> SUFFICES ASSUME Inv, [WebNext]_webVars PROVE Inv' /\ (page = "editor" => [Abstract!Next]_(Abstract!vars))
    OBVIOUS
  <2>1. page' = page /\ (page = "editor" => [Next]_vars)
    BY DEF WebNext, webVars
  <2> QED
    BY <2>1, StepFacts
<1> QED
  BY <1>1, <1>2, PTL DEF WebSpec, UndoAsPromised
=============================================================================

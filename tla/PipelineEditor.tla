--------------------------- MODULE PipelineEditor ---------------------------
(***************************************************************************)
(* The pipeline editor page (app/w/[slug]/pipelines/[id]/edit/page.tsx):    *)
(* loading, editing, saving and running one pipeline against the server.    *)
(* A graph, the settings of the side panel and the downstream triggers are  *)
(* values of small sets.  The page saves the configuration and then the     *)
(* triggers, in two requests; what it calls unsaved is `metaDirty` or a     *)
(* history index other than the one of the last load or save.               *)
(***************************************************************************)
EXTENDS GraphHistory, FiniteSets

CONSTANTS Graphs,       \* graphs, as contents
          Invalid,      \* the ones validateGraphStructured finds issues in
          Settings,     \* retry, dead letters, variables, freshness: one value
          Defaults,     \* the settings the page starts with
          Triggers,     \* sets of downstream pipelines
          NoTriggers,   \* the empty one: the page's initial value
          Saves,        \* save requests that may be under way together
          MaxEdits,     \* bound: commits of one behaviour
          MaxVersions,  \* bound: configurations saved
          MaxLoads      \* bound: times the page loads (open, change language)

ASSUME EditorAssumption ==
  /\ NoGraph \notin Graphs /\ Invalid \subseteq Graphs
  /\ NoTriggers \in Triggers /\ Defaults \in Settings /\ MaxEdits \in Nat

None == -1      \* savedGraphIndex is null; also: no version

VARIABLES
  history,    \* useGraphHistory
  settings, triggers,
  saved,      \* savedGraphIndex
  metaDirty,
  pipeline,   \* version of the loaded row, None until the row is there
  loading,    \* where the load effect is: "get", "triggers", "idle", "failed"
  save,       \* the saves under way: what each closed over, and its stage
  server,     \* the stored pipeline
  edits, loads,
  stale       \* ghost: something happened that the badge cannot see

pageVars == <<history, settings, triggers, saved, metaDirty, pipeline>>
vars == <<pageVars, loading, save, server, edits, loads, stale>>

NoSave == [stage |-> "none"]
SaveStages == {"config", "triggers"}
SaveRecord ==
  [stage : SaveStages, graph : Graphs, settings : Settings, triggers : Triggers,
   index : Nat, arrived : BOOLEAN, version : Nat]

screen == Shown(history)
Busy == \E s \in Saves : save[s] # NoSave

Init ==
  /\ server \in [graph : Graphs \ Invalid, settings : Settings, triggers : Triggers, version : {1}]
  /\ history = NoHistory /\ settings = Defaults /\ triggers = NoTriggers
  /\ saved = None /\ metaDirty = FALSE /\ pipeline = None
  /\ loading = "get" /\ save = [s \in Saves |-> NoSave]
  /\ edits = 0 /\ loads = 1 /\ stale = FALSE

------------------------------------------------------------------------------
(* Loading *)

\* The three lists are there: the row, its settings and its graph are shown.
LoadRow ==
  /\ loading = "get"
  /\ pipeline' = server.version
  /\ settings' = server.settings
  /\ history' = SetInitial(server.graph)
  /\ loading' = "triggers"
  /\ UNCHANGED <<triggers, saved, metaDirty, save, server, edits, loads, stale>>

\* The triggers follow; a failure to read them is passed over.  Either way
\* the load is now called the saved state, whatever was edited since LoadRow.
LoadTriggers(ok) ==
  /\ loading = "triggers"
  /\ triggers' = IF ok THEN server.triggers ELSE triggers
  /\ saved' = 0 /\ metaDirty' = FALSE
  /\ loading' = "idle"
  /\ stale' = \/ ~ok \/ Busy
              \/ history # SetInitial(server.graph) \/ settings # server.settings
  /\ UNCHANGED <<history, settings, pipeline, save, server, edits, loads>>

LoadFails ==
  /\ loading = "get" /\ loading' = "failed"
  /\ UNCHANGED <<pageVars, save, server, edits, loads, stale>>

\* The load effect depends on the translation function: choosing another
\* language loads the page again, over what is on it.
ChangeLanguage ==
  /\ loads < MaxLoads /\ loads' = loads + 1
  /\ loading' = "get"
  /\ stale' = (stale \/ Busy \/ loading = "triggers")
  /\ UNCHANGED <<pageVars, save, server, edits>>

------------------------------------------------------------------------------
(* Editing *)

\* A commit overwrites the saved snapshot when it truncates the stack below
\* it, and moves it when the stack is full.
MovesSaved == history.index < saved \/ history.index = Capacity - 1

EditGraph(g) ==
  /\ screen # NoGraph /\ edits < MaxEdits
  /\ history' = Commit(history, g)
  /\ edits' = edits + 1
  /\ stale' = (stale \/ Busy \/ MovesSaved)
  /\ UNCHANGED <<settings, triggers, saved, metaDirty, pipeline, loading, save, server, loads>>

\* Mutant: a change of the settings is not called unsaved.
EditSettings_Clean(s) ==
  /\ screen # NoGraph /\ s # settings
  /\ settings' = s
  /\ stale' = (stale \/ Busy)
  /\ UNCHANGED <<history, triggers, saved, metaDirty, pipeline, loading, save, server, edits, loads>>

EditSettings(s) ==
  /\ screen # NoGraph /\ s # settings
  /\ settings' = s /\ metaDirty' = TRUE
  /\ stale' = (stale \/ Busy)
  /\ UNCHANGED <<history, triggers, saved, pipeline, loading, save, server, edits, loads>>

EditTriggers(ts) ==
  /\ screen # NoGraph /\ ts # triggers
  /\ triggers' = ts /\ metaDirty' = TRUE
  /\ stale' = (stale \/ Busy)
  /\ UNCHANGED <<history, settings, saved, pipeline, loading, save, server, edits, loads>>

StepBack ==
  /\ CanUndo(history) /\ history' = Undo(history)
  /\ UNCHANGED <<settings, triggers, saved, metaDirty, pipeline, loading, save, server, edits, loads, stale>>

StepForward ==
  /\ CanRedo(history) /\ history' = Redo(history)
  /\ UNCHANGED <<settings, triggers, saved, metaDirty, pipeline, loading, save, server, edits, loads, stale>>

Dirty == metaDirty \/ (saved # None /\ saved # history.index)

------------------------------------------------------------------------------
(* Saving: Cmd+S may be pressed while a save is under way *)

Save(s) ==
  /\ save[s] = NoSave /\ pipeline # None /\ screen # NoGraph
  /\ screen \notin Invalid
  /\ save' = [save EXCEPT ![s] =
       [stage |-> "config", graph |-> screen, settings |-> settings, triggers |-> triggers,
        index |-> history.index, arrived |-> FALSE, version |-> 0]]
  /\ stale' = (stale \/ Busy \/ loading # "idle")
  /\ UNCHANGED <<pageVars, loading, server, edits, loads>>

\* The server handles the request under way: a new version, then the triggers.
Arrives(s) ==
  /\ save[s] # NoSave /\ ~save[s].arrived
  /\ server' = IF save[s].stage = "config"
               THEN [server EXCEPT !.graph = save[s].graph, !.settings = save[s].settings,
                                   !.version = @ + 1]
               ELSE [server EXCEPT !.triggers = save[s].triggers]
  /\ server'.version <= MaxVersions
  /\ save' = [save EXCEPT ![s].arrived = TRUE, ![s].version = server'.version]
  /\ UNCHANGED <<pageVars, loading, edits, loads, stale>>

ConfigSaved(s) ==
  /\ save[s] # NoSave /\ save[s].stage = "config" /\ save[s].arrived
  /\ save' = [save EXCEPT ![s].stage = "triggers", ![s].arrived = FALSE]
  /\ UNCHANGED <<pageVars, loading, server, edits, loads, stale>>

\* The second answer, good or bad, ends the save: the page is clean at the
\* index the click saw.
SaveEnds(s, ok) ==
  /\ save[s] # NoSave /\ save[s].stage = "triggers" /\ (ok => save[s].arrived)
  /\ pipeline' = save[s].version
  /\ saved' = save[s].index /\ metaDirty' = FALSE
  /\ save' = [save EXCEPT ![s] = NoSave]
  /\ stale' = (stale \/ ~ok)
  /\ UNCHANGED <<history, settings, triggers, loading, server, edits, loads>>

\* The first request fails, before or after the server took it.
SaveFails(s) ==
  /\ save[s] # NoSave /\ save[s].stage = "config"
  /\ save' = [save EXCEPT ![s] = NoSave]
  /\ stale' = (stale \/ save[s].arrived)
  /\ UNCHANGED <<pageVars, loading, server, edits, loads>>

Next ==
  \/ LoadRow \/ LoadFails \/ ChangeLanguage
  \/ \E ok \in BOOLEAN : LoadTriggers(ok)
  \/ \E g \in Graphs : EditGraph(g)
  \/ \E s \in Settings : EditSettings(s)
  \/ \E ts \in Triggers : EditTriggers(ts)
  \/ StepBack \/ StepForward
  \/ \E s \in Saves : Save(s) \/ Arrives(s) \/ ConfigSaved(s) \/ SaveFails(s)
  \/ \E s \in Saves, ok \in BOOLEAN : SaveEnds(s, ok)

Spec == Init /\ [][Next]_vars

TypeOK ==
  /\ history \in Histories(Graphs) /\ history.index >= -1
  /\ settings \in Settings /\ triggers \in Triggers
  /\ saved \in Nat \cup {None} /\ metaDirty \in BOOLEAN /\ pipeline \in Nat \cup {None}
  /\ loading \in {"get", "triggers", "idle", "failed"}
  /\ save \in [Saves -> SaveRecord \cup {NoSave}]
  /\ server \in [graph : Graphs, settings : Settings, triggers : Triggers, version : Nat]
  /\ edits \in 0..MaxEdits /\ loads \in Nat /\ stale \in BOOLEAN

(* The snapshot shown is one of the stack: no sequence of edits, undo and redo
   leaves a loaded editor without a graph (one commit per event). *)
HistoryInBounds == InBounds(history)

(* A page called clean shows what is stored, graph, settings and triggers,
   unless one of these came before: an edit while a save or a load was under
   way, a save during another or during a load, a failed trigger request, a
   save whose answer was lost, or an edit that replaced or moved the saved snapshot of the stack. *)
CleanIsStored ==
  loading = "idle" /\ ~Busy /\ ~stale /\ ~Dirty =>
    /\ screen = server.graph
    /\ settings = server.settings
    /\ triggers = server.triggers

(* Refuted.  The claim of the page: savedGraphIndex is "the history index whose snapshot
   matches what's persisted on the server" (edit/page.tsx:168), checked where
   no save or load is under way. *)
SavedIndexMatchesServer ==
  loading = "idle" /\ ~Busy /\ saved = history.index => screen = server.graph

\* The stack as its user sees it: MCWeb checks that it moves as UndoStack does.
Abstract == INSTANCE UndoStack WITH
  Graph <- Graphs, None <- NoGraph, Depth <- Capacity - 1,
  past <- SubSeq(history.stack, 1, history.index),
  present <- screen,
  future <- SubSeq(history.stack, history.index + 2, Len(history.stack))
=============================================================================

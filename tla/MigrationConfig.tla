-------------------------- MODULE MigrationConfig --------------------------
(***************************************************************************)
(* What the client takes for a migration: the pipelines its list shows      *)
(* (lib/migration-utils.ts), those the page of one opens in a form, and     *)
(* what saving the form stores (lib/migration-config.ts, migrations/[id]/   *)
(* page.tsx).  Requests are MigrationPage's; here opening and saving are    *)
(* steps.  The server stores every field, the defaults too.                 *)
(***************************************************************************)
EXTENDS Browser, SequencesExt

None == "none"
Strategies == {"snapshot", "append", "mirror"}

\* A column name is the parts its commas divide it into.
KeyLists == {<<>>, << <<"id">> >>, << <<"a">>, <<"b">> >>, << <<"a", "b">> >>}
Sinks == [auto : BOOLEAN, mode : {"append", "overwrite", "upsert"}, ifExists : {"skip", "drop", "error"}, keys : KeyLists]
Plain == [auto |-> FALSE, mode |-> "append", ifExists |-> "skip", keys |-> <<>>]
Mirror == [auto |-> TRUE, mode |-> "upsert", ifExists |-> "skip", keys |-> << <<"id">> >>]

\* `table`: the query reads one table as a whole; `others`: transforms, retries,
\* options of the source and so on.
Configs ==
  [shape : {"single"}, sinks : {<<s>> : s \in Sinks}, table : BOOLEAN, cursor : {None, "c"}, others : BOOLEAN]
  \cup [shape : {"fan-out", "graph"}, sinks : {<<Plain, Mirror>>, <<Mirror, Plain>>, <<Plain, Plain>>}, table : {TRUE}, cursor : {None}, others : {FALSE}]
  \cup [shape : {"tasks"}, sinks : {<<Mirror>>}, table : {TRUE}, cursor : {None}, others : {FALSE}]

------------------------------------------------------------------------------
(* The list *)

\* The sinks it looks at are those of the pipeline, not those of its tasks.
MarkedSinks(config) == IF config.shape = "tasks" THEN <<>> ELSE SelectSeq(config.sinks, LAMBDA s : s.auto)

\* The strategy of a row, that of the first sink that is marked; none: no row.
SummaryOf(config) ==
  LET marked == MarkedSinks(config)
  IN  CASE marked = <<>> -> None
        [] marked # <<>> /\ marked[1].mode = "overwrite" /\ marked[1].ifExists = "drop" -> "snapshot"
        [] marked # <<>> /\ marked[1].mode = "upsert" -> "mirror"
        [] marked # <<>> /\ marked[1].mode = "append" -> "append"
        [] OTHER -> "custom"

------------------------------------------------------------------------------
(* The form.  Keys are one text: the names joined by commas, and split at them *)

Split(text) == [i \in 1..Len(SelectSeq(text, LAMBDA p : p # "")) |-> <<SelectSeq(text, LAMBDA p : p # "")[i]>>]

NoForm == [strategy |-> None, keys |-> <<>>, cursor |-> None]

\* An overwrite that keeps or refuses a table there is has no strategy.
ParseMigrationConfig(config) ==
  LET sink == config.sinks[1]
      form(strategy) == [strategy |-> strategy, keys |-> FlattenSeq(sink.keys), cursor |-> config.cursor]
  IN  IF config.shape # "single" \/ ~sink.auto \/ ~config.table THEN NoForm
      ELSE CASE sink.mode = "overwrite" /\ sink.ifExists = "drop" -> form("snapshot")
             [] sink.mode = "upsert" -> form("mirror")
             [] sink.mode = "append" -> form("append")
             [] OTHER -> NoForm

ValidateMigrationForm(form) ==
  /\ form.strategy = "mirror" => Split(form.keys) # <<>>
  /\ form.strategy = "append" => form.cursor # None

StrategyToSinkShape(form) ==
  CASE form.strategy = "snapshot" -> [auto |-> TRUE, mode |-> "overwrite", ifExists |-> "drop", keys |-> <<>>]
    [] form.strategy = "mirror" -> [auto |-> TRUE, mode |-> "upsert", ifExists |-> "skip", keys |-> Split(form.keys)]
    [] form.strategy = "append" -> [auto |-> TRUE, mode |-> "append", ifExists |-> "skip", keys |-> <<>>]

\* Built anew: nothing is taken from what was stored.
BuildMigrationConfig(form) ==
  [shape |-> "single", sinks |-> <<StrategyToSinkShape(form)>>, table |-> TRUE,
   cursor |-> IF form.strategy = "append" THEN form.cursor ELSE None, others |-> FALSE]

\* An empty key or cursor is filled in once the columns are known, when they
\* come and when the strategy changes.
Suggested(form) ==
  CASE form.strategy = "mirror" /\ Split(form.keys) = <<>> -> [form EXCEPT !.keys = <<"id">>]
    [] form.strategy = "append" /\ form.cursor = None -> [form EXCEPT !.cursor = "c"]
    [] OTHER -> form

------------------------------------------------------------------------------
Opened(config) == [form |-> ParseMigrationConfig(config), columns |-> FALSE, saved |-> TRUE]

Init ==
  /\ \E c \in Configs : srv = [now |-> c, first |-> c] /\ ui = Opened(c) @@ [touched |-> FALSE]
  /\ net = <<>> /\ clicks = 0 /\ noise = {}

Editable == ui.form # NoForm
Gesture == Editable /\ Click /\ UNCHANGED <<net, noise>>
Reopen == Gesture /\ ui' = Opened(srv.now) @@ [touched |-> ui.touched] /\ UNCHANGED srv

ColumnsCome ==
  /\ Editable /\ ~ui.columns
  /\ ui' = [ui EXCEPT !.columns = TRUE, !.form = Suggested(@), !.saved = @ /\ Suggested(ui.form) = ui.form]
  /\ UNCHANGED <<srv, net, clicks, noise>>

Edit(form) == Gesture /\ ui' = [ui EXCEPT !.form = form, !.saved = FALSE, !.touched = TRUE] /\ UNCHANGED srv
PickStrategy(s) ==
  LET form == [ui.form EXCEPT !.strategy = s]
  IN  s # ui.form.strategy /\ Edit(IF ui.columns THEN Suggested(form) ELSE form)
TypeKeys(text) == ui.form.strategy = "mirror" /\ Edit([ui.form EXCEPT !.keys = text])
TypeCursor(c) == ui.form.strategy = "append" /\ Edit([ui.form EXCEPT !.cursor = c])

Save ==
  /\ Gesture /\ ValidateMigrationForm(ui.form)
  /\ srv' = [srv EXCEPT !.now = BuildMigrationConfig(ui.form)] /\ ui' = [ui EXCEPT !.saved = TRUE]

Next ==
  \/ Reopen \/ ColumnsCome \/ Save
  \/ \E s \in Strategies : PickStrategy(s)
  \/ \E text \in {<<>>, <<"a">>, <<"b", "", "a">>} : TypeKeys(text)
  \/ \E c \in {None, "d"} : TypeCursor(c)

TypeOK == srv.now.shape \in {"single", "fan-out", "graph", "tasks"} /\ ui.form.strategy \in Strategies \cup {None} /\ Quiet

(* What the page opens in its form is a row of the list, under the strategy the
   form shows. *)
ListedAsOpened ==
  LET form == ParseMigrationConfig(srv.now)
  IN  form # NoForm => SummaryOf(srv.now) = form.strategy

\* What a form says that its strategy asks for.
Said(form) ==
  <<form.strategy, IF form.strategy = "mirror" THEN Split(form.keys) ELSE <<>>, IF form.strategy = "append" THEN form.cursor ELSE None>>

(* A form that was saved is opened as it was. *)
ReopensAsSaved == ui.saved => Said(ParseMigrationConfig(srv.now)) = Said(ui.form)

\* What the form has no field for, or only under another strategy.
Beyond(config) ==
  LET sink == config.sinks[1]
  IN  \/ config.others
      \/ \E i \in DOMAIN sink.keys : Len(sink.keys[i]) > 1
      \/ CASE sink.mode = "upsert" -> sink.ifExists # "skip" \/ config.cursor # None \/ sink.keys = <<>>
           [] sink.mode = "append" -> sink.ifExists # "skip" \/ sink.keys # <<>> \/ config.cursor = None
           [] OTHER -> sink.keys # <<>> \/ config.cursor # None

(* Opening a migration and saving it without an edit stores what it was, unless
   it has what the form has no field for. *)
SavingKeepsIt == ~ui.touched /\ ~Beyond(srv.first) => srv.now = srv.first
=============================================================================

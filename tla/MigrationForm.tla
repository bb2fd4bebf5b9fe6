--------------------------- MODULE MigrationForm ---------------------------
(***************************************************************************)
(* Making migrations (app/w/[slug]/migrations/new/page.tsx with             *)
(* components/migrations/migration-form.tsx and lib/migration-config.ts):   *)
(* pick a connection, then one table or several of a schema, and a          *)
(* strategy.  The lists of tables and columns are read behind each choice;  *)
(* a key or a cursor is suggested from the columns that are there.  One     *)
(* pipeline is created per table, one after the other.                      *)
(***************************************************************************)
EXTENDS Browser

None == "none"
Conns == {"one", "two"}
TablesOf(conn) == CASE conn = "one" -> {"s.t", "s.u"} [] conn = "two" -> {"q.t", "b-b"} [] OTHER -> {}
Tables == UNION {TablesOf(c) : c \in Conns}
SchemaOf(table) == CASE table \in {"s.t", "s.u"} -> "s" [] table = "q.t" -> "q" [] OTHER -> None
NameOf(table) == IF table \in {"s.t", "q.t"} THEN "t" ELSE IF table = "s.u" THEN "u" ELSE "b-b"
Strategies == {"snapshot", "append", "mirror"}
Typed == "typed"          \* a column the user typed; else the table it was suggested from

Fresh == [mode |-> "single", conn |-> None, table |-> None, schema |-> None, selected |-> {}, sinkTable |-> None,
          sinkSchema |-> None, strategy |-> "snapshot", key |-> None, cursor |-> None]

\* tables and columns say of which connection and table they are.
Init ==
  /\ srv = [made |-> {}]
  /\ ui = [form |-> Fresh, conns |-> FALSE, tables |-> None, loading |-> FALSE, columns |-> None,
           submitting |-> FALSE, plan |-> {}, ok |-> 0, left |-> "no"]
  /\ net = With(<<>>, "connections", {})
  /\ clicks = 0 /\ noise = {}

------------------------------------------------------------------------------
(* lib/migration-config.ts *)

\* The fields a submit needs, here those the page does not fill itself.
Valid(f) ==
  /\ f.conn # None
  /\ IF f.mode = "schema" THEN f.schema # None /\ f.sinkSchema # None /\ f.selected # {} ELSE f.table # None /\ f.sinkTable # None
  /\ f.strategy = "mirror" => f.key # None
  /\ f.strategy = "append" => f.cursor # None

\* A strategy as the keys of a sink, only those that are not the default.
Build(f, table, sink) ==
  [conn |-> f.conn, table |-> table, sink |-> sink,
   mode |-> CASE f.strategy = "snapshot" -> "overwrite" [] f.strategy = "mirror" -> "upsert" [] OTHER -> "append",
   ifExists |-> IF f.strategy = "snapshot" THEN "drop" ELSE "skip",
   key |-> IF f.strategy = "mirror" THEN f.key ELSE None,
   cursor |-> IF f.strategy = "append" THEN f.cursor ELSE None]

\* The strategy a configuration is opened with; none: not a migration.  The
\* table must read as a plain name.
Parsed(config) ==
  IF config.table = "b-b" THEN None
  ELSE CASE config.mode = "overwrite" /\ config.ifExists = "drop" -> "snapshot"
         [] config.mode = "upsert" -> "mirror"
         [] config.mode = "append" -> "append"
         [] OTHER -> None

Plan(f) ==
  IF f.mode = "single" THEN {Build(f, f.table, f.sinkTable)}
  ELSE {Build(f, table, f.sinkSchema) : table \in f.selected}

------------------------------------------------------------------------------
(* What a render brings about *)

Row(u) == IF u.conns THEN u.form.conn ELSE None

\* A suggestion fills an empty field, from the columns that are there now.
Suggested(f, columns) ==
  IF columns = None THEN f
  ELSE CASE f.strategy = "mirror" /\ f.key = None -> [f EXCEPT !.key = columns]
         [] f.strategy = "append" /\ f.cursor = None -> [f EXCEPT !.cursor = columns]
         [] OTHER -> f

\* The state becomes u: the tables are read when the connection changes (or the
\* connections were read again), the columns when that or the table does, and
\* a column is suggested when the strategy or the columns change.  What was
\* being read is given up; giving up the tables leaves the page loading.
Renders(requests, u, again) ==
  LET row == again \/ Row(u) # Row(ui)
      cols == row \/ u.form.table # ui.form.table
      columns == IF cols /\ (Row(u) = None \/ u.form.table = None) THEN None ELSE u.columns
      kept == [k \in DOMAIN requests \ ((IF row THEN {"tables"} ELSE {}) \cup (IF cols THEN {"columns"} ELSE {})) |-> requests[k]]
      withTables == IF row /\ Row(u) # None THEN With(kept, "tables", Row(u)) ELSE kept
  IN  /\ net' = IF cols /\ Row(u) # None /\ u.form.table # None THEN With(withTables, "columns", u.form.table) ELSE withTables
      /\ ui' = [u EXCEPT !.tables = IF row /\ Row(u) = None THEN None ELSE @,
                         !.loading = IF row /\ Row(u) # None THEN TRUE ELSE @,
                         !.columns = columns,
                         !.form = IF u.form.strategy # ui.form.strategy \/ columns # ui.columns THEN Suggested(@, columns) ELSE @]

ConnectionsBack ==
  /\ Returned("connections")
  /\ Renders(Closed("connections"), [ui EXCEPT !.conns = Answered("connections") \/ @], Answered("connections") /\ ui.conns)
  /\ UNCHANGED <<srv, clicks, noise>>

TablesBack ==
  /\ Returned("tables")
  /\ ui' = [ui EXCEPT !.loading = FALSE, !.tables = IF Answered("tables") THEN net["tables"].got ELSE None]
  /\ net' = Closed("tables") /\ UNCHANGED <<srv, clicks, noise>>

ColumnsBack ==
  /\ Returned("columns")
  /\ Renders(Closed("columns"), [ui EXCEPT !.columns = IF Answered("columns") THEN net["columns"].got ELSE None], FALSE)
  /\ UNCHANGED <<srv, clicks, noise>>

ChangeLanguage == Click /\ ~ui.submitting /\ net' = Sent("connections", {}) /\ UNCHANGED <<ui, srv, noise>>

------------------------------------------------------------------------------
(* The fields *)

Sets(f) == Click /\ ~ui.submitting /\ f # ui.form /\ Renders(net, [ui EXCEPT !.form = f], FALSE) /\ UNCHANGED <<srv, noise>>

\* Tables and schema belong to the connection; a key or a cursor stays.
PickConnection(c) == ui.conns /\ Sets([ui.form EXCEPT !.conn = c, !.table = None, !.schema = None, !.selected = {}])
PickMode(m) == Sets([ui.form EXCEPT !.mode = m])
Pickable == ui.tables # None /\ Row(ui) # None /\ ~ui.loading

PickTable(table) ==
  /\ ui.form.mode = "single" /\ Pickable /\ table \in TablesOf(ui.tables)
  /\ Sets([ui.form EXCEPT !.table = table, !.sinkTable = IF @ = None THEN NameOf(table) ELSE @])

PickSchema(s) ==
  /\ ui.form.mode = "schema" /\ Pickable /\ s \in {SchemaOf(table) : table \in TablesOf(ui.tables)} \ {None}
  /\ Sets([ui.form EXCEPT !.schema = s, !.selected = {}, !.sinkSchema = IF @ = None THEN s ELSE @])

\* The tables of the schema: those without one when none is picked.
InSchema == {table \in TablesOf(ui.tables) : SchemaOf(table) = ui.form.schema}

ToggleTable(table) ==
  /\ ui.form.mode = "schema" /\ Pickable /\ table \in InSchema
  /\ Sets([ui.form EXCEPT !.selected = IF table \in @ THEN @ \ {table} ELSE @ \cup {table}])

\* Not disabled while the tables are being read.
ToggleAll ==
  /\ ui.form.mode = "schema" /\ InSchema # {}
  /\ Sets([ui.form EXCEPT !.selected = IF InSchema \subseteq @ THEN @ \ InSchema ELSE @ \cup InSchema])

PickStrategy(s) == Sets([ui.form EXCEPT !.strategy = s])
TypeColumn == Sets([ui.form EXCEPT !.key = IF ui.form.strategy = "mirror" THEN Typed ELSE @, !.cursor = IF ui.form.strategy = "append" THEN Typed ELSE @])

------------------------------------------------------------------------------
Submit ==
  /\ Click /\ ~ui.submitting /\ Valid(ui.form)
  /\ \E item \in Plan(ui.form) :
       /\ ui' = [ui EXCEPT !.submitting = TRUE, !.plan = Plan(ui.form) \ {item}, !.ok = 0]
       /\ net' = Sent("create", item)
  /\ UNCHANGED <<srv, noise>>

\* One table that fails does not stop the others, and the page is left though
\* none was made; a single one that fails stays.
CreateBack ==
  /\ Returned("create")
  /\ LET ok == IF Answered("create") THEN ui.ok + 1 ELSE ui.ok
     IN  IF ui.plan # {}
         THEN \E item \in ui.plan :
                ui' = [ui EXCEPT !.plan = @ \ {item}, !.ok = ok] /\ net' = With(Closed("create"), "create", item)
         ELSE /\ ui' = [ui EXCEPT !.submitting = FALSE, !.ok = ok,
                          !.left = IF ui.form.mode = "schema" THEN (IF ok > 0 THEN "never run" ELSE "list")
                                   ELSE IF Answered("create") THEN "list" ELSE "no"]
              /\ net' = Closed("create")
  /\ UNCHANGED <<srv, clicks, noise>>

Serve ==
  \/ Handles("connections", srv, {})
  \/ Out("tables") /\ Handles("tables", srv, net["tables"].arg)
  \/ Out("columns") /\ Handles("columns", srv, net["columns"].arg)
  \/ Out("create") /\ Handles("create", [made |-> srv.made \cup {net["create"].arg}], {})

Returns == ConnectionsBack \/ TablesBack \/ ColumnsBack \/ CreateBack
Clicks ==
  \/ ToggleAll \/ TypeColumn \/ Submit \/ ChangeLanguage
  \/ \E c \in Conns \cup {None} : PickConnection(c)
  \/ \E m \in {"single", "schema"} : PickMode(m)
  \/ \E s \in {"s", "q"} : PickSchema(s)
  \/ \E table \in Tables : PickTable(table) \/ ToggleTable(table)
  \/ \E s \in Strategies : PickStrategy(s)
Next ==
  \/ Serve
  \/ ui.left = "no" /\ (Returns \/ Clicks \/ \E k \in DOMAIN net : Breaks(k))

TypeOK ==
  /\ ui.form.conn \in Conns \cup {None} /\ ui.form.table \in Tables \cup {None} /\ ui.form.selected \subseteq Tables
  /\ ui.columns \in Tables \cup {None} /\ ui.left \in {"no", "list", "never run"}

(* Every pipeline that is made copies a table its source connection has,
   however slowly tables were listed and connections changed; and, a table the
   form cannot spell aside, it opens again with the strategy it was made with
   and with its key or cursor. *)
MakesMigrations ==
  \A config \in srv.made :
    /\ config.table \in TablesOf(config.conn)
    /\ config.table # "b-b" => Parsed(config) # None
    /\ Parsed(config) = "mirror" => config.key # None
    /\ Parsed(config) = "append" => config.cursor # None

SpinnersHaveRequests ==
  /\ ui.submitting => Out("create")
  /\ ui.loading /\ Row(ui) # None => Out("tables")

(* Refuted.  A suggested key or cursor is a column of the table that is
   migrated: the suggestion stays when another table is picked. *)
SuggestsOfTheTable == \A config \in srv.made : {config.key, config.cursor} \subseteq {None, Typed, config.table}
=============================================================================

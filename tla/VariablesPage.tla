--------------------------- MODULE VariablesPage ---------------------------
(***************************************************************************)
(* The variables of a workspace (app/w/[slug]/variables/page.tsx): a list,  *)
(* one form that creates or replaces by name, and a delete dialog that      *)
(* stays usable while the delete is under way.  A value is typed as text:   *)
(* what reads as JSON is stored as that, anything else as a string.         *)
(***************************************************************************)
EXTENDS Browser

Names == {"v"}
Fresh == "x"                        \* a name the user may type
AnyName == Names \cup {Fresh}
NoName == ""

\* A string of letters, a string of digits, a number; and their texts.
Values == {"word", "digits", "number"}
TextOf(value) == IF value = "word" THEN "letters" ELSE "5"
Parsed(text) == IF text = "letters" THEN "word" ELSE "number"

NoVars == [n \in {NoName} |-> "word"]        \* the list is not there yet
Unknown == {NoName}                          \* nor the index of what is used
Blank == [name |-> NoName, text |-> "letters", from |-> NoName]

Init ==
  /\ \E f \in [Names -> Values] :
       srv = [vars |-> f, used |-> {"v"}, was |-> [n \in AnyName |-> IF n \in Names THEN f[n] ELSE "word"], typed |-> {Fresh}]
  /\ ui = [vars |-> NoVars, usage |-> Unknown, form |-> Blank, saving |-> FALSE, dialog |-> NoName]
  /\ net = With(With(<<>>, "load", {}), "usage", {})
  /\ clicks = 0 /\ noise = {}

Listed == IF ui.vars = NoVars THEN {} ELSE DOMAIN ui.vars
Deletes == {Named("delete", n) : n \in AnyName}
Reloads == {Named("deleted", n) : n \in AnyName}
Loads == {"load", "saved"} \cup Reloads

Load(requests, k) ==
  /\ net' = With(requests, k, {})
  /\ noise' = IF DOMAIN requests \cap Loads # {} THEN noise \cup {"stale rows"} ELSE noise

\* A list that cannot be read leaves the former one on the screen.
LoadBack(k) ==
  /\ Returned(k)
  /\ LET shown == IF Answered(k) THEN [ui EXCEPT !.vars = net[k].got] ELSE ui
     IN  ui' = CASE k = "saved" -> [shown EXCEPT !.saving = FALSE]
                 [] k \in Reloads -> [shown EXCEPT !.dialog = NoName]
                 [] OTHER -> shown
  /\ net' = Closed(k)
  /\ noise' = IF Rejected(k) THEN noise \cup {"stale rows"} ELSE noise
  /\ UNCHANGED <<srv, clicks>>

Lost(k) == noise' = IF Rejected(k) THEN noise \cup {"lost answer"} ELSE noise

\* Which pipelines use what: not known when the pipelines cannot be read.
UsageBack ==
  /\ Returned("usage")
  /\ ui' = [ui EXCEPT !.usage = IF Answered("usage") THEN net["usage"].got ELSE Unknown]
  /\ net' = Closed("usage") /\ UNCHANGED <<srv, clicks, noise>>

------------------------------------------------------------------------------
EditRow(n) ==
  /\ Click /\ n \in Listed /\ ui.dialog = NoName
  /\ ui' = [ui EXCEPT !.form = [name |-> n, text |-> TextOf(ui.vars[n]), from |-> n]]
  /\ UNCHANGED <<net, srv, noise>>

\* A name typed into the form, over the one of a row too: saving creates.
Type(n) ==
  /\ Click /\ ui.dialog = NoName /\ ui.form.name # n
  /\ ui' = [ui EXCEPT !.form.name = n, !.form.from = NoName] /\ UNCHANGED <<net, srv, noise>>

Save ==
  /\ Click /\ ui.dialog = NoName /\ ui.form.name # NoName /\ ~ui.saving
  /\ ui' = [ui EXCEPT !.saving = TRUE] /\ net' = Sent("set", ui.form)
  /\ UNCHANGED <<srv, noise>>

\* Saved: the form is cleared, whatever it holds by now, and the list read.
SaveBack ==
  /\ Returned("set")
  /\ IF Answered("set")
     THEN ui' = [ui EXCEPT !.form = Blank] /\ Load(Closed("set"), "saved")
     ELSE ui' = [ui EXCEPT !.saving = FALSE] /\ net' = Closed("set") /\ Lost("set")
  /\ UNCHANGED <<srv, clicks>>

AskDelete(n) == Click /\ n \in Listed /\ ui.dialog = NoName /\ ui' = [ui EXCEPT !.dialog = n] /\ UNCHANGED <<net, srv, noise>>
LeaveDialog == ui.dialog # NoName /\ ui' = [ui EXCEPT !.dialog = NoName] /\ UNCHANGED <<net, srv, clicks, noise>>

\* Nothing tells the dialog that a delete is under way: it can be confirmed
\* again (one more request, here the same one), or left and opened for another.
ConfirmDelete ==
  LET n == ui.dialog
  IN  /\ n # NoName /\ ~Out(Named("delete", n)) /\ ~Out(Named("deleted", n))
      /\ Click /\ net' = Sent(Named("delete", n), n) /\ UNCHANGED <<ui, srv, noise>>

\* The dialog that is open now closes, with the answer or with the list.
DeleteBack(n) ==
  LET k == Named("delete", n)
  IN  /\ Returned(k)
      /\ IF Answered(k)
         THEN UNCHANGED ui /\ Load(Closed(k), Named("deleted", n))
         ELSE ui' = [ui EXCEPT !.dialog = NoName] /\ net' = Closed(k) /\ Lost(k)
      /\ UNCHANGED <<srv, clicks>>

------------------------------------------------------------------------------
There == DOMAIN srv.vars

\* ghosts: `was` is the value a name had, or was given by a name's typing.
Stored(form) ==
  [srv EXCEPT !.vars = [n \in There \cup {form.name} |-> IF n = form.name THEN Parsed(form.text) ELSE @[n]],
              !.typed = IF form.from = form.name THEN @ ELSE @ \cup {form.name}]

Serve ==
  \/ \E k \in Loads : Handles(k, srv, srv.vars)
  \/ Handles("usage", srv, srv.used)
  \/ Out("set") /\ Handles("set", Stored(net["set"].arg), {})
  \/ \E n \in There : Handles(Named("delete", n), [srv EXCEPT !.vars = Restrict(@, There \ {n})], {})

Returns == UsageBack \/ SaveBack \/ (\E k \in Loads : LoadBack(k)) \/ \E n \in AnyName : DeleteBack(n)
Clicks == LeaveDialog \/ ConfirmDelete \/ Save \/ \E n \in AnyName : EditRow(n) \/ Type(n) \/ AskDelete(n)
Next == Serve \/ Returns \/ Clicks \/ \E k \in DOMAIN net : Breaks(k)

TypeOK ==
  /\ There \subseteq AnyName /\ \A n \in There : srv.vars[n] \in Values
  /\ ui.form.name \in AnyName \cup {NoName} /\ ui.dialog \in AnyName \cup {NoName} /\ ui.usage \subseteq AnyName \cup {NoName}

(* At rest the list shows the variables the server has, but for lost answers
   and overlapping reads; the index says no variable is unused that a pipeline
   refers to. *)
ShowsServer ==
  /\ Quiet /\ noise \cap {"stale rows", "lost answer"} = {} => ui.vars = srv.vars
  /\ ui.usage # Unknown => srv.used \subseteq ui.usage

SpinnersHaveRequests == ui.saving => Out("set") \/ Out("saved")

(* A variable that was opened in the form and saved as it stood keeps its
   value, a string of digits excepted: it comes back a number. *)
SavedAsItStood == \A n \in There : n \in srv.typed \/ srv.vars[n] = srv.was[n] \/ srv.was[n] = "digits"
=============================================================================

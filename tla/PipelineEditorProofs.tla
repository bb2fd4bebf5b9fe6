------------------------- MODULE PipelineEditorProofs -------------------------
(***************************************************************************)
(* Theorems about PipelineEditor, for every capacity of the undo stack, any *)
(* graphs, settings and triggers, and any number of saves under way: the    *)
(* stack never leaves a loaded editor without a graph, and what its user    *)
(* sees of it is UndoStack.                                                 *)
(***************************************************************************)
EXTENDS PipelineEditor, SequenceTheorems, TLAPS

-----------------------------------------------------------------------------
(***************************************************************************)
(* The stack as past, present and future                                   *)
(***************************************************************************)
\* Stack s shows its i-th snapshot, counted from 0, and is within its capacity.
Showing(s, i) ==
  /\ s \in Seq(Graphs) /\ i \in Nat
  /\ i < Len(s) /\ Len(s) <= Capacity

PastOf(s, i) == SubSeq(s, 1, i)
FutureOf(s, i) == SubSeq(s, i + 2, Len(s))

\* The past with one more graph; the oldest one goes when it is full.
Remembering(past, g) ==
  IF Len(past) < Capacity - 1 THEN Append(past, g) ELSE Tail(Append(past, g))

\* The past, the snapshot shown and the future are graphs, and the past is as
\* long as the index says.
LEMMA Parts ==
  ASSUME NEW s, NEW i, Showing(s, i)
  PROVE  /\ s[i + 1] \in Graphs
         /\ PastOf(s, i) \in Seq(Graphs) /\ Len(PastOf(s, i)) = i
         /\ Len(FutureOf(s, i)) = Len(s) - 1 - i
<1>1. \A k \in 1..Len(s) : s[k] \in Graphs
  BY ElementOfSeq DEF Showing
<1>2. Len(s) \in Nat /\ i + 1 \in 1..Len(s)
  BY LenProperties DEF Showing
<1>3. \A k \in 1..i : s[k] \in Graphs
  BY <1>1, <1>2 DEF Showing
<1>4. PastOf(s, i) \in Seq(Graphs) /\ Len(PastOf(s, i)) = i
  BY <1>3, SubSeqProperties DEF PastOf, Showing
<1>5. \A k \in i + 2 .. Len(s) : s[k] \in Graphs
  BY <1>1, <1>2 DEF Showing
<1>6. Len(FutureOf(s, i)) = IF i + 2 <= Len(s) THEN Len(s) - (i + 2) + 1 ELSE 0
  BY <1>2, <1>5, SubSeqProperties DEF FutureOf, Showing
<1> QED
  BY <1>1, <1>2, <1>4, <1>6 DEF Showing

\* What a place of the past holds.
LEMMA PastAt ==
  ASSUME NEW s, NEW i, Showing(s, i), NEW k \in 1..i
  PROVE  PastOf(s, i)[k] = s[k]
<1>1. i \in Nat /\ Len(s) \in Nat /\ i < Len(s) /\ i - 1 + 1 = i
  BY LenProperties DEF Showing
<1>2. \A n \in 1..i : s[n] \in Graphs
  BY <1>1, ElementOfSeq DEF Showing
<1>3. \A n \in 1..i - 1 + 1 : SubSeq(s, 1, i)[n] = s[1 + n - 1]
  BY <1>1, <1>2, SubSeqProperties, 1 \in Int, i \in Int
<1> QED
  BY <1>1, <1>3, 1 + k - 1 = k DEF PastOf

\* With the snapshot shown the past becomes the past of the next index.
LEMMA PastGrows ==
  ASSUME NEW s, NEW i, Showing(s, i)
  PROVE  PastOf(s, i + 1) = Append(PastOf(s, i), s[i + 1])
<1>1. Len(s) \in Nat /\ 1 \in 1..Len(s) /\ i + 1 \in 1..Len(s) /\ (i + 1) - 1 = i
  BY LenProperties DEF Showing
<1>2. SubSeq(s, 1, i + 1) = SubSeq(s, 1, (i + 1) - 1) \o <<s[i + 1]>>
  BY <1>1, SubSeqRecursiveSecond DEF Showing
<1> QED
  BY <1>1, <1>2, Parts, AppendIsConcat DEF PastOf

\* A commit makes the snapshot shown the latest of the past, forgets the
\* oldest one when the stack is full, and leaves nothing to redo.
LEMMA CommitMoves ==
  ASSUME NEW s, NEW i, NEW g \in Graphs, Showing(s, i),
         NEW p, p = Pushed(s, i, g), NEW j, j = Least(i + 1, Capacity - 1)
  PROVE  /\ Showing(p, j)
         /\ p[j + 1] = g
         /\ PastOf(p, j) = Remembering(PastOf(s, i), s[i + 1])
         /\ FutureOf(p, j) = <<>>
<1> DEFINE kept == PastOf(s, i + 1)
<1>1. kept \in Seq(Graphs) /\ Len(kept) = i + 1 /\ kept # <<>>
  <2>1. PastOf(s, i) \in Seq(Graphs) /\ Len(PastOf(s, i)) = i /\ s[i + 1] \in Graphs
    BY Parts
  <2>2. kept = Append(PastOf(s, i), s[i + 1])
    BY PastGrows
  <2> HIDE DEF kept
  <2> QED
    BY <2>1, <2>2, AppendProperties
<1>2. Append(kept, g) \in Seq(Graphs) /\ Len(Append(kept, g)) = i + 2
      /\ Append(kept, g)[i + 2] = g /\ \A k \in 1..i + 1 : Append(kept, g)[k] = kept[k]
  BY <1>1, AppendProperties DEF Showing
<1>3. Capacity \in Nat /\ Capacity >= 2 /\ i \in Nat /\ i <= Capacity - 1 /\ Len(s) \in Nat
  BY CapacityAssumption, LenProperties DEF Showing
<1>4. p = IF i + 2 > Capacity THEN Tail(Append(kept, g)) ELSE Append(kept, g)
  <2>1. Pushed(s, i, g) = IF Len(Append(kept, g)) > Capacity THEN Tail(Append(kept, g))
                          ELSE Append(kept, g)
    BY Zenon DEF Pushed, PastOf
  <2> HIDE DEF kept
  <2> QED
    BY <1>2, <2>1
<1>5. Len(PastOf(s, i)) = i
  BY Parts
<1>6. CASE i < Capacity - 1
  <2>1. p = Append(kept, g) /\ j = i + 1
    BY <1>3, <1>4, <1>6 DEF Least
  <2>2. Showing(p, j) /\ p[j + 1] = g
    BY <1>2, <1>3, <1>6, <2>1 DEF Showing
  <2>3. PastOf(p, j) = kept
    <3>1. PastOf(p, j) \in Seq(Graphs) /\ Len(PastOf(p, j)) = i + 1
      BY <2>1, <2>2, Parts
    <3>2. \A k \in 1..i + 1 : PastOf(p, j)[k] = kept[k]
      <4>1. \A k \in 1..j : PastOf(p, j)[k] = p[k]
        BY <2>2, PastAt
      <4>2. \A k \in 1..i + 1 : p[k] = kept[k]
        BY <1>2, <2>1
      <4> HIDE DEF kept
      <4> QED
        BY <2>1, <4>1, <4>2
    <3> QED
      BY <1>1, <3>1, <3>2, SeqEqual
  <2>4. FutureOf(p, j) = <<>>
    BY <1>2, <1>3, <2>1, SubSeqEmpty DEF FutureOf
  <2> QED
    BY <1>5, <1>6, <2>2, <2>3, <2>4, PastGrows DEF Remembering
<1>7. CASE ~(i < Capacity - 1)
  <2>1. p = Tail(Append(kept, g)) /\ j = i /\ i + 1 = Capacity
    BY <1>3, <1>4, <1>7 DEF Least
  <2>2. p = Append(Tail(kept), g)
    BY <1>1, <2>1, HeadTailAppend
  <2>3. Tail(kept) \in Seq(Graphs) /\ Len(Tail(kept)) = i
    BY <1>1, <1>3, HeadTailProperties
  <2>4. p \in Seq(Graphs) /\ Len(p) = i + 1 /\ p[i + 1] = g
        /\ \A k \in 1..i : p[k] = Tail(kept)[k]
    BY <2>2, <2>3, AppendProperties
  <2>5. Showing(p, j) /\ p[j + 1] = g
    BY <1>3, <2>1, <2>4 DEF Showing
  <2>6. PastOf(p, j) = Tail(kept)
    <3>1. PastOf(p, j) \in Seq(Graphs) /\ Len(PastOf(p, j)) = i
      BY <2>1, <2>5, Parts
    <3>2. \A k \in 1..i : PastOf(p, j)[k] = Tail(kept)[k]
      <4>1. \A k \in 1..j : PastOf(p, j)[k] = p[k]
        BY <2>5, PastAt
      <4>2. j = i /\ \A k \in 1..i : p[k] = Tail(kept)[k]
        BY <2>1, <2>4
      <4> HIDE DEF kept
      <4> QED
        BY <4>1, <4>2
    <3> QED
      BY <2>3, <3>1, <3>2, SeqEqual
  <2>7. FutureOf(p, j) = <<>>
    BY <1>3, <2>1, <2>4, SubSeqEmpty DEF FutureOf
  <2> QED
    BY <1>5, <1>7, <2>5, <2>6, <2>7, PastGrows DEF Remembering
<1> QED
  BY <1>6, <1>7

\* An undo takes the latest of the past; the snapshot shown is the next to redo.
LEMMA UndoMoves ==
  ASSUME NEW s, NEW i, Showing(s, i), i > 0
  PROVE  /\ Showing(s, i - 1)
         /\ s[(i - 1) + 1] = PastOf(s, i)[Len(PastOf(s, i))]
         /\ PastOf(s, i - 1) = SubSeq(PastOf(s, i), 1, Len(PastOf(s, i)) - 1)
         /\ FutureOf(s, i - 1) = <<s[i + 1]>> \o FutureOf(s, i)
         /\ PastOf(s, i) # <<>>
<1>1. i \in Nat /\ Len(s) \in Nat /\ i < Len(s) /\ s \in Seq(Graphs)
  BY LenProperties DEF Showing
<1>2. Showing(s, i - 1)
  BY <1>1 DEF Showing
<1>3. PastOf(s, i) = Append(PastOf(s, i - 1), s[i])
  BY <1>1, <1>2, PastGrows, (i - 1) + 1 = i
<1>4. PastOf(s, i - 1) \in Seq(Graphs) /\ Len(PastOf(s, i - 1)) = i - 1 /\ s[i] \in Graphs
  BY <1>1, <1>2, Parts, (i - 1) + 1 = i
<1>5. Len(PastOf(s, i)) = i /\ PastOf(s, i)[i] = s[i] /\ PastOf(s, i) # <<>>
      /\ PastOf(s, i) \in Seq(Graphs)
  BY <1>1, <1>3, <1>4, AppendProperties
<1>6. PastOf(s, i - 1) = SubSeq(PastOf(s, i), 1, i - 1)
  <2>1. CASE i = 1
    BY <2>1, SubSeqEmpty DEF PastOf
  <2>2. CASE i > 1
    <3>1. /\ 1 \in 1..Len(s) /\ i \in 1..Len(s)
          /\ 1 \in 1..i - 1 + 1 /\ i - 1 \in 1..i - 1 + 1
          /\ 1 + 1 - 1 = 1 /\ 1 + (i - 1) - 1 = i - 1
      BY <1>1, <2>2
    <3>2. SubSeq(SubSeq(s, 1, i), 1, i - 1) = SubSeq(s, 1 + 1 - 1, 1 + (i - 1) - 1)
      BY <1>1, <3>1, SubSeqOfSubSeq
    <3> QED
      BY <3>1, <3>2 DEF PastOf
  <2> QED
    BY <1>1, <2>1, <2>2
<1>7. FutureOf(s, i - 1) = <<s[i + 1]>> \o FutureOf(s, i)
  <2>1. /\ i + 1 \in 1..Len(s) /\ Len(s) \in i + 1 .. Len(s)
        /\ (i - 1) + 2 = i + 1 /\ (i + 1) + 1 = i + 2
    BY <1>1
  <2>2. SubSeq(s, i + 1, Len(s)) = <<s[i + 1]>> \o SubSeq(s, (i + 1) + 1, Len(s))
    BY <1>1, <2>1, SubSeqRecursiveFirst
  <2> QED
    BY <2>1, <2>2 DEF FutureOf
<1> QED
  BY <1>1, <1>2, <1>5, <1>6, <1>7, (i - 1) + 1 = i

\* A redo takes the first of the future; the snapshot shown joins the past.
LEMMA RedoMoves ==
  ASSUME NEW s, NEW i, Showing(s, i), i < Len(s) - 1
  PROVE  /\ Showing(s, i + 1)
         /\ FutureOf(s, i) # <<>>
         /\ s[(i + 1) + 1] = Head(FutureOf(s, i))
         /\ FutureOf(s, i + 1) = Tail(FutureOf(s, i))
         /\ PastOf(s, i + 1) = Append(PastOf(s, i), s[i + 1])
<1>1. i \in Nat /\ Len(s) \in Nat /\ i < Len(s) - 1 /\ s \in Seq(Graphs)
  BY LenProperties DEF Showing
<1>2. Showing(s, i + 1)
  BY <1>1 DEF Showing
<1>3. Len(FutureOf(s, i)) > 0
  BY <1>1, Parts
<1>4. FutureOf(s, i) # <<>>
  BY <1>3, EmptySeq
<1>5. /\ i + 2 \in 1..Len(s) /\ Len(s) \in i + 2 .. Len(s)
      /\ (i + 1) + 1 = i + 2 /\ (i + 1) + 2 = (i + 2) + 1
  BY <1>1
<1>6. Head(SubSeq(s, i + 2, Len(s))) = s[i + 2]
      /\ Tail(SubSeq(s, i + 2, Len(s))) = SubSeq(s, (i + 2) + 1, Len(s))
  BY <1>1, <1>5, HeadTailOfSubSeq
<1> QED
  BY <1>2, <1>4, <1>5, <1>6, PastGrows DEF FutureOf

-----------------------------------------------------------------------------
(***************************************************************************)
(* The invariant                                                           *)
(***************************************************************************)
\* The editor has no history yet, or it shows a snapshot of its stack.
HistoryInv == history = NoHistory \/ Showing(history.stack, history.index)

IInv == TypeOK /\ HistoryInv

\* The snapshot on the screen, if there is one, is where the index says.
LEMMA ScreenFacts ==
  ASSUME IInv
  PROVE  \/ history = NoHistory /\ screen = NoGraph /\ history.index = -1
         \/ /\ Showing(history.stack, history.index)
            /\ screen = history.stack[history.index + 1]
            /\ screen \in Graphs /\ screen # NoGraph
            /\ history.index \in Nat
<1>1. CASE history = NoHistory
  BY <1>1 DEF screen, Shown, NoHistory
<1>2. CASE Showing(history.stack, history.index)
  <2>1. screen = history.stack[history.index + 1] /\ history.index \in Nat
    BY <1>2 DEF screen, Shown, Showing
  <2> QED
    BY <1>2, <2>1, Parts, EditorAssumption
<1> QED
  BY <1>1, <1>2 DEF IInv, HistoryInv

\* A save under way carries what the page may store.
LEMMA SaveFacts ==
  ASSUME IInv, NEW s \in Saves, save[s] # NoSave
  PROVE  /\ save[s] \in SaveRecord
         /\ save[s].graph \in Graphs /\ save[s].settings \in Settings
         /\ save[s].triggers \in Triggers /\ save[s].index \in Nat /\ save[s].version \in Nat
<1>1. save[s] \in SaveRecord
  BY DEF IInv, TypeOK
<1> QED
  BY <1>1 DEF SaveRecord

\* A history that shows a snapshot is a record of the right type.
LEMMA HistoryTyped ==
  ASSUME NEW st, NEW i, Showing(st, i)
  PROVE  [stack |-> st, index |-> i] \in Histories(Graphs) /\ i >= -1
  BY DEF Histories, Showing

\* A load makes a history of one graph, with nothing to undo or redo.
LEMMA LoadedHistory ==
  ASSUME NEW g \in Graphs
  PROVE  LET h == SetInitial(g)
         IN  /\ Showing(h.stack, h.index) /\ h \in Histories(Graphs)
             /\ h.stack[h.index + 1] = g
             /\ PastOf(h.stack, h.index) = <<>> /\ FutureOf(h.stack, h.index) = <<>>
<1>1. <<g>> \in Seq(Graphs) /\ Len(<<g>>) = 1 /\ <<g>>[0 + 1] = g
  OBVIOUS
<1>2. Showing(<<g>>, 0)
  BY <1>1, CapacityAssumption DEF Showing
<1>3. PastOf(<<g>>, 0) = <<>> /\ FutureOf(<<g>>, 0) = <<>>
  BY <1>1, SubSeqEmpty DEF PastOf, FutureOf
<1>4. SetInitial(g).stack = <<g>> /\ SetInitial(g).index = 0
      /\ SetInitial(g) = [stack |-> <<g>>, index |-> 0]
  BY DEF SetInitial
<1> QED
  BY <1>1, <1>2, <1>3, <1>4, HistoryTyped

\* A commit leaves a history that shows a snapshot.
LEMMA CommittedHistory ==
  ASSUME NEW h \in Histories(Graphs), Showing(h.stack, h.index), NEW g \in Graphs
  PROVE  LET n == Commit(h, g)
         IN  /\ Showing(n.stack, n.index) /\ n \in Histories(Graphs)
             /\ n.stack[n.index + 1] = g
             /\ PastOf(n.stack, n.index)
                = Remembering(PastOf(h.stack, h.index), h.stack[h.index + 1])
             /\ FutureOf(n.stack, n.index) = <<>>
<1>1. Commit(h, g) = [stack |-> Pushed(h.stack, h.index, g),
                      index |-> Least(h.index + 1, Capacity - 1)]
  BY DEF Commit, CommitAt
<1> DEFINE p == Pushed(h.stack, h.index, g)
           j == Least(h.index + 1, Capacity - 1)
<1>2. /\ Showing(p, j) /\ p[j + 1] = g
      /\ PastOf(p, j) = Remembering(PastOf(h.stack, h.index), h.stack[h.index + 1])
      /\ FutureOf(p, j) = <<>>
  <2> HIDE DEF p, j
  <2>1. p = Pushed(h.stack, h.index, g) /\ j = Least(h.index + 1, Capacity - 1)
    BY DEF p, j
  <2> QED
    BY <2>1, CommitMoves
<1>3. Commit(h, g).stack = p /\ Commit(h, g).index = j /\ Commit(h, g) = [stack |-> p, index |-> j]
  BY <1>1
<1> HIDE DEF p, j
<1>4. Commit(h, g) \in Histories(Graphs)
  BY <1>2, <1>3, HistoryTyped
<1> QED
  BY <1>2, <1>3, <1>4

\* So does an undo, one place earlier.
LEMMA UndoneHistory ==
  ASSUME NEW h \in Histories(Graphs), Showing(h.stack, h.index), CanUndo(h)
  PROVE  LET n == Undo(h)
         IN  /\ Showing(n.stack, n.index) /\ n \in Histories(Graphs)
             /\ n.stack = h.stack /\ n.index = h.index - 1 /\ h.index > 0
<1>1. Undo(h).stack = h.stack /\ Undo(h).index = h.index - 1 /\ h.index > 0
      /\ Undo(h) = [stack |-> h.stack, index |-> h.index - 1]
  BY DEF Undo, CanUndo, Histories
<1> QED
  BY <1>1, UndoMoves, HistoryTyped

\* So does a redo, one place later.
LEMMA RedoneHistory ==
  ASSUME NEW h \in Histories(Graphs), Showing(h.stack, h.index), CanRedo(h)
  PROVE  LET n == Redo(h)
         IN  /\ Showing(n.stack, n.index) /\ n \in Histories(Graphs)
             /\ n.stack = h.stack /\ n.index = h.index + 1 /\ h.index < Len(h.stack) - 1
<1>1. Redo(h).stack = h.stack /\ Redo(h).index = h.index + 1 /\ h.index < Len(h.stack) - 1
      /\ Redo(h) = [stack |-> h.stack, index |-> h.index + 1]
  BY DEF Redo, CanRedo, Histories
<1> QED
  BY <1>1, RedoMoves, HistoryTyped

\* Only these steps touch the history.
KeepsHistory ==
  \/ LoadFails \/ ChangeLanguage
  \/ \E ok \in BOOLEAN : LoadTriggers(ok)
  \/ \E s \in Settings : EditSettings(s)
  \/ \E ts \in Triggers : EditTriggers(ts)
  \/ \E s \in Saves : Save(s) \/ Arrives(s) \/ ConfigSaved(s) \/ SaveFails(s)
  \/ \E s \in Saves, ok \in BOOLEAN : SaveEnds(s, ok)

\* The invariant holds before the page has loaded.
LEMMA InitInvariant == Init => IInv
<1> SUFFICES ASSUME Init PROVE IInv
  OBVIOUS
<1>1. history \in Histories(Graphs) /\ history.index >= -1 /\ HistoryInv
  BY EmptySeq DEF Init, NoHistory, Histories, HistoryInv
<1>2. server \in [graph : Graphs, settings : Settings, triggers : Triggers, version : Nat]
  BY DEF Init
<1>3. save \in [Saves -> SaveRecord \cup {NoSave}]
  BY DEF Init
<1>4. /\ settings \in Settings /\ triggers \in Triggers
      /\ saved = None /\ metaDirty \in BOOLEAN /\ pipeline = None
      /\ loading = "get" /\ edits = 0 /\ loads = 1 /\ stale \in BOOLEAN
  BY EditorAssumption DEF Init
<1>5. edits \in 0..MaxEdits /\ loads \in Nat
  BY <1>4, EditorAssumption
<1> QED
  BY <1>1, <1>2, <1>3, <1>4, <1>5 DEF IInv, TypeOK

\* Steps that leave the history alone keep the types of the rest.
LEMMA KeepsInvariant == IInv /\ KeepsHistory => IInv' /\ UNCHANGED history
<1> SUFFICES ASSUME IInv, KeepsHistory PROVE IInv' /\ UNCHANGED history
  OBVIOUS
<1>1. UNCHANGED history => (history \in Histories(Graphs) /\ history.index >= -1 /\ HistoryInv)'
  BY DEF IInv, TypeOK, HistoryInv
<1>2. CASE LoadFails
  BY <1>1, <1>2 DEF LoadFails, IInv, TypeOK, pageVars
<1>11. CASE ChangeLanguage
  BY <1>1, <1>11 DEF ChangeLanguage, IInv, TypeOK, pageVars
<1>3. ASSUME NEW ok \in BOOLEAN, LoadTriggers(ok) PROVE IInv' /\ UNCHANGED history
  <2>1. triggers' \in Triggers
    BY <1>3 DEF LoadTriggers, IInv, TypeOK
  <2>2. stale' \in BOOLEAN
    BY <1>3 DEF LoadTriggers
  <2> QED
    BY <1>1, <1>3, <2>1, <2>2 DEF LoadTriggers, IInv, TypeOK
<1>4. CASE \E s \in Settings : EditSettings(s)
  BY <1>1, <1>4 DEF EditSettings, IInv, TypeOK
<1>5. CASE \E ts \in Triggers : EditTriggers(ts)
  BY <1>1, <1>5 DEF EditTriggers, IInv, TypeOK
<1>6. ASSUME NEW s \in Saves, Save(s) PROVE IInv' /\ UNCHANGED history
  <2>1. screen \in Graphs /\ history.index \in Nat
    BY <1>6, ScreenFacts DEF Save
  <2>2. [stage |-> "config", graph |-> screen, settings |-> settings, triggers |-> triggers,
         index |-> history.index, arrived |-> FALSE, version |-> 0] \in SaveRecord
    BY <2>1 DEF IInv, TypeOK, SaveRecord, SaveStages
  <2> QED
    BY <1>1, <1>6, <2>2 DEF Save, IInv, TypeOK, pageVars
<1>7. ASSUME NEW s \in Saves, Arrives(s) PROVE IInv' /\ UNCHANGED history
  <2>1. server' \in [graph : Graphs, settings : Settings, triggers : Triggers, version : Nat]
    <3>1. server.version \in Nat /\ server \in [graph : Graphs, settings : Settings,
                                              triggers : Triggers, version : Nat]
      BY DEF IInv, TypeOK
    <3>2. CASE save[s].stage = "config"
      <4>1. server' = [server EXCEPT !.graph = save[s].graph, !.settings = save[s].settings,
                                     !.version = server.version + 1]
        BY <1>7, <3>1, <3>2 DEF Arrives
      <4>2. save[s].graph \in Graphs /\ save[s].settings \in Settings
        BY <1>7, SaveFacts DEF Arrives
      <4>3. server' = [graph |-> save[s].graph, settings |-> save[s].settings,
                       triggers |-> server.triggers, version |-> server.version + 1]
        BY <3>1, <4>1
      <4> QED
        BY <3>1, <4>2, <4>3
    <3>3. CASE save[s].stage # "config"
      BY <1>7, <3>1, <3>3, SaveFacts DEF Arrives
    <3> QED
      BY <3>2, <3>3
  <2>2. [save[s] EXCEPT !.arrived = TRUE, !.version = server'.version] \in SaveRecord
    BY <1>7, <2>1, SaveFacts DEF Arrives, SaveRecord
  <2>3. save' = [save EXCEPT ![s] = [save[s] EXCEPT !.arrived = TRUE, !.version = server'.version]]
    BY <1>7 DEF Arrives, IInv, TypeOK
  <2> QED
    BY <1>1, <1>7, <2>1, <2>2, <2>3 DEF Arrives, IInv, TypeOK, pageVars
<1>8. ASSUME NEW s \in Saves, ConfigSaved(s) PROVE IInv' /\ UNCHANGED history
  <2>1. [save[s] EXCEPT !.stage = "triggers", !.arrived = FALSE] \in SaveRecord
    BY <1>8, SaveFacts DEF ConfigSaved, SaveRecord, SaveStages
  <2>2. save' = [save EXCEPT ![s] = [save[s] EXCEPT !.stage = "triggers", !.arrived = FALSE]]
    BY <1>8 DEF ConfigSaved, IInv, TypeOK
  <2> QED
    BY <1>1, <1>8, <2>1, <2>2 DEF ConfigSaved, IInv, TypeOK, pageVars
<1>9. ASSUME NEW s \in Saves, SaveFails(s) PROVE IInv' /\ UNCHANGED history
  BY <1>1, <1>9 DEF SaveFails, IInv, TypeOK, pageVars
<1>10. ASSUME NEW s \in Saves, NEW ok \in BOOLEAN, SaveEnds(s, ok) PROVE IInv' /\ UNCHANGED history
  BY <1>1, <1>10, SaveFacts DEF SaveEnds, IInv, TypeOK
<1> QED
  BY <1>2, <1>3, <1>4, <1>5, <1>6, <1>7, <1>8, <1>9, <1>10, <1>11 DEF KeepsHistory

\* A load is a Load: nothing before it can be undone.
LEMMA LoadStep == IInv /\ LoadRow => IInv' /\ Abstract!Load
<1> SUFFICES ASSUME IInv, LoadRow PROVE IInv' /\ Abstract!Load
  OBVIOUS
<1>1. server.graph \in Graphs /\ history' = SetInitial(server.graph)
  BY DEF IInv, TypeOK, LoadRow
<1>2. IInv'
  BY <1>1, LoadedHistory DEF LoadRow, IInv, TypeOK, HistoryInv, Showing
<1>3. screen' = server.graph
  BY <1>1, LoadedHistory DEF screen, Shown, Showing
<1> QED
  BY <1>1, <1>2, <1>3, LoadedHistory DEF Abstract!Load, PastOf, FutureOf

\* An edit of a loaded page is an Edit.
LEMMA EditStep ==
  ASSUME NEW g \in Graphs PROVE IInv /\ EditGraph(g) => IInv' /\ Abstract!Edit
<1> SUFFICES ASSUME IInv, EditGraph(g) PROVE IInv' /\ Abstract!Edit
  OBVIOUS
<1>1. /\ Showing(history.stack, history.index) /\ screen = history.stack[history.index + 1]
      /\ screen # NoGraph /\ history \in Histories(Graphs) /\ history' = Commit(history, g)
  BY ScreenFacts DEF EditGraph, IInv, TypeOK
<1>2. LET h == history
          n == history'
      IN  /\ Showing(n.stack, n.index) /\ n \in Histories(Graphs)
          /\ n.stack[n.index + 1] = g
          /\ PastOf(n.stack, n.index)
             = Remembering(PastOf(h.stack, h.index), h.stack[h.index + 1])
          /\ FutureOf(n.stack, n.index) = <<>>
  BY <1>1, CommittedHistory
<1>3. IInv'
  BY <1>2, EditorAssumption DEF EditGraph, IInv, TypeOK, HistoryInv, Showing
<1>4. screen' = g
  BY <1>2 DEF screen, Shown, Showing
<1> QED
  BY <1>1, <1>2, <1>3, <1>4 DEF Abstract!Edit, PastOf, FutureOf, Remembering

\* Undo is an Undo.
LEMMA UndoStep == IInv /\ StepBack => IInv' /\ Abstract!Undo
<1> SUFFICES ASSUME IInv, StepBack PROVE IInv' /\ Abstract!Undo
  OBVIOUS
<1>1. /\ Showing(history.stack, history.index) /\ screen = history.stack[history.index + 1]
      /\ history \in Histories(Graphs) /\ CanUndo(history) /\ history' = Undo(history)
  BY ScreenFacts DEF StepBack, CanUndo, IInv, TypeOK
<1>2. /\ Showing(history'.stack, history'.index) /\ history' \in Histories(Graphs)
      /\ history'.stack = history.stack /\ history'.index = history.index - 1
      /\ history.index > 0
  BY <1>1, UndoneHistory
<1>3. IInv'
  BY <1>2 DEF StepBack, IInv, TypeOK, HistoryInv, Showing
<1>4. /\ history'.stack[history'.index + 1]
         = PastOf(history.stack, history.index)[Len(PastOf(history.stack, history.index))]
      /\ PastOf(history'.stack, history'.index)
         = SubSeq(PastOf(history.stack, history.index), 1,
                  Len(PastOf(history.stack, history.index)) - 1)
      /\ FutureOf(history'.stack, history'.index)
         = <<screen>> \o FutureOf(history.stack, history.index)
      /\ PastOf(history.stack, history.index) # <<>>
  <2> DEFINE s == history.stack
             i == history.index
  <2>1. Showing(s, i) /\ i > 0
    BY <1>1, <1>2
  <2> HIDE DEF s, i
  <2>2. /\ s[(i - 1) + 1] = PastOf(s, i)[Len(PastOf(s, i))]
        /\ PastOf(s, i - 1) = SubSeq(PastOf(s, i), 1, Len(PastOf(s, i)) - 1)
        /\ FutureOf(s, i - 1) = <<s[i + 1]>> \o FutureOf(s, i)
        /\ PastOf(s, i) # <<>>
    BY <2>1, UndoMoves
  <2> QED
    BY <1>1, <1>2, <2>2 DEF s, i
<1>5. screen' = history'.stack[history'.index + 1]
  BY <1>2 DEF screen, Shown, Showing
<1> QED
  BY <1>3, <1>4, <1>5 DEF Abstract!Undo, PastOf, FutureOf

\* Redo is a Redo.
LEMMA RedoStep == IInv /\ StepForward => IInv' /\ Abstract!Redo
<1> SUFFICES ASSUME IInv, StepForward PROVE IInv' /\ Abstract!Redo
  OBVIOUS
<1>1. /\ Showing(history.stack, history.index) /\ screen = history.stack[history.index + 1]
      /\ history \in Histories(Graphs) /\ CanRedo(history) /\ history' = Redo(history)
  BY ScreenFacts DEF StepForward, CanRedo, IInv, TypeOK
<1>2. /\ Showing(history'.stack, history'.index) /\ history' \in Histories(Graphs)
      /\ history'.stack = history.stack /\ history'.index = history.index + 1
      /\ history.index < Len(history.stack) - 1
  BY <1>1, RedoneHistory
<1>3. IInv'
  BY <1>2 DEF StepForward, IInv, TypeOK, HistoryInv, Showing
<1>4. /\ FutureOf(history.stack, history.index) # <<>>
      /\ history'.stack[history'.index + 1] = Head(FutureOf(history.stack, history.index))
      /\ FutureOf(history'.stack, history'.index) = Tail(FutureOf(history.stack, history.index))
      /\ PastOf(history'.stack, history'.index)
         = Append(PastOf(history.stack, history.index), screen)
  BY <1>1, <1>2, RedoMoves
<1>5. screen' = history'.stack[history'.index + 1]
  BY <1>2 DEF screen, Shown, Showing
<1> QED
  BY <1>3, <1>4, <1>5 DEF Abstract!Redo, PastOf, FutureOf

\* Every step keeps the invariant and is a step of UndoStack or a stutter.
LEMMA StepFacts == IInv /\ [Next]_vars => IInv' /\ [Abstract!Next]_(Abstract!vars)
<1> SUFFICES ASSUME IInv, [Next]_vars PROVE IInv' /\ [Abstract!Next]_(Abstract!vars)
  OBVIOUS
<1>1. UNCHANGED history => UNCHANGED Abstract!vars
  BY DEF Abstract!vars, screen
<1>2. CASE KeepsHistory
  BY <1>1, <1>2, KeepsInvariant
<1>3. CASE LoadRow
  BY <1>3, LoadStep DEF Abstract!Next
<1>4. CASE \E g \in Graphs : EditGraph(g)
  BY <1>4, EditStep DEF Abstract!Next
<1>5. CASE StepBack
  BY <1>5, UndoStep DEF Abstract!Next
<1>6. CASE StepForward
  BY <1>6, RedoStep DEF Abstract!Next
<1>7. CASE UNCHANGED vars
  BY <1>1, <1>7 DEF vars, pageVars, IInv, TypeOK, HistoryInv
<1> QED
  BY <1>2, <1>3, <1>4, <1>5, <1>6, <1>7 DEF Next, KeepsHistory

-----------------------------------------------------------------------------
(***************************************************************************)
(* What is called saved                                                    *)
(***************************************************************************)
\* The snapshot called saved is the stored graph, and so is the rest unless it
\* is called changed.
Stored ==
  /\ saved \in Nat /\ saved < Len(history.stack) /\ history.stack[saved + 1] = server.graph
  /\ ~metaDirty => settings = server.settings /\ triggers = server.triggers

\* A save under way stores what is on the page: before it arrives the server has
\* what it had, then the configuration, then the triggers.
Storing(s) ==
  /\ save[s].settings = settings /\ save[s].triggers = triggers
  /\ save[s].index < Len(history.stack) /\ history.stack[save[s].index + 1] = save[s].graph
  /\ save[s].stage = "config" /\ ~save[s].arrived => Stored
  /\ save[s].stage = "triggers" \/ save[s].arrived =>
       server.graph = save[s].graph /\ server.settings = save[s].settings
  /\ save[s].stage = "triggers" /\ save[s].arrived => server.triggers = save[s].triggers

\* As long as nothing happened that the page cannot see: one save at a time, on a
\* loaded page.
CleanInv ==
  ~stale =>
    /\ \A s, t \in Saves : save[s] # NoSave /\ save[t] # NoSave => s = t
    /\ Busy => loading = "idle"
    /\ loading = "idle" /\ ~Busy => Stored
    /\ \A s \in Saves : save[s] # NoSave => Storing(s)

\* A commit above the saved snapshot, on a stack that is not full, keeps it.
LEMMA CommitKeepsSaved ==
  ASSUME NEW s, NEW i, NEW g \in Graphs, Showing(s, i), i # Capacity - 1, NEW k \in Nat, k <= i
  PROVE  LET p == Pushed(s, i, g) IN k < Len(p) /\ p[k + 1] = s[k + 1]
<1> DEFINE kept == SubSeq(s, 1, i + 1)
<1>1. Len(s) \in Nat /\ i \in Nat /\ i < Len(s) /\ i + 2 <= Capacity /\ Capacity \in Nat
  BY CapacityAssumption, LenProperties DEF Showing
<1>2. \A n \in 1..i + 1 : s[n] \in Graphs
  BY <1>1, ElementOfSeq DEF Showing
<1>3. kept \in Seq(Graphs) /\ Len(kept) = i + 1 /\ \A n \in 1..i + 1 : kept[n] = s[n]
  <2>1. /\ kept \in Seq(Graphs) /\ Len(kept) = (IF 1 <= i + 1 THEN (i + 1) - 1 + 1 ELSE 0)
        /\ \A n \in 1..(i + 1) - 1 + 1 : kept[n] = s[1 + n - 1]
    BY <1>1, <1>2, SubSeqProperties, 1 \in Int, i + 1 \in Int
  <2> HIDE DEF kept
  <2>2. \A n \in 1..i + 1 : 1 + n - 1 = n
    BY <1>1
  <2> QED
    BY <1>1, <2>1, <2>2
<1>4. Len(Append(kept, g)) = i + 2 /\ \A n \in 1..i + 1 : Append(kept, g)[n] = kept[n]
  BY <1>1, <1>3, AppendProperties
<1>5. Pushed(s, i, g) = Append(kept, g)
  <2>1. Pushed(s, i, g) = IF Len(Append(kept, g)) > Capacity THEN Tail(Append(kept, g)) ELSE Append(kept, g)
    BY Zenon DEF Pushed
  <2> HIDE DEF kept
  <2> QED
    BY <1>1, <1>4, <2>1
<1> HIDE DEF kept
<1> QED
  BY <1>1, <1>3, <1>4, <1>5

\* It holds before the page has loaded.
LEMMA CleanInit == Init => CleanInv
  BY DEF Init, CleanInv, Busy

\* A load is seen, as are the answers that end one.
LEMMA CleanLoads ==
  ASSUME IInv, CleanInv, LoadRow \/ LoadFails \/ ChangeLanguage \/ \E ok \in BOOLEAN : LoadTriggers(ok)
  PROVE  CleanInv'
<1>1. CASE LoadRow \/ LoadFails
  BY <1>1 DEF LoadRow, LoadFails, CleanInv, Busy
<1>2. CASE ChangeLanguage
  BY <1>2 DEF ChangeLanguage, CleanInv, Busy
<1>3. ASSUME NEW ok \in BOOLEAN, LoadTriggers(ok) PROVE CleanInv'
  <2> SUFFICES ASSUME ~stale' PROVE CleanInv'
    BY DEF CleanInv
  <2>1. ok /\ ~Busy /\ history = SetInitial(server.graph) /\ settings = server.settings
    BY <1>3 DEF LoadTriggers
  <2>2. save' = save /\ history' = history /\ server' = server /\ settings' = settings
        /\ saved' = 0 /\ triggers' = server.triggers /\ loading' = "idle"
    BY <1>3, <2>1 DEF LoadTriggers
  <2>3. history.stack = <<server.graph>>
    BY <2>1 DEF SetInitial
  <2>4. Stored'
    BY <2>1, <2>2, <2>3 DEF Stored
  <2> QED
    BY <2>1, <2>2, <2>4 DEF CleanInv, Busy
<1> QED
  BY <1>1, <1>2, <1>3

\* An edit that is seen leaves the saved snapshot, or calls the page changed.
LEMMA CleanEdits ==
  ASSUME IInv, CleanInv,
         (\E g \in Graphs : EditGraph(g)) \/ (\E s \in Settings : EditSettings(s)) \/ \E ts \in Triggers : EditTriggers(ts)
  PROVE  CleanInv'
<1> SUFFICES ASSUME ~stale' PROVE CleanInv'
  BY DEF CleanInv
<1>1. ~stale /\ ~Busy /\ save' = save /\ server' = server /\ saved' = saved /\ loading' = loading
  BY DEF EditGraph, EditSettings, EditTriggers
<1>2. ~Busy'
  BY <1>1 DEF Busy
<1>3. loading = "idle" => Stored'
  <2> SUFFICES ASSUME loading = "idle" PROVE Stored'
    OBVIOUS
  <2>1. Stored
    BY <1>1 DEF CleanInv
  <2>2. ASSUME NEW g \in Graphs, EditGraph(g) PROVE Stored'
    <3>1. /\ Showing(history.stack, history.index) /\ history' = Commit(history, g)
          /\ ~MovesSaved /\ settings' = settings /\ triggers' = triggers /\ metaDirty' = metaDirty
      BY <2>2, ScreenFacts DEF EditGraph
    <3>2. history'.stack = Pushed(history.stack, history.index, g)
      BY <3>1 DEF Commit, CommitAt
    <3>3. saved \in Nat /\ saved <= history.index /\ history.index # Capacity - 1
      BY <2>1, <3>1 DEF MovesSaved, Stored, Showing
    <3>4. saved < Len(history'.stack) /\ history'.stack[saved + 1] = history.stack[saved + 1]
      BY <3>1, <3>2, <3>3, CommitKeepsSaved
    <3> QED
      BY <1>1, <2>1, <3>1, <3>4 DEF Stored
  <2>3. CASE ~\E g \in Graphs : EditGraph(g)
    BY <1>1, <2>1, <2>3 DEF EditSettings, EditTriggers, Stored
  <2> QED
    BY <2>2, <2>3
<1> QED
  BY <1>1, <1>2, <1>3 DEF CleanInv, Busy

\* Undo and redo leave the stack as it is.
LEMMA CleanUndo == ASSUME IInv, CleanInv, StepBack \/ StepForward PROVE CleanInv'
<1>1. history'.stack = history.stack
  BY DEF StepBack, StepForward, Undo, Redo, IInv, TypeOK, Histories
<1>2. UNCHANGED <<settings, triggers, saved, metaDirty, loading, save, server, stale>>
  BY DEF StepBack, StepForward
<1>3. Stored' = Stored /\ (Busy' <=> Busy)
  BY <1>1, <1>2 DEF Stored, Busy
<1>4. \A s \in Saves : Storing(s) => Storing(s)'
  BY <1>1, <1>2, <1>3 DEF Storing
<1> QED
  BY <1>2, <1>3, <1>4 DEF CleanInv

\* The steps of a save.
LEMMA CleanSaves ==
  ASSUME IInv, CleanInv, NEW s \in Saves,
         Save(s) \/ Arrives(s) \/ ConfigSaved(s) \/ SaveFails(s) \/ \E ok \in BOOLEAN : SaveEnds(s, ok)
  PROVE  CleanInv'
<1> SUFFICES ASSUME ~stale' PROVE CleanInv'
  BY DEF CleanInv
<1>1. /\ ~stale /\ history' = history /\ settings' = settings /\ triggers' = triggers /\ loading' = loading
      /\ DOMAIN save = Saves /\ DOMAIN save' = Saves /\ \A t \in Saves : t # s => save'[t] = save[t]
  BY DEF Save, Arrives, ConfigSaved, SaveFails, SaveEnds, pageVars, IInv, TypeOK
<1>2. CASE Save(s)
  <2>1. ~Busy /\ loading = "idle" /\ UNCHANGED <<saved, metaDirty, server>>
    BY <1>2 DEF Save, pageVars
  <2>2. Stored /\ Stored'
    BY <1>1, <2>1 DEF CleanInv, Stored
  <2> DEFINE r == [stage |-> "config", graph |-> screen, settings |-> settings, triggers |-> triggers,
                   index |-> history.index, arrived |-> FALSE, version |-> 0]
  <2>3. save'[s] = r
    BY <1>1, <1>2 DEF Save
  <2>4. history.index < Len(history.stack) /\ history.stack[history.index + 1] = screen
    BY <1>2, ScreenFacts DEF Save, Showing
  <2>5. Storing(s)'
    BY <1>1, <2>2, <2>3, <2>4 DEF Storing
  <2>6. \A t \in Saves : t # s => save'[t] = NoSave
    BY <1>1, <2>1 DEF Busy
  <2>7. save'[s] # NoSave
    BY <2>3 DEF NoSave
  <2> QED
    BY <1>1, <2>1, <2>5, <2>6, <2>7 DEF CleanInv, Busy
<1>3. CASE ~Save(s)
  <2>1. save[s] # NoSave /\ save[s] \in SaveRecord /\ Storing(s) /\ loading = "idle"
    BY <1>1, <1>3, SaveFacts DEF Arrives, ConfigSaved, SaveFails, SaveEnds, CleanInv, Busy
  <2>2. \A t \in Saves : t # s => save'[t] = NoSave
    BY <1>1, <2>1 DEF CleanInv
  <2>3. CASE Arrives(s)
    <3>1. /\ ~save[s].arrived /\ saved' = saved /\ metaDirty' = metaDirty
          /\ save'[s] = [save[s] EXCEPT !.arrived = TRUE, !.version = server'.version]
      BY <1>1, <2>3 DEF Arrives, pageVars
    <3>2. /\ save'[s].arrived /\ save'[s].stage = save[s].stage /\ save'[s].graph = save[s].graph
          /\ save'[s].settings = save[s].settings /\ save'[s].triggers = save[s].triggers
          /\ save'[s].index = save[s].index /\ save'[s] # NoSave
      BY <2>1, <3>1 DEF SaveRecord, NoSave
    <3>3. CASE save[s].stage = "config"
      <4>1. server'.graph = save[s].graph /\ server'.settings = save[s].settings
        BY <2>3, <3>3 DEF Arrives, IInv, TypeOK
      <4>2. Storing(s)'
        BY <1>1, <2>1, <3>2, <3>3, <4>1 DEF Storing
      <4> QED
        BY <1>1, <2>1, <2>2, <3>2, <4>2 DEF CleanInv, Busy
    <3>4. CASE save[s].stage # "config"
      <4>1. /\ server'.graph = server.graph /\ server'.settings = server.settings
            /\ server'.triggers = save[s].triggers /\ save[s].stage = "triggers"
        BY <2>1, <2>3, <3>4 DEF Arrives, IInv, TypeOK, SaveRecord, SaveStages
      <4>2. Storing(s)'
        BY <1>1, <2>1, <3>2, <4>1 DEF Storing
      <4> QED
        BY <1>1, <2>1, <2>2, <3>2, <4>2 DEF CleanInv, Busy
    <3> QED
      BY <3>3, <3>4
  <2>4. CASE ConfigSaved(s)
    <3>1. /\ save[s].arrived /\ server' = server
          /\ save'[s] = [save[s] EXCEPT !.stage = "triggers", !.arrived = FALSE]
      BY <1>1, <2>4 DEF ConfigSaved
    <3>2. /\ ~save'[s].arrived /\ save'[s].stage = "triggers" /\ save'[s].graph = save[s].graph
          /\ save'[s].settings = save[s].settings /\ save'[s].triggers = save[s].triggers
          /\ save'[s].index = save[s].index /\ save'[s] # NoSave
      <4>1. DOMAIN save[s] = {"stage", "graph", "settings", "triggers", "index", "arrived", "version"}
        BY <2>1 DEF SaveRecord
      <4> HIDE <1>1, <2>1
      <4>2. /\ ~save'[s].arrived /\ save'[s].stage = "triggers" /\ save'[s].graph = save[s].graph
            /\ save'[s].settings = save[s].settings /\ save'[s].triggers = save[s].triggers
            /\ save'[s].index = save[s].index
        BY <3>1, <4>1
      <4>3. save'[s] # NoSave
        BY <4>2 DEF NoSave
      <4> QED
        BY <4>2, <4>3
    <3>3. Storing(s)'
      BY <1>1, <2>1, <3>1, <3>2 DEF Storing
    <3> QED
      BY <1>1, <2>1, <2>2, <3>2, <3>3 DEF CleanInv, Busy
  <2>5. CASE SaveFails(s)
    <3>1. /\ save'[s] = NoSave /\ ~save[s].arrived /\ save[s].stage = "config"
          /\ server' = server /\ saved' = saved /\ metaDirty' = metaDirty
      BY <1>1, <2>1, <2>5 DEF SaveFails, pageVars, SaveRecord
    <3>2. Stored'
      BY <1>1, <2>1, <3>1 DEF Storing, Stored
    <3> QED
      BY <1>1, <2>2, <3>1, <3>2 DEF CleanInv, Busy
  <2>6. ASSUME NEW ok \in BOOLEAN, SaveEnds(s, ok) PROVE CleanInv'
    <3>1. /\ ok /\ save'[s] = NoSave /\ save[s].arrived /\ save[s].stage = "triggers"
          /\ server' = server /\ saved' = save[s].index
      BY <1>1, <2>6 DEF SaveEnds
    <3>2. Stored'
      BY <1>1, <2>1, <3>1, SaveFacts DEF Storing, Stored
    <3> QED
      BY <1>1, <2>2, <3>1, <3>2 DEF CleanInv, Busy
  <2> QED
    BY <1>3, <2>3, <2>4, <2>5, <2>6
<1> QED
  BY <1>2, <1>3

\* Every step of the page keeps it.
LEMMA CleanStep == IInv /\ CleanInv /\ [Next]_vars => CleanInv'
<1> SUFFICES ASSUME IInv, CleanInv, [Next]_vars PROVE CleanInv'
  OBVIOUS
<1>1. CASE UNCHANGED vars
  BY <1>1 DEF vars, pageVars, CleanInv, Busy, Stored, Storing
<1>2. CASE Next
  BY <1>2, CleanLoads, CleanEdits, CleanUndo, CleanSaves DEF Next
<1> QED
  BY <1>1, <1>2

\* A clean page at rest shows what is stored.
LEMMA CleanEnough == IInv /\ CleanInv => CleanIsStored
<1> SUFFICES ASSUME IInv, CleanInv, loading = "idle", ~Busy, ~stale, ~Dirty
             PROVE  screen = server.graph /\ settings = server.settings /\ triggers = server.triggers
  BY DEF CleanIsStored
<1>1. Stored /\ saved = history.index /\ ~metaDirty
  BY DEF CleanInv, Dirty, Stored, None
<1>2. screen = history.stack[history.index + 1]
  BY <1>1, ScreenFacts DEF Stored
<1> QED
  BY <1>1, <1>2 DEF Stored

-----------------------------------------------------------------------------
(***************************************************************************)
(* Theorems                                                                *)
(***************************************************************************)
\* The inductive invariant holds.
THEOREM Invariant == Spec => []IInv
  BY InitInvariant, StepFacts, PTL DEF Spec

\* Type correctness of the editor.
THEOREM TypeCorrect == Spec => []TypeOK
  BY Invariant, PTL DEF IInv

\* A loaded editor always shows a graph (use-graph-history.ts, `current`).
THEOREM AlwaysAGraph == Spec => []HistoryInBounds
<1>1. IInv => HistoryInBounds
  BY DEF IInv, HistoryInv, HistoryInBounds, InBounds, Loaded, Showing, NoHistory
<1> QED
  BY <1>1, Invariant, PTL

\* A page that calls itself clean shows the graph, the settings and the triggers
\* that are stored (edit/page.tsx, `dirty`), with the exceptions it names.
THEOREM CleanPageIsStored == Spec => []CleanIsStored
<1>1. Spec => []CleanInv
  BY CleanInit, CleanStep, Invariant, PTL DEF Spec
<1> QED
  BY <1>1, CleanEnough, Invariant, PTL

\* What the user of the editor sees of undo and redo is UndoStack, for every
\* capacity: the past is what was edited, the oldest forgotten first, an undo
\* is undone by a redo, and an edit forgets what could be redone.
THEOREM UndoRefinement == Spec => Abstract!Spec
<1>1. Init => Abstract!Init
  <2> SUFFICES ASSUME Init PROVE Abstract!Init
    OBVIOUS
  <2>1. history.stack = <<>> /\ history.index = -1 /\ screen = NoGraph
    BY DEF Init, NoHistory, screen, Shown
  <2>2. SubSeq(<<>>, 1, -1) = <<>> /\ SubSeq(<<>>, -1 + 2, Len(<<>>)) = <<>>
    BY SubSeqEmpty, EmptySeq
  <2> QED
    BY <2>1, <2>2 DEF Abstract!Init
<1> QED
  BY <1>1, StepFacts, Invariant, PTL DEF Spec, Abstract!Spec
=============================================================================

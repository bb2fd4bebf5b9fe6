--------------------------- MODULE BackfillDialog ---------------------------
(***************************************************************************)
(* The backfill dialog of the pipelines list (components/pipelines/         *)
(* backfill-dialog.tsx) with the boundaries it suggests (lib/               *)
(* backfill-suggest.ts): the user opens it for one pipeline or another,     *)
(* asks for a suggestion, and queues one run per window (from, to].         *)
(* Cursors are integers; From, the split points and To are one sequence.    *)
(***************************************************************************)
EXTENDS Browser, SequencesExt

CONSTANTS Tables,      \* pipelines, each with a table: small numbers
          Cursors,     \* the cursor values rows may have
          Windows      \* how many windows a suggestion aims at

Nobody == 0
Blank == <<>>

Least(S) == CHOOSE x \in S : \A y \in S : x <= y
Greatest(S) == CHOOSE x \in S : \A y \in S : x >= y

------------------------------------------------------------------------------
(* Suggestions *)

\* Collapses rounding collisions: what does not rise above the last is dropped.
DedupeIncreasing(points) ==
  LET keep(out, p) == IF out = <<>> \/ p > Last(out) THEN Append(out, p) ELSE out
      kept == FoldLeft(keep, <<>>, points)
  IN  IF Len(kept) >= 2 THEN kept ELSE Blank

\* The arithmetic split of min..max: the first boundary lies below min.
Rounded(min, max, k) == min + (2 * k * (max - min) + Windows) \div (2 * Windows)
SuggestBoundaries(min, max) ==
  IF max <= min THEN Blank
  ELSE DedupeIncreasing(<<min - 1>> \o [k \in 1..(Windows - 1) |-> Rounded(min, max, k)] \o <<max>>)

\* Mutant: the first window starts at the oldest row, which it leaves out.
BoundariesFromQuantiles_NoNudge(min, quantiles) == DedupeIncreasing(<<min>> \o quantiles)

\* The server's buckets of equal row counts, by their upper bounds.
BoundariesFromQuantiles(min, quantiles) == DedupeIncreasing(<<min - 1>> \o quantiles)

\* NTILE over the sorted cursors: the first buckets take one row more.
Quantiles(rows) ==
  LET sorted == SetToSortSeq(rows, <)
      n == Len(sorted)
      upto[b \in 0..Windows] == IF b = 0 THEN 0 ELSE upto[b-1] + n \div Windows + (IF b <= n % Windows THEN 1 ELSE 0)
      filled == SetToSortSeq({b \in 1..Windows : upto[b] > upto[b-1]}, <)
  IN  [i \in DOMAIN filled |-> sorted[upto[filled[i]]]]

\* Quantiles when the server has two of them at least, else the arithmetic split.
Suggestion(stats) ==
  IF Len(stats.quantiles) >= 2 THEN BoundariesFromQuantiles(stats.min, stats.quantiles)
  ELSE SuggestBoundaries(stats.min, stats.max)

------------------------------------------------------------------------------
\* srv: the rows of each table, whether its engine answers NTILE, and the
\* windows queued for it, counted.
Init ==
  /\ \E some \in SUBSET Cursors \ {{}}, ntile \in BOOLEAN :
       srv = [rows |-> [p \in Tables |-> IF p = 1 THEN some ELSE Cursors], ntile |-> ntile, queued |-> [p \in Tables |-> <<>>]]
  /\ ui = [open |-> Nobody, bounds |-> Blank, suggesting |-> FALSE, submitting |-> FALSE]
  /\ net = <<>> /\ clicks = 0 /\ noise = {}

\* Every opening, and every change of the pipeline, empties the fields.
Open(p) ==
  /\ Click /\ ui.open = Nobody
  /\ ui' = [ui EXCEPT !.open = p, !.bounds = Blank]
  /\ noise' = IF Out("suggest") \/ Out("submit") THEN noise \cup {"late"} ELSE noise
  /\ UNCHANGED <<net, srv>>

\* Escape and the backdrop close it also while a request is under way.
Close ==
  /\ ui.open # Nobody /\ ui' = [ui EXCEPT !.open = Nobody]
  /\ UNCHANGED <<net, srv, clicks, noise>>

Suggest ==
  /\ Click /\ ui.open # Nobody /\ ~ui.suggesting
  /\ ui' = [ui EXCEPT !.suggesting = TRUE] /\ net' = Sent("suggest", [of |-> ui.open])
  /\ UNCHANGED <<srv, noise>>

\* The answer fills the fields of the dialog as it is now.
SuggestBack ==
  /\ Returned("suggest")
  /\ LET found == IF Answered("suggest") THEN Suggestion(net["suggest"].got) ELSE Blank
     IN  ui' = [ui EXCEPT !.suggesting = FALSE, !.bounds = IF found = Blank THEN @ ELSE found]
  /\ net' = Closed("suggest") /\ UNCHANGED <<srv, clicks, noise>>

\* With split points both ends are needed; without any, one run covers what is
\* above From and up to To, either of which may be left open.
Submit ==
  /\ ui.open # Nobody /\ ~ui.submitting
  /\ ui' = [ui EXCEPT !.submitting = TRUE]
  /\ net' = Sent("submit", [of |-> ui.open, bounds |-> ui.bounds])
  /\ UNCHANGED <<srv, clicks, noise>>

\* A submit that worked closes the dialog that is open now.
SubmitBack ==
  /\ Returned("submit")
  /\ ui' = [ui EXCEPT !.submitting = FALSE, !.open = IF Answered("submit") THEN Nobody ELSE @]
  /\ net' = Closed("submit") /\ UNCHANGED <<srv, clicks, noise>>

\* The user types a split point that rises nowhere: the server refuses it.
TypeSplits ==
  /\ Click /\ ui.open # Nobody
  /\ ui' = [ui EXCEPT !.bounds = <<Least(Cursors), Greatest(Cursors), Greatest(Cursors)>>]
  /\ UNCHANGED <<net, srv, noise>>

------------------------------------------------------------------------------
Increasing(s) == \A i \in 1..(Len(s) - 1) : s[i] < s[i+1]

Serve ==
  \/ LET rows == srv.rows[net["suggest"].arg.of]
     IN  Out("suggest") /\ Handles("suggest", srv,
           [min |-> Least(rows), max |-> Greatest(rows), quantiles |-> IF srv.ntile THEN Quantiles(rows) ELSE <<>>])
  \/ LET asked == net["submit"].arg
     IN  /\ Out("submit") /\ srv.queued[asked.of] = <<>>
         /\ Increasing(asked.bounds)
         /\ Handles("submit", [srv EXCEPT !.queued[asked.of] = IF asked.bounds = Blank THEN <<Least(Cursors) - 2, Greatest(Cursors)>> ELSE asked.bounds], "queued")

Returns == SuggestBack \/ SubmitBack
Clicks == (\E p \in Tables : Open(p)) \/ Close \/ Suggest \/ Submit \/ TypeSplits

Next == Serve \/ Returns \/ Clicks \/ \E k \in DOMAIN net : Breaks(k)

TypeOK ==
  /\ ui.open \in Tables \cup {Nobody} /\ ui.bounds \in Seq(Int)
  /\ DOMAIN net \subseteq {"suggest", "submit"} /\ DOMAIN srv.queued = Tables

\* The windows queued for p that read cursor c.
Reading(p, c) == {i \in 1..(Len(srv.queued[p]) - 1) : srv.queued[p][i] < c /\ c <= srv.queued[p][i+1]}

(* What is queued reads every row of the table exactly once: the windows of a
   suggestion lie below the oldest row, end at the newest and do not overlap,
   also when the split points collide.  A suggestion that comes back into the
   dialog of another pipeline breaks this ("late"). *)
EachRowOnce ==
  "late" \notin noise =>
    \A p \in Tables : srv.queued[p] # <<>> => \A c \in srv.rows[p] : Cardinality(Reading(p, c)) = 1

SpinnersHaveRequests ==
  (ui.suggesting => Out("suggest")) /\ (ui.submitting => Out("submit"))
=============================================================================

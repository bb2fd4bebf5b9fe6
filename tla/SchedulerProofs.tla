--------------------------- MODULE SchedulerProofs ---------------------------
(***************************************************************************)
(* Theorems about Scheduler, for every set of schedules, pipelines and     *)
(* replicas, every cron, every horizon and every number of faults.         *)
(***************************************************************************)
EXTENDS Scheduler, TLAPS

-----------------------------------------------------------------------------
(***************************************************************************)
(* The inductive invariant                                                 *)
(***************************************************************************)
\* What a tick found due is still due: it holds the lock that a retry of the
\* schedule and every other tick would need.
DueInv ==
  \A w \in Replicas, s \in Schedules, i \in Instants :
    <<s, i>> \in tick[w].due => lock[s] = w /\ IsNextFiring(s, i)

\* Only instants of the cron expression are fired.
FiredInv == \A s \in Schedules, i \in Instants : fired[s][i] > 0 => i \in Cron[s]

\* A pipeline a tick found stale has no recent run of the same replica.
StaleInv ==
  \A w \in Replicas, p \in Pipelines :
    p \in tick[w].stale => \A q \in rows[p] : q.by = w => q.at + Sla < tick[w].clock

IInv ==
  /\ TypeOK /\ DueInv /\ FiredInv /\ StaleInv
  /\ NoDoubleFire /\ NoFiringSkipped /\ CooldownPerReplica

-----------------------------------------------------------------------------
(***************************************************************************)
(* What the proofs read of a tick and of croniter                          *)
(***************************************************************************)
\* The fields of a tick.
LEMMA TickFields ==
  ASSUME NEW t \in Ticks
  PROVE  /\ t.on \in BOOLEAN /\ t.clock \in 0..Horizon
         /\ t.due \in SUBSET (Schedules \X Instants)
         /\ t.look \in SUBSET Pipelines /\ t.stale \in SUBSET Pipelines
BY DEF Ticks

\* Idle replicas have found nothing.
LEMMA NoTickFacts == NoTick \in Ticks /\ NoTick.due = {} /\ NoTick.stale = {} /\ ~NoTick.on
BY BoundsAssumption DEF NoTick, Ticks

\* The next firing depends on the runs of its own schedule only.
LEMMA NextFiringStable ==
  ASSUME NEW s \in Schedules, NEW i, fired'[s] = fired[s], retried'[s] = retried[s]
  PROVE  IsNextFiring(s, i)' <=> IsNextFiring(s, i)
BY DEF IsNextFiring, Base, Scheduled

\* A due firing has not been fired.
LEMMA DueIsNew ==
  ASSUME TypeOK, NEW s \in Schedules, NEW i \in Instants, IsNextFiring(s, i)
  PROVE  fired[s][i] = 0 /\ i \in Cron[s]
<1>1. fired[s][i] \in Nat
  BY DEF TypeOK
<1>2. ASSUME fired[s][i] > 0 PROVE FALSE
  <2>1. i \in Base(s)
    BY <1>2 DEF Base, Scheduled
  <2> QED
    BY <2>1 DEF IsNextFiring, Instants
<1> QED
  BY <1>1, <1>2 DEF IsNextFiring

\* Every match of the cron expression before a due firing was fired, or is
\* covered by a retry: the step of NoFiringSkipped from one firing to the next.
LEMMA NothingBeforeDue ==
  ASSUME TypeOK, FiredInv, NoFiringSkipped,
         NEW s \in Schedules, NEW i \in Instants, IsNextFiring(s, i),
         NEW j \in Cron[s], j < i, fired[s][j] = 0
  PROVE  \E t \in retried[s] : j <= t /\ t < i
<1>0. Cron[s] \subseteq Instants /\ j \in Instants
  BY CronAssumption
<1>1. PICK b \in Base(s) : ~(b < j)
  BY <1>0 DEF IsNextFiring, Instants
<1>2. b < i
  BY <1>1 DEF IsNextFiring
<1>3. CASE b \in retried[s]
  <2>1. b \in 0..Horizon
    BY <1>3 DEF TypeOK
  <2> QED
    BY <2>1, <1>0, <1>1, <1>2, <1>3 DEF Instants
<1>4. CASE b = 0
  BY <1>0, <1>1, <1>4 DEF Instants
<1>5. CASE b \in Instants /\ fired[s][b] > 0
  <2>1. b # j /\ j < b
    BY <1>0, <1>1, <1>5 DEF Instants
  <2>2. b \in Cron[s]
    BY <1>5 DEF FiredInv
  <2>3. PICK t \in retried[s] : j <= t /\ t < b
    BY <1>5, <2>1, <2>2 DEF NoFiringSkipped
  <2>4. t \in 0..Horizon
    BY DEF TypeOK
  <2> QED
    BY <2>3, <2>4, <1>0, <1>2, <1>5 DEF Instants
<1> QED
  BY <1>1, <1>3, <1>4, <1>5 DEF Base, Scheduled

-----------------------------------------------------------------------------
\* The invariant holds before the first tick.
LEMMA InitInvariant == Init => IInv
<1> SUFFICES ASSUME Init PROVE IInv
  OBVIOUS
<1> USE DEF Init
<1>1. TypeOK
  BY NoTickFacts, BoundsAssumption, NamesAssumption DEF TypeOK, Never
<1>2. DueInv /\ StaleInv
  BY NoTickFacts DEF DueInv, StaleInv
<1>3. FiredInv /\ NoDoubleFire /\ CooldownPerReplica
  BY DEF FiredInv, NoDoubleFire, CooldownPerReplica
<1>4. NoFiringSkipped
  BY CronAssumption DEF NoFiringSkipped
<1> QED
  BY <1>1, <1>2, <1>3, <1>4 DEF IInv

-----------------------------------------------------------------------------
(***************************************************************************)
(* Every step preserves it                                                 *)
(***************************************************************************)
\* Steps that touch neither locks, runs nor ticks.
LEMMA StepsAside ==
  ASSUME IInv, TypeOK', UNCHANGED <<lock, fired, retried, rows, tick>>
  PROVE  IInv'
<1> USE DEF IInv
<1>1. DueInv'
  BY NextFiringStable DEF DueInv
<1>2. FiredInv' /\ StaleInv'
  BY DEF FiredInv, StaleInv
<1>3. NoDoubleFire' /\ NoFiringSkipped' /\ CooldownPerReplica'
  BY DEF NoDoubleFire, NoFiringSkipped, CooldownPerReplica
<1> QED
  BY <1>1, <1>2, <1>3

\* The API's budget stays within its bound.
LEMMA RequestBounded ==
  ASSUME TypeOK, Request
  PROVE  requests' \in 0..MaxRequests
BY BoundsAssumption DEF TypeOK, Request

\* A retry needs the lock, so nothing is due for its schedule; it can only
\* cover more.
LEMMA RetryStep ==
  ASSUME IInv, NEW s \in Schedules, RetryScheduled(s)
  PROVE  IInv'
<1> USE DEF IInv, RetryScheduled
<1>1. TypeOK'
  BY RequestBounded DEF TypeOK, freshVars
<1>2. DueInv'
  <2> SUFFICES ASSUME NEW w \in Replicas, NEW z \in Schedules, NEW i \in Instants,
                      <<z, i>> \in tick'[w].due
               PROVE  lock'[z] = w /\ IsNextFiring(z, i)'
    BY DEF DueInv
  <2>1. lock[z] = w /\ IsNextFiring(z, i)
    BY DEF DueInv
  <2>2. z # s
    BY <2>1, NamesAssumption
  <2>3. fired'[z] = fired[z] /\ retried'[z] = retried[z]
    BY <2>2 DEF TypeOK
  <2> QED
    BY <2>1, <2>3, NextFiringStable
<1>3. FiredInv' /\ StaleInv' /\ NoDoubleFire' /\ CooldownPerReplica'
  BY DEF FiredInv, StaleInv, NoDoubleFire, CooldownPerReplica, freshVars
<1>4. NoFiringSkipped'
  <2>1. \A z \in Schedules : retried[z] \subseteq retried'[z]
    BY DEF TypeOK
  <2> QED
    BY <2>1 DEF NoFiringSkipped
<1> QED
  BY <1>1, <1>2, <1>3, <1>4

\* Somebody else's run has another origin.
LEMMA OtherRunStep ==
  ASSUME IInv, NEW p \in Pipelines, OtherRun(p)
  PROVE  IInv'
<1> USE DEF IInv, OtherRun, cronVars
<1> DEFINE new == [by |-> Api, at |-> now, live |-> TRUE]
<1>1. new \in Runs /\ rows'[p] = rows[p] \cup {new}
      /\ \A q \in Pipelines \ {p} : rows'[q] = rows[q]
  BY DEF TypeOK, Runs
<1>2. TypeOK'
  <2>1. rows' \in [Pipelines -> SUBSET Runs]
    BY <1>1 DEF TypeOK
  <2> QED
    BY <2>1, RequestBounded DEF TypeOK
<1>3. DueInv'
  BY NextFiringStable DEF DueInv
<1>4. FiredInv' /\ NoDoubleFire' /\ NoFiringSkipped'
  BY DEF FiredInv, NoDoubleFire, NoFiringSkipped
<1>5. new.by \notin Replicas
  BY NamesAssumption
<1>6. StaleInv'
  BY <1>1, <1>5 DEF StaleInv
<1>7. CooldownPerReplica'
  BY <1>1, <1>5 DEF CooldownPerReplica
<1> QED
  BY <1>2, <1>3, <1>4, <1>6, <1>7

\* The end of a run keeps who inserted it and when.
LEMMA RunEndsStep ==
  ASSUME IInv, NEW p \in Pipelines, NEW row \in rows[p], NEW ok \in BOOLEAN,
         RunEnds(p, row, ok)
  PROVE  IInv'
<1> USE DEF IInv, RunEnds, cronVars
<1> DEFINE ended == [row EXCEPT !.live = FALSE]
<1>0. row \in Runs
  BY DEF TypeOK
<1>1. /\ ended \in Runs /\ ended.by = row.by /\ ended.at = row.at
      /\ rows'[p] = (rows[p] \ {row}) \cup {ended}
      /\ \A q \in Pipelines \ {p} : rows'[q] = rows[q]
  <2>1. ended \in Runs /\ ended.by = row.by /\ ended.at = row.at
    BY <1>0 DEF Runs
  <2> QED
    BY <2>1 DEF TypeOK
<1> HIDE DEF ended
<1>2. TypeOK'
  <2>1. rows' \in [Pipelines -> SUBSET Runs]
    BY <1>1 DEF TypeOK
  <2>2. made' \in [Pipelines -> {Never} \cup 0..Horizon]
    BY DEF TypeOK
  <2> QED
    BY <2>1, <2>2 DEF TypeOK
<1>3. DueInv'
  BY NextFiringStable DEF DueInv
<1>4. FiredInv' /\ NoDoubleFire' /\ NoFiringSkipped'
  BY DEF FiredInv, NoDoubleFire, NoFiringSkipped
<1>5. StaleInv'
  BY <1>1 DEF StaleInv
<1>6. CooldownPerReplica'
  BY <1>1 DEF CooldownPerReplica
<1> QED
  BY <1>2, <1>3, <1>4, <1>5, <1>6

\* A tick begins with what is due under the locks it has just taken.
LEMMA TickBeginsStep ==
  ASSUME IInv, NEW w \in Replicas, TickBegins(w)
  PROVE  IInv'
<1> USE DEF IInv, TickBegins, freshVars
<1> DEFINE taken == {s \in Schedules : active[s] /\ lock[s] = NoReplica}
           new == [on |-> TRUE, clock |-> now, due |-> Due(taken),
                   look |-> Pipelines, stale |-> {}]
<1>1. /\ new \in Ticks /\ new.due = Due(taken) /\ new.stale = {} /\ new.on
      /\ tick'[w] = new /\ \A v \in Replicas \ {w} : tick'[v] = tick[v]
  BY DEF TypeOK, Ticks, Due
<1>2. /\ \A s \in taken : lock'[s] = w
      /\ \A s \in Schedules \ taken : lock'[s] = lock[s]
  OBVIOUS
<1> HIDE DEF new
<1>3. TypeOK'
  <2>1. lock' \in [Schedules -> Replicas \cup {NoReplica}]
    BY DEF TypeOK
  <2>2. tick' \in [Replicas -> Ticks]
    BY <1>1 DEF TypeOK, new
  <2>3. ASSUME NEW s \in Schedules, lock'[s] # NoReplica PROVE tick'[lock'[s]].on
    <3>1. CASE s \in taken
      BY <3>1, <1>1, <1>2
    <3>2. CASE s \notin taken
      BY <3>2, <2>3, <1>1, <1>2, <2>1 DEF TypeOK
    <3> QED
      BY <3>1, <3>2
  <2> QED
    BY <2>1, <2>2, <2>3 DEF TypeOK
<1>4. DueInv'
  <2> SUFFICES ASSUME NEW v \in Replicas, NEW s \in Schedules, NEW i \in Instants,
                      <<s, i>> \in tick'[v].due
               PROVE  lock'[s] = v /\ IsNextFiring(s, i)'
    BY DEF DueInv
  <2>1. IsNextFiring(s, i)' <=> IsNextFiring(s, i)
    BY NextFiringStable
  <2>2. CASE v = w
    BY <2>1, <2>2, <1>1, <1>2 DEF Due
  <2>3. CASE v # w
    <3>1. lock[s] = v /\ IsNextFiring(s, i)
      BY <2>3, <1>1 DEF DueInv
    <3> QED
      BY <3>1, <2>1, <1>2, NamesAssumption
  <2> QED
    BY <2>2, <2>3
<1>5. FiredInv' /\ NoDoubleFire' /\ NoFiringSkipped' /\ CooldownPerReplica'
  BY DEF FiredInv, NoDoubleFire, NoFiringSkipped, CooldownPerReplica
<1>6. StaleInv'
  BY <1>1 DEF StaleInv
<1> QED
  BY <1>3, <1>4, <1>5, <1>6

\* A look moves one pipeline from look, to stale only when its newest run is
\* older than the window: then all its runs are.
LEMMA LookStep ==
  ASSUME IInv, NEW w \in Replicas, NEW p \in Pipelines, LookAtFreshness(w, p)
  PROVE  IInv'
<1> USE DEF IInv, cronVars, freshVars
<1> DEFINE threshold == tick[w].clock - Sla
           free == \/ rows[p] = {}
                   \/ \E row \in rows[p] : MostRecent(p, row) /\ ~Holds(row, threshold)
<1>0. UNCHANGED <<now, active, lock, fired, retried, rows, made, requests, faults>>
  BY DEF LookAtFreshness
<1>1. tick[w] \in Ticks
  BY DEF TypeOK
<1>2. PICK new \in Ticks :
        /\ tick'[w] = new /\ \A v \in Replicas \ {w} : tick'[v] = tick[v]
        /\ new.on = tick[w].on /\ new.due = tick[w].due /\ new.clock = tick[w].clock
        /\ \/ new.stale = tick[w].stale
           \/ new.stale = tick[w].stale \cup {p} /\ free
  <2> DEFINE looked == [tick[w] EXCEPT !.look = @ \ {p}]
             found == [looked EXCEPT !.stale = @ \cup {p}]
  <2>1. /\ looked \in Ticks /\ looked.on = tick[w].on /\ looked.due = tick[w].due
        /\ looked.clock = tick[w].clock /\ looked.stale = tick[w].stale
    BY <1>1 DEF Ticks
  <2>2. /\ found \in Ticks /\ found.on = tick[w].on /\ found.due = tick[w].due
        /\ found.clock = tick[w].clock /\ found.stale = tick[w].stale \cup {p}
    <3> HIDE DEF looked
    <3> QED
      BY <2>1 DEF Ticks
  <2>3. \/ tick' = [tick EXCEPT ![w].look = @ \ {p}, ![w].stale = @ \cup {p}] /\ free
        \/ tick' = [tick EXCEPT ![w].look = @ \ {p}]
    BY DEF LookAtFreshness
  <2>4. CASE tick' = [tick EXCEPT ![w].look = @ \ {p}]
    <3>1. tick'[w] = looked /\ \A v \in Replicas \ {w} : tick'[v] = tick[v]
      BY <2>4 DEF TypeOK
    <3> QED
      BY <3>1, <2>1
  <2>5. CASE tick' = [tick EXCEPT ![w].look = @ \ {p}, ![w].stale = @ \cup {p}] /\ free
    <3>1. tick'[w] = found /\ \A v \in Replicas \ {w} : tick'[v] = tick[v]
      BY <2>5 DEF TypeOK
    <3> QED
      BY <3>1, <2>2, <2>5
  <2> QED
    BY <2>3, <2>4, <2>5
<1>3. TypeOK'
  <2>1. tick' \in [Replicas -> Ticks]
    BY <1>2 DEF TypeOK, LookAtFreshness
  <2>2. \A s \in Schedules : lock'[s] # NoReplica => tick'[lock'[s]].on
    BY <1>0, <1>2 DEF TypeOK
  <2> QED
    BY <1>0, <2>1, <2>2 DEF TypeOK
<1>4. DueInv'
  <2>1. \A v \in Replicas : tick'[v].due = tick[v].due
    BY <1>2
  <2> QED
    BY <1>0, <2>1, NextFiringStable DEF DueInv
<1>5. FiredInv' /\ NoDoubleFire' /\ NoFiringSkipped' /\ CooldownPerReplica'
  BY <1>0 DEF FiredInv, NoDoubleFire, NoFiringSkipped, CooldownPerReplica
<1>6. ASSUME free, NEW q \in rows[p] PROVE q.at + Sla < tick[w].clock
  <2>1. PICK row \in rows[p] : MostRecent(p, row) /\ ~Holds(row, threshold)
    BY <1>6
  <2>2. row.at \in Int /\ q.at \in Int /\ tick[w].clock \in Int /\ Sla \in Int
    BY <1>1, TickFields, SlaAssumption DEF TypeOK, Runs
  <2>3. q.at <= row.at /\ ~(row.at >= threshold)
    BY <2>1 DEF MostRecent, Holds
  <2> QED
    BY <2>2, <2>3
<1>7. StaleInv'
  BY <1>0, <1>2, <1>6 DEF StaleInv
<1> QED
  BY <1>3, <1>4, <1>5, <1>7

\* The end of a tick gives its locks back and empties it.
LEMMA TickEnds ==
  ASSUME TypeOK, NEW w \in Replicas, Release(w), tick' = [tick EXCEPT ![w] = NoTick]
  PROVE  /\ lock' \in [Schedules -> Replicas \cup {NoReplica}]
         /\ tick' \in [Replicas -> Ticks]
         /\ tick'[w] = NoTick /\ \A v \in Replicas \ {w} : tick'[v] = tick[v]
         /\ \A s \in Schedules : lock[s] # w => lock'[s] = lock[s]
         /\ \A s \in Schedules : lock'[s] # NoReplica => tick'[lock'[s]].on
<1>1. lock' \in [Schedules -> Replicas \cup {NoReplica}]
  BY DEF TypeOK, Release
<1>2. /\ tick' \in [Replicas -> Ticks]
      /\ tick'[w] = NoTick /\ \A v \in Replicas \ {w} : tick'[v] = tick[v]
  BY NoTickFacts DEF TypeOK
<1>3. \A s \in Schedules : lock[s] # w => lock'[s] = lock[s]
  BY DEF Release
<1>4. ASSUME NEW s \in Schedules, lock'[s] # NoReplica PROVE tick'[lock'[s]].on
  <2>1. lock[s] # w /\ lock'[s] = lock[s]
    BY <1>4 DEF Release
  <2>2. lock[s] \in Replicas \ {w} /\ tick[lock[s]].on
    BY <1>4, <2>1 DEF TypeOK
  <2> QED
    BY <1>2, <2>1, <2>2
<1> QED
  BY <1>1, <1>2, <1>3, <1>4

\* A tick that raises leaves nothing behind.
LEMMA TickRaisesStep ==
  ASSUME IInv, NEW w \in Replicas, TickRaises(w)
  PROVE  IInv'
<1> USE DEF IInv, TickRaises, freshVars
<1>1. /\ tick'[w] = NoTick /\ \A v \in Replicas \ {w} : tick'[v] = tick[v]
      /\ \A s \in Schedules : lock[s] # w => lock'[s] = lock[s]
  BY TickEnds
<1>2. TypeOK'
  <2>1. faults' \in 0..MaxFaults
    BY BoundsAssumption DEF TypeOK
  <2> QED
    BY <2>1, TickEnds DEF TypeOK
<1>3. DueInv'
  BY <1>1, NoTickFacts, NextFiringStable DEF DueInv
<1>4. FiredInv' /\ NoDoubleFire' /\ NoFiringSkipped' /\ CooldownPerReplica'
  BY DEF FiredInv, NoDoubleFire, NoFiringSkipped, CooldownPerReplica
<1>5. StaleInv'
  BY <1>1, NoTickFacts DEF StaleInv
<1> QED
  BY <1>2, <1>3, <1>4, <1>5

\* A commit fires what was due and enqueues what was stale, once each.
LEMMA TickCommitsStep ==
  ASSUME IInv, NEW w \in Replicas, TickCommits(w)
  PROVE  IInv'
<1> USE DEF IInv, TickCommits
<1>1. /\ tick'[w] = NoTick /\ \A v \in Replicas \ {w} : tick'[v] = tick[v]
      /\ \A s \in Schedules : lock[s] # w => lock'[s] = lock[s]
  BY TickEnds
<1>2. ASSUME NEW s \in Schedules, NEW i \in Instants
      PROVE  /\ fired[s][i] \in Nat
             /\ <<s, i>> \in tick[w].due => fired'[s][i] = fired[s][i] + 1
             /\ <<s, i>> \notin tick[w].due => fired'[s][i] = fired[s][i]
  BY DEF TypeOK
<1>3. ASSUME NEW s \in Schedules, NEW i \in Instants, <<s, i>> \in tick[w].due
      PROVE  IsNextFiring(s, i) /\ lock[s] = w /\ fired[s][i] = 0 /\ i \in Cron[s]
  BY <1>3, DueIsNew DEF DueInv
<1> DEFINE new == [by |-> w, at |-> tick[w].clock, live |-> TRUE]
<1>4. /\ new \in Runs /\ new.by = w /\ new.at = tick[w].clock
      /\ \A p \in Pipelines :
           rows'[p] = rows[p] \cup IF p \in tick[w].stale THEN {new} ELSE {}
  <2>1. new \in Runs /\ new.by = w /\ new.at = tick[w].clock
    BY TickFields DEF TypeOK, Runs
  <2> QED
    BY <2>1
<1> HIDE DEF new
<1>5. TypeOK'
  <2>1. fired' \in [Schedules -> [Instants -> Nat]]
    BY DEF TypeOK
  <2>2. rows' \in [Pipelines -> SUBSET Runs]
    <3>1. rows' = [p \in Pipelines |-> rows'[p]]
      OBVIOUS
    <3>2. \A p \in Pipelines : rows'[p] \subseteq Runs
      BY <1>4 DEF TypeOK
    <3> QED
      BY <3>1, <3>2
  <2> QED
    BY <2>1, <2>2, TickEnds DEF TypeOK
<1>6. DueInv'
  <2> SUFFICES ASSUME NEW v \in Replicas, NEW s \in Schedules, NEW i \in Instants,
                      <<s, i>> \in tick'[v].due
               PROVE  lock'[s] = v /\ IsNextFiring(s, i)'
    BY DEF DueInv
  <2>1. v # w /\ lock[s] = v /\ IsNextFiring(s, i)
    BY <1>1, NoTickFacts DEF DueInv
  <2>2. \A j \in Instants : <<s, j>> \notin tick[w].due
    BY <1>3, <2>1
  <2>3. fired'[s] = fired[s]
    <3>1. /\ fired[s] = [j \in Instants |-> fired[s][j]]
          /\ fired'[s] = [j \in Instants |-> fired'[s][j]]
      BY DEF TypeOK
    <3> QED
      BY <3>1, <1>2, <2>2
  <2> QED
    BY <1>1, <2>1, <2>3, NextFiringStable
<1>7. FiredInv'
  BY <1>2, <1>3 DEF FiredInv
<1>8. NoDoubleFire'
  <2> SUFFICES ASSUME NEW s \in Schedules, NEW i \in Instants PROVE fired'[s][i] <= 1
    BY DEF NoDoubleFire
  <2>1. CASE <<s, i>> \in tick[w].due
    BY <1>2, <1>3, <2>1
  <2>2. CASE <<s, i>> \notin tick[w].due
    BY <1>2, <2>2 DEF NoDoubleFire
  <2> QED
    BY <2>1, <2>2
<1>9. NoFiringSkipped'
  <2> SUFFICES ASSUME NEW s \in Schedules, NEW i \in Cron[s], NEW j \in Cron[s],
                      fired'[s][i] > 0, j < i, fired'[s][j] = 0
               PROVE  \E t \in retried'[s] : j <= t /\ t < i
    BY DEF NoFiringSkipped
  <2>1. i \in Instants /\ j \in Instants
    BY CronAssumption
  <2>2. fired[s][j] = 0
    BY <1>2, <2>1
  <2>3. CASE <<s, i>> \in tick[w].due
    BY <1>3, <2>1, <2>2, <2>3, NothingBeforeDue
  <2>4. CASE <<s, i>> \notin tick[w].due
    BY <1>2, <2>1, <2>2, <2>4 DEF NoFiringSkipped
  <2> QED
    BY <2>3, <2>4
<1>10. StaleInv'
  <2> SUFFICES ASSUME NEW v \in Replicas, NEW p \in Pipelines, p \in tick'[v].stale,
                      NEW q \in rows'[p], q.by = v
               PROVE  q.at + Sla < tick'[v].clock
    BY DEF StaleInv
  <2>1. v # w
    BY <1>1, NoTickFacts
  <2>2. q \in rows[p]
    BY <1>4, <2>1
  <2> QED
    BY <1>1, <2>1, <2>2 DEF StaleInv
<1>11. CooldownPerReplica'
  <2> SUFFICES ASSUME NEW p \in Pipelines, NEW q \in rows'[p], NEW r \in rows'[p],
                      q.by = r.by, q.by \in Replicas, q # r
               PROVE  q.at > r.at + Sla \/ r.at > q.at + Sla
    BY DEF CooldownPerReplica
  <2>1. ASSUME NEW old \in rows[p], old.by = w, p \in tick[w].stale
        PROVE  new.at > old.at + Sla
    <3>1. old.at + Sla < tick[w].clock
      BY <2>1 DEF StaleInv
    <3>2. old.at \in Int /\ tick[w].clock \in Int /\ Sla \in Int
      BY TickFields, SlaAssumption DEF TypeOK, Runs
    <3> QED
      BY <1>4, <3>1, <3>2
  <2>2. CASE q \in rows[p] /\ r \in rows[p]
    BY <2>2 DEF CooldownPerReplica
  <2>3. CASE q \notin rows[p] \/ r \notin rows[p]
    <3>1. p \in tick[w].stale
      BY <1>4, <2>3
    <3>2. \/ q = new /\ r \in rows[p]
          \/ r = new /\ q \in rows[p]
      BY <1>4, <2>3
    <3> QED
      BY <1>4, <2>1, <3>1, <3>2
  <2> QED
    BY <2>2, <2>3
<1> QED
  BY <1>5, <1>6, <1>7, <1>8, <1>9, <1>10, <1>11

\* Every step of a tick, of the API and of time preserves it.
LEMMA StepInvariant == IInv /\ [Next]_vars => IInv'
<1> SUFFICES ASSUME IInv, [Next]_vars PROVE IInv'
  OBVIOUS
<1>1. CASE TimePasses
  <2>1. TypeOK'
    BY <1>1, BoundsAssumption DEF IInv, TypeOK, TimePasses, cronVars, freshVars
  <2> QED
    BY <1>1, <2>1, StepsAside DEF TimePasses, cronVars, freshVars
<1>2. ASSUME NEW s \in Schedules, Toggle(s) PROVE IInv'
  <2>1. TypeOK'
    BY <1>2, RequestBounded DEF IInv, TypeOK, Toggle, freshVars
  <2> QED
    BY <1>2, <2>1, StepsAside DEF Toggle, freshVars
<1>3. CASE UNCHANGED vars
  <2>1. TypeOK'
    BY <1>3 DEF IInv, TypeOK, vars, cronVars, freshVars
  <2> QED
    BY <1>3, <2>1, StepsAside DEF vars, cronVars, freshVars
<1> QED
  BY <1>1, <1>2, <1>3, RetryStep, OtherRunStep, RunEndsStep, TickBeginsStep, LookStep,
     TickCommitsStep, TickRaisesStep DEF Next, TickStep

-----------------------------------------------------------------------------
(***************************************************************************)
(* The theorems                                                            *)
(***************************************************************************)
\* The inductive invariant holds.
THEOREM Invariant == Spec => []IInv
<1>1. QED
  BY InitInvariant, StepInvariant, PTL DEF Spec

\* Type correctness: locks are held by replicas whose tick is on.
THEOREM TypeCorrect == Spec => []TypeOK
<1>1. QED
  BY Invariant, PTL DEF IInv

\* However many replicas tick, a firing of a schedule is enqueued once.
THEOREM FiredOnce == Spec => []NoDoubleFire
<1>1. QED
  BY Invariant, PTL DEF IInv

\* For every cron: outages, pauses and failing ticks skip no firing.
THEOREM NothingSkipped == Spec => []NoFiringSkipped
<1>1. QED
  BY Invariant, PTL DEF IInv

\* The cooldown holds between the runs of one replica, for every SLA.
THEOREM Cooldown == Spec => []CooldownPerReplica
<1>1. QED
  BY Invariant, PTL DEF IInv
=============================================================================

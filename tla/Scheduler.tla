------------------------------ MODULE Scheduler ------------------------------
(***************************************************************************)
(* The scheduler: replicas whose ticks turn due cron schedules and stale   *)
(* pipelines into pending runs.  One tick is one transaction: it locks the *)
(* active schedules nobody else has locked, draws their next firings, then *)
(* looks at the freshness of every pipeline without a lock, and commits    *)
(* all the runs it found at once.                                          *)
(*                                                                         *)
(* An insert of a run that names a schedule takes a key-share lock on it   *)
(* (the foreign key), so a retry of a scheduled run waits for a tick that  *)
(* has the schedule locked: what a tick reads of a schedule stays true.    *)
(***************************************************************************)
EXTENDS Integers

CONSTANTS
  Schedules,   \* batch schedules, created at instant 0
  Pipelines,   \* pipelines with freshness_sla_minutes
  Replicas,    \* scheduler processes
  NoReplica,
  Cron,        \* Cron[s]: the instants the cron expression of s matches
  Horizon,     \* bound on time: the last instant
  Sla,         \* freshness_sla_minutes
  MaxRequests, \* bound on what the API does: toggles, retries, other runs
  MaxFaults    \* bound on ticks that raise

Instants == 1..Horizon

ASSUME BoundsAssumption ==
  /\ Horizon \in Nat /\ MaxRequests \in Nat /\ MaxFaults \in Nat
ASSUME CronAssumption == Cron \in [Schedules -> SUBSET Instants]
ASSUME SlaAssumption == Sla \in Nat \ {0}

Api == "api"   \* who inserted a run: a replica's freshness check, or anyone else
ASSUME NamesAssumption == NoReplica \notin Replicas /\ Api \notin Replicas

VARIABLES
  now,
  active,    \* schedules.is_active
  lock,      \* the replica whose tick has the schedule locked
  fired,     \* fired[s][i]: runs the scheduler enqueued for s with scheduled_at = i
  retried,   \* retried[s]: scheduled_at of the retries of runs of s
  rows,      \* rows[p]: the runs of p
  made,      \* made[p]: last_materialized_at of p's output
  tick,      \* each replica's tick
  requests, faults

cronVars == <<active, lock, fired, retried>>
freshVars == <<rows, made>>
vars == <<now, cronVars, freshVars, tick, requests, faults>>

-----------------------------------------------------------------------------
Never == -1
Runs == [by : Replicas \cup {Api}, at : 0..Horizon, live : BOOLEAN]
Ticks == [on : BOOLEAN, clock : 0..Horizon, due : SUBSET (Schedules \X Instants),
          look : SUBSET Pipelines, stale : SUBSET Pipelines]
NoTick == [on |-> FALSE, clock |-> 0, due |-> {}, look |-> {}, stale |-> {}]

TypeOK ==
  /\ now \in 0..Horizon
  /\ active \in [Schedules -> BOOLEAN]
  /\ lock \in [Schedules -> Replicas \cup {NoReplica}]
  /\ fired \in [Schedules -> [Instants -> Nat]]
  /\ retried \in [Schedules -> SUBSET (0..Horizon)]
  /\ rows \in [Pipelines -> SUBSET Runs]
  /\ made \in [Pipelines -> {Never} \cup 0..Horizon]
  /\ tick \in [Replicas -> Ticks]
  /\ requests \in 0..MaxRequests
  /\ faults \in 0..MaxFaults
  /\ \A s \in Schedules : lock[s] # NoReplica => tick[lock[s]].on

-----------------------------------------------------------------------------
\* scheduled_at of the runs created from s.
Scheduled(s) == {i \in Instants : fired[s][i] > 0} \cup retried[s]

\* Mutant of Base: missed firings are passed over.
Base_Now(s) == Scheduled(s) \cup {now - 1}

\* The next firing is looked for after all of these: the last scheduled_at,
\* or the schedule's creation.
Base(s) == Scheduled(s) \cup {0}

\* croniter(cron_expr, base).get_next(): i is the first match after the base.
IsNextFiring(s, i) ==
  /\ i \in Cron[s] /\ \A b \in Base(s) : b < i
  /\ \A j \in Cron[s] : (\A b \in Base(s) : b < j) => i <= j

\* The firings a tick that locked these schedules enqueues.
Due(schedules) == {f \in schedules \X Instants : IsNextFiring(f[1], f[2]) /\ f[2] <= now}

\* A run of p no other was created after.
MostRecent(p, row) == row \in rows[p] /\ \A q \in rows[p] : q.at <= row.at

\* Mutant of Holds: without the cooldown.
Holds_NoCooldown(row, threshold) == row.live

\* The most recent run is in flight, or was created within the SLA window.
Holds(row, threshold) == row.live \/ row.at >= threshold

\* Never materialized, or longer ago than the SLA.
IsStale(p, threshold) == made[p] = Never \/ made[p] < threshold

Request == requests < MaxRequests /\ requests' = requests + 1

\* Mutant of Release: the session of the tick stays open.
Release_Never(w) == lock' = lock
Release(w) == lock' = [s \in Schedules |-> IF lock[s] = w THEN NoReplica ELSE lock[s]]

-----------------------------------------------------------------------------
Init ==
  /\ now = 0
  /\ active = [s \in Schedules |-> TRUE]
  /\ lock = [s \in Schedules |-> NoReplica]
  /\ fired = [s \in Schedules |-> [i \in Instants |-> 0]]
  /\ retried = [s \in Schedules |-> {}]
  /\ rows = [p \in Pipelines |-> {}]
  /\ made = [p \in Pipelines |-> Never]
  /\ tick = [w \in Replicas |-> NoTick]
  /\ requests = 0 /\ faults = 0

-----------------------------------------------------------------------------
(***************************************************************************)
(* The world around the scheduler                                          *)
(***************************************************************************)
TimePasses ==
  /\ now < Horizon
  /\ now' = now + 1
  /\ UNCHANGED <<cronVars, freshVars, tick, requests, faults>>

\* The schedules API flips is_active.
Toggle(s) ==
  /\ lock[s] = NoReplica
  /\ Request
  /\ active' = [active EXCEPT ![s] = ~@]
  /\ UNCHANGED <<now, lock, fired, retried, freshVars, tick, faults>>

\* A run of s failed and is retried: the clone keeps schedule_id and is
\* scheduled now.
RetryScheduled(s) ==
  /\ lock[s] = NoReplica
  /\ Scheduled(s) # {}
  /\ Request
  /\ retried' = [retried EXCEPT ![s] = @ \cup {now}]
  /\ UNCHANGED <<now, active, lock, fired, freshVars, tick, faults>>

\* Someone else enqueues a run of p.
OtherRun(p) ==
  /\ Request
  /\ rows' = [rows EXCEPT ![p] = @ \cup {[by |-> Api, at |-> now, live |-> TRUE]}]
  /\ UNCHANGED <<now, cronVars, made, tick, faults>>

\* A run of p ends; a success materializes its output.
RunEnds(p, row, ok) ==
  /\ row \in rows[p] /\ row.live
  /\ rows' = [rows EXCEPT ![p] = (@ \ {row}) \cup {[row EXCEPT !.live = FALSE]}]
  /\ made' = IF ok THEN [made EXCEPT ![p] = now] ELSE made
  /\ UNCHANGED <<now, cronVars, tick, requests, faults>>

-----------------------------------------------------------------------------
(***************************************************************************)
(* A tick                                                                  *)
(***************************************************************************)
\* Mutant of TickBegins: the schedules are read without FOR UPDATE.
TickBegins_NoLock(w) ==
  /\ ~tick[w].on
  /\ tick' = [tick EXCEPT ![w] =
                [on |-> TRUE, clock |-> now, due |-> Due({s \in Schedules : active[s]}),
                 look |-> Pipelines, stale |-> {}]]
  /\ UNCHANGED <<now, cronVars, freshVars, requests, faults>>

\* Lock the active schedules nobody has locked and find the due firings.
TickBegins(w) ==
  LET taken == {s \in Schedules : active[s] /\ lock[s] = NoReplica} IN
  /\ ~tick[w].on
  /\ lock' = [s \in Schedules |-> IF s \in taken THEN w ELSE lock[s]]
  /\ tick' = [tick EXCEPT ![w] = [on |-> TRUE, clock |-> now, due |-> Due(taken),
                                  look |-> Pipelines, stale |-> {}]]
  /\ UNCHANGED <<now, active, fired, retried, freshVars, requests, faults>>

\* _tick_freshness looks at one pipeline: its most recent run, then its output.
LookAtFreshness(w, p) ==
  LET threshold == tick[w].clock - Sla
      held == \E row \in rows[p] : MostRecent(p, row) /\ Holds(row, threshold)
      free == rows[p] = {} \/ \E row \in rows[p] : MostRecent(p, row) /\ ~Holds(row, threshold)
  IN /\ tick[w].on /\ p \in tick[w].look
     /\ \/ /\ free /\ IsStale(p, threshold)
           /\ tick' = [tick EXCEPT ![w].look = @ \ {p}, ![w].stale = @ \cup {p}]
        \/ /\ held \/ ~IsStale(p, threshold)
           /\ tick' = [tick EXCEPT ![w].look = @ \ {p}]
     /\ UNCHANGED <<now, cronVars, freshVars, requests, faults>>

\* Everything found is inserted by one commit.  created_at is the start of the
\* transaction.
TickCommits(w) ==
  /\ tick[w].on /\ tick[w].look = {}
  /\ fired' = [s \in Schedules |-> [i \in Instants |->
                 fired[s][i] + IF <<s, i>> \in tick[w].due THEN 1 ELSE 0]]
  /\ rows' = [p \in Pipelines |-> rows[p] \cup
                IF p \in tick[w].stale
                  THEN {[by |-> w, at |-> tick[w].clock, live |-> TRUE]} ELSE {}]
  /\ Release(w)
  /\ tick' = [tick EXCEPT ![w] = NoTick]
  /\ UNCHANGED <<now, active, retried, made, requests, faults>>

\* Something in the tick raises, or the process dies: nothing is inserted.
TickRaises(w) ==
  /\ tick[w].on
  /\ faults < MaxFaults /\ faults' = faults + 1
  /\ Release(w)
  /\ tick' = [tick EXCEPT ![w] = NoTick]
  /\ UNCHANGED <<now, active, fired, retried, freshVars, requests>>

-----------------------------------------------------------------------------
TickStep(w) ==
  TickBegins(w) \/ TickCommits(w) \/ \E p \in Pipelines : LookAtFreshness(w, p)

Next ==
  \/ TimePasses
  \/ \E s \in Schedules : Toggle(s) \/ RetryScheduled(s)
  \/ \E p \in Pipelines :
       \/ OtherRun(p)
       \/ \E row \in rows[p], ok \in BOOLEAN : RunEnds(p, row, ok)
  \/ \E w \in Replicas : TickStep(w) \/ TickRaises(w)

Spec == Init /\ [][Next]_vars

\* Each replica keeps ticking; nothing is assumed of time, runs or the API.
FairSpec == Spec /\ \A w \in Replicas : WF_vars(TickStep(w))

-----------------------------------------------------------------------------
(***************************************************************************)
(* Properties                                                              *)
(***************************************************************************)
\* However many replicas tick, a firing of a schedule is enqueued once.
NoDoubleFire == \A s \in Schedules, i \in Instants : fired[s][i] <= 1

\* No firing before one that was enqueued is missing, whatever outages and
\* pauses there were, unless a retry moved the base past it.
NoFiringSkipped ==
  \A s \in Schedules : \A i, j \in Cron[s] :
    fired[s][i] > 0 /\ j < i /\ fired[s][j] = 0 =>
      \E t \in retried[s] : j <= t /\ t < i

\* A due firing of an active schedule is enqueued, in spite of replicas that
\* skip each other's locks and of ticks that raise; a retry may swallow it.
DueIsFired ==
  \A s \in Schedules : \A i \in Cron[s] :
    (active[s] /\ now >= i) ~>
      \/ fired[s][i] > 0 \/ ~active[s]
      \/ \E t \in retried[s] : t >= i

\* The cooldown bounds what the unlocked freshness check can do: a replica
\* does not enqueue a pipeline twice within one SLA window.
CooldownPerReplica ==
  \A p \in Pipelines : \A q, r \in rows[p] :
    q.by = r.by /\ q.by \in Replicas /\ q # r => q.at > r.at + Sla \/ r.at > q.at + Sla
=============================================================================

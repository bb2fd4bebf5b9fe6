---------------------------- MODULE RunLifecycle ----------------------------
(***************************************************************************)
(* What the run queue promises, with no rows, locks, heartbeats or API     *)
(* calls in it.  A run is queued once, handed to at most one worker, and   *)
(* once it has ended it is never queued or handed out again.  RunQueue is  *)
(* the program and implements this specification.                          *)
(***************************************************************************)
CONSTANTS Runs,      \* the runs that may ever be queued
          Workers,   \* the worker processes
          NoWorker   \* "nobody has started it"

VARIABLES phase,     \* phase[r]: how far run r has come
          starter    \* starter[r]: the worker run r was handed to

lifecycleVars == <<phase, starter>>

Phases == {"absent", "queued", "started", "ended"}

LifecycleTypeOK ==
  /\ phase \in [Runs -> Phases]
  /\ starter \in [Runs -> Workers \cup {NoWorker}]

LifecycleInit ==
  /\ phase = [r \in Runs |-> "absent"]
  /\ starter = [r \in Runs |-> NoWorker]

\* A new run enters the queue.
Queue(r) ==
  /\ phase[r] = "absent"
  /\ phase' = [phase EXCEPT ![r] = "queued"]
  /\ UNCHANGED starter

\* A queued run is handed to one worker; this is the only hand-over it gets.
Start(r, w) ==
  /\ phase[r] = "queued"
  /\ phase' = [phase EXCEPT ![r] = "started"]
  /\ starter' = [starter EXCEPT ![r] = w]

\* A queued run is called off before any worker had it.
Discard(r) ==
  /\ phase[r] = "queued"
  /\ phase' = [phase EXCEPT ![r] = "ended"]
  /\ UNCHANGED starter

\* Started runs end; the reaper ends several in one transaction.
End(S) ==
  /\ \A r \in S : phase[r] = "started"
  /\ phase' = [r \in Runs |-> IF r \in S THEN "ended" ELSE phase[r]]
  /\ UNCHANGED starter

LifecycleNext ==
  \/ \E r \in Runs : Queue(r) \/ Discard(r)
  \/ \E r \in Runs, w \in Workers : Start(r, w)
  \/ \E S \in SUBSET Runs : End(S)

LifecycleSpec == LifecycleInit /\ [][LifecycleNext]_lifecycleVars
=============================================================================

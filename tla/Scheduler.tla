----------------------------- MODULE Scheduler -----------------------------
(***************************************************************************)
(* The scheduler of src/scheduler/scheduler.go: Run, which wakes at every  *)
(* minute boundary, checkAndFire, which fires the jobs whose schedule      *)
(* matches, and the schedule commands of src/main.go that change the jobs  *)
(* meanwhile.  A snapshot may take longer than a minute.                   *)
(*                                                                         *)
(* The wall clock counts PerMinute ticks to a minute.  A wake is at most   *)
(* MaxLate ticks late.                                                     *)
(***************************************************************************)
EXTENDS Cron, FiniteSets

CONSTANTS Instance,   \* database instances
          MinuteField,\* minute fields of the schedules
          PerMinute,  \* ticks to a minute
          MaxLate,    \* how late a timer may fire
          MaxTime,    \* bound: the clock
          MaxChange   \* bound: schedule commands

VARIABLES
  clock,     \* time.Now(), in ticks
  jobs,      \* jobs[i]: the minute field of its schedule, <<>> for no job
  target,    \* nextMin, or 0 while checkAndFire runs
  minute,    \* the minute checkAndFire looks at
  toFire,    \* jobs it is yet to fire
  inflight,  \* instances in s.inflight
  running,   \* running[i]: snapshots of i that run
  fired,     \* fired[i]: minutes at which a snapshot of i was started
  doubled,   \* instances started twice at one minute
  checked,   \* minutes checked
  changes    \* schedule commands handled

runVars == <<target, minute, toFire>>
fireVars == <<inflight, running, fired, doubled>>
vars == <<clock, jobs, runVars, fireVars, checked, changes>>

Minute(t) == t \div PerMinute

(* now.Truncate(time.Minute).Add(time.Minute) *)
nextMin == (Minute(clock) + 1) * PerMinute

TypeOK ==
  /\ clock \in 0..MaxTime
  /\ jobs \in [Instance -> MinuteField \cup {<<>>}]
  /\ target \in 0..MaxTime + PerMinute
  /\ minute \in 0..Minute(MaxTime)
  /\ toFire \subseteq Instance
  /\ inflight \subseteq Instance
  /\ running \in [Instance -> 0..1]
  /\ fired \in [Instance -> SUBSET (0..Minute(MaxTime))]
  /\ doubled \subseteq Instance
  /\ checked \subseteq 0..Minute(MaxTime)
  /\ changes \in 0..MaxChange

Init ==
  /\ clock \in 0..PerMinute - 1
  /\ jobs = [i \in Instance |-> <<>>]
  /\ target = nextMin /\ minute = 0 /\ toFire = {}
  /\ inflight = {} /\ running = [i \in Instance |-> 0]
  /\ fired = [i \in Instance |-> {}] /\ doubled = {}
  /\ checked = {} /\ changes = 0

(* Time passes, but a timer that is due does not wait longer than MaxLate. *)
Tick ==
  /\ clock < MaxTime
  /\ target # 0 /\ clock < target + MaxLate
  /\ clock' = clock + 1
  /\ UNCHANGED <<jobs, runVars, fireVars, checked, changes>>

UpdateSchedule(i, f) ==
  /\ changes < MaxChange /\ changes' = changes + 1
  /\ jobs' = [jobs EXCEPT ![i] = f]
  /\ UNCHANGED <<clock, runVars, fireVars, checked>>

RemoveSchedule(i) ==
  /\ jobs[i] # <<>>
  /\ changes < MaxChange /\ changes' = changes + 1
  /\ jobs' = [jobs EXCEPT ![i] = <<>>]
  /\ UNCHANGED <<clock, runVars, fireVars, checked>>

(* The schedules match in all fields but the first. *)
Expr(f) == IF f = <<>> THEN <<>> ELSE <<f>> \o [k \in 1..4 |-> <<Term(Any, 0)>>]
Now(m) == <<m % 60, 0, 1, 1, 0>>

(* The timer fires; under s.mu the jobs that match are copied. *)
checkAndFire ==
  /\ target # 0 /\ clock >= target
  /\ target' = 0
  /\ minute' = Minute(clock)
  /\ toFire' = {i \in Instance : cronMatches(Expr(jobs[i]), Now(Minute(clock)))}
  /\ checked' = checked \cup {Minute(clock)}
  /\ UNCHANGED <<clock, jobs, fireVars, changes>>

(* inflight.LoadOrStore: skipped while the previous snapshot runs. *)
Fire(i) ==
  /\ i \in toFire /\ toFire' = toFire \ {i}
  /\ \/ i \in inflight /\ UNCHANGED fireVars
     \/ /\ i \notin inflight
        /\ inflight' = inflight \cup {i}
        /\ running' = [running EXCEPT ![i] = @ + 1]
        /\ fired' = [fired EXCEPT ![i] = @ \cup {minute}]
        /\ doubled' = IF minute \in fired[i] THEN doubled \cup {i} ELSE doubled
  /\ UNCHANGED <<clock, jobs, target, minute, checked, changes>>

(* Run re-aligns to the next minute boundary. *)
Sleep ==
  /\ target = 0 /\ toFire = {}
  /\ target' = nextMin
  /\ UNCHANGED <<clock, jobs, minute, toFire, fireVars, checked, changes>>

(* Mutant of Finish: the instance stays in inflight. *)
FinishForgets(i) ==
  /\ running[i] > 0 /\ running' = [running EXCEPT ![i] = @ - 1]
  /\ UNCHANGED <<clock, jobs, runVars, inflight, fired, doubled, checked, changes>>

(* onFire returns or panics; the deferred Delete runs either way. *)
Finish(i) ==
  /\ running[i] > 0 /\ running' = [running EXCEPT ![i] = @ - 1]
  /\ inflight' = inflight \ {i}
  /\ UNCHANGED <<clock, jobs, runVars, fired, doubled, checked, changes>>

Next ==
  \/ Tick \/ checkAndFire \/ Sleep
  \/ \E i \in Instance :
       \/ \E f \in MinuteField : UpdateSchedule(i, f)
       \/ RemoveSchedule(i) \/ Fire(i) \/ Finish(i)

Spec == Init /\ [][Next]_vars

-----------------------------------------------------------------------------
(* Properties *)

(* "skipping instance, previous snapshot still running" (scheduler.go:96):  *)
(* whatever the schedules, an instance is in inflight exactly while one     *)
(* snapshot of it runs, so a long one delays no later one.                  *)
InflightExact == \A i \in Instance : running[i] = (IF i \in inflight THEN 1 ELSE 0)

(* "re-aligns to the next minute boundary on each iteration to prevent      *)
(* drift" (scheduler.go:63-64): no minute passes without a check, however   *)
(* late each timer fires within its bound.                                  *)
NoMinuteMissed ==
  \A m \in 1..Minute(MaxTime) : m * PerMinute + MaxLate < clock => m \in checked

(* A minute is not checked twice: a snapshot that ends within the minute is *)
(* not started again.                                                       *)
FiredOncePerMinute == doubled = {}
=============================================================================

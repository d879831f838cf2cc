------------------------------- MODULE MCHost -------------------------------
(***************************************************************************)
(* What commands and schedules do to the containers of a host and to its   *)
(* backups, for TLC: the deployment strategies (Strategies), StackCleanup, *)
(* Verify, Recreate, RestartLoops, BackupObjects, and the schedule that    *)
(* starts snapshots (Scheduler, CronFields).  They share no state of the   *)
(* models, so each behaviour is of one of them, part, while the others     *)
(* rest in an initial state.                                               *)
(***************************************************************************)
EXTENDS Strategies, Sequences

CONSTANTS MaxRestart, MaxCycle, Loop, StableFor,         \* of RestartLoops
          Cmd,                                           \* of BackupObjects
          PerMinute, MaxLate, MaxTime, MaxChange,        \* of Scheduler
          Lo, Hi, MaxStep                                \* of CronFields

VARIABLES
  part,                                                  \* the one that runs
  spc, spec, docker, stodo, removed,                     \* of StackCleanup
  vpc, vcheck, vcon, leftover, events, vfaults,          \* of Verify
  rpc, rcon, original, ports, waits, oldRetired, cleaning, checked, rfaults,
                                                         \* of Recreate
  state, restarts, cycle, checking, seen, ltodo, tracked, tracker, reports,
                                                         \* of RestartLoops
  drive, torn, op, files, made, opc, found, reply, met, kept,
                                                         \* of BackupObjects
  now, jobs, target, minute, toFire, inflight, running, fired, doubled, minutes,
  changes,                                               \* of Scheduler
  field, value, more                                     \* of CronFields

cleanupVars == <<spc, spec, docker, stodo, removed>>
verifyVars == <<vpc, vcheck, vcon, leftover, events, vfaults>>
recreateVars == <<rpc, rcon, original, ports, waits, oldRetired, cleaning, checked, rfaults>>
restartVars == <<state, restarts, cycle, checking, seen, ltodo, tracked, tracker, reports>>
objectVars == <<drive, torn, op, files, made, opc, found, reply, met, kept>>
scheduleVars == <<now, jobs, target, minute, toFire, inflight, running, fired, doubled,
                  minutes, changes>>
cronVars == <<field, value, more>>
containerVars == <<vars, cleanupVars, verifyVars, recreateVars, restartVars>>
backupVars == <<objectVars, scheduleVars, cronVars>>
mcVars == <<part, containerVars, backupVars>>

(* A host with containers of stack "s", of another stack, from before the   *)
(* stack label, a database and a foreign container.                         *)
Container(n, stack, public) ==
  [managed |-> TRUE, database |-> FALSE, stack |-> stack, name |-> n, ports |-> public]

Population ==
  { Container(<<"app">>, "s", {80}),
    Container(<<"app", "ltc">>, "s", {80}),
    Container(<<"app", "retired", "t">>, "s", {}),
    Container(<<"web", "1">>, "s", {}),
    Container(<<"gone">>, "s", {80}),
    Container(<<"blog">>, "t", {80}),
    Container(<<"legacy">>, "", {80}),
    [Container(<<"pg">>, "", {80}) EXCEPT !.database = TRUE],
    [Container(<<"nginx">>, "", {80}) EXCEPT !.managed = FALSE] }

(* Deployments of one or two services, of which "web" has two replicas. *)
Replicated(n, k) == [name |-> n, replicas |-> k, ports |-> {80}]

Specs ==
  [stack : {"s", ""}, targeted : BOOLEAN, force : BOOLEAN,
   services : {{Replicated(<<"app">>, {})}, {Replicated(<<"app">>, {}), Replicated(<<"web">>, {"1", "2"})}}]

Generated == {"ltc"}

Cleanup == INSTANCE StackCleanup WITH pc <- spc, todo <- stodo

V == INSTANCE Verify WITH
       Name <- {"a", "b"}, Checks <- 3, MaxEvent <- 3, MaxFault <- 1, Leftovers <- TRUE,
       pc <- vpc, check <- vcheck, con <- vcon, faults <- vfaults

R == INSTANCE Recreate WITH
       Service <- <<"app">>, Original <- {<<"app">>}, Timestamp <- "t",
       Ports <- BOOLEAN, HealthCheck <- BOOLEAN, Leftover <- BOOLEAN, Waits <- 3,
       MayFail <- {"inspect", "create", "start", "rename", "stop", "remove", "restart"},
       pc <- rpc, con <- rcon, faults <- rfaults

L == INSTANCE RestartLoops WITH Id <- {"c1"}, todo <- ltodo

O == INSTANCE BackupObjects WITH pc <- opc

F == INSTANCE CronFields

(* Two schedules: every minute, and every second minute from the first on. *)
S == INSTANCE Scheduler WITH
       Instance <- {"i1", "i2"},
       MinuteField <- {<<F!Term(F!Any, 0)>>, <<F!Term(F!Exact(1), 2)>>},
       clock <- now, checked <- minutes

-----------------------------------------------------------------------------
(* A host in which nothing of a deployment has happened. *)
NoDeployment ==
  /\ strategy = "rolling"
  /\ st = [s \in Slot |-> [r \in Role |-> "absent"]] /\ canon = [s \in Slot |-> "none"]

MCInit ==
  /\ part \in {"deploy", "cleanup", "verify", "recreate", "restarts", "objects", "schedules",
               "cron"}
  /\ part = "deploy" \/ NoDeployment
  /\ part = "cleanup" \/ (docker = {} /\ spec = CHOOSE s \in Specs : TRUE)
  /\ part = "verify" \/ leftover = {}
  /\ part = "recreate" \/ (ports = FALSE /\ checked = FALSE)
  /\ part = "restarts" \/ state = [i \in {"c1"} |-> "running"]
  /\ part = "objects" \/ (drive = TRUE /\ op = [c \in Cmd |-> "upload"] /\ files = <<>>)
  /\ part = "schedules" \/ now = 0
  /\ part = "cron" \/ (field = <<F!Term(F!Any, 0)>> /\ value = Lo)
  /\ Init /\ Cleanup!Init /\ V!Init /\ R!Init /\ L!Init /\ O!Init /\ S!Init /\ F!Init
  /\ part = "recreate" \/ ~R!Exists("temp")

(* The counters that bound a part are used up. *)
AtBound ==
  \/ part = "restarts" /\ cycle = MaxCycle
  \/ part = "objects" /\ \A c \in Cmd : opc[c] = "done"
  \/ part = "schedules" /\ now = MaxTime
  \/ part = "cron" /\ ~more

MCNext ==
  \/ /\ part = "deploy" /\ Next
     /\ UNCHANGED <<part, cleanupVars, verifyVars, recreateVars, restartVars, backupVars>>
  \/ /\ part = "cleanup" /\ Cleanup!Next
     /\ UNCHANGED <<part, vars, verifyVars, recreateVars, restartVars, backupVars>>
  \/ /\ part = "verify" /\ V!Next
     /\ UNCHANGED <<part, vars, cleanupVars, recreateVars, restartVars, backupVars>>
  \/ /\ part = "recreate" /\ R!Next
     /\ UNCHANGED <<part, vars, cleanupVars, verifyVars, restartVars, backupVars>>
  \/ /\ part = "restarts" /\ L!Next
     /\ UNCHANGED <<part, vars, cleanupVars, verifyVars, recreateVars, backupVars>>
  \/ /\ part = "objects" /\ O!Next
     /\ UNCHANGED <<part, containerVars, scheduleVars, cronVars>>
  \/ /\ part = "schedules" /\ S!Next
     /\ UNCHANGED <<part, containerVars, objectVars, cronVars>>
  \/ /\ part = "cron" /\ F!Next
     /\ UNCHANGED <<part, containerVars, objectVars, scheduleVars>>
  \/ AtBound /\ UNCHANGED mcVars

MCSpec == MCInit /\ [][MCNext]_mcVars

-----------------------------------------------------------------------------
(* Properties *)

(* Every variable of the component that runs has its type; the others are   *)
(* in an initial state of theirs.                                           *)
MCTypeOK ==
  CASE part = "deploy" -> TypeOK
    [] part = "cleanup" -> Cleanup!TypeOK
    [] part = "verify" -> V!TypeOK
    [] part = "recreate" -> R!TypeOK
    [] part = "restarts" -> L!TypeOK
    [] part = "objects" -> O!TypeOK
    [] part = "schedules" -> S!TypeOK
    [] part = "cron" -> value \in Lo..Hi /\ more \in BOOLEAN

(* The clean-up removes nothing that is not stale.  "Foreign containers are *)
(* never touched" and "only the db_* commands may remove" a database        *)
(* (executor.go:349-363, 475-479), whatever the stack name, the ports and   *)
(* the flags; without force, none of the services of the deployment under   *)
(* its name or a deploy suffix of it (366-369); and after a targeted one,   *)
(* "non-targeted containers must not be removed" (280-281).                 *)
OnlyStaleRemoved ==
  part = "cleanup" => Cleanup!ForeignUntouched /\ Cleanup!SpecKept /\ Cleanup!TargetedKeeps

(* "containers that belong to this stack ... but are NOT in the new         *)
(* deployment spec" (executor.go:388-389): a container that the strategy    *)
(* would replace, replicas included, is left to it.                         *)
ReplicasKept == Cleanup!ReplicasKept

(* What a deployment is told of its containers is what it goes by.  "canary *)
(* health check failed - aborting deployment" (canary.go:93): a rolling     *)
(* update begins only after a canary that was running at every one of its   *)
(* checks.  "Detects containers that stopped, entered a restart loop, or    *)
(* failed health checks" (executor.go:502): unless a Docker call failed, a  *)
(* deployment ends as deployed only if the last check found every expected  *)
(* container running, never restarted and not unhealthy, whatever stopped   *)
(* leftovers of earlier versions the lists show.                            *)
ChecksDecide == UnsoundStops /\ V!DeployedStable

(* A recreate never leaves the service worse than it was (docker.go:681-    *)
(* 682, 706-707, 723-739).  One that gives up after a create, a start or an *)
(* inspection failed, or the new container crashed or was unhealthy, leaves *)
(* the old one running under its name, if the calls that undo things go     *)
(* through; whatever fails, the retired container exists until success; and *)
(* a success whose goroutine has run leaves one container, under the        *)
(* original name.  All along, every container of the service is attributed  *)
(* to it by CanonicalContainerName and findAllMatchingContainers            *)
(* (logstreamer.go:27-31).                                                  *)
RecreateSafe ==
  part = "recreate" => R!FailedRestores /\ R!OldKept /\ R!OneLeft /\ R!Attributable

(* A container whose restarts reached Loop while it was tracked has been    *)
(* reported, however its restarts fell between the cycles (netmonitor.go:   *)
(* 151-165); at most once in each stable time since its tracker was made    *)
(* (168-171); and between cycles only containers of the last listing have a *)
(* tracker, "so the map does not grow unbounded" (116-117).                 *)
RestartsReported ==
  part = "restarts" => L!LoopsReported /\ L!ReportsSpaced /\ L!TrackersPruned

(* "Keep the name a stable, single object" (gdrive.go:67): unless two        *)
(* uploads of a name overlap there is never a second file, retries after     *)
(* lost answers included; and what a command that met no other one reports   *)
(* of an upload or a delete is so.                                           *)
ObjectsTrue == []O!OneObject /\ O!ReportsTrue

(* "skipping instance, previous snapshot still running" (scheduler.go:96):   *)
(* whatever the schedules, an instance is in inflight exactly while one      *)
(* snapshot of it runs, so a long one delays no later one.  "re-aligns to    *)
(* the next minute boundary on each iteration to prevent drift" (63-64):     *)
(* however late each timer fires within its bound, every minute is checked,  *)
(* and none twice, so that a snapshot that ends within its minute is not     *)
(* started again.  And a field of a schedule matches the values of its       *)
(* terms, up to the first malformed one, which never makes it match (the     *)
(* comment on fieldMatches, 151-157).                                        *)
ScheduleExact ==
  /\ part = "schedules" => S!InflightExact /\ S!NoMinuteMissed /\ S!FiredOncePerMinute
  /\ part = "cron" => F!FieldMeaning
=============================================================================

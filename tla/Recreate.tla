------------------------------ MODULE Recreate ------------------------------
(***************************************************************************)
(* GracefulRecreate of src/docker/docker.go, which replaces one container: *)
(* a temporary container without host ports is tried out, the old one is   *)
(* renamed and stopped, and a final container with the ports (or the       *)
(* temporary one itself) takes its name.  Docker calls fail, the new       *)
(* containers crash and their health checks change, and the old container  *)
(* is removed by a goroutine after the call has returned.                  *)
(***************************************************************************)
EXTENDS ContainerNames, FiniteSets

CONSTANTS Service,      \* the name of the container in the orchestrator
          Original,     \* names the container may have when it is recreated
          Timestamp,    \* the segment after "retired"
          Ports,        \* values of hasPortBindings
          HealthCheck,  \* values of: the image has a health check
          Leftover,     \* values of: a temporary container was left
          Waits,        \* inspections within the 30 s deadline
          MayFail       \* kinds of Docker calls that may fail

VARIABLES
  pc,          \* where GracefulRecreate is
  con,         \* the containers old, temp and final
  original,    \* originalName
  ports,       \* hasPortBindings
  waits,       \* inspections made in the loop at hand
  oldRetired,  \* was the old container renamed?
  cleaning,    \* is removeOld's goroutine still to run?
  checked,     \* does the image have a health check?
  faults       \* kinds of Docker calls that failed

vars == <<pc, con, original, ports, waits, oldRetired, cleaning, checked, faults>>

Container == {"old", "temp", "final"}
State == {"none", "created", "running", "exited"}
Health == {"no check", "starting", "healthy", "unhealthy"}
Steps == {"inspect", "clear", "create", "start", "wait", "remove temp", "retire", "stop old",
          "fall back", "discard temp", "create final", "start final", "wait final",
          "remove final", "restore", "restart old", "rename temp",
          "dispose", "done", "failed"}

TypeOK ==
  /\ pc \in Steps
  /\ \A c \in Container : con[c].state \in State /\ con[c].health \in Health
  /\ original \in Original /\ ports \in Ports
  /\ waits \in 0..Waits /\ faults \subseteq MayFail
  /\ oldRetired \in BOOLEAN /\ cleaning \in BOOLEAN
  /\ checked \in HealthCheck

Exists(c) == con[c].state # "none"
tempName == original \o Updating

(* The name under which the old container is kept. *)
retiredName == original \o <<"retired", Timestamp>>
Nothing == [state |-> "none", health |-> "no check", name |-> <<>>]

(* A temporary container of an earlier attempt may be left. *)
Init ==
  /\ pc = "inspect" /\ original \in Original /\ ports \in Ports
  /\ checked \in HealthCheck
  /\ \E left \in Leftover :
       LET health == IF checked THEN "healthy" ELSE "no check"
           running(n) == [state |-> "running", health |-> health, name |-> n]
       IN  con = [c \in Container |->
                    CASE c = "old" -> running(original)
                      [] c = "temp" /\ left -> running(tempName)
                      [] OTHER -> Nothing]
  /\ waits = 0 /\ faults = {}
  /\ oldRetired = FALSE /\ cleaning = FALSE

-----------------------------------------------------------------------------
(* Docker *)

(* A call of kind k fails. *)
Fails(k) == k \in MayFail /\ faults' = faults \cup {k}

(* A best-effort call that makes new the state of the containers. *)
Try(k, new) ==
  \/ con' = new /\ UNCHANGED faults
  \/ Fails(k) /\ UNCHANGED con

NameFree(n) == \A c \in Container : Exists(c) => con[c].name # n
PortFree == \A c \in {"old", "final"} : ports => con[c].state # "running"
Stopped(c) == [con EXCEPT ![c].state = IF @ = "running" THEN "exited" ELSE @]
Removed(c) == [con EXCEPT ![c] = Nothing]
Renamed(c, n) == [con EXCEPT ![c].name = n]

(* ContainerCreate with the old container's health check; no name twice. *)
Create(c, n, next, onError) ==
  \/ /\ NameFree(n) /\ UNCHANGED faults
     /\ con' = [con EXCEPT ![c] =
                  [state |-> "created", name |-> n,
                   health |-> IF checked THEN "starting" ELSE "no check"]]
     /\ pc' = next
  \/ ~NameFree(n) /\ UNCHANGED <<con, faults>> /\ pc' = onError
  \/ Fails("create") /\ UNCHANGED con /\ pc' = onError

(* A new container crashes, or its health check has a result. *)
Changes(c) ==
  /\ con[c].state = "running" /\ pc \notin {"done", "failed"}
  /\ \/ con' = [con EXCEPT ![c].state = "exited"]
     \/ /\ con[c].health = "starting"
        /\ \E h \in {"healthy", "unhealthy"} : con' = [con EXCEPT ![c].health = h]
  /\ UNCHANGED <<pc, original, ports, waits, oldRetired, cleaning, checked, faults>>

-----------------------------------------------------------------------------
(* GracefulRecreate *)

Keep == UNCHANGED <<original, ports, checked>>

(* ContainerInspect of the old container. *)
Inspect ==
  /\ pc = "inspect"
  /\ \/ pc' = "clear" /\ UNCHANGED faults
     \/ pc' = "failed" /\ Fails("inspect")
  /\ Keep /\ UNCHANGED <<con, waits, oldRetired, cleaning>>

(* The temporary container of an earlier attempt is removed. *)
ClearTemp ==
  /\ pc = "clear" /\ pc' = "create"
  /\ Try("remove", Removed("temp"))
  /\ Keep /\ UNCHANGED <<waits, oldRetired, cleaning>>

CreateTemp ==
  /\ pc = "create"
  /\ Create("temp", tempName, "start", "failed")
  /\ Keep /\ UNCHANGED <<waits, oldRetired, cleaning>>

(* ContainerStart of a created container, and a fresh deadline. *)
Start(c, wait, discard) ==
  /\ \/ /\ c = "final" => PortFree
        /\ con' = [con EXCEPT ![c].state = "running"]
        /\ pc' = wait /\ UNCHANGED faults
     \/ c = "final" /\ ~PortFree /\ pc' = discard /\ UNCHANGED <<con, faults>>
     \/ Fails("start") /\ pc' = discard /\ UNCHANGED con
  /\ waits' = 0
  /\ Keep /\ UNCHANGED <<oldRetired, cleaning>>

StartTemp == pc = "start" /\ Start("temp", "wait", "remove temp")

Ready(c) == con[c].state = "running" /\ con[c].health \in {"no check", "healthy"}
Broken(c) == con[c].state # "running" \/ con[c].health = "unhealthy"

(* One turn of a health loop: an error of the inspection and the deadline   *)
(* end it as a ready container does.                                        *)
Wait(c, next, discard) ==
  /\ \/ waits = Waits /\ pc' = next /\ UNCHANGED <<waits, faults>>
     \/ Fails("inspect") /\ waits < Waits /\ pc' = next /\ UNCHANGED waits
     \/ /\ waits < Waits /\ UNCHANGED faults
        /\ \/ Ready(c) /\ pc' = next /\ UNCHANGED waits
           \/ Broken(c) /\ pc' = discard /\ UNCHANGED waits
           \/ ~Ready(c) /\ ~Broken(c) /\ waits' = waits + 1 /\ UNCHANGED pc
  /\ Keep /\ UNCHANGED <<con, oldRetired, cleaning>>

WaitTemp == pc = "wait" /\ Wait("temp", "retire", "remove temp")

RemoveTemp ==
  /\ pc = "remove temp" /\ pc' = "failed"
  /\ Try("remove", Removed("temp"))
  /\ Keep /\ UNCHANGED <<waits, oldRetired, cleaning>>

(* The old container gives up its name, or is removed at once. *)
RetireOld ==
  /\ pc = "retire"
  /\ \/ con' = Renamed("old", retiredName) /\ pc' = "stop old" /\ oldRetired' = TRUE
        /\ UNCHANGED faults
     \/ Fails("rename") /\ pc' = "fall back" /\ UNCHANGED <<con, oldRetired>>
  /\ Keep /\ UNCHANGED <<waits, cleaning>>

AfterRetire == IF ports THEN "discard temp" ELSE "rename temp"

StopOld ==
  /\ pc = "stop old" /\ pc' = AfterRetire
  /\ Try("stop", Stopped("old"))
  /\ Keep /\ UNCHANGED <<waits, oldRetired, cleaning>>

FallBack ==
  /\ pc = "fall back" /\ pc' = AfterRetire
  /\ \/ Try("remove", Removed("old"))
     \/ Fails("remove") /\ con' = Stopped("old")
  /\ Keep /\ UNCHANGED <<waits, oldRetired, cleaning>>

DiscardTemp ==
  /\ pc = "discard temp" /\ pc' = "create final"
  /\ \/ Try("remove", Removed("temp"))
     \/ Fails("remove") /\ con' = Stopped("temp")
  /\ Keep /\ UNCHANGED <<waits, oldRetired, cleaning>>

CreateFinal ==
  /\ pc = "create final"
  /\ Create("final", original, "start final", "restore")
  /\ Keep /\ UNCHANGED <<waits, oldRetired, cleaning>>

StartFinal == pc = "start final" /\ Start("final", "wait final", "remove final")

WaitFinal == pc = "wait final" /\ Wait("final", "dispose", "remove final")

RemoveFinal ==
  /\ pc = "remove final" /\ pc' = "restore"
  /\ Try("remove", Removed("final"))
  /\ Keep /\ UNCHANGED <<waits, oldRetired, cleaning>>

(* restoreOld *)
RestoreOld ==
  /\ pc = "restore"
  /\ \/ ~oldRetired /\ pc' = "failed" /\ UNCHANGED <<con, faults>>
     \/ /\ oldRetired /\ pc' = "restart old"
        /\ IF NameFree(original) THEN Try("rename", Renamed("old", original))
           ELSE UNCHANGED <<con, faults>>
  /\ Keep /\ UNCHANGED <<waits, oldRetired, cleaning>>

(* Mutant of RestartOld: the rename is thought enough. *)
RestartOldSkipped ==
  /\ pc = "restart old" /\ pc' = "failed"
  /\ Keep /\ UNCHANGED <<con, waits, oldRetired, cleaning, faults>>

RestartOld ==
  /\ pc = "restart old" /\ pc' = "failed"
  /\ IF PortFree \/ con["old"].state = "running"
     THEN Try("restart", [con EXCEPT !["old"].state = "running"])
     ELSE UNCHANGED <<con, faults>>
  /\ Keep /\ UNCHANGED <<waits, oldRetired, cleaning>>

(* Without ports the temporary container becomes the new one. *)
RenameTemp ==
  /\ pc = "rename temp" /\ pc' = "dispose"
  /\ IF NameFree(original) THEN Try("rename", Renamed("temp", original))
     ELSE UNCHANGED <<con, faults>>
  /\ Keep /\ UNCHANGED <<waits, oldRetired, cleaning>>

(* removeOld starts a goroutine, and the call returns. *)
removeOld ==
  /\ pc = "dispose" /\ pc' = "done" /\ cleaning' = oldRetired
  /\ Keep /\ UNCHANGED <<con, waits, oldRetired, faults>>

RemoveRetired ==
  /\ cleaning /\ cleaning' = FALSE
  /\ Try("remove", Removed("old"))
  /\ Keep /\ UNCHANGED <<pc, waits, oldRetired>>

Ended == pc \in {"done", "failed"} /\ ~cleaning /\ UNCHANGED vars

Next ==
  \/ \E c \in {"temp", "final"} : Changes(c)
  \/ Inspect \/ ClearTemp \/ CreateTemp \/ StartTemp \/ WaitTemp \/ RemoveTemp
  \/ RetireOld \/ StopOld \/ FallBack \/ DiscardTemp
  \/ CreateFinal \/ StartFinal \/ WaitFinal \/ RemoveFinal
  \/ RestoreOld \/ RestartOld \/ RenameTemp \/ removeOld \/ RemoveRetired \/ Ended

Spec == Init /\ [][Next]_vars

-----------------------------------------------------------------------------
(* Properties *)

(* Calls that make or look at a container, not those that undo. *)
Forward == {"inspect", "create", "start"}

(* docker.go:681-682, 706-707: when a create, a start or an inspection      *)
(* fails, or a new container crashes or is unhealthy, the recreate that     *)
(* gives up leaves the old container running under its name, and no final   *)
(* container in its way, if the calls that undo things go through.          *)
FailedRestores ==
  pc = "failed" /\ faults \subseteq Forward =>
                   /\ con["old"].state = "running" /\ con["old"].name = original
                   /\ ~Exists("final")

(* docker.go:723-739: a recreate that succeeds, and whose goroutine has run,*)
(* leaves one container, under the original name.                           *)
OneLeft ==
  pc = "done" /\ ~cleaning /\ faults \subseteq Forward =>
    \E c \in Container : /\ {d \in Container : Exists(d)} = {c}
                         /\ con[c].name = original

(* docker.go:681-682: whatever fails, a container that was retired exists   *)
(* until the recreate has succeeded.                                        *)
OldKept == oldRetired /\ pc # "done" => Exists("old")

(* logstreamer.go:27-31: every container of the service is attributed to it *)
(* by CanonicalContainerName and found for it by findAllMatchingContainers, *)
(* at every moment of a recreate.                                           *)
Attributable ==
  \A c \in Container : Exists(c) =>
    CanonicalContainerName(con[c].name) = Service /\ matches(Service, con[c].name)
=============================================================================

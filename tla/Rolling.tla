------------------------------ MODULE Rolling ------------------------------
(***************************************************************************)
(* The rolling strategy of src/deploy/rolling.go: executeRolling and       *)
(* rollbackContainers against the Docker daemon of SlotDocker.  The only   *)
(* other actor is the new image, which may crash.                          *)
(***************************************************************************)
EXTENDS SlotDocker

Image == {"older", "old", "new"}

VARIABLES
  pc,        \* where executeRolling is
  cur,       \* snapshotIdx: the slot at hand
  rb,        \* the slots still to roll back are 1..rb
  snap,      \* snap[s]: snapshot.OldImage, or "none" when OldID is empty
  olds,      \* oldContainers of the slot at hand
  probed     \* slots whose probe was seen running

vars == <<pc, cur, rb, dockerVars, snap, olds, probed, faults, served>>

TypeOK ==
  /\ pc \in {"snapshot", "pull", "find", "probe", "probed", "passed", "dead",
             "stop", "create", "verify", "remove", "rename", "rollback",
             "restore", "restored", "done", "failed"}
  /\ cur \in Slot
  /\ rb \in 0..MaxSlot
  /\ snap \in [Slot -> Image \cup {"none"}]
  /\ olds \subseteq Role
  /\ probed \subseteq Slot
  /\ DockerTypeOK

ImageOf(s, r) ==
  CASE r = "old" -> "old"
    [] r = "stray" -> "older"
    [] r = "restored" -> snap[s]
    [] OTHER -> "new"

Init ==
  /\ DockerInit
  /\ pc = "snapshot" /\ cur = 1 /\ rb = 0
  /\ snap = [s \in Slot |-> "none"]
  /\ olds = {} /\ probed = {}

(* A container of the new image exits on its own. *)
Crash(s, r) ==
  /\ ImageOf(s, r) = "new" /\ Exits(s, r)
  /\ UNCHANGED <<pc, cur, rb, canon, snap, olds, probed, faults, served>>

-----------------------------------------------------------------------------
(* executeRolling *)

Goto(a, b) == pc = a /\ pc' = b

(* The slot after the one at hand, or where to go when there is none. *)
Step(b, end) ==
  \/ cur < MaxSlot /\ cur' = cur + 1 /\ pc' = b
  \/ cur = MaxSlot /\ cur' = 1 /\ pc' = end

(* rollbackContainers is called for the slots 1..k. *)
Rollback(a, k) == Goto(a, "rollback") /\ rb' = k

(* FindCanonicalContainer and InspectContainer: without an inspection the  *)
(* image is the new one, without a container OldID is empty.               *)
Snapshot ==
  LET seen == Matching(cur)
      image == IF "old" \in seen THEN "old" ELSE "older"
  IN
  /\ pc = "snapshot"
  /\ Step("snapshot", "pull")
  /\ \/ seen # {} /\ snap' = [snap EXCEPT ![cur] = image] /\ UNCHANGED faults
     \/ seen # {} /\ snap' = [snap EXCEPT ![cur] = "new"] /\ Fails("snapshot")
     \/ seen # {} /\ Fails("snapshot") /\ UNCHANGED snap
     \/ seen = {} /\ UNCHANGED <<snap, faults>>
  /\ UNCHANGED <<rb, dockerVars, olds, probed, served>>

(* PullImage, once per container. *)
PullImage ==
  /\ \/ Goto("pull", "find") /\ UNCHANGED <<rb, faults>>
     \/ cur \in First /\ Rollback("pull", cur - 1) /\ UNCHANGED faults
  /\ UNCHANGED <<cur, dockerVars, snap, olds, probed, served>>

shouldProbe(s, R) == s \in Ports /\ R # {} /\ s \notin Volumes

(* findAllMatchingContainers: no container, when the list fails. *)
FindOlds ==
  /\ \/ olds' = Matching(cur) /\ UNCHANGED faults
     \/ olds' = {} /\ Fails("forward")
  /\ Goto("find", IF shouldProbe(cur, olds') THEN "probe" ELSE "stop")
  /\ UNCHANGED <<cur, rb, dockerVars, snap, probed, served>>

StartProbe ==
  /\ \/ Goto("probe", "probed") /\ UNCHANGED rb
        /\ Creates(cur, "probe", "new", "forward", TRUE)
     \/ Rollback("probe", cur - 1)
        /\ Creates(cur, "probe", "new", "forward", FALSE)
  /\ UNCHANGED <<cur, canon, snap, olds, probed, served>>

(* Two seconds later the probe is inspected, then removed either way. *)
CheckProbe ==
  /\ \/ /\ st[cur]["probe"] = "running"
        /\ Goto("probed", "passed")
        /\ probed' = probed \cup {cur}
        /\ UNCHANGED faults
     \/ /\ st[cur]["probe"] # "running"
        /\ Goto("probed", "dead")
        /\ UNCHANGED <<probed, faults>>
     \/ Fails("forward") /\ Goto("probed", "dead") /\ UNCHANGED probed
  /\ UNCHANGED <<cur, rb, dockerVars, snap, olds, served>>

RemoveProbe ==
  /\ \/ Goto("passed", "stop") /\ UNCHANGED rb
     \/ Rollback("dead", cur - 1)
  /\ Removes(cur, {"probe"}, "forward")
  /\ UNCHANGED <<cur, snap, olds, probed, served>>

StopOlds ==
  /\ Goto("stop", "create")
  /\ Stops(cur, olds, "forward")
  /\ UNCHANGED <<cur, rb, snap, olds, probed, served>>

(* Mutant of InFlight: only completed slots are rolled back. *)
InFlightIgnored == cur - 1

(* appendIdx: the slot at hand is rolled back too if its predecessors may   *)
(* have been stopped.                                                       *)
InFlight == IF olds # {} THEN cur ELSE cur - 1

CreateNew ==
  /\ \/ Goto("create", "verify") /\ UNCHANGED rb
        /\ Creates(cur, "new", "new", "forward", TRUE)
     \/ Rollback("create", InFlight)
        /\ Creates(cur, "new", "new", "forward", FALSE)
  /\ UNCHANGED <<cur, canon, snap, olds, probed, served>>

(* InspectContainer of the new container. *)
VerifyRunning ==
  /\ \/ /\ st[cur]["new"] = "running"
        /\ Goto("verify", "remove")
        /\ UNCHANGED <<rb, faults>>
     \/ /\ st[cur]["new"] # "running"
        /\ Rollback("verify", cur)
        /\ UNCHANGED faults
     \/ Fails("forward") /\ Rollback("verify", cur)
  /\ UNCHANGED <<cur, dockerVars, snap, olds, probed, served>>

(* Mutant of RemoveOlds: leftovers under variant names stay. *)
RemoveOldsByName ==
  /\ Goto("remove", "rename")
  /\ Removes(cur, olds \cap {canon[cur]}, "forward")
  /\ UNCHANGED <<cur, rb, snap, olds, probed, served>>

RemoveOlds ==
  /\ Goto("remove", "rename")
  /\ Removes(cur, olds, "forward")
  /\ UNCHANGED <<cur, rb, snap, olds, probed, served>>

RenameNew ==
  /\ pc = "rename"
  /\ Step("pull", "done")
  /\ Renames(cur, "new", "forward")
  /\ olds' = {}
  /\ UNCHANGED <<rb, snap, probed, served>>

-----------------------------------------------------------------------------
(* rollbackContainers, last slot first *)

(* Every matching container, or none when the list fails. *)
RemoveMatching(s) ==
  \/ Removes(s, Matching(s), "rollback")
  \/ Fails("rollback") /\ UNCHANGED dockerVars

(* OldID = "": remove what is there, nothing to restore. *)
RollbackFresh ==
  /\ pc = "rollback" /\ rb > 0 /\ snap[rb] = "none"
  /\ RemoveMatching(rb)
  /\ rb' = rb - 1
  /\ UNCHANGED <<pc, cur, snap, olds, probed, served>>

(* The old image is pulled (an error is only logged); what is there is      *)
(* removed.                                                                 *)
RollbackRemove ==
  /\ rb > 0 /\ snap[rb] # "none"
  /\ Goto("rollback", "restore")
  /\ RemoveMatching(rb)
  /\ UNCHANGED <<cur, rb, snap, olds, probed, served>>

RestoreOld ==
  /\ pc = "restore"
  /\ \/ Creates(rb, "restored", snap[rb], "rollback", TRUE)
        /\ pc' = "restored" /\ UNCHANGED rb
     \/ Creates(rb, "restored", snap[rb], "rollback", FALSE)
        /\ pc' = "rollback" /\ rb' = rb - 1
  /\ UNCHANGED <<cur, canon, snap, olds, probed, served>>

RenameRestored ==
  /\ Goto("restored", "rollback")
  /\ Renames(rb, "restored", "rollback")
  /\ rb' = rb - 1
  /\ UNCHANGED <<cur, snap, olds, probed, served>>

RolledBack ==
  /\ rb = 0
  /\ Goto("rollback", "failed")
  /\ UNCHANGED <<cur, rb, dockerVars, snap, olds, probed, faults, served>>

Ended == pc \in {"done", "failed"} /\ UNCHANGED vars

Next ==
  \/ Snapshot
  \/ PullImage \/ FindOlds \/ StartProbe \/ CheckProbe \/ RemoveProbe
  \/ StopOlds
  \/ CreateNew \/ VerifyRunning \/ RemoveOlds \/ RenameNew
  \/ RollbackFresh \/ RollbackRemove \/ RestoreOld \/ RenameRestored \/ RolledBack
  \/ \E s \in Slot, r \in Role : Crash(s, r)
  \/ Ended

Spec == Init /\ [][Next]_vars

-----------------------------------------------------------------------------
(* Properties *)

(* The old version runs in slot s. *)
OldServes(s) ==
  \E r \in Role : ImageOf(s, r) = "old" /\ st[s][r] = "running"

(* rolling.go:379-381: a slot that had no container has none running after *)
(* a rollback; a temporary copy whose removal failed is not one it finds.  *)
FreshRemoved ==
  pc = "failed" /\ Failed \subseteq {"forward"} =>
    \A s \in Slot : snap[s] = "none" => \A r \in Role \ Temporary : st[s][r] # "running"

(* "This prevents leaving nothing running if the new image fails"          *)
(* (rolling.go:148): a predecessor with host ports and no volumes is not   *)
(* stopped before a probe of the new image was seen running.               *)
ProbeProtects ==
  \A s \in (served \cap Ports) \ Volumes : st[s]["old"] = "running" \/ s \in probed

(* Whatever fails, a slot the deployment did not reach keeps serving from   *)
(* the very container it had.                                               *)
UnreachedUntouched ==
  pc # "snapshot" /\ pc # "done" =>
    \A s \in served : s > cur => st[s]["old"] = "running"

(* A deployment that met no Docker failure leaves one container per slot,  *)
(* the new one, under the canonical name: nothing for the next deployment  *)
(* to trip over.                                                           *)
CleanSuccess ==
  pc = "done" /\ Failed = {} =>
    \A s \in Slot : {r \in Role : Present(s, r)} = {"new"} /\ canon[s] = "new"
=============================================================================

----------------------------- MODULE BlueGreen -----------------------------
(***************************************************************************)
(* The blue-green strategy of src/deploy/bluegreen.go: executeBlueGreen    *)
(* and cleanupGreen against the Docker daemon of SlotDocker.  Blue is the  *)
(* old container, green a copy without ports, and new the final one.       *)
(***************************************************************************)
EXTENDS SlotDocker

CONSTANT Suffixed    \* whether blue may run under a suffixed name

VARIABLES
  pc,        \* where executeBlueGreen is
  cur,       \* the slot at hand
  greens,    \* keys of greenIDs
  backups,   \* slots with a blueBackup
  retired,   \* those whose retiredName is set
  todo       \* slots left in the loop at hand

vars == <<pc, cur, greens, backups, retired, todo, dockerVars, faults, served>>

TypeOK ==
  /\ pc \in {"pull", "green", "health", "retire", "stop", "degreen", "final",
             "verify", "discard", "restore", "unretire", "restart", "clean",
             "commit", "done", "failed"}
  /\ cur \in Slot
  /\ greens \subseteq Slot
  /\ backups \subseteq Slot
  /\ retired \subseteq backups
  /\ todo \subseteq Slot
  /\ DockerTypeOK

Init ==
  /\ DockerInit
  /\ Suffixed \/ \A s \in Slot : Present(s, "old") => canon[s] = "old"
  /\ pc = "pull" /\ cur = 1
  /\ greens = {} /\ backups = {} /\ retired = {} /\ todo = {}

(* A container of the new image exits on its own. *)
Crash(s, r) ==
  /\ r \in {"green", "new"} /\ Exits(s, r)
  /\ UNCHANGED <<pc, cur, greens, backups, retired, todo, canon, faults, served>>

Goto(a, b) == pc = a /\ pc' = b

(* Mutant of Step: the loop runs once too often. *)
StepPast(b, end) ==
  \/ cur <= MaxSlot /\ cur' = cur + 1 /\ pc' = b
  \/ cur > MaxSlot /\ cur' = 1 /\ pc' = end

(* The slot after the one at hand, or where to go when there is none. *)
Step(b, end) ==
  \/ cur < MaxSlot /\ cur' = cur + 1 /\ pc' = b
  \/ cur = MaxSlot /\ cur' = 1 /\ pc' = end

(* cleanupGreen follows, then the error is returned. *)
Abort == pc' = "clean" /\ todo' = greens

-----------------------------------------------------------------------------
(* Phase 1: green copies *)

(* Mutant of needsGreen: volumes do not matter. *)
needsGreenAlways(s) == TRUE

needsGreen(s) == s \notin Volumes

PullGreen ==
  /\ pc = "pull"
  /\ \/ cur \in First /\ Abort /\ UNCHANGED cur
     \/ needsGreen(cur) /\ pc' = "green" /\ UNCHANGED <<cur, todo>>
     \/ /\ ~needsGreen(cur)
        /\ Step("pull", "health")
        /\ todo' = IF cur = MaxSlot THEN greens ELSE {}
  /\ UNCHANGED <<greens, backups, retired, dockerVars, faults, served>>

(* A copy that does not start is not in greenIDs. *)
CreateGreen ==
  /\ pc = "green"
  /\ \/ /\ Creates(cur, "green", "new", "forward", TRUE)
        /\ greens' = greens \cup {cur}
        /\ Step("pull", "health")
        /\ todo' = IF cur = MaxSlot THEN greens' ELSE {}
     \/ /\ Creates(cur, "green", "new", "forward", FALSE)
        /\ Abort
        /\ UNCHANGED <<cur, greens>>
  /\ UNCHANGED <<backups, retired, canon, served>>

-----------------------------------------------------------------------------
(* Phase 2: within 30 seconds each copy is seen running and healthy, or not. *)
CheckGreen ==
  /\ pc = "health"
  /\ \/ \E s \in todo :
          /\ st[s]["green"] = "running"
          /\ todo' = todo \ {s}
          /\ UNCHANGED pc
     \/ todo # {} /\ Abort
     \/ todo = {} /\ pc' = "retire" /\ UNCHANGED todo
  /\ UNCHANGED <<cur, greens, backups, retired, dockerVars, faults, served>>

-----------------------------------------------------------------------------
(* Phase 3: the swap *)

(* FindContainerByName and RenameContainer.  A lookup that fails finds      *)
(* nothing; a rename that fails leaves the name where it is.                *)
RetireBlue ==
  /\ \/ /\ canon[cur] # "none"
        /\ Goto("retire", "stop")
        /\ backups' = backups \cup {cur}
        /\ \/ retired' = retired \cup {cur} /\ canon' = [canon EXCEPT ![cur] = "none"]
              /\ UNCHANGED faults
           \/ Fails("forward") /\ UNCHANGED <<retired, canon>>
     \/ /\ \/ canon[cur] = "none" /\ UNCHANGED faults
           \/ Fails("forward")
        /\ Goto("retire", "degreen")
        /\ UNCHANGED <<backups, retired, canon>>
  /\ UNCHANGED <<cur, greens, todo, st, served>>

(* Mutant of StopBlue: blue is removed at once. *)
StopBlueForGood ==
  /\ Goto("stop", "degreen")
  /\ Removes(cur, {"old"}, "forward")
  /\ UNCHANGED <<cur, greens, backups, retired, todo, served>>

StopBlue ==
  /\ Goto("stop", "degreen")
  /\ Stops(cur, {"old"}, "forward")
  /\ UNCHANGED <<cur, greens, backups, retired, todo, served>>

(* StopContainer and RemoveContainer of the green copy. *)
RemoveGreen ==
  /\ Goto("degreen", "final")
  /\ IF cur \in greens THEN Removes(cur, {"green"}, "forward")
                       ELSE UNCHANGED <<dockerVars, faults>>
  /\ UNCHANGED <<cur, greens, backups, retired, todo, served>>

(* CreateAndStartContainer under the canonical name, which must be free. *)
CreateFinal ==
  /\ \/ /\ canon[cur] = "none"
        /\ Goto("final", "verify")
        /\ Creates(cur, "new", "new", "forward", TRUE)
        /\ canon' = [canon EXCEPT ![cur] = "new"]
        /\ UNCHANGED todo
     \/ /\ Goto("final", "restore")
        /\ \/ /\ canon[cur] = "none"
              /\ Creates(cur, "new", "new", "forward", FALSE)
              /\ canon' = IF st'[cur]["new"] = "absent" THEN canon
                          ELSE [canon EXCEPT ![cur] = "new"]
           \/ canon[cur] # "none" /\ UNCHANGED <<dockerVars, faults>>
        /\ todo' = backups
  /\ UNCHANGED <<cur, greens, backups, retired, served>>

(* InspectContainer of the final container. *)
VerifyFinal ==
  /\ pc = "verify"
  /\ \/ /\ st[cur]["new"] = "running"
        /\ Step("retire", "commit")
        /\ todo' = IF cur = MaxSlot THEN backups ELSE {}
        /\ UNCHANGED faults
     \/ /\ \/ st[cur]["new"] # "running" /\ UNCHANGED faults
           \/ Fails("forward")
        /\ pc' = "discard"
        /\ UNCHANGED <<cur, todo>>
  /\ UNCHANGED <<greens, backups, retired, dockerVars, served>>

(* StopAndRemoveContainer of a final container that does not run. *)
DiscardFinal ==
  /\ Goto("discard", "restore")
  /\ Removes(cur, {"new"}, "forward")
  /\ todo' = backups
  /\ UNCHANGED <<cur, greens, backups, retired, served>>

(* Every final container runs: the retired blues are removed. *)
CommitSwap ==
  /\ pc = "commit"
  /\ \/ \E s \in todo :
          /\ Removes(s, {"old"}, "forward")
          /\ todo' = todo \ {s}
          /\ UNCHANGED pc
     \/ todo = {} /\ pc' = "done" /\ UNCHANGED <<todo, dockerVars, faults>>
  /\ UNCHANGED <<cur, greens, backups, retired, served>>

-----------------------------------------------------------------------------
(* The swap failed: every blueBackup is restored, in order *)

Least(S) == CHOOSE s \in S : \A t \in S : s <= t

(* Remove a final container that has the canonical name; a lookup that      *)
(* fails finds none.                                                        *)
RemovePartial ==
  LET s == Least(todo) IN
  /\ \/ /\ todo # {}
        /\ Goto("restore", "unretire")
        /\ \/ canon[s] \notin {"none", "old"} /\ Removes(s, {canon[s]}, "rollback")
           \/ canon[s] \in {"none", "old"} /\ UNCHANGED <<dockerVars, faults>>
           \/ Fails("rollback") /\ UNCHANGED dockerVars
        /\ UNCHANGED todo
     \/ todo = {} /\ pc = "restore" /\ Abort /\ UNCHANGED <<dockerVars, faults>>
  /\ UNCHANGED <<cur, greens, backups, retired, served>>

RenameBack ==
  LET s == Least(todo) IN
  /\ Goto("unretire", "restart")
  /\ IF s \in retired THEN Renames(s, "old", "rollback")
                      ELSE UNCHANGED <<dockerVars, faults>>
  /\ UNCHANGED <<cur, greens, backups, retired, todo, served>>

(* StartContainer fails if its ports are held. *)
RestartBlue ==
  LET s == Least(todo) IN
  /\ Goto("restart", "restore")
  /\ \/ Holder(s) \ {"old"} = {} /\ st' = [st EXCEPT ![s]["old"] = "running"]
        /\ UNCHANGED faults
     \/ Holder(s) \ {"old"} # {} /\ UNCHANGED <<st, faults>>
     \/ Fails("rollback") /\ UNCHANGED st
  /\ todo' = todo \ {s}
  /\ UNCHANGED <<cur, greens, backups, retired, canon, served>>

(* cleanupGreen: a copy that is gone already makes the calls fail, which is *)
(* only logged.                                                             *)
CleanupGreen ==
  /\ pc = "clean"
  /\ \/ \E s \in todo :
          /\ Removes(s, {"green"}, "rollback")
          /\ todo' = todo \ {s}
          /\ UNCHANGED pc
     \/ todo = {} /\ pc' = "failed" /\ UNCHANGED <<todo, dockerVars, faults>>
  /\ UNCHANGED <<cur, greens, backups, retired, served>>

Ended == pc \in {"done", "failed"} /\ UNCHANGED vars

Next ==
  \/ PullGreen \/ CreateGreen \/ CheckGreen
  \/ RetireBlue \/ StopBlue \/ RemoveGreen \/ CreateFinal
  \/ VerifyFinal \/ DiscardFinal \/ CommitSwap
  \/ RemovePartial \/ RenameBack \/ RestartBlue \/ CleanupGreen
  \/ \E s \in Slot, r \in Role : Crash(s, r)
  \/ Ended

Spec == Init /\ [][Next]_vars

-----------------------------------------------------------------------------
(* Properties *)

(* "Blue is NOT removed until the final container is confirmed running, so *)
(* a create/crash failure can roll back" (bluegreen.go:135-137): when the  *)
(* deployment fails, at whatever call, every slot that was serving runs    *)
(* its own blue container under the name it had, if the calls of the       *)
(* rollback itself went through.                                           *)
BlueRestored ==
  pc = "failed" /\ "rollback" \notin Failed =>
    \A s \in served : st[s]["old"] = "running" /\ (s \in backups => canon[s] = "old")

(* While the swap may still fail every blue container exists. *)
BlueKept ==
  pc \notin {"commit", "done"} => \A s \in served : Present(s, "old")

(* Without a Docker failure no green copy in greenIDs outlives the run.    *)
GreensGone ==
  pc \in {"done", "failed"} /\ Failed = {} => \A s \in greens : ~Present(s, "green")

(* "(only on full success) remove blues" (bluegreen.go:139): after a       *)
(* deployment that succeeded without a Docker failure, blue runs nowhere.  *)
OneVersionServes ==
  pc = "done" /\ Failed = {} => \A s \in Slot : st[s]["old"] # "running"
=============================================================================

----------------------------- MODULE SlotDocker -----------------------------
(***************************************************************************)
(* What the deployment strategies see of the Docker daemon, through        *)
(* src/docker/docker.go.                                                   *)
(*                                                                         *)
(* A slot is one (container, replica) of the spec, in the order of the     *)
(* strategies' loops.  Its containers are told apart by their role, since  *)
(* a deployment makes at most one of each kind per slot: old is the        *)
(* predecessor in service, stray a leftover whose name is a variant of the *)
(* slot's, probe, canary and green are temporary copies, new the           *)
(* replacement and restored what a rollback creates.  The lock on each     *)
(* name (ContainerLocks) keeps other operations away.  A Docker call may   *)
(* fail in the phases of MayFail.                                          *)
(***************************************************************************)
EXTENDS Naturals, FiniteSets

CONSTANTS MaxSlot,   \* bound: slots of the spec
          First,     \* slots that are their container's first replica
          Ports,     \* slots with host ports
          Volumes,   \* slots with volumes
          MayFail,   \* phases in which a Docker call may fail
          MaxFault   \* bound: steps in which one fails

Slot == 1..MaxSlot
Phases == {"snapshot", "forward", "rollback"}
Temporary == {"probe", "canary", "green"}
Role == {"old", "stray", "new", "restored"} \cup Temporary
State == {"absent", "created", "running", "exited"}

ASSUME SlotAssumption == MaxSlot \in Nat
ASSUME ShapeAssumption == First \subseteq Slot /\ Ports \subseteq Slot /\ Volumes \subseteq Slot
ASSUME MayFailAssumption == MayFail \subseteq Phases /\ MaxFault \in Nat

VARIABLES
  st,        \* st[s][r]: state of the container, in Docker
  canon,     \* canon[s]: who has the slot's canonical name
  faults,    \* faults[p]: Docker calls of phase p that failed
  served     \* slots whose predecessor was running when the run began

dockerVars == <<st, canon>>

DockerTypeOK ==
  /\ st \in [Slot -> [Role -> State]]
  /\ canon \in [Slot -> Role \cup {"none"}]
  /\ faults \in [Phases -> 0..MaxFault]
  /\ served \subseteq Slot

Present(s, r) == st[s][r] # "absent"

(* findAllMatchingContainers: a temporary copy's name is not a variant. *)
Matching(s) == {r \in Role \ Temporary : Present(s, r)}

(* What a deployment may find. *)
DockerInit ==
  /\ st \in [Slot -> {[r \in Role |-> CASE r = "old" -> o [] r = "stray" -> y
                                         [] OTHER -> "absent"] :
                      o \in {"absent", "running", "exited"}, y \in {"absent", "exited"}}]
  /\ canon \in [Slot -> {"old", "none"}]
  /\ \A s \in Slot : canon[s] = "old" => Present(s, "old")
  /\ faults = [p \in Phases |-> 0]
  /\ served = {s \in Slot : st[s]["old"] = "running"}

(* The phases in which a call failed. *)
Failed == {p \in Phases : faults[p] > 0}

(* A call of phase p fails. *)
Fails(p) ==
  /\ p \in MayFail
  /\ faults["snapshot"] + faults["forward"] + faults["rollback"] < MaxFault
  /\ faults' = [faults EXCEPT ![p] = @ + 1]

(* Who has the slot's host ports: temporary copies bind none. *)
Holder(s) == {r \in Role \ Temporary : s \in Ports /\ st[s][r] = "running"}

(* CreateAndStartContainer: it fails with nothing created, or at the start *)
(* with the container left behind; a port still held makes it fail, and so *)
(* may the new image.                                                      *)
Creates(s, r, img, p, ok) ==
  \/ /\ ok
     /\ r \in Temporary \/ Holder(s) = {}
     /\ st' = [st EXCEPT ![s][r] = "running"]
     /\ UNCHANGED faults
  \/ /\ ~ok
     /\ \/ Fails(p) /\ st' \in {st, [st EXCEPT ![s][r] = "created"]}
        \/ /\ img = "new" \/ (r \notin Temporary /\ Holder(s) # {})
           /\ st' = [st EXCEPT ![s][r] = "created"]
           /\ UNCHANGED faults

(* StopContainer, or else KillContainer; both fail for the containers of F. *)
Stops(s, R, p) == \E F \in SUBSET R :
  /\ st' = [st EXCEPT ![s] = [r \in Role |->
              IF r \in R \ F /\ @[r] = "running" THEN "exited" ELSE @[r]]]
  /\ \/ F = {} /\ UNCHANGED faults
     \/ F # {} /\ Fails(p)
  /\ UNCHANGED canon

(* StopAndRemoveContainer, its error only logged: the containers of F are   *)
(* not removed, though those of G are stopped.                              *)
Removes(s, R, p) == \E F \in SUBSET R : \E G \in SUBSET F :
  /\ st' = [st EXCEPT ![s] = [r \in Role |->
              CASE r \in R \ F -> "absent"
                [] r \in G /\ @[r] = "running" -> "exited"
                [] OTHER -> @[r]]]
  /\ \/ F = {} /\ UNCHANGED faults
     \/ F # {} /\ Fails(p)
  /\ canon' = IF canon[s] \in R \ F THEN [canon EXCEPT ![s] = "none"] ELSE canon

(* RenameContainer to the canonical name, its error only logged. *)
Renames(s, r, p) ==
  /\ \/ canon[s] = "none" /\ canon' = [canon EXCEPT ![s] = r] /\ UNCHANGED faults
     \/ canon[s] # "none" /\ UNCHANGED <<canon, faults>>
     \/ Fails(p) /\ UNCHANGED canon
  /\ UNCHANGED st

(* A running container exits on its own. *)
Exits(s, r) ==
  /\ st[s][r] = "running"
  /\ st' = [st EXCEPT ![s][r] = "exited"]
=============================================================================

---------------------------- MODULE StackCleanup ----------------------------
(***************************************************************************)
(* What a deployment does to the containers of the host before its         *)
(* strategy runs: cleanupStaleContainers and                               *)
(* forceRemoveAllStackContainers of src/deploy/executor.go, which list the *)
(* containers once and then stop and remove those they decide on, one call *)
(* after the other, while a call may fail and a container may be started   *)
(* by somebody else.                                                       *)
(*                                                                         *)
(* A container is a record of its labels, name and public ports.  A spec   *)
(* is a stack name and a set of services; a service with several replicas  *)
(* has a set of segments, "1", "2" ..., to tell them apart.               *)
(***************************************************************************)
EXTENDS ContainerNames, FiniteSets

CONSTANTS Population,  \* containers a host may have
          Specs        \* deployments

VARIABLES
  pc,        \* where execute is
  spec,      \* the deployment
  docker,    \* containers that exist
  todo,      \* containers the loop at hand is yet to look at
  removed    \* containers the deployment removed

vars == <<pc, spec, docker, todo, removed>>

(* Two containers have neither a name nor a public port in common. *)
Compatible(S) ==
  \A c, d \in S : c # d => c.name # d.name /\ c.ports \cap d.ports = {}

TypeOK ==
  /\ pc \in {"list", "stale", "list_force", "force", "strategy"}
  /\ spec \in Specs
  /\ docker \subseteq Population /\ Compatible(docker)
  /\ todo \subseteq Population
  /\ removed \subseteq Population

(* cleanupStaleContainers takes the names of the services. *)
specNames == {s.name : s \in spec.services}
neededPorts == UNION {s.ports : s \in spec.services}

(* The names of the containers the strategies make and verification expects. *)
expected ==
  UNION {IF s.replicas = {} THEN {s.name} ELSE {s.name \o <<n>> : n \in s.replicas} :
         s \in spec.services}

(* A targeted deployment skips cleanupStaleContainers. *)
FirstStep(s) == IF s.targeted THEN "list_force" ELSE "list"

Init ==
  /\ spec \in Specs
  /\ docker \in SUBSET Population /\ Compatible(docker)
  /\ pc = FirstStep(spec)
  /\ todo = {} /\ removed = {}

(* Somebody else starts a container. *)
Appears(c) ==
  /\ c \notin docker /\ c \notin removed /\ Compatible(docker \cup {c})
  /\ docker' = docker \cup {c}
  /\ UNCHANGED <<pc, spec, todo, removed>>

(* ListContainers, or no cleanup when it fails. *)
ListStale ==
  /\ pc = "list"
  /\ \/ pc' = "stale" /\ todo' = docker
     \/ pc' = "list_force" /\ UNCHANGED todo
  /\ UNCHANGED <<spec, docker, removed>>

(* The loop is over. *)
LoopEnds(after) == todo = {} /\ pc' = after /\ UNCHANGED <<spec, docker, todo, removed>>

(* StopAndRemoveContainer, whose error is only logged. *)
StopAndRemove(c) ==
  \/ docker' = docker \ {c} /\ removed' = removed \cup {c}
  \/ UNCHANGED <<docker, removed>>

CleanupStale ==
  /\ pc = "stale"
  /\ \/ \E c \in todo :
          /\ todo' = todo \ {c}
          /\ IF cleanupDecision(c, spec.stack, specNames, neededPorts)
             THEN StopAndRemove(c) ELSE UNCHANGED <<docker, removed>>
          /\ UNCHANGED <<pc, spec>>
     \/ LoopEnds("list_force")

(* Only a forced deployment removes every container of its stack. *)
ListForce ==
  /\ pc = "list_force"
  /\ \/ spec.force /\ pc' = "force" /\ todo' = docker
     \/ pc' = "strategy" /\ UNCHANGED todo
  /\ UNCHANGED <<spec, docker, removed>>

ForceRemove ==
  /\ pc = "force"
  /\ \/ \E c \in todo :
          /\ todo' = todo \ {c}
          /\ IF forceDecision(c, spec.stack)
             THEN StopAndRemove(c) ELSE UNCHANGED <<docker, removed>>
          /\ UNCHANGED <<pc, spec>>
     \/ LoopEnds("strategy")

Ended == pc = "strategy" /\ UNCHANGED vars

Next ==
  \/ \E c \in Population : Appears(c)
  \/ ListStale \/ CleanupStale \/ ListForce \/ ForceRemove \/ Ended

Spec == Init /\ [][Next]_vars

-----------------------------------------------------------------------------
(* Properties *)

(* "Foreign containers are never touched" and "only the db_* commands may   *)
(* remove" a database (executor.go:349-363, 475-479), whatever the stack    *)
(* name, the ports and the flags of the deployment.                         *)
ForeignUntouched == \A c \in removed : c.managed /\ ~c.database

(* executor.go:366-369: without force, a deployment removes no container    *)
(* that is one of its services under its name or a deploy suffix of it.     *)
SpecKept ==
  ~spec.force =>
    \A c \in removed : \A s \in spec.services : ~matches(s.name, c.name)

(* "the spec only contains a subset of the stack's containers, so           *)
(* non-targeted containers must not be removed" (executor.go:280-281).      *)
TargetedKeeps == spec.targeted /\ ~spec.force => removed = {}

(* "containers that belong to this stack ... but are NOT in the new         *)
(* deployment spec" (executor.go:388-389): a container that the strategy    *)
(* would replace, replicas included, is left to it.                         *)
ReplicasKept ==
  ~spec.force => \A c \in removed : \A n \in expected : ~matches(n, c.name)
=============================================================================

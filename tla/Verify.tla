------------------------------- MODULE Verify -------------------------------
(***************************************************************************)
(* postDeployVerify of src/deploy/executor.go: a bounded number of checks, *)
(* each of which lists the containers, while the new containers crash,     *)
(* restart, turn unhealthy and recover, Docker calls fail and a container  *)
(* of an earlier version, whose removal failed, still bears the same       *)
(* canonical name.                                                         *)
(***************************************************************************)
EXTENDS Naturals

CONSTANTS Name,        \* expected container names
          Checks,      \* verifyChecks
          MaxEvent,    \* bound on what happens to the containers
          MaxFault,    \* bound on failed Docker calls
          Leftovers    \* may a removal of the strategy have failed?

VARIABLES
  pc,        \* "waiting", "deployed" or "failed"
  check,     \* checks begun
  con,       \* the new container of each name
  leftover,  \* names with a stopped container of an earlier version
  events,    \* what happened to the containers
  faults     \* checks at which a Docker call failed

vars == <<pc, check, con, leftover, events, faults>>

State == {"running", "restarting", "exited", "gone"}
Container == [state : State, restarted : BOOLEAN, unhealthy : BOOLEAN]

TypeOK ==
  /\ pc \in {"waiting", "deployed", "failed"}
  /\ check \in 0..Checks
  /\ con \in [Name -> Container]
  /\ leftover \subseteq Name
  /\ events \in 0..MaxEvent /\ faults \in 0..MaxFault

Init ==
  /\ pc = "waiting" /\ check = 0
  /\ con = [n \in Name |-> [state |-> "running", restarted |-> FALSE, unhealthy |-> FALSE]]
  /\ leftover \in IF Leftovers THEN SUBSET Name ELSE {{}}
  /\ events = 0 /\ faults = 0

(* What may happen to a container: it exits or is removed for good, it      *)
(* restarts, or its health check changes its mind.                          *)
Changes(n) ==
  /\ pc = "waiting" /\ events < MaxEvent /\ con[n].state \in {"running", "restarting"}
  /\ events' = events + 1
  /\ \/ \E end \in {"exited", "gone"} : con' = [con EXCEPT ![n].state = end]
     \/ con[n].state = "running" /\ con' = [con EXCEPT ![n].state = "restarting"]
     \/ con[n].state = "restarting"
        /\ con' = [con EXCEPT ![n].state = "running", ![n].restarted = TRUE]
     \/ con' = [con EXCEPT ![n].unhealthy = ~@]
  /\ UNCHANGED <<pc, check, leftover, faults>>

(* The states a list gives a name: the last container with it counts. *)
listed(n) ==
  LET S == ({con[n].state} \ {"gone"}) \cup IF n \in leftover THEN {"exited"} ELSE {}
  IN  IF S = {} THEN {"gone"} ELSE S

(* Does a container in a listed state raise an issue? *)
issue(state, c, inspected) ==
  \/ state \in {"restarting", "exited", "gone"}
  \/ state = "running" /\ inspected /\ (c.restarted \/ c.unhealthy)

(* The outcome of a check: only the last one decides. *)
Judge(issues) ==
  pc' = IF check' < Checks THEN "waiting" ELSE IF issues THEN "failed" ELSE "deployed"

Check ==
  /\ pc = "waiting" /\ check' = check + 1
  /\ \E seen \in [Name -> State], ok \in [Name -> BOOLEAN] :
       /\ \A n \in Name : seen[n] \in listed(n)
       /\ (\E n \in Name : ~ok[n]) => faults < MaxFault
       /\ faults' = IF \E n \in Name : ~ok[n] THEN faults + 1 ELSE faults
       /\ Judge(\E n \in Name : issue(seen[n], con[n], ok[n]))
  /\ UNCHANGED <<con, leftover, events>>

(* ListContainers fails and the check is skipped. *)
ListFails ==
  /\ pc = "waiting" /\ check' = check + 1
  /\ faults < MaxFault /\ faults' = faults + 1
  /\ Judge(FALSE)
  /\ UNCHANGED <<con, leftover, events>>

(* The deployment is cancelled while it waits for the next check. *)
Cancelled ==
  /\ pc = "waiting" /\ pc' = "failed"
  /\ UNCHANGED <<check, con, leftover, events, faults>>

Ended == pc # "waiting" /\ UNCHANGED vars

Next ==
  \/ \E n \in Name : Changes(n)
  \/ Check \/ ListFails \/ Cancelled \/ Ended

Spec == Init /\ [][Next]_vars

-----------------------------------------------------------------------------
(* Properties *)

(* "Detects containers that stopped, entered a restart loop, or failed      *)
(* health checks" (executor.go:502): unless a Docker call failed, the last  *)
(* check found every expected container running, never restarted and not    *)
(* unhealthy, whatever stopped leftovers of earlier versions the lists show.*)
DeployedStable ==
  [][ pc' = "deployed" /\ pc # "deployed" /\ faults' = 0 =>
      \A n \in Name : con[n].state = "running" /\ ~con[n].restarted /\ ~con[n].unhealthy ]_vars
=============================================================================

---------------------------- MODULE RestartLoops ----------------------------
(***************************************************************************)
(* The restart-loop detection of src/docker/netmonitor.go: a check cycle   *)
(* lists the containers, visits those that run or restart, and prunes the  *)
(* trackers of those that are gone, while containers restart and come and  *)
(* go.                                                                     *)
(*                                                                         *)
(* A container has an id that is never used again.  Time is counted in     *)
(* cycles; StableFor cycles stand for the 5 minutes of checkRestartLoop.   *)
(***************************************************************************)
EXTENDS Naturals

CONSTANTS Id,          \* container ids
          MaxRestart,  \* bound: Docker's RestartCount
          MaxCycle,    \* bound: cycles
          Loop,        \* restarts that make a loop (3)
          StableFor    \* cycles after which a report may be repeated

VARIABLES
  state,     \* state[i]: the container, in Docker
  restarts,  \* restarts[i]: its RestartCount
  cycle,     \* cycles begun
  checking,  \* whether one is under way
  seen,      \* ids listed in the cycle at hand
  todo,      \* ids still to visit in it
  tracked,   \* ids with a restartTracker
  tracker,   \* the restartTracker of an id, its first count kept
  reports    \* reports[i]: restart loops reported

envVars == <<state, restarts>>
vars == <<envVars, cycle, checking, seen, todo, tracked, tracker, reports>>

NoTracker == [first |-> 0, lastCount |-> 0, firstSeen |-> 0, reported |-> FALSE]

TypeOK ==
  /\ state \in [Id -> {"new", "running", "exited", "gone"}]
  /\ restarts \in [Id -> 0..MaxRestart]
  /\ cycle \in 0..MaxCycle /\ checking \in BOOLEAN
  /\ seen \subseteq Id /\ todo \subseteq seen
  /\ tracked \subseteq Id
  /\ tracker \in [Id -> [first : 0..MaxRestart, lastCount : 0..MaxRestart,
                         firstSeen : 0..MaxCycle, reported : BOOLEAN]]
  /\ reports \in [Id -> 0..MaxRestart]

Init ==
  /\ state \in [Id -> {"new", "running"}]
  /\ restarts = [i \in Id |-> 0]
  /\ cycle = 0 /\ checking = FALSE /\ seen = {} /\ todo = {} /\ tracked = {}
  /\ tracker = [i \in Id |-> NoTracker]
  /\ reports = [i \in Id |-> 0]

-----------------------------------------------------------------------------
(* The containers *)

(* A start by hand resets RestartCount. *)
Changes(i) ==
  /\ \/ /\ state[i] \in {"new", "exited"}
        /\ state' = [state EXCEPT ![i] = "running"]
        /\ restarts' = [restarts EXCEPT ![i] = 0]
     \/ state[i] = "running" /\ state' = [state EXCEPT ![i] = "exited"] /\ UNCHANGED restarts
     \/ state[i] = "exited" /\ state' = [state EXCEPT ![i] = "gone"] /\ UNCHANGED restarts
  /\ UNCHANGED <<cycle, checking, seen, todo, tracked, tracker, reports>>

(* Docker restarts a container that exited. *)
Restarts(i) ==
  /\ state[i] = "running" /\ restarts[i] < MaxRestart
  /\ restarts' = [restarts EXCEPT ![i] = @ + 1]
  /\ UNCHANGED <<state, cycle, checking, seen, todo, tracked, tracker, reports>>

-----------------------------------------------------------------------------
(* check *)

(* ListContainers; when it fails nothing is checked and nothing pruned. *)
BeginCycle ==
  /\ ~checking /\ cycle < MaxCycle
  /\ checking' = TRUE
  /\ cycle' = cycle + 1
  /\ seen' = {i \in Id : state[i] \in {"running", "exited"}}
  /\ todo' = {i \in Id : state[i] = "running"}
  /\ UNCHANGED <<envVars, tracked, tracker, reports>>

present == seen

(* The trackers of containers that were not listed are pruned. *)
EndCycle ==
  /\ checking /\ todo = {} /\ checking' = FALSE
  /\ tracked' = tracked \cap present
  /\ tracker' = [i \in Id |-> IF i \in tracked' THEN tracker[i] ELSE NoTracker]
  /\ UNCHANGED <<envVars, cycle, seen, todo, reports>>

(* Mutant of isLoop: a report is not remembered. *)
isLoopAlways(t, count) == count > t.lastCount /\ count >= Loop

isLoop(t, count) == count > t.lastCount /\ count >= Loop /\ ~t.reported

(* Reported once, and again after 5 minutes with the tracker. *)
isStable(t, count) == count = t.lastCount /\ t.reported /\ cycle > t.firstSeen + StableFor

(* InspectContainer may fail, as it does for a container that is gone. *)
checkRestartLoop(i) ==
  LET t == tracker[i]
      count == restarts[i]
  IN
  /\ i \in todo /\ todo' = todo \ {i}
  /\ \/ UNCHANGED <<tracked, tracker, reports>>
     \/ /\ state[i] # "gone" /\ i \notin tracked
        /\ tracked' = tracked \cup {i}
        /\ tracker' = [tracker EXCEPT ![i] =
             [first |-> count, lastCount |-> count, firstSeen |-> cycle, reported |-> FALSE]]
        /\ UNCHANGED reports
     \/ /\ state[i] # "gone" /\ i \in tracked /\ isLoop(t, count)
        /\ tracker' = [tracker EXCEPT ![i].reported = TRUE, ![i].lastCount = count]
        /\ reports' = [reports EXCEPT ![i] = @ + 1]
        /\ UNCHANGED tracked
     \/ /\ state[i] # "gone" /\ i \in tracked /\ ~isLoop(t, count)
        /\ tracker' = [tracker EXCEPT
             ![i].lastCount = count,
             ![i].reported = @ /\ ~isStable(t, count),
             ![i].firstSeen = IF isStable(t, count) THEN cycle ELSE @]
        /\ UNCHANGED <<tracked, reports>>
  /\ UNCHANGED <<envVars, cycle, checking, seen>>

Next == BeginCycle \/ EndCycle \/ \E i \in Id : Changes(i) \/ Restarts(i) \/ checkRestartLoop(i)

Spec == Init /\ [][Next]_vars

-----------------------------------------------------------------------------
(* Properties *)

(* netmonitor.go:151-165: a container whose restarts reached Loop while it  *)
(* was tracked has been reported, however its restarts fell between the     *)
(* cycles.                                                                  *)
LoopsReported ==
  \A i \in tracked :
    tracker[i].lastCount >= Loop /\ tracker[i].lastCount > tracker[i].first => reports[i] > 0

(* netmonitor.go:151 and 168: however often a container restarts, its loop  *)
(* is reported at most once in each stable time since its tracker was made. *)
ReportsSpaced ==
  \A i \in tracked : reports[i] <= 1 + (cycle - 1) \div (StableFor + 1)

(* "so the map does not grow unbounded over the lifetime of the runner"     *)
(* (netmonitor.go:116-117): between cycles only containers of the last      *)
(* listing have a tracker.                                                  *)
TrackersPruned == ~checking => tracked \subseteq seen
=============================================================================

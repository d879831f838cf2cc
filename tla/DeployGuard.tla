---------------------------- MODULE DeployGuard ----------------------------
(***************************************************************************)
(* The in-flight guard of src/main.go: the map deploymentStates that       *)
(* decides which deploy commands run, the runs that update it through the  *)
(* executor's progress callback, the heartbeat that collects its old       *)
(* entries, and the graceful shutdown that waits for it to be quiet.       *)
(*                                                                         *)
(* deploymentStates[d] is present when d \in known; its InProgress field   *)
(* is d \in inFlight and its age (time.Since(LastProgressAt) > 15 min) is  *)
(* d \in aged.  deploymentStatesMu makes every action below atomic.  What  *)
(* a run does to containers is left to other modules: here a run is the    *)
(* sequence of statuses it reports.                                        *)
(***************************************************************************)
EXTENDS Naturals, FiniteSets

CONSTANTS Dep,       \* deployment ids
          NoStack,   \* the empty StackName
          StackOf,   \* StackOf[d]: the stack_name deployment d's commands carry
          MaxRun,    \* bound: deploy commands received
          Panics     \* whether a run may panic

Run == 1..MaxRun
NoRun == 0

ASSUME StackAssumption == DOMAIN StackOf = Dep
ASSUME MaxRunAssumption == MaxRun \in Nat
ASSUME PanicsAssumption == Panics \in BOOLEAN

VARIABLES
  received,   \* deploy commands received so far
  dep,        \* dep[r]: the deployment id of command r
  pc,         \* pc[r]: where its goroutine is
  known,      \* keys of deploymentStates
  inFlight,   \* those whose InProgress is set
  aged,       \* those without progress for more than 15 minutes
  status,     \* status[d]: deploymentStates[d].Status
  stackName,  \* stackName[d]: deploymentStates[d].StackName
  ctx,        \* ctx[d]: the command whose context deploymentStates[d] keeps
  phase       \* the main goroutine: up, or shutting down

states == <<known, inFlight, aged, status, stackName, ctx>>
vars == <<received, dep, pc, states, phase>>

Stack == {StackOf[d] : d \in Dep} \cup {NoStack}
Terminal == {"deployed", "failed"}
Status == {"deploying", "validating"} \cup Terminal

(* A run is live from its admission to the last write of its goroutine. *)
Busy == {"start", "work", "verify", "rollback"}
Ending == {"end_failed", "end_deployed"}

TypeOK ==
  /\ received \in 0..MaxRun
  /\ dep \in [Run -> Dep]
  /\ pc \in [Run -> Busy \cup Ending \cup
                    {"none", "check", "refused", "ended", "panicked", "killed"}]
  /\ known \subseteq Dep
  /\ inFlight \subseteq known
  /\ aged \subseteq known
  /\ status \in [Dep -> Status]
  /\ stackName \in [Dep -> Stack]
  /\ ctx \in [Dep -> Run \cup {NoRun}]
  /\ phase \in {"up", "waiting", "leaving"}

Live(r) == pc[r] \in Busy \cup Ending

Init ==
  /\ received = 0
  /\ dep \in [Run -> Dep]
  /\ pc = [r \in Run |-> "none"]
  /\ known = {} /\ inFlight = {} /\ aged = {}
  /\ status = [d \in Dep |-> "deploying"]
  /\ stackName = [d \in Dep |-> NoStack]
  /\ ctx = [d \in Dep |-> NoRun]
  /\ phase = "up"

Goto(r, a, b) ==
  /\ pc[r] = a
  /\ pc' = [pc EXCEPT ![r] = b]
  /\ UNCHANGED <<received, dep, phase>>

-----------------------------------------------------------------------------
(* The deploy command *)

(* The read pump starts the handler goroutine of the next deploy command;  *)
(* which deployment it names was chosen by Init.                           *)
Receive ==
  /\ received < MaxRun
  /\ received' = received + 1
  /\ pc' = [pc EXCEPT ![received + 1] = "check"]
  /\ UNCHANGED <<dep, states, phase>>

(* parseDeployCommand: the spec does not parse, a failure is answered. *)
RejectUnparsed(r) ==
  /\ Goto(r, "check", "refused")
  /\ UNCHANGED states

(* Mutant of stackConflict: only a conflict seen while deploying counts. *)
stackConflictDeploying(d) ==
  /\ StackOf[d] # NoStack
  /\ \E e \in inFlight \ {d} :
       stackName[e] = StackOf[d] /\ status[e] = "deploying"

(* Another in-flight deployment on d's stack. *)
stackConflict(d) ==
  /\ StackOf[d] # NoStack
  /\ \E e \in inFlight \ {d} : stackName[e] = StackOf[d]

(* Refuse a duplicate or a conflicting deployment, or register the run. *)
Refuse(r) ==
  /\ dep[r] \in inFlight \/ stackConflict(dep[r])
  /\ Goto(r, "check", "refused")
  /\ UNCHANGED states

Admit(r) ==
  LET d == dep[r] IN
  /\ d \notin inFlight /\ ~stackConflict(d)
  /\ Goto(r, "check", "start")
  /\ known' = known \cup {d}
  /\ inFlight' = inFlight \cup {d}
  /\ aged' = aged \ {d}
  /\ status' = [status EXCEPT ![d] = "deploying"]
  /\ stackName' = [stackName EXCEPT ![d] = StackOf[d]]
  /\ ctx' = [ctx EXCEPT ![d] = r]

-----------------------------------------------------------------------------
(* Mutant of Progress: a new entry is marked but not stored in the map. *)
ProgressUnstored(d, s) ==
  /\ inFlight' = IF s \in Terminal THEN inFlight \ {d} ELSE inFlight \cup {d}
  /\ aged' = aged \ {d}
  /\ status' = [status EXCEPT ![d] = s]
  /\ UNCHANGED <<known, stackName, ctx>>

(* The progress callback: it looks the entry up by deployment id, creates  *)
(* one without stack or context when there is none, and lowers InProgress  *)
(* on a terminal status.                                                   *)
Progress(d, s) ==
  /\ known' = known \cup {d}
  /\ inFlight' = CASE s \in Terminal -> inFlight \ {d}
                   [] s \notin Terminal /\ d \in known -> inFlight
                   [] OTHER -> inFlight \cup {d}
  /\ aged' = aged \ {d}
  /\ status' = [status EXCEPT ![d] = s]
  /\ stackName' = IF d \in known THEN stackName
                                 ELSE [stackName EXCEPT ![d] = NoStack]
  /\ ctx' = IF d \in known THEN ctx ELSE [ctx EXCEPT ![d] = NoRun]

(* Report(r, s, a, b): run r reports s and goes from a to b. *)
Report(r, s, a, b) ==
  /\ Goto(r, a, b)
  /\ Progress(dep[r], s)

(* Validate or the disk-space check fails: an error, and no report. *)
FailEarly(r) ==
  /\ Goto(r, "start", "end_failed")
  /\ UNCHANGED states

Begin(r) == Report(r, "deploying", "start", "work")

(* Networks, volumes, cleanup and strategy steps, and canary checks. *)
Deploying(r) == Report(r, "deploying", "work", "work")

(* rollbackContainers and the blue-green health check report "failed"      *)
(* before they restore or remove containers.                               *)
BeginRollback(r) == Report(r, "failed", "work", "rollback")

RollingBack(r) == Report(r, "deploying", "rollback", "rollback")

(* Mutant of StrategyFails: the deployment is tried again, without a limit. *)
StrategyFailsRetry(r) ==
  \/ Report(r, "deploying", "work", "start")
  \/ Report(r, "failed", "rollback", "end_failed")

(* The strategy returns an error: with a rollback to do, after it. *)
StrategyFails(r) ==
  \/ Report(r, "failed", "work", "end_failed")
  \/ Report(r, "failed", "rollback", "end_failed")

StrategySucceeds(r) == Report(r, "validating", "work", "verify")

Verifying(r) == Report(r, "validating", "verify", "verify")

VerifyFails(r) == Report(r, "failed", "verify", "end_failed")

VerifySucceeds(r) == Report(r, "deployed", "verify", "end_deployed")

(* Mutant of EndRun: InProgress is only lowered after a success. *)
EndRunOnSuccess(r) ==
  LET d == dep[r] IN
  /\ \/ Goto(r, "end_failed", "ended") /\ UNCHANGED <<inFlight, status>>
     \/ /\ Goto(r, "end_deployed", "ended")
        /\ status' = [status EXCEPT ![d] = "deployed"]
        /\ inFlight' = inFlight \ {d}
  /\ aged' = aged \ {d}
  /\ UNCHANGED <<known, stackName, ctx>>

(* Execute has returned: the goroutine writes the outcome into whatever    *)
(* entry its deployment id has now, if any.                                *)
EndRun(r) ==
  LET d == dep[r]
      Outcome(s) == status' = IF d \in known THEN [status EXCEPT ![d] = s]
                                            ELSE status
  IN
  /\ \/ Goto(r, "end_failed", "ended") /\ Outcome("failed")
     \/ Goto(r, "end_deployed", "ended") /\ Outcome("deployed")
  /\ inFlight' = inFlight \ {d}
  /\ aged' = aged \ {d}
  /\ UNCHANGED <<known, stackName, ctx>>

(* telemetry.Recover ends the goroutine; the entry stays as it is. *)
Panic(r) ==
  /\ Panics
  /\ pc[r] \in Busy
  /\ pc' = [pc EXCEPT ![r] = "panicked"]
  /\ UNCHANGED <<received, dep, states, phase>>

-----------------------------------------------------------------------------
(* Time, the heartbeat and the main goroutine *)

(* Fifteen minutes pass without a report: Docker's list and inspect calls  *)
(* have no deadline of their own.                                          *)
Age(d) ==
  /\ d \in known \ aged
  /\ aged' = aged \cup {d}
  /\ UNCHANGED <<received, dep, pc, known, inFlight, status, stackName, ctx,
                 phase>>

(* Mutant of Collectable: age alone decides. *)
CollectableAny == aged

Collectable == {d \in aged : status[d] # "deploying"}

(* delete(deploymentStates, d) for every d in D. *)
Delete(D) ==
  /\ known' = known \ D
  /\ inFlight' = inFlight \ D
  /\ aged' = aged \ D
  /\ status' = [d \in Dep |-> IF d \in D THEN "deploying" ELSE status[d]]
  /\ stackName' = [d \in Dep |-> IF d \in D THEN NoStack ELSE stackName[d]]
  /\ ctx' = [d \in Dep |-> IF d \in D THEN NoRun ELSE ctx[d]]

(* The heartbeat deletes the entries that are neither deploying nor recent.*)
Collect ==
  /\ Collectable # {}
  /\ Delete(Collectable)
  /\ UNCHANGED <<received, dep, pc, phase>>

Signal ==
  /\ phase = "up" /\ phase' = "waiting"
  /\ UNCHANGED <<received, dep, pc, states>>

(* The wait ends when no entry is in progress, or after 60 seconds. *)
WaitOver ==
  /\ phase = "waiting" /\ inFlight = {} /\ phase' = "leaving"
  /\ UNCHANGED <<received, dep, pc, states>>

WaitExpires ==
  /\ phase = "waiting" /\ inFlight # {} /\ phase' = "leaving"
  /\ UNCHANGED <<received, dep, pc, states>>

(* worker_shutdown, drain, cancel, close: the process ends with its        *)
(* goroutines, and its successor starts with an empty map.                 *)
Restart ==
  /\ phase = "leaving" /\ phase' = "up"
  /\ pc' = [r \in Run |-> IF pc[r] = "check" \/ Live(r) THEN "killed" ELSE pc[r]]
  /\ Delete(Dep)
  /\ UNCHANGED <<received, dep>>

-----------------------------------------------------------------------------
(* What a run does next on its own; Deploying, RollingBack and Verifying   *)
(* repeat a finite number of times.                                        *)
Advance(r) ==
  \/ Refuse(r) \/ Admit(r)
  \/ FailEarly(r) \/ Begin(r)
  \/ BeginRollback(r) \/ StrategyFails(r) \/ StrategySucceeds(r)
  \/ VerifyFails(r) \/ VerifySucceeds(r)
  \/ EndRun(r)

RunStep(r) ==
  \/ RejectUnparsed(r)
  \/ Advance(r)
  \/ Deploying(r) \/ RollingBack(r) \/ Verifying(r)
  \/ Panic(r)

Next ==
  \/ Receive
  \/ \E r \in Run : RunStep(r)
  \/ \E d \in Dep : Age(d)
  \/ Collect
  \/ Signal \/ WaitOver \/ WaitExpires \/ Restart

Spec == Init /\ [][Next]_vars

(* A deployment run keeps moving: its Docker calls return, with or without *)
(* an error, and its loops are over the spec's containers.                 *)
FairSpec == Spec /\ \A r \in Run : WF_vars(Advance(r))

-----------------------------------------------------------------------------
(* Properties *)

(* InProgress is never left behind: an entry in flight has a run that will *)
(* still lower it, whatever order the end writes of earlier runs of the    *)
(* same deployment, late reports and the heartbeat's collection come in -  *)
(* unless that run panicked (main.go 413-497, 295-337, 3056-3063).         *)
InFlightHasRun ==
  \A d \in inFlight : \E r \in Run :
    dep[r] = d /\ (Live(r) \/ pc[r] = "panicked")

(* Two deployments of one stack are never both marked in flight, so a      *)
(* third command is refused by the one that is (stackConflict).            *)
OneInFlightPerStack ==
  \A d, e \in inFlight :
    stackName[d] = stackName[e] /\ stackName[d] # NoStack => d = e

(* The entry in flight is the one run r registered. *)
Guarded(r) == dep[r] \in inFlight /\ ctx[dep[r]] = r

(* A run that has reported no terminal status keeps its guard, unless      *)
(* another run of the same deployment is still live, or the heartbeat      *)
(* collected the entry outside "deploying".                                *)
GuardKept ==
  [][\A r \in Run :
       /\ Guarded(r) /\ pc[r] \in {"start", "work", "verify"}
       /\ ~Guarded(r)' /\ pc[r]' \in {"start", "work", "verify"}
       => \/ \E q \in Run \ {r} : dep[q] = dep[r] /\ Live(q)
          \/ dep[r] \in aged /\ status[dep[r]] # "deploying"]_vars

(* While no run panics, every deployment marked in flight is eventually     *)
(* unmarked, so its stack can be deployed again.                            *)
FlightsLand ==
  [](\A r \in Run : pc[r] # "panicked") =>
    \A d \in Dep : d \in inFlight ~> d \notin inFlight

(* "Serialization is by STACK" (main.go:435): two runs that may still      *)
(* change containers never share a stack.                                  *)
StackSerialized ==
  \A q, r \in Run :
    /\ pc[q] \in Busy /\ pc[r] \in Busy
    /\ StackOf[dep[q]] = StackOf[dep[r]] /\ StackOf[dep[q]] # NoStack
    => q = r
=============================================================================

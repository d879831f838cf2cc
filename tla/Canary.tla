------------------------------- MODULE Canary -------------------------------
(***************************************************************************)
(* The canary strategy of src/deploy/canary.go: executeCanary and          *)
(* monitorCanary, followed by the rolling update of Rolling.  The canary   *)
(* is a copy of the first slot's container.  Time is counted in ticks from *)
(* the start of the monitoring; a check begins Period ticks after the last *)
(* one ended and ends some of Lags ticks later, InspectContainer's round   *)
(* trip.                                                                   *)
(***************************************************************************)
EXTENDS Rolling

CONSTANTS Checks,    \* checks of the canary (6)
          Period,    \* ticks between two (5 seconds)
          Lags       \* ticks InspectContainer may take

VARIABLES
  cpc,       \* where executeCanary is
  check,     \* checks passed
  clock,     \* ticks since monitorCtx was made
  sound      \* whether the canary has run, and healthy, since it started

cvars == <<cpc, check, clock, sound>>

(* canaryMonitorDuration: the deadline of monitorCtx. *)
Deadline == Checks * Period

CanaryTypeOK ==
  /\ TypeOK
  /\ cpc \in {"pull", "create", "wait", "inspect", "unhealthy", "healthy",
              "rolling", "aborted"}
  /\ check \in 0..Checks
  /\ clock \in Nat
  /\ sound \in BOOLEAN

CanaryInit ==
  /\ Init
  /\ cpc = "pull" /\ check = 0 /\ clock = 0 /\ sound = TRUE

rollingRest == <<pc, cur, rb, snap, olds, probed>>

To(a, b) == cpc = a /\ cpc' = b

PullCanary ==
  /\ To("pull", "create") \/ To("pull", "aborted")
  /\ UNCHANGED <<check, clock, sound, vars>>

CreateCanary ==
  /\ \/ To("create", "wait") /\ Creates(1, "canary", "new", "forward", TRUE)
     \/ To("create", "aborted") /\ Creates(1, "canary", "new", "forward", FALSE)
  /\ UNCHANGED <<check, clock, sound, canon, served, rollingRest>>

(* The select of monitorCanary: whichever of the deadline and the timer is  *)
(* first, and either when they fall together.                               *)
Wait ==
  /\ \/ To("wait", "inspect") /\ clock + Period <= Deadline /\ clock' = clock + Period
     \/ To("wait", "unhealthy") /\ clock + Period >= Deadline /\ clock' = Deadline
  /\ UNCHANGED <<check, sound, vars>>

(* Mutant of Inspect: a stopped canary passes. *)
InspectBlind ==
  /\ cpc = "inspect"
  /\ check' = check + 1
  /\ cpc' = IF check' = Checks THEN "healthy" ELSE "wait"
  /\ UNCHANGED <<clock, sound, vars>>

(* InspectContainer under monitorCtx: it fails when the deadline passes.    *)
(* The health check, if there is one, may say "unhealthy".                  *)
Inspect == \E lag \in Lags :
  /\ clock' = clock + lag
  /\ \/ /\ st[1]["canary"] = "running" /\ clock' <= Deadline
        /\ check' = check + 1
        /\ To("inspect", IF check' = Checks THEN "healthy" ELSE "wait")
        /\ UNCHANGED <<sound, faults>>
     \/ /\ To("inspect", "unhealthy")
        /\ \/ st[1]["canary"] # "running" /\ UNCHANGED <<sound, faults>>
           \/ clock' > Deadline /\ UNCHANGED <<sound, faults>>
           \/ sound' = FALSE /\ UNCHANGED faults
           \/ Fails("forward") /\ UNCHANGED sound
        /\ UNCHANGED check
  /\ UNCHANGED <<dockerVars, served, rollingRest>>

(* StopContainer and RemoveContainer, whatever the verdict; the locals of   *)
(* the monitoring go out of scope.                                          *)
RemoveCanary ==
  /\ To("unhealthy", "aborted") \/ To("healthy", "rolling")
  /\ Removes(1, {"canary"}, "forward")
  /\ check' = 0 /\ clock' = 0 /\ sound' = TRUE
  /\ UNCHANGED <<served, rollingRest>>

CrashCanary ==
  /\ cpc # "rolling"
  /\ Exits(1, "canary")
  /\ sound' = FALSE
  /\ UNCHANGED <<cpc, check, clock, canon, faults, served, rollingRest>>

(* executeRolling *)
RollingUpdate ==
  /\ cpc = "rolling"
  /\ Next
  /\ UNCHANGED <<cpc, check, clock, sound>>

Aborted == cpc = "aborted" /\ UNCHANGED <<cvars, vars>>

CanaryNext ==
  \/ PullCanary \/ CreateCanary \/ Wait \/ Inspect \/ RemoveCanary
  \/ CrashCanary \/ RollingUpdate \/ Aborted

CanarySpec == CanaryInit /\ [][CanaryNext]_<<cvars, vars>>

-----------------------------------------------------------------------------
(* Properties *)

(* "canary health check failed - aborting deployment" (canary.go:93): a     *)
(* rolling update begins only after a canary that was running at every one  *)
(* of its checks; one that crashed before the last check stops it.          *)
UnsoundStops == [][cpc' = "healthy" => sound /\ check' = Checks]_<<cvars, vars>>

(* "Clean up canary" (canary.go:86): without a Docker failure no canary     *)
(* runs beside the rolling update or after an aborted deployment.           *)
CanaryGone ==
  cpc \in {"rolling", "aborted"} /\ Failed = {} => st[1]["canary"] # "running"

(* A canary deployment that fails, in the canary or in the rolling update,  *)
(* leaves every slot that was serving in service with the old image.        *)
CanaryRestores ==
  (cpc = "aborted" \/ pc = "failed") /\ Failed \subseteq {"forward"} =>
    \A s \in served : OldServes(s)
=============================================================================

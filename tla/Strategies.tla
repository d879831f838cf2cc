----------------------------- MODULE Strategies -----------------------------
(***************************************************************************)
(* The strategies of a deployment under the switch of executor.go that     *)
(* picks one of them: Rolling, BlueGreen and Canary, over one Docker       *)
(* daemon.  The rolling strategy is the canary one from its rolling update *)
(* on; any strategy the switch does not know is rolling.                   *)
(***************************************************************************)
EXTENDS SlotDocker

CONSTANTS Suffixed, Checks, Period, Lags

ASSUME SuffixedAssumption == Suffixed \in BOOLEAN
ASSUME MonitorAssumption == Checks \in Nat \ {0} /\ Period \in Nat \ {0} /\ Lags \subseteq Nat

VARIABLES
  strategy,                               \* spec.Strategy
  pc, cur,                                \* of executeRolling or executeBlueGreen
  rb, snap, olds, probed,                 \* of executeRolling
  cpc, check, clock, sound,               \* of executeCanary
  greens, backups, retired, todo          \* of executeBlueGreen

rollingRest == <<rb, snap, olds, probed>>
canaryRest == <<cpc, check, clock, sound>>
blueGreenRest == <<greens, backups, retired, todo>>
vars == <<strategy, pc, cur, st, canon, faults, served, rollingRest, canaryRest, blueGreenRest>>

C == INSTANCE Canary
B == INSTANCE BlueGreen

TypeOK ==
  /\ strategy \in {"rolling", "canary", "blue-green"}
  /\ IF strategy = "blue-green" THEN B!TypeOK ELSE C!CanaryTypeOK

NoMonitoring == cpc = "rolling" /\ check = 0 /\ clock = 0 /\ sound = TRUE
NoSwap == greens = {} /\ backups = {} /\ retired = {} /\ todo = {}
NoRolling == rb = 0 /\ snap = [s \in Slot |-> "none"] /\ olds = {} /\ probed = {}

(* The switch on spec.Strategy. *)
Init ==
  \/ strategy = "rolling" /\ C!Init /\ NoMonitoring /\ NoSwap
  \/ strategy = "canary" /\ C!CanaryInit /\ NoSwap
  \/ strategy = "blue-green" /\ B!Init /\ NoRolling /\ NoMonitoring

Next ==
  \/ strategy # "blue-green" /\ C!CanaryNext /\ UNCHANGED <<strategy, blueGreenRest>>
  \/ strategy = "blue-green" /\ B!Next /\ UNCHANGED <<strategy, rollingRest, canaryRest>>

Spec == Init /\ [][Next]_vars

-----------------------------------------------------------------------------
(* Properties *)

(* A deployment that fails, at whatever call, leaves every slot as it was,  *)
(* if the calls of the snapshot and of the roll-back itself went through.   *)
(* Rolling and canary: "rollbackContainers restores previously-updated      *)
(* containers to their original image" (rolling.go:365), the slot being     *)
(* swapped with them, and nothing runs in a slot that had no container      *)
(* (rolling.go:379-381).  Blue-green: a slot that was serving runs its own  *)
(* blue container under the name it had (bluegreen.go:135-137).  Whatever   *)
(* fails, a slot that executeRolling did not reach keeps serving from the   *)
(* very container it had.                                                   *)
FailureRestores ==
  IF strategy = "blue-green" THEN B!BlueRestored
  ELSE C!CanaryRestores /\ C!FreshRemoved /\ C!UnreachedUntouched

(* The old version is given up only for one that was seen running.  Rolling *)
(* and canary: a predecessor with host ports and no volumes is not stopped  *)
(* before a probe of the new image ran, which "prevents leaving nothing     *)
(* running if the new image fails" (rolling.go:148).  Blue-green: every     *)
(* blue container exists until every final one has been seen running        *)
(* (bluegreen.go:135-137).  Both whatever Docker calls fail.                *)
OldKeptUntilSeen ==
  IF strategy = "blue-green" THEN B!BlueKept ELSE C!ProbeProtects

(* "(only on full success) remove blues" (bluegreen.go:139): after a       *)
(* blue-green deployment that succeeded without a Docker failure, blue     *)
(* runs nowhere.                                                           *)
OneVersionServes == strategy = "blue-green" => B!OneVersionServes

(* A deployment that met no Docker failure leaves nothing for the next one  *)
(* to trip over: after a rolling one each slot has one container, the new   *)
(* one, under the canonical name; after a blue-green one blue runs nowhere, *)
(* and no green in greenIDs outlives it; and no canary runs beside the      *)
(* rolling update or after an aborted deployment (canary.go:86).            *)
CleanSuccess ==
  /\ strategy # "blue-green" => C!CleanSuccess
  /\ OneVersionServes /\ B!GreensGone /\ C!CanaryGone

(* "canary health check failed - aborting deployment" (canary.go:93): a     *)
(* rolling update begins only after a canary that was running at every one  *)
(* of its checks; one that crashed before the last check stops it.          *)
UnsoundStops == C!UnsoundStops

(* shouldProbe and needsGreen: with volumes, two copies of a container      *)
(* "would mount the live data directory" together (rolling.go:288-289,      *)
(* bluegreen.go:286-289).  No two run at once unless Docker failed; the     *)
(* canary of executeCanary, which does mount them, is excepted.             *)
VolumesExclusive ==
  Failed = {} => \A s \in Volumes :
    Cardinality({r \in Role \ {"canary"} : st[s][r] = "running"}) <= 1
=============================================================================

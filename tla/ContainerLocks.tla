--------------------------- MODULE ContainerLocks ---------------------------
(***************************************************************************)
(* The per-container operation locks of src/deploy/locks.go and the        *)
(* operations that use them: a deployment holds the lock of every          *)
(* container it replaces (lockSpecContainers), a container action the lock *)
(* of one (LockContainer), and stop_all and start_all none.                *)
(*                                                                         *)
(* A name is a canonical container name; names are numbers so that < is    *)
(* the order of sort.Strings.  An operation runs once: a later command is  *)
(* another operation.                                                      *)
(***************************************************************************)
EXTENDS Naturals, FiniteSets

CONSTANTS Op,         \* operations: handler goroutines
          NoOp,       \* no operation: the mutex is free
          MaxName,    \* bound: canonical names in use
          Slow        \* operations whose wait may reach LOCK_WAIT_LIMIT

Name == 1..MaxName

ASSUME OpAssumption == NoOp \notin Op
ASSUME MaxNameAssumption == MaxName \in Nat
ASSUME SlowAssumption == Slow \subseteq Op

VARIABLES
  pc,       \* pc[o]: where operation o is
  need,     \* need[o]: the names it locks (names, deduplicated)
  also,     \* also[o]: names it stops or removes without locking them
  pending,  \* pending[o]: names of need[o] not yet through LockContainer
  taken,    \* taken[o]: names whose unlock function is mu.Unlock
  passed,   \* passed[o]: names whose unlock function does nothing
  holder    \* holder[n]: who locked containerLocks[n]

vars == <<pc, need, also, pending, taken, passed, holder>>

TypeOK ==
  /\ pc \in [Op -> {"idle", "next", "wait", "work", "release", "done"}]
  /\ need \in [Op -> SUBSET Name]
  /\ also \in [Op -> SUBSET Name]
  /\ pending \in [Op -> SUBSET Name]
  /\ taken \in [Op -> SUBSET Name]
  /\ passed \in [Op -> SUBSET Name]
  /\ holder \in [Name -> Op \cup {NoOp}]

Init ==
  /\ pc = [o \in Op |-> "idle"]
  /\ need = [o \in Op |-> {}]
  /\ also = [o \in Op |-> {}]
  /\ pending = [o \in Op |-> {}]
  /\ taken = [o \in Op |-> {}]
  /\ passed = [o \in Op |-> {}]
  /\ holder = [n \in Name |-> NoOp]

-----------------------------------------------------------------------------
Goto(o, a, b) ==
  /\ pc[o] = a
  /\ pc' = [pc EXCEPT ![o] = b]

(* An operation starts that locks the names S and touches T unlocked. *)
Starts(o, S, T) ==
  /\ Goto(o, "idle", "next")
  /\ need' = [need EXCEPT ![o] = S]
  /\ pending' = [pending EXCEPT ![o] = S]
  /\ also' = [also EXCEPT ![o] = T]
  /\ UNCHANGED <<taken, passed, holder>>

(* Execute reaches lockSpecContainers with the replicas' names; the stale   *)
(* containers of its stack that it will remove are not in the spec.         *)
StartDeploy(o) ==
  \E S \in SUBSET Name : \E T \in SUBSET (Name \ S) : Starts(o, S, T)

(* Mutant of StartAction: the name the container has in Docker is locked,   *)
(* not the canonical one.                                                   *)
StartActionRaw(o) == \E n \in Name : Starts(o, {MaxName + n}, {})

(* stop, start, kill, pause, unpause, restart, remove, recreate and         *)
(* force_remove of one container.                                           *)
StartAction(o) == \E n \in Name : Starts(o, {n}, {})

(* stop_all and start_all. *)
StartSweep(o) == Starts(o, {}, Name)

-----------------------------------------------------------------------------
(* Mutant of At: names are locked in any order. *)
AtUnsorted(o, n) == n \in pending[o]

(* n is the name o is locking: the least one left, names being sorted. *)
At(o, n) == n \in pending[o] /\ \A m \in pending[o] : n <= m

(* mu.TryLock() returns true; LockContainer returns mu.Unlock. *)
TryLock(o, n) ==
  /\ At(o, n)
  /\ holder[n] = NoOp
  /\ holder' = [holder EXCEPT ![n] = o]
  /\ taken' = [taken EXCEPT ![o] = @ \cup {n}]
  /\ pending' = [pending EXCEPT ![o] = @ \ {n}]
  /\ UNCHANGED <<need, also, passed>>

(* LockContainer up to its first TryLock.  Entries of the map are never     *)
(* removed, so every caller finds the same mutex.                           *)
LockContainer(o, n) ==
  \/ Goto(o, "next", "next") /\ TryLock(o, n)
  \/ /\ At(o, n)
     /\ holder[n] # NoOp
     /\ Goto(o, "next", "wait")
     /\ UNCHANGED <<need, also, pending, taken, passed, holder>>

(* A tick of the poll: TryLock comes first. *)
PollLock(o, n) == Goto(o, "wait", "next") /\ TryLock(o, n)

(* Mutant of GiveUp: the unlock function of a waiter that gave up unlocks. *)
GiveUpWithUnlock(o, n) ==
  /\ o \in Slow
  /\ At(o, n)
  /\ holder[n] # NoOp
  /\ Goto(o, "wait", "next")
  /\ pending' = [pending EXCEPT ![o] = @ \ {n}]
  /\ taken' = [taken EXCEPT ![o] = @ \cup {n}]
  /\ UNCHANGED <<need, also, passed, holder>>

(* Mutant of GiveUp: there is no limit on the wait. *)
GiveUpNever(o, n) == FALSE

(* A tick at which TryLock failed past LOCK_WAIT_LIMIT: proceed unlocked.   *)
GiveUp(o, n) ==
  /\ o \in Slow
  /\ At(o, n)
  /\ holder[n] # NoOp
  /\ Goto(o, "wait", "next")
  /\ pending' = [pending EXCEPT ![o] = @ \ {n}]
  /\ passed' = [passed EXCEPT ![o] = @ \cup {n}]
  /\ UNCHANGED <<need, also, taken, holder>>

(* Mutant of StartWork: names are still to be locked. *)
StartWorkEarly(o) ==
  /\ Goto(o, "next", "work")
  /\ UNCHANGED <<need, also, pending, taken, passed, holder>>

(* Every LockContainer has returned. *)
StartWork(o) ==
  /\ Goto(o, "next", "work")
  /\ pending[o] = {}
  /\ UNCHANGED <<need, also, pending, taken, passed, holder>>

(* The operation returns, or panics: the deferred unlock runs. *)
FinishWork(o) ==
  /\ Goto(o, "work", "release")
  /\ UNCHANGED <<need, also, pending, taken, passed, holder>>

(* The unlock functions, last first: mu.Unlock frees whoever locked. *)
Unlock(o) ==
  \E n \in taken[o] \cup passed[o] :
    /\ \A m \in taken[o] \cup passed[o] : m <= n
    /\ Goto(o, "release", "release")
    /\ holder' = IF n \in taken[o] THEN [holder EXCEPT ![n] = NoOp] ELSE holder
    /\ taken' = [taken EXCEPT ![o] = @ \ {n}]
    /\ passed' = [passed EXCEPT ![o] = @ \ {n}]
    /\ UNCHANGED <<need, also, pending>>

Finish(o) ==
  /\ Goto(o, "release", "done")
  /\ taken[o] \cup passed[o] = {}
  /\ UNCHANGED <<need, also, pending, taken, passed, holder>>

-----------------------------------------------------------------------------
Start(o) == StartDeploy(o) \/ StartAction(o) \/ StartSweep(o)

LockStep(o) ==
  \/ \E n \in Name : LockContainer(o, n) \/ PollLock(o, n) \/ GiveUp(o, n)
  \/ StartWork(o)

ReleaseStep(o) == Unlock(o) \/ Finish(o)

(* Every operation is over. *)
AllDone == (\A o \in Op : pc[o] = "done") /\ UNCHANGED vars

Next ==
  \/ \E o \in Op : Start(o) \/ LockStep(o) \/ FinishWork(o) \/ ReleaseStep(o)
  \/ AllDone

Spec == Init /\ [][Next]_vars

(* The ticker and the Go scheduler run every step that stays enabled.  The  *)
(* runner puts no limit on a deployment, so work need not end.              *)
FairSpec ==
  Spec /\ \A o \in Op : WF_vars(LockStep(o)) /\ WF_vars(ReleaseStep(o))

(* Work ends: Docker answers. *)
WorkEnds == \A o \in Op : WF_vars(FinishWork(o))

-----------------------------------------------------------------------------
(* Properties. *)

(* o is working on container n. *)
Touches(o, n) == pc[o] = "work" /\ n \in need[o] \cup also[o]

(* o may work on n without holding its lock: it gave up waiting, or it is a *)
(* sweep, or n is a stale container that o removes.                         *)
Unlocked(o, n) == n \in passed[o] \cup also[o]

(* "a second operation waits for the first instead of racing it"            *)
(* (locks.go:30-31): two operations work on one container together only if  *)
(* one of them gave up waiting for it, or never locks it: stop_all,         *)
(* start_all and the removal of stale containers do not.                    *)
Exclusion ==
  \A o, p \in Op, n \in Name :
    o # p /\ Touches(o, n) /\ Touches(p, n) => Unlocked(o, n) \/ Unlocked(p, n)

(* A lock is held exactly by the operation that has still to run its        *)
(* mu.Unlock: the no-op of a waiter that gave up frees nobody               *)
(* (TestLockContainerProceedsAfterTheWaitLimit), and no lock outlives its   *)
(* operation.                                                               *)
HolderUnlocks ==
  \A n \in Name, o \in Op : holder[n] = o <=> n \in taken[o]

(* "taken in sorted name order, so two deployments that share containers    *)
(* cannot deadlock" (locks.go:36-37): no set of operations waits for locks  *)
(* that are all held within the set.                                        *)
NoDeadlock ==
  \A S \in (SUBSET Op) \ {{}} :
    ~ \A o \in S : pc[o] = "wait" /\ \E n \in Name : At(o, n) /\ holder[n] \in S

(* With a limit on its waits, an operation gets to work even when every     *)
(* other one hangs while holding its locks (locks.go:47-51).                *)
EveryWaiterProceeds == \A o \in Slow : pc[o] = "next" ~> pc[o] = "work"

(* Where Docker answers, operations that share containers all complete,     *)
(* also those that reach no limit: the sorted order alone prevents a        *)
(* circular wait (locks.go:36-37).                                          *)
EveryOperationCompletes ==
  WorkEnds => \A o \in Op : pc[o] = "next" ~> pc[o] = "done"

(* Nobody waits forever: neither behind operations that hang, up to the     *)
(* limit, nor behind ones that end.                                         *)
NobodyStarves == EveryWaiterProceeds /\ EveryOperationCompletes
=============================================================================

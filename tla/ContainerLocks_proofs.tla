----------------------- MODULE ContainerLocks_proofs ------------------------
(***************************************************************************)
(* Proofs about ContainerLocks, for every set of operations, any number of *)
(* container names and any set of waits that reach the limit.              *)
(***************************************************************************)
EXTENDS ContainerLocks, WellFoundedInduction, TLAPS

(* Each name an operation asked for is still to come, locked or given up.   *)
Accounted ==
  \A o \in Op :
    /\ pc[o] \in {"next", "wait", "work"} => need[o] = pending[o] \cup taken[o] \cup passed[o]
    /\ pc[o] = "work" => pending[o] = {}
    /\ pc[o] = "idle" => taken[o] = {} /\ passed[o] = {}

(* Names are locked in increasing order. *)
Sorted ==
  \A o \in Op : pc[o] \in {"next", "wait"} =>
    \A m \in taken[o], n \in pending[o] : m < n

LInv == TypeOK /\ HolderUnlocks /\ Accounted /\ Sorted

-----------------------------------------------------------------------------
(* A set of names that is not empty has a greatest element. *)
LEMMA GreatestName ==
  ASSUME NEW T, T \subseteq Name, T # {}
  PROVE  \E n \in T : \A m \in T : m <= n
<1> DEFINE U == {MaxName - n : n \in T}
<1>1. U \subseteq Nat /\ U # {}
  <2>1. ASSUME NEW n \in T PROVE MaxName - n \in Nat
    BY MaxNameAssumption DEF Name
  <2> QED
    BY <2>1
<1>2. \E x \in U : \A y \in U : ~ (<<y, x>> \in OpToRel(<, Nat))
  BY <1>1, NatLessThanWellFounded, WFMin, Zenon
<1>3. PICK x \in U : \A y \in U : ~ (<<y, x>> \in OpToRel(<, Nat))
  BY <1>2, Zenon
<1>4. PICK n \in T : x = MaxName - n
  OBVIOUS
<1>5. ASSUME NEW m \in T PROVE m <= n
  <2>1. ~ (MaxName - m < x)
    BY <1>1, <1>3, Zenon DEF OpToRel
  <2> QED
    BY <2>1, <1>4, <1>5, MaxNameAssumption DEF Name
<1> QED
  BY <1>5

-----------------------------------------------------------------------------
(* mu.TryLock() that succeeds keeps the invariant: the name was the least   *)
(* left, so the order is kept, and nobody held it.                          *)
LEMMA TryLockInv ==
  ASSUME LInv, NEW o \in Op, NEW n \in Name, TryLock(o, n),
         pc[o] \in {"next", "wait"}, pc' = [pc EXCEPT ![o] = "next"]
  PROVE  LInv'
<1> USE DEF LInv, TypeOK, TryLock, At
<1>1. TypeOK'
  OBVIOUS
<1>2. HolderUnlocks'
  BY OpAssumption DEF HolderUnlocks
<1>3. Accounted'
  BY DEF Accounted
<1>4. Sorted'
  BY DEF Sorted, Name
<1> QED
  BY <1>1, <1>2, <1>3, <1>4

(* A waiter that gives up keeps it: it gains no mu.Unlock. *)
LEMMA GiveUpInv ==
  ASSUME LInv, NEW o \in Op, NEW n \in Name, GiveUp(o, n)
  PROVE  LInv'
<1> USE DEF LInv, TypeOK, GiveUp, At, Goto
<1>1. TypeOK'
  OBVIOUS
<1>2. HolderUnlocks'
  BY DEF HolderUnlocks
<1>3. Accounted'
  BY DEF Accounted
<1>4. Sorted'
  BY DEF Sorted, Name
<1> QED
  BY <1>1, <1>2, <1>3, <1>4

(* The deferred unlock functions keep it: mu.Unlock is run by the holder.   *)
LEMMA UnlockInv ==
  ASSUME LInv, NEW o \in Op, Unlock(o)
  PROVE  LInv'
<1>1. PICK n \in taken[o] \cup passed[o] :
        /\ Goto(o, "release", "release")
        /\ holder' = IF n \in taken[o] THEN [holder EXCEPT ![n] = NoOp] ELSE holder
        /\ taken' = [taken EXCEPT ![o] = @ \ {n}]
        /\ passed' = [passed EXCEPT ![o] = @ \ {n}]
        /\ UNCHANGED <<need, also, pending>>
  BY Zenon DEF Unlock
<1>2. n \in Name
  BY <1>1 DEF LInv, TypeOK
<1> USE <1>1, <1>2 DEF LInv, TypeOK, Goto
<1>3. TypeOK'
  OBVIOUS
<1>4. HolderUnlocks'
  BY OpAssumption DEF HolderUnlocks
<1>5. Accounted'
  BY DEF Accounted
<1>6. Sorted'
  BY DEF Sorted
<1> QED
  BY <1>3, <1>4, <1>5, <1>6

(* So does every start of an operation, and every step that only moves it.  *)
LEMMA StartInv ==
  ASSUME LInv, NEW o \in Op, NEW S \in SUBSET Name, NEW T \in SUBSET Name,
         Starts(o, S, T)
  PROVE  LInv'
<1> USE DEF LInv, TypeOK, Starts, Goto
<1>1. TypeOK'
  OBVIOUS
<1>2. HolderUnlocks'
  BY DEF HolderUnlocks
<1>3. Accounted'
  BY DEF Accounted
<1>4. Sorted'
  BY DEF Sorted, Accounted
<1> QED
  BY <1>1, <1>2, <1>3, <1>4

(* The invariant holds initially and is kept by every step. *)
LEMMA LockInvariant == Spec => []LInv
<1>1. Init => LInv
  BY OpAssumption DEF Init, LInv, TypeOK, HolderUnlocks, Accounted, Sorted
<1>2. LInv /\ [Next]_vars => LInv'
  <2> SUFFICES ASSUME LInv, [Next]_vars PROVE LInv'
    OBVIOUS
  <2>1. ASSUME NEW o \in Op, Start(o) PROVE LInv'
    <3>1. CASE StartDeploy(o)
      <4>1. PICK S \in SUBSET Name : \E T \in SUBSET (Name \ S) : Starts(o, S, T)
        BY <3>1 DEF StartDeploy
      <4>2. PICK T \in SUBSET (Name \ S) : Starts(o, S, T)
        BY <4>1
      <4>3. T \in SUBSET Name
        OBVIOUS
      <4> QED
        BY <4>2, <4>3, StartInv, Zenon
    <3>2. CASE StartAction(o)
      <4>1. PICK n \in Name : Starts(o, {n}, {})
        BY <3>2 DEF StartAction
      <4>2. {n} \in SUBSET Name /\ {} \in SUBSET Name
        OBVIOUS
      <4> QED
        BY <4>1, <4>2, StartInv, Zenon
    <3>3. CASE StartSweep(o)
      <4>1. {} \in SUBSET Name /\ Name \in SUBSET Name
        OBVIOUS
      <4> QED
        BY <3>3, <4>1, StartInv, Zenon DEF StartSweep
    <3> QED
      BY <2>1, <3>1, <3>2, <3>3 DEF Start
  <2>2. ASSUME NEW o \in Op, NEW n \in Name, LockContainer(o, n) PROVE LInv'
    <3>1. CASE Goto(o, "next", "next") /\ TryLock(o, n)
      BY <3>1, TryLockInv, Zenon DEF Goto
    <3>2. CASE Goto(o, "next", "wait")
               /\ UNCHANGED <<need, also, pending, taken, passed, holder>>
      BY <3>2 DEF LInv, TypeOK, HolderUnlocks, Accounted, Sorted, Goto
    <3> QED
      BY <2>2, <3>1, <3>2 DEF LockContainer
  <2>3. ASSUME NEW o \in Op, NEW n \in Name, PollLock(o, n) PROVE LInv'
    BY <2>3, TryLockInv, Zenon DEF PollLock, Goto
  <2>4. ASSUME NEW o \in Op, StartWork(o) \/ FinishWork(o) \/ Finish(o) PROVE LInv'
    BY <2>4 DEF LInv, TypeOK, HolderUnlocks, Accounted, Sorted, Goto, StartWork,
       FinishWork, Finish
  <2>5. CASE UNCHANGED vars
    BY <2>5 DEF LInv, TypeOK, HolderUnlocks, Accounted, Sorted, vars
  <2> QED
    BY <2>1, <2>2, <2>3, <2>4, <2>5, GiveUpInv, UnlockInv
    DEF Next, LockStep, ReleaseStep, AllDone
<1> QED
  BY <1>1, <1>2, PTL DEF Spec

(* TypeOK, for every number of operations and names. *)
THEOREM LocksTypeCorrect == Spec => []TypeOK
<1>1. LInv => TypeOK
  BY DEF LInv
<1> QED
  BY <1>1, LockInvariant, PTL

(* Two operations never work on one container together unless one gave up   *)
(* waiting for it or is one of those that do not lock it.                   *)
THEOREM LocksExclude == Spec => []Exclusion
<1>1. LInv => Exclusion
  BY DEF LInv, Exclusion, Touches, Unlocked, HolderUnlocks, Accounted
<1> QED
  BY <1>1, LockInvariant, PTL

(* A mutex is always released by the operation that locked it, and by no    *)
(* other.                                                                   *)
THEOREM LocksOwned == Spec => []HolderUnlocks
<1>1. LInv => HolderUnlocks
  BY DEF LInv
<1> QED
  BY <1>1, LockInvariant, PTL

(* No set of operations waits only for locks held within the set: of the    *)
(* names waited for, the holder of the greatest would have to be waiting    *)
(* for a greater one.                                                       *)
THEOREM LocksDeadlockFree == Spec => []NoDeadlock
<1>1. LInv => NoDeadlock
  <2> SUFFICES ASSUME LInv, NEW S \in (SUBSET Op) \ {{}},
                      \A o \in S : pc[o] = "wait" /\ \E n \in Name : At(o, n) /\ holder[n] \in S
               PROVE  FALSE
    BY Zenon DEF NoDeadlock
  <2> DEFINE W == {n \in Name : \E o \in S : At(o, n) /\ holder[n] \in S}
  <2>1. W # {} /\ W \subseteq Name
    <3> S # {}
      BY Zenon
    <3>1. PICK o \in S : TRUE
      BY Zenon
    <3>2. PICK n \in Name : At(o, n) /\ holder[n] \in S
      BY <3>1
    <3>3. n \in W
      BY <3>1, <3>2
    <3> QED
      BY <3>3
  <2>2. PICK n \in W : \A m \in W : m <= n
    BY <2>1, GreatestName, Zenon
  <2>3. PICK p \in S : p = holder[n]
    BY <2>2
  <2>4. n \in taken[p]
    BY <2>2, <2>3 DEF LInv, HolderUnlocks
  <2>5. PICK m \in Name : At(p, m) /\ holder[m] \in S
    BY <2>3
  <2>6. n < m
    BY <2>3, <2>4, <2>5 DEF LInv, Sorted, At
  <2>7. m <= n
    BY <2>2, <2>3, <2>5
  <2> QED
    BY <2>2, <2>5, <2>6, <2>7, MaxNameAssumption DEF Name
<1> QED
  BY <1>1, LockInvariant, PTL
=============================================================================

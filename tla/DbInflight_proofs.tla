------------------------- MODULE DbInflight_proofs --------------------------
(***************************************************************************)
(* Proofs about DbInflight, for every set of names, every set of commands  *)
(* and every number of them.  The inductive invariant ties the three parts *)
(* of the registry together: which op object a handler uses is the one the *)
(* map holds (Pointers), its count is the number of handlers using it      *)
(* (Counted), so it is deleted only when nobody does, and its mutex has a  *)
(* holder exactly when that handler is in its critical section (Mutexes).  *)
(***************************************************************************)
EXTENDS DbInflight, FiniteSetTheorems, TLAPS

Users(o) == {r \in Req : HoldsOp(r) /\ op[r] = o}

Pointers ==
  \A r \in Req : HoldsOp(r) => op[r] \in Req /\ dbOps[name[r]] = op[r]

Owned ==
  \A n \in Name : dbOps[n] # NoReq =>
    /\ name[dbOps[n]] = n
    /\ pc[dbOps[n]] \notin {"idle", "recv"}
    /\ \E r \in Req : name[r] = n /\ HoldsOp(r)

Counted == \A o \in Req : refs[o] = Cardinality(Users(o))

Mutexes ==
  /\ \A r \in Req : InCriticalSection(r) => mu[op[r]] = r
  /\ \A o \in Req : mu[o] # NoReq => InCriticalSection(mu[o]) /\ op[mu[o]] = o

RegistryInv == Pointers /\ Owned /\ Counted /\ Mutexes

Arrivals == \A r \in Req : r > received => pc[r] = "idle"

IInv == TypeOK /\ Arrivals /\ RegistryInv

-----------------------------------------------------------------------------
(* NoReq is no request, and the requests are finitely many, so that the     *)
(* handlers using an op can be counted.                                     *)
LEMMA ReqFacts == NoReq \notin Req /\ IsFiniteSet(Req)
<1>1. NoReq \notin Req
  BY DEF NoReq, Req
<1>2. IsFiniteSet(Req)
  BY FS_Interval, MaxReqAssumption DEF Req
<1> QED
  BY <1>1, <1>2

(* A handler that uses op o makes its count positive: releaseDbOp never     *)
(* takes op.refs below zero.                                                *)
LEMMA UserCounts ==
  ASSUME TypeOK, NEW r \in Req, HoldsOp(r)
  PROVE  Cardinality(Users(op[r])) \in Nat \ {0}
<1>1. IsFiniteSet(Users(op[r]))
  BY ReqFacts, FS_Subset DEF Users
<1>2. Users(op[r]) # {}
  BY DEF Users
<1> QED
  BY <1>1, <1>2, FS_EmptySet, FS_CardinalityType

(* A step of r that neither takes nor releases the op or its mutex. *)
Quiet(r) ==
  /\ HoldsOp(r)' <=> HoldsOp(r)
  /\ InCriticalSection(r)' <=> InCriticalSection(r)
  /\ pc'[r] \in {"idle", "recv"} => pc[r] \in {"idle", "recv"}
  /\ \A s \in Req \ {r} : pc'[s] = pc[s]
  /\ UNCHANGED <<name, op, dbOps, refs, mu>>

(* Such a step keeps the registry consistent. *)
LEMMA QuietStep ==
  ASSUME IInv, NEW r \in Req, Quiet(r)
  PROVE  RegistryInv'
<1>1. \A s \in Req : HoldsOp(s)' <=> HoldsOp(s)
  BY DEF Quiet, HoldsOp, InCriticalSection
<1>2. \A s \in Req : InCriticalSection(s)' <=> InCriticalSection(s)
  BY DEF Quiet, InCriticalSection
<1>3. \A s \in Req : pc'[s] \in {"idle", "recv"} => pc[s] \in {"idle", "recv"}
  BY DEF Quiet
<1>4. Pointers'
  BY <1>1 DEF Quiet, IInv, RegistryInv, Pointers
<1>5. Owned'
  BY <1>1, <1>3, ReqFacts DEF Quiet, IInv, RegistryInv, Owned, TypeOK, Ref
<1>6. Counted'
  <2>1. \A o \in Req : Users(o)' = Users(o)
    BY <1>1 DEF Users, Quiet
  <2> QED
    BY <2>1 DEF IInv, RegistryInv, Counted, Quiet
<1>7. Mutexes'
  BY <1>2, ReqFacts DEF Quiet, IInv, RegistryInv, Mutexes, TypeOK, Ref
<1> QED
  BY <1>4, <1>5, <1>6, <1>7 DEF RegistryInv

(* dbOpFor, in a create or a remove: r starts using the op of its name,     *)
(* allocated for it if the name had none.                                   *)
LEMMA BeginStep ==
  ASSUME IInv, NEW r \in Req, BeginCreate(r) \/ BeginRemove(r)
  PROVE  RegistryInv'
<1> DEFINE n == name[r]
           o == IF dbOps[n] = NoReq THEN r ELSE dbOps[n]
<1>1. /\ dbOps' = [dbOps EXCEPT ![n] = o]
      /\ refs' = [refs EXCEPT ![o] = @ + 1]
      /\ op' = [op EXCEPT ![r] = o]
      /\ pc[r] = "recv"
      /\ pc' = [pc EXCEPT ![r] = pc'[r]]
      /\ pc'[r] \in {"lock", "cancel"}
      /\ UNCHANGED <<name, mu>>
  BY DEF BeginCreate, BeginRemove, dbOpFor, Goto, commandVars, IInv, TypeOK
<1>2. n \in Name /\ o \in Req
  BY DEF IInv, TypeOK, Ref
<1>3. ~ HoldsOp(r) /\ ~ InCriticalSection(r)
  BY <1>1 DEF HoldsOp, InCriticalSection
<1>4. HoldsOp(r)' /\ ~ InCriticalSection(r)'
  BY <1>1 DEF HoldsOp, InCriticalSection
<1>5. \A s \in Req \ {r} : /\ pc'[s] = pc[s]
                           /\ op'[s] = op[s]
                           /\ HoldsOp(s)' <=> HoldsOp(s)
                           /\ InCriticalSection(s)' <=> InCriticalSection(s)
  BY <1>1 DEF HoldsOp, InCriticalSection, IInv, TypeOK
<1>6. op'[r] = o /\ dbOps'[n] = o /\ \A m \in Name \ {n} : dbOps'[m] = dbOps[m]
  BY <1>1, <1>2 DEF IInv, TypeOK
<1>7. Pointers'
  BY <1>1, <1>2, <1>4, <1>5, <1>6, ReqFacts
  DEF IInv, RegistryInv, Pointers, TypeOK
<1>8. Owned'
  <2> SUFFICES ASSUME NEW m \in Name, dbOps'[m] # NoReq
               PROVE  /\ name[dbOps'[m]] = m
                      /\ pc'[dbOps'[m]] \notin {"idle", "recv"}
                      /\ \E s \in Req : name[s] = m /\ HoldsOp(s)'
    BY <1>1 DEF Owned
  <2>1. CASE m = n
    BY <2>1, <1>1, <1>2, <1>4, <1>5, <1>6 DEF IInv, RegistryInv, Owned
  <2>2. CASE m # n
    <3>1. dbOps'[m] = dbOps[m] /\ dbOps[m] \in Req
      BY <2>2, <1>6, ReqFacts DEF IInv, TypeOK, Ref
    <3>2. PICK s \in Req : name[s] = m /\ HoldsOp(s)
      BY <3>1 DEF IInv, RegistryInv, Owned
    <3>3. s # r /\ dbOps[m] # r
      BY <3>2, <3>1, <1>3, <2>2 DEF IInv, RegistryInv, Owned
    <3> QED
      BY <3>1, <3>2, <3>3, <1>5 DEF IInv, RegistryInv, Owned
  <2> QED
    BY <2>1, <2>2
<1>9. Counted'
  <2> SUFFICES ASSUME NEW p \in Req
               PROVE  refs'[p] = Cardinality(Users(p)')
    BY DEF Counted
  <2>1. IsFiniteSet(Users(p)) /\ r \notin Users(p)
    BY <1>3, ReqFacts, FS_Subset DEF Users
  <2>2. CASE p = o
    <3>1. Users(p)' = Users(p) \cup {r}
      BY <2>2, <1>4, <1>5, <1>6 DEF Users
    <3>2. Cardinality(Users(p) \cup {r}) = Cardinality(Users(p)) + 1
      BY <2>1, FS_AddElement
    <3>3. refs'[p] = refs[p] + 1
      BY <1>1, <1>2, <2>2 DEF IInv, TypeOK
    <3> QED
      BY <3>1, <3>2, <3>3 DEF IInv, RegistryInv, Counted
  <2>3. CASE p # o
    <3>1. Users(p)' = Users(p)
      BY <2>3, <1>3, <1>5, <1>6 DEF Users
    <3>2. refs'[p] = refs[p]
      BY <1>1, <1>2, <2>3 DEF IInv, TypeOK
    <3> QED
      BY <3>1, <3>2 DEF IInv, RegistryInv, Counted
  <2> QED
    BY <2>2, <2>3
<1>10. Mutexes'
  BY <1>1, <1>3, <1>4, <1>5, ReqFacts DEF IInv, RegistryInv, Mutexes, TypeOK, Ref
<1> QED
  BY <1>7, <1>8, <1>9, <1>10 DEF RegistryInv

(* op.mu.Lock(): r enters its critical section, the mutex being free. *)
LEMMA LockStepInv ==
  ASSUME IInv, NEW r \in Req, LockName(r)
  PROVE  RegistryInv'
<1>1. /\ pc[r] = "lock" /\ mu[op[r]] = NoReq
      /\ mu' = [mu EXCEPT ![op[r]] = r]
      /\ pc' = [pc EXCEPT ![r] = pc'[r]]
      /\ pc'[r] \in {"register", "find"}
      /\ UNCHANGED <<name, op, dbOps, refs>>
  BY DEF LockName, Goto, commandVars, registryVars, IInv, TypeOK
<1>2. HoldsOp(r) /\ HoldsOp(r)' /\ ~ InCriticalSection(r) /\ InCriticalSection(r)'
  BY <1>1 DEF HoldsOp, InCriticalSection
<1>3. \A s \in Req \ {r} : /\ pc'[s] = pc[s]
                           /\ HoldsOp(s)' <=> HoldsOp(s)
                           /\ InCriticalSection(s)' <=> InCriticalSection(s)
  BY <1>1 DEF HoldsOp, InCriticalSection, IInv, TypeOK
<1>4. op[r] \in Req
  BY <1>2 DEF IInv, RegistryInv, Pointers
<1>5. Pointers'
  BY <1>1, <1>2, <1>3 DEF IInv, RegistryInv, Pointers
<1>6. Owned'
  BY <1>1, <1>2, <1>3, ReqFacts DEF IInv, RegistryInv, Owned, TypeOK, Ref
<1>7. Counted'
  <2>1. \A p \in Req : Users(p)' = Users(p)
    BY <1>1, <1>2, <1>3 DEF Users
  <2> QED
    BY <2>1, <1>1 DEF IInv, RegistryInv, Counted
<1>8. Mutexes'
  <2>1. ASSUME NEW s \in Req, InCriticalSection(s)'
        PROVE  mu'[op'[s]] = s
    <3>1. CASE s = r
      BY <3>1, <1>1, <1>4 DEF IInv, TypeOK
    <3>2. CASE s # r
      <4>1. InCriticalSection(s) /\ mu[op[s]] = s
        BY <2>1, <3>2, <1>3 DEF IInv, RegistryInv, Mutexes
      <4> QED
        BY <4>1, <1>1, <1>4, ReqFacts DEF IInv, TypeOK, Ref
    <3> QED
      BY <3>1, <3>2
  <2>2. ASSUME NEW p \in Req, mu'[p] # NoReq, NEW h, h = mu'[p]
        PROVE  InCriticalSection(h)' /\ op'[h] = p
    BY <2>2, <1>1, <1>2, <1>3, <1>4, ReqFacts
    DEF IInv, RegistryInv, Mutexes, TypeOK, Ref
  <2> QED
    BY <2>1, <2>2 DEF Mutexes, InCriticalSection
<1> QED
  BY <1>5, <1>6, <1>7, <1>8 DEF RegistryInv

(* op.mu.Unlock(): r, the holder, leaves its critical section. *)
LEMMA UnlockStepInv ==
  ASSUME IInv, NEW r \in Req, UnlockName(r)
  PROVE  RegistryInv'
<1>1. /\ pc[r] = "unlock"
      /\ mu' = [mu EXCEPT ![op[r]] = NoReq]
      /\ pc' = [pc EXCEPT ![r] = "release"]
      /\ UNCHANGED <<name, op, dbOps, refs>>
  BY DEF UnlockName, Goto, commandVars, registryVars
<1>2. HoldsOp(r) /\ HoldsOp(r)' /\ InCriticalSection(r) /\ ~ InCriticalSection(r)'
  BY <1>1 DEF HoldsOp, InCriticalSection, IInv, TypeOK
<1>3. \A s \in Req \ {r} : /\ pc'[s] = pc[s]
                           /\ HoldsOp(s)' <=> HoldsOp(s)
                           /\ InCriticalSection(s)' <=> InCriticalSection(s)
  BY <1>1 DEF HoldsOp, InCriticalSection, IInv, TypeOK
<1>4. op[r] \in Req /\ mu[op[r]] = r
  BY <1>2 DEF IInv, RegistryInv, Pointers, Mutexes
<1>5. Pointers'
  BY <1>1, <1>2, <1>3 DEF IInv, RegistryInv, Pointers
<1>6. Owned'
  <2>1. pc'[r] = "release"
    BY <1>1 DEF IInv, TypeOK
  <2> QED
    BY <2>1, <1>1, <1>2, <1>3, ReqFacts DEF IInv, RegistryInv, Owned, TypeOK, Ref
<1>7. Counted'
  <2>1. \A p \in Req : Users(p)' = Users(p)
    BY <1>1, <1>2, <1>3 DEF Users
  <2> QED
    BY <2>1, <1>1 DEF IInv, RegistryInv, Counted
<1>8. Mutexes'
  <2>1. ASSUME NEW s \in Req, InCriticalSection(s)'
        PROVE  mu'[op'[s]] = s
    <3>1. s # r /\ InCriticalSection(s) /\ mu[op[s]] = s
      BY <2>1, <1>2, <1>3 DEF IInv, RegistryInv, Mutexes
    <3>2. op[s] # op[r]
      BY <3>1, <1>4
    <3> QED
      BY <3>1, <3>2, <1>1 DEF IInv, TypeOK
  <2>2. ASSUME NEW p \in Req, mu'[p] # NoReq, NEW h, h = mu'[p]
        PROVE  InCriticalSection(h)' /\ op'[h] = p
    <3>1. p # op[r] /\ h = mu[p]
      BY <2>2, <1>1, <1>4 DEF IInv, TypeOK
    <3>2. InCriticalSection(h) /\ op[h] = p
      <4>1. mu[p] # NoReq => InCriticalSection(mu[p]) /\ op[mu[p]] = p
        BY DEF IInv, RegistryInv, Mutexes
      <4> QED
        BY <4>1, <3>1, <2>2
    <3>3. h \in Req
      <4>1. mu[p] \in Ref
        BY DEF IInv, TypeOK
      <4> QED
        BY <4>1, <3>1, <2>2 DEF Ref
    <3>4. h # r
      BY <3>1, <3>2
    <3> QED
      BY <3>2, <3>3, <3>4, <1>1, <1>3
  <2> QED
    BY <2>1, <2>2 DEF Mutexes, InCriticalSection
<1> QED
  BY <1>5, <1>6, <1>7, <1>8 DEF RegistryInv

(* releaseDbOp: the last user of an op deletes the map's entry. *)
LEMMA ReleaseStepInv ==
  ASSUME IInv, NEW r \in Req, ReleaseOp(r)
  PROVE  RegistryInv'
<1> DEFINE n == name[r]
           o == op[r]
<1>1. /\ pc[r] = "release"
      /\ refs' = [refs EXCEPT ![o] = @ - 1]
      /\ dbOps' = IF refs[o] = 1 THEN [dbOps EXCEPT ![n] = NoReq] ELSE dbOps
      /\ op' = [op EXCEPT ![r] = NoReq]
      /\ pc' = [pc EXCEPT ![r] = "done"]
      /\ UNCHANGED <<name, mu>>
  BY DEF ReleaseOp, releaseDbOp, Goto, commandVars
<1>2. HoldsOp(r) /\ ~ InCriticalSection(r)
  BY <1>1 DEF HoldsOp, InCriticalSection
<1>3. pc'[r] = "done" /\ ~ HoldsOp(r)' /\ ~ InCriticalSection(r)'
  BY <1>1 DEF HoldsOp, InCriticalSection, IInv, TypeOK
<1>4. \A s \in Req \ {r} : /\ pc'[s] = pc[s]
                           /\ op'[s] = op[s]
                           /\ HoldsOp(s)' <=> HoldsOp(s)
                           /\ InCriticalSection(s)' <=> InCriticalSection(s)
  BY <1>1 DEF HoldsOp, InCriticalSection, IInv, TypeOK
<1>5. n \in Name /\ o \in Req /\ dbOps[n] = o /\ name[o] = n /\ o # NoReq
  BY <1>2, ReqFacts DEF IInv, RegistryInv, Pointers, Owned, TypeOK
<1>6. IsFiniteSet(Users(o)) /\ r \in Users(o)
  BY <1>2, ReqFacts, FS_Subset DEF Users
<1>7. refs[o] = Cardinality(Users(o)) /\ refs[o] \in Nat \ {0}
  BY <1>2, <1>5, UserCounts DEF IInv, RegistryInv, Counted
<1>8. ASSUME NEW s \in Req \ {r}, HoldsOp(s), name[s] = n
      PROVE  refs[o] # 1
  <2>1. s \in Users(o)
    BY <1>5, <1>8 DEF Users, IInv, RegistryInv, Pointers
  <2>2. Cardinality(Users(o) \ {r}) = Cardinality(Users(o)) - 1
    BY <1>6, FS_RemoveElement, Zenon
  <2>3. Cardinality(Users(o) \ {r}) # 0
    BY <2>1, <1>6, FS_RemoveElement, FS_EmptySet, Zenon
  <2> QED
    BY <1>7, <2>2, <2>3
<1>9. Pointers'
  <2> SUFFICES ASSUME NEW s \in Req, HoldsOp(s)'
               PROVE  op'[s] \in Req /\ dbOps'[name[s]] = op'[s]
    BY <1>1 DEF Pointers
  <2>1. s # r /\ HoldsOp(s) /\ op'[s] = op[s] /\ op[s] \in Req /\ dbOps[name[s]] = op[s]
    BY <1>3, <1>4 DEF IInv, RegistryInv, Pointers
  <2>2. dbOps'[name[s]] = dbOps[name[s]]
    BY <2>1, <1>1, <1>5, <1>8 DEF IInv, TypeOK
  <2> QED
    BY <2>1, <2>2
<1>10. Owned'
  <2> SUFFICES ASSUME NEW m \in Name, dbOps'[m] # NoReq
               PROVE  /\ name[dbOps'[m]] = m
                      /\ pc'[dbOps'[m]] \notin {"idle", "recv"}
                      /\ \E s \in Req : name[s] = m /\ HoldsOp(s)'
    BY <1>1 DEF Owned
  <2>1. dbOps'[m] = dbOps[m] /\ dbOps[m] \in Req
    BY <1>1, <1>5, ReqFacts DEF IInv, TypeOK, Ref
  <2>2. name[dbOps[m]] = m /\ pc'[dbOps[m]] \notin {"idle", "recv"}
    BY <2>1, <1>3, <1>4, ReqFacts DEF IInv, RegistryInv, Owned
  <2>3. CASE m # n
    BY <2>1, <2>2, <2>3, <1>4, ReqFacts DEF IInv, RegistryInv, Owned
  <2>4. CASE m = n
    <3>1. refs[o] # 1
      BY <2>4, <1>1, <1>5 DEF IInv, TypeOK
    <3>2. Cardinality(Users(o) \ {r}) = Cardinality(Users(o)) - 1
          /\ IsFiniteSet(Users(o) \ {r})
      BY <1>6, FS_RemoveElement
    <3>3. Users(o) \ {r} # {}
      BY <3>1, <3>2, <1>7, FS_EmptySet
    <3>4. PICK s \in Users(o) : s # r
      BY <3>3
    <3>5. s \in Req /\ HoldsOp(s) /\ op[s] = o
      BY <3>4 DEF Users
    <3>6. name[s] = n
      BY <3>5, <1>5 DEF IInv, RegistryInv, Pointers, Owned, TypeOK
    <3> QED
      BY <2>1, <2>2, <2>4, <3>4, <3>5, <3>6, <1>4
  <2> QED
    BY <2>3, <2>4
<1>11. Counted'
  <2> SUFFICES ASSUME NEW p \in Req
               PROVE  refs'[p] = Cardinality(Users(p)')
    BY DEF Counted
  <2>1. CASE p = o
    <3>1. Users(p)' = Users(p) \ {r}
      BY <2>1, <1>3, <1>4 DEF Users
    <3>2. Cardinality(Users(p) \ {r}) = Cardinality(Users(p)) - 1
      BY <2>1, <1>6, FS_RemoveElement, Zenon
    <3> QED
      BY <3>1, <3>2, <2>1, <1>1, <1>5, <1>7 DEF IInv, TypeOK
  <2>2. CASE p # o
    <3>1. Users(p)' = Users(p)
      BY <2>2, <1>3, <1>4 DEF Users
    <3> QED
      BY <3>1, <2>2, <1>1 DEF IInv, RegistryInv, Counted, TypeOK
  <2> QED
    BY <2>1, <2>2
<1>12. Mutexes'
  <2>1. ASSUME NEW s \in Req, InCriticalSection(s)'
        PROVE  mu'[op'[s]] = s
    BY <2>1, <1>1, <1>3, <1>4 DEF IInv, RegistryInv, Mutexes
  <2>2. ASSUME NEW p \in Req, mu'[p] # NoReq, NEW h, h = mu'[p]
        PROVE  InCriticalSection(h)' /\ op'[h] = p
    BY <2>2, <1>1, <1>2, <1>4 DEF IInv, RegistryInv, Mutexes, TypeOK, Ref
  <2> QED
    BY <2>1, <2>2 DEF Mutexes, InCriticalSection
<1> QED
  BY <1>9, <1>10, <1>11, <1>12 DEF RegistryInv

-----------------------------------------------------------------------------
(* The steps of a create, of a remove and of the other commands that leave  *)
(* the registry alone.                                                      *)
CreateWork(r) ==
  \/ RegisterCancel(r) \/ AckAndProbePort(r) \/ PullImage(r)
  \/ CreateVolume(r) \/ CreateContainer(r) \/ CheckCancelled(r)
  \/ StartCreated(r) \/ ReportCreate(r) \/ SucceedCreate(r)
  \/ UnregisterCancel(r)

RemoveWork(r) ==
  \/ CancelInFlight(r) \/ FindForRemove(r) \/ StopForRemove(r)
  \/ RemoveContainer(r) \/ RemoveVolume(r)

(* None of them touches the registry. *)
LEMMA WorkIsQuiet ==
  ASSUME TypeOK, NEW r \in Req,
         CreateWork(r) \/ RemoveWork(r) \/ RejectInvalid(r) \/ TouchStep(r)
  PROVE  Quiet(r)
<1> pc \in [Req -> Labels]
  BY DEF TypeOK
<1> USE DEF Quiet, Goto, Answer, commandVars, registryVars, InCriticalSection, HoldsOp
<1>1. CASE CreateWork(r)
  <2>1. CASE RegisterCancel(r) \/ AckAndProbePort(r) \/ PullImage(r) \/ UnregisterCancel(r)
    BY <2>1 DEF RegisterCancel, AckAndProbePort, PullImage, UnregisterCancel, CreateFails
  <2>2. CASE CreateVolume(r) \/ CreateContainer(r)
    BY <2>2 DEF CreateVolume, CreateContainer, CreateFails
  <2>3. CASE CheckCancelled(r) \/ StartCreated(r)
    BY <2>3 DEF CheckCancelled, StartCreated, CreateFails
  <2>4. CASE ReportCreate(r) \/ SucceedCreate(r)
    BY <2>4 DEF ReportCreate, SucceedCreate
  <2> HIDE DEF Quiet
  <2> QED
    BY <1>1, <2>1, <2>2, <2>3, <2>4 DEF CreateWork
<1>2. CASE RemoveWork(r)
  <2>1. CASE CancelInFlight(r) \/ StopForRemove(r)
    BY <2>1, SMTT(30) DEF CancelInFlight, StopForRemove
  <2>2. CASE FindForRemove(r)
    BY <2>2 DEF FindForRemove, RemoveFails, ContainerGone
  <2>3. CASE RemoveContainer(r) \/ RemoveVolume(r)
    BY <2>3 DEF RemoveContainer, RemoveVolume, RemoveFails, ContainerGone
  <2> HIDE DEF Quiet
  <2> QED
    BY <1>2, <2>1, <2>2, <2>3 DEF RemoveWork
<1>3. CASE RejectInvalid(r)
  BY <1>3, SMTT(30) DEF RejectInvalid
<1>4. CASE TouchStep(r)
  BY <1>4, ZenonT(30) DEF TouchStep, FindForTouch, ActOnContainer
<1> HIDE DEF Quiet
<1> QED
  BY <1>1, <1>2, <1>3, <1>4

(* The type of what VolumeCreate assigns. *)
LEMMA VolumeTypes ==
  ASSUME TypeOK, NEW r \in Req, CreateVolume(r)
  PROVE  volume' \in [Name -> BOOLEAN]
<1>1. volume \in [Name -> BOOLEAN] /\ name[r] \in Name
  BY DEF TypeOK
<1>2. UNCHANGED volume \/ volume' = [volume EXCEPT ![name[r]] = TRUE]
  BY Zenon DEF CreateVolume
<1> QED
  BY <1>1, <1>2, Zenon

(* The types of what releaseDbOp assigns, given a positive count. *)
LEMMA ReleaseTypes ==
  ASSUME TypeOK, NEW r \in Req, ReleaseOp(r), refs[op[r]] \in Nat \ {0}
  PROVE  refs' \in [Req -> Nat] /\ dbOps' \in [Name -> Ref] /\ op' \in [Req -> Ref]
<1>1. /\ refs \in [Req -> Nat] /\ dbOps \in [Name -> Ref] /\ op \in [Req -> Ref]
      /\ NoReq \in Ref
  BY DEF TypeOK, Ref
<1>2. /\ refs' = [refs EXCEPT ![op[r]] = @ - 1]
      /\ \/ dbOps' = [dbOps EXCEPT ![name[r]] = NoReq]
         \/ dbOps' = dbOps
      /\ op' = [op EXCEPT ![r] = NoReq]
  BY DEF ReleaseOp, releaseDbOp
<1>3. refs[op[r]] - 1 \in Nat
  OBVIOUS
<1>4. refs' \in [Req -> Nat]
  BY <1>1, <1>2, <1>3, Zenon
<1> QED
  BY <1>1, <1>2, <1>4

(* Every handler step keeps the types; op[r] must be a request where the    *)
(* handler dereferences it.                                                 *)
LEMMA HandlerType ==
  ASSUME IInv, NEW r \in Req, Handler(r)
  PROVE  TypeOK'
<1> TypeOK
  BY DEF IInv
<1> USE DEF TypeOK, Goto, Answer, commandVars, registryVars, dockerVars,
            Ref, Labels, Replies
<1>1. CASE RejectInvalid(r)
  BY <1>1 DEF RejectInvalid
<1>2. CASE RegisterCancel(r)
  BY <1>2, Zenon DEF RegisterCancel
<1>3. CASE AckAndProbePort(r)
  BY <1>3 DEF AckAndProbePort, CreateFails
<1>4. CASE PullImage(r)
  BY <1>4, SMTT(30) DEF PullImage, CreateFails
<1>5. CASE CreateVolume(r)
  <2>1. volume' \in [Name -> BOOLEAN]
    BY <1>5, VolumeTypes
  <2>2. /\ UNCHANGED <<commandVars, op, registryVars, mu, cancel, cancelled,
                       container, cstate, id, hit, last>>
        /\ pc' \in [Req -> Labels] /\ reply' \in [Req -> Replies]
    BY <1>5 DEF CreateVolume, CreateFails
  <2> QED
    BY <2>1, <2>2
<1>6. CASE CreateContainer(r)
  <2>1. DaemonCreates(r) \/ UNCHANGED <<container, cstate>>
    BY <1>6, Zenon DEF CreateContainer
  <2>2. /\ container' \in [Name -> Ref]
        /\ cstate' \in [Req -> {"none", "created", "running", "exited"}]
    BY <2>1, SMTT(30) DEF DaemonCreates
  <2>3. /\ UNCHANGED <<commandVars, op, registryVars, mu, cancel, cancelled,
                       volume, id, hit, last>>
        /\ pc' \in [Req -> Labels] /\ reply' \in [Req -> Replies]
    BY <1>6 DEF CreateContainer, CreateFails
  <2> QED
    BY <2>2, <2>3
<1>7. CASE CheckCancelled(r)
  BY <1>7, SMTT(30) DEF CheckCancelled, CreateFails, CleanupOnError, DaemonRemoves
<1>8. CASE StartCreated(r)
  BY <1>8 DEF StartCreated, CreateFails, CleanupOnError, DaemonRemoves
<1>9. CASE ReportCreate(r)
  BY <1>9 DEF ReportCreate
<1>10. CASE SucceedCreate(r)
  BY <1>10 DEF SucceedCreate
<1>11. CASE UnregisterCancel(r)
  BY <1>11, Zenon DEF UnregisterCancel
<1>12. CASE BeginCreate(r)
  BY <1>12 DEF BeginCreate, dbOpFor
<1>13. CASE BeginRemove(r)
  BY <1>13 DEF BeginRemove, dbOpFor
<1>14. CASE CancelInFlight(r)
  <2>1. op[r] \in Req
    <3>1. HoldsOp(r)
      BY <1>14 DEF CancelInFlight, HoldsOp
    <3> QED
      BY <3>1 DEF IInv, RegistryInv, Pointers
  <2> QED
    BY <1>14, <2>1, SMTT(30) DEF CancelInFlight
<1>15. CASE FindForRemove(r)
  BY <1>15 DEF FindForRemove, RemoveFails, ContainerGone
<1>16. CASE StopForRemove(r)
  BY <1>16 DEF StopForRemove
<1>17. CASE RemoveContainer(r)
  BY <1>17 DEF RemoveContainer, RemoveFails, ContainerGone, DaemonRemoves
<1>18. CASE RemoveVolume(r)
  <2>1. volume' \in [Name -> BOOLEAN]
    BY <1>18, Zenon DEF RemoveVolume
  <2> QED
    BY <1>18, <2>1, SMTT(30) DEF RemoveVolume, RemoveFails
<1>19. CASE LockName(r)
  BY <1>19, Zenon DEF LockName
<1>20. CASE UnlockName(r)
  BY <1>20, Zenon DEF UnlockName
<1>21. CASE ReleaseOp(r)
  <2>1. HoldsOp(r)
    BY <1>21, SMTT(30) DEF ReleaseOp, HoldsOp
  <2>2. refs[op[r]] \in Nat \ {0}
    BY <2>1, UserCounts, ZenonT(30) DEF IInv, RegistryInv, Counted, Pointers
  <2>3. refs' \in [Req -> Nat] /\ dbOps' \in [Name -> Ref] /\ op' \in [Req -> Ref]
    BY <1>21, <2>2, ReleaseTypes, SMTT(30)
  <2> QED
    BY <1>21, <2>3 DEF ReleaseOp
<1>22. CASE FindForTouch(r)
  BY <1>22, SMTT(30) DEF FindForTouch
<1>23. CASE ActOnContainer(r)
  BY <1>23 DEF ActOnContainer
<1> HIDE DEF TypeOK, Goto, Answer
<1> QED
  BY SMTT(30), <1>1, <1>2, <1>3, <1>4, <1>5, <1>6, <1>7, <1>8, <1>9, <1>10, <1>11, <1>12,
      <1>13, <1>14, <1>15, <1>16, <1>17, <1>18, <1>19, <1>20, <1>21, <1>22, <1>23
  DEF Handler, CreateStep, RemoveStep, LockStep, TouchStep

(* The initial state satisfies the invariant. *)
LEMMA InitInv == Init => IInv
<1> SUFFICES ASSUME Init PROVE IInv
  OBVIOUS
<1>1. TypeOK
  BY MaxReqAssumption DEF Init, TypeOK, Ref, Labels, Replies, Commands
<1>2. \A r \in Req : ~ HoldsOp(r) /\ ~ InCriticalSection(r)
  BY DEF Init, HoldsOp, InCriticalSection
<1>3. Counted
  <2>1. \A o \in Req : Users(o) = {}
    BY <1>2 DEF Users
  <2> QED
    BY <2>1, FS_EmptySet, Zenon DEF Counted, Init
<1> QED
  BY <1>1, <1>2, <1>3 DEF Init, IInv, Arrivals, RegistryInv, Pointers, Owned, Mutexes

(* A handler step moves one received command, and only its own counter. *)
LEMMA HandlerMoves ==
  ASSUME TypeOK, NEW r \in Req, Handler(r)
  PROVE  /\ pc[r] # "idle"
         /\ pc' = [pc EXCEPT ![r] = pc'[r]]
         /\ UNCHANGED commandVars
<1> pc \in [Req -> Labels]
  BY SMTT(30) DEF TypeOK
<1> USE DEF Goto, Answer
<1>1. CASE CreateStep(r)
  BY <1>1, ZenonT(30) DEF CreateStep, BeginCreate, RegisterCancel, AckAndProbePort, PullImage,
     CreateVolume, CreateContainer, CheckCancelled, StartCreated, ReportCreate,
     SucceedCreate, UnregisterCancel, CreateFails
<1>2. CASE RemoveStep(r)
  BY <1>2, ZenonT(30) DEF RemoveStep, BeginRemove, CancelInFlight, FindForRemove, StopForRemove,
     RemoveContainer, RemoveVolume, RemoveFails, ContainerGone
<1>3. CASE LockStep(r)
  BY <1>3, ZenonT(30) DEF LockStep, LockName, UnlockName, ReleaseOp
<1>4. CASE RejectInvalid(r) \/ TouchStep(r)
  BY <1>4 DEF RejectInvalid, TouchStep, FindForTouch, ActOnContainer
<1> QED
  BY <1>1, <1>2, <1>3, <1>4 DEF Handler

(* Every step preserves the invariant. *)
LEMMA NextInv == IInv /\ [Next]_vars => IInv'
<1> SUFFICES ASSUME IInv, [Next]_vars PROVE IInv'
  OBVIOUS
<1>1. ASSUME NEW k \in Command, Receive(k)
      PROVE  IInv'
  <2>1. PICK r \in Req : r = received + 1 /\ pc[r] = "idle"
    BY <1>1, MaxReqAssumption DEF Receive, Req, IInv, TypeOK, Arrivals
  <2>2. TypeOK'
    BY <1>1, <2>1, CommandAssumption
    DEF Receive, IInv, TypeOK, registryVars, dockerVars, Labels, Req
  <2>3. Arrivals'
    BY <1>1, <2>1, MaxReqAssumption DEF Receive, IInv, TypeOK, Arrivals, Req
  <2>4. Quiet(r)
    <3>1. pc'[r] = "recv" /\ \A s \in Req \ {r} : pc'[s] = pc[s]
      BY <1>1, <2>1 DEF Receive, IInv, TypeOK
    <3>2. UNCHANGED <<name, op, dbOps, refs, mu>>
      BY <1>1 DEF Receive, registryVars
    <3>3. ~ HoldsOp(r) /\ ~ InCriticalSection(r)
      BY <2>1 DEF HoldsOp, InCriticalSection
    <3>4. ~ HoldsOp(r)' /\ ~ InCriticalSection(r)'
      BY <1>1, <3>1 DEF Receive, HoldsOp, InCriticalSection
    <3> QED
      BY <2>1, <3>1, <3>2, <3>3, <3>4 DEF Quiet
  <2> QED
    BY <2>1, <2>2, <2>3, <2>4, QuietStep DEF IInv
<1>2. ASSUME NEW r \in Req, Handler(r)
      PROVE  IInv'
  <2>1. TypeOK'
    BY <1>2, HandlerType
  <2>2. Arrivals'
    BY <1>2, HandlerMoves DEF IInv, TypeOK, Arrivals, commandVars
  <2>3. RegistryInv'
    <3>1. CASE CreateWork(r) \/ RemoveWork(r) \/ RejectInvalid(r) \/ TouchStep(r)
      BY <3>1, WorkIsQuiet, QuietStep DEF IInv
    <3>2. CASE BeginCreate(r) \/ BeginRemove(r)
      BY <3>2, BeginStep
    <3>3. CASE LockName(r)
      BY <3>3, LockStepInv
    <3>4. CASE UnlockName(r)
      BY <3>4, UnlockStepInv, SMTT(30)
    <3>5. CASE ReleaseOp(r)
      BY <3>5, ReleaseStepInv
    <3> QED
      BY <1>2, <3>1, <3>2, <3>3, <3>4, <3>5
      DEF Handler, CreateStep, RemoveStep, LockStep, CreateWork, RemoveWork
  <2> QED
    BY <2>1, <2>2, <2>3 DEF IInv
<1>3. CASE UNCHANGED vars
  BY <1>3, SMTT(60) DEF vars, commandVars, registryVars, dockerVars, IInv, TypeOK, Arrivals,
     RegistryInv, Pointers, Owned, Counted, Mutexes, Users, HoldsOp, InCriticalSection
<1> QED
  BY <1>1, <1>2, <1>3 DEF Next, Finished

(* The registry invariant holds in every reachable state. *)
THEOREM Invariant == Spec => []IInv
  BY InitInv, NextInv, PTL DEF Spec

(* TypeOK, for every number of commands. *)
THEOREM TypeCorrect == Spec => []TypeOK
<1>1. IInv => TypeOK
  BY DEF IInv
<1> QED
  BY <1>1, Invariant, PTL

(* Two handlers in their critical sections use the op the map holds for     *)
(* their name, and its mutex has one holder.                                *)
LEMMA ExclusionInv == IInv => NameExclusion
<1> SUFFICES ASSUME IInv, NEW r \in Req, NEW s \in Req, name[r] = name[s],
                    InCriticalSection(r), InCriticalSection(s)
             PROVE  r = s
  BY DEF NameExclusion
<1>1. op[r] = op[s]
  BY DEF IInv, RegistryInv, Pointers, HoldsOp
<1> QED
  BY <1>1 DEF IInv, RegistryInv, Mutexes

(* Creates and removes of one database name never overlap                   *)
(* (db_inflight.go).                                                        *)
THEOREM Exclusion == Spec => []NameExclusion
  BY ExclusionInv, Invariant, PTL

(* The registry has an entry for a name exactly while a create or remove of *)
(* it is under way: none leaks, none is deleted under a user.               *)
THEOREM RegistryExact == Spec => []RegistryTracksUsers
<1>1. IInv => RegistryTracksUsers
  BY ReqFacts DEF IInv, RegistryInv, Pointers, Owned, RegistryTracksUsers
<1> QED
  BY <1>1, Invariant, PTL
=============================================================================

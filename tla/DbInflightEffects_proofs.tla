---------------------- MODULE DbInflightEffects_proofs ----------------------
(***************************************************************************)
(* What a remove leaves behind, and what op.cancel cancels, proved for     *)
(* every set of names and every number of commands.  On top of the         *)
(* registry invariant of DbInflight_proofs: which command is at which      *)
(* label, that a lock holder is the last to have taken its name's lock,    *)
(* and that success is only said at the end.                               *)
(***************************************************************************)
EXTENDS DbInflight_proofs

CreateLabels == {"register", "probe", "pull", "volume", "container", "checkctx",
                 "start", "report", "succeed", "unregister"}
RemoveLabels == {"cancel", "find", "stop", "destroy", "purge"}

Kinds ==
  \A r \in Req : /\ pc[r] \in CreateLabels => kind[r] \in Creates
                 /\ pc[r] \in RemoveLabels => kind[r] \in Removes
                 /\ pc[r] = "lock" => kind[r] \in Creates \cup Removes
                 /\ pc[r] = "act" => kind[r] \in Touches

HolderIsLast ==
  /\ \A r \in Req : InCriticalSection(r) => last[name[r]] = r
  /\ \A n \in Name : last[n] # NoReq => name[last[n]] = n

SuccessAtEnd ==
  \A r \in Req : reply[r] = "success" =>
                   pc[r] \in {"unregister", "unlock", "release", "done"}

PurgeFoundNone == \A r \in Req : pc[r] = "purge" => container[name[r]] = NoReq

EffectInv ==
  Kinds /\ HolderIsLast /\ SuccessAtEnd /\ PurgeFoundNone /\ RemoveLeavesNothing

CancelInv ==
  \A o \in Req : cancel[o] # NoReq =>
    /\ op[cancel[o]] = o
    /\ pc[cancel[o]] \in CreateLabels \ {"register"}

FullInv == IInv /\ EffectInv /\ CancelInv

(* Every handler step keeps the effects invariant: only the holder of a     *)
(* name's lock touches its container and its volume.                        *)
LEMMA HandlerEffects ==
  ASSUME FullInv, NEW r \in Req, Handler(r)
  PROVE  EffectInv'
<1> EffectInv /\ NoReq \notin Req
  BY ReqFacts DEF FullInv
<1> /\ kind \in [Req -> Commands \cup {"none"}] /\ name \in [Req -> Name]
    /\ pc \in [Req -> Labels] /\ reply \in [Req -> Replies]
    /\ container \in [Name -> Ref] /\ last \in [Name -> Ref]
    /\ volume \in [Name -> BOOLEAN]
  BY DEF FullInv, IInv, TypeOK
<1> NameExclusion
  BY ExclusionInv DEF FullInv
<1> USE DEF EffectInv, Kinds, HolderIsLast, SuccessAtEnd, PurgeFoundNone,
        RemoveLeavesNothing, Ref, Goto, Answer, commandVars, dockerVars,
        CreateLabels, RemoveLabels, InCriticalSection, Creates, Removes
<1>1. CASE RejectInvalid(r)
  BY <1>1 DEF RejectInvalid
<1>2. CASE RegisterCancel(r)
  BY <1>2 DEF RegisterCancel
<1>3. CASE AckAndProbePort(r)
  BY <1>3 DEF AckAndProbePort, CreateFails
<1>4. CASE PullImage(r)
  BY <1>4 DEF PullImage, CreateFails
<1>5. CASE CreateVolume(r)
  BY <1>5 DEF CreateVolume, CreateFails
<1>6. CASE CreateContainer(r)
  <2>1. Kinds'
    BY <1>6 DEF CreateContainer, CreateFails, DaemonCreates
  <2>2. HolderIsLast'
    BY <1>6 DEF CreateContainer, CreateFails, DaemonCreates
  <2>3. SuccessAtEnd'
    BY <1>6 DEF CreateContainer, CreateFails, DaemonCreates
  <2>4. PurgeFoundNone'
    BY <1>6 DEF CreateContainer, CreateFails, DaemonCreates, NameExclusion
  <2>5. RemoveLeavesNothing'
    BY <1>6 DEF CreateContainer, CreateFails, DaemonCreates, NameExclusion
  <2> QED
    BY <2>1, <2>2, <2>3, <2>4, <2>5
<1>7. CASE CheckCancelled(r)
  <2>1. Kinds'
    BY <1>7 DEF CheckCancelled, CreateFails, CleanupOnError, DaemonRemoves
  <2>2. HolderIsLast'
    BY <1>7 DEF CheckCancelled, CreateFails, CleanupOnError, DaemonRemoves
  <2>3. SuccessAtEnd'
    BY <1>7 DEF CheckCancelled, CreateFails, CleanupOnError, DaemonRemoves
  <2>4. PurgeFoundNone'
    BY <1>7 DEF CheckCancelled, CreateFails, CleanupOnError, DaemonRemoves
  <2>5. RemoveLeavesNothing'
    BY <1>7 DEF CheckCancelled, CreateFails, CleanupOnError, DaemonRemoves
  <2> QED
    BY <2>1, <2>2, <2>3, <2>4, <2>5
<1>8. CASE StartCreated(r)
  <2>1. Kinds'
    BY <1>8 DEF StartCreated, CreateFails, CleanupOnError, DaemonRemoves
  <2>2. HolderIsLast'
    BY <1>8 DEF StartCreated, CreateFails, CleanupOnError, DaemonRemoves
  <2>3. SuccessAtEnd'
    BY <1>8 DEF StartCreated, CreateFails, CleanupOnError, DaemonRemoves
  <2>4. PurgeFoundNone'
    BY <1>8 DEF StartCreated, CreateFails, CleanupOnError, DaemonRemoves
  <2>5. RemoveLeavesNothing'
    BY <1>8 DEF StartCreated, CreateFails, CleanupOnError, DaemonRemoves
  <2> QED
    BY <2>1, <2>2, <2>3, <2>4, <2>5
<1>9. CASE ReportCreate(r)
  BY <1>9 DEF ReportCreate
<1>10. CASE SucceedCreate(r)
  BY <1>10 DEF SucceedCreate
<1>11. CASE UnregisterCancel(r)
  BY <1>11 DEF UnregisterCancel
<1>12. CASE BeginCreate(r)
  BY <1>12 DEF BeginCreate
<1>13. CASE BeginRemove(r)
  BY <1>13 DEF BeginRemove
<1>14. CASE CancelInFlight(r)
  BY <1>14 DEF CancelInFlight
<1>15. CASE FindForRemove(r)
  <2>1. Kinds'
    BY <1>15 DEF FindForRemove, RemoveFails, ContainerGone
  <2>2. HolderIsLast'
    BY <1>15 DEF FindForRemove, RemoveFails, ContainerGone
  <2>3. SuccessAtEnd'
    BY <1>15 DEF FindForRemove, RemoveFails, ContainerGone
  <2>4. PurgeFoundNone'
    BY <1>15 DEF FindForRemove, RemoveFails, ContainerGone
  <2>5. RemoveLeavesNothing'
    BY <1>15 DEF FindForRemove, RemoveFails, ContainerGone
  <2> QED
    BY <2>1, <2>2, <2>3, <2>4, <2>5
<1>16. CASE StopForRemove(r)
  BY <1>16 DEF StopForRemove
<1>17. CASE RemoveContainer(r)
  <2>1. Kinds'
    BY <1>17 DEF RemoveContainer, RemoveFails, ContainerGone, DaemonRemoves
  <2>2. HolderIsLast'
    BY <1>17 DEF RemoveContainer, RemoveFails, ContainerGone, DaemonRemoves
  <2>3. SuccessAtEnd'
    BY <1>17 DEF RemoveContainer, RemoveFails, ContainerGone, DaemonRemoves
  <2>4. PurgeFoundNone'
    BY <1>17 DEF RemoveContainer, RemoveFails, ContainerGone, DaemonRemoves
  <2>5. RemoveLeavesNothing'
    BY <1>17 DEF RemoveContainer, RemoveFails, ContainerGone, DaemonRemoves
  <2> QED
    BY <2>1, <2>2, <2>3, <2>4, <2>5
<1>18. CASE RemoveVolume(r)
  <2>1. Kinds'
    BY <1>18 DEF RemoveVolume, RemoveFails
  <2>2. HolderIsLast'
    BY <1>18 DEF RemoveVolume, RemoveFails
  <2>3. SuccessAtEnd'
    BY <1>18 DEF RemoveVolume, RemoveFails
  <2>4. PurgeFoundNone'
    BY <1>18 DEF RemoveVolume, RemoveFails
  <2>5. RemoveLeavesNothing'
    BY <1>18 DEF RemoveVolume, RemoveFails
  <2> QED
    BY <2>1, <2>2, <2>3, <2>4, <2>5
<1>19. CASE LockName(r)
  <2>1. Kinds'
    BY <1>19 DEF LockName
  <2>2. HolderIsLast'
    <3>1. \A s \in Req : InCriticalSection(s) => name[s] # name[r]
      BY <1>19 DEF LockName, FullInv, IInv, RegistryInv, Pointers, Mutexes, HoldsOp
    <3> QED
      BY <1>19, <3>1 DEF LockName
  <2>3. SuccessAtEnd'
    BY <1>19 DEF LockName
  <2>4. PurgeFoundNone'
    BY <1>19 DEF LockName
  <2>5. RemoveLeavesNothing'
    BY <1>19 DEF LockName
  <2> QED
    BY <2>1, <2>2, <2>3, <2>4, <2>5
<1>20. CASE UnlockName(r)
  BY <1>20 DEF UnlockName
<1>21. CASE ReleaseOp(r)
  BY <1>21 DEF ReleaseOp
<1>22. CASE FindForTouch(r)
  BY <1>22 DEF FindForTouch, Touches
<1>23. CASE ActOnContainer(r)
  <2>1. Kinds'
    BY <1>23 DEF ActOnContainer, Touches
  <2>2. HolderIsLast'
    BY <1>23 DEF ActOnContainer, Touches
  <2>3. SuccessAtEnd'
    BY <1>23 DEF ActOnContainer, Touches
  <2>4. PurgeFoundNone'
    BY <1>23 DEF ActOnContainer, Touches
  <2>5. RemoveLeavesNothing'
    BY <1>23, SMTT(30) DEF ActOnContainer, Touches
  <2> QED
    BY <2>1, <2>2, <2>3, <2>4, <2>5
<1> HIDE DEF EffectInv, Goto, Answer, InCriticalSection
<1> QED
  BY SMTT(30), <1>1, <1>2, <1>3, <1>4, <1>5, <1>6, <1>7, <1>8, <1>9, <1>10, <1>11, <1>12,
      <1>13, <1>14, <1>15, <1>16, <1>17, <1>18, <1>19, <1>20, <1>21, <1>22, <1>23
  DEF Handler, CreateStep, RemoveStep, LockStep, TouchStep

(* Every handler step keeps op.cancel with a create that is between setting *)
(* it and clearing it, and that uses the op it is set in.                   *)
LEMMA HandlerCancels ==
  ASSUME FullInv, NEW r \in Req, Handler(r)
  PROVE  CancelInv'
<1> CancelInv /\ NoReq \notin Req
  BY ReqFacts DEF FullInv
<1> pc \in [Req -> Labels] /\ op \in [Req -> Ref] /\ cancel \in [Req -> Ref]
  BY DEF FullInv, IInv, TypeOK
<1> USE DEF CancelInv, CreateLabels, Ref, Goto, Answer
<1>1. CASE RegisterCancel(r)
  <2>1. op[r] \in Req
    BY <1>1 DEF RegisterCancel, FullInv, IInv, RegistryInv, Pointers, HoldsOp,
       InCriticalSection
  <2> QED
    BY <1>1, <2>1 DEF RegisterCancel
<1>2. CASE UnregisterCancel(r)
  BY <1>2 DEF UnregisterCancel
<1>3. CASE BeginCreate(r)
  BY <1>3 DEF BeginCreate, dbOpFor
<1>4. CASE BeginRemove(r)
  BY <1>4 DEF BeginRemove, dbOpFor
<1>5. CASE LockStep(r)
  <2>1. CASE LockName(r) \/ UnlockName(r)
    BY <2>1 DEF LockName, UnlockName
  <2>2. CASE ReleaseOp(r)
    BY <2>2 DEF ReleaseOp
  <2> QED
    BY <1>5, <2>1, <2>2 DEF LockStep
<1>6. ASSUME UNCHANGED <<op, cancel>>,
             pc[r] \in CreateLabels \ {"register"} => pc'[r] \in CreateLabels \ {"register"}
      PROVE  CancelInv'
  <2>1. pc' = [pc EXCEPT ![r] = pc'[r]]
    BY HandlerMoves DEF FullInv, IInv
  <2> QED
    BY <1>6, <2>1
<1>7. CASE AckAndProbePort(r) \/ PullImage(r)
  BY <1>6, <1>7 DEF AckAndProbePort, PullImage, CreateFails
<1>8. CASE CreateVolume(r) \/ CreateContainer(r)
  BY <1>6, <1>8 DEF CreateVolume, CreateContainer, CreateFails
<1>9. CASE CheckCancelled(r) \/ StartCreated(r)
  BY <1>6, <1>9 DEF CheckCancelled, StartCreated, CreateFails
<1>10. CASE ReportCreate(r) \/ SucceedCreate(r)
  BY <1>6, <1>10 DEF ReportCreate, SucceedCreate
<1>11. CASE CancelInFlight(r) \/ FindForRemove(r) \/ StopForRemove(r)
  BY <1>6, <1>11, SMTT(30) DEF CancelInFlight, FindForRemove, StopForRemove, RemoveFails,
     ContainerGone
<1>12. CASE RemoveContainer(r) \/ RemoveVolume(r)
  <2>1. CASE RemoveContainer(r)
    BY <1>6, <2>1, SMTT(30) DEF RemoveContainer, RemoveFails, ContainerGone
  <2>2. CASE RemoveVolume(r)
    BY <1>6, <2>2, SMTT(30) DEF RemoveVolume, RemoveFails
  <2> QED
    BY <1>12, <2>1, <2>2
<1>13. CASE RejectInvalid(r) \/ TouchStep(r)
  BY <1>6, <1>13, SMTT(30) DEF RejectInvalid, TouchStep, FindForTouch, ActOnContainer
<1> HIDE DEF CancelInv, Goto, Answer
<1> QED
  BY <1>1, <1>2, <1>3, <1>4, <1>5, <1>7, <1>8, <1>9, <1>10, <1>11, <1>12, <1>13
  DEF Handler, CreateStep, RemoveStep

(* Both parts hold in every reachable state. *)
LEMMA FullInvariant == Spec => []FullInv
<1>1. Init => FullInv
  BY InitInv, ReqFacts DEF Init, FullInv, EffectInv, CancelInv, Kinds, HolderIsLast,
     SuccessAtEnd, PurgeFoundNone, RemoveLeavesNothing, CreateLabels, RemoveLabels,
     InCriticalSection
<1>2. ASSUME FullInv, [Next]_vars PROVE FullInv'
  <2>1. IInv'
    BY <1>2, NextInv DEF FullInv
  <2>2. ASSUME NEW k \in Command, Receive(k)
        PROVE  EffectInv' /\ CancelInv'
    <3>1. PICK r \in Req : r = received + 1 /\ pc[r] = "idle"
      BY <1>2, <2>2, MaxReqAssumption
      DEF Receive, Req, FullInv, IInv, TypeOK, Arrivals
    <3>2. /\ pc' = [pc EXCEPT ![r] = "recv"]
          /\ kind' = [kind EXCEPT ![r] = k]
          /\ UNCHANGED <<name, op, cancel, container, volume, reply, last>>
      BY <2>2, <3>1 DEF Receive, dockerVars
    <3>3. TypeOK /\ EffectInv /\ CancelInv /\ NoReq \notin Req
      BY <1>2, ReqFacts DEF FullInv, IInv
    <3>4. EffectInv'
      BY <3>1, <3>2, <3>3 DEF EffectInv, TypeOK, Kinds, HolderIsLast, SuccessAtEnd,
         PurgeFoundNone, RemoveLeavesNothing, CreateLabels, RemoveLabels,
         InCriticalSection, Ref
    <3>5. CancelInv'
      BY <3>1, <3>2, <3>3 DEF CancelInv, CreateLabels, TypeOK, Ref
    <3> QED
      BY <3>4, <3>5
  <2>3. ASSUME NEW r \in Req, Handler(r)
        PROVE  EffectInv' /\ CancelInv'
    BY <1>2, <2>3, HandlerEffects, HandlerCancels
  <2>4. CASE UNCHANGED vars
    <3>1. UNCHANGED <<name, kind, pc, op, cancel, container, volume, reply, last>>
      BY <2>4 DEF vars, commandVars, dockerVars
    <3>2. EffectInv'
      BY <1>2, <3>1 DEF FullInv, EffectInv, Kinds, HolderIsLast, SuccessAtEnd,
         PurgeFoundNone, RemoveLeavesNothing, InCriticalSection
    <3>3. CancelInv'
      BY <1>2, <3>1 DEF FullInv, CancelInv
    <3> QED
      BY <2>1, <3>2, <3>3 DEF FullInv
  <2> QED
    BY <1>2, <2>1, <2>2, <2>3, <2>4 DEF FullInv, Next, Finished
<1> QED
  BY <1>1, <1>2, PTL DEF Spec

(* A remove or purge that answered success leaves no container, and a purge *)
(* no volume, until another create or remove takes the lock of the name.    *)
THEOREM RemoveComplete == Spec => []RemoveLeavesNothing
<1>1. FullInv => RemoveLeavesNothing
  BY DEF FullInv, EffectInv
<1> QED
  BY <1>1, FullInvariant, PTL

(* op.cancel always cancels the create that holds op.mu, so a remove never  *)
(* cancels a finished create, a waiting one or one of another name.         *)
THEOREM CancelExact == Spec => []CancelBelongsToHolder
<1>1. FullInv => CancelBelongsToHolder
  <2> SUFFICES ASSUME FullInv, NEW o \in Req, cancel[o] # NoReq
               PROVE  mu[o] = cancel[o]
    BY DEF CancelBelongsToHolder
  <2>1. cancel[o] \in Req
    BY DEF FullInv, IInv, TypeOK, Ref
  <2>2. op[cancel[o]] = o /\ InCriticalSection(cancel[o])
    BY DEF FullInv, CancelInv, CreateLabels, InCriticalSection
  <2> QED
    BY <2>1, <2>2 DEF FullInv, IInv, RegistryInv, Mutexes
<1> QED
  BY <1>1, FullInvariant, PTL
=============================================================================

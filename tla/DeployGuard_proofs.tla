------------------------- MODULE DeployGuard_proofs -------------------------
(* Proofs about DeployGuard, for every set of deployments, every map of     *)
(* deployments to stacks and every number of deploy commands.               *)
EXTENDS DeployGuard, TLAPS

(* Commands that have not been received have no goroutine. *)
Fresh == \A r \in Run : r > received => pc[r] = "none"

(* The inductive invariant, without its types. *)
GuardInv == Fresh /\ InFlightHasRun /\ OneInFlightPerStack

(* A report keeps the types, whatever it reports. *)
LEMMA ProgressType ==
  ASSUME TypeOK, NEW d \in Dep, NEW s \in Status, Progress(d, s)
  PROVE  /\ known' \subseteq Dep /\ inFlight' \subseteq known' /\ aged' \subseteq known'
         /\ status' \in [Dep -> Status]
         /\ stackName' \in [Dep -> Stack]
         /\ ctx' \in [Dep -> Run \cup {NoRun}]
<1>1. known' \subseteq Dep /\ inFlight' \subseteq known' /\ aged' \subseteq known'
  BY DEF TypeOK, Progress
<1>2. status' \in [Dep -> Status] /\ stackName' \in [Dep -> Stack]
  BY DEF TypeOK, Progress, Stack
<1>3. ctx' \in [Dep -> Run \cup {NoRun}]
  BY DEF TypeOK, Progress
<1> QED BY <1>1, <1>2, <1>3

(* A step in which r reports s leaves it in flight only when r is live.     *)
LEMMA ReportKeeps ==
  ASSUME TypeOK, GuardInv, NEW r \in Run, NEW s \in Status,
         NEW a \in Busy, NEW b \in Busy \cup Ending, Report(r, s, a, b)
  PROVE  (TypeOK /\ GuardInv)'
<1>1. /\ dep' = dep /\ received' = received /\ phase' = phase
      /\ pc' = [pc EXCEPT ![r] = b] /\ dep[r] \in Dep
  BY DEF Report, Goto, TypeOK
<1>2. Progress(dep[r], s)
  BY DEF Report
<1>3. TypeOK'
  BY <1>1, <1>2, ProgressType DEF TypeOK
<1>4. \A e \in inFlight' : e \in inFlight \/ e = dep[r]
  BY <1>2 DEF Progress
<1>5. InFlightHasRun'
  <2> SUFFICES ASSUME NEW e \in inFlight'
               PROVE  \E q \in Run : dep'[q] = e /\ (Live(q)' \/ pc'[q] = "panicked")
    BY DEF InFlightHasRun
  <2>1. CASE e = dep[r]
    <3>1. Live(r)'
      BY <1>1 DEF Live, TypeOK
    <3> QED BY <2>1, <3>1, <1>1
  <2>2. CASE e # dep[r]
    <3>1. PICK q \in Run : dep[q] = e /\ (Live(q) \/ pc[q] = "panicked")
      BY <1>4, <2>2 DEF GuardInv, InFlightHasRun
    <3>2. q # r /\ pc'[q] = pc[q]
      BY <3>1, <2>2, <1>1 DEF TypeOK
    <3> QED BY <3>1, <3>2, <1>1 DEF Live
  <2> QED BY <2>1, <2>2
<1>6. OneInFlightPerStack'
  <2>1. CASE dep[r] \in known
    BY <2>1, <1>2 DEF Progress, GuardInv, OneInFlightPerStack, TypeOK
  <2>2. CASE dep[r] \notin known
    <3>1. stackName' = [stackName EXCEPT ![dep[r]] = NoStack]
      BY <2>2, <1>2 DEF Progress
    <3> QED BY <3>1, <1>1, <1>4 DEF GuardInv, OneInFlightPerStack, TypeOK
  <2> QED BY <2>1, <2>2
<1>7. Fresh'
  BY <1>1 DEF Fresh, GuardInv, TypeOK, Report, Goto, Busy
<1> QED BY <1>3, <1>5, <1>6, <1>7 DEF GuardInv

(* Deleting entries disturbs nothing about the others.                      *)
LEMMA DeleteKeeps ==
  ASSUME TypeOK, GuardInv, NEW D \in SUBSET Dep, Delete(D)
  PROVE  /\ known' \subseteq Dep /\ inFlight' \subseteq known' /\ aged' \subseteq known'
         /\ status' \in [Dep -> Status]
         /\ stackName' \in [Dep -> Stack]
         /\ ctx' \in [Dep -> Run \cup {NoRun}]
         /\ inFlight' \subseteq inFlight
         /\ OneInFlightPerStack'
<1>1. /\ known' \subseteq Dep /\ inFlight' \subseteq known' /\ aged' \subseteq known'
      /\ inFlight' \subseteq inFlight
  BY DEF TypeOK, Delete
<1>2. status' \in [Dep -> Status] /\ stackName' \in [Dep -> Stack]
  BY DEF TypeOK, Delete, Stack, Status
<1>3. ctx' \in [Dep -> Run \cup {NoRun}]
  BY DEF TypeOK, Delete
<1>4. \A e \in inFlight' : e \in inFlight /\ e \in Dep /\ stackName'[e] = stackName[e]
  BY DEF TypeOK, Delete
<1>5. OneInFlightPerStack'
  BY <1>4 DEF GuardInv, OneInFlightPerStack
<1> QED BY <1>1, <1>2, <1>3, <1>5

(* A step that leaves the map alone and ends no live run. *)
LEMMA MapUntouched ==
  ASSUME TypeOK, GuardInv, UNCHANGED <<received, dep, states>>,
         \A q \in Run : pc[q] = "none" => pc'[q] = "none",
         \A q \in Run : Live(q) => Live(q)' \/ pc'[q] = "panicked",
         \A q \in Run : pc[q] = "panicked" => pc'[q] = "panicked"
  PROVE  GuardInv'
<1>1. OneInFlightPerStack'
  BY DEF GuardInv, OneInFlightPerStack, states
<1>2. InFlightHasRun'
  <2> SUFFICES ASSUME NEW e \in inFlight
               PROVE  \E q \in Run : dep[q] = e /\ (Live(q)' \/ pc'[q] = "panicked")
    BY DEF InFlightHasRun, states
  <2>1. PICK q \in Run : dep[q] = e /\ (Live(q) \/ pc[q] = "panicked")
    BY DEF GuardInv, InFlightHasRun
  <2> QED BY <2>1
<1>3. Fresh'
  BY DEF Fresh, GuardInv
<1> QED BY <1>1, <1>2, <1>3 DEF GuardInv

(* Every step keeps the types and the guard. *)
LEMMA GuardStep == TypeOK /\ GuardInv /\ [Next]_vars => (TypeOK /\ GuardInv)'
<1> SUFFICES ASSUME TypeOK, GuardInv, [Next]_vars PROVE (TypeOK /\ GuardInv)'
  OBVIOUS
<1>1. CASE Receive
  <2>1. /\ received + 1 \in Run /\ pc[received + 1] = "none"
        /\ received' = received + 1 /\ UNCHANGED <<dep, states, phase>>
        /\ pc' = [pc EXCEPT ![received + 1] = "check"]
    BY <1>1, MaxRunAssumption DEF Receive, TypeOK, Run, GuardInv, Fresh
  <2>2. TypeOK'
    BY <2>1, MaxRunAssumption DEF TypeOK, states, Run
  <2>3. Fresh'
    BY <2>1, MaxRunAssumption DEF TypeOK, GuardInv, Fresh, Run
  <2>4. OneInFlightPerStack'
    BY <2>1 DEF GuardInv, OneInFlightPerStack, states
  <2>5. ASSUME NEW q \in Run, Live(q) \/ pc[q] = "panicked" PROVE pc'[q] = pc[q]
    BY <2>1, <2>5 DEF TypeOK, Live, Busy, Ending
  <2>6. InFlightHasRun'
    BY <2>1, <2>5 DEF GuardInv, InFlightHasRun, states, Live
  <2> QED BY <2>2, <2>3, <2>4, <2>6 DEF GuardInv
<1>2. ASSUME NEW r \in Run, RunStep(r) PROVE (TypeOK /\ GuardInv)'
  <2>1. CASE RejectUnparsed(r) \/ Refuse(r) \/ FailEarly(r) \/ Panic(r)
    <3>1. /\ UNCHANGED <<received, dep, states, phase>>
          /\ \E b \in {"refused", "end_failed", "panicked"} :
                pc' = [pc EXCEPT ![r] = b] /\ (b = "refused" => pc[r] = "check")
          /\ pc[r] \in Busy \cup {"check"}
      BY <2>1 DEF RejectUnparsed, Refuse, FailEarly, Panic, Goto, states, Busy
    <3>2. TypeOK'
      BY <3>1 DEF TypeOK, states, Ending
    <3>3. GuardInv'
      <4>1. \A q \in Run : pc[q] = "none" => pc'[q] = "none"
        BY <3>1 DEF TypeOK, Busy
      <4>2. \A q \in Run : pc[q] = "panicked" => pc'[q] = "panicked"
        BY <3>1 DEF TypeOK, Busy
      <4>3. \A q \in Run : Live(q) => Live(q)' \/ pc'[q] = "panicked"
        BY <3>1 DEF TypeOK, Live, Busy, Ending
      <4> QED BY <3>1, <4>1, <4>2, <4>3, MapUntouched
    <3> QED BY <3>2, <3>3
  <2>2. CASE Admit(r)
    <3>1. /\ dep[r] \in Dep /\ pc[r] = "check" /\ pc' = [pc EXCEPT ![r] = "start"]
          /\ UNCHANGED <<received, dep, phase>>
          /\ inFlight' = inFlight \cup {dep[r]}
          /\ stackName' = [stackName EXCEPT ![dep[r]] = StackOf[dep[r]]]
          /\ ~stackConflict(dep[r])
      BY <2>2 DEF Admit, Goto, TypeOK
    <3>2. TypeOK'
      <4>1. stackName' \in [Dep -> Stack]
        BY <3>1 DEF TypeOK, Stack
      <4>2. /\ known' \subseteq Dep /\ inFlight' \subseteq known' /\ aged' \subseteq known'
            /\ status' \in [Dep -> Status] /\ ctx' \in [Dep -> Run \cup {NoRun}]
        BY <2>2, <3>1 DEF Admit, TypeOK, Status
      <4> QED BY <3>1, <4>1, <4>2 DEF TypeOK, Busy
    <3>3. Fresh'
      BY <3>1 DEF TypeOK, GuardInv, Fresh
    <3>4. InFlightHasRun'
      <4>1. Live(r)'
        BY <3>1 DEF TypeOK, Live, Busy
      <4>2. ASSUME NEW q \in Run, Live(q) \/ pc[q] = "panicked" PROVE pc'[q] = pc[q]
        BY <3>1, <4>2 DEF TypeOK, Live, Busy, Ending
      <4> QED BY <3>1, <4>1, <4>2 DEF GuardInv, InFlightHasRun, Live
    <3>5. OneInFlightPerStack'
      BY <3>1 DEF GuardInv, OneInFlightPerStack, stackConflict, TypeOK
    <3> QED BY <3>2, <3>3, <3>4, <3>5 DEF GuardInv
  <2>3. ASSUME NEW s \in Status, NEW a \in Busy, NEW b \in Busy \cup Ending,
               Report(r, s, a, b)
        PROVE  (TypeOK /\ GuardInv)'
    BY <2>3, ReportKeeps
  <2>4. CASE Begin(r) \/ Deploying(r) \/ BeginRollback(r) \/ RollingBack(r)
             \/ StrategyFails(r)
    BY <2>4, <2>3 DEF Begin, Deploying, BeginRollback, RollingBack, StrategyFails,
                      Status, Terminal, Busy, Ending
  <2>5. CASE StrategySucceeds(r) \/ Verifying(r) \/ VerifyFails(r) \/ VerifySucceeds(r)
    BY <2>5, <2>3 DEF StrategySucceeds, Verifying, VerifyFails, VerifySucceeds,
                      Status, Terminal, Busy, Ending
  <2>6. CASE EndRun(r)
    <3>1. /\ dep[r] \in Dep /\ pc[r] \in Ending /\ pc' = [pc EXCEPT ![r] = "ended"]
          /\ UNCHANGED <<received, dep, phase, known, stackName, ctx>>
          /\ inFlight' = inFlight \ {dep[r]} /\ aged' = aged \ {dep[r]}
      BY <2>6 DEF EndRun, Goto, TypeOK, Ending
    <3>2. status' \in [Dep -> Status]
      BY <2>6, <3>1 DEF EndRun, TypeOK, Status, Terminal
    <3>3. TypeOK'
      BY <3>1, <3>2 DEF TypeOK
    <3>4. Fresh'
      BY <3>1 DEF TypeOK, GuardInv, Fresh, Ending
    <3>5. ASSUME NEW q \in Run, q # r PROVE pc'[q] = pc[q]
      BY <3>1, <3>5 DEF TypeOK
    <3>6. InFlightHasRun'
      BY <3>1, <3>5 DEF GuardInv, InFlightHasRun, Live
    <3>7. OneInFlightPerStack'
      BY <3>1 DEF GuardInv, OneInFlightPerStack
    <3> QED BY <3>3, <3>4, <3>6, <3>7 DEF GuardInv
  <2> QED BY <1>2, <2>1, <2>2, <2>4, <2>5, <2>6 DEF RunStep, Advance
<1>3. ASSUME NEW d \in Dep, Age(d) PROVE (TypeOK /\ GuardInv)'
  <2>1. TypeOK'
    BY <1>3 DEF Age, TypeOK
  <2>2. GuardInv'
    BY <1>3 DEF Age, GuardInv, Fresh, InFlightHasRun, OneInFlightPerStack, Live
  <2> QED BY <2>1, <2>2
<1>4. CASE Collect
  <2>1. Delete(Collectable) /\ Collectable \in SUBSET Dep
        /\ UNCHANGED <<received, dep, pc, phase>>
    BY <1>4 DEF Collect, Collectable, TypeOK
  <2> HIDE DEF Collectable
  <2>2. TypeOK' /\ OneInFlightPerStack' /\ inFlight' \subseteq inFlight
    BY <2>1, DeleteKeeps DEF TypeOK
  <2>3. Fresh' /\ InFlightHasRun'
    BY <2>1, <2>2 DEF GuardInv, Fresh, InFlightHasRun, Live
  <2> QED BY <2>2, <2>3 DEF GuardInv
<1>5. CASE Signal \/ WaitOver \/ WaitExpires
  <2>1. UNCHANGED <<received, dep, pc, states>> /\ phase' \in {"waiting", "leaving"}
    BY <1>5 DEF Signal, WaitOver, WaitExpires
  <2>2. TypeOK'
    BY <2>1 DEF TypeOK, states
  <2>3. GuardInv'
    BY <2>1, MapUntouched DEF Live
  <2> QED BY <2>2, <2>3
<1>6. CASE Restart
  <2>1. Delete(Dep) /\ UNCHANGED <<received, dep>> /\ phase' = "up"
        /\ pc' = [r \in Run |-> IF pc[r] = "check" \/ Live(r) THEN "killed" ELSE pc[r]]
    BY <1>6 DEF Restart
  <2>2. TypeOK' /\ OneInFlightPerStack'
    BY <2>1, DeleteKeeps DEF TypeOK
  <2>3. inFlight' = {}
    BY <2>1 DEF Delete, TypeOK
  <2>4. Fresh'
    BY <2>1 DEF GuardInv, Fresh, Live, Busy, Ending, TypeOK
  <2> QED BY <2>2, <2>3, <2>4 DEF GuardInv, InFlightHasRun
<1>7. CASE UNCHANGED vars
  <2>1. UNCHANGED <<received, dep, pc, states>> /\ phase' = phase
    BY <1>7 DEF vars
  <2> QED BY <2>1, MapUntouched DEF TypeOK, states, Live
<1> QED BY <1>1, <1>2, <1>3, <1>4, <1>5, <1>6, <1>7 DEF Next

(* The inductive invariant holds of every behaviour. *)
LEMMA GuardInvariant == Spec => [](TypeOK /\ GuardInv)
<1>1. Init => TypeOK /\ GuardInv
  BY MaxRunAssumption DEF Init, TypeOK, GuardInv, Fresh, InFlightHasRun,
     OneInFlightPerStack, Stack, Status, Run
<1> QED BY <1>1, GuardStep, PTL DEF Spec

(* The state of the guard keeps its types; an entry in flight or aged is    *)
(* always an entry of the map (main.go 212-227, 295-337, 413-497).          *)
THEOREM GuardTypeCorrect == Spec => []TypeOK
BY GuardInvariant, PTL

(* No interleaving of runs, reports, collection and restarts leaves         *)
(* InProgress set with no run to lower it, except a panic.                  *)
THEOREM NoFlagLeftBehind == Spec => []InFlightHasRun
BY GuardInvariant, PTL DEF GuardInv

(* Two deployments of one stack are never both in flight.                   *)
THEOREM StackGuarded == Spec => []OneInFlightPerStack
BY GuardInvariant, PTL DEF GuardInv
=============================================================================

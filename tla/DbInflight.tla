----------------------------- MODULE DbInflight -----------------------------
(***************************************************************************)
(* The managed-database commands of the runner: db_create, db_remove,      *)
(* db_start, db_stop and db_restart, each run by a handler goroutine of    *)
(* its own (src/main.go), the per-name registry that serialises creates    *)
(* and removes and lets a remove cancel a create (src/db_inflight.go), and *)
(* the Docker calls of CreateDatabaseContainer (src/docker/database.go).   *)
(*                                                                         *)
(* A request is a command in the order the read loop received it.  A       *)
(* dbNameOp object is named by the request whose dbOpFor allocated it, and *)
(* a container by the request that created it: a Docker id, never reused.  *)
(***************************************************************************)
EXTENDS Naturals, FiniteSets

CONSTANTS Name,     \* database container names
          Command,  \* the kinds of command received
          MaxReq    \* bound: commands received

Req == 1..MaxReq

NoReq == 0          \* nil pointer, free mutex, no container
Ref == Req \cup {NoReq}

Creates == {"create", "adopt"}       \* adopt: adopt_existing_volume is set
Removes == {"remove", "purge"}       \* purge: remove_volume is set
Touches == {"start", "stop", "restart"}
Commands == Creates \cup Removes \cup Touches

ASSUME CommandAssumption == Command \subseteq Commands
ASSUME MaxReqAssumption == MaxReq \in Nat

VARIABLES
  received,   \* number of commands the read loop has dispatched
  kind,       \* kind[r]: the command, "none" before it is received
  name,       \* name[r]: the container name in its payload
  pc,         \* pc[r]: the next step of its handler
  op,         \* op[r]: the dbNameOp pointer the handler holds
  dbOps,      \* the registry: name -> dbNameOp
  refs,       \* refs[o]: op.refs
  mu,         \* mu[o]: the request holding op.mu
  cancel,     \* cancel[o]: the create whose context op.cancel cancels
  cancelled,  \* cancelled[r]: createCtx of r is cancelled
  container,  \* container[n]: the Docker container holding name n
  cstate,     \* cstate[c]: state of container c
  volume,     \* volume[n]: the data volume of n exists
  id,         \* id[r]: the container id a lookup returned to the handler
  hit,        \* hit[r]: the create this remove cancelled (cancelledCreate)
  reply,      \* reply[r]: the last db_status the handler sent
  last        \* history. last[n]: the last request to take n's mutex

registryVars == <<dbOps, refs>>
dockerVars == <<container, cstate, volume>>
commandVars == <<received, kind, name>>
vars == <<commandVars, pc, op, registryVars, mu, cancel, cancelled,
          dockerVars, id, hit, reply, last>>

Labels == {"idle", "recv", "cancel", "lock", "register", "probe", "pull",
           "volume", "container", "checkctx", "start", "report",
           "succeed", "unregister", "find", "stop", "destroy", "purge", "act",
           "unlock", "release", "done"}

Replies == {"none", "accepted", "success", "failed", "error"}

TypeOK ==
  /\ received \in 0..MaxReq
  /\ kind \in [Req -> Commands \cup {"none"}]
  /\ name \in [Req -> Name]
  /\ pc \in [Req -> Labels]
  /\ op \in [Req -> Ref]
  /\ dbOps \in [Name -> Ref]
  /\ refs \in [Req -> Nat]
  /\ mu \in [Req -> Ref]
  /\ cancel \in [Req -> Ref]
  /\ cancelled \in [Req -> BOOLEAN]
  /\ container \in [Name -> Ref]
  /\ cstate \in [Req -> {"none", "created", "running", "exited"}]
  /\ volume \in [Name -> BOOLEAN]
  /\ id \in [Req -> Ref]
  /\ hit \in [Req -> Ref]
  /\ reply \in [Req -> Replies]
  /\ last \in [Name -> Ref]

Init ==
  /\ received = 0
  /\ kind = [r \in Req |-> "none"]
  /\ name \in [Req -> Name]
  /\ pc = [r \in Req |-> "idle"]
  /\ op = [r \in Req |-> NoReq]
  /\ dbOps = [n \in Name |-> NoReq]
  /\ refs = [o \in Req |-> 0]
  /\ mu = [o \in Req |-> NoReq]
  /\ cancel = [o \in Req |-> NoReq]
  /\ cancelled = [r \in Req |-> FALSE]
  /\ container = [n \in Name |-> NoReq]
  /\ cstate = [r \in Req |-> "none"]
  /\ volume = [n \in Name |-> FALSE]
  /\ id = [r \in Req |-> NoReq]
  /\ hit = [r \in Req |-> NoReq]
  /\ reply = [r \in Req |-> "none"]
  /\ last = [n \in Name |-> NoReq]

-----------------------------------------------------------------------------
(* Step r moves from label a to label b. *)
Goto(r, a, b) ==
  /\ pc[r] = a
  /\ pc' = [pc EXCEPT ![r] = b]

(* The handler answers s and goes on to label b. *)
Answer(r, a, b, s) ==
  /\ Goto(r, a, b)
  /\ reply' = [reply EXCEPT ![r] = s]

(* The read loop receives a command and starts its handler goroutine. *)
Receive(k) ==
  LET r == received + 1 IN
  /\ received < MaxReq
  /\ received' = r
  /\ kind' = [kind EXCEPT ![r] = k]
  /\ pc' = [pc EXCEPT ![r] = "recv"]
  /\ UNCHANGED <<name, op, registryVars, mu, cancel, cancelled, dockerVars,
                 id, hit, reply, last>>

(* A name (or, for a purge, a volume name) that is missing or invalid. *)
RejectInvalid(r) ==
  /\ \/ Answer(r, "recv", "done", "error")
     \/ kind[r] = "purge" /\ Answer(r, "recv", "done", "failed")
  /\ UNCHANGED <<commandVars, op, registryVars, mu, cancel, cancelled,
                 dockerVars, id, hit, last>>

-----------------------------------------------------------------------------
(* The registry of names, src/db_inflight.go. *)

dbOpFor(r) ==
  LET n == name[r]
      o == IF dbOps[n] = NoReq THEN r ELSE dbOps[n]
  IN  /\ dbOps' = [dbOps EXCEPT ![n] = o]
      /\ refs' = [refs EXCEPT ![o] = @ + 1]
      /\ op' = [op EXCEPT ![r] = o]

(* Mutant of releaseDbOp: finish is called twice, once deferred. *)
releaseDbOpTwice(r) ==
  /\ refs' = [refs EXCEPT ![op[r]] = @ - 2]
  /\ dbOps' = IF refs[op[r]] = 1
              THEN [dbOps EXCEPT ![name[r]] = NoReq]
              ELSE dbOps

(* Mutant of releaseDbOp: the entry is never deleted. *)
releaseDbOpLeaky(r) ==
  /\ refs' = [refs EXCEPT ![op[r]] = @ - 1]
  /\ UNCHANGED dbOps

releaseDbOp(r) ==
  /\ refs' = [refs EXCEPT ![op[r]] = @ - 1]
  /\ dbOps' = IF refs[op[r]] = 1
              THEN [dbOps EXCEPT ![name[r]] = NoReq]
              ELSE dbOps

(* beginDbCreate: op := dbOpFor(name). *)
BeginCreate(r) ==
  /\ kind[r] \in Creates
  /\ Goto(r, "recv", "lock")
  /\ dbOpFor(r)
  /\ UNCHANGED <<commandVars, mu, cancel, cancelled, dockerVars, id, hit,
                 reply, last>>

(* beginDbRemove: op := dbOpFor(name). *)
BeginRemove(r) ==
  /\ kind[r] \in Removes
  /\ Goto(r, "recv", "cancel")
  /\ dbOpFor(r)
  /\ UNCHANGED <<commandVars, mu, cancel, cancelled, dockerVars, id, hit,
                 reply, last>>

(* beginDbRemove: cancel the create in flight, if op.cancel is set. *)
CancelInFlight(r) ==
  LET c == cancel[op[r]] IN
  /\ Goto(r, "cancel", "lock")
  /\ hit' = [hit EXCEPT ![r] = c]
  /\ cancelled' = IF c = NoReq THEN cancelled
                  ELSE [cancelled EXCEPT ![c] = TRUE]
  /\ UNCHANGED <<commandVars, op, registryVars, mu, cancel, dockerVars, id,
                 reply, last>>

(* Mutant of LockName: the handler goes on whoever holds op.mu. *)
LockNameUnlocked(r) ==
  /\ Goto(r, "lock", IF kind[r] \in Creates THEN "register" ELSE "find")
  /\ mu' = [mu EXCEPT ![op[r]] = r]
  /\ last' = [last EXCEPT ![name[r]] = r]
  /\ UNCHANGED <<commandVars, op, registryVars, cancel, cancelled,
                 dockerVars, id, hit, reply>>

(* op.mu.Lock() of both. *)
LockName(r) ==
  /\ Goto(r, "lock", IF kind[r] \in Creates THEN "register" ELSE "find")
  /\ mu[op[r]] = NoReq
  /\ mu' = [mu EXCEPT ![op[r]] = r]
  /\ last' = [last EXCEPT ![name[r]] = r]
  /\ UNCHANGED <<commandVars, op, registryVars, cancel, cancelled,
                 dockerVars, id, hit, reply>>

(* beginDbCreate: op.cancel = cancel. *)
RegisterCancel(r) ==
  /\ Goto(r, "register", "probe")
  /\ cancel' = [cancel EXCEPT ![op[r]] = r]
  /\ UNCHANGED <<commandVars, op, registryVars, mu, cancelled, dockerVars,
                 id, hit, reply, last>>

(* Mutant of UnregisterCancel: finish without op.cancel = nil. *)
UnregisterNothing(r) ==
  /\ Goto(r, "unregister", "unlock")
  /\ cancelled' = [cancelled EXCEPT ![r] = TRUE]
  /\ UNCHANGED <<commandVars, op, registryVars, mu, cancel, dockerVars, id,
                 hit, reply, last>>

(* finish of a create: op.cancel = nil, then cancel(). *)
UnregisterCancel(r) ==
  /\ Goto(r, "unregister", "unlock")
  /\ cancel' = [cancel EXCEPT ![op[r]] = NoReq]
  /\ cancelled' = [cancelled EXCEPT ![r] = TRUE]
  /\ UNCHANGED <<commandVars, op, registryVars, mu, dockerVars, id, hit,
                 reply, last>>

(* finish of both: op.mu.Unlock(). *)
UnlockName(r) ==
  /\ Goto(r, "unlock", "release")
  /\ mu' = [mu EXCEPT ![op[r]] = NoReq]
  /\ UNCHANGED <<commandVars, op, registryVars, cancel, cancelled,
                 dockerVars, id, hit, reply, last>>

(* finish of both: releaseDbOp(name, op). *)
ReleaseOp(r) ==
  /\ Goto(r, "release", "done")
  /\ releaseDbOp(r)
  /\ op' = [op EXCEPT ![r] = NoReq]
  /\ UNCHANGED <<commandVars, mu, cancel, cancelled, dockerVars, id, hit,
                 reply, last>>

-----------------------------------------------------------------------------
(* db_create between beginDbCreate and finish.  Every Docker call may fail: *)
(* the daemon errs or the five-minute limit passes.  Under a cancelled      *)
(* context none succeeds; a call that completes while it is being cancelled *)
(* is one that completed just before.  A failed step answers "failed" and   *)
(* goes to finish.                                                          *)

(* Mutant of CreateFails: a create that was cancelled ends without a reply. *)
CreateFailsSilently(r, a) ==
  /\ Goto(r, a, "unregister")
  /\ reply' = IF cancelled[r] THEN reply ELSE [reply EXCEPT ![r] = "failed"]

CreateFails(r, a) == Answer(r, a, "unregister", "failed")

(* Mutant of AckAndProbePort: a busy port is probed again, without a limit. *)
AckAndProbePortAgain(r) ==
  /\ \/ Answer(r, "probe", "pull", "accepted")
     \/ Goto(r, "probe", "register") /\ UNCHANGED reply
  /\ UNCHANGED <<commandVars, op, registryVars, mu, cancel, cancelled,
                 dockerVars, id, hit, last>>

(* sendDbReply "accepted", then probeHostPort. *)
AckAndProbePort(r) ==
  /\ \/ Answer(r, "probe", "pull", "accepted")
     \/ CreateFails(r, "probe")
  /\ UNCHANGED <<commandVars, op, registryVars, mu, cancel, cancelled,
                 dockerVars, id, hit, last>>

(* Field checks, PullImage, and the switch on the engine. *)
PullImage(r) ==
  /\ \/ ~ cancelled[r] /\ Goto(r, "pull", "volume") /\ UNCHANGED reply
     \/ CreateFails(r, "pull")
  /\ UNCHANGED <<commandVars, op, registryVars, mu, cancel, cancelled,
                 dockerVars, id, hit, last>>

(* VolumeInspect and VolumeCreate.  An existing volume is refused unless it *)
(* may be adopted; the refusal needs the inspect to have succeeded.         *)
CreateVolume(r) ==
  LET n == name[r] IN
  /\ \/ /\ CreateFails(r, "volume")
        /\ UNCHANGED volume
     \/ \E inspected \in BOOLEAN :
          /\ ~ cancelled[r]
          /\ ~ (inspected /\ volume[n] /\ kind[r] = "create")
          /\ Goto(r, "volume", "container")
          /\ volume' = [volume EXCEPT ![n] = TRUE]
          /\ UNCHANGED reply
  /\ UNCHANGED <<commandVars, op, registryVars, mu, cancel, cancelled,
                 container, cstate, id, hit, last>>

(* The daemon creates r's container if the name is free. *)
DaemonCreates(r) ==
  /\ container[name[r]] = NoReq
  /\ container' = [container EXCEPT ![name[r]] = r]
  /\ cstate' = [cstate EXCEPT ![r] = "created"]

(* The daemon removes container c of name n, running or not. *)
DaemonRemoves(n, c) ==
  /\ container' = [container EXCEPT ![n] = NoReq]
  /\ cstate' = [cstate EXCEPT ![c] = "none"]

(* ContainerCreate.  A call that was aborted may have reached the daemon:   *)
(* it then fails, and the container it made is left behind with no cleanup. *)
CreateContainer(r) ==
  /\ \/ /\ ~ cancelled[r]
        /\ Goto(r, "container", "checkctx")
        /\ DaemonCreates(r)
        /\ UNCHANGED reply
     \/ CreateFails(r, "container") /\ DaemonCreates(r)
     \/ CreateFails(r, "container") /\ UNCHANGED <<container, cstate>>
  /\ UNCHANGED <<commandVars, op, registryVars, mu, cancel, cancelled,
                 volume, id, hit, last>>

(* cleanupOnError: a forced remove under a context of its own, its error    *)
(* ignored.                                                                 *)
CleanupOnError(r) ==
  \/ DaemonRemoves(name[r], r)
  \/ UNCHANGED <<container, cstate>>

(* ctx.Err() between ContainerCreate and ContainerStart. *)
CheckCancelled(r) ==
  /\ \/ /\ cancelled[r]
        /\ CreateFails(r, "checkctx")
        /\ CleanupOnError(r)
     \/ /\ ~ cancelled[r]
        /\ Goto(r, "checkctx", "start")
        /\ UNCHANGED <<container, cstate, reply>>
  /\ UNCHANGED <<commandVars, op, registryVars, mu, cancel, cancelled,
                 volume, id, hit, last>>

(* ContainerStart, with cleanup when it fails. *)
StartCreated(r) ==
  /\ \/ /\ ~ cancelled[r]
        /\ Goto(r, "start", "report")
        /\ cstate' = [cstate EXCEPT ![r] = "running"]
        /\ UNCHANGED <<container, reply>>
     \/ CreateFails(r, "start") /\ CleanupOnError(r)
  /\ UNCHANGED <<commandVars, op, registryVars, mu, cancel, cancelled,
                 volume, id, hit, last>>

(* The check of createCtx.Err() after a create that went through.           *)
ReportCreate(r) ==
  /\ Goto(r, "report", IF cancelled[r] THEN "unregister" ELSE "succeed")
  /\ reply' = [reply EXCEPT ![r] = IF cancelled[r] THEN "failed" ELSE @]
  /\ UNCHANGED <<commandVars, op, registryVars, mu, cancel, cancelled,
                 dockerVars, id, hit, last>>

(* sendDbReply "success". *)
SucceedCreate(r) ==
  /\ Answer(r, "succeed", "unregister", "success")
  /\ UNCHANGED <<commandVars, op, registryVars, mu, cancel, cancelled,
                 dockerVars, id, hit, last>>

-----------------------------------------------------------------------------
(* db_remove between beginDbRemove and finish. *)

RemoveFails(r, a) == Answer(r, a, "unlock", "failed")

(* What follows the container's removal: the volume, or the answer. *)
ContainerGone(r, a) ==
  \/ kind[r] = "purge" /\ Goto(r, a, "purge") /\ UNCHANGED reply
  \/ kind[r] = "remove" /\ Answer(r, a, "unlock", "success")

(* FindContainerByName; an absent container is not a failure. *)
FindForRemove(r) ==
  LET c == container[name[r]] IN
  /\ \/ RemoveFails(r, "find") /\ UNCHANGED id
     \/ /\ c = NoReq
        /\ ContainerGone(r, "find")
        /\ UNCHANGED id
     \/ /\ c # NoReq
        /\ Goto(r, "find", "stop")
        /\ id' = [id EXCEPT ![r] = c]
        /\ UNCHANGED reply
  /\ UNCHANGED <<commandVars, op, registryVars, mu, cancel, cancelled,
                 dockerVars, hit, last>>

(* StopContainer, its error ignored. *)
StopForRemove(r) ==
  /\ Goto(r, "stop", "destroy")
  /\ \/ cstate[id[r]] = "running" /\ cstate' = [cstate EXCEPT ![id[r]] = "exited"]
     \/ UNCHANGED cstate
  /\ UNCHANGED <<commandVars, op, registryVars, mu, cancel, cancelled,
                 container, volume, id, hit, reply, last>>

(* Mutant of RemoveContainer: a removal that fails is answered as success. *)
RemoveContainerCareless(r) ==
  /\ \/ ContainerGone(r, "destroy") /\ UNCHANGED <<container, cstate>>
     \/ ContainerGone(r, "destroy") /\ DaemonRemoves(name[r], id[r])
  /\ UNCHANGED <<commandVars, op, registryVars, mu, cancel, cancelled,
                 volume, id, hit, last>>

(* RemoveContainer(force). *)
RemoveContainer(r) ==
  /\ \/ RemoveFails(r, "destroy") /\ UNCHANGED <<container, cstate>>
     \/ ContainerGone(r, "destroy") /\ DaemonRemoves(name[r], id[r])
  /\ UNCHANGED <<commandVars, op, registryVars, mu, cancel, cancelled,
                 volume, id, hit, last>>

(* RemoveVolume(force): an absent volume is removed successfully. *)
RemoveVolume(r) ==
  /\ \/ RemoveFails(r, "purge") /\ UNCHANGED volume
     \/ /\ Answer(r, "purge", "unlock", "success")
        /\ volume' = [volume EXCEPT ![name[r]] = FALSE]
  /\ UNCHANGED <<commandVars, op, registryVars, mu, cancel, cancelled,
                 container, cstate, id, hit, last>>

-----------------------------------------------------------------------------
(* db_start, db_stop and db_restart take no lock: they look the container   *)
(* up and act on the id they found, which may be gone by then.              *)

FindForTouch(r) ==
  LET c == container[name[r]] IN
  /\ kind[r] \in Touches
  /\ \/ Answer(r, "recv", "done", "failed") /\ UNCHANGED id
     \/ /\ c # NoReq
        /\ Goto(r, "recv", "act")
        /\ id' = [id EXCEPT ![r] = c]
        /\ UNCHANGED reply
  /\ UNCHANGED <<commandVars, op, registryVars, mu, cancel, cancelled,
                 dockerVars, hit, last>>

ActOnContainer(r) ==
  /\ \/ Answer(r, "act", "done", "failed") /\ UNCHANGED cstate
     \/ /\ container[name[r]] = id[r]
        /\ Answer(r, "act", "done", "success")
        /\ cstate' = [cstate EXCEPT ![id[r]] =
                        IF kind[r] # "stop" THEN "running"
                        ELSE IF @ = "running" THEN "exited" ELSE @]
  /\ UNCHANGED <<commandVars, op, registryVars, mu, cancel, cancelled,
                 container, volume, id, hit, last>>

-----------------------------------------------------------------------------
CreateStep(r) ==
  \/ BeginCreate(r) \/ RegisterCancel(r) \/ AckAndProbePort(r)
  \/ PullImage(r) \/ CreateVolume(r) \/ CreateContainer(r)
  \/ CheckCancelled(r) \/ StartCreated(r) \/ ReportCreate(r)
  \/ SucceedCreate(r) \/ UnregisterCancel(r)

RemoveStep(r) ==
  \/ BeginRemove(r) \/ CancelInFlight(r) \/ FindForRemove(r)
  \/ StopForRemove(r) \/ RemoveContainer(r) \/ RemoveVolume(r)

LockStep(r) == LockName(r) \/ UnlockName(r) \/ ReleaseOp(r)

TouchStep(r) == FindForTouch(r) \/ ActOnContainer(r)

Handler(r) ==
  RejectInvalid(r) \/ CreateStep(r) \/ RemoveStep(r) \/ LockStep(r) \/ TouchStep(r)

(* Every command received has been answered and no more may come. *)
Finished ==
  /\ received = MaxReq
  /\ \A r \in Req : pc[r] = "done"
  /\ UNCHANGED vars

Next ==
  \/ \E k \in Command : Receive(k)
  \/ \E r \in Req : Handler(r)
  \/ Finished

(* A handler goroutine that can run is eventually run: the Go scheduler is  *)
(* fair, Docker calls return (the slow ones time out), op.mu is released.   *)
Fairness == \A r \in Req : WF_vars(Handler(r))

Spec == Init /\ [][Next]_vars

FairSpec == Spec /\ Fairness

-----------------------------------------------------------------------------
(* Properties. *)

(* r is between op.mu.Lock() and op.mu.Unlock(). *)
InCriticalSection(r) ==
  pc[r] \in {"register", "probe", "pull", "volume", "container", "checkctx",
             "start", "report", "succeed", "unregister", "find", "stop",
             "destroy", "purge", "unlock"}

(* r is between dbOpFor and releaseDbOp: it counts in op.refs. *)
HoldsOp(r) == InCriticalSection(r) \/ pc[r] \in {"cancel", "lock", "release"}

(* db_inflight.go:8 "operations on one container name are serialised":      *)
(* although dbNameOp objects are deleted and reallocated, no two creates or *)
(* removes of one name are ever inside their lock together.                 *)
NameExclusion ==
  \A r, s \in Req :
    name[r] = name[s] /\ InCriticalSection(r) /\ InCriticalSection(s) => r = s

(* The registry holds a name exactly while a create or remove of it is      *)
(* between dbOpFor and releaseDbOp: it neither leaks an entry nor drops one *)
(* in use (db_inflight_test.go checks that it empties).                     *)
RegistryTracksUsers ==
  \A n \in Name :
    dbOps[n] # NoReq <=> \E r \in Req : name[r] = n /\ HoldsOp(r)

(* op.cancel belongs to a create that holds op.mu: a remove never cancels a *)
(* create of another name, a finished one or one that is still waiting.     *)
CancelBelongsToHolder ==
  \A o \in Req : cancel[o] # NoReq => mu[o] = cancel[o]

(* db_inflight.go:18-21: a remove that cancelled a create goes on only when *)
(* that create has returned, with its final db_status sent.                 *)
RemoveWaitsForCancelled ==
  \A r \in Req :
    hit[r] # NoReq /\ pc[r] \notin {"cancel", "lock"} =>
      /\ pc[hit[r]] \in {"release", "done"}
      /\ reply[hit[r]] \in {"success", "failed"}

(* After a remove that answered success, and until another create or remove *)
(* takes the name's lock, no container holds the name, and after a purge no *)
(* volume does, whatever db_start, db_stop or db_restart did meanwhile.     *)
RemoveLeavesNothing ==
  \A n \in Name :
    LET r == last[n] IN
    r # NoReq /\ kind[r] \in Removes /\ reply[r] = "success" =>
      /\ container[n] = NoReq
      /\ kind[r] = "purge" => ~ volume[n]

(* Once a create has sent "accepted" it always ends with an answer, and the *)
(* handler of every command terminates: no lock is held forever, and again  *)
(* and again there is a time when all commands received so far are over.    *)
EveryCommandEnds ==
  []<> \A r \in Req :
         kind[r] # "none" => pc[r] = "done" /\ reply[r] \in {"success", "failed", "error"}

(* db_inflight.go:20-21 "the remove always sees and destroys whatever the   *)
(* create managed to produce": of a create received before a remove of the  *)
(* same name nothing is left when both are over and the remove succeeded.   *)
EarlierCreateDestroyed ==
  \A c, r \in Req :
    /\ kind[c] \in Creates /\ kind[r] \in Removes
    /\ c < r /\ name[c] = name[r]
    /\ pc[c] = "done" /\ pc[r] = "done" /\ reply[r] = "success"
    => container[name[c]] # c
=============================================================================

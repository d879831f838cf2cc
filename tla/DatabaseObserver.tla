------------------------- MODULE DatabaseObserver -------------------------
(***************************************************************************)
(* The reports of database containers (database_observer.go;               *)
(* docker/database.go: ListDatabaseContainers, ListDatabaseVolumes,        *)
(* DatabaseVolumeName, VolumeSize).  The observer loop sends one every     *)
(* dbSyncInterval, and the handler of each db_sync_request another, beside *)
(* it: they share the cache of volume sizes and nothing else, and what     *)
(* Docker said early in a sync may have changed when it is sent.           *)
(***************************************************************************)
EXTENDS Naturals

CONSTANTS
  Db,         \* databases: a container and its data volume
  Requested,  \* handlers of db_sync_request that run at a time
  MaxBytes,   \* bound: the size of a volume
  MaxChange,  \* bound: changes on the host
  MaxFail     \* bound: calls that fail

Sync == {"loop"} \cup Requested

VARIABLES
  container,  \* per database: what its container does, "none" when there is none
  bytes,      \* per database: the size of its volume, 0 when there is none
  cache,      \* volumeSizeCache: the size measured last, 0 if none was
  fresh,      \* the databases whose measurement is younger than dbVolumeSizeTTL
  step,       \* per sync: where it is
  todo,       \* per sync: databases listed and not yet inspected, or measured
  entries,    \* per sync: its entries so far
  at,         \* per sync: the database it measures, with the figure it has
  volumes,    \* per sync: the set of what ListDatabaseVolumes returned, empty if it failed
  view,       \* what the orchestrator was last told
  changes, fails,
  absent      \* per sync: databases without a volume at some time since it began

syncVars == <<step, todo, entries, at, volumes>>
observerVars == <<container, bytes, cache, fresh, syncVars, view, changes, fails, absent>>

Present == {d \in Db : container[d] # "none"}
Volumes == {d \in Db : bytes[d] > 0}
NoEntries == [d \in {} |-> 0]

(* The State of a listing and, dockerHealthToLattice, the health of an inspect. *)
State(d) == IF container[d] = "exited" THEN "exited" ELSE "running"
Health(d) == IF container[d] = "exited" THEN "none" ELSE container[d]

Entry == [state : {"running", "exited"}, health : {"none", "starting", "healthy"},
          size : 0..MaxBytes]
Report == [entries : UNION {[S -> Entry] : S \in SUBSET Db}, volumes : SUBSET Db]

ObserverTypeOK ==
  /\ container \in [Db -> {"none", "exited", "starting", "healthy"}]
  /\ bytes \in [Db -> 0..MaxBytes] /\ cache \in [Db -> 0..MaxBytes] /\ fresh \subseteq Db
  /\ step \in [Sync -> {"off", "list", "inspect", "size", "walk", "store", "volumes", "send"}]
  /\ todo \in [Sync -> SUBSET Db] /\ absent \in [Sync -> SUBSET Db]
  /\ volumes \in [Sync -> SUBSET SUBSET Db]
  /\ \A s \in Sync : [entries |-> entries[s], volumes |-> {}] \in Report
  /\ view \in Report
  /\ changes \in 0..MaxChange /\ fails \in 0..MaxFail

(* The runner starts; the databases may be from before. *)
ObserverInit ==
  /\ container \in [Db -> {"none", "healthy"}]
  /\ bytes = [d \in Db |-> IF container[d] = "none" THEN 0 ELSE 1]
  /\ cache = [d \in Db |-> 0] /\ fresh = {}
  /\ step = [s \in Sync |-> IF s = "loop" THEN "list" ELSE "off"]
  /\ todo = [s \in Sync |-> {}] /\ entries = [s \in Sync |-> NoEntries]
  /\ at = [s \in Sync |-> <<>>] /\ volumes = [s \in Sync |-> {}]
  /\ view = [entries |-> NoEntries, volumes |-> {}]
  /\ changes = 0 /\ fails = 0
  /\ absent = [s \in Sync |-> IF step[s] = "off" THEN {} ELSE Db \ Volumes]

-----------------------------------------------------------------------------
(* The host (external): db_* commands and the engines. *)

Changes(c, b) ==
  /\ changes < MaxChange /\ changes' = changes + 1
  /\ container' = c /\ bytes' = b
  /\ absent' = [s \in Sync |->
                  IF step[s] = "off" THEN {} ELSE absent[s] \cup {d \in Db : b[d] = 0}]
  /\ UNCHANGED <<cache, fresh, syncVars, view, fails>>

Host ==
  \E d \in Db :
    \/ /\ container[d] = "none"
       /\ \/ Changes([container EXCEPT ![d] = "starting"],
                     [bytes EXCEPT ![d] = IF @ = 0 THEN 1 ELSE @])
          \/ bytes[d] > 0 /\ Changes(container, [bytes EXCEPT ![d] = 0])
    \/ /\ container[d] # "none"
       /\ \/ \E c \in {"none", "exited", "starting", "healthy"} \ {container[d]} :
               Changes([container EXCEPT ![d] = c], bytes)
          \/ \E b \in 1..MaxBytes \ {bytes[d]} : Changes(container, [bytes EXCEPT ![d] = b])

(* An hour passes (dbVolumeSizeTTL). *)
Expire ==
  /\ fresh # {} /\ fresh' = {}
  /\ UNCHANGED <<container, bytes, cache, syncVars, view, changes, fails, absent>>

-----------------------------------------------------------------------------
(* A step of sync s, which leaves the host alone. *)

Goes(s, next) == step' = [step EXCEPT ![s] = next] /\ UNCHANGED <<container, bytes, changes>>
Fails == fails < MaxFail /\ fails' = fails + 1

(* The ticker of the loop, or a db_sync_request. *)
Begin(s) ==
  /\ step[s] = "off" /\ Goes(s, "list")
  /\ absent' = [absent EXCEPT ![s] = Db \ Volumes]
  /\ UNCHANGED <<cache, fresh, todo, entries, at, volumes, view, fails>>

(* ContainerList; when it fails nothing is reported. *)
List(s) ==
  /\ step[s] = "list"
  /\ entries' = [entries EXCEPT ![s] =
                   [d \in Present |-> [state |-> State(d), health |-> "none", size |-> 0]]]
  /\ todo' = [todo EXCEPT ![s] = Present]
  /\ Goes(s, IF Present = {} THEN "volumes" ELSE "inspect")
  /\ UNCHANGED <<cache, fresh, at, volumes, view, fails, absent>>

ListFails(s) ==
  /\ step[s] = "list" /\ Fails /\ Goes(s, "off") /\ absent' = [absent EXCEPT ![s] = {}]
  /\ UNCHANGED <<cache, fresh, todo, entries, at, volumes, view>>

(* ContainerInspect of each; one that fails, or finds the container gone,   *)
(* drops nothing.                                                           *)
Inspect(s) ==
  /\ step[s] = "inspect"
  /\ \E d \in todo[s] :
       /\ IF todo[s] = {d} THEN Goes(s, "size") /\ todo' = [todo EXCEPT ![s] = DOMAIN entries[s]]
          ELSE Goes(s, "inspect") /\ todo' = [todo EXCEPT ![s] = @ \ {d}]
       /\ \/ /\ d \in Present /\ UNCHANGED fails
             /\ entries' = [entries EXCEPT ![s][d].health = Health(d)]
          \/ d \notin Present /\ UNCHANGED <<entries, fails>>
          \/ Fails /\ UNCHANGED entries
  /\ UNCHANGED <<cache, fresh, at, volumes, view, absent>>

(* The next entry, or else the volumes. *)
NextEntry(s, rest) == Goes(s, IF rest = {} THEN "volumes" ELSE "size")

(* Mutant of cachedVolumeSize: what was measured once is never measured     *)
(* again.                                                                   *)
cachedVolumeSizeForever(s) ==
  /\ step[s] = "size"
  /\ \E d \in todo[s] :
       /\ todo' = [todo EXCEPT ![s] = @ \ {d}]
       /\ \/ Fails /\ NextEntry(s, todo[s] \ {d}) /\ UNCHANGED <<entries, at>>
          \/ d \notin Present /\ NextEntry(s, todo[s] \ {d}) /\ UNCHANGED <<entries, at, fails>>
          \/ /\ d \in Present /\ cache[d] > 0 /\ UNCHANGED <<at, fails>>
             /\ NextEntry(s, todo[s] \ {d})
             /\ entries' = [entries EXCEPT ![s][d].size = cache[d]]
          \/ /\ d \in Present /\ cache[d] = 0 /\ Goes(s, "walk") /\ UNCHANGED <<entries, fails>>
             /\ at' = [at EXCEPT ![s] = <<d, cache[d]>>]
  /\ UNCHANGED <<cache, fresh, volumes, view, absent>>

(* cachedVolumeSize: no figure without the name of the volume; the cached   *)
(* one while it is fresh; else the volume is walked, with the mutex free.   *)
cachedVolumeSize(s) ==
  /\ step[s] = "size"
  /\ \E d \in todo[s] :
       /\ todo' = [todo EXCEPT ![s] = @ \ {d}]
       /\ \/ Fails /\ NextEntry(s, todo[s] \ {d}) /\ UNCHANGED <<entries, at>>
          \/ d \notin Present /\ NextEntry(s, todo[s] \ {d}) /\ UNCHANGED <<entries, at, fails>>
          \/ /\ d \in Present /\ d \in fresh /\ UNCHANGED <<at, fails>>
             /\ NextEntry(s, todo[s] \ {d})
             /\ entries' = [entries EXCEPT ![s][d].size = cache[d]]
          \/ /\ d \in Present /\ d \notin fresh /\ Goes(s, "walk") /\ UNCHANGED <<entries, fails>>
             /\ at' = [at EXCEPT ![s] = <<d, cache[d]>>]
  /\ UNCHANGED <<cache, fresh, volumes, view, absent>>

(* VolumeSize; one that fails serves the figure that was read before it. *)
VolumeSize(s) ==
  /\ step[s] = "walk"
  /\ LET d == at[s][1] IN
       \/ /\ bytes[d] > 0 /\ Goes(s, "store") /\ UNCHANGED <<entries, fails>>
          /\ at' = [at EXCEPT ![s] = <<d, bytes[d]>>]
       \/ /\ (bytes[d] = 0 /\ UNCHANGED fails) \/ Fails
          /\ entries' = [entries EXCEPT ![s][d].size = at[s][2]]
          /\ at' = [at EXCEPT ![s] = <<>>] /\ NextEntry(s, todo[s])
  /\ UNCHANGED <<cache, fresh, todo, volumes, view, absent>>

Store(s) ==
  /\ step[s] = "store"
  /\ LET d == at[s][1] IN
       /\ cache' = [cache EXCEPT ![d] = at[s][2]] /\ fresh' = fresh \cup {d}
       /\ entries' = [entries EXCEPT ![s][d].size = at[s][2]]
  /\ at' = [at EXCEPT ![s] = <<>>] /\ NextEntry(s, todo[s])
  /\ UNCHANGED <<todo, volumes, view, fails, absent>>

(* ListDatabaseVolumes; "omitted (not sent empty) when listing fails". *)
ListVolumes(s) ==
  /\ step[s] = "volumes" /\ Goes(s, "send")
  /\ \/ volumes' = [volumes EXCEPT ![s] = {Volumes}] /\ UNCHANGED fails
     \/ volumes' = [volumes EXCEPT ![s] = {}] /\ Fails
  /\ UNCHANGED <<cache, fresh, todo, entries, at, view, absent>>

(* wsSendReliable; the orchestrator takes the entries, and the volumes if   *)
(* they are there.  The message of a full queue is dropped.                 *)
Send(s) ==
  /\ step[s] = "send" /\ Goes(s, "off")
  /\ \/ /\ UNCHANGED fails
        /\ view' = [entries |-> entries[s],
                    volumes |-> IF volumes[s] = {} THEN view.volumes ELSE UNION volumes[s]]
     \/ Fails /\ UNCHANGED view
  /\ entries' = [entries EXCEPT ![s] = NoEntries]
  /\ volumes' = [volumes EXCEPT ![s] = {}] /\ absent' = [absent EXCEPT ![s] = {}]
  /\ UNCHANGED <<cache, fresh, todo, at>>

SyncStep(s) ==
  \/ List(s) \/ ListFails(s) \/ Inspect(s)
  \/ cachedVolumeSize(s) \/ VolumeSize(s) \/ Store(s)
  \/ ListVolumes(s) \/ Send(s)

ObserverNext == Host \/ Expire \/ \E s \in Sync : Begin(s) \/ SyncStep(s)

ObserverSpec == ObserverInit /\ [][ObserverNext]_observerVars

-----------------------------------------------------------------------------
(* Properties *)

(* The orchestrator was last told what is there. *)
Agrees ==
  /\ view.volumes = Volumes
  /\ view.entries = [d \in Present |->
                       [state |-> State(d), health |-> Health(d), size |-> bytes[d]]]

(* A volume disappears from what it was told only if it was missing at some *)
(* time during the sync.                                                    *)
AbsenceTrue ==
  \A s \in Sync : step[s] = "send" /\ step'[s] # "send" =>
    view.volumes \ view'.volumes \subseteq absent[s]
=============================================================================

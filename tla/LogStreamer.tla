---------------------------- MODULE LogStreamer ----------------------------
(***************************************************************************)
(* src/docker/logstreamer.go for one container: sync, which tracks at most *)
(* one stream of it, and the stream goroutines with their reconnect loop,  *)
(* reading the log Docker keeps through StreamContainerLogs.               *)
(*                                                                         *)
(* A line of the log is the time Docker recorded for it.  Streams are      *)
(* numbered in the order in which sync starts them.                        *)
(***************************************************************************)
EXTENDS Naturals, Sequences

CONSTANTS MaxStream,  \* bound: streams started
          MaxLine,    \* bound: lines in the log
          MaxFlap,    \* bound: connections Docker breaks or refuses
          MaxTurn,    \* bound: starts, stops and removals of the container
          TailLines   \* lines of the first connect (100)

Stream == 1..MaxStream
Time == 1..MaxLine

VARIABLES
  alive,     \* the container, in Docker
  log,       \* its log
  view,      \* what sync saw in ListContainers, or "none" between two syncs
  started,   \* streams started
  tracked,   \* the stream in ls.tracked, or 0
  pc,        \* pc[g]: where stream g is
  cancel,    \* streams that were cancelled
  since,     \* since[g], or 0
  last,      \* lastSeen of the doStream at hand, or 0
  pos,       \* pos[g]: the next line Docker looks at for g
  sent,      \* sent[g]: places of the lines g gave to the callback
  stopped,   \* Run has returned
  flaps,     \* connections Docker broke or refused
  turns      \* starts, stops and removals

envVars == <<alive, log, flaps, turns>>
mapVars == <<view, started, tracked, cancel, stopped>>
readVars == <<since, last, pos, sent>>
vars == <<envVars, mapVars, pc, readVars>>

TypeOK ==
  /\ alive \in {"running", "down", "gone"}
  /\ log \in Seq(Time) /\ Len(log) <= MaxLine
  /\ view \in {"none", "up", "down"}
  /\ started \in 0..MaxStream /\ tracked \in 0..started
  /\ pc \in [Stream -> {"none", "open", "read", "ended", "gone", "backoff", "done"}]
  /\ cancel \subseteq 1..started
  /\ since \in [Stream -> 0..MaxLine] /\ last \in [Stream -> 0..MaxLine]
  /\ pos \in [Stream -> 1..MaxLine + 1]
  /\ sent \in [Stream -> Seq(1..MaxLine)]
  /\ stopped \in BOOLEAN
  /\ flaps \in 0..MaxFlap /\ turns \in 0..MaxTurn

Init ==
  /\ alive = "running" /\ log = <<>> /\ flaps = 0 /\ turns = 0
  /\ view = "none" /\ started = 0 /\ tracked = 0 /\ cancel = {} /\ stopped = FALSE
  /\ pc = [g \in Stream |-> "none"]
  /\ since = [g \in Stream |-> 0] /\ last = [g \in Stream |-> 0]
  /\ pos = [g \in Stream |-> 1] /\ sent = [g \in Stream |-> <<>>]

-----------------------------------------------------------------------------
(* The container *)

Turn(a) ==
  /\ turns < MaxTurn /\ alive # "gone" /\ a # alive
  /\ alive' = a /\ turns' = turns + 1
  /\ UNCHANGED <<log, flaps, mapVars, pc, readVars>>

(* A line of output; stdout and stderr are recorded by two copiers, so that *)
(* times may be out of order.                                               *)
Write == \E t \in Time :
  /\ alive = "running" /\ Len(log) < MaxLine
  /\ log' = Append(log, t)
  /\ UNCHANGED <<alive, flaps, turns, mapVars, pc, readVars>>

-----------------------------------------------------------------------------
(* sync *)

(* ListContainers; when it fails, sync returns. *)
SyncList ==
  /\ view = "none" /\ ~stopped
  /\ view' = IF alive = "running" THEN "up" ELSE "down"
  /\ UNCHANGED <<started, tracked, cancel, stopped, envVars, pc, readVars>>

(* done is closed *)
dead(g) == g # 0 /\ pc[g] = "done"

(* Under ls.mu: forget a dead stream, start one for a streamable container, *)
(* and cancel the stream of one that is not.                                *)
SyncApply ==
  LET kept == IF dead(tracked) THEN 0 ELSE tracked IN
  /\ view # "none" /\ view' = "none"
  /\ \/ /\ view = "up" /\ kept = 0 /\ started < MaxStream
        /\ started' = started + 1 /\ tracked' = started + 1
        /\ pc' = [pc EXCEPT ![started + 1] = "open"]
        /\ UNCHANGED cancel
     \/ /\ view = "up" /\ kept # 0
        /\ tracked' = kept /\ UNCHANGED <<started, pc, cancel>>
     \/ /\ view = "down"
        /\ tracked' = 0
        /\ cancel' = IF kept = 0 THEN cancel ELSE cancel \cup {kept}
        /\ UNCHANGED <<started, pc>>
  /\ UNCHANGED <<stopped, envVars, readVars>>

(* Run returns when its context is done, which every stream's context       *)
(* derives from.                                                            *)
stopAll ==
  /\ view = "none" /\ ~stopped
  /\ stopped' = TRUE /\ tracked' = 0 /\ cancel' = 1..started
  /\ UNCHANGED <<view, started, envVars, pc, readVars>>

-----------------------------------------------------------------------------
(* stream and doStream *)

Goto(g, a, b) == pc[g] = a /\ pc' = [pc EXCEPT ![g] = b]

(* Mutant of TailStart: a short log is not thought of. *)
TailStartLong == Len(log) + 1 - TailLines

(* The first place of the last TailLines lines. *)
TailStart == IF Len(log) > TailLines THEN Len(log) - TailLines + 1 ELSE 1

(* StreamContainerLogs: a container that is gone is not found. *)
Open(g) ==
  /\ \/ /\ alive # "gone" /\ Goto(g, "open", "read")
        /\ pos' = [pos EXCEPT ![g] = IF since[g] = 0 THEN TailStart ELSE 1]
        /\ UNCHANGED flaps
     \/ /\ alive = "gone" /\ Goto(g, "open", "gone") /\ UNCHANGED <<pos, flaps>>
     \/ /\ flaps < MaxFlap /\ flaps' = flaps + 1
        /\ Goto(g, "open", "ended") /\ UNCHANGED pos
  /\ UNCHANGED <<alive, log, turns, mapVars, since, last, sent>>

(* Mutant of Passes: since itself is not excluded. *)
PassesSame(g, t) == since[g] = 0 \/ t >= since[g]

(* Docker's filter: times from since + 1ns on. *)
Passes(g, t) == since[g] = 0 \/ t > since[g]

(* The next line: skipped by Docker, or read and given to the callback. *)
Read(g) ==
  /\ pc[g] = "read" /\ pos[g] <= Len(log)
  /\ pos' = [pos EXCEPT ![g] = @ + 1]
  /\ LET t == log[pos[g]] IN
       IF Passes(g, t) THEN /\ last' = [last EXCEPT ![g] = t]
                            /\ sent' = [sent EXCEPT ![g] = Append(@, pos[g])]
                       ELSE UNCHANGED <<last, sent>>
  /\ UNCHANGED <<pc, since, envVars, mapVars>>

(* The log ends with the container, on cancellation or on a broken read. *)
EndOfStream(g) ==
  /\ Goto(g, "read", "ended")
  /\ \/ alive # "running" /\ pos[g] > Len(log) /\ UNCHANGED flaps
     \/ g \in cancel /\ UNCHANGED flaps
     \/ flaps < MaxFlap /\ flaps' = flaps + 1
  /\ UNCHANGED <<alive, log, turns, mapVars, readVars>>

(* doStream has returned, and its reader and lastSeen with it. *)
AfterStream(g) ==
  /\ pc[g] \in {"ended", "gone"}
  /\ since' = IF last[g] = 0 THEN since ELSE [since EXCEPT ![g] = last[g]]
  /\ pc' = [pc EXCEPT ![g] = IF g \in cancel \/ @ = "gone" THEN "done" ELSE "backoff"]
  /\ last' = [last EXCEPT ![g] = 0] /\ pos' = [pos EXCEPT ![g] = 1]
  /\ UNCHANGED <<sent, envVars, mapVars>>

(* The backoff passes, or the stream is cancelled. *)
Backoff(g) ==
  /\ \/ g \in cancel /\ Goto(g, "backoff", "done")
     \/ Goto(g, "backoff", "open")
  /\ UNCHANGED <<envVars, mapVars, readVars>>

StreamStep(g) == Open(g) \/ Read(g) \/ EndOfStream(g) \/ AfterStream(g) \/ Backoff(g)

Next ==
  \/ \E a \in {"running", "down", "gone"} : Turn(a)
  \/ Write \/ SyncList \/ SyncApply \/ stopAll
  \/ \E g \in Stream : StreamStep(g)

Spec == Init /\ [][Next]_vars

-----------------------------------------------------------------------------
(* Properties *)

Live(g) == pc[g] \notin {"none", "done"} /\ g \notin cancel

(* ls.tracked: whatever the container and its streams do between two syncs, *)
(* at most one stream is live, the tracked one; two would report every line *)
(* twice.                                                                   *)
OneLiveStream == \A g \in Stream : Live(g) => g = tracked

(* "giving us zero duplicates on reconnect" (docker.go:537-538): the lines  *)
(* a stream reports over all its reconnects are consecutive lines of the    *)
(* log, none twice and none left out, and one that has read to the end has  *)
(* reported the last line, when the times of the lines are in order.        *)
StreamExact ==
  (\A i \in 1..Len(log) - 1 : log[i] < log[i + 1]) =>
    \A g \in Stream :
      /\ \A i \in 1..Len(sent[g]) - 1 : sent[g][i + 1] = sent[g][i] + 1
      /\ pc[g] = "read" /\ pos[g] > Len(log) /\ log # <<>> =>
           sent[g] # <<>> /\ sent[g][Len(sent[g])] = Len(log)

(* A stream that must come to its end: it was cancelled or its container is *)
(* gone (logstreamer.go:149-155 and 183-189).                               *)
MustEnd(g) == pc[g] # "none" /\ (g \in cancel \/ alive = "gone")
=============================================================================

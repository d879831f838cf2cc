------------------------------ MODULE WSClient ------------------------------
(***************************************************************************)
(* The connection to the orchestrator, src/client/websocket.go: the        *)
(* Connect loop, the two pumps, the bounded send queue and Drain, with the *)
(* handler pool of src/runner_stats.go behind the read pump and the end of *)
(* main's shutdown sequence.                                               *)
(*                                                                         *)
(* A message is the number of its place in the order of the queue.  The    *)
(* network may break a connection and refuse a dial.                       *)
(***************************************************************************)
EXTENDS Naturals, Sequences

CONSTANTS Cap,        \* capacity of send (256)
          Pool,       \* capacity of handlerSem (50)
          MaxSend,    \* bound: calls of SendJSON and SendJSONReliable
          MaxBreak,   \* bound: connections and writes broken by the network
          MaxRead,    \* bound: commands read
          MayExit     \* whether the runner may be shut down

ASSUME CapAssumption == Cap \in Nat \ {0} /\ Pool \in Nat \ {0}
ASSUME BoundAssumption == MaxSend \in Nat /\ MaxBreak \in Nat /\ MaxRead \in Nat
ASSUME MayExitAssumption == MayExit \in BOOLEAN

VARIABLES
  link,      \* where Connect is
  sock,      \* the connection, c.conn
  closed,    \* c.closed
  cancelled, \* runCtx was cancelled
  rd,        \* readPump
  wr,        \* writePump; "hand" with a message it took from the queue
  queue,     \* c.send
  hand,      \* the message writePump took last
  written,   \* messages written to a live connection, in order
  calls,     \* calls of SendJSON and SendJSONReliable
  enqueued,  \* messages put in the queue
  waiting,   \* callers of SendJSONReliable that wait for room
  drops,     \* messages counted in c.drops
  taken,     \* drops taken by TakeDrops
  busy,      \* slots of handlerSem in use
  exit,      \* where the shutdown of main is; past "drain" ctx is cancelled
  flushed,   \* messages enqueued when Drain saw the queue empty
  breaks,    \* connections and writes broken
  reads      \* commands read

netVars == <<sock, breaks>>
pumpVars == <<link, closed, cancelled, rd, wr>>
sendVars == <<calls, enqueued, waiting, drops, taken>>
poolVars == <<busy, reads>>
exitVars == <<exit, flushed>>
vars == <<netVars, pumpVars, queue, hand, written, sendVars, poolVars, exitVars>>

TypeOK ==
  /\ link \in {"dial", "run", "backoff", "stopped"}
  /\ sock \in {"none", "up", "broken", "shut"}
  /\ closed \in BOOLEAN /\ cancelled \in BOOLEAN
  /\ rd \in {"off", "head", "read", "blocked"}
  /\ wr \in {"off", "idle", "hand"}
  /\ queue \in Seq(1..MaxSend) /\ Len(queue) <= Cap
  /\ hand \in 0..MaxSend
  /\ written \in Seq(1..MaxSend)
  /\ calls \in 0..MaxSend /\ enqueued \in 0..MaxSend /\ waiting \in 0..MaxSend
  /\ drops \in 0..MaxSend /\ taken \in 0..MaxSend
  /\ busy \in 0..Pool
  /\ exit \in {"no", "drain", "cancelled", "done"}
  /\ flushed \in 0..MaxSend
  /\ breaks \in 0..MaxBreak /\ reads \in 0..MaxRead

Init ==
  /\ link = "dial" /\ sock = "none" /\ closed = FALSE /\ cancelled = FALSE
  /\ rd = "off" /\ wr = "off"
  /\ queue = <<>> /\ hand = 0 /\ written = <<>>
  /\ calls = 0 /\ enqueued = 0 /\ waiting = 0 /\ drops = 0 /\ taken = 0
  /\ busy = 0 /\ exit = "no" /\ flushed = 0 /\ breaks = 0 /\ reads = 0

(* The root context, and the context of this connection's pumps. *)
ctxDone == exit \in {"cancelled", "done"}
runDone == ctxDone \/ cancelled

-----------------------------------------------------------------------------
(* Sending *)

Enqueue ==
  /\ Len(queue) < Cap
  /\ queue' = Append(queue, enqueued + 1)
  /\ enqueued' = enqueued + 1

(* Mutant of countDrop: nothing is recorded. *)
countDropNot == UNCHANGED drops

countDrop == drops' = drops + 1

(* SendJSON: queued, or dropped when the queue is full. *)
SendJSON ==
  /\ calls < MaxSend /\ calls' = calls + 1
  /\ \/ Enqueue /\ UNCHANGED drops
     \/ Len(queue) = Cap /\ countDrop /\ UNCHANGED <<queue, enqueued>>
  /\ UNCHANGED <<waiting, taken, netVars, pumpVars, hand, written, poolVars, exitVars>>

(* SendJSONReliable: queued, or the caller waits for room. *)
SendJSONReliable ==
  /\ calls < MaxSend /\ calls' = calls + 1
  /\ \/ Enqueue /\ UNCHANGED waiting
     \/ Len(queue) = Cap /\ waiting' = waiting + 1 /\ UNCHANGED <<queue, enqueued>>
  /\ UNCHANGED <<drops, taken, netVars, pumpVars, hand, written, poolVars, exitVars>>

(* There is room for one that waits. *)
SendWaiting ==
  /\ waiting > 0 /\ waiting' = waiting - 1
  /\ Enqueue
  /\ UNCHANGED <<calls, drops, taken, netVars, pumpVars, hand, written, poolVars, exitVars>>

(* reliableSendTimeout elapses. *)
SendTimeout ==
  /\ waiting > 0 /\ waiting' = waiting - 1
  /\ countDrop
  /\ UNCHANGED <<calls, enqueued, taken, netVars, pumpVars, queue, hand, written,
                 poolVars, exitVars>>

TakeDrops ==
  /\ drops > 0
  /\ taken' = taken + drops /\ drops' = 0
  /\ UNCHANGED <<calls, enqueued, waiting, netVars, pumpVars, queue, hand, written,
                 poolVars, exitVars>>

-----------------------------------------------------------------------------
(* Connect *)

(* A dial that was under way when ctx was cancelled may still succeed, and  *)
(* reopens what Close closed.                                               *)
Dial ==
  /\ link = "dial"
  /\ link' = "run" /\ sock' = "up" /\ closed' = FALSE /\ cancelled' = FALSE
  /\ rd' = "head" /\ wr' = "idle"
  /\ UNCHANGED <<breaks, queue, hand, written, sendVars, poolVars, exitVars>>

DialFails ==
  /\ link = "dial" /\ link' = "backoff"
  /\ UNCHANGED <<netVars, closed, cancelled, rd, wr, queue, hand, written, sendVars,
                 poolVars, exitVars>>

(* reconnectInterval has passed, or ctx is cancelled. *)
Backoff ==
  /\ link = "backoff"
  /\ link' = IF ctxDone THEN "stopped" ELSE "dial"
  /\ UNCHANGED <<netVars, closed, cancelled, rd, wr, queue, hand, written, sendVars,
                 poolVars, exitVars>>

(* close(): nothing, the second time. *)
CloseConn ==
  /\ sock' = IF ~closed /\ sock # "none" THEN "shut" ELSE sock
  /\ closed' = (closed \/ sock # "none")

(* Mutant of RunEnds: only the read pump is waited for. *)
RunEndsEarly ==
  /\ link = "run" /\ rd = "off"
  /\ CloseConn
  /\ link' = "backoff"
  /\ UNCHANGED <<breaks, cancelled, rd, wr, queue, hand, written, sendVars, poolVars, exitVars>>

(* wg.Wait, then close. *)
RunEnds ==
  /\ link = "run" /\ rd = "off" /\ wr = "off"
  /\ CloseConn
  /\ link' = "backoff"
  /\ UNCHANGED <<breaks, cancelled, rd, wr, queue, hand, written, sendVars, poolVars, exitVars>>

(* The network breaks the connection. *)
Break ==
  /\ sock = "up" /\ breaks < MaxBreak
  /\ sock' = "broken" /\ breaks' = breaks + 1
  /\ UNCHANGED <<pumpVars, queue, hand, written, sendVars, poolVars, exitVars>>

-----------------------------------------------------------------------------
(* readPump and the handler pool *)

ReadHead ==
  /\ rd = "head"
  /\ IF runDone THEN rd' = "off" /\ cancelled' = TRUE
                ELSE rd' = "read" /\ UNCHANGED cancelled
  /\ UNCHANGED <<link, closed, wr, netVars, queue, hand, written, sendVars, poolVars, exitVars>>

(* Mutant of acquireHandler: the pool is not bounded. *)
acquireHandlerUnbounded == busy' = busy + 1 /\ rd' = "head"

(* A slot if there is one; otherwise the read loop blocks. *)
acquireHandler ==
  \/ busy < Pool /\ busy' = busy + 1 /\ rd' = "head"
  \/ busy = Pool /\ rd' = "blocked" /\ UNCHANGED busy

(* A command arrives and is handed to OnMessage. *)
ReadMessage ==
  /\ rd = "read" /\ sock = "up" /\ reads < MaxRead
  /\ reads' = reads + 1
  /\ acquireHandler
  /\ UNCHANGED <<link, closed, cancelled, wr, netVars, queue, hand, written, sendVars, exitVars>>

Unblock ==
  /\ rd = "blocked" /\ busy < Pool
  /\ busy' = busy + 1 /\ rd' = "head"
  /\ UNCHANGED <<link, closed, cancelled, wr, netVars, reads, queue, hand, written, sendVars, exitVars>>

releaseHandler ==
  /\ busy > 0 /\ busy' = busy - 1
  /\ UNCHANGED <<pumpVars, netVars, reads, queue, hand, written, sendVars, exitVars>>

(* Mutant of readExpires: pongs are not waited for. *)
readExpiresNever == FALSE

(* The read deadline passes: no pong in 60 seconds, which happens when      *)
(* nobody sends pings.                                                      *)
readExpires == wr = "off"

ReadError ==
  /\ rd = "read"
  /\ sock # "up" \/ readExpires
  /\ rd' = "off" /\ cancelled' = TRUE
  /\ UNCHANGED <<link, closed, wr, netVars, queue, hand, written, sendVars, poolVars, exitVars>>

-----------------------------------------------------------------------------
(* writePump *)

(* ctx.Done; chosen at random when a message is there too. *)
WriteStop ==
  /\ wr = "idle" /\ runDone /\ wr' = "off"
  /\ UNCHANGED <<link, closed, cancelled, rd, netVars, queue, hand, written, sendVars,
                 poolVars, exitVars>>

TakeMessage ==
  /\ wr = "idle" /\ queue # <<>>
  /\ wr' = "hand" /\ hand' = Head(queue) /\ queue' = Tail(queue)
  /\ UNCHANGED <<link, closed, cancelled, rd, netVars, written, sendVars, poolVars, exitVars>>

(* Under c.mu: written, or lost when the connection is closed or the write  *)
(* fails; then the pump ends, and runCtx is not cancelled.                  *)
WriteMessage ==
  /\ wr = "hand"
  /\ \/ ~closed /\ sock = "up" /\ wr' = "idle" /\ written' = Append(written, hand)
     \/ closed /\ wr' = "off" /\ UNCHANGED written
     \/ ~closed /\ sock # "up" /\ wr' = "off" /\ UNCHANGED written
  /\ UNCHANGED <<link, closed, cancelled, rd, queue, hand, netVars, sendVars, poolVars, exitVars>>

(* The peer takes too long and the write fails, though the connection can   *)
(* still be read.                                                           *)
WriteDeadline ==
  /\ wr = "hand" /\ ~closed /\ sock = "up" /\ breaks < MaxBreak
  /\ wr' = "off" /\ breaks' = breaks + 1
  /\ UNCHANGED <<link, closed, cancelled, rd, queue, hand, written, sock, sendVars, poolVars, exitVars>>

(* A ping that cannot be written ends the pump too. *)
PingFails ==
  /\ wr = "idle" /\ (closed \/ sock # "up")
  /\ wr' = "off"
  /\ UNCHANGED <<link, closed, cancelled, rd, netVars, queue, hand, written, sendVars,
                 poolVars, exitVars>>

-----------------------------------------------------------------------------
(* The end of main: worker_shutdown is sent, then Drain, cancel and Close. *)

Shutdown ==
  /\ MayExit /\ exit = "no"
  /\ exit' = "drain"
  /\ calls < MaxSend /\ calls' = calls + 1
  /\ \/ Enqueue /\ UNCHANGED drops
     \/ Len(queue) = Cap /\ countDrop /\ UNCHANGED <<queue, enqueued>>
  /\ UNCHANGED <<flushed, waiting, taken, netVars, pumpVars, hand, written, poolVars>>

(* Drain returns when the queue is empty, or when its time is up. *)
Drain ==
  /\ exit = "drain" /\ exit' = "cancelled"
  /\ flushed' = IF queue = <<>> THEN enqueued ELSE 0
  /\ UNCHANGED <<netVars, pumpVars, queue, hand, written, sendVars, poolVars>>

Close ==
  /\ exit = "cancelled" /\ exit' = "done"
  /\ CloseConn
  /\ UNCHANGED <<flushed, breaks, link, cancelled, rd, wr, queue, hand, written, sendVars, poolVars>>

Terminated == (link = "stopped" \/ calls = MaxSend) /\ UNCHANGED vars

Next ==
  \/ SendJSON \/ SendJSONReliable \/ SendWaiting \/ SendTimeout \/ TakeDrops
  \/ Dial \/ DialFails \/ Backoff \/ RunEnds \/ Break
  \/ ReadHead \/ ReadMessage \/ Unblock \/ releaseHandler \/ ReadError
  \/ WriteStop \/ TakeMessage \/ WriteMessage \/ WriteDeadline \/ PingFails
  \/ Shutdown \/ Drain \/ Close \/ Terminated

Spec == Init /\ [][Next]_vars

(* The goroutines run; timers fire; a handler ends; and the orchestrator    *)
(* that is dialled again and again answers in the end.                      *)
Fairness ==
  /\ SF_vars(Dial) /\ WF_vars(Backoff) /\ WF_vars(RunEnds)
  /\ WF_vars(ReadHead) /\ WF_vars(Unblock) /\ WF_vars(releaseHandler) /\ WF_vars(ReadError)
  /\ WF_vars(WriteStop) /\ WF_vars(TakeMessage) /\ WF_vars(WriteMessage) /\ WF_vars(PingFails)
  /\ WF_vars(SendWaiting \/ SendTimeout) /\ WF_vars(Drain) /\ WF_vars(Close)

FairSpec == Spec /\ Fairness

-----------------------------------------------------------------------------
(* Properties *)

(* run waits for both pumps (websocket.go:256), so that none outlives its   *)
(* connection and no two write pumps take from the queue: over any number   *)
(* of reconnections the orchestrator receives messages in the order in      *)
(* which they were queued, and none twice.                                  *)
OneWriter ==
  /\ rd # "off" \/ wr # "off" => link = "run"
  /\ \A i, j \in 1..Len(written) : i < j => written[i] < written[j]

(* SendJSON, SendJSONReliable and countDrop: no call is unaccounted for; it *)
(* is queued, waits, or is counted as a drop that TakeDrops reports once.   *)
CallsAccounted == calls = enqueued + waiting + drops + taken

(* "Call this before Close() on a graceful shutdown so queued messages are  *)
(* transmitted before the connection drops" (websocket.go:352-354): when    *)
(* Drain saw the queue empty and the network broke nothing, every message   *)
(* queued by then is written, but for the last, which the write pump may    *)
(* have in hand when the connection is closed.                              *)
DrainTransmits ==
  link = "stopped" /\ breaks = 0 =>
    \A m \in 1..flushed : m < flushed => \E i \in 1..Len(written) : written[i] = m

(* Every message is where the code says it is: queued, waited for, dropped  *)
(* and counted, or, on a graceful shutdown, transmitted.                    *)
MessagesAccounted == CallsAccounted /\ DrainTransmits

(* acquireHandler "blocking while all of them are in use" and Connect's     *)
(* "maintains it with auto-reconnect": after a break, a write error or a    *)
(* full pool, there is a live connection again or the runner stops.         *)
Reconnects == sock # "up" ~> sock = "up" \/ link = "stopped"

(* A caller of SendJSONReliable does not wait forever, and a message in the *)
(* queue leaves it.                                                         *)
QueueMoves == waiting > 0 \/ queue # <<>> ~> (waiting = 0 /\ queue = <<>>) \/ ctxDone

(* The client recovers by itself: the connection comes back after anything  *)
(* that broke it, and what was queued meanwhile is sent.                    *)
Recovers == Reconnects /\ QueueMoves
=============================================================================

-------------------------- MODULE WSClient_proofs --------------------------
(***************************************************************************)
(* Proofs about WSClient, for a queue, a pool and bounds of any size:      *)
(* OneWriter and MessagesAccounted.  The inductive invariant WInv follows  *)
(* a message from the queue through the hand of the write pump to the      *)
(* connection.                                                             *)
(***************************************************************************)
EXTENDS WSClient, SequenceTheorems, TLAPS

(* The message in the hands of the write pump, if there is one. *)
InHand(m) == wr = "hand" /\ hand = m
InQueue(m) == \E j \in 1..Len(queue) : queue[j] = m
InWritten(m) == \E i \in 1..Len(written) : written[i] = m

(* The pumps belong to the connection of run. *)
Pumps == rd # "off" \/ wr # "off" => link = "run"

(* Until ctx is cancelled only the network takes a connection from its      *)
(* pumps.                                                                   *)
Undisturbed == breaks = 0 /\ exit \in {"no", "drain"}
Connected == Undisturbed /\ link = "run" => sock = "up" /\ ~closed

(* What was written comes before what is in hand, and that before what is   *)
(* queued, each in the order of the queue.                                  *)
WrittenSorted == \A i, j \in 1..Len(written) : i < j => written[i] < written[j]
QueueSorted == \A i, j \in 1..Len(queue) : i < j => queue[i] < queue[j]
WrittenFirst == \A i \in 1..Len(written) : \A j \in 1..Len(queue) : written[i] < queue[j]
HandBetween ==
  wr = "hand" => /\ hand \in 1..enqueued
                 /\ \A i \in 1..Len(written) : written[i] < hand
                 /\ \A j \in 1..Len(queue) : hand < queue[j]
Issued ==
  /\ \A i \in 1..Len(written) : written[i] <= enqueued
  /\ \A j \in 1..Len(queue) : queue[j] <= enqueued
Ordered == WrittenSorted /\ QueueSorted /\ WrittenFirst /\ HandBetween /\ Issued

(* Undisturbed, no message is lost. *)
Kept ==
  Undisturbed => \A m \in 1..enqueued : InWritten(m) \/ InHand(m) \/ InQueue(m)

(* What Drain saw leave the queue is written, but for the last message. *)
Flushed ==
  /\ exit \in {"no", "drain"} => flushed = 0
  /\ breaks = 0 => \A m \in 1..flushed : m < flushed => InWritten(m)

WInv ==
  /\ TypeOK /\ CallsAccounted
  /\ Pumps /\ Connected
  /\ Ordered /\ Kept /\ Flushed

-----------------------------------------------------------------------------
(* Append puts its element behind the others (SendJSON's c.send <- data). *)
LEMMA AppendFacts ==
  ASSUME NEW S, NEW s \in Seq(S), NEW e \in S
  PROVE  /\ Append(s, e) \in Seq(S)
         /\ Len(s) \in Nat
         /\ Len(Append(s, e)) = Len(s) + 1
         /\ \A i \in 1..Len(s) : Append(s, e)[i] = s[i]
         /\ Append(s, e)[Len(s) + 1] = e
  BY AppendProperties, LenProperties

(* Receiving from a channel that holds something takes its first element   *)
(* (writePump's msg := <-c.send).                                          *)
LEMMA TailFacts ==
  ASSUME NEW S, NEW s \in Seq(S), s # <<>>
  PROVE  /\ Tail(s) \in Seq(S)
         /\ Len(s) \in Nat \ {0}
         /\ Head(s) = s[1] /\ Head(s) \in S
         /\ Len(Tail(s)) = Len(s) - 1
         /\ \A j \in 1..Len(s) - 1 : Tail(s)[j] = s[j + 1]
  BY HeadTailProperties, EmptySeq, LenProperties, ElementOfSeq

-----------------------------------------------------------------------------
(* NewWSClient: nothing is queued, sent or counted. *)
LEMMA InitWInv == Init => WInv
<1> SUFFICES ASSUME Init PROVE WInv
  OBVIOUS
<1>1. queue = <<>> /\ written = <<>> /\ Len(queue) = 0 /\ Len(written) = 0
  BY EmptySeq DEF Init
<1>2. queue \in Seq(1..MaxSend) /\ written \in Seq(1..MaxSend)
  BY EmptySeq DEF Init
<1>3. TypeOK
  <2>1. closed \in BOOLEAN /\ cancelled \in BOOLEAN
    BY Zenon DEF Init
  <2> QED
    BY <1>1, <1>2, <2>1, CapAssumption, BoundAssumption DEF Init, TypeOK
<1>4. CallsAccounted /\ Pumps /\ Connected
  BY DEF Init, CallsAccounted, Pumps, Connected
<1>5. Ordered
  BY <1>1 DEF Init, Ordered, WrittenSorted, QueueSorted, WrittenFirst, HandBetween, Issued
<1>6. Kept
  BY <1>1 DEF Init, Kept
<1>7. Flushed
  BY DEF Init, Flushed
<1> QED
  BY <1>3, <1>4, <1>5, <1>6, <1>7 DEF WInv

(* What a step does to the messages: one is queued, taken, written or lost, *)
(* or they stay where they are.                                             *)
Queues == Enqueue /\ UNCHANGED <<hand, written, wr>>
Takes ==
  /\ wr = "idle" /\ queue # <<>> /\ wr' = "hand"
  /\ hand' = Head(queue) /\ queue' = Tail(queue) /\ UNCHANGED <<written, enqueued>>
Writes ==
  /\ wr = "hand" /\ wr' = "idle" /\ written' = Append(written, hand)
  /\ UNCHANGED <<queue, hand, enqueued>>
Loses ==
  /\ wr = "hand" /\ wr' = "off"
  /\ closed \/ sock # "up" \/ breaks' = breaks + 1
  /\ UNCHANGED <<queue, hand, written, enqueued>>
Leaves ==
  /\ (wr # "hand" /\ wr' # "hand") \/ UNCHANGED wr
  /\ UNCHANGED <<queue, hand, written, enqueued>>

(* Every step of the client is one of these. *)
LEMMA Footprint ==
  ASSUME WInv, [Next]_vars
  PROVE  Queues \/ Takes \/ Writes \/ Loses \/ Leaves
<1> USE DEF netVars, pumpVars, sendVars, poolVars, exitVars
<1>1. CASE SendJSON
  BY <1>1 DEF SendJSON, Queues, Leaves
<1>2. CASE SendJSONReliable
  BY <1>2 DEF SendJSONReliable, Queues, Leaves
<1>3. CASE SendWaiting
  BY <1>3 DEF SendWaiting, Queues
<1>4. CASE Shutdown
  BY <1>4 DEF Shutdown, Queues, Leaves
<1>5. CASE SendTimeout \/ TakeDrops \/ Drain \/ Close \/ Break \/ Terminated \/ UNCHANGED vars
  BY <1>5 DEF SendTimeout, TakeDrops, Drain, Close, CloseConn, Break, Terminated, vars, Leaves
<1>6. CASE DialFails \/ Backoff \/ RunEnds
  BY <1>6 DEF DialFails, Backoff, RunEnds, Leaves
<1>7. CASE ReadHead \/ ReadMessage \/ Unblock \/ releaseHandler \/ ReadError
  BY <1>7 DEF ReadHead, ReadMessage, Unblock, releaseHandler, ReadError, Leaves
<1>8. CASE Dial
  BY <1>8 DEF Dial, WInv, Pumps, Leaves
<1>9. CASE WriteStop \/ PingFails
  BY <1>9 DEF WriteStop, PingFails, Leaves
<1>10. CASE TakeMessage
  BY <1>10 DEF TakeMessage, Takes
<1>11. CASE WriteMessage
  BY <1>11 DEF WriteMessage, Writes, Loses
<1>12. CASE WriteDeadline
  BY <1>12 DEF WriteDeadline, Loses
<1> QED
  BY <1>1, <1>2, <1>3, <1>4, <1>5, <1>6, <1>7, <1>8, <1>9, <1>10, <1>11, <1>12 DEF Next

-----------------------------------------------------------------------------
(* Each conjunct of WInv is kept by every step. *)

(* SendJSON, SendJSONReliable, SendWaiting, SendTimeout, TakeDrops and       *)
(* worker_shutdown move one call from one count to another.                  *)
LEMMA CallsStep ==
  ASSUME WInv, [Next]_vars
  PROVE  /\ CallsAccounted'
         /\ calls' \in 0..MaxSend /\ enqueued' \in 0..MaxSend /\ waiting' \in 0..MaxSend
         /\ drops' \in 0..MaxSend /\ taken' \in 0..MaxSend
<1>0. /\ calls \in 0..MaxSend /\ enqueued \in 0..MaxSend /\ waiting \in 0..MaxSend
      /\ drops \in 0..MaxSend /\ taken \in 0..MaxSend
      /\ calls = enqueued + waiting + drops + taken
  BY DEF WInv, TypeOK, CallsAccounted
<1> USE <1>0, BoundAssumption DEF CallsAccounted, countDrop, Enqueue
<1>1. CASE SendJSON
  <2>1. /\ calls < MaxSend /\ calls' = calls + 1
        /\ \/ enqueued' = enqueued + 1 /\ drops' = drops
           \/ enqueued' = enqueued /\ drops' = drops + 1
        /\ waiting' = waiting /\ taken' = taken
    BY <1>1, Zenon DEF SendJSON
  <2> QED
    BY <2>1
<1>2. CASE SendJSONReliable
  <2>1. /\ calls < MaxSend /\ calls' = calls + 1
        /\ \/ enqueued' = enqueued + 1 /\ waiting' = waiting
           \/ enqueued' = enqueued /\ waiting' = waiting + 1
        /\ drops' = drops /\ taken' = taken
    BY <1>2, Zenon DEF SendJSONReliable
  <2> QED
    BY <2>1
<1>3. CASE SendWaiting
  <2>1. /\ waiting > 0 /\ waiting' = waiting - 1 /\ enqueued' = enqueued + 1
        /\ calls' = calls /\ drops' = drops /\ taken' = taken
    BY <1>3, Zenon DEF SendWaiting
  <2> QED
    BY <2>1
<1>4. CASE SendTimeout
  BY <1>4 DEF SendTimeout
<1>5. CASE TakeDrops
  BY <1>5 DEF TakeDrops
<1>6. CASE Shutdown
  <2>1. /\ calls < MaxSend /\ calls' = calls + 1
        /\ \/ enqueued' = enqueued + 1 /\ drops' = drops
           \/ enqueued' = enqueued /\ drops' = drops + 1
        /\ waiting' = waiting /\ taken' = taken
    BY <1>6, Zenon DEF Shutdown
  <2> QED
    BY <2>1
<1>7. CASE UNCHANGED sendVars
  BY <1>7 DEF sendVars
<1>8. CASE Dial \/ DialFails \/ Backoff \/ RunEnds \/ Break
  BY <1>7, <1>8, Zenon DEF Dial, DialFails, Backoff, RunEnds, Break
<1>9. CASE ReadHead \/ ReadMessage \/ Unblock \/ releaseHandler \/ ReadError
  BY <1>7, <1>9, Zenon DEF ReadHead, ReadMessage, Unblock, releaseHandler, ReadError
<1>10. CASE WriteStop \/ TakeMessage \/ WriteMessage \/ WriteDeadline \/ PingFails
  BY <1>7, <1>10, Zenon DEF WriteStop, TakeMessage, WriteMessage, WriteDeadline, PingFails
<1>11. CASE Drain \/ Close \/ Terminated \/ UNCHANGED vars
  BY <1>7, <1>11, Zenon DEF Drain, Close, Terminated, vars
<1> QED
  BY <1>1, <1>2, <1>3, <1>4, <1>5, <1>6, <1>8, <1>9, <1>10, <1>11, Zenon DEF Next

(* The queue holds at most Cap messages, and each of them, like the one in   *)
(* hand and those written, is one that was queued.                           *)
LEMMA MessagesTyped ==
  ASSUME WInv, [Next]_vars
  PROVE  /\ queue' \in Seq(1..MaxSend) /\ Len(queue') <= Cap
         /\ hand' \in 0..MaxSend /\ written' \in Seq(1..MaxSend)
<1>1. /\ queue \in Seq(1..MaxSend) /\ Len(queue) <= Cap
      /\ hand \in 0..MaxSend /\ written \in Seq(1..MaxSend)
      /\ enqueued \in 0..MaxSend
  BY DEF WInv, TypeOK
<1>2. CASE Queues
  <2>1. enqueued + 1 \in 1..MaxSend
    BY <1>1, <1>2, CallsStep, BoundAssumption DEF Queues, Enqueue
  <2>2. queue' \in Seq(1..MaxSend) /\ Len(queue') = Len(queue) + 1 /\ Len(queue) \in Nat
    BY <1>1, <1>2, <2>1, AppendFacts DEF Queues, Enqueue
  <2> QED
    BY <1>1, <1>2, <2>2, CapAssumption DEF Queues, Enqueue
<1>3. CASE Takes
  BY <1>1, <1>3, TailFacts, BoundAssumption, CapAssumption DEF Takes
<1>4. CASE Writes
  <2>1. hand \in 1..MaxSend
    BY <1>1, <1>4, BoundAssumption DEF Writes, WInv, Ordered, HandBetween
  <2> QED
    BY <1>1, <1>4, <2>1, AppendFacts DEF Writes
<1>5. CASE Loses \/ Leaves
  BY <1>1, <1>5 DEF Loses, Leaves
<1> QED
  BY <1>2, <1>3, <1>4, <1>5, Footprint

(* The states of Connect, the pumps, the pool and the end of main. *)
LEMMA StatesTyped ==
  ASSUME WInv, [Next]_vars
  PROVE  /\ link' \in {"dial", "run", "backoff", "stopped"}
         /\ sock' \in {"none", "up", "broken", "shut"}
         /\ rd' \in {"off", "head", "read", "blocked"}
         /\ wr' \in {"off", "idle", "hand"}
         /\ busy' \in 0..Pool
         /\ exit' \in {"no", "drain", "cancelled", "done"}
         /\ flushed' \in 0..MaxSend
         /\ breaks' \in 0..MaxBreak /\ reads' \in 0..MaxRead
<1>0. /\ link \in {"dial", "run", "backoff", "stopped"}
      /\ sock \in {"none", "up", "broken", "shut"}
      /\ rd \in {"off", "head", "read", "blocked"}
      /\ wr \in {"off", "idle", "hand"}
      /\ busy \in 0..Pool
      /\ exit \in {"no", "drain", "cancelled", "done"}
      /\ flushed \in 0..MaxSend /\ enqueued \in 0..MaxSend
      /\ breaks \in 0..MaxBreak /\ reads \in 0..MaxRead
  BY DEF WInv, TypeOK
<1> USE <1>0, CapAssumption, BoundAssumption
    DEF netVars, pumpVars, sendVars, poolVars, exitVars
<1>1. CASE SendJSON \/ SendJSONReliable \/ SendWaiting \/ SendTimeout \/ TakeDrops
  <2>1. UNCHANGED <<link, sock, rd, wr, busy, exit, flushed, breaks, reads>>
    BY <1>1, Zenon DEF SendJSON, SendJSONReliable, SendWaiting, SendTimeout, TakeDrops
  <2> QED
    BY <2>1
<1>2. CASE Dial \/ DialFails \/ Backoff
  BY <1>2 DEF Dial, DialFails, Backoff
<1>3. CASE RunEnds
  BY <1>3 DEF RunEnds, CloseConn
<1>4. CASE Break
  BY <1>4 DEF Break
<1>5. CASE ReadHead
  BY <1>5 DEF ReadHead
<1>6. CASE ReadMessage
  BY <1>6 DEF ReadMessage, acquireHandler
<1>7. CASE Unblock
  BY <1>7 DEF Unblock
<1>16. CASE releaseHandler
  BY <1>16 DEF releaseHandler
<1>8. CASE ReadError
  BY <1>8 DEF ReadError
<1>9. CASE WriteStop \/ TakeMessage \/ PingFails
  BY <1>9 DEF WriteStop, TakeMessage, PingFails
<1>10. CASE WriteMessage
  BY <1>10 DEF WriteMessage
<1>11. CASE WriteDeadline
  BY <1>11 DEF WriteDeadline
<1>12. CASE Shutdown
  BY <1>12 DEF Shutdown
<1>13. CASE Drain
  BY <1>13 DEF Drain
<1>14. CASE Close
  BY <1>14 DEF Close, CloseConn
<1>15. CASE Terminated \/ UNCHANGED vars
  BY <1>15 DEF Terminated, vars
<1> QED
  BY <1>1, <1>2, <1>3, <1>4, <1>5, <1>6, <1>7, <1>8, <1>9, <1>10, <1>11, <1>12,
     <1>13, <1>14, <1>15, <1>16 DEF Next

(* Whether the connection is closed and whether its context is cancelled. *)
LEMMA FlagsTyped ==
  ASSUME WInv, [Next]_vars
  PROVE  closed' \in BOOLEAN /\ cancelled' \in BOOLEAN
<1>1. closed \in BOOLEAN /\ cancelled \in BOOLEAN
  BY DEF WInv, TypeOK
<1>2. CASE Dial \/ ReadHead \/ ReadError
  BY <1>1, <1>2, Zenon DEF Dial, ReadHead, ReadError
<1>3. CASE RunEnds \/ Close
  BY <1>1, <1>3, Zenon DEF RunEnds, Close, CloseConn
<1>4. CASE UNCHANGED <<closed, cancelled>>
  BY <1>1, <1>4
<1>5. CASE SendJSON \/ SendJSONReliable \/ SendWaiting \/ SendTimeout \/ TakeDrops \/ Shutdown
  BY <1>4, <1>5, Zenon DEF SendJSON, SendJSONReliable, SendWaiting, SendTimeout, TakeDrops,
             Shutdown, pumpVars
<1>6. CASE DialFails \/ Backoff \/ Break \/ ReadMessage \/ Unblock \/ releaseHandler
  BY <1>4, <1>6, Zenon DEF DialFails, Backoff, Break, ReadMessage, Unblock, releaseHandler, pumpVars
<1>7. CASE WriteStop \/ TakeMessage \/ WriteMessage \/ WriteDeadline \/ PingFails
  BY <1>4, <1>7, Zenon DEF WriteStop, TakeMessage, WriteMessage, WriteDeadline, PingFails
<1>8. CASE Drain \/ Terminated \/ UNCHANGED vars
  BY <1>4, <1>8, Zenon DEF Drain, Terminated, vars, pumpVars
<1> QED
  BY <1>2, <1>3, <1>5, <1>6, <1>7, <1>8, Zenon DEF Next

(* A connection is dialled only after both pumps of the last one ended. *)
LEMMA PumpsStep ==
  ASSUME WInv, [Next]_vars
  PROVE  Pumps'
<1> USE DEF WInv, Pumps, pumpVars
<1>1. CASE Dial \/ DialFails \/ Backoff \/ RunEnds
  BY <1>1 DEF Dial, DialFails, Backoff, RunEnds
<1>2. CASE ReadHead \/ ReadMessage \/ Unblock \/ releaseHandler \/ ReadError
  BY <1>2 DEF ReadHead, ReadMessage, acquireHandler, Unblock, releaseHandler, ReadError
<1>3. CASE WriteStop \/ TakeMessage \/ WriteMessage \/ WriteDeadline \/ PingFails
  BY <1>3 DEF WriteStop, TakeMessage, WriteMessage, WriteDeadline, PingFails
<1>4. CASE UNCHANGED <<link, rd, wr>>
  BY <1>4
<1>5. CASE SendJSON \/ SendJSONReliable \/ SendWaiting \/ SendTimeout \/ TakeDrops \/ Break
             \/ Shutdown \/ Drain \/ Close \/ Terminated \/ UNCHANGED vars
  BY <1>4, <1>5 DEF SendJSON, SendJSONReliable, SendWaiting, SendTimeout, TakeDrops, Break,
             Shutdown, Drain, Close, Terminated, vars
<1> QED
  BY <1>1, <1>2, <1>3, <1>5 DEF Next

(* Only Break and Close take the connection away while the pumps run. *)
LEMMA ConnectedStep ==
  ASSUME WInv, [Next]_vars
  PROVE  Connected'
<1>0. breaks \in Nat /\ Connected /\ exit \in {"no", "drain", "cancelled", "done"}
  BY BoundAssumption DEF WInv, TypeOK
<1> USE <1>0 DEF Connected, Undisturbed, pumpVars, netVars, exitVars
<1>1. CASE Dial \/ DialFails \/ Backoff \/ RunEnds \/ Break
  BY <1>1 DEF Dial, DialFails, Backoff, RunEnds, Break
<1>2. CASE WriteDeadline \/ Shutdown \/ Drain \/ Close
  BY <1>2 DEF WriteDeadline, Shutdown, Drain, Close
<1>3. CASE UNCHANGED <<link, sock, closed, breaks, exit>>
  BY <1>3
<1>4. CASE SendJSON \/ SendJSONReliable \/ SendWaiting \/ SendTimeout \/ TakeDrops
             \/ ReadHead \/ ReadMessage \/ Unblock \/ releaseHandler \/ ReadError
             \/ WriteStop \/ TakeMessage \/ WriteMessage \/ PingFails
             \/ Terminated \/ UNCHANGED vars
  BY <1>3, <1>4 DEF SendJSON, SendJSONReliable, SendWaiting, SendTimeout, TakeDrops, ReadHead,
             ReadMessage, Unblock, releaseHandler, ReadError, WriteStop, TakeMessage,
             WriteMessage, PingFails, Terminated, vars
<1> QED
  BY <1>1, <1>2, <1>4 DEF Next

(* The queue is first in, first out, and one pump at a time empties it, so   *)
(* that messages reach the connection in the order of SendJSON's calls.      *)
LEMMA OrderedStep ==
  ASSUME WInv, [Next]_vars
  PROVE  Ordered'
<1>1. /\ queue \in Seq(1..MaxSend) /\ written \in Seq(1..MaxSend)
      /\ enqueued \in Nat /\ hand \in Nat
      /\ Len(queue) \in Nat /\ Len(written) \in Nat
      /\ \A j \in 1..Len(queue) : queue[j] \in Nat /\ queue[j] >= 1
      /\ \A i \in 1..Len(written) : written[i] \in Nat
  BY BoundAssumption, LenProperties, ElementOfSeq DEF WInv, TypeOK
<1>2. WrittenSorted /\ QueueSorted /\ WrittenFirst /\ HandBetween /\ Issued
  BY DEF WInv, Ordered
<1>3. CASE Queues
  <2>1. /\ enqueued' = enqueued + 1 /\ Len(queue') = Len(queue) + 1
        /\ \A j \in 1..Len(queue) : queue'[j] = queue[j]
        /\ queue'[Len(queue) + 1] = enqueued + 1
        /\ hand' = hand /\ written' = written /\ wr' = wr
    <3>1. queue \in Seq(Nat) /\ enqueued + 1 \in Nat
      BY <1>1, BoundAssumption
    <3> QED
      BY <1>3, <3>1, AppendFacts DEF Queues, Enqueue
  <2>2. WrittenSorted'
    BY <1>1, <1>2, <2>1 DEF WrittenSorted
  <2>3. QueueSorted'
    <3> SUFFICES ASSUME NEW i \in 1..Len(queue'), NEW j \in 1..Len(queue'), i < j
                 PROVE  queue'[i] < queue'[j]
      BY DEF QueueSorted
    <3>1. i \in 1..Len(queue) /\ queue'[i] = queue[i]
      BY <1>1, <2>1
    <3>2. CASE j = Len(queue) + 1
      <4>1. queue'[j] = enqueued + 1 /\ queue[i] <= enqueued /\ queue[i] \in Nat
        BY <1>1, <1>2, <2>1, <3>1, <3>2 DEF Issued
      <4> QED
        BY <1>1, <3>1, <4>1
    <3>3. CASE j \in 1..Len(queue)
      <4>1. queue'[j] = queue[j] /\ queue[i] < queue[j]
        BY <1>2, <2>1, <3>1, <3>3, Zenon DEF QueueSorted
      <4> QED
        BY <3>1, <4>1
    <3>4. j = Len(queue) + 1 \/ j \in 1..Len(queue)
      <4>1. Len(queue) \in Nat /\ Len(queue') = Len(queue) + 1
        BY <1>1, <2>1, Zenon
      <4> QED
        BY <4>1
    <3> QED
      BY <3>2, <3>3, <3>4
  <2>4. WrittenFirst'
    BY <1>1, <1>2, <2>1 DEF Issued, WrittenFirst
  <2>5. HandBetween'
    BY <1>1, <1>2, <2>1 DEF HandBetween, Issued
  <2>6. Issued'
    <3>1. \A i \in 1..Len(written') : written'[i] <= enqueued'
      BY <1>1, <1>2, <2>1 DEF Issued
    <3>2. \A j \in 1..Len(queue') : queue'[j] <= enqueued'
      <4> SUFFICES ASSUME NEW j \in 1..Len(queue') PROVE queue'[j] <= enqueued'
        OBVIOUS
      <4>1. CASE j = Len(queue) + 1
        BY <1>1, <2>1, <4>1
      <4>2. CASE j \in 1..Len(queue)
        BY <1>1, <1>2, <2>1, <4>2 DEF Issued
      <4> QED
        BY <1>1, <2>1, <4>1, <4>2
    <3> QED
      BY <3>1, <3>2 DEF Issued
  <2> QED
    BY <2>2, <2>3, <2>4, <2>5, <2>6 DEF Ordered
<1>4. CASE Takes
  <2>1. /\ Len(queue) >= 1 /\ Len(queue') = Len(queue) - 1 /\ hand' = queue[1]
        /\ \A j \in 1..Len(queue) - 1 : queue'[j] = queue[j + 1]
        /\ written' = written /\ enqueued' = enqueued
    BY <1>1, <1>4, TailFacts DEF Takes
  <2>2. WrittenSorted'
    BY <1>1, <1>2, <2>1 DEF WrittenSorted
  <2>3. QueueSorted'
    <3> SUFFICES ASSUME NEW i \in 1..Len(queue'), NEW j \in 1..Len(queue'), i < j
                 PROVE  queue'[i] < queue'[j]
      BY DEF QueueSorted
    <3>1. /\ i + 1 \in 1..Len(queue) /\ j + 1 \in 1..Len(queue) /\ i + 1 < j + 1
          /\ queue'[i] = queue[i + 1] /\ queue'[j] = queue[j + 1]
      BY <1>1, <2>1
    <3> QED
      BY <1>2, <3>1 DEF QueueSorted
  <2>4. WrittenFirst'
    BY <1>1, <1>2, <2>1 DEF WrittenFirst
  <2>5. HandBetween'
    <3>1. hand' \in 1..enqueued'
      BY <1>1, <1>2, <2>1 DEF Issued
    <3>2. \A i \in 1..Len(written') : written'[i] < hand'
      BY <1>1, <1>2, <2>1 DEF WrittenFirst
    <3>3. \A j \in 1..Len(queue') : hand' < queue'[j]
      <4> SUFFICES ASSUME NEW j \in 1..Len(queue') PROVE hand' < queue'[j]
        OBVIOUS
      <4>1. 1 \in 1..Len(queue) /\ j + 1 \in 1..Len(queue) /\ 1 < j + 1 /\ queue'[j] = queue[j + 1]
        BY <1>1, <2>1
      <4> QED
        BY <1>2, <2>1, <4>1 DEF QueueSorted
    <3> QED
      BY <3>1, <3>2, <3>3 DEF HandBetween
  <2>6. Issued'
    BY <1>1, <1>2, <2>1 DEF Issued
  <2> QED
    BY <2>2, <2>3, <2>4, <2>5, <2>6 DEF Ordered
<1>5. CASE Writes
  <2>1. /\ Len(written') = Len(written) + 1
        /\ \A i \in 1..Len(written) : written'[i] = written[i]
        /\ written'[Len(written) + 1] = hand
        /\ queue' = queue /\ enqueued' = enqueued /\ wr = "hand" /\ wr' = "idle"
    <3>1. written \in Seq(Nat)
      BY <1>1, BoundAssumption
    <3> QED
      BY <1>1, <1>5, <3>1, AppendFacts DEF Writes
  <2>2. WrittenSorted'
    <3> SUFFICES ASSUME NEW i \in 1..Len(written'), NEW j \in 1..Len(written'), i < j
                 PROVE  written'[i] < written'[j]
      BY DEF WrittenSorted
    <3>1. i \in 1..Len(written) /\ written'[i] = written[i]
      BY <1>1, <2>1
    <3>2. CASE j = Len(written) + 1
      BY <1>1, <1>2, <2>1, <3>1, <3>2 DEF HandBetween
    <3>3. CASE j \in 1..Len(written)
      BY <1>2, <2>1, <3>1, <3>3 DEF WrittenSorted
    <3>4. j = Len(written) + 1 \/ j \in 1..Len(written)
      <4>1. Len(written) \in Nat /\ Len(written') = Len(written) + 1
        BY <1>1, <2>1, Zenon
      <4> QED
        BY <4>1
    <3> QED
      BY <3>2, <3>3, <3>4
  <2>3. QueueSorted'
    BY <1>1, <1>2, <2>1 DEF QueueSorted
  <2>4. WrittenFirst'
    BY <1>1, <1>2, <2>1 DEF HandBetween, WrittenFirst
  <2>5. HandBetween'
    BY <1>1, <1>2, <2>1 DEF HandBetween
  <2>6. Issued'
    BY <1>1, <1>2, <2>1 DEF HandBetween, Issued
  <2> QED
    BY <2>2, <2>3, <2>4, <2>5, <2>6 DEF Ordered
<1>6. CASE Loses \/ Leaves
  BY <1>2, <1>6 DEF Loses, Leaves, Ordered, WrittenSorted, QueueSorted, WrittenFirst,
                    HandBetween, Issued
<1> QED
  BY <1>3, <1>4, <1>5, <1>6, Footprint

(* What was written stays written. *)
LEMMA WrittenStays ==
  ASSUME WInv, [Next]_vars, NEW m, InWritten(m)
  PROVE  InWritten(m)'
<1>1. written \in Seq(1..MaxSend) /\ Len(written) \in Nat
  BY LenProperties DEF WInv, TypeOK
<1>2. CASE Writes
  <2>1. hand \in 1..MaxSend
    BY <1>2, BoundAssumption DEF Writes, WInv, TypeOK, Ordered, HandBetween
  <2>2. /\ Len(written') = Len(written) + 1
        /\ \A i \in 1..Len(written) : written'[i] = written[i]
    BY <1>1, <1>2, <2>1, AppendFacts DEF Writes
  <2> QED
    BY <1>1, <2>2 DEF InWritten
<1>3. CASE written' = written
  BY <1>3 DEF InWritten
<1> QED
  BY <1>2, <1>3, Footprint DEF Queues, Takes, Loses, Leaves

(* The network breaks connections one by one, and the end of main goes       *)
(* forward; only Drain notes what was flushed.                               *)
LEMMA Outside ==
  ASSUME [Next]_vars
  PROVE  /\ breaks' = breaks \/ breaks' = breaks + 1
         /\ exit' = exit \/ (exit' = "drain" /\ exit = "no") \/ exit' \in {"cancelled", "done"}
         /\ Drain \/ flushed' = flushed
<1> USE DEF netVars, exitVars
<1>1. CASE UNCHANGED <<breaks, exit, flushed>>
  BY <1>1
<1>2. CASE SendJSON \/ SendJSONReliable \/ SendWaiting \/ SendTimeout \/ TakeDrops
  BY <1>1, <1>2, Zenon DEF SendJSON, SendJSONReliable, SendWaiting, SendTimeout, TakeDrops
<1>3. CASE Dial \/ DialFails \/ Backoff \/ RunEnds
  BY <1>1, <1>3, Zenon DEF Dial, DialFails, Backoff, RunEnds
<1>4. CASE ReadHead \/ ReadMessage \/ Unblock \/ releaseHandler \/ ReadError
  BY <1>1, <1>4, Zenon DEF ReadHead, ReadMessage, Unblock, releaseHandler, ReadError
<1>5. CASE WriteStop \/ TakeMessage \/ WriteMessage \/ PingFails
  BY <1>1, <1>5, Zenon DEF WriteStop, TakeMessage, WriteMessage, PingFails
<1>6. CASE Break \/ WriteDeadline
  BY <1>6 DEF Break, WriteDeadline
<1>7. CASE Shutdown
  BY <1>7 DEF Shutdown
<1>8. CASE Drain
  BY <1>8 DEF Drain
<1>9. CASE Close
  BY <1>9 DEF Close
<1>10. CASE Terminated \/ UNCHANGED vars
  BY <1>1, <1>10, Zenon DEF Terminated, vars
<1> QED
  BY <1>2, <1>3, <1>4, <1>5, <1>6, <1>7, <1>8, <1>9, <1>10 DEF Next

(* Undisturbed, the pump writes what it has in hand, so nothing queued is    *)
(* lost.                                                                     *)
LEMMA KeptStep ==
  ASSUME WInv, [Next]_vars
  PROVE  Kept'
<1> SUFFICES ASSUME Undisturbed', NEW m \in 1..enqueued'
             PROVE  (InWritten(m) \/ InHand(m) \/ InQueue(m))'
  BY DEF Kept
<1>1. /\ queue \in Seq(Nat) /\ written \in Seq(Nat)
      /\ enqueued \in Nat /\ hand \in Nat
      /\ Len(queue) \in Nat /\ Len(written) \in Nat
  BY BoundAssumption, LenProperties DEF WInv, TypeOK
<1>2. Undisturbed /\ breaks' = breaks
  <2>1. breaks \in Nat /\ exit \in {"no", "drain", "cancelled", "done"}
    BY BoundAssumption DEF WInv, TypeOK
  <2> QED
    BY <2>1, Outside DEF Undisturbed
<1>3. \A k \in 1..enqueued : InWritten(k) \/ InHand(k) \/ InQueue(k)
  BY <1>2 DEF WInv, Kept
<1>4. CASE Queues
  <2>1. /\ enqueued' = enqueued + 1 /\ Len(queue') = Len(queue) + 1
        /\ \A j \in 1..Len(queue) : queue'[j] = queue[j]
        /\ queue'[Len(queue) + 1] = enqueued + 1
        /\ UNCHANGED <<hand, written, wr>>
    BY <1>1, <1>4, AppendFacts DEF Queues, Enqueue
  <2>2. CASE m = enqueued + 1
    BY <1>1, <2>1, <2>2 DEF InQueue
  <2>3. CASE m \in 1..enqueued
    <3>1. CASE InQueue(m)
      BY <1>1, <2>1, <3>1 DEF InQueue
    <3>2. CASE InWritten(m) \/ InHand(m)
      BY <2>1, <3>2 DEF InWritten, InHand
    <3> QED
      BY <1>3, <2>3, <3>1, <3>2
  <2> QED
    BY <1>1, <2>1, <2>2, <2>3
<1>5. CASE Takes
  <2>1. /\ Len(queue) >= 1 /\ Len(queue') = Len(queue) - 1
        /\ hand' = queue[1] /\ wr = "idle" /\ wr' = "hand"
        /\ \A j \in 1..Len(queue) - 1 : queue'[j] = queue[j + 1]
        /\ UNCHANGED <<written, enqueued>>
    BY <1>1, <1>5, TailFacts DEF Takes
  <2>2. CASE InWritten(m)
    BY <2>1, <2>2 DEF InWritten
  <2>3. CASE InQueue(m)
    <3>1. PICK j \in 1..Len(queue) : queue[j] = m
      BY <2>3 DEF InQueue
    <3>2. CASE j = 1
      BY <2>1, <3>1, <3>2 DEF InHand
    <3>3. CASE j # 1
      <4>1. j - 1 \in 1..Len(queue') /\ queue'[j - 1] = m
        BY <1>1, <2>1, <3>1, <3>3
      <4> QED
        BY <4>1 DEF InQueue
    <3> QED
      BY <3>2, <3>3
  <2> QED
    BY <1>3, <2>1, <2>2, <2>3 DEF InHand
<1>6. CASE Writes
  <2>1. /\ Len(written') = Len(written) + 1
        /\ written'[Len(written) + 1] = hand
        /\ UNCHANGED <<queue, enqueued>>
    BY <1>1, <1>6, AppendFacts DEF Writes
  <2>2. CASE InWritten(m)
    BY <2>2, WrittenStays
  <2>3. CASE InHand(m)
    BY <1>1, <2>1, <2>3 DEF InHand, InWritten
  <2>4. CASE InQueue(m)
    BY <2>1, <2>4 DEF InQueue
  <2> QED
    BY <1>3, <2>1, <2>2, <2>3, <2>4
<1>7. CASE Loses
  <2>1. sock = "up" /\ ~closed
    BY <1>2, <1>7 DEF Loses, WInv, TypeOK, Pumps, Connected
  <2> QED
    BY <1>2, <1>7, <2>1 DEF Loses, Undisturbed
<1>8. CASE Leaves
  BY <1>3, <1>8 DEF Leaves, InWritten, InHand, InQueue
<1> QED
  BY <1>4, <1>5, <1>6, <1>7, <1>8, Footprint

(* Drain returns early only when it sees the queue empty: everything queued  *)
(* is then written or, the last message, in the hands of the pump.           *)
LEMMA FlushedStep ==
  ASSUME WInv, [Next]_vars
  PROVE  Flushed'
<1>1. /\ breaks \in Nat /\ exit \in {"no", "drain", "cancelled", "done"}
      /\ enqueued \in Nat /\ hand \in Nat /\ flushed \in Nat /\ Len(written) \in Nat
      /\ \A i \in 1..Len(written) : written[i] \in Nat
  BY BoundAssumption, LenProperties, ElementOfSeq DEF WInv, TypeOK
<1>2. breaks' = 0 => breaks = 0
  BY <1>1, Outside
<1>3. CASE Drain
  <2>1. /\ exit = "drain" /\ exit' = "cancelled" /\ breaks' = breaks
        /\ flushed' = IF queue = <<>> THEN enqueued ELSE 0
        /\ written' = written
    BY <1>3 DEF Drain, netVars
  <2>2. ASSUME breaks' = 0, NEW m \in 1..flushed', m < flushed'
        PROVE  InWritten(m)
    <3>1. queue = <<>> /\ Len(queue) = 0 /\ flushed' = enqueued /\ enqueued \in 1..enqueued
          /\ m \in 1..enqueued
      BY <1>1, <2>1, <2>2, EmptySeq
    <3>2. \A k \in 1..enqueued : InWritten(k) \/ InHand(k)
      BY <2>1, <2>2, <3>1 DEF WInv, Kept, Undisturbed, InQueue
    <3>3. CASE InHand(m)
      <4>1. InWritten(enqueued)
        BY <1>1, <2>2, <3>1, <3>2, <3>3 DEF InHand
      <4>2. \A i \in 1..Len(written) : written[i] < m
        BY <3>3 DEF InHand, WInv, Ordered, HandBetween
      <4> QED
        BY <1>1, <2>2, <3>1, <4>1, <4>2 DEF InWritten
    <3> QED
      BY <3>1, <3>2, <3>3
  <2> QED
    BY <2>1, <2>2 DEF Flushed, InWritten
<1>4. CASE flushed' = flushed /\ (exit' \in {"no", "drain"} => exit \in {"no", "drain"})
  <2>1. exit' \in {"no", "drain"} => flushed' = 0
    BY <1>4 DEF WInv, Flushed
  <2>2. ASSUME breaks' = 0, NEW m \in 1..flushed', m < flushed'
        PROVE  InWritten(m)'
    <3>1. InWritten(m)
      BY <1>2, <1>4, <2>2 DEF WInv, Flushed
    <3> QED
      BY <3>1, WrittenStays
  <2> QED
    BY <2>1, <2>2 DEF Flushed
<1>5. Drain \/ (flushed' = flushed /\ (exit' \in {"no", "drain"} => exit \in {"no", "drain"}))
  BY Outside
<1> QED
  BY <1>3, <1>4, <1>5

(* WInv is inductive. *)
LEMMA StepWInv == WInv /\ [Next]_vars => WInv'
<1> SUFFICES ASSUME WInv, [Next]_vars PROVE WInv'
  OBVIOUS
<1>1. TypeOK'
  BY CallsStep, MessagesTyped, StatesTyped, FlagsTyped, Zenon DEF TypeOK
<1> QED
  BY <1>1, CallsStep, PumpsStep, ConnectedStep, OrderedStep, KeptStep, FlushedStep, Zenon DEF WInv

-----------------------------------------------------------------------------
(* Whatever the network, the callers and the shutdown do: both pumps belong  *)
(* to the one connection of run, and messages reach the wire in the order of *)
(* the queue, each at most once (websocket.go's run, readPump and writePump).*)
THEOREM MessagesInOrder == Spec => []OneWriter
<1>1. WInv => OneWriter
  BY DEF WInv, Pumps, Ordered, WrittenSorted, OneWriter
<1> QED
  BY <1>1, InitWInv, StepWInv, PTL DEF Spec

(* Every call of SendJSON and SendJSONReliable is queued, waiting or counted *)
(* as a drop, and a Drain that saw the queue empty before Close leaves at    *)
(* most the last message unsent, unless the network broke the connection.    *)
THEOREM NothingUnaccounted == Spec => []MessagesAccounted
<1>1. WInv => MessagesAccounted
  BY DEF WInv, MessagesAccounted, DrainTransmits, Flushed, InWritten
<1> QED
  BY <1>1, InitWInv, StepWInv, PTL DEF Spec
=============================================================================

---------------------------- MODULE ExecSessions ----------------------------
(***************************************************************************)
(* Interactive sessions in containers (main.go: execSessions, exec_start,  *)
(* exec_input, exec_resize, exec_close and the cleanup of old sessions).   *)
(* execSessions maps the id of an exec_start command to its session, whose *)
(* reader goroutine forwards the output of the process until the stream    *)
(* ends or the session is cancelled, which it looks at between two reads   *)
(* only.  The control plane may send one exec_start twice.                 *)
(***************************************************************************)
EXTENDS Naturals, Sequences

CONSTANTS
  CommandID,    \* ids of exec_start commands
  MaxSession,   \* sessions that can be made
  MaxChunk      \* chunks of output a process writes

Session == 1..MaxSession
None == 0

VARIABLES
  execSessions,  \* [CommandID -> Session or None]
  commandID,     \* of a session, "" before it is made
  reader,        \* "none", "loop", "read", "close", "report", "done"
  cancelled,     \* sessions whose context is cancelled
  connClosed,    \* sessions whose connection is closed
  process,       \* "none", "running", "exited"
  pending,       \* chunks written by the process and not yet read
  sent,          \* the exec_output messages of a session: "data", "closed"
  late           \* data messages sent after the cancel

procVars == <<process, pending>>
vars == <<execSessions, commandID, reader, cancelled, connClosed, procVars, sent, late>>

TypeOK ==
  /\ execSessions \in [CommandID -> Session \cup {None}]
  /\ commandID \in [Session -> CommandID \cup {""}]
  /\ reader \in [Session -> {"none", "loop", "read", "close", "report", "done"}]
  /\ cancelled \subseteq Session /\ connClosed \subseteq Session
  /\ process \in [Session -> {"none", "running", "exited"}]
  /\ pending \in [Session -> 0..MaxChunk]
  /\ \A s \in Session : \A i \in DOMAIN sent[s] : sent[s][i] \in {"data", "closed"}
  /\ late \in [Session -> 0..MaxChunk]

Init ==
  /\ execSessions = [c \in CommandID |-> None]
  /\ commandID = [s \in Session |-> ""]
  /\ reader = [s \in Session |-> "none"]
  /\ cancelled = {} /\ connClosed = {}
  /\ process = [s \in Session |-> "none"]
  /\ pending = [s \in Session |-> 0]
  /\ sent = [s \in Session |-> <<>>] /\ late = [s \in Session |-> 0]

-----------------------------------------------------------------------------
(* exec_start.  A container that is not found and an exec that cannot be   *)
(* created or attached are answered with an error and leave no session.    *)
ExecStart(s, c) ==
  /\ \A t \in Session : commandID[t] = "" <=> t >= s
  /\ commandID' = [commandID EXCEPT ![s] = c]
  /\ execSessions' = [execSessions EXCEPT ![c] = s]
  /\ reader' = [reader EXCEPT ![s] = "loop"]
  /\ process' = [process EXCEPT ![s] = "running"]
  /\ UNCHANGED <<cancelled, connClosed, pending, sent, late>>

(* The process in the container, external. *)
Output(s) ==
  /\ process[s] = "running" /\ pending[s] + Len(sent[s]) < MaxChunk
  /\ pending' = [pending EXCEPT ![s] = @ + 1]
  /\ UNCHANGED <<execSessions, commandID, reader, cancelled, connClosed, process, sent,
                 late>>

Exit(s) ==
  /\ process[s] = "running"
  /\ process' = [process EXCEPT ![s] = "exited"]
  /\ UNCHANGED <<execSessions, commandID, reader, cancelled, connClosed, pending,
                 sent, late>>

-----------------------------------------------------------------------------
(* The reader goroutine. *)

ReaderGoto(s, at) ==
  /\ reader' = [reader EXCEPT ![s] = at]
  /\ UNCHANGED <<commandID, cancelled, process>>

ReaderLoop(s) ==
  /\ reader[s] = "loop"
  /\ ReaderGoto(s, IF s \in cancelled THEN "close" ELSE "read")
  /\ UNCHANGED <<execSessions, connClosed, pending, sent, late>>

ReadChunk(s) ==
  /\ reader[s] = "read" /\ pending[s] > 0
  /\ pending' = [pending EXCEPT ![s] = @ - 1]
  /\ sent' = [sent EXCEPT ![s] = Append(@, "data")]
  /\ late' = [late EXCEPT ![s] = IF s \in cancelled THEN @ + 1 ELSE @]
  /\ ReaderGoto(s, "loop")
  /\ UNCHANGED <<execSessions, connClosed>>

(* EOF, once the process has exited and everything was read. *)
ReadEOF(s) ==
  /\ reader[s] = "read" /\ pending[s] = 0 /\ process[s] = "exited"
  /\ ReaderGoto(s, "close")
  /\ UNCHANGED <<execSessions, connClosed, pending, sent, late>>

ReadFails(s) ==
  /\ reader[s] = "read"
  /\ ReaderGoto(s, "close")
  /\ UNCHANGED <<execSessions, connClosed, pending, sent, late>>

(* Mutant of ReaderClose: the entry stays. *)
ReaderCloseKeeps(s) ==
  /\ reader[s] = "close"
  /\ connClosed' = connClosed \cup {s}
  /\ ReaderGoto(s, "report")
  /\ UNCHANGED <<execSessions, pending, sent, late>>

(* The deferred function: it deletes the entry of its command id. *)
ReaderClose(s) ==
  /\ reader[s] = "close"
  /\ connClosed' = connClosed \cup {s}
  /\ execSessions' = [execSessions EXCEPT ![commandID[s]] = None]
  /\ ReaderGoto(s, "report")
  /\ UNCHANGED <<pending, sent, late>>

ReaderReport(s) ==
  /\ reader[s] = "report"
  /\ sent' = [sent EXCEPT ![s] = Append(@, "closed")]
  /\ ReaderGoto(s, "done")
  /\ UNCHANGED <<execSessions, connClosed, pending, late>>

ReaderStep(s) ==
  ReaderLoop(s) \/ ReadChunk(s) \/ ReadEOF(s) \/ ReaderClose(s) \/ ReaderReport(s)

-----------------------------------------------------------------------------
(* exec_input and exec_resize take the session under the lock and use it   *)
(* after, each in a goroutine of its own.  A process answers its input; a  *)
(* connection that is closed by then takes none.                           *)
ExecInput(c) ==
  /\ execSessions[c] # None
  /\ Output(execSessions[c])

ExecClose(c) ==
  /\ execSessions[c] # None
  /\ cancelled' = cancelled \cup {execSessions[c]}
  /\ UNCHANGED <<execSessions, commandID, reader, connClosed, procVars, sent, late>>

(* One pass of the cleanup, under the lock: it removes the sessions that   *)
(* are more than 30 minutes old by then.                                   *)
Cleanup(Old) ==
  LET Orphan == {c \in CommandID : execSessions[c] \in Old} IN
  /\ Orphan # {}
  /\ cancelled' = cancelled \cup {execSessions[c] : c \in Orphan}
  /\ execSessions' = [c \in CommandID |-> IF c \in Orphan THEN None ELSE execSessions[c]]
  /\ UNCHANGED <<commandID, reader, connClosed, procVars, sent, late>>

Next ==
  \/ \E c \in CommandID : (\E s \in Session : ExecStart(s, c)) \/ ExecInput(c) \/ ExecClose(c)
  \/ \E s \in Session : Output(s) \/ Exit(s) \/ ReaderStep(s) \/ ReadFails(s)
  \/ \E Old \in SUBSET Session : Cleanup(Old)

Spec == Init /\ [][Next]_vars

-----------------------------------------------------------------------------
(* Properties *)

Reading(s) == reader[s] \in {"loop", "read", "close"}

(* execSessions holds no session whose reader has closed it, so it does    *)
(* not grow; and a session that nobody cancelled and whose reader runs can *)
(* be reached, so input and close find it, unless its exec_start came      *)
(* twice (main.go:1884 and 1893, the reader deletes by command id).        *)
SessionsReachable ==
  /\ \A c \in CommandID : execSessions[c] # None => Reading(execSessions[c])
  /\ \A s \in Session : Reading(s) /\ s \notin cancelled =>
       \/ execSessions[commandID[s]] = s
       \/ \E t \in Session \ {s} : commandID[t] = commandID[s]

(* However close, cleanup, exit and output fall, what the control plane    *)
(* sees of a session is its data and then one closed, with at most one     *)
(* chunk after the session was cancelled (main.go:1903-1926).              *)
DataThenClosed ==
  \A s \in Session :
    /\ \A i \in DOMAIN sent[s] : sent[s][i] = "closed" =>
         i = Len(sent[s]) /\ reader[s] = "done" /\ s \in connClosed
    /\ reader[s] = "done" => sent[s] # <<>> /\ sent[s][Len(sent[s])] = "closed"
    /\ late[s] <= 1

(* A session that must come to its end: its process has exited, or it was  *)
(* cancelled and its process still writes (main.go:1890-1925).             *)
MustEnd(s) == process[s] = "exited" \/ (s \in cancelled /\ pending[s] > 0)
=============================================================================

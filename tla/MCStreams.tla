----------------------------- MODULE MCStreams -----------------------------
(***************************************************************************)
(* The goroutines that move data off and onto the host, for TLC: the logs  *)
(* of containers and the output of exec sessions to the control plane      *)
(* (LogStreamer, ExecSessions), databases to a backup destination and back *)
(* (SnapshotPipeline, RestorePipeline), and the limiter of warnings on     *)
(* their way to Monitor (WarnLimiter).  They share no state, so each       *)
(* behaviour is of one of them, part, while the others rest in an initial  *)
(* state.                                                                  *)
(***************************************************************************)
EXTENDS SnapshotPipeline, WarnLimiter

CONSTANTS MaxStream, MaxLine, MaxFlap, MaxTurn, TailLines,       \* of LogStreamer
          CommandID, MaxSession, MaxChunk,                       \* of ExecSessions
          MaxLength                                              \* of RestorePipeline

VARIABLES
  part,                                                          \* the one that runs
  alive, log, view, started, tracked, pc, cancel, since, last, pos, lsent,
  stopped, flaps, turns,                                         \* of LogStreamer
  execSessions, commandID, reader, cancelled, connClosed, process, pending, esent,
  late,                                                          \* of ExecSessions
  length, intact, rhandler, rstatus, rexit, copier, written, copyErr, joined, closed,
  outputBroke, panicked                                          \* of RestorePipeline

logVars == <<alive, log, view, started, tracked, pc, cancel, since, last, pos, lsent,
             stopped, flaps, turns>>
execVars == <<execSessions, commandID, reader, cancelled, connClosed, process, pending,
              esent, late>>
restoreVars == <<length, intact, rhandler, rstatus, rexit, copier, written, copyErr, joined,
                 closed, outputBroke, panicked>>
mcVars == <<part, vars, logVars, execVars, restoreVars, limiterVars>>

L == INSTANCE LogStreamer WITH sent <- lsent
E == INSTANCE ExecSessions WITH sent <- esent
R == INSTANCE RestorePipeline WITH handler <- rhandler, status <- rstatus, exit <- rexit

-----------------------------------------------------------------------------
MCInit ==
  /\ part \in {"logs", "sessions", "snapshot", "restore", "warnings"}
  /\ part = "snapshot" \/ (streams = TRUE /\ scheduled = FALSE /\ size = 0)
  /\ part = "restore" \/ (length = 0 /\ intact = TRUE)
  /\ Init /\ L!Init /\ E!Init /\ R!Init /\ LimiterInit

Snapshot(A) ==
  /\ part = "snapshot" /\ A
  /\ UNCHANGED <<part, logVars, execVars, restoreVars, limiterVars>>
Logs(A) ==
  /\ part = "logs" /\ A
  /\ UNCHANGED <<part, vars, execVars, restoreVars, limiterVars>>
Sessions(A) ==
  /\ part = "sessions" /\ A
  /\ UNCHANGED <<part, vars, logVars, restoreVars, limiterVars>>
Restore(A) ==
  /\ part = "restore" /\ A
  /\ UNCHANGED <<part, vars, logVars, execVars, limiterVars>>

MCNext ==
  \/ Snapshot(Next) \/ Logs(L!Next) \/ Sessions(E!Next) \/ Restore(R!Next)
  \/ /\ part = "warnings" /\ LimiterNext
     /\ UNCHANGED <<part, vars, logVars, execVars, restoreVars>>

(* The goroutines keep moving, a write to a pipe whose reader is closed     *)
(* fails, and the processes of a dump and of a restore come to an end.      *)
MCFairSpec ==
  /\ MCInit /\ [][MCNext]_mcVars
  /\ \A g \in 1..MaxStream : WF_logVars(part = "logs" /\ L!StreamStep(g))
  /\ \A s \in 1..MaxSession : WF_execVars(part = "sessions" /\ E!ReaderStep(s))
  /\ WF_vars(part = "snapshot" /\ HandlerStep) /\ WF_vars(part = "snapshot" /\ DumperStep)
  /\ WF_vars(part = "snapshot" /\ GzipStep) /\ WF_vars(part = "snapshot" /\ Orphaned)
  /\ WF_vars(part = "snapshot" /\ (Produce \/ Exits))
  /\ WF_restoreVars(part = "restore" /\ R!HandlerStep)
  /\ WF_restoreVars(part = "restore" /\ R!CopierStep)
  /\ WF_restoreVars(part = "restore" /\ R!Exits)

-----------------------------------------------------------------------------
(* Properties *)

(* Every variable of every component has its type: no more of a dump, a     *)
(* snapshot or a log is copied than there is.                               *)
MCTypeOK ==
  TypeOK /\ L!TypeOK /\ E!TypeOK /\ R!TypeOK /\ LimiterTypeOK

(* Over its streams and all their reconnects every line of the container is *)
(* reported once.  At most one stream is live, the one of ls.tracked,       *)
(* whatever the container does between two syncs; and, "giving us zero      *)
(* duplicates on reconnect" (docker.go:537-538), the lines a stream reports *)
(* are consecutive lines of the log, none twice and none left out, up to    *)
(* the last one when it has read to the end, if their times are in order.   *)
LinesOnce == L!OneLiveStream /\ L!StreamExact

MustEnd(p) ==
  CASE part = "logs" -> L!MustEnd(p)
    [] part = "sessions" -> E!MustEnd(p)
    [] OTHER -> part \in {"snapshot", "restore"}

Over(p) ==
  CASE part = "logs" -> pc[p] = "done"
    [] part = "sessions" -> reader[p] = "done"
    [] part = "snapshot" -> Done
    [] OTHER -> R!Done

(* Every goroutine that copies a stream comes to its end.  That of a log,    *)
(* when it was cancelled or its container is gone (logstreamer.go:149-155,   *)
(* 183-189).  The reader of an exec session, when the process has exited or  *)
(* the session was cancelled and the process still writes (main.go:1890-     *)
(* 1925).  A snapshot and a restore, with an answer and no goroutine left    *)
(* behind, whatever failed, if the process in the container ends: "or the    *)
(* uploader reading pr waits forever with the database's dump open"          *)
(* (docker/snapshot.go:97-98), "or it leaks holding the database's dump      *)
(* open" (snapshot_pipeline.go:94-95), "don't wait on that forever"          *)
(* (docker/snapshot.go:192-193).                                             *)
GoroutinesEnd == \A p \in 1..2 : MustEnd(p) ~> Over(p)

(* However close, cleanup, exit, output and a second exec_start fall, the    *)
(* map of sessions holds those whose reader runs, and the control plane sees *)
(* of each its data and then one closed (main.go:1884-1926).                 *)
SessionsKept == E!SessionsReachable /\ E!DataThenClosed

(* A restore is reported completed only if the whole snapshot was written to *)
(* the process and, when its output was read to the end, it exited 0,        *)
(* however the copy, the process and the output end and in whatever order,   *)
(* unless the copy panicked (docker/snapshot.go:185-219).                    *)
RestoreHonest == R!RestoreHonest
=============================================================================

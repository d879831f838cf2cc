-------------------------- MODULE RestorePipeline --------------------------
(***************************************************************************)
(* One db_restore command: the handler downloads the snapshot to a file,   *)
(* looks up the container, opens the file through maybeGunzip and calls    *)
(* ExecDatabaseRestore, which starts the restore process, writes the       *)
(* snapshot to its stdin from a goroutine of its own, reads its output to  *)
(* the end, joins the goroutine and asks for the exit code.                *)
(*                                                                         *)
(* The snapshot reads as length chunks and then ends, or, when it is a     *)
(* gzip stream that was cut or damaged, fails there.                       *)
(***************************************************************************)
EXTENDS Naturals

CONSTANT MaxLength    \* chunks of the longest snapshot

VARIABLES
  length, intact,  \* the snapshot: chunks that can be read; no read of it fails
  handler,         \* where the handler is
  status,          \* last db_restore_status sent
  exit,            \* the restore process: "none", "running", "ok", "bad"
  copier,          \* the stdin goroutine: "none", "copy", "done"
  written,         \* chunks it has written
  copyErr,         \* the error in its result
  joined,          \* what the handler took for that result: "none", "ok", "error"
  closed,          \* the connection was closed by the handler
  outputBroke,     \* the output stream failed before its end
  panicked         \* the goroutine panicked

snapshot == <<length, intact>>
copyVars == <<copier, written, copyErr, panicked>>
vars == <<snapshot, handler, status, exit, copyVars, joined, closed, outputBroke>>

TypeOK ==
  /\ length \in 0..MaxLength /\ intact \in BOOLEAN
  /\ handler \in {"start", "download", "lookup", "open", "exec", "output", "join",
                  "inspect", "done"}
  /\ status \in {"none", "downloading", "completed", "failed"}
  /\ exit \in {"none", "running", "ok", "bad"}
  /\ copier \in {"none", "copy", "done"}
  /\ written \in 0..MaxLength
  /\ joined \in {"none", "ok", "error"}
  /\ {copyErr, closed, outputBroke, panicked} \subseteq BOOLEAN

Init ==
  /\ length \in 0..MaxLength /\ intact \in BOOLEAN
  /\ handler = "start" /\ status = "none" /\ exit = "none"
  /\ copier = "none" /\ written = 0 /\ copyErr = FALSE /\ joined = "none"
  /\ closed = FALSE /\ outputBroke = FALSE /\ panicked = FALSE

-----------------------------------------------------------------------------
(* The restore process, external.  It exits 0 only at the end of its input *)
(* and having applied all of it; it may die at any time.                   *)

StdinEnded == copier = "done" \/ closed

Exit(code) ==
  /\ exit = "running"
  /\ code = "ok" => StdinEnded
  /\ exit' = code
  /\ UNCHANGED <<snapshot, handler, status, copyVars, joined, closed, outputBroke>>

Exits == \E code \in {"ok", "bad"} : Exit(code)

-----------------------------------------------------------------------------
(* The stdin goroutine: io.Copy, CloseWrite and the result. *)

CopyChunk ==
  /\ copier = "copy" /\ written < length /\ ~closed
  /\ written' = written + 1
  /\ UNCHANGED <<snapshot, handler, status, exit, copier, copyErr, panicked, joined, closed,
                 outputBroke>>

CopyDone(err, panic) ==
  /\ copier = "copy"
  /\ copier' = "done" /\ copyErr' = err /\ panicked' = panic
  /\ UNCHANGED <<snapshot, handler, status, exit, written, joined, closed, outputBroke>>

(* The write fails, for a broken or closed connection or a process that is *)
(* gone, or the read of the snapshot does.                                 *)
CopyFails == (written < length \/ ~intact) /\ CopyDone(TRUE, FALSE)

CopyEnds == written = length /\ intact /\ CopyDone(FALSE, FALSE)

(* telemetry.Recover runs between CloseWrite and the send of the result,   *)
(* whose error nobody has set.                                             *)
CopyPanics == CopyDone(FALSE, TRUE)

(* A write may wait for the process as long as the connection is open. *)
CopierStep == CopyEnds \/ ((closed \/ written = length) /\ CopyFails)

-----------------------------------------------------------------------------
(* The handler. *)

Goto(at) ==
  /\ handler' = at
  /\ UNCHANGED <<snapshot, status, exit, copyVars, joined, closed, outputBroke>>

Reply(s) ==
  /\ handler' = "done" /\ status' = s
  /\ UNCHANGED <<snapshot, exit, copyVars, joined, closed, outputBroke>>

(* A missing or bad name, engine or database. *)
Reject == handler = "start" /\ Reply("failed")

Accept ==
  /\ handler = "start"
  /\ handler' = "download" /\ status' = "downloading"
  /\ UNCHANGED <<snapshot, exit, copyVars, joined, closed, outputBroke>>

(* The destination, the temporary directory or the download. *)
DownloadFails == handler = "download" /\ Reply("failed")
Downloaded == handler = "download" /\ Goto("lookup")

(* The error of the lookup is answered with a db_status. *)
Found == handler = "lookup" /\ Goto("open")
Absent == handler = "lookup" /\ Reply("failed")
LookupFails == handler = "lookup" /\ Reply(status)

(* os.Open and maybeGunzip, which reads a gzip header only.  A plain file  *)
(* has no read that fails.                                                 *)
Opened == handler = "open" /\ Goto("exec")
OpenFails == handler = "open" /\ Reply("failed")

(* An unknown engine, or no exec. *)
ExecFails == handler = "exec" /\ Reply("failed")

ExecStarts ==
  /\ handler = "exec"
  /\ handler' = "output" /\ exit' = "running" /\ copier' = "copy"
  /\ UNCHANGED <<snapshot, status, written, copyErr, panicked, joined, closed, outputBroke>>

(* StdCopy returns; its error is only logged.  The connection is closed.   *)
OutputRead(broke) ==
  /\ handler = "output"
  /\ broke \/ exit \in {"ok", "bad"}
  /\ handler' = "join" /\ closed' = TRUE /\ outputBroke' = broke
  /\ UNCHANGED <<snapshot, status, exit, copyVars, joined>>

(* The result of the goroutine, or none within restoreCopyWait. *)
Join(result) ==
  /\ handler = "join"
  /\ \/ result = "ok" /\ copier = "done" /\ ~copyErr
     \/ result = "error" /\ (copier = "done" => copyErr)
  /\ joined' = result /\ handler' = "inspect"
  /\ UNCHANGED <<snapshot, status, exit, copyVars, closed, outputBroke>>

(* Mutant of Inspect: the exit code alone decides. *)
InspectCodeOnly ==
  /\ handler = "inspect"
  /\ Reply(IF exit = "bad" THEN "failed" ELSE "completed")

(* The exit code of a process that still runs reads as 0. *)
Inspect ==
  /\ handler = "inspect"
  /\ Reply(IF exit = "bad" \/ joined = "error" THEN "failed" ELSE "completed")

InspectFails == handler = "inspect" /\ Reply("failed")

HandlerStep ==
  \/ Reject \/ Accept \/ DownloadFails \/ Downloaded \/ Found \/ Absent \/ LookupFails
  \/ Opened \/ OpenFails \/ ExecFails \/ ExecStarts \/ OutputRead(FALSE)
  \/ \E result \in {"ok", "error"} : Join(result)
  \/ Inspect \/ InspectFails

-----------------------------------------------------------------------------
Done == handler = "done" /\ copier # "copy"

Next ==
  \/ Exits
  \/ CopyChunk \/ CopyFails \/ CopyEnds \/ CopyPanics
  \/ HandlerStep \/ OutputRead(TRUE)
  \/ Done /\ UNCHANGED vars

Spec == Init /\ [][Next]_vars

-----------------------------------------------------------------------------
(* Properties *)

WholeInput == intact /\ written = length

(* A restore is reported completed only when the whole snapshot was        *)
(* written to the process, however the copy, the process and the output    *)
(* stream end and in whatever order, unless the copy panicked; and when    *)
(* the output was read to its end, only if the process exited 0 with it    *)
(* (docker/snapshot.go:185-219).                                           *)
RestoreHonest ==
  status = "completed" /\ ~panicked =>
    /\ WholeInput
    /\ outputBroke \/ exit = "ok"
=============================================================================

-------------------------- MODULE SnapshotPipeline --------------------------
(***************************************************************************)
(* One database snapshot, by command (db_snapshot) or by schedule          *)
(* (handleScheduledSnapshot): the handler, the goroutine of                *)
(* ExecDatabaseDump that feeds the output of the dump process into a pipe, *)
(* and, for a destination that streams, the goroutine of streamSnapshot    *)
(* that compresses from that pipe into a second one, which the upload      *)
(* reads.  For other destinations the handler itself compresses into a     *)
(* temporary file and uploads that.                                        *)
(*                                                                         *)
(* A dump is size chunks.  Compressing adds one item, the gzip trailer, so *)
(* a whole object is size + 1 items.  A pipe is synchronous: a write       *)
(* returns when the reader has taken the data, and fails once the reader   *)
(* is closed; a read returns EOF or the error the writer was closed with.  *)
(***************************************************************************)
EXTENDS Naturals

CONSTANTS
  MaxSize,   \* chunks of the largest dump
  Buffer     \* items the buffered writer keeps, snapshotUploadBuffer

ASSUME SizesAssumption == MaxSize \in Nat /\ Buffer \in Nat

VARIABLES
  streams,     \* the destination is a StreamUploader
  scheduled,   \* started by the scheduler
  expired,     \* the 30 minutes of a scheduled snapshot are over
  size,        \* chunks of a complete dump
  out,         \* chunks the dump process has written
  exit,        \* the dump process: "none", "running", "ok", "bad"
  dumper,      \* goroutine of ExecDatabaseDump: "none", "copy", "inspect", "done"
  taken,       \* chunks taken from the first pipe
  dumpEnd,     \* how its writer was closed: "open", "eof", "error"
  dumpClosed,  \* its reader was closed
  gzipper,     \* goroutine of streamSnapshot: "none", "read", "write", "flush", "done"
  gzipped,     \* items given to the buffered writer
  passed,      \* items that left it, for the second pipe or the file
  uploadEnd,   \* how the writer of the second pipe was closed
  uploadClosed,\* its reader was closed
  handler,     \* where the handler is
  status,      \* last db_snapshot_status sent
  object       \* items stored under the name of the snapshot, 0 for no object

dumpVars == <<out, exit, dumper, dumpEnd>>
gzipVars == <<gzipper, uploadEnd>>
kind == <<streams, scheduled, size>>
vars == <<kind, expired, dumpVars, taken, dumpClosed, gzipVars, gzipped, passed,
          uploadClosed, handler, status, object>>

Ends == {"open", "eof", "error"}

TypeOK ==
  /\ streams \in BOOLEAN /\ scheduled \in BOOLEAN /\ expired \in BOOLEAN
  /\ size \in 0..MaxSize /\ out \in 0..MaxSize /\ taken \in 0..MaxSize
  /\ exit \in {"none", "running", "ok", "bad"}
  /\ dumper \in {"none", "copy", "inspect", "done"}
  /\ dumpEnd \in Ends /\ dumpClosed \in BOOLEAN
  /\ gzipper \in {"none", "read", "write", "flush", "done"}
  /\ gzipped \in 0..(MaxSize + 1) /\ passed \in 0..(MaxSize + 1)
  /\ uploadEnd \in Ends /\ uploadClosed \in BOOLEAN
  /\ handler \in {"start", "lookup", "destination", "dump", "upload", "part", "finish",
                  "stage", "put", "stored", "failed", "done"}
  /\ status \in {"none", "uploading", "completed", "failed"}
  /\ object \in 0..(MaxSize + 1)

Init ==
  /\ streams \in BOOLEAN /\ scheduled \in BOOLEAN /\ size \in 0..MaxSize
  /\ expired = FALSE
  /\ out = 0 /\ exit = "none" /\ dumper = "none" /\ taken = 0
  /\ dumpEnd = "open" /\ dumpClosed = FALSE
  /\ gzipper = "none" /\ gzipped = 0 /\ passed = 0
  /\ uploadEnd = "open" /\ uploadClosed = FALSE
  /\ handler = "start" /\ status = "none" /\ object = 0

-----------------------------------------------------------------------------
(* The dump process in the container, external.  It writes its chunks and  *)
(* exits 0 when it has written them all, or dies at any time.  Docker ends *)
(* the stream when the process has exited.                                 *)

Produce ==
  /\ exit = "running" /\ out < size
  /\ out' = out + 1
  /\ UNCHANGED <<kind, expired, exit, dumper, dumpEnd, taken, dumpClosed, gzipVars, gzipped,
                 passed, uploadClosed, handler, status, object>>

Exit(code) ==
  /\ exit = "running"
  /\ code = "ok" => out = size
  /\ exit' = code
  /\ UNCHANGED <<kind, expired, out, dumper, dumpEnd, taken, dumpClosed, gzipVars, gzipped,
                 passed, uploadClosed, handler, status, object>>

Exits == \E code \in {"ok", "bad"} : Exit(code)

-----------------------------------------------------------------------------
(* The goroutine of ExecDatabaseDump. *)

(* It closes its pipe, with an error or with EOF, and ends. *)
CloseDump(end) ==
  /\ dumper' = "done" /\ dumpEnd' = end
  /\ UNCHANGED <<kind, expired, out, exit, taken, dumpClosed, gzipVars, gzipped, passed,
                 uploadClosed, handler, status, object>>

(* StdCopy fails: the connection broke, or the reader of the pipe is gone  *)
(* when there is a chunk to write.  A panic closes the pipe the same way.  *)
DumpCopyFails == dumper = "copy" /\ CloseDump("error")

(* A write to a pipe whose reader is closed. *)
Orphaned == dumpClosed /\ taken < out /\ DumpCopyFails

DumpPanics == dumper = "inspect" /\ CloseDump("error")

DumpCopyEnds ==
  /\ dumper = "copy" /\ exit \in {"ok", "bad"} /\ taken = out
  /\ dumper' = "inspect"
  /\ UNCHANGED <<kind, expired, out, exit, dumpEnd, taken, dumpClosed, gzipVars, gzipped,
                 passed, uploadClosed, handler, status, object>>

(* Mutant of DumpInspect: the exit code is not looked at. *)
DumpInspectBlind ==
  /\ dumper = "inspect"
  /\ \E seen \in {"answered", "lost"} : CloseDump(IF seen = "answered" THEN "eof" ELSE "error")

(* The exit code decides between EOF and an error. *)
DumpInspect ==
  /\ dumper = "inspect"
  /\ \E seen \in {"answered", "lost"} :
       CloseDump(IF seen = "answered" /\ exit = "ok" THEN "eof" ELSE "error")

(* The goroutine can move without a reader. *)
DumperStep == DumpCopyEnds \/ DumpInspect

-----------------------------------------------------------------------------
(* The goroutine of streamSnapshot. *)

(* A chunk goes from the dumper to the reader of the first pipe and into   *)
(* its compressor.                                                         *)
TakeChunk ==
  /\ dumper = "copy" /\ taken < out /\ ~dumpClosed
  /\ taken' = taken + 1 /\ gzipped' = gzipped + 1

GzipRead ==
  /\ gzipper = "read"
  /\ TakeChunk
  /\ gzipper' = IF gzipped' - passed > Buffer THEN "write" ELSE "read"
  /\ UNCHANGED <<kind, expired, dumpVars, dumpClosed, uploadEnd, passed, uploadClosed,
                 handler, status, object>>

CloseUpload(end) ==
  /\ gzipper' = "done" /\ uploadEnd' = end
  /\ UNCHANGED <<kind, expired, dumpVars, taken, dumpClosed, gzipped, passed, uploadClosed,
                 handler, status, object>>

(* "CloseWithError, never Close" (snapshot_pipeline.go:73). *)
GzipReadFails ==
  /\ gzipper = "read" /\ (dumpEnd = "error" \/ dumpClosed)
  /\ CloseUpload("error")

(* The end of the dump: gz.Close adds the trailer. *)
GzipEnd ==
  /\ gzipper = "read" /\ dumpEnd = "eof" /\ ~dumpClosed
  /\ gzipped' = gzipped + 1 /\ gzipper' = "flush"
  /\ UNCHANGED <<kind, expired, dumpVars, taken, dumpClosed, uploadEnd, passed,
                 uploadClosed, handler, status, object>>

Pending == gzipper = "write" \/ (gzipper = "flush" /\ passed < gzipped)

(* One item of the buffer goes to the upload, which reads it. *)
GzipWrite ==
  /\ Pending /\ handler = "upload" /\ ~uploadClosed
  /\ passed' = passed + 1 /\ handler' = "part"
  /\ gzipper' = IF gzipper = "write" /\ gzipped - passed' <= Buffer THEN "read" ELSE gzipper
  /\ UNCHANGED <<kind, expired, dumpVars, taken, dumpClosed, gzipped, uploadEnd,
                 uploadClosed, status, object>>

GzipWriteFails == Pending /\ uploadClosed /\ CloseUpload("error")

GzipFlushed == gzipper = "flush" /\ passed = gzipped /\ CloseUpload("eof")

(* The recover of the goroutine (snapshot_pipeline.go:60-67). *)
GzipPanics == gzipper \in {"read", "write", "flush"} /\ CloseUpload("error")

GzipStep == GzipRead \/ GzipReadFails \/ GzipEnd \/ GzipWrite \/ GzipWriteFails \/ GzipFlushed

-----------------------------------------------------------------------------
(* The handler. *)

Goto(at) ==
  /\ handler' = at
  /\ UNCHANGED <<kind, expired, dumpVars, taken, dumpClosed, gzipVars, gzipped, passed,
                 uploadClosed, status, object>>

Reply(s) ==
  /\ handler' = "done" /\ status' = s
  /\ UNCHANGED <<kind, expired, dumpVars, taken, dumpClosed, gzipVars, gzipped, passed,
                 uploadClosed, object>>

(* A missing or bad name, engine, database or destination. *)
Reject == handler = "start" /\ Reply("failed")

Accept ==
  /\ handler = "start"
  /\ handler' = "lookup" /\ status' = "uploading"
  /\ UNCHANGED <<kind, expired, dumpVars, taken, dumpClosed, gzipVars, gzipped, passed,
                 uploadClosed, object>>

(* FindContainerByName.  On an error db_snapshot answers with a db_status, *)
(* which leaves the status of the snapshot as it was.                      *)
Found == handler = "lookup" /\ ~expired /\ Goto("destination")
Absent == handler = "lookup" /\ Reply("failed")
LookupFails == handler = "lookup" /\ Reply(IF scheduled THEN "failed" ELSE status)

DestinationOk == handler = "destination" /\ Goto("dump")
DestinationFails == handler = "destination" /\ Reply("failed")

(* ExecDatabaseDump returns the reader of its pipe, or an error. *)
DumpFails == handler = "dump" /\ Reply("failed")

DumpStarts ==
  /\ handler = "dump" /\ ~expired
  /\ exit' = "running" /\ dumper' = "copy"
  /\ handler' = IF streams THEN "upload" ELSE "stage"
  /\ gzipper' = IF streams THEN "read" ELSE "none"
  /\ UNCHANGED <<kind, expired, out, dumpEnd, taken, dumpClosed, gzipped, passed, uploadEnd,
                 uploadClosed, status, object>>

(* UploadStream goes on to the next part, or a part failed; once the       *)
(* context has expired every request fails.                                *)
PartStored == handler = "part" /\ ~expired /\ Goto("upload")

(* Mutant of UploadFails: the reader of the second pipe is not closed. *)
UploadFailsOpen ==
  /\ \/ handler = "part"
     \/ handler = "upload" /\ uploadEnd = "error"
  /\ Goto("failed")

UploadFails ==
  /\ \/ handler = "part"
     \/ handler = "upload" /\ uploadEnd = "error"
  /\ handler' = "failed" /\ uploadClosed' = TRUE
  /\ UNCHANGED <<kind, expired, dumpVars, taken, dumpClosed, gzipVars, gzipped, passed,
                 status, object>>

UploadRead == handler = "upload" /\ uploadEnd = "eof" /\ Goto("finish")

(* The upload is completed; an answer that is lost reads as a failure. *)
FinishUpload ==
  /\ handler = "finish"
  /\ \E stored \in BOOLEAN, answered \in BOOLEAN :
       /\ stored => ~expired
       /\ object' = IF stored THEN passed ELSE object
       /\ handler' = IF stored /\ answered THEN "stored" ELSE "failed"
       /\ uploadClosed' = ~(stored /\ answered)
  /\ UNCHANGED <<kind, expired, dumpVars, taken, dumpClosed, gzipVars, gzipped, passed,
                 status>>

(* stageAndUpload: a chunk goes into the temporary file. *)
StageChunk ==
  /\ handler = "stage"
  /\ TakeChunk /\ passed' = passed + 1
  /\ UNCHANGED <<kind, expired, dumpVars, dumpClosed, gzipVars, uploadClosed, handler,
                 status, object>>

(* The file is finished: trailer, flush and close. *)
StageEnd ==
  /\ handler = "stage" /\ dumpEnd = "eof"
  /\ gzipped' = gzipped + 1 /\ passed' = passed + 1 /\ handler' = "put"
  /\ UNCHANGED <<kind, expired, dumpVars, taken, dumpClosed, gzipVars, uploadClosed, status,
                 object>>

(* An error of the dump, or one of the file or its directory. *)
StageReadFails == handler = "stage" /\ dumpEnd = "error" /\ Goto("failed")
StageFileFails == handler = "stage" /\ Goto("failed")

(* dest.Upload of the file.  A put that fails may leave part of it. *)
Put ==
  /\ handler = "put"
  /\ \/ ~expired /\ object' = passed /\ handler' = "stored"
     \/ object' \in 0..passed /\ handler' = "failed"
  /\ UNCHANGED <<kind, expired, dumpVars, taken, dumpClosed, gzipVars, gzipped, passed,
                 uploadClosed, status>>

(* streamSnapshot returns, which closes the reader of the dump, and the    *)
(* handler reports.                                                        *)
Return ==
  /\ handler \in {"stored", "failed"}
  /\ dumpClosed' = TRUE /\ handler' = "done"
  /\ status' = IF handler = "stored" THEN "completed" ELSE "failed"
  /\ UNCHANGED <<kind, expired, dumpVars, taken, gzipVars, gzipped, passed, uploadClosed,
                 object>>

(* The context of a scheduled snapshot ends after 30 minutes. *)
Expire ==
  /\ scheduled /\ ~expired /\ status # "none" /\ handler # "done"
  /\ expired' = TRUE
  /\ UNCHANGED <<kind, dumpVars, taken, dumpClosed, gzipVars, gzipped, passed, uploadClosed,
                 handler, status, object>>

HandlerStep ==
  \/ Reject \/ Accept \/ Found \/ Absent \/ LookupFails \/ DestinationOk \/ DestinationFails
  \/ DumpFails \/ DumpStarts \/ PartStored \/ UploadFails \/ UploadRead \/ FinishUpload
  \/ StageChunk \/ StageEnd \/ StageReadFails \/ Put \/ Return

-----------------------------------------------------------------------------
Done == handler = "done" /\ dumper \in {"none", "done"} /\ gzipper \in {"none", "done"}

Next ==
  \/ Produce \/ Exits
  \/ DumpCopyFails \/ DumpPanics \/ DumperStep
  \/ GzipStep \/ GzipPanics
  \/ HandlerStep \/ StageFileFails
  \/ Expire
  \/ Done /\ UNCHANGED vars

Spec == Init /\ [][Next]_vars

(* The goroutines run, and a write to a closed pipe fails.  Nothing is     *)
(* said of the dump process.                                               *)
RunsSpec ==
  /\ Spec
  /\ WF_vars(HandlerStep) /\ WF_vars(DumperStep) /\ WF_vars(GzipStep) /\ WF_vars(Expire)
  /\ WF_vars(Orphaned)

-----------------------------------------------------------------------------
(* Properties *)

(* What is stored, for SnapshotVerdict. *)
Stored ==
  CASE object = 0 -> "none"
    [] object # 0 /\ exit = "ok" /\ object = size + 1 -> "whole"
    [] OTHER -> "torn"

Outcome == INSTANCE SnapshotVerdict WITH atomic <- streams, object <- Stored

(* "A dump that dies partway must not produce a stored object"             *)
(* (snapshot_pipeline.go:29-30): whatever fails and whenever, the snapshot *)
(* is one of SnapshotVerdict.                                              *)
AllOrNothing == Outcome!Spec

(* "a snapshot already under way runs to completion (bounded by the        *)
(* timeout)" (main.go:3452-3453): when its 30 minutes are over, a          *)
(* scheduled snapshot ends.                                                *)
TimeoutEnds == expired ~> handler = "done"
=============================================================================

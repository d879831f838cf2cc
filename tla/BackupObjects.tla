--------------------------- MODULE BackupObjects ---------------------------
(***************************************************************************)
(* The objects of one name at a backup destination, under the operations   *)
(* of package backup that the commands call, each in a handler of its own: *)
(* Upload (of a staged snapshot or of a db_mirror_snapshot), Delete        *)
(* (db_delete_snapshot_file) and Download (db_restore, and the source of a *)
(* mirror).                                                                *)
(*                                                                         *)
(* Google Drive knows files by id and allows many of one name; a request   *)
(* names an id that an earlier request looked up.  At S3 and on a Samba    *)
(* share the name is the object.  S3 replaces an object in one step, and   *)
(* a put that fails on a share may leave part of the file.  A request may  *)
(* fail, and its answer may be lost when it has been done.                 *)
(***************************************************************************)
EXTENDS Naturals, FiniteSets

CONSTANT Cmd     \* the commands

VARIABLES
  drive,    \* the destination is Google Drive
  torn,     \* a failed put may leave part of a file, as on a share
  op,       \* what a command does: "upload", "delete", "download"
  files,    \* the files of the name: a function from their ids to contents
  made,     \* the ids given so far are 1 .. made
  pc,       \* where each command is
  found,    \* the ids its lookup returned and that it has not yet worked on
  reply,    \* what it has reported: "none", "ok", "failed"
  met,      \* the commands whose runs overlap that of a command
  kept      \* a command whose Delete of a duplicate failed, which is ignored

site == <<drive, torn, op>>
vars == <<site, files, made, pc, found, reply, met, kept>>

MaxId == Cardinality(Cmd) + 1      \* each command creates at most one file
Torn == "torn"
Before == "before"       \* the content of a file that was there at the start

TypeOK ==
  /\ drive \in BOOLEAN /\ torn \in BOOLEAN
  /\ op \in [Cmd -> {"upload", "delete", "download"}]
  /\ made \in 1..MaxId /\ DOMAIN files \subseteq 1..made
  /\ \A i \in DOMAIN files : files[i] \in Cmd \cup {Torn, Before}
  /\ pc \in [Cmd -> {"start", "find", "write", "dedupe", "done"}]
  /\ found \in [Cmd -> SUBSET (1..made)]
  /\ reply \in [Cmd -> {"none", "ok", "failed"}]
  /\ met \in [Cmd -> SUBSET Cmd] /\ kept \subseteq Cmd

Uploads(c) == op[c] = "upload"
Running(c) == pc[c] \notin {"start", "done"}

(* The name is free, or one earlier upload used it. *)
Init ==
  /\ drive \in BOOLEAN /\ torn \in IF drive THEN {FALSE} ELSE BOOLEAN
  /\ op \in [Cmd -> {"upload", "delete", "download"}]
  /\ files \in {<<>>, <<Before>>} /\ made = 1
  /\ pc = [c \in Cmd |-> "start"]
  /\ found = [c \in Cmd |-> {}]
  /\ reply = [c \in Cmd |-> "none"]
  /\ met = [c \in Cmd |-> {}] /\ kept = {}

-----------------------------------------------------------------------------
Set(i, content) == [j \in DOMAIN files \cup {i} |-> IF j = i THEN content ELSE files[j]]
Without(i) == [j \in DOMAIN files \ {i} |-> files[j]]

(* At S3 and on a share the name itself identifies the only file. *)
NameId == 1

End(c, r) ==
  /\ pc' = [pc EXCEPT ![c] = "done"] /\ reply' = [reply EXCEPT ![c] = r]
  /\ found' = [found EXCEPT ![c] = {}]
  /\ UNCHANGED <<site, met>>

(* The handler starts, with the temporary file it uploads, or NewDestination *)
(* or, for a mirror, the Download from its source has failed.                *)
Start(c) ==
  /\ pc[c] = "start"
  /\ pc' = [pc EXCEPT ![c] = "find"]
  /\ LET now == {d \in Cmd : Running(d)} IN
       met' = [d \in Cmd |-> IF d = c THEN now
                             ELSE IF d \in now THEN met[d] \cup {c} ELSE met[d]]
  /\ UNCHANGED <<site, files, made, found, reply, kept>>

Unusable(c) == pc[c] = "start" /\ End(c, "failed") /\ UNCHANGED <<files, made, kept>>

(* findByName returns all ids; Delete and Download ask for the first only, *)
(* in whatever order Drive lists them.  Nothing is looked up elsewhere.    *)
Find(c) ==
  /\ pc[c] = "find"
  /\ found' = [found EXCEPT ![c] = IF drive THEN DOMAIN files ELSE {NameId}]
  /\ pc' = [pc EXCEPT ![c] = "write"]
  /\ UNCHANGED <<site, files, made, reply, met, kept>>

FindFails(c) ==
  /\ drive /\ pc[c] = "find"
  /\ End(c, "failed") /\ UNCHANGED <<files, made, kept>>

(* Files.Create, for a name that was not found. *)
Create(c) ==
  /\ pc[c] = "write" /\ Uploads(c) /\ found[c] = {}
  /\ \E r \in {"ok", "failed"} : End(c, r)
  /\ made' = made + 1 /\ files' = Set(made', c)
  /\ UNCHANGED kept

(* Files.Update of the first id; the object is put elsewhere. *)
Update(c, i) ==
  /\ pc[c] = "write" /\ Uploads(c) /\ i \in found[c]
  /\ drive => i \in DOMAIN files
  /\ files' = Set(i, c)
  /\ \/ /\ pc' = [pc EXCEPT ![c] = "dedupe"]
        /\ found' = [found EXCEPT ![c] = @ \ {i}]
        /\ UNCHANGED <<site, reply, met>>
     \/ End(c, "failed")
  /\ UNCHANGED <<made, kept>>

(* Mutant of WriteFails: the error is not returned. *)
WriteFailsUnseen(c) ==
  /\ pc[c] = "write" /\ Uploads(c)
  /\ End(c, "ok") /\ UNCHANGED <<files, made, kept>>

(* The write is not done, or only in part. *)
WriteFails(c) ==
  /\ pc[c] = "write" /\ Uploads(c)
  /\ End(c, "failed")
  /\ files' \in {files} \cup IF torn THEN {Set(NameId, Torn)} ELSE {}
  /\ UNCHANGED <<made, kept>>

(* The duplicates are deleted one by one, at best effort. *)
Dedupe(c, i, gone) ==
  /\ pc[c] = "dedupe" /\ i \in found[c]
  /\ found' = [found EXCEPT ![c] = @ \ {i}]
  /\ files' = IF gone THEN Without(i) ELSE files
  /\ kept' = IF gone THEN kept ELSE kept \cup {c}
  /\ UNCHANGED <<site, made, pc, reply, met>>

Deduped(c) ==
  /\ pc[c] = "dedupe" /\ found[c] = {}
  /\ End(c, "ok") /\ UNCHANGED <<files, made, kept>>

(* Delete of a name with no file succeeds; so does that of an S3 object    *)
(* that is not there, while a share reports an error.                      *)
DeleteNone(c) ==
  /\ pc[c] = "write" /\ op[c] = "delete"
  /\ IF drive THEN found[c] = {} ELSE files = <<>>
  /\ \E r \in {"ok", "failed"} : End(c, r)
  /\ UNCHANGED <<files, made, kept>>

Delete(c, i) ==
  /\ pc[c] = "write" /\ op[c] = "delete" /\ i \in found[c] /\ i \in DOMAIN files
  /\ \E r \in {"ok", "failed"} : End(c, r)
  /\ files' = Without(i)
  /\ UNCHANGED <<made, kept>>

DeleteFails(c) ==
  /\ pc[c] = "write" /\ op[c] = "delete"
  /\ End(c, "failed") /\ UNCHANGED <<files, made, kept>>

(* Download ends with the whole file, or with an error, after which the    *)
(* temporary directory is removed.                                         *)
Download(c) ==
  /\ pc[c] = "write" /\ op[c] = "download"
  /\ \/ \E i \in found[c] : i \in DOMAIN files /\ End(c, "ok")
     \/ End(c, "failed")
  /\ UNCHANGED <<files, made, kept>>

Step(c) ==
  \/ Start(c) \/ Unusable(c) \/ Find(c) \/ FindFails(c)
  \/ Create(c) \/ WriteFails(c) \/ Deduped(c)
  \/ \E i \in 1..made : Update(c, i) \/ (\E gone \in BOOLEAN : Dedupe(c, i, gone)) \/ Delete(c, i)
  \/ DeleteNone(c) \/ DeleteFails(c) \/ Download(c)

AllDone == \A c \in Cmd : pc[c] = "done"

Next == (\E c \in Cmd : Step(c)) \/ (AllDone /\ UNCHANGED vars)

Spec == Init /\ [][Next]_vars

-----------------------------------------------------------------------------
(* Properties *)

Overlapping == \E c \in Cmd : Uploads(c) /\ \E d \in met[c] : Uploads(d)

(* "Keep the name a stable, single object" (gdrive.go:67): unless two      *)
(* uploads of the name ran at the same time there is never a second file,  *)
(* retries after lost answers included.                                    *)
OneObject == Overlapping \/ Cardinality(DOMAIN files) <= 1

(* What a command that met no other one reports is so.  After an upload    *)
(* the name is one file with its content, whatever duplicates were there,  *)
(* unless the deletion of one failed; after a Delete no file is left if    *)
(* there was at most one.                                                  *)
ReportsTrue ==
  [][\A c \in Cmd : reply[c] = "none" /\ reply'[c] = "ok" /\ met[c] = {} =>
       /\ Uploads(c) /\ c \notin kept => \E i \in 1..MaxId : files' = [j \in {i} |-> c]
       /\ op[c] = "delete" /\ Cardinality(DOMAIN files) <= 1 => files' = <<>>]_vars
=============================================================================

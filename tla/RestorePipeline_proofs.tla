----------------------- MODULE RestorePipeline_proofs -----------------------
(* Proofs about RestorePipeline, for every length of the snapshot. *)
EXTENDS RestorePipeline, TLAPS

(* The goroutine that ended without an error and without a panic has        *)
(* written all of it.                                                       *)
Copied ==
  /\ written <= length
  /\ copier = "done" /\ ~copyErr /\ ~panicked => WholeInput

(* What the handler knows by where it is. *)
Known ==
  /\ handler \in {"start", "download", "lookup", "open", "exec"} => copier = "none"
  /\ joined = "ok" => copier = "done" /\ ~copyErr
  /\ handler \in {"join", "inspect"} => outputBroke \/ exit \in {"ok", "bad"}
  /\ handler = "inspect" => joined \in {"ok", "error"}
  /\ handler # "done" => status # "completed"
  /\ status = "completed" => joined = "ok" /\ (outputBroke \/ exit = "ok")

(* The types the proof needs, without the bound on the length. *)
Types ==
  /\ length \in Nat /\ written \in Nat
  /\ {intact, copyErr, outputBroke, panicked} \subseteq BOOLEAN

(* The inductive invariant. *)
RInv == Types /\ Copied /\ Known

(* The initial states satisfy RInv. *)
LEMMA InitRInv == Init => RInv
<1> SUFFICES ASSUME Init PROVE RInv
  OBVIOUS
<1>1. length \in Nat /\ written \in Nat /\ written <= length
  BY DEF Init
<1>2. {intact, copyErr, outputBroke, panicked} \subseteq BOOLEAN
  BY DEF Init
<1>3. copier = "none" /\ joined = "none" /\ handler = "start" /\ status = "none"
  BY DEF Init
<1> QED BY <1>1, <1>2, <1>3 DEF RInv, Types, Copied, Known

(* Every step of the process, the goroutine and the handler keeps RInv. *)
LEMMA StepRInv == RInv /\ [Next]_vars => RInv'
<1> SUFFICES ASSUME RInv, [Next]_vars PROVE RInv'
  OBVIOUS
<1> USE DEF RInv, Types, Copied, Known, WholeInput, snapshot, copyVars
<1>1. CASE Exits
  BY <1>1 DEF Exits, Exit
<1>2. CASE CopyChunk
  BY <1>2 DEF CopyChunk
<1>3. CASE CopyFails \/ CopyEnds \/ CopyPanics
  BY <1>3 DEF CopyFails, CopyEnds, CopyPanics, CopyDone
<1>4. CASE Reject \/ DownloadFails \/ Absent \/ LookupFails \/ OpenFails \/ ExecFails
  BY <1>4 DEF Reject, DownloadFails, Absent, LookupFails, OpenFails, ExecFails, Reply
<1>5. CASE Accept
  BY <1>5 DEF Accept
<1>6. CASE Downloaded \/ Found \/ Opened
  BY <1>6 DEF Downloaded, Found, Opened, Goto
<1>7. CASE ExecStarts
  BY <1>7 DEF ExecStarts
<1>8. ASSUME NEW broke \in BOOLEAN, OutputRead(broke) PROVE RInv'
  BY <1>8 DEF OutputRead
<1>9. ASSUME NEW result \in {"ok", "error"}, Join(result) PROVE RInv'
  BY <1>9 DEF Join
<1>10. CASE Inspect \/ InspectFails
  BY <1>10 DEF Inspect, InspectFails, Reply
<1>11. CASE UNCHANGED vars
  BY <1>11 DEF vars
<1> QED
  BY <1>1, <1>2, <1>3, <1>4, <1>5, <1>6, <1>7, <1>8, <1>9, <1>10, <1>11 DEF Next, HandlerStep

(* A restore that is reported completed was given the whole snapshot and,   *)
(* if its output was read to the end, exited 0, unless the goroutine that   *)
(* writes to it panicked (docker/snapshot.go:185-219).                      *)
THEOREM CompletedRestoreIsWhole == Spec => []RestoreHonest
<1>1. RInv => RestoreHonest
  BY DEF RInv, Copied, Known, RestoreHonest
<1> QED BY <1>1, InitRInv, StepRInv, PTL DEF Spec
=============================================================================

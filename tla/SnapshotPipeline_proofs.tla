----------------------- MODULE SnapshotPipeline_proofs -----------------------
(* Proofs about SnapshotPipeline, for every size of the dump and of the     *)
(* upload buffer: a snapshot implements SnapshotVerdict.                    *)
EXTENDS SnapshotPipeline, TLAPS

(* Nothing is read before it was written. *)
Counts == out <= size /\ taken <= out /\ passed <= gzipped

(* The first pipe ends with EOF only behind all of a dump that exited 0. *)
Dumped ==
  /\ exit = "ok" => out = size
  /\ dumper = "inspect" => exit \in {"ok", "bad"} /\ taken = out
  /\ dumpEnd = "eof" => dumper = "done" /\ exit = "ok" /\ taken = size

(* The second ends with EOF only behind all of that and the trailer. *)
Compressed ==
  /\ gzipper \in {"read", "write"} => gzipped = taken
  /\ gzipper = "write" => passed + Buffer < gzipped
  /\ gzipper = "flush" => dumpEnd = "eof" /\ gzipped = taken + 1
  /\ uploadEnd = "eof" =>
       gzipper = "done" /\ dumpEnd = "eof" /\ gzipped = taken + 1 /\ passed = gzipped
  /\ ~streams => gzipper = "none"

Untouched == exit = "none" /\ dumper = "none" /\ gzipper = "none" /\ uploadEnd = "open"
             /\ taken = 0 /\ gzipped = 0 /\ passed = 0

(* Where the handler is tells what it has seen and stored. *)
Handled ==
  /\ handler \in {"start", "lookup", "destination", "dump"} => Untouched
  /\ handler \in {"upload", "part", "finish"} => streams
  /\ handler = "finish" => uploadEnd = "eof"
  /\ handler = "stage" => ~streams /\ gzipped = taken /\ passed = taken
  /\ handler = "put" => ~streams /\ dumpEnd = "eof" /\ passed = taken + 1
  /\ handler = "stored" => object = size + 1 /\ exit = "ok"
  /\ object # 0 =>
       handler \in {"stored", "failed", "done"} /\ exit = "ok" /\ (streams => object = size + 1)
  /\ handler = "start" <=> status = "none"
  /\ handler \notin {"start", "done"} => status = "uploading"

(* The inductive invariant. *)
IInv == TypeOK /\ Counts /\ Dumped /\ Compressed /\ Handled

(* The initial states satisfy IInv. *)
LEMMA InitKeeps == Init => IInv
<1> SUFFICES ASSUME Init PROVE IInv
  OBVIOUS
<1>1. TypeOK
  <2>1. /\ streams \in BOOLEAN /\ scheduled \in BOOLEAN /\ expired \in BOOLEAN
        /\ dumpClosed \in BOOLEAN /\ uploadClosed \in BOOLEAN
    BY Zenon DEF Init
  <2>2. /\ size \in 0..MaxSize /\ {out, taken} \subseteq 0..MaxSize
        /\ {gzipped, passed, object} \subseteq 0..(MaxSize + 1)
    BY SizesAssumption DEF Init
  <2>3. /\ exit = "none" /\ dumper = "none" /\ gzipper = "none" /\ handler = "start"
        /\ dumpEnd = "open" /\ uploadEnd = "open" /\ status = "none"
    BY DEF Init
  <2> QED BY <2>1, <2>2, <2>3 DEF TypeOK, Ends
<1>2. Counts /\ Dumped /\ Compressed /\ Handled
  BY SizesAssumption DEF Init, Counts, Dumped, Compressed, Handled, Untouched
<1> QED BY <1>1, <1>2 DEF IInv

(* Every step of the processes and goroutines of a snapshot keeps IInv. *)
LEMMA StepKeeps == IInv /\ [Next]_vars => IInv'
<1> SUFFICES ASSUME IInv, [Next]_vars PROVE IInv'
  OBVIOUS
<1> USE SizesAssumption DEF IInv, TypeOK, Ends, Counts, Dumped, Compressed, Handled, Untouched,
        kind, dumpVars, gzipVars
<1>1. CASE Produce
  BY <1>1 DEF Produce
<1>2. CASE Exits
  BY <1>2 DEF Exits, Exit
<1>3. CASE DumpCopyFails
  BY <1>3 DEF DumpCopyFails, CloseDump
<1>4. CASE DumpPanics
  BY <1>4 DEF DumpPanics, CloseDump
<1>5. CASE DumpCopyEnds
  BY <1>5 DEF DumpCopyEnds
<1>6. CASE DumpInspect
  BY <1>6 DEF DumpInspect, CloseDump
<1>7. CASE GzipRead
  BY <1>7 DEF GzipRead, TakeChunk
<1>8. CASE GzipReadFails
  BY <1>8 DEF GzipReadFails, CloseUpload
<1>9. CASE GzipEnd
  BY <1>9 DEF GzipEnd
<1>10. CASE GzipWrite
  BY <1>10 DEF GzipWrite, Pending
<1>11. CASE GzipWriteFails
  BY <1>11 DEF GzipWriteFails, CloseUpload, Pending
<1>12. CASE GzipFlushed
  BY <1>12 DEF GzipFlushed, CloseUpload
<1>13. CASE GzipPanics
  BY <1>13 DEF GzipPanics, CloseUpload
<1>14. CASE Reject
  BY <1>14 DEF Reject, Reply
<1>15. CASE Accept
  BY <1>15 DEF Accept
<1>16. CASE Found
  BY <1>16 DEF Found, Goto
<1>17. CASE Absent \/ LookupFails
  BY <1>17 DEF Absent, LookupFails, Reply
<1>18. CASE DestinationOk
  BY <1>18 DEF DestinationOk, Goto
<1>19. CASE DestinationFails \/ DumpFails
  BY <1>19 DEF DestinationFails, DumpFails, Reply
<1>20. CASE DumpStarts
  BY <1>20 DEF DumpStarts
<1>21. CASE PartStored
  BY <1>21 DEF PartStored, Goto
<1>22. CASE UploadFails
  BY <1>22 DEF UploadFails
<1>23. CASE UploadRead
  BY <1>23 DEF UploadRead, Goto
<1>24. CASE FinishUpload
  BY <1>24 DEF FinishUpload
<1>25. CASE StageChunk
  BY <1>25 DEF StageChunk, TakeChunk
<1>26. CASE StageEnd
  BY <1>26 DEF StageEnd
<1>27. CASE StageReadFails \/ StageFileFails
  BY <1>27 DEF StageReadFails, StageFileFails, Goto
<1>28. CASE Put
  BY <1>28 DEF Put
<1>29. CASE Return
  BY <1>29 DEF Return
<1>30. CASE Expire
  BY <1>30 DEF Expire
<1>31. CASE UNCHANGED vars
  BY <1>31 DEF vars
<1> QED
  BY <1>1, <1>2, <1>3, <1>4, <1>5, <1>6, <1>7, <1>8, <1>9, <1>10, <1>11, <1>12,
     <1>13, <1>14, <1>15, <1>16, <1>17, <1>18, <1>19, <1>20, <1>21, <1>22, <1>23,
     <1>24, <1>25, <1>26, <1>27, <1>28, <1>29, <1>30, <1>31
  DEF Next, DumperStep, GzipStep, HandlerStep

(* The inductive invariant holds. *)
LEMMA Invariant == Spec => []IInv
BY InitKeeps, StepKeeps, PTL DEF Spec

(* While the object stays as it is, so does what it stands for: an object  *)
(* is there only after the dump has exited 0.                              *)
LEMMA StoredKept ==
  ASSUME IInv, IInv', UNCHANGED <<size, object>>
  PROVE  Stored' = Stored
BY DEF IInv, Handled, Stored

(* An upload that is completed stores the whole dump, and one that failed  *)
(* stores nothing, or part of it where objects can be torn.                *)
LEMMA StoreImplements ==
  ASSUME IInv, IInv', FinishUpload \/ Put
  PROVE  [Outcome!Next]_(Outcome!vars)
<1>1. /\ status = "uploading" /\ status' = status /\ streams' = streams
      /\ object = 0 /\ size' = size /\ exit' = exit
  BY DEF IInv, Handled, FinishUpload, Put, kind, dumpVars
<1>2. CASE object' = 0
  BY <1>1, <1>2 DEF Stored, Outcome!vars
<1>3. CASE object' # 0
  <2>1. Stored = "none" /\ Stored' \in {"whole", "torn"}
    BY <1>1, <1>3 DEF Stored
  <2>2. streams => Stored' = "whole"
    BY <1>1, <1>3 DEF IInv, Handled, Stored
  <2>3. Stored' \in IF streams THEN {"whole"} ELSE {"whole", "torn"}
    BY <2>1, <2>2
  <2>4. Outcome!Store
    BY <1>1, <2>1, <2>3 DEF Outcome!Store
  <2> QED BY <2>4 DEF Outcome!Next
<1> QED BY <1>2, <1>3

(* Every step is one of SnapshotVerdict, or changes nothing it speaks of. *)
LEMMA StepImplements ==
  ASSUME IInv, IInv', [Next]_vars
  PROVE  [Outcome!Next]_(Outcome!vars)
<1>1. CASE UNCHANGED <<streams, size, status, object>>
  BY <1>1, StoredKept DEF Outcome!vars
<1>2. CASE Reject
  <2>1. status = "none" /\ status' = "failed" /\ UNCHANGED <<streams, size, object>>
    BY <1>2 DEF IInv, Handled, Reject, Reply, kind
  <2>2. Outcome!Begin("failed")
    BY <2>1, StoredKept DEF Outcome!Begin
  <2> QED BY <2>2 DEF Outcome!Next
<1>3. CASE Accept
  <2>1. status = "none" /\ status' = "uploading" /\ UNCHANGED <<streams, size, object>>
    BY <1>3 DEF IInv, Handled, Accept, kind
  <2>2. Outcome!Begin("uploading")
    BY <2>1, StoredKept DEF Outcome!Begin
  <2> QED BY <2>2 DEF Outcome!Next
<1>4. CASE Absent \/ LookupFails \/ DestinationFails \/ DumpFails \/ Return
  <2>1. status = "uploading" /\ UNCHANGED <<streams, size, object>>
    BY <1>4 DEF IInv, Handled, Absent, LookupFails, DestinationFails, DumpFails, Reply, Return, kind
  <2>2. status' \in {"failed", "completed", status}
    BY <1>4 DEF Absent, LookupFails, DestinationFails, DumpFails, Reply, Return
  <2>3. status' = "completed" /\ status # "completed" => Stored = "whole"
    <3>1. status' = "completed" /\ status # "completed" => handler = "stored"
      BY <1>4 DEF Absent, LookupFails, DestinationFails, DumpFails, Reply, Return
    <3>2. handler = "stored" => Stored = "whole"
      BY DEF IInv, TypeOK, Handled, Stored
    <3> QED BY <3>1, <3>2
  <2>4. Stored' = Stored
    BY <2>1, StoredKept
  <2>5. CASE status' = status
    BY <2>1, <2>4, <2>5 DEF Outcome!vars
  <2>6. CASE status' = "failed"
    <3>1. Outcome!End("failed")
      BY <2>1, <2>4, <2>6 DEF Outcome!End
    <3> QED BY <3>1 DEF Outcome!Next
  <2>7. CASE status' = "completed"
    <3>1. Outcome!End("completed")
      BY <2>1, <2>3, <2>4, <2>7 DEF Outcome!End
    <3> QED BY <3>1 DEF Outcome!Next
  <2> QED BY <2>2, <2>5, <2>6, <2>7
<1>5. CASE FinishUpload \/ Put
  BY <1>5, StoreImplements
<1>6. Next =>
        \/ UNCHANGED <<streams, size, status, object>>
        \/ Reject \/ Accept \/ Absent \/ LookupFails \/ DestinationFails \/ DumpFails \/ Return
        \/ FinishUpload \/ Put
  BY DEF Next, DumperStep, GzipStep, HandlerStep, vars, kind, Produce, Exits, Exit, CloseDump,
         DumpCopyFails, DumpPanics, DumpCopyEnds, DumpInspect, GzipRead, CloseUpload,
         GzipReadFails, GzipEnd, GzipWrite, GzipWriteFails, GzipFlushed, GzipPanics, Goto,
         Found, DestinationOk, DumpStarts, PartStored, UploadFails, UploadRead, StageChunk,
         StageEnd, StageReadFails, StageFileFails, Expire
<1>7. UNCHANGED vars => UNCHANGED <<streams, size, status, object>>
  BY DEF vars, kind
<1> QED BY <1>1, <1>2, <1>3, <1>4, <1>5, <1>6, <1>7

(* "A dump that dies partway must not produce a stored object"              *)
(* (snapshot_pipeline.go:29-30): a snapshot implements SnapshotVerdict,     *)
(* however large the dump, wherever the dump process, a goroutine, a pipe   *)
(* or the destination fails and whenever the timeout strikes.               *)
THEOREM SnapshotImplementsVerdict == Spec => AllOrNothing
<1>1. Init => Outcome!Init
  BY DEF Init, Outcome!Init, Stored
<1>2. IInv /\ IInv' /\ [Next]_vars => [Outcome!Next]_(Outcome!vars)
  BY StepImplements
<1> QED BY <1>1, <1>2, Invariant, PTL DEF Spec, AllOrNothing, Outcome!Spec
=============================================================================

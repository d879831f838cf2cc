-------------------------- MODULE SnapshotVerdict --------------------------
(***************************************************************************)
(* What a snapshot promises the control plane: the status it reports and   *)
(* the object it leaves at the backup destination.  A destination that is  *)
(* atomic holds the whole dump or nothing at all; another may be left with *)
(* part of one, by an upload that then fails.  "completed" is only ever    *)
(* said of a whole dump, and after the last status the object stays as it  *)
(* is.                                                                     *)
(***************************************************************************)

VARIABLES
  atomic,    \* the destination stores an object in one step
  status,    \* the status last reported: "none", "uploading", "completed", "failed"
  object     \* what is stored: "none", "whole", "torn"

vars == <<atomic, status, object>>

Init == atomic \in BOOLEAN /\ status = "none" /\ object = "none"

(* A snapshot that cannot start is failed at once. *)
Begin(s) ==
  /\ status = "none" /\ s \in {"uploading", "failed"}
  /\ status' = s
  /\ UNCHANGED <<atomic, object>>

Store ==
  /\ status = "uploading" /\ object = "none"
  /\ object' \in IF atomic THEN {"whole"} ELSE {"whole", "torn"}
  /\ UNCHANGED <<atomic, status>>

(* The error of an upload that stored the dump all the same is possible    *)
(* too: the answer of the destination was lost.                            *)
End(s) ==
  /\ status = "uploading"
  /\ \/ s = "completed" /\ object = "whole"
     \/ s = "failed"
  /\ status' = s
  /\ UNCHANGED <<atomic, object>>

Next ==
  \/ \E s \in {"uploading", "failed"} : Begin(s)
  \/ Store
  \/ \E s \in {"completed", "failed"} : End(s)

Spec == Init /\ [][Next]_vars
=============================================================================

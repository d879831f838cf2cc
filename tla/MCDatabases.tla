---------------------------- MODULE MCDatabases ----------------------------
(***************************************************************************)
(* What must happen in the end to databases, for TLC: the commands on them *)
(* (DbInflight) are answered, and the reports of them (DatabaseObserver)   *)
(* converge.  A behaviour is of one of the two, part, while the other      *)
(* rests in an initial state.                                              *)
(***************************************************************************)
EXTENDS DbInflight

CONSTANTS Db, Requested, MaxBytes, MaxChange, MaxFail             \* of DatabaseObserver

VARIABLES
  part,                                                          \* the one that runs
  observed, bytes, cache, fresh, step, todo, entries, at, volumes, view, changes, fails,
  absent                                                         \* of DatabaseObserver

reportVars == <<observed, bytes, cache, fresh, step, todo, entries, at, volumes, view,
                changes, fails, absent>>

O == INSTANCE DatabaseObserver WITH container <- observed

MCInit ==
  /\ part \in {"commands", "reports"}
  /\ part = "commands" \/ name = [r \in Req |-> CHOOSE n \in Name : TRUE]
  /\ part = "reports" \/ observed = [d \in Db |-> "none"]
  /\ Init /\ O!ObserverInit

MCNext ==
  \/ part = "commands" /\ Next /\ UNCHANGED <<part, reportVars>>
  \/ part = "reports" /\ O!ObserverNext /\ UNCHANGED <<part, vars>>

(* A handler runs on, the ticker of the observer ticks, a sync goes on, and *)
(* an hour passes.                                                          *)
MCFairSpec ==
  /\ MCInit /\ [][MCNext]_<<part, vars, reportVars>>
  /\ \A r \in Req : WF_vars(part = "commands" /\ Handler(r))
  /\ WF_reportVars(part = "reports" /\ (O!Begin("loop") \/ O!SyncStep("loop")))
  /\ WF_reportVars(part = "reports" /\ O!Expire)
  /\ \A s \in Requested : WF_reportVars(part = "reports" /\ O!SyncStep(s))

-----------------------------------------------------------------------------
(* Properties *)

(* "That is what makes a lost or mishandled db_status message self-         *)
(* correcting" (database_observer.go:109-111): once the host is quiet and   *)
(* calls succeed the orchestrator is told what is there, in every figure,   *)
(* and is told nothing else any more, whatever older syncs and walks were   *)
(* under way.  And "an empty list would read as 'every volume is gone'"     *)
(* (226-228): a volume disappears from what it was told only if it was      *)
(* missing at some time during the sync that said so.                       *)
SelfCorrecting == [][O!AbsenceTrue]_reportVars /\ <>[]O!Agrees
=============================================================================

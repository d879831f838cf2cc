---------------------------- MODULE WarnLimiter ----------------------------
(***************************************************************************)
(* The rate limiter between the runner's log and Monitor                   *)
(* (telemetry/handler.go: Handle, warnLimiter).  Handle passes errors and  *)
(* everything below a warning on; a warning is asked for by allow, under   *)
(* the mutex of the limiter, with a key of its component and message.      *)
(* What allow holds back is counted, and the count goes out with the next  *)
(* warning of the key that passes.                                         *)
(***************************************************************************)
EXTENDS Naturals, FiniteSets, Sequences

CONSTANTS
  Key,        \* components and messages of warnings
  WarnLimit,  \* WARN_LIMIT, warnings of a key in a window
  Window,     \* WARN_WINDOW
  SweepAt,    \* warnLimiterSweepAt
  MaxWarn,    \* bound: warnings
  MaxTick     \* bound: time

ASSUME LimiterAssumption ==
  /\ WarnLimit \in Nat \ {0} /\ Window \in Nat \ {0} /\ SweepAt \in Nat \ {0}
  /\ MaxWarn \in Nat /\ MaxTick \in Nat

VARIABLES
  now,        \* the clock of the limiter
  keys,       \* its map, a function from the keys it has to their windows
  warned,     \* warnings so far
  sent,       \* per key: when its warnings passed, since the map was cleared
  through,    \* per key: warnings that passed
  told,       \* per key: counts that went out as suppressed=<n>
  forgotten,  \* per key: counts dropped with a window
  asked       \* per key: warnings that came

counts == <<through, told, forgotten, asked>>
limiterVars == <<now, keys, warned, sent, counts>>

WarnWindow == [start : Nat, sent : Nat, suppressed : Nat]

LimiterTypeOK ==
  /\ now \in Nat /\ warned \in Nat
  /\ DOMAIN keys \subseteq Key /\ keys \in [DOMAIN keys -> WarnWindow]
  /\ sent \in [Key -> Seq(Nat)]
  /\ \A f \in {through, told, forgotten, asked} : f \in [Key -> Nat]

LimiterInit ==
  /\ now = 0 /\ warned = 0
  /\ keys = [k \in {} |-> 0]
  /\ sent = [k \in Key |-> <<>>]
  /\ through = [k \in Key |-> 0] /\ told = [k \in Key |-> 0]
  /\ forgotten = [k \in Key |-> 0] /\ asked = [k \in Key |-> 0]

-----------------------------------------------------------------------------
Ended(k) == now - keys[k].start >= Window

(* The map is swept for a new key, and cleared if that is not enough. *)
Full(k) == k \notin DOMAIN keys /\ Cardinality(DOMAIN keys) >= SweepAt
Unswept == {k \in DOMAIN keys : ~(Ended(k) /\ keys[k].suppressed = 0)}
Cleared(k) == Full(k) /\ Cardinality(Unswept) >= SweepAt

(* The keys that are left when the window of k is looked up. *)
Left(k) == IF Cleared(k) THEN {} ELSE IF Full(k) THEN Unswept ELSE DOMAIN keys

(* The window of k, made or begun anew. *)
Current(k) ==
  IF k \notin DOMAIN keys THEN [start |-> now, sent |-> 0, suppressed |-> 0]
  ELSE IF Ended(k) THEN [keys[k] EXCEPT !.start = now, !.sent = 0]
  ELSE keys[k]

(* Mutant of Pass: the count that went out is kept. *)
PassKeepsCount(k) ==
  /\ Current(k).sent < WarnLimit
  /\ keys' = [j \in Left(k) \cup {k} |->
                IF j = k THEN [Current(k) EXCEPT !.sent = @ + 1] ELSE keys[j]]
  /\ LET before == IF Cleared(k) THEN [j \in Key |-> <<>>] ELSE sent IN
       sent' = [before EXCEPT ![k] = Append(@, now)]
  /\ through' = [through EXCEPT ![k] = @ + 1]
  /\ told' = [told EXCEPT ![k] = @ + Current(k).suppressed]

Pass(k) ==
  /\ Current(k).sent < WarnLimit
  /\ keys' = [j \in Left(k) \cup {k} |->
                IF j = k THEN [Current(k) EXCEPT !.sent = @ + 1, !.suppressed = 0] ELSE keys[j]]
  /\ LET before == IF Cleared(k) THEN [j \in Key |-> <<>>] ELSE sent IN
       sent' = [before EXCEPT ![k] = Append(@, now)]
  /\ through' = [through EXCEPT ![k] = @ + 1]
  /\ told' = [told EXCEPT ![k] = @ + Current(k).suppressed]

Suppress(k) ==
  /\ Current(k).sent >= WarnLimit
  /\ keys' = [j \in Left(k) \cup {k} |->
                IF j = k THEN [Current(k) EXCEPT !.suppressed = @ + 1] ELSE keys[j]]
  /\ UNCHANGED <<sent, through, told>>

(* A warning with key k. *)
allow(k) ==
  /\ warned < MaxWarn
  /\ Pass(k) \/ Suppress(k)
  /\ forgotten' = [j \in Key |-> IF j \in DOMAIN keys \ Left(k)
                                 THEN forgotten[j] + keys[j].suppressed ELSE forgotten[j]]
  /\ asked' = [asked EXCEPT ![k] = @ + 1]
  /\ warned' = warned + 1 /\ UNCHANGED now

Tick == now < MaxTick /\ now' = now + 1 /\ UNCHANGED <<keys, warned, sent, counts>>

LimiterNext == Tick \/ \E k \in Key : allow(k)

LimiterSpec == LimiterInit /\ [][LimiterNext]_limiterVars

-----------------------------------------------------------------------------
(* Properties *)

Held(k) == IF k \in DOMAIN keys THEN keys[k].suppressed ELSE 0

(* Every warning of a key passed, is in a count that went out or is still  *)
(* held, or was in a count dropped with its window.                        *)
WarningsAccounted ==
  \A k \in Key : asked[k] = through[k] + told[k] + forgotten[k] + Held(k)

KeysBounded == Cardinality(DOMAIN keys) <= SweepAt

RateBounded ==
  \A k \in Key : \A i \in 1..Len(sent[k]) :
    i + 2 * WarnLimit <= Len(sent[k]) => sent[k][i + 2 * WarnLimit] - sent[k][i] >= Window

ForgetsWithAll ==
  forgotten' # forgotten => \E k \in Key \ DOMAIN keys : DOMAIN keys' = {k}

(* "lets through at most limit warnings per key per window; what it holds   *)
(* back is counted and handed to the next warning that gets through"        *)
(* (telemetry/handler.go:268-269), for a key that comes and goes with the   *)
(* sweeps of the map: no warning of it is left uncounted; the map stays     *)
(* within its limit; no more than two windows' worth pass in any window's   *)
(* time since the map was last cleared; and a count is dropped only when    *)
(* the whole map is: "forgetting a count beats unbounded growth" (316).     *)
WarningsLimited ==
  [](WarningsAccounted /\ KeysBounded /\ RateBounded) /\ [][ForgetsWithAll]_limiterVars
=============================================================================

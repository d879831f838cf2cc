-------------------------------- MODULE Cron --------------------------------
(***************************************************************************)
(* cronMatches, fieldMatches and termMatches of src/scheduler/scheduler.go *)
(* on parsed text: a term is a range expression ("*", a number, a range or *)
(* what is not a number) and a step, 0 when there is no "/".  A result is  *)
(* "yes", "no" or "error".                                                 *)
(***************************************************************************)
EXTENDS Integers, Sequences

Any == [kind |-> "any", lo |-> 0, hi |-> 0]
Exact(n) == [kind |-> "exact", lo |-> n, hi |-> n]
Between(n, m) == [kind |-> "range", lo |-> n, hi |-> m]
Garbage == [kind |-> "garbage", lo |-> 0, hi |-> 0]

(* Term text: range expression and step; a step that does not parse, or is  *)
(* not positive, is -1.                                                     *)
Term(r, s) == [range |-> r, step |-> s]

Verdict(b) == IF b THEN "yes" ELSE "no"

aligned(value, lo, step) == (value - lo) % step = 0

(* A number with a step runs from it to the field's maximum. *)
rangeMax(term, max) ==
  IF term.range.kind = "range" THEN term.range.hi ELSE max

rangeMin(term, min) ==
  IF term.range.kind = "any" THEN min ELSE term.range.lo

termMatches(term, value, min, max) ==
  LET lo == rangeMin(term, min)
      hi == rangeMax(term, max)
  IN CASE term.step < 0 \/ term.range.kind = "garbage" -> "error"
       [] term.range.kind = "range" /\ lo > hi -> "error"
       [] term.range.kind = "exact" /\ term.step = 0 -> Verdict(value = lo)
       [] term.step = 0 -> Verdict(value >= lo /\ value <= hi)
       [] OTHER -> Verdict(value >= lo /\ value <= hi /\ aligned(value, lo, term.step))

(* The first term that matches or does not parse decides. *)
fieldMatches(field, value, min, max) ==
  LET result == [k \in 1..Len(field) |-> termMatches(field[k], value, min, max)]
      decisive == {k \in 1..Len(field) : result[k] # "no"}
  IN IF decisive = {} THEN "no"
     ELSE result[CHOOSE k \in decisive : \A j \in decisive : k <= j]

(* The fields in order, with their least and greatest values. *)
Minimum == <<0, 0, 1, 1, 0>>
Maximum == <<59, 23, 31, 12, 6>>

cronMatches(expr, t) ==
  /\ Len(expr) = 5
  /\ \A f \in 1..5 : fieldMatches(expr[f], t[f], Minimum[f], Maximum[f]) = "yes"
=============================================================================

----------------------------- MODULE CronFields -----------------------------
(***************************************************************************)
(* Every field of one or two small terms against every value, compared     *)
(* with what the comment on fieldMatches says each form means.             *)
(***************************************************************************)
EXTENDS Cron

CONSTANTS Lo, Hi,    \* the field's least and greatest value
          MaxStep    \* bound: steps

VARIABLES field, value, more

Numbers == 0..Hi + 1
Ranges == {Any, Garbage} \cup {Exact(n) : n \in Numbers}
            \cup {Between(n, m) : n \in Numbers, m \in Numbers}
Terms == {Term(r, s) : r \in Ranges, s \in -1..MaxStep}

Init ==
  /\ field \in {<<t>> : t \in Terms}
  /\ value \in Lo..Hi
  /\ more = TRUE

(* A second term. *)
Next == \E t \in Terms :
  /\ more /\ more' = FALSE
  /\ field' = Append(field, t)
  /\ UNCHANGED value

Spec == Init /\ [][Next]_<<field, value, more>>

Malformed(t) ==
  t.step = -1 \/ t.range.kind = "garbage" \/ (t.range.kind = "range" /\ t.range.lo > t.range.hi)

(* The values of a well-formed term: "*" any value, "*/N" every N from the  *)
(* minimum, "N" one value, "N-M" a range, "N-M/S" a range with step, and    *)
(* "N/S" from N on.                                                         *)
Values(t) ==
  LET s == IF t.step = 0 THEN 1 ELSE t.step
      from == CASE t.range.kind = "any" -> Lo [] OTHER -> t.range.lo
      to == CASE t.range.kind = "any" -> Hi
              [] t.range.kind = "range" -> t.range.hi
              [] OTHER -> IF t.step = 0 THEN t.range.lo ELSE Hi
  IN {v \in Lo..Hi : \E k \in 0..Hi : v = from + k * s /\ v <= to}

(* The comment on fieldMatches (scheduler.go:151-157): a field matches the  *)
(* values of its terms, up to the first malformed one; a malformed term     *)
(* never makes it match, so that a job with a bad schedule does not fire on *)
(* its account.                                                             *)
FieldMeaning ==
  fieldMatches(field, value, Lo, Hi) = "yes" <=>
    \E k \in 1..Len(field) :
      /\ ~Malformed(field[k]) /\ value \in Values(field[k])
      /\ \A j \in 1..k - 1 : ~Malformed(field[j])
=============================================================================

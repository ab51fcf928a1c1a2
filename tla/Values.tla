------------------------------- MODULE Values -------------------------------
(***************************************************************************)
(* The values of a record's fields and how query/filter.go relates them.   *)
(*                                                                         *)
(* A value is [t |-> "num", "str" or "nil", k |-> key].  The key is the    *)
(* rank of the value's printed form in byte order, and NumOf gives the     *)
(* number a printed form reads as (Text when it does not parse).  So the   *)
(* number 10 and the string "10" share a key, as fmt "%v" makes them, and  *)
(* byte order and numeric order disagree.  A field a record lacks reads as *)
(* nil, whose printed form is "<nil>".                                     *)
(***************************************************************************)
EXTENDS Integers

CONSTANTS NumOf, Text

Key == DOMAIN NumOf
RangeOp == {"gt", "gte", "lt", "lte"}

Sign(n) == IF n < 0 THEN -1 ELSE IF n > 0 THEN 1 ELSE 0

\* asNumber: a value's type decides, a numeric-looking string is no number.
asNumber(v) == v.t = "num"

\* query.Compare: two numbers by value, anything else by its printed form.
Compare(a, b) == IF asNumber(a) /\ asNumber(b)
                   THEN Sign(NumOf[a.k] - NumOf[b.k])
                   ELSE Sign(a.k - b.k)

equal(a, b) == IF asNumber(a) /\ asNumber(b) THEN NumOf[a.k] = NumOf[b.k]
                                             ELSE a.k = b.k

RangeMatch(op, v, q) == CASE op = "gt"  -> Compare(v, q) > 0
                          [] op = "gte" -> Compare(v, q) >= 0
                          [] op = "lt"  -> Compare(v, q) < 0
                          [] op = "lte" -> Compare(v, q) <= 0
=============================================================================

------------------------------ MODULE MCQuery ------------------------------
(***************************************************************************)
(* Bounds for TLC.  The printed forms "10" < "5x" < "9" < "<nil>" have     *)
(* ranks 1..4; the first and the third also occur as numbers.              *)
(***************************************************************************)
EXTENDS Query

MCNumOf == <<10, Text, 9, Text>>
num(n) == [t |-> "num", k |-> IF n = 10 THEN 1 ELSE 3]
str(k) == [t |-> "str", k |-> k]
MCNil == [t |-> "nil", k |-> 4]

all == [kind |-> "nil"]
on(f, op, q) == [kind |-> "field", field |-> f, op |-> op, q |-> q]
key(f, d) == [field |-> f, desc |-> d]
Same == {<<k, k>> : k \in 1..4}

\* Documents whose fields hold numbers, or nothing.
NumDocs == {[a |-> num(9)], [a |-> num(10), b |-> num(9)], [b |-> num(10)]}
\* The number 10 and the string "10", and an encrypted field c.
TwinDocs == {[a |-> num(10)], [a |-> num(9), c |-> str(2)],
             [a |-> str(1), c |-> str(2)], [a |-> str(1), c |-> str(3)]}
\* Numbers, strings that look like them, and text.
MixedDocs == {[a |-> num(n)] : n \in {9, 10}} \cup {[a |-> str(k)] : k \in 1..3} \cup {[b |-> num(9)]}

NumSorts == {<<key("a", FALSE)>>, <<key("a", TRUE), key("b", FALSE)>>}

Quiet == [docs |-> NumDocs, encrypted |-> {}, filters |-> {all}, sorts |-> {<<>>}, limits |-> {0},
          offsets |-> {0}, projections |-> {{}}, groupings |-> {}, walks |-> {NoFind},
          maxId |-> 3, restarts |-> FALSE]

\* Two orderings in pages of one, one filtered and the other projected.
Pages ==
  LET w == [Quiet EXCEPT !.filters = {all, on("a", "gt", num(9))}, !.sorts = NumSorts,
                         !.limits = {1}, !.projections = {{}, {"b"}}]
  IN [w EXCEPT !.walks = {o \in FindsOf(w) : /\ o.fields = {} <=> o.filter # all
                                             /\ o.fields = {} <=> Len(o.sort) = 2}]

\* Every operator, under limits and offsets, over four records.
Plans ==
  [Quiet EXCEPT !.sorts = NumSorts \cup {<<>>}, !.limits = {2}, !.offsets = {0, 1}, !.maxId = 4,
     !.filters = {all, on("a", "", num(9)), on("a", "gt", num(9)), on("b", "neq", num(9)),
        on("a", "regex", str(3)), on("b", "contains", str(1)),
        [kind |-> "and", subs |-> <<on("a", "gte", num(9)), on("b", "lte", num(9))>>],
        [kind |-> "or", subs |-> <<on("a", "lt", num(10)), on("b", "eq", MCNil)>>]}]

\* Values that print alike, and filters on an encrypted field.
Twins ==
  [Quiet EXCEPT !.docs = TwinDocs, !.encrypted = {"c"}, !.groupings = {"", "a", "b"},
     !.filters = {all, [kind |-> "or", subs |-> <<on("c", "eq", str(2))>>],
        on("c", "neq", str(2)), on("a", "eq", num(10)), on("a", "lt", str(2))}]

\* A field of every kind, with rebuilds and restarts.
Mixed == [Quiet EXCEPT !.docs = MixedDocs, !.restarts = TRUE]

MCWorkloads == [pages |-> Pages, plans |-> Plans, twins |-> Twins, mixed |-> Mixed]
=============================================================================

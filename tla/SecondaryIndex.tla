--------------------------- MODULE SecondaryIndex ---------------------------
(***************************************************************************)
(* One secondary index of a collection (engine/secondary_index.go): the    *)
(* buckets, the reverse map, and the ordered view of the bucket keys that  *)
(* serves range predicates while the field is homogeneous.                 *)
(*                                                                         *)
(* Field values and their comparison are those of Values.tla.              *)
(***************************************************************************)
EXTENDS Values, FiniteSets, SequencesExt

CONSTANTS Id, Value,
          None       \* no value: the record is not live or lacks the field

VARIABLES data,    \* [Id -> the field of the live record, None without it]
          ix,      \* the SecondaryIndex in memory
          legacy   \* the kind was guessed from a file that did not carry one

Kind == {"", "numeric", "string", "mixed"}

toIndexKey(v) == v.k
valKind(v) == IF v.t = "num" THEN "numeric" ELSE "string"

mergeKind(cur, next) == IF cur = "" \/ cur = next THEN next ELSE "mixed"

\* The ordering value of a key; a key that does not parse reads as the number
\* 0, which valForKind never meets in an index whose kind is right.
valForKind(kind, k) == [t |-> IF kind = "numeric" /\ NumOf[k] # Text
                                THEN "num" ELSE "str", k |-> k]

newSecondaryIndex == [buckets |-> [k \in Key |-> {}],
                      reverse |-> [i \in Id |-> None],
                      kind |-> "", sorted |-> <<>>]

-----------------------------------------------------------------------------
(* The ordered view.                                                       *)

\* sort.Search: the binary search over p, external, as the index uses it.
Search(p) ==
  LET n == Len(p)
      from[lo \in 0..n, hi \in 0..n] ==
        IF lo >= hi THEN lo
        ELSE LET h == (lo + hi) \div 2
             IN IF p[h + 1] THEN from[lo, h] ELSE from[h + 1, hi]
  IN from[0, n]

orderLessKey(a, b) == \/ Compare(a.val, b.val) < 0
                      \/ Compare(a.val, b.val) = 0 /\ a.key < b.key

searchSorted(sorted, target) ==
  Search([i \in 1..Len(sorted) |-> ~orderLessKey(sorted[i], target)])

HoldsAt(sorted, i, k) == i < Len(sorted) /\ sorted[i + 1].key = k

orderedInsert(s, k, val) ==
  LET new == [key |-> k, val |-> val]
      i == searchSorted(s.sorted, new)
  IN IF s.kind = "mixed" \/ HoldsAt(s.sorted, i, k) THEN s
     ELSE [s EXCEPT !.sorted = InsertAt(@, i + 1, new)]

orderedRemove(s, k) ==
  LET i == searchSorted(s.sorted, [key |-> k, val |-> valForKind(s.kind, k)])
  IN IF s.kind = "mixed" \/ ~HoldsAt(s.sorted, i, k) THEN s
     ELSE [s EXCEPT !.sorted = RemoveAt(@, i + 1)]

\* Mutant: the ordered view is kept when the field turns heterogeneous.
observe_Keeps(s, v) == [s EXCEPT !.kind = IF @ = "" THEN valKind(v) ELSE @]

observe(s, v) == LET kind == mergeKind(s.kind, valKind(v))
                 IN [s EXCEPT !.kind = kind,
                              !.sorted = IF kind = "mixed" THEN <<>> ELSE @]

buildSorted(buckets, kind) ==
  IF kind \in {"mixed", ""} THEN <<>>
  ELSE SetToSortSeq({[key |-> k, val |-> valForKind(kind, k)] :
                       k \in {j \in Key : buckets[j] # {}}}, orderLessKey)

-----------------------------------------------------------------------------
(* The index operations.                                                   *)

\* The bucket half of remove and update: the id leaves its old bucket.
leaveBucket(s, id) ==
  IF s.reverse[id] = None THEN s
  ELSE LET k == s.reverse[id]
           left == [s EXCEPT !.buckets[k] = @ \ {id}]
       IN IF left.buckets[k] = {} THEN orderedRemove(left, k) ELSE left

add(s, v, id) ==
  LET k == toIndexKey(v)
      seen == observe([s EXCEPT !.buckets[k] = @ \cup {id},
                                !.reverse[id] = k], v)
  IN IF s.buckets[k] = {} THEN orderedInsert(seen, k, v) ELSE seen

remove(s, id) == [leaveBucket(s, id) EXCEPT !.reverse[id] = None]

update(s, id, v) == add(leaveBucket(s, id), v, id)

Lookup(s, k) == s.buckets[k]

\* The slice of the ordered view that answers a predicate.
Bounds(sorted, op, q) ==
  LET n == Len(sorted)
      past(strict) == Search([i \in 1..n |-> IF strict
                                THEN Compare(sorted[i].val, q) > 0
                                ELSE Compare(sorted[i].val, q) >= 0])
  IN CASE op = "gt"  -> <<past(TRUE), n>>
       [] op = "gte" -> <<past(FALSE), n>>
       [] op = "lt"  -> <<0, past(FALSE)>>
       [] op = "lte" -> <<0, past(TRUE)>>

NoRange == [ok |-> FALSE, ids |-> {}]

Slice(s, b) == [ok |-> TRUE, ids |-> UNION {s.buckets[s.sorted[i].key] : i \in b[1] + 1 .. b[2]}]

LookupRange(s, op, q) ==
  IF s.kind = "" THEN [ok |-> TRUE, ids |-> {}]
  ELSE IF s.kind # valKind(q) THEN NoRange
  ELSE Slice(s, Bounds(s.sorted, op, q))

\* Replays the records; the kind is folded over the values of the live ones.
rebuild(live) ==
  LET held == {i \in Id : live[i] # None}
      kinds == {valKind(live[i]) : i \in held}
      kind == IF kinds = {} THEN ""
              ELSE IF Cardinality(kinds) > 1 THEN "mixed"
              ELSE CHOOSE x \in kinds : TRUE
      buckets == [k \in Key |-> {i \in held : toIndexKey(live[i]) = k}]
  IN [buckets |-> buckets,
      reverse |-> [i \in Id |-> IF i \in held THEN toIndexKey(live[i]) ELSE None],
      kind |-> kind, sorted |-> buildSorted(buckets, kind)]

Persist(s) == [buckets |-> s.buckets, kind |-> s.kind]

inferKind(buckets) ==
  IF \E k \in Key : buckets[k] # {} /\ NumOf[k] = Text THEN "string" ELSE "numeric"

Load(f) ==
  LET empty == \A k \in Key : f.buckets[k] = {}
      kind == IF f.kind = "" /\ ~empty THEN inferKind(f.buckets) ELSE f.kind
  IN [buckets |-> f.buckets,
      reverse |-> [i \in Id |-> IF \E k \in Key : i \in f.buckets[k]
                                  THEN CHOOSE k \in Key : i \in f.buckets[k]
                                  ELSE None],
      kind |-> kind, sorted |-> buildSorted(f.buckets, kind)]

-----------------------------------------------------------------------------
(* What the collection does with it: every write under the write lock.     *)

Init == /\ data = [i \in Id |-> None]
        /\ ix = newSecondaryIndex
        /\ legacy = FALSE

Insert(id, v) == /\ data[id] = None
                 /\ data' = [data EXCEPT ![id] = v]
                 /\ ix' = add(ix, v, id)
                 /\ UNCHANGED legacy

\* An update whose data lacks the field takes the record out of the index.
Update(id, v) == /\ data[id] # None
                 /\ data' = [data EXCEPT ![id] = v]
                 /\ ix' = IF v = None THEN remove(ix, id) ELSE update(ix, id, v)
                 /\ UNCHANGED legacy

\* A compaction, or an open that finds the file or the primary index stale.
Rebuild == /\ ix' = rebuild(data)
           /\ legacy' = FALSE
           /\ UNCHANGED data

Reopen == /\ ix' = Load(Persist(ix))
          /\ UNCHANGED <<data, legacy>>

\* The file was written before kinds were persisted.
ReopenLegacy == /\ ix' = Load([Persist(ix) EXCEPT !.kind = ""])
                /\ legacy' = TRUE
                /\ UNCHANGED data

-----------------------------------------------------------------------------
(* Properties.                                                             *)

\* The index is well formed, and it has an ordered view only for a
\* homogeneous kind.
TypeOK == /\ data \in [Id -> Value \cup {None}]
          /\ ix.buckets \in [Key -> SUBSET Id]
          /\ ix.reverse \in [Id -> Key \cup {None}]
          /\ ix.kind \in Kind
          /\ ix.kind \in {"", "mixed"} => ix.sorted = <<>>
          /\ legacy \in BOOLEAN

\* add, remove, update, rebuild and Load keep the buckets and the reverse map
\* each other's inverse, and equal to the live records' values: equality
\* lookups, counts and unique checks read the buckets alone.
BucketsExact ==
  /\ \A k \in Key :
       Lookup(ix, k) = {i \in Id : data[i] # None /\ toIndexKey(data[i]) = k}
  /\ \A i \in Id : ix.reverse[i] = IF data[i] = None THEN None
                                   ELSE toIndexKey(data[i])

\* While the field is homogeneous the ordered view lists each key in use once,
\* in the order of the index's kind, whatever writes and restarts came before.
ViewExact ==
  ix.kind \in {"numeric", "string"} =>
    /\ \A i, j \in 1..Len(ix.sorted) :
         i < j => orderLessKey(ix.sorted[i], ix.sorted[j])
    /\ {ix.sorted[i].key : i \in 1..Len(ix.sorted)} =
         {k \in Key : ix.buckets[k] # {}}

\* A range predicate that LookupRange serves has exactly the answer of the
\* full scan, for numbers, strings and a field that once held both.
RangeIsScan ==
  ~legacy => \A op \in RangeOp, q \in Value :
    LET r == LookupRange(ix, op, q)
    IN r.ok => r.ids = {i \in Id : data[i] # None /\ RangeMatch(op, data[i], q)}

\* Closing and opening again gives every range the answer it had before.
ReopenKeeps == \A op \in RangeOp, q \in Value :
                 LookupRange(Load(Persist(ix)), op, q) = LookupRange(ix, op, q)
=============================================================================

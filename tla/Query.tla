-------------------------------- MODULE Query --------------------------------
(***************************************************************************)
(* Queries over one collection (query/filter.go, engine/scan.go,           *)
(* engine/aggregate.go, engine/count.go) and the Find and Aggregate        *)
(* handlers of server/grpc.go: filters, the choice between an index and a  *)
(* sweep, multi-field ordering, the bounded top-K heap, keyset pages, and  *)
(* grouped aggregates, over a field with the index of SecondaryIndex and   *)
(* beside writers and restarts that come between the pages.                *)
(*                                                                         *)
(* One engine call is one step here; what a scan sees of writes that run   *)
(* during it is left out.  The collection is the sequence of its live      *)
(* records in the order of their entries in the segments: an update moves  *)
(* a record to the end.  No record expires here: what a scan hides of      *)
(* expired records and Count still counts is the subject of Records.       *)
(***************************************************************************)
EXTENDS Values, FiniteSets, SequencesExt

CONSTANTS Nil,          \* the value a missing field reads as
          IndexedField, \* the field with a secondary index
          HasPart,      \* <<text, part>>: keys whose printed form holds another
          Regex,        \* <<pattern, text>> that match; none if it is malformed
          KeyField,
          NoValue,      \* in the index: the record lacks the field
          Workloads,    \* the documents and requests to explore, by name
          MaxId         \* bound: ids handed out

ASSUME QueryAssumption ==
  /\ Nil.t = "nil" /\ Nil.k \in Key
  /\ \A w \in Range(Workloads) :
        /\ \A d \in w.docs : \A f \in DOMAIN d : d[f].k \in Key
        /\ IndexedField \notin w.encrypted

VARIABLES work,    \* the name of the workload
          live,    \* the live records, in segment order
          nextId,
          pager,   \* a client walking an ordering page by page
          ix,      \* the SecondaryIndex of IndexedField
          legacy   \* was its kind guessed from a file without one?

vars == <<work, live, nextId, pager, ix, legacy>>

W == Workloads[work]
Docs == W.docs            \* record contents: functions from fields to values
Encrypted == W.encrypted  \* fields stored encrypted
Filters == W.filters      \* filters as they arrive
Sorts == W.sorts          \* orderings: sequences of [field, desc]

IndexedValue ==
  {d[IndexedField] : d \in {e \in UNION {w.docs : w \in Range(Workloads)} : IndexedField \in DOMAIN e}}

ValueIn(d) == IF IndexedField \in DOMAIN d THEN d[IndexedField] ELSE NoValue

\* The index, over the field of each live record.
IX == INSTANCE SecondaryIndex WITH
  Id <- 1..MaxId, Value <- IndexedValue, None <- NoValue,
  data <- [i \in 1..MaxId |->
             IF \E j \in DOMAIN live : live[j].id = i
               THEN ValueIn(live[CHOOSE j \in DOMAIN live : live[j].id = i].data) ELSE NoValue]

Field(r, f) == IF f \in DOMAIN r.data THEN r.data[f] ELSE Nil

-----------------------------------------------------------------------------
(* Filters.                                                                *)

\* protoFilterToQuery and protoOpToQuery: no filter, or one of no kind, is
\* match-all, and an operator the server does not know is eq.
protoOpToQuery(op) ==
  IF op \in RangeOp \cup {"neq", "contains", "regex"} THEN op ELSE "eq"

RECURSIVE protoFilterToQuery(_)
protoFilterToQuery(p) ==
  CASE p.kind = "field" -> [p EXCEPT !.op = protoOpToQuery(@)]
    [] p.kind \in {"and", "or"} ->
         [p EXCEPT !.subs = [i \in DOMAIN @ |-> protoFilterToQuery(@[i])]]
    [] OTHER -> [kind |-> "all"]

FieldMatch(f, d) ==
  /\ f.field \in DOMAIN d
  /\ LET v == d[f.field]
     IN CASE f.op = "eq" -> equal(v, f.q)
          [] f.op = "neq" -> ~equal(v, f.q)
          [] f.op \in RangeOp -> RangeMatch(f.op, v, f.q)
          [] f.op = "contains" -> <<v.k, f.q.k>> \in HasPart
          [] f.op = "regex" -> <<f.q.k, v.k>> \in Regex

RECURSIVE Match(_, _)
Match(f, d) ==
  CASE f.kind = "all" -> TRUE
    [] f.kind = "field" -> FieldMatch(f, d)
    [] f.kind = "and" -> \A i \in DOMAIN f.subs : Match(f.subs[i], d)
    [] f.kind = "or" -> \E i \in DOMAIN f.subs : Match(f.subs[i], d)

RECURSIVE encryptedFilterField(_)
encryptedFilterField(f) ==
  \/ f.kind = "field" /\ f.field \in Encrypted
  \/ f.kind \in {"and", "or"} /\ \E i \in DOMAIN f.subs :
                                   encryptedFilterField(f.subs[i])

checkFilterFields(f) == ~encryptedFilterField(f)
checkField(field) == field \notin Encrypted

-----------------------------------------------------------------------------
(* Access paths.                                                           *)

ById(rs) == SetToSortSeq(ToSet(rs), LAMBDA a, b : a.id < b.id)

\* An equality finds the bucket of the operand's printed form.
filterValueToIndexKey(q) == q.k
IndexLookup(field, k) ==
  IF field = IndexedField THEN [ok |-> TRUE, ids |-> IX!Lookup(ix, k)] ELSE IX!NoRange

\* A range is served while the field's values and the operand are of one kind.
indexRangeLookup(field, op, q) ==
  IF field = IndexedField THEN IX!LookupRange(ix, op, q) ELSE IX!NoRange

\* indexCandidates: the ids an index serves and whether it can.
indexCandidates(f) ==
  CASE f.kind = "field" /\ f.op = "eq" -> IndexLookup(f.field, filterValueToIndexKey(f.q))
    [] f.kind = "field" /\ f.op \in RangeOp -> indexRangeLookup(f.field, f.op, f.q)
    [] OTHER -> IX!NoRange
indexHit(f) == indexCandidates(f).ok

visitCandidates(f) ==
  ById(SelectSeq(live, LAMBDA r : r.id \in indexCandidates(f).ids /\ Match(f, r.data)))
streamLive(f) == SelectSeq(live, LAMBDA r : Match(f, r.data))

forEachMatch(f, hit) == IF hit THEN visitCandidates(f) ELSE streamLive(f)

Count(f) == IF f.kind = "all" THEN Len(live)
            ELSE IF f.kind = "field" /\ f.op = "eq" /\ indexHit(f)
              THEN Cardinality(indexCandidates(f).ids)
            ELSE Len(forEachMatch(f, indexHit(f)))

-----------------------------------------------------------------------------
(* Ordering.                                                               *)

\* Mutant: the id is not the last tie-break.
sortLess_NoTie(sort, a, b) ==
  LET c(i) == LET n == Compare(Field(a, sort[i].field), Field(b, sort[i].field))
              IN IF sort[i].desc THEN -n ELSE n
      differ == {i \in DOMAIN sort : c(i) # 0}
  IN differ # {} /\ c(CHOOSE i \in differ : \A j \in differ : i <= j) < 0

sortLess(sort, a, b) ==
  LET c(i) == LET n == Compare(Field(a, sort[i].field), Field(b, sort[i].field))
              IN IF sort[i].desc THEN -n ELSE n
      differ == {i \in DOMAIN sort : c(i) # 0}
  IN IF differ = {} THEN a.id < b.id
     ELSE c(CHOOSE i \in differ : \A j \in differ : i <= j) < 0

\* sort.SliceStable on a short slice: each element moves left past those it
\* is less than.
SliceStable(sort, rs) ==
  FoldLeft(LAMBDA s, r :
             LET stay == {i \in DOMAIN s : ~sortLess(sort, r, s[i])}
                 p == IF stay = {} THEN 0 ELSE CHOOSE i \in stay : \A j \in stay : i >= j
             IN InsertAt(s, p + 1, r),
           <<>>, rs)

\* container/heap over topK, whose Less is sortLess reversed: buf[1] is the
\* largest result kept.
Swap(buf, i, j) == [buf EXCEPT ![i] = buf[j], ![j] = buf[i]]

RECURSIVE up(_, _, _)
up(sort, buf, j) == LET i == j \div 2
                    IN IF i = 0 \/ ~sortLess(sort, buf[i], buf[j]) THEN buf
                       ELSE up(sort, Swap(buf, i, j), i)

RECURSIVE down(_, _, _)
down(sort, buf, i) ==
  LET l == 2 * i
      r == l + 1
      j == IF r <= Len(buf) /\ sortLess(sort, buf[l], buf[r]) THEN r ELSE l
  IN IF l > Len(buf) \/ ~sortLess(sort, buf[i], buf[j]) THEN buf
     ELSE down(sort, Swap(buf, i, j), j)

\* Mutant: the root is replaced and the heap not restored.
topKpush_NoFix(sort, cap, buf, r) ==
  IF Len(buf) < cap THEN up(sort, Append(buf, r), Len(buf) + 1)
  ELSE IF sortLess(sort, r, buf[1]) THEN [buf EXCEPT ![1] = r] ELSE buf

topKpush(sort, cap, buf, r) ==
  IF Len(buf) < cap THEN up(sort, Append(buf, r), Len(buf) + 1)
  ELSE IF sortLess(sort, r, buf[1])
    THEN down(sort, [buf EXCEPT ![1] = r], 1) ELSE buf

topKsorted(sort, buf) == SliceStable(sort, buf)

-----------------------------------------------------------------------------
(* Pages.                                                                  *)

\* A token holds the sort keys and the id of the last row of its page; None
\* is the empty token.  The keys read the record before projection.
None == [keys |-> <<>>, id |-> 0]
encodeCursor(sort, r) == [keys |-> [i \in DOMAIN sort |-> Field(r, sort[i].field)],
                          id |-> r.id]

BadToken(sort, tok) == tok # None /\ Len(tok.keys) # Len(sort)

\* decodeCursor's boundary row: the token's keys under their field names.
boundary(sort, tok) ==
  LET named(i) == sort[i].field
  IN [id |-> tok.id,
      data |-> [f \in {named(i) : i \in DOMAIN sort} |->
                  tok.keys[CHOOSE i \in DOMAIN sort :
                             named(i) = f /\ \A j \in DOMAIN sort : named(j) = f => j <= i]]]

\* The rows that sort strictly after the boundary.
cursorAfter(sort, tok, r) == tok = None \/ sortLess(sort, boundary(sort, tok), r)

Drop(s, n) == SubSeq(s, n + 1, Len(s))
Take(s, n) == SubSeq(s, 1, IF n < Len(s) THEN n ELSE Len(s))

\* The rows scanOrdered keeps, sorted: the first offset + limit, or all.
Kept(o, seen) ==
  IF o.limit > 0
    THEN topKsorted(o.sort, FoldLeft(LAMBDA b, r : topKpush(o.sort, o.offset + o.limit, b, r),
                                     <<>>, seen))
    ELSE SliceStable(o.sort, seen)

Window(o, rows) == IF o.limit > 0 THEN Take(Drop(rows, o.offset), o.limit)
                                  ELSE Drop(rows, o.offset)

\* The token of a page, given how many rows competed for it.
NextToken(o, page, count) ==
  IF o.limit > 0 /\ page # <<>> /\ count > o.offset + o.limit
    THEN encodeCursor(o.sort, Last(page)) ELSE None

Answer(page, next) == [rows |-> page, next |-> next, err |-> FALSE]
Paged(o, page, count) == Answer(page, NextToken(o, page, count))
Competing(o, seen) == Paged(o, Window(o, Kept(o, seen)), Len(seen))

\* scanOrdered over the matches it visits.
scanOrdered(o, tok, matches) ==
  Competing(o, SelectSeq(matches, LAMBDA r : cursorAfter(o.sort, tok, r)))

scanUnordered(o, matches) == Answer(Window(o, matches), None)

\* A scalar order_by is here the one-element sort ScanStream promotes it to.
\* ScanStream: the checks, the effective ordering, and one of the two scans.
Scanned(o, tok, matches) == IF o.sort # <<>> \/ tok # None THEN scanOrdered(o, tok, matches)
                                                         ELSE scanUnordered(o, matches)
Refused(o, tok, f) ==
  \/ \E i \in DOMAIN o.sort : ~checkField(o.sort[i].field)
  \/ BadToken(o.sort, tok)
  \/ ~checkFilterFields(f)
Planned(o, tok, f, hit) ==
  IF Refused(o, tok, f) THEN [rows |-> <<>>, next |-> None, err |-> TRUE]
                        ELSE Scanned(o, tok, forEachMatch(f, hit))
ScanStream(o, tok, hit) == Planned(o, tok, protoFilterToQuery(o.filter), hit)

\* ProjectData: the asked fields and the key; nothing asked is everything.
ProjectData(d, fields) ==
  IF fields = {} THEN d
  ELSE [f \in DOMAIN d \cap (fields \cup {KeyField}) |-> d[f]]

\* Find sends each record one step behind, and the token with the last.
Messages(o, s) ==
  [i \in DOMAIN s.rows |->
     [id |-> s.rows[i].id,
      data |-> ProjectData(s.rows[i].data, o.fields),
      token |-> IF i = Len(s.rows) THEN s.next ELSE None]]

-----------------------------------------------------------------------------
(* Aggregates.                                                             *)

\* Mutant: bucketing by the printed form alone.
canonicalGroupKey_Printed(v) == [t |-> "", k |-> v.k]

canonicalGroupKey(v) == [t |-> v.t, k |-> v.k]

newAcc(key) == [key |-> key, count |-> 0, numCount |-> 0, sum |-> 0,
                min |-> 0, max |-> 0, hasNum |-> FALSE]

fold(acc, spec, r) ==
  LET v == Field(r, spec.field)
      n == NumOf[v.k]
  IN IF spec.field = "" \/ ~asNumber(v) THEN [acc EXCEPT !.count = @ + 1]
     ELSE [acc EXCEPT !.count = @ + 1, !.sum = @ + n, !.numCount = @ + 1,
                      !.min = IF ~acc.hasNum \/ n < @ THEN n ELSE @,
                      !.max = IF ~acc.hasNum \/ n > @ THEN n ELSE @,
                      !.hasNum = TRUE]

\* The accumulators of Aggregate by bucket, from the records it visits.
Groups(spec, matches) ==
  LET key(r) == IF spec.groupBy = "" THEN Nil ELSE Field(r, spec.groupBy)
      visit(g, r) ==
        LET ck == canonicalGroupKey(key(r))
            acc == IF ck \in DOMAIN g THEN g[ck] ELSE newAcc(key(r))
        IN [c \in DOMAIN g \cup {ck} |-> IF c = ck THEN fold(acc, spec, r) ELSE g[c]]
  IN FoldLeft(visit, [c \in {} |-> 0], matches)

\* The emitted sequences: sort.Slice of the buckets by key, from the random
\* order of a map and without a tie-break.
Emissions(gs) ==
  {e \in SetToSeqs(gs) : \A i, j \in DOMAIN e : i < j => Compare(e[i].key, e[j].key) <= 0}

wantsNumericAgg(spec) == spec.numeric

\* Collection.Aggregate: the sequences it may emit, none when it refuses.
engineAggregate(spec, f, hit) ==
  IF ~checkField(spec.groupBy) \/ ~checkField(spec.field) \/ ~checkFilterFields(f)
    THEN {}
  ELSE IF spec.groupBy = "" /\ spec.field = ""
    THEN {<<[newAcc(Nil) EXCEPT !.count = Count(f)]>>}
  ELSE LET g == Groups(spec, forEachMatch(f, hit))
       IN Emissions({g[c] : c \in DOMAIN g})

\* The Aggregate handler: sum, avg, min and max need a field to reduce.
Aggregate(spec, hit) ==
  IF wantsNumericAgg(spec) /\ spec.field = "" THEN {}
  ELSE engineAggregate(spec, protoFilterToQuery(spec.filter), hit)

-----------------------------------------------------------------------------
(* Behaviour.                                                              *)

FindsOf(w) == [filter : w.filters, sort : w.sorts, limit : w.limits, offset : w.offsets,
               fields : w.projections]
Finds == FindsOf(W)
Specs == [filter : Filters, groupBy : W.groupings, field : {"", "a", "b"},
          numeric : BOOLEAN]

NoFind == [filter |-> [kind |-> "nil"], sort |-> <<>>, limit |-> 0, offset |-> 0,
           fields |-> {}]

NoWalk == [pc |-> "idle", o |-> NoFind, tok |-> None, out |-> <<>>, touched |-> {}]

Init == /\ work \in DOMAIN Workloads
        /\ live = <<>> /\ nextId = 1 /\ pager = NoWalk
        /\ IX!Init

Ids == {live[i].id : i \in DOMAIN live}

\* What an open walk remembers of a write; a finished one is forgotten.
Touch(id) == pager' = IF pager.pc = "open" THEN [pager EXCEPT !.touched = @ \cup {id}]
                                           ELSE NoWalk

\* The index follows a write of a record that had value v and has value w.
Reindex(id, v, w) ==
  \/ v = NoValue /\ w = NoValue /\ UNCHANGED <<ix, legacy>>
  \/ v = NoValue /\ w # NoValue /\ IX!Insert(id, w)
  \/ v # NoValue /\ IX!Update(id, w)

Insert == \E d \in Docs :
  /\ nextId <= W.maxId
  /\ live' = Append(live, [id |-> nextId, data |-> d])
  /\ nextId' = nextId + 1
  /\ Reindex(nextId, NoValue, ValueIn(d))
  /\ Touch(nextId) /\ UNCHANGED work

Update == \E r \in ToSet(live), d \in Docs :
  /\ live' = Append(SelectSeq(live, LAMBDA s : s # r), [id |-> r.id, data |-> d])
  /\ Reindex(r.id, ValueIn(r.data), ValueIn(d))
  /\ Touch(r.id) /\ UNCHANGED <<work, nextId>>

Delete == \E r \in ToSet(live) :
  /\ live' = SelectSeq(live, LAMBDA s : s # r)
  /\ Reindex(r.id, ValueIn(r.data), NoValue)
  /\ Touch(r.id) /\ UNCHANGED <<work, nextId>>

\* The index is rebuilt from the records, or the collection closed and opened.
Restart == /\ W.restarts
           /\ UNCHANGED <<work, live, nextId, pager>>
           /\ IX!Rebuild \/ IX!Reopen \/ IX!ReopenLegacy

\* A page of the walk: the records sent, and where the last one's token leads.
\* A Find that fails, or sends no record, ends it.
After(w, s, ms, next) ==
  [w EXCEPT !.pc = IF s.err THEN "failed" ELSE IF next = None THEN "done" ELSE "open",
            !.tok = next, !.out = @ \o [i \in DOMAIN ms |-> ms[i].id]]
Received(w, s, ms) == After(w, s, ms, IF ms = <<>> THEN None ELSE Last(ms).token)
Replied(w, s) == Received(w, s, Messages(w.o, s))
Find(w) == Replied(w, ScanStream(w.o, w.tok, indexHit(protoFilterToQuery(w.o.filter))))

FirstPage == /\ pager.pc # "open"
             /\ \E o \in W.walks : pager' = Find([NoWalk EXCEPT !.o = o])
             /\ UNCHANGED <<work, live, nextId, ix, legacy>>

\* The documented way to go on: the same request, offset 0, the token.
NextPage == /\ pager.pc = "open"
            /\ pager' = Find([pager EXCEPT !.o.offset = 0])
            /\ UNCHANGED <<work, live, nextId, ix, legacy>>

Next == Insert \/ Update \/ Delete \/ Restart \/ FirstPage \/ NextPage

Spec == Init /\ [][Next]_vars

-----------------------------------------------------------------------------
(* Properties.                                                             *)

\* The collection, the id counter and the client's walk have their shapes; a
\* walk that is open holds a token.
TypeOK ==
  /\ live \in Seq([id : 1..MaxId, data : Docs]) /\ nextId \in 1..(MaxId + 1)
  /\ Cardinality(Ids) = Len(live)
  /\ pager.pc \in {"idle", "open", "done", "failed"}
  /\ pager.pc = "open" <=> pager.tok # None
  /\ ToSet(pager.out) \subseteq 1..MaxId /\ pager.touched \subseteq 1..MaxId
  /\ IX!TypeOK

Times(id) == Cardinality({i \in DOMAIN pager.out : pager.out[i] = id})
Matching == {r \in ToSet(live) : Match(protoFilterToQuery(pager.o.filter), r.data)}

\* Concatenated pages of ScanStream (engine/scan.go) cover every matching row
\* that no write touched during the walk exactly once, and a walk never skips
\* past one it has still to reach.
PagesExactlyOnce ==
  pager.pc \in {"open", "done"} /\ pager.o.sort # <<>> /\ pager.o.offset = 0 =>
    \A r \in ToSet(live) : r.id \notin pager.touched =>
      Times(r.id) = IF /\ r \in Matching
                       /\ pager.tok = None \/ ~cursorAfter(pager.o.sort, pager.tok, r)
                      THEN 1 ELSE 0

\* What depends on the collection alone is looked at while no walk is open:
\* every collection occurs so.
Resting == pager.pc = "idle"

\* The bounded heap of scanOrdered agrees with a full sort: a limited page is
\* the part of the unlimited one that its offset and limit cut out.
TopKIsSort ==
  Resting =>
  \A o \in Finds : o.sort # <<>> /\ o.limit > 0 /\ ~ScanStream(o, None, FALSE).err =>
    ScanStream(o, None, FALSE).rows =
      Take(Drop(ScanStream([o EXCEPT !.limit = 0, !.offset = 0], None, FALSE).rows,
                o.offset), o.limit)

\* An ordered Find answers the same whether an index or a sweep of the segments
\* served it (indexCandidates).
PlanInvisible ==
  Resting => \A o \in Finds :
    o.sort # <<>> /\ indexHit(protoFilterToQuery(o.filter)) =>
      ScanStream(o, None, TRUE) = ScanStream(o, None, FALSE)

Numbers(rs, field) == {r \in rs : asNumber(Field(r, field))}
SumOf(rs, field) == FoldLeft(LAMBDA n, r : n + NumOf[Field(r, field).k], 0, SetToSeq(rs))

\* While no record has expired, Aggregate folds every matching record into the one
\* group that holds exactly its value, type included, with the count, sum and
\* extremes of that group.
AggregatesExact ==
  Resting => \A spec \in Specs :
    \A e \in Aggregate(spec, indexHit(protoFilterToQuery(spec.filter))) :
      LET matching == {r \in ToSet(live) : Match(protoFilterToQuery(spec.filter), r.data)}
          value(r) == IF spec.groupBy = "" THEN Nil ELSE Field(r, spec.groupBy)
      IN /\ {value(r) : r \in matching} \subseteq {e[i].key : i \in DOMAIN e}
         /\ \A i \in DOMAIN e :
              LET rs == {r \in matching : value(r) = e[i].key}
                  ns == IF spec.field = "" THEN {} ELSE Numbers(rs, spec.field)
                  at(n) == \E r \in ns : NumOf[Field(r, spec.field).k] = n
              IN /\ e[i].count = Cardinality(rs) /\ e[i].numCount = Cardinality(ns)
                 /\ e[i].sum = SumOf(ns, spec.field)
                 /\ e[i].hasNum <=> ns # {}
                 /\ ns # {} => /\ at(e[i].min) /\ at(e[i].max)
                               /\ \A r \in ns : NumOf[Field(r, spec.field).k]
                                                 \in e[i].min..e[i].max

\* The index answers as a scan of the records would: its buckets hold exactly
\* the live values, its ordered view lists each key in use once and in order, a
\* range that LookupRange serves has the answer of the scan, and none of this
\* changes when the collection is closed and opened again (add, remove, update,
\* rebuild, orderedInsert, LookupRange, Persist, Load).
IndexIsScan ==
  Resting => IX!BucketsExact /\ IX!ViewExact /\ IX!RangeIsScan /\ IX!ReopenKeeps

-----------------------------------------------------------------------------
(* Further properties, which hold on the instance of the run and are not   *)
(* part of it.                                                             *)

\* No query that is accepted depends on the stored form of an encrypted field
\* (checkField, checkFilterFields): swapping it in a record changes no match.
EncryptedIsOpaque ==
  Resting => \A p \in Filters : LET f == protoFilterToQuery(p) IN
    checkFilterFields(f) =>
      \A r \in ToSet(live), e \in Docs :
        /\ DOMAIN r.data = DOMAIN e
        /\ \A x \in DOMAIN e \ Encrypted : r.data[x] = e[x]
        => (Match(f, r.data) <=> Match(f, e))

-----------------------------------------------------------------------------
(* Not invariants of the code: TLC finds each of these violated on the     *)
(* instance of the run.                                                     *)

\* "Without any ordering, results are returned in insertion (id) order": what
\* docs/architecture.md says of a Find that names no sort key.
InsertionOrder ==
  \A o \in Finds :
    o.sort = <<>> => LET rows == ScanStream(o, None, indexHit(protoFilterToQuery(o.filter))).rows
                     IN \A i, j \in DOMAIN rows : i < j => rows[i].id < rows[j].id

\* "Emit in a deterministic order": what the comment in Aggregate says of the
\* sequence of groups.
OneEmission == \A spec \in Specs : Cardinality(Aggregate(spec, FALSE)) <= 1
=============================================================================

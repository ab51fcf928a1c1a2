------------------------------ MODULE Records ------------------------------
(***************************************************************************)
(* The writes of one collection as its callers see them: keyed and keyless *)
(* records, deadlines and the reaper, unique secondary indexes, the quota  *)
(* and conditional updates (engine/keys.go, ttl.go, quota.go, count.go and *)
(* collection.go).  The log is abstracted to the live records; each locked *)
(* section is one action, and what runs without c.mu is a step of its own: *)
(* the key resolution of the by-key calls, and the replay and the swap of  *)
(* an index rebuild.                                                       *)
(***************************************************************************)
EXTENDS Integers, FiniteSets

CONSTANTS
  Key,           \* the string keys
  None, NoRec, NoIdx,
  Thread,        \* callers of the keyed and of the index operations
  Settings       \* collections, callers and bounds to explore, by name

KeyField == "_key"
Field == {KeyField, "f"}

VARIABLES
  setting, \* the name of the setting
  recs,    \* [Id -> live record: rev, data, exp; NoRec otherwise]
  idSeq,   \* the id counter
  sidx,    \* sidxMap: [Field -> index or NoIdx]; at[i] is what it holds of i
  files,   \* sidx_<field>.json
  clock,
  th,      \* what each thread is in the middle of
  reap,    \* the reaper: the ids it collected and its reading of the clock
  builds   \* indexes created or rebuilt so far

vars == <<setting, recs, idSeq, sidx, files, clock, th, reap, builds>>

Val == Settings[setting].vals                \* the values of the one data field
Callers == Settings[setting].callers         \* the threads that occur
Registered == Settings[setting].registered   \* fields with a unique index from the start
DefaultTTL == Settings[setting].ttl          \* 0: records do not expire by default
MaxRecords == Settings[setting].records      \* the quota, 0 when unlimited
MaxId == Settings[setting].ids               \* bounds
MaxRev == Settings[setting].revs
MaxClock == Settings[setting].clock
MaxBuilds == Settings[setting].builds

Id == 1..MaxId
Idle == [pc |-> "idle"]
NotReaping == [ids |-> {}, now |-> 0]
Live == {i \in Id : recs[i] # NoRec}

stampKey(k, v) == [f \in Field |-> IF f = KeyField THEN k ELSE v]
NoData == stampKey(None, None)
Data == [Field -> Key \cup Val \cup {None}]

\* The bounds are numbers, callers are threads, and the two markers are told
\* from the records and the indexes they stand in for.
ASSUME SettingsAssumption ==
  \A n \in DOMAIN Settings :
    LET s == Settings[n]
        held == Key \cup s.vals \cup {None}
    IN /\ s.callers \subseteq Thread /\ s.registered \subseteq Field
       /\ {s.ttl, s.records, s.ids, s.revs, s.clock, s.builds} \subseteq Nat
       /\ NoRec \notin [rev : Nat, data : [Field -> held], exp : Nat]
       /\ NoIdx \notin [obj : Nat, unique : BOOLEAN, at : [1..s.ids -> held]]

-----------------------------------------------------------------------------
(* Indexes.                                                                *)

newSecondaryIndex(unique) ==
  [obj |-> builds + 1, unique |-> unique, at |-> [i \in Id |-> None]]

Lookup(x, v) == {i \in Id : x.at[i] = v}
IndexLookup(f, v) == IF sidx[f] = NoIdx THEN {} ELSE Lookup(sidx[f], v)
conflict(x, v, id) == Lookup(x, v) \ {id} # {}

\* What a replay of the segments makes of field f.
rebuild(f) == [i \in Id |-> IF i \in Live THEN recs[i].data[f] ELSE None]

sidxCheckUnique(id, d) ==
  \A f \in Field : (sidx[f] # NoIdx /\ d[f] # None) =>
                      (sidx[f].unique => ~conflict(sidx[f], d[f], id))

\* The batch, as a function from new ids to their data.
txCheckUnique(batch) ==
  /\ \A i \in DOMAIN batch : sidxCheckUnique(i, batch[i])
  /\ \A f \in Field : (sidx[f] # NoIdx /\ sidx[f].unique) =>
       \A i, j \in DOMAIN batch :
         i # j /\ batch[i][f] # None => batch[i][f] # batch[j][f]

\* The indexes after ids got new data; no data takes an id out.
Indexed(batch) ==
  [f \in Field |-> IF sidx[f] = NoIdx THEN NoIdx
     ELSE [sidx[f] EXCEPT !.at = [i \in Id |-> IF i \in DOMAIN batch
                                                 THEN batch[i][f] ELSE @[i]]]]

sidxIndexEntry(batch) == sidx' = Indexed(batch)

\* Mutant: a value the new data no longer has stays in the index.
sidxUpdateEntry_Keeps(id, d) ==
  sidx' = [f \in Field |-> IF sidx[f] = NoIdx \/ d[f] = None THEN sidx[f]
                           ELSE Indexed([i \in {id} |-> d])[f]]

sidxUpdateEntry(id, d) == sidx' = Indexed([i \in {id} |-> d])
sidxRemoveEntry(ids) == sidx' = Indexed([i \in ids |-> NoData])

-----------------------------------------------------------------------------
(* Deadlines and the quota.                                                *)

expired(exp, now) == exp # 0 /\ now >= exp
resolveInsertExpiry(explicit) ==
  IF explicit # 0 THEN explicit
  ELSE IF DefaultTTL > 0 THEN clock + DefaultTTL ELSE 0

\* getStored: what a read by id returns.
Visible == {i \in Live : ~expired(recs[i].exp, clock)}

\* Mutant: the quota counts the records before the write only.
checkQuota_Before(n) == MaxRecords > 0 => Cardinality(Live) <= MaxRecords
checkQuota(n) == MaxRecords > 0 => Cardinality(Live) + n <= MaxRecords

Count == Cardinality(Live)
CountEq(f, v) == Cardinality(IndexLookup(f, v))
Exists(k) == IndexLookup(KeyField, k) # {}

-----------------------------------------------------------------------------
(* The locked writes.                                                      *)

Fresh(d, exp) == [rev |-> 1, data |-> d, exp |-> exp]

\* insert, the path of Insert and InsertWithKey: the id is spent even when the
\* quota or a unique index refuses the record.
insert(d, exp) ==
  LET id == idSeq + 1
  IN /\ idSeq' = id
     /\ IF checkQuota(1) /\ sidxCheckUnique(id, d)
          THEN /\ recs' = [recs EXCEPT ![id] = Fresh(d, exp)]
               /\ sidxIndexEntry([i \in {id} |-> d])
          ELSE UNCHANGED <<recs, sidx>>

Insert(v, explicit) ==
  /\ idSeq < MaxId
  /\ insert(stampKey(None, v), resolveInsertExpiry(explicit))
  /\ UNCHANGED <<setting, files, clock, th, reap, builds>>

InsertMany(v, w) ==
  LET batch == [i \in {idSeq + 1, idSeq + 2} |->
                  stampKey(None, IF i = idSeq + 1 THEN v ELSE w)]
      exp == resolveInsertExpiry(0)
  IN /\ idSeq + 2 <= MaxId
     /\ idSeq' = idSeq + 2
     /\ IF checkQuota(2) /\ txCheckUnique(batch)
          THEN /\ recs' = [i \in Id |-> IF i \in DOMAIN batch
                                          THEN Fresh(batch[i], exp) ELSE recs[i]]
               /\ sidxIndexEntry(batch)
          ELSE UNCHANGED <<recs, sidx>>
     /\ UNCHANGED <<setting, files, clock, th, reap, builds>>

\* The record after an update: one revision up, with the given deadline.
Revised(id, d, exp) == [rev |-> recs[id].rev + 1, data |-> d, exp |-> exp]

update(id, d, exp) ==
  IF id \in Live /\ sidxCheckUnique(id, d)
    THEN /\ recs[id].rev < MaxRev
         /\ recs' = [recs EXCEPT ![id] = Revised(id, d, exp)]
         /\ sidxUpdateEntry(id, d)
    ELSE UNCHANGED <<recs, sidx>>

\* Update keeps the deadline, UpdateWithExpiry sets it.  Neither has the key:
\* data that carries the reserved field is refused.
Update(id, v) ==
  /\ id \in Live
  /\ update(id, stampKey(None, v), recs[id].exp)
  /\ UNCHANGED <<setting, idSeq, files, clock, th, reap, builds>>

UpdateWithExpiry(id, v, explicit) ==
  /\ id \in Live
  /\ update(id, stampKey(None, v), resolveInsertExpiry(explicit))
  /\ UNCHANGED <<setting, idSeq, files, clock, th, reap, builds>>

\* Delete of an absent id fails and changes nothing.
delete(id) == IF id \in Live
                THEN recs' = [recs EXCEPT ![id] = NoRec] /\ sidxRemoveEntry({id})
                ELSE UNCHANGED <<recs, sidx>>

Delete(id) == /\ id \in Live
              /\ delete(id)
              /\ UNCHANGED <<setting, idSeq, files, clock, th, reap, builds>>

-----------------------------------------------------------------------------
(* Index management and rebuilds: the replay and the swap of a rebuild are *)
(* not under c.mu.  A swap acts on the index object the thread holds: if   *)
(* it was dropped meanwhile, only the file comes back.  The replay of the  *)
(* segments is a cut of the log, and Persist follows the swap in one step: *)
(* a file differs from the index in memory only when the index was dropped.*)

\* ensureIndex, entered for an EnsureIndex call or by a keyed write (next is
\* what the thread does once the index exists).
ensureIndex(t, f, unique, next) ==
  IF sidx[f] # NoIdx
    THEN th' = [th EXCEPT ![t] = next] /\ UNCHANGED <<sidx, builds>>
    ELSE /\ builds < MaxBuilds
         /\ sidx' = [sidx EXCEPT ![f] = newSecondaryIndex(unique)]
         /\ builds' = builds + 1
         /\ th' = [th EXCEPT ![t] = [pc |-> "replay", field |-> f,
                                     x |-> newSecondaryIndex(unique), next |-> next]]

EnsureIndex(t, f, unique) ==
  /\ th[t] = Idle
  /\ sidx[f] = NoIdx
  /\ ensureIndex(t, f, unique, Idle)
  /\ UNCHANGED <<setting, recs, idSeq, files, clock, reap>>

Replay(t) ==
  /\ th[t].pc = "replay"
  /\ th' = [th EXCEPT ![t].pc = "swap", ![t].x.at = rebuild(th[t].field)]
  /\ UNCHANGED <<setting, recs, idSeq, sidx, files, clock, reap, builds>>

\* The replay could not read a segment: the registration is taken back.
ReplayFails(t) ==
  /\ th[t].pc = "replay"
  /\ sidx' = [sidx EXCEPT ![th[t].field] = NoIdx]
  /\ th' = [th EXCEPT ![t] = Idle]
  /\ UNCHANGED <<setting, recs, idSeq, files, clock, reap, builds>>

Swap(t) ==
  LET f == th[t].field
      x == th[t].x
      same == sidx[f] # NoIdx /\ sidx[f].obj = x.obj
  IN /\ th[t].pc = "swap"
     /\ sidx' = IF same THEN [sidx EXCEPT ![f].at = x.at] ELSE sidx
     /\ files' = [files EXCEPT ![f] = x]
     /\ th' = [th EXCEPT ![t] = th[t].next]
     /\ UNCHANGED <<setting, recs, idSeq, clock, reap, builds>>

\* The end of a compaction rebuilds every secondary index, one by one.
CompactRebuild(t, f) ==
  /\ th[t] = Idle
  /\ sidx[f] # NoIdx
  /\ builds < MaxBuilds
  /\ builds' = builds + 1
  /\ th' = [th EXCEPT ![t] = [pc |-> "swap", field |-> f, next |-> Idle,
                              x |-> [sidx[f] EXCEPT !.at = rebuild(f)]]]
  /\ UNCHANGED <<setting, recs, idSeq, sidx, files, clock, reap>>

DropIndex(f) ==
  /\ sidx[f] # NoIdx
  /\ sidx' = [sidx EXCEPT ![f] = NoIdx]
  /\ files' = [files EXCEPT ![f] = NoIdx]
  /\ UNCHANGED <<setting, recs, idSeq, clock, th, reap, builds>>

\* Close persists the indexes in memory; the next open loads the files.
Reopen ==
  /\ \A t \in Thread : th[t] = Idle
  /\ reap = NotReaping
  /\ files' = [f \in Field |-> IF sidx[f] = NoIdx THEN files[f] ELSE sidx[f]]
  /\ sidx' = files'
  /\ UNCHANGED <<setting, recs, idSeq, clock, th, reap, builds>>

-----------------------------------------------------------------------------
(* The keyed calls.                                                        *)

InsertWithKey(t, k, v) ==
  /\ th[t] = Idle
  /\ ensureIndex(t, KeyField, TRUE, [pc |-> "insert", key |-> k, val |-> v])
  /\ UNCHANGED <<setting, recs, idSeq, files, clock, reap>>

InsertKeyed(t) ==
  /\ th[t].pc = "insert"
  /\ idSeq < MaxId
  /\ insert(stampKey(th[t].key, th[t].val), resolveInsertExpiry(0))
  /\ th' = [th EXCEPT ![t] = Idle]
  /\ UNCHANGED <<setting, files, clock, reap, builds>>

Upsert(t, k, v) ==
  /\ th[t] = Idle
  /\ ensureIndex(t, KeyField, TRUE, [pc |-> "upsert", key |-> k, val |-> v])
  /\ UNCHANGED <<setting, recs, idSeq, files, clock, reap>>

\* The present-or-absent decision and the append are under one lock.  The
\* first id of the lookup counts: one that is no longer live means an insert.
UpsertLocked(t) ==
  LET held == IndexLookup(KeyField, th[t].key)
      d == stampKey(th[t].key, th[t].val)
  IN /\ th[t].pc = "upsert"
     /\ \/ /\ held = {} \/ held \ Live # {}
           /\ idSeq < MaxId
           /\ insert(d, resolveInsertExpiry(0))
        \/ \E id \in held \cap Live : /\ update(id, d, recs[id].exp)
                                      /\ UNCHANGED idSeq
     /\ th' = [th EXCEPT ![t] = Idle]
     /\ UNCHANGED <<setting, files, clock, reap, builds>>

\* UpdateByKey and DeleteByKey resolve the key and then act on the id.
ResolveKey(t, call, k, v) ==
  /\ th[t] = Idle
  /\ \E id \in IndexLookup(KeyField, k) :
       th' = [th EXCEPT ![t] = [pc |-> call, key |-> k, val |-> v, id |-> id]]
  /\ UNCHANGED <<setting, recs, idSeq, sidx, files, clock, reap, builds>>

UpdateByKey(t) ==
  LET id == th[t].id
  IN /\ th[t].pc = "updateByKey"
     /\ update(id, stampKey(th[t].key, th[t].val),
               IF id \in Live THEN recs[id].exp ELSE 0)
     /\ th' = [th EXCEPT ![t] = Idle]
     /\ UNCHANGED <<setting, idSeq, files, clock, reap, builds>>

DeleteByKey(t) ==
  /\ th[t].pc = "deleteByKey"
  /\ delete(th[t].id)
  /\ th' = [th EXCEPT ![t] = Idle]
  /\ UNCHANGED <<setting, idSeq, files, clock, reap, builds>>

\* A caller of UpdateIfRev read the record, and its revision, before.
GetByKey(t, k, v) ==
  /\ th[t] = Idle
  /\ \E id \in IndexLookup(KeyField, k) \cap Visible :
       th' = [th EXCEPT ![t] = [pc |-> "cas", key |-> k, val |-> v, id |-> id,
                                rev |-> recs[id].rev, saw |-> recs[id].data]]
  /\ UNCHANGED <<setting, recs, idSeq, sidx, files, clock, reap, builds>>

\* Mutant: the condition ignores the revision.
CasHolds_Any(id, t) == TRUE
CasHolds(id, t) == recs[id].rev = th[t].rev

UpdateIfRev(t) ==
  LET held == IndexLookup(KeyField, th[t].key)
  IN /\ th[t].pc = "cas"
     /\ \/ \E id \in held :
             IF id \in Live /\ CasHolds(id, t)
               THEN update(id, stampKey(th[t].key, th[t].val), recs[id].exp)
               ELSE UNCHANGED <<recs, sidx>>
        \/ held = {} /\ UNCHANGED <<recs, sidx>>
     /\ th' = [th EXCEPT ![t] = Idle]
     /\ UNCHANGED <<setting, idSeq, files, clock, reap, builds>>

\* A predicate on the current data, here its value, reads and writes in one step.
UpdateIfMatch(k, cur, v) ==
  /\ \E id \in IndexLookup(KeyField, k) \cap Live :
       /\ recs[id].data["f"] = cur
       /\ update(id, stampKey(k, v), recs[id].exp)
  /\ UNCHANGED <<setting, idSeq, files, clock, th, reap, builds>>

-----------------------------------------------------------------------------
(* Time and the reaper.                                                    *)

Tick == /\ clock < MaxClock
        /\ clock' = clock + 1
        /\ UNCHANGED <<setting, recs, idSeq, sidx, files, th, reap, builds>>

ReapCollect ==
  LET ids == {i \in Live : expired(recs[i].exp, clock)}
  IN /\ reap = NotReaping
     /\ ids # {}
     /\ reap' = [ids |-> ids, now |-> clock]
     /\ UNCHANGED <<setting, recs, idSeq, sidx, files, clock, th, builds>>

\* Mutant: the reaper trusts the ids it collected.
StillExpired_Trusts(i) == i \in Live
\* Mutant: a record whose deadline is this very instant is left.
StillExpired_Strict(i) == i \in Live /\ recs[i].exp # 0 /\ reap.now > recs[i].exp
StillExpired(i) == i \in Live /\ expired(recs[i].exp, reap.now)

ReapLocked ==
  LET gone == {i \in reap.ids : StillExpired(i)}
  IN /\ reap # NotReaping
     /\ recs' = [i \in Id |-> IF i \in gone THEN NoRec ELSE recs[i]]
     /\ sidxRemoveEntry(gone)
     /\ reap' = NotReaping
     /\ UNCHANGED <<setting, idSeq, files, clock, th, builds>>

-----------------------------------------------------------------------------
Init == /\ setting \in DOMAIN Settings
        /\ recs = [i \in Id |-> NoRec]
        /\ idSeq = 0
        /\ builds = 0
        /\ sidx = [f \in Field |-> IF f \in Registered
                                     THEN [obj |-> 0, unique |-> TRUE,
                                           at |-> [i \in Id |-> None]]
                                     ELSE NoIdx]
        /\ files = sidx
        /\ clock = 0
        /\ th = [t \in Thread |-> Idle]
        /\ reap = NotReaping

Write == \/ \E v \in Val : Insert(v, 0) \/ Insert(v, clock + 1)
         \/ \E v, w \in Val : InsertMany(v, w)
         \/ \E id \in Id, v \in Val :
              \/ Update(id, v)
              \/ UpdateWithExpiry(id, v, 0)
              \/ UpdateWithExpiry(id, v, clock + 1)
         \/ \E id \in Id : Delete(id)
         \/ \E k \in Key, cur, v \in Val : UpdateIfMatch(k, cur, v)

Keyed == \E t \in Callers :
           \/ \E k \in Key, v \in Val :
                \/ InsertWithKey(t, k, v)
                \/ Upsert(t, k, v)
                \/ ResolveKey(t, "updateByKey", k, v)
                \/ GetByKey(t, k, v)
           \/ \E k \in Key : ResolveKey(t, "deleteByKey", k, None)
           \/ InsertKeyed(t) \/ UpsertLocked(t) \/ UpdateByKey(t)
           \/ DeleteByKey(t) \/ UpdateIfRev(t)

Indexes == \/ \E t \in Callers :
                \/ \E f \in Field, u \in BOOLEAN : EnsureIndex(t, f, u)
                \/ \E f \in Field : CompactRebuild(t, f)
                \/ Replay(t) \/ ReplayFails(t) \/ Swap(t)
           \/ \E f \in Field : DropIndex(f)
           \/ Reopen

Reaper == ReapCollect \/ ReapLocked

Next == Write \/ Keyed \/ Indexes \/ Tick \/ Reaper

Spec == Init /\ [][Next]_vars

\* The compactor's ticker drives the reaper for as long as the collection is
\* open.
FairSpec == Spec /\ WF_vars(ReapCollect) /\ WF_vars(ReapLocked)

-----------------------------------------------------------------------------
(* Properties.                                                             *)

Deadlines == 0..MaxClock + 1 + DefaultTTL

\* Records, indexes and files have their shapes, and no id above the counter
\* is live.
TypeOK ==
  /\ idSeq \in 0..MaxId
  /\ \A i \in Live : /\ i <= idSeq
                     /\ recs[i].rev \in 1..MaxRev
                     /\ recs[i].data \in Data
                     /\ recs[i].exp \in Deadlines
  /\ \A f \in Field : \A x \in {sidx[f], files[f]} :
       x # NoIdx => x.unique \in BOOLEAN /\ x.obj \in 0..MaxBuilds
  /\ clock \in 0..MaxClock
  /\ reap.ids \subseteq Id

\* Where indexes are registered before the writers start, every index holds
\* exactly what the live records have: the writes maintain it under the lock,
\* and the reads and unique checks trust it.
IndexExact ==
  MaxBuilds = 0 => \A f \in Field : sidx[f] # NoIdx => sidx[f].at = rebuild(f)

\* However inserts, batches, upserts, updates and deletes interleave, no two
\* live records share a value, a string key included, of a field that has had
\* a unique index from the start, and the collection holds at most MaxRecords
\* records (sidxCheckUnique, txCheckUnique, checkQuotaLocked).
LimitsHold ==
  /\ \A f \in Registered : (MaxBuilds = 0 /\ sidx[f] # NoIdx /\ sidx[f].unique) =>
       \A i, j \in Live : i # j /\ recs[i].data[f] # None =>
                             recs[i].data[f] # recs[j].data[f]
  /\ MaxRecords > 0 => Count <= MaxRecords

\* An UpdateIfRev that applies to the record its caller read overwrites the
\* very data it read: two callers that read one revision cannot both apply,
\* nor can one apply over a write it has not seen.  A record inserted anew under
\* the key is another one: its revisions start again.
CasSeesItsRead ==
  [][\A t \in Thread : (UpdateIfRev(t) /\ recs' # recs) =>
       \A i \in Id : recs'[i] # recs[i] /\ i = th[t].id => recs[i].data = th[t].saw]_vars

\* The reaper removes no record whose deadline was moved after it collected
\* its ids.
ReapsOnlyExpired ==
  [][ReapLocked => \A i \in Live : recs'[i] = NoRec => expired(recs[i].exp, clock)]_vars

\* Every expired record is reaped, or its deadline is moved.
ExpiredAreReaped ==
  \A i \in UNION {1..Settings[n].ids : n \in DOMAIN Settings} : (i \in Live /\ expired(recs[i].exp, clock))
                 ~> (i \notin Live \/ ~expired(recs[i].exp, clock))

-----------------------------------------------------------------------------
(* Further properties, which hold on the instance of the run and are not   *)
(* part of it.                                                             *)

\* An index that was dropped while nothing rebuilt it does not come back when
\* the collection is opened.
DroppedStaysDropped ==
  [][MaxBuilds = 0 /\ Reopen => \A f \in Field : sidx[f] = NoIdx => sidx'[f] = NoIdx]_vars

-----------------------------------------------------------------------------
(* Not invariants of the code: TLC finds each of these violated on the     *)
(* instance of the run.                                                     *)

\* No two live records carry the same string key, whoever made the index.
KeysAreUnique == \A i, j \in Live : i # j /\ recs[i].data[KeyField] # None =>
                                    recs[i].data[KeyField] # recs[j].data[KeyField]

\* "The result equals len(Scan(f)) for every filter" (count.go).
CountIsScan ==
  /\ Count = Cardinality(Visible)
  /\ \A v \in Val : sidx["f"] # NoIdx =>
       CountEq("f", v) = Cardinality({i \in Visible : recs[i].data["f"] = v})

\* An upsert leaves a record its caller can read under the key.
UpsertIsVisible ==
  [][\A t \in Thread : UpsertLocked(t) =>
       \A i \in Id : recs'[i] # recs[i] => ~expired(recs'[i].exp, clock)]_vars

\* A record's string key is fixed when it is inserted.
KeyIsFixed ==
  [][\A i \in Live : (recs[i].data[KeyField] # None /\ recs'[i] # NoRec) =>
       recs'[i].data[KeyField] = recs[i].data[KeyField]]_vars
=============================================================================

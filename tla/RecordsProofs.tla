----------------------------- MODULE RecordsProofs ----------------------------
(***************************************************************************)
(* Theorems about Records, for every set of keys, threads and settings:    *)
(* indexes that were there from the start stay exact, unique fields and    *)
(* the quota hold, a conditional update overwrites what its caller read,   *)
(* and the reaper removes expired records only.                            *)
(***************************************************************************)
EXTENDS Records, FiniteSetTheorems, TLAPS

Held == Key \cup Val \cup {None}
Rec == [rev : Nat, data : Data, exp : Nat]
Idx == [obj : Nat, unique : BOOLEAN, at : [Id -> Held]]

\* What a thread can be in the middle of.
Puts == [pc : {"insert", "upsert"}, key : Key, val : Val]
Updates == [pc : {"updateByKey"}, key : Key, val : Val, id : Id]
Deletes == [pc : {"deleteByKey"}, key : Key, val : {None}, id : Id]
Reads == [pc : {"cas"}, key : Key, val : Val, id : Id, rev : Nat, saw : Data]
Rebuilds == [pc : {"replay", "swap"}, field : Field, x : Idx, next : {Idle} \cup Puts]
Doing == {Idle} \cup Puts \cup Updates \cup Deletes \cup Reads \cup Rebuilds

\* The state has its shapes, whatever the bounds on the run.
ShapeInv ==
  /\ setting \in DOMAIN Settings
  /\ recs \in [Id -> Rec \cup {NoRec}]
  /\ idSeq \in 0..MaxId
  /\ sidx \in [Field -> Idx \cup {NoIdx}]
  /\ files \in [Field -> Idx \cup {NoIdx}]
  /\ clock \in Nat /\ builds \in Nat
  /\ th \in [Thread -> Doing]

\* No id above the counter was given out.
IssuedInv == \A i \in Id : i > idSeq => recs[i] = NoRec

\* The record a caller read is gone for good, or at the revision it read and
\* unchanged, or at a later one.
ReadInv ==
  \A t \in Thread : th[t].pc = "cas" =>
    /\ th[t].id <= idSeq
    /\ th[t].id \in Live => /\ th[t].rev <= recs[th[t].id].rev
                            /\ recs[th[t].id].rev = th[t].rev =>
                                 recs[th[t].id].data = th[t].saw

\* The reaper's reading of the clock is not ahead of it.
ReapInv == reap.ids \subseteq Id /\ reap.now \in Nat /\ reap.now <= clock

\* Without builds no thread holds an index to swap in, the indexes in memory
\* are exact, and a dropped one has no file.
ExactInv ==
  MaxBuilds = 0 =>
    /\ \A t \in Thread : th[t].pc \notin {"replay", "swap"}
    /\ \A f \in Field : IF sidx[f] = NoIdx THEN files[f] = NoIdx
                        ELSE sidx[f].at = rebuild(f)

\* With exact indexes the unique ones have no value twice.
UniqueInv ==
  MaxBuilds = 0 =>
    \A f \in Field : sidx[f] # NoIdx /\ sidx[f].unique =>
      \A i, j \in Live : i # j /\ recs[i].data[f] # None => recs[i].data[f] # recs[j].data[f]

QuotaInv == MaxRecords > 0 => Count <= MaxRecords

RecordsInv ==
  ShapeInv /\ IssuedInv /\ ReadInv /\ ReapInv /\ ExactInv /\ UniqueInv /\ QuotaInv

-----------------------------------------------------------------------------
(* Lemmas about the operators.                                             *)

\* What the settings of a run are.
LEMMA Bounds ==
  ASSUME setting \in DOMAIN Settings
  PROVE  /\ Callers \subseteq Thread /\ Registered \subseteq Field /\ MaxId \in Nat /\ MaxRecords \in Nat
         /\ MaxBuilds \in Nat /\ DefaultTTL \in Nat
         /\ NoRec \notin Rec /\ NoIdx \notin Idx
BY SettingsAssumption
   DEF Callers, Registered, MaxId, MaxRecords, MaxBuilds, DefaultTTL, Rec, Idx, Data, Held, Id, Val

\* The settings do not change.
LEMMA SettingKept ==
  ASSUME setting' = setting
  PROVE  /\ Id' = Id /\ Val' = Val /\ MaxId' = MaxId /\ MaxRecords' = MaxRecords
         /\ MaxBuilds' = MaxBuilds /\ Registered' = Registered
         /\ Data' = Data /\ Held' = Held /\ Rec' = Rec /\ Idx' = Idx
         /\ Puts' = Puts /\ Doing' = Doing
<1>1. Id' = Id /\ Val' = Val /\ MaxId' = MaxId /\ MaxRecords' = MaxRecords
      /\ MaxBuilds' = MaxBuilds /\ Registered' = Registered
  BY DEF Id, Val, MaxId, MaxRecords, MaxBuilds, Registered
<1>2. Data' = Data /\ Held' = Held BY <1>1 DEF Data, Held
<1>3. Rec' = Rec /\ Idx' = Idx /\ Puts' = Puts BY <1>1, <1>2 DEF Rec, Idx, Puts
<1>4. Updates' = Updates /\ Deletes' = Deletes /\ Reads' = Reads /\ Rebuilds' = Rebuilds
  BY <1>1, <1>2, <1>3 DEF Updates, Deletes, Reads, Rebuilds
<1> QED BY <1>1, <1>2, <1>3, <1>4 DEF Doing

\* The program counter tells what a thread is in the middle of.
LEMMA DoingByPc ==
  ASSUME NEW x \in Doing
  PROVE  /\ x.pc \in {"insert", "upsert"} => x \in Puts
         /\ x.pc = "updateByKey" => x \in Updates
         /\ x.pc = "deleteByKey" => x \in Deletes
         /\ x.pc = "cas" => x \in Reads
         /\ x.pc \in {"replay", "swap"} => x \in Rebuilds
BY DEF Doing, Idle, Puts, Updates, Deletes, Reads, Rebuilds

\* The data of a record.
LEMMA Stamped ==
  ASSUME NEW k \in Held, NEW v \in Held
  PROVE  stampKey(k, v) \in Data /\ NoData \in Data /\ \A f \in Field : NoData[f] = None
BY DEF stampKey, Data, Held, NoData

\* A deadline is a number.
LEMMA ExpiryIsNat ==
  ASSUME ShapeInv, NEW e \in Nat
  PROVE  resolveInsertExpiry(e) \in Nat
BY Bounds DEF resolveInsertExpiry, ShapeInv

\* What a rebuild makes of a field.
LEMMA RebuildShape ==
  ASSUME ShapeInv, NEW f \in Field
  PROVE  /\ rebuild(f) \in [Id -> Held]
         /\ \A i \in Id : rebuild(f)[i] = IF recs[i] # NoRec THEN recs[i].data[f] ELSE None
BY DEF rebuild, Live, ShapeInv, Rec, Data, Held

-----------------------------------------------------------------------------
(* Writes.  Every write puts a batch of data under some ids, where no data *)
(* means that the record goes, and maintains the indexes alike.            *)

Wrote(batch) ==
  /\ DOMAIN batch \subseteq Id /\ batch \in [DOMAIN batch -> Data]
  /\ recs' \in [Id -> Rec \cup {NoRec}]
  /\ \A i \in Id \ DOMAIN batch : recs'[i] = recs[i]
  /\ \A i \in DOMAIN batch : IF recs'[i] = NoRec THEN batch[i] = NoData
                             ELSE recs'[i].data = batch[i]
  /\ sidx' = Indexed(batch)

\* The indexes after a write: the same ones, holding the new data.
LEMMA IndexedShape ==
  ASSUME ShapeInv, NEW batch, batch \in [DOMAIN batch -> Data], sidx' = Indexed(batch)
  PROVE  /\ sidx' \in [Field -> Idx \cup {NoIdx}]
         /\ \A f \in Field : sidx'[f] = NoIdx <=> sidx[f] = NoIdx
         /\ \A f \in Field : sidx[f] # NoIdx =>
              /\ sidx'[f].unique = sidx[f].unique
              /\ sidx'[f].at = [i \in Id |-> IF i \in DOMAIN batch THEN batch[i][f]
                                             ELSE sidx[f].at[i]]
<1>1. ASSUME NEW f \in Field
      PROVE  /\ sidx'[f] \in Idx \cup {NoIdx}
             /\ sidx'[f] = NoIdx <=> sidx[f] = NoIdx
             /\ sidx[f] # NoIdx =>
                  /\ sidx'[f].unique = sidx[f].unique
                  /\ sidx'[f].at = [i \in Id |-> IF i \in DOMAIN batch THEN batch[i][f]
                                                 ELSE sidx[f].at[i]]
  <2>1. CASE sidx[f] = NoIdx BY <2>1 DEF Indexed
  <2>2. CASE sidx[f] # NoIdx
    <3> DEFINE new == [i \in Id |-> IF i \in DOMAIN batch THEN batch[i][f]
                                    ELSE sidx[f].at[i]]
    <3>1. sidx[f] \in Idx BY <2>2 DEF ShapeInv
    <3>2. new \in [Id -> Held]
      <4>1. \A i \in DOMAIN batch : batch[i] \in [Field -> Held] BY DEF Data, Held
      <4>2. \A i \in Id : sidx[f].at[i] \in Held BY <3>1 DEF Idx
      <4> QED BY <4>1, <4>2
    <3>3. sidx'[f] = [sidx[f] EXCEPT !.at = new] BY <2>2 DEF Indexed
    <3> HIDE DEF new
    <3>4. sidx'[f] \in Idx /\ sidx'[f].unique = sidx[f].unique /\ sidx'[f].at = new
      BY <3>1, <3>2, <3>3 DEF Idx
    <3>5. NoIdx \notin Idx BY Bounds DEF ShapeInv
    <3> QED BY <2>2, <3>4, <3>5 DEF new
  <2> QED BY <2>1, <2>2
<1>2. sidx' = [f \in Field |-> sidx'[f]] BY DEF Indexed
<1> QED BY <1>1, <1>2

\* A write keeps exact indexes exact.
LEMMA WroteExact ==
  ASSUME ShapeInv, NEW batch, Wrote(batch), setting' = setting,
         NEW f \in Field, sidx[f] # NoIdx, sidx[f].at = rebuild(f)
  PROVE  sidx'[f].at = rebuild(f)'
<1>1. sidx'[f].at = [i \in Id |-> IF i \in DOMAIN batch THEN batch[i][f] ELSE sidx[f].at[i]]
  <2>1. sidx' = Indexed(batch) /\ batch \in [DOMAIN batch -> Data] BY DEF Wrote
  <2>2. \A g \in Field : sidx[g] # NoIdx =>
          sidx'[g].at = [i \in Id |-> IF i \in DOMAIN batch THEN batch[i][g] ELSE sidx[g].at[i]]
    BY <2>1, IndexedShape
  <2> QED BY <2>2
<1>2. rebuild(f)' = [i \in Id |-> IF recs'[i] # NoRec THEN recs'[i].data[f] ELSE None]
  BY SettingKept DEF rebuild, Live
<1>3. ASSUME NEW i \in Id
      PROVE  (IF i \in DOMAIN batch THEN batch[i][f] ELSE sidx[f].at[i])
               = (IF recs'[i] # NoRec THEN recs'[i].data[f] ELSE None)
  <2>1. CASE i \in DOMAIN batch
    <3>1. NoData[f] = None BY DEF NoData, stampKey
    <3> QED BY <2>1, <3>1 DEF Wrote
  <2>2. CASE i \notin DOMAIN batch
    <3>1. recs'[i] = recs[i] BY <2>2 DEF Wrote
    <3> QED BY <2>2, <3>1, RebuildShape
  <2> QED BY <2>1, <2>2
<1> QED BY <1>1, <1>2, <1>3

\* A checked write gives no unique value twice.
LEMMA WroteUnique ==
  ASSUME ShapeInv, NEW batch, Wrote(batch), setting' = setting, txCheckUnique(batch),
         NEW f \in Field, sidx[f] # NoIdx, sidx[f].at = rebuild(f), sidx[f].unique,
         \A i, j \in Live : i # j /\ recs[i].data[f] # None => recs[i].data[f] # recs[j].data[f],
         NEW i \in Id, NEW j \in Id, recs'[i] # NoRec, recs'[j] # NoRec, i # j,
         recs'[i].data[f] # None
  PROVE  recs'[i].data[f] # recs'[j].data[f]
<1>1. \A k \in Id : recs[k] # NoRec => sidx[f].at[k] = recs[k].data[f] BY RebuildShape
<1>2. \A k \in DOMAIN batch : recs'[k] # NoRec => recs'[k].data = batch[k] BY DEF Wrote
<1>3. \A k \in Id : k \notin DOMAIN batch => recs'[k] = recs[k] BY DEF Wrote
<1>4. ASSUME NEW k \in DOMAIN batch, batch[k][f] # None,
             NEW l \in Id, l # k, recs[l] # NoRec
      PROVE  recs[l].data[f] # batch[k][f]
  <2>1. ~conflict(sidx[f], batch[k][f], k) BY <1>4 DEF txCheckUnique, sidxCheckUnique
  <2>2. sidx[f].at[l] # batch[k][f] BY <1>4, <2>1 DEF conflict, Lookup
  <2> QED BY <1>1, <1>4, <2>2
<1>5. CASE i \in DOMAIN batch /\ j \in DOMAIN batch BY <1>2, <1>5 DEF txCheckUnique
<1>6. CASE i \in DOMAIN batch /\ j \notin DOMAIN batch BY <1>2, <1>3, <1>4, <1>6
<1>7. CASE i \notin DOMAIN batch /\ j \in DOMAIN batch BY <1>2, <1>3, <1>4, <1>7
<1>8. CASE i \notin DOMAIN batch /\ j \notin DOMAIN batch BY <1>3, <1>8 DEF Live
<1> QED BY <1>5, <1>6, <1>7, <1>8

\* Records added to the live ones.
LEMMA CountAdded ==
  ASSUME NEW S, NEW T, NEW U, IsFiniteSet(S), IsFiniteSet(U), T \subseteq S \cup U
  PROVE  /\ Cardinality(T) \in Nat /\ Cardinality(S) \in Nat /\ Cardinality(U) \in Nat
         /\ Cardinality(T) <= Cardinality(S) + Cardinality(U)
<1>1. /\ IsFiniteSet(S \cup U) /\ Cardinality(S \cup U) \in Nat
      /\ Cardinality(S) \in Nat /\ Cardinality(U) \in Nat /\ Cardinality(S \cap U) \in Nat
      /\ Cardinality(S \cup U) = Cardinality(S) + Cardinality(U) - Cardinality(S \cap U)
  BY FS_Union, FS_Intersection, FS_CardinalityType
<1>2. IsFiniteSet(T) /\ Cardinality(T) <= Cardinality(S \cup U) BY <1>1, FS_Subset
<1>3. Cardinality(T) \in Nat BY <1>2, FS_CardinalityType
<1> QED BY <1>1, <1>2, <1>3

\* The quota holds after a write that adds the records it was asked for.
LEMMA QuotaStep ==
  ASSUME ShapeInv, setting' = setting, QuotaInv, NEW U, IsFiniteSet(U), Live' \subseteq Live \cup U,
         U = {} \/ checkQuota(Cardinality(U))
  PROVE  QuotaInv'
<1>1. IsFiniteSet(Live)
  <2>1. IsFiniteSet(Id) BY Bounds, FS_Interval DEF Id, ShapeInv
  <2> QED BY <2>1, FS_Subset DEF Live
<1>2. /\ Cardinality(Live') \in Nat /\ Cardinality(Live) \in Nat /\ Cardinality(U) \in Nat
      /\ Cardinality(Live') <= Cardinality(Live) + Cardinality(U)
  BY <1>1, CountAdded
<1>3. MaxRecords \in Nat /\ MaxRecords' = MaxRecords BY Bounds, SettingKept DEF ShapeInv
<1>4. Count' = Cardinality(Live') /\ Count = Cardinality(Live) BY DEF Count
<1>5. CASE U = {}
  <2>1. Cardinality(U) = 0 BY <1>5, FS_EmptySet
  <2> QED BY <1>2, <1>3, <1>4, <2>1 DEF QuotaInv
<1>6. CASE checkQuota(Cardinality(U)) BY <1>2, <1>3, <1>4, <1>6 DEF QuotaInv, checkQuota
<1> QED BY <1>5, <1>6

\* What every locked write does, refused or not.
WriteStep ==
  /\ setting' = setting /\ idSeq' \in idSeq..MaxId
  /\ \/ recs' = recs /\ sidx' = sidx
     \/ \E batch : Wrote(batch) /\ txCheckUnique(batch)
  /\ \A i \in Id : recs'[i] # NoRec => \/ recs'[i] = recs[i]
                                       \/ i > idSeq /\ i <= idSeq'
                                       \/ recs[i] # NoRec /\ recs[i].rev < recs'[i].rev
  /\ QuotaInv'

\* A write that changes nothing.
LEMMA RefusedStep ==
  ASSUME ShapeInv, QuotaInv, setting' = setting, idSeq' \in idSeq..MaxId,
         recs' = recs, sidx' = sidx
  PROVE  WriteStep
<1>1. Live' = Live BY SettingKept DEF Live
<1>2. QuotaInv' BY <1>1, SettingKept DEF QuotaInv, Count
<1> QED BY <1>2 DEF WriteStep

\* A checked single record.
LEMMA SingleChecked ==
  ASSUME NEW id \in Id, NEW d \in Data, sidxCheckUnique(id, d)
  PROVE  txCheckUnique([i \in {id} |-> d])
<1> DEFINE batch == [i \in {id} |-> d]
<1>1. DOMAIN batch = {id} /\ batch[id] = d OBVIOUS
<1> HIDE DEF batch
<1>2. \A i \in DOMAIN batch : sidxCheckUnique(i, batch[i]) BY <1>1
<1>3. \A i, j \in DOMAIN batch : i = j BY <1>1
<1>4. txCheckUnique(batch) BY <1>2, <1>3 DEF txCheckUnique
<1> QED BY <1>4 DEF batch

\* No data conflicts with nothing.
LEMMA NoDataChecked ==
  ASSUME NEW ids \in SUBSET Id
  PROVE  txCheckUnique([i \in ids |-> NoData])
<1>1. \A f \in Field : NoData[f] = None BY DEF NoData, stampKey
<1>2. \A i \in ids : sidxCheckUnique(i, NoData) BY <1>1 DEF sidxCheckUnique
<1> QED BY <1>1, <1>2 DEF txCheckUnique

\* insert (Insert, InsertWithKey and the insert of Upsert).
LEMMA InsertStep ==
  ASSUME ShapeInv, QuotaInv, setting' = setting, idSeq < MaxId,
         NEW d \in Data, NEW exp \in Nat, insert(d, exp)
  PROVE  WriteStep
<1> DEFINE id == idSeq + 1
           batch == [i \in {id} |-> d]
<1>1. /\ MaxId \in Nat /\ idSeq \in Nat /\ id \in Id /\ idSeq' = id
      /\ idSeq' \in idSeq..MaxId /\ id > idSeq
  BY Bounds DEF ShapeInv, Id, insert
<1>2. CASE checkQuota(1) /\ sidxCheckUnique(id, d)
  <2>1. recs' = [recs EXCEPT ![id] = Fresh(d, exp)] /\ sidx' = Indexed(batch)
    BY <1>2 DEF insert, sidxIndexEntry
  <2>2. Fresh(d, exp) \in Rec /\ Fresh(d, exp).data = d /\ Fresh(d, exp) # NoRec
    BY Bounds DEF Fresh, Rec, ShapeInv
  <2>3. DOMAIN batch = {id} /\ batch[id] = d /\ batch \in [DOMAIN batch -> Data] OBVIOUS
  <2>4. txCheckUnique(batch) BY <1>1, <1>2, SingleChecked
  <2> HIDE DEF batch
  <2>5. /\ recs' \in [Id -> Rec \cup {NoRec}] /\ recs'[id] = Fresh(d, exp)
        /\ \A i \in Id \ {id} : recs'[i] = recs[i]
    BY <1>1, <2>1, <2>2 DEF ShapeInv
  <2> HIDE DEF id
  <2>6. Wrote(batch) BY <1>1, <2>1, <2>2, <2>3, <2>5 DEF Wrote
  <2>7. Live' \subseteq Live \cup {id} BY <2>5, SettingKept DEF Live
  <2>8. IsFiniteSet({id}) /\ Cardinality({id}) = 1 BY FS_Singleton
  <2>9. QuotaInv' BY <1>2, <2>7, <2>8, QuotaStep
  <2>10. id <= idSeq' BY <1>1 DEF Id
  <2> QED BY <1>1, <2>4, <2>5, <2>6, <2>9, <2>10 DEF WriteStep
<1>3. CASE ~(checkQuota(1) /\ sidxCheckUnique(id, d))
  <2>1. recs' = recs /\ sidx' = sidx BY <1>3 DEF insert
  <2> QED BY <1>1, <2>1, RefusedStep
<1> QED BY <1>2, <1>3

\* InsertMany.
LEMMA InsertManyStep ==
  ASSUME ShapeInv, QuotaInv, NEW v \in Val, NEW w \in Val, InsertMany(v, w)
  PROVE  WriteStep
<1> DEFINE batch == [i \in {idSeq + 1, idSeq + 2} |->
                       stampKey(None, IF i = idSeq + 1 THEN v ELSE w)]
           exp == resolveInsertExpiry(0)
           new == {idSeq + 1, idSeq + 2}
<1>1. /\ MaxId \in Nat /\ idSeq \in Nat /\ new \subseteq Id /\ idSeq' = idSeq + 2
      /\ idSeq' \in idSeq..MaxId /\ setting' = setting
  BY Bounds DEF ShapeInv, Id, InsertMany
<1>2. batch \in [new -> Data]
  <2>1. None \in Held /\ v \in Held /\ w \in Held BY DEF Held
  <2>2. stampKey(None, v) \in Data /\ stampKey(None, w) \in Data BY <2>1, Stamped
  <2> QED BY <2>2
<1>3. exp \in Nat BY ExpiryIsNat
<1>4. IF checkQuota(2) /\ txCheckUnique(batch)
        THEN /\ recs' = [i \in Id |-> IF i \in DOMAIN batch THEN Fresh(batch[i], exp) ELSE recs[i]]
             /\ sidx' = Indexed(batch)
        ELSE recs' = recs /\ sidx' = sidx
  BY DEF InsertMany, sidxIndexEntry
<1> HIDE DEF batch, exp
<1>5. DOMAIN batch = new BY <1>2
<1>6. CASE checkQuota(2) /\ txCheckUnique(batch)
  <2>1. \A i \in new : /\ Fresh(batch[i], exp) \in Rec /\ Fresh(batch[i], exp).data = batch[i]
                       /\ Fresh(batch[i], exp) # NoRec
    BY <1>2, <1>3, Bounds DEF Fresh, Rec, ShapeInv
  <2>2. IsFiniteSet(new) /\ Cardinality(new) = 2
    <3> DEFINE first == {idSeq + 1}
    <3>1. IsFiniteSet(first) /\ Cardinality(first) = 1 BY FS_Singleton
    <3>2. new = first \cup {idSeq + 2} /\ idSeq + 2 \notin first BY <1>1
    <3> HIDE DEF first, new
    <3>3. /\ IsFiniteSet(first \cup {idSeq + 2})
          /\ Cardinality(first \cup {idSeq + 2}) = Cardinality(first) + 1
      BY <3>1, <3>2, FS_AddElement
    <3> QED BY <3>1, <3>2, <3>3
  <2>3. \A i \in new : i > idSeq /\ i <= idSeq' BY <1>1
  <2> HIDE DEF new
  <2>4. /\ \A i \in new : recs'[i] = Fresh(batch[i], exp)
        /\ \A i \in Id \ new : recs'[i] = recs[i]
        /\ recs' \in [Id -> Rec \cup {NoRec}]
    <3>1. recs' = [i \in Id |-> IF i \in new THEN Fresh(batch[i], exp) ELSE recs[i]]
      BY <1>4, <1>5, <1>6
    <3> QED BY <1>1, <2>1, <3>1 DEF ShapeInv
  <2>5. Wrote(batch) BY <1>1, <1>2, <1>4, <1>5, <1>6, <2>1, <2>4 DEF Wrote
  <2>6. Live' \subseteq Live \cup new BY <1>1, <2>4, SettingKept DEF Live
  <2>7. QuotaInv' BY <1>1, <1>6, <2>2, <2>6, QuotaStep
  <2> QED BY <1>1, <1>6, <2>3, <2>4, <2>5, <2>7 DEF WriteStep
<1>7. CASE ~(checkQuota(2) /\ txCheckUnique(batch)) BY <1>1, <1>4, <1>7, RefusedStep
<1> QED BY <1>6, <1>7

\* update (every update call).
LEMMA UpdateStep ==
  ASSUME ShapeInv, QuotaInv, setting' = setting, idSeq' = idSeq,
         NEW id \in Id, NEW d \in Data, NEW exp \in Nat, update(id, d, exp)
  PROVE  WriteStep
<1> DEFINE batch == [i \in {id} |-> d]
<1>1. idSeq' \in idSeq..MaxId BY Bounds DEF ShapeInv
<1>2. CASE id \in Live /\ sidxCheckUnique(id, d)
  <2>1. recs' = [recs EXCEPT ![id] = Revised(id, d, exp)] /\ sidx' = Indexed(batch)
    BY <1>2 DEF update, sidxUpdateEntry
  <2>2. recs[id] \in Rec /\ recs[id] # NoRec BY <1>2 DEF Live, ShapeInv
  <2>3. /\ Revised(id, d, exp) \in Rec /\ Revised(id, d, exp).data = d
        /\ recs[id].rev < Revised(id, d, exp).rev /\ Revised(id, d, exp) # NoRec
    BY <2>2, Bounds DEF Revised, Rec, ShapeInv
  <2>4. DOMAIN batch = {id} /\ batch[id] = d /\ batch \in [DOMAIN batch -> Data] OBVIOUS
  <2>5. txCheckUnique(batch) BY <1>2, SingleChecked
  <2> HIDE DEF batch
  <2>6. /\ recs' \in [Id -> Rec \cup {NoRec}] /\ recs'[id] = Revised(id, d, exp)
        /\ \A i \in Id \ {id} : recs'[i] = recs[i]
    BY <2>1, <2>3 DEF ShapeInv
  <2>7. Wrote(batch) BY <2>1, <2>3, <2>4, <2>6 DEF Wrote
  <2>8. Live' \subseteq Live \cup {} BY <2>2, <2>6, SettingKept DEF Live
  <2>9. QuotaInv' BY <2>8, QuotaStep, FS_EmptySet
  <2> QED BY <1>1, <2>2, <2>3, <2>5, <2>6, <2>7, <2>9 DEF WriteStep
<1>3. CASE ~(id \in Live /\ sidxCheckUnique(id, d))
  <2>1. recs' = recs /\ sidx' = sidx BY <1>3 DEF update
  <2> QED BY <1>1, <2>1, RefusedStep
<1> QED BY <1>2, <1>3

\* Records that go, one by one or by the reaper.
LEMMA RemoveStep ==
  ASSUME ShapeInv, QuotaInv, setting' = setting, idSeq' = idSeq, NEW ids \in SUBSET Id,
         recs' = [i \in Id |-> IF i \in ids THEN NoRec ELSE recs[i]], sidxRemoveEntry(ids)
  PROVE  WriteStep
<1> DEFINE batch == [i \in ids |-> NoData]
<1>1. idSeq' \in idSeq..MaxId BY Bounds DEF ShapeInv
<1>2. sidx' = Indexed(batch) BY DEF sidxRemoveEntry
<1>3. txCheckUnique(batch) BY NoDataChecked
<1>4. /\ DOMAIN batch = ids /\ \A i \in ids : batch[i] = NoData
      /\ batch \in [DOMAIN batch -> Data]
  <2>1. NoData \in Data BY DEF NoData, stampKey, Data
  <2> QED BY <2>1
<1> HIDE DEF batch
<1>5. /\ recs' \in [Id -> Rec \cup {NoRec}]
      /\ \A i \in ids : recs'[i] = NoRec
      /\ \A i \in Id \ ids : recs'[i] = recs[i]
  BY DEF ShapeInv
<1>6. Wrote(batch) BY <1>2, <1>4, <1>5 DEF Wrote
<1>7. Live' \subseteq Live \cup {} BY <1>5, SettingKept DEF Live
<1>8. QuotaInv' BY <1>7, QuotaStep, FS_EmptySet
<1> QED BY <1>1, <1>3, <1>5, <1>6, <1>8 DEF WriteStep

\* delete: one record goes, or there is none.
LEMMA DeleteStep ==
  ASSUME ShapeInv, QuotaInv, setting' = setting, idSeq' = idSeq, NEW id \in Id, delete(id)
  PROVE  WriteStep
<1>1. idSeq' \in idSeq..MaxId BY Bounds DEF ShapeInv
<1>2. CASE id \in Live
  <2>1. recs' = [recs EXCEPT ![id] = NoRec] /\ sidxRemoveEntry({id}) BY <1>2 DEF delete
  <2>2. recs' = [i \in Id |-> IF i \in {id} THEN NoRec ELSE recs[i]] BY <2>1 DEF ShapeInv
  <2> QED BY <2>1, <2>2, RemoveStep
<1>3. CASE id \notin Live
  <2>1. recs' = recs /\ sidx' = sidx BY <1>3 DEF delete
  <2> QED BY <1>1, <2>1, RefusedStep
<1> QED BY <1>2, <1>3

-----------------------------------------------------------------------------
(* The invariant after a write, and after a change of the threads.         *)

\* A thread's call is the one it had, unless it reads a record.
ThreadStep ==
  /\ th' \in [Thread -> Doing]
  /\ \A t \in Thread : \/ th'[t] = th[t]
                       \/ th'[t].pc \notin {"cas", "replay", "swap"}

\* A write of the collection, by a thread or not.
LEMMA WriteInv ==
  ASSUME RecordsInv, WriteStep, ThreadStep, ReapInv', files' = files, builds' = builds, clock' = clock
  PROVE  RecordsInv'
<1>1. ShapeInv /\ setting' = setting BY DEF RecordsInv, WriteStep
<1>2. /\ idSeq \in Nat /\ idSeq' \in Nat /\ idSeq <= idSeq' /\ idSeq' <= MaxId /\ MaxId \in Nat
  BY <1>1, Bounds DEF ShapeInv, WriteStep
<1>3. /\ recs' \in [Id -> Rec \cup {NoRec}] /\ sidx' \in [Field -> Idx \cup {NoIdx}]
  BY <1>1, IndexedShape DEF WriteStep, Wrote, ShapeInv
<1>4. ShapeInv'
  BY <1>1, <1>2, <1>3, SettingKept DEF ShapeInv, ThreadStep
<1>5. IssuedInv'
  <2>1. SUFFICES ASSUME NEW i \in Id, i > idSeq', recs'[i] # NoRec PROVE FALSE
    BY <1>1, SettingKept DEF IssuedInv
  <2>2. i \in Nat /\ i > idSeq BY <1>2, <2>1 DEF Id
  <2>3. recs[i] = NoRec BY <2>2 DEF RecordsInv, IssuedInv
  <2> QED BY <1>2, <2>1, <2>2, <2>3 DEF WriteStep
<1>6. ReadInv'
  <2>1. SUFFICES ASSUME NEW t \in Thread, th'[t].pc = "cas"
                 PROVE  /\ th'[t].id <= idSeq'
                        /\ recs'[th'[t].id] # NoRec =>
                             /\ th'[t].rev <= recs'[th'[t].id].rev
                             /\ recs'[th'[t].id].rev = th'[t].rev =>
                                  recs'[th'[t].id].data = th'[t].saw
    BY <1>1, SettingKept DEF ReadInv, Live
  <2>2. th'[t] = th[t] BY <2>1 DEF ThreadStep
  <2>3. th[t] \in Reads BY <1>1, <2>1, <2>2, DoingByPc DEF ShapeInv
  <2> DEFINE id == th[t].id
  <2>4. id \in Id /\ id \in Nat /\ th[t].rev \in Nat BY <2>3 DEF Reads, Id
  <2>5. /\ id <= idSeq
        /\ recs[id] # NoRec => /\ th[t].rev <= recs[id].rev
                               /\ recs[id].rev = th[t].rev => recs[id].data = th[t].saw
    BY <2>1, <2>2, <2>4 DEF RecordsInv, ReadInv, Live
  <2> HIDE DEF id
  <2>6. id <= idSeq' BY <1>2, <2>4, <2>5
  <2>7. ASSUME recs'[id] # NoRec
        PROVE  th[t].rev <= recs'[id].rev /\ (recs'[id].rev = th[t].rev => recs'[id].data = th[t].saw)
    <3>1. recs'[id] = recs[id] \/ (recs[id] # NoRec /\ recs[id].rev < recs'[id].rev)
      BY <1>2, <2>4, <2>5, <2>7 DEF WriteStep
    <3>2. CASE recs'[id] = recs[id] BY <2>5, <2>7, <3>2
    <3>3. CASE recs[id] # NoRec /\ recs[id].rev < recs'[id].rev
      <4>1. recs[id].rev \in Nat /\ recs'[id].rev \in Nat
        BY <1>1, <1>3, <2>4, <2>7, <3>3 DEF ShapeInv, Rec
      <4> QED BY <2>4, <2>5, <3>3, <4>1
    <3> QED BY <3>1, <3>2, <3>3
  <2> QED BY <2>2, <2>6, <2>7 DEF id
<1>7. ASSUME MaxBuilds = 0
      PROVE  /\ \A t \in Thread : th'[t].pc \notin {"replay", "swap"}
             /\ \A f \in Field : IF sidx'[f] = NoIdx THEN files'[f] = NoIdx
                                 ELSE sidx'[f].at = rebuild(f)'
             /\ \A f \in Field : sidx'[f] # NoIdx /\ sidx'[f].unique =>
                  \A i, j \in Live' : i # j /\ recs'[i].data[f] # None =>
                                        recs'[i].data[f] # recs'[j].data[f]
  <2>1. \A t \in Thread : th'[t].pc \notin {"replay", "swap"}
    BY <1>7 DEF ThreadStep, RecordsInv, ExactInv
  <2>2. Live' = {i \in Id : recs'[i] # NoRec} BY <1>1, SettingKept DEF Live
  <2>3. CASE recs' = recs /\ sidx' = sidx
    <3>1. \A f \in Field : rebuild(f)' = rebuild(f)
      BY <1>1, <2>3, SettingKept DEF rebuild, Live
    <3>2. Live' = Live BY <2>2, <2>3 DEF Live
    <3> QED BY <1>7, <2>1, <2>3, <3>1, <3>2 DEF RecordsInv, ExactInv, UniqueInv
  <2>4. CASE \E batch : Wrote(batch) /\ txCheckUnique(batch)
    <3>1. PICK batch : Wrote(batch) /\ txCheckUnique(batch) BY <2>4
    <3>2. ASSUME NEW f \in Field
          PROVE  /\ sidx'[f] = NoIdx <=> sidx[f] = NoIdx
                 /\ sidx[f] # NoIdx => sidx'[f].unique = sidx[f].unique
      BY <1>1, <3>1, IndexedShape DEF Wrote
    <3>3. ASSUME NEW f \in Field
          PROVE  IF sidx'[f] = NoIdx THEN files'[f] = NoIdx ELSE sidx'[f].at = rebuild(f)'
      <4>1. IF sidx[f] = NoIdx THEN files[f] = NoIdx ELSE sidx[f].at = rebuild(f)
        BY <1>7 DEF RecordsInv, ExactInv
      <4>2. CASE sidx[f] = NoIdx BY <3>2, <4>1, <4>2
      <4>3. CASE sidx[f] # NoIdx
        <5>1. sidx'[f].at = rebuild(f)' BY <1>1, <3>1, <4>1, <4>3, WroteExact
        <5> QED BY <3>2, <4>3, <5>1
      <4> QED BY <4>2, <4>3
    <3>4. ASSUME NEW f \in Field, sidx'[f] # NoIdx, sidx'[f].unique,
                 NEW i \in Live', NEW j \in Live', i # j, recs'[i].data[f] # None
          PROVE  recs'[i].data[f] # recs'[j].data[f]
      <4>1. sidx[f] # NoIdx /\ sidx[f].unique BY <3>2, <3>4
      <4>2. sidx[f].at = rebuild(f) BY <1>7, <4>1 DEF RecordsInv, ExactInv
      <4>3. \A k, l \in Live : k # l /\ recs[k].data[f] # None => recs[k].data[f] # recs[l].data[f]
        BY <1>7, <4>1 DEF RecordsInv, UniqueInv
      <4>4. i \in Id /\ j \in Id /\ recs'[i] # NoRec /\ recs'[j] # NoRec BY <2>2
      <4> QED BY <1>1, <3>1, <3>4, <4>1, <4>2, <4>3, <4>4, WroteUnique
    <3> QED BY <2>1, <3>3, <3>4
  <2> QED BY <2>3, <2>4 DEF WriteStep
<1>8. ExactInv' /\ UniqueInv' BY <1>1, <1>7, SettingKept DEF ExactInv, UniqueInv
<1>9. QuotaInv' BY DEF WriteStep
<1> QED BY <1>4, <1>5, <1>6, <1>8, <1>9 DEF RecordsInv

\* A step that leaves the records alone.
LEMMA QuietInv ==
  ASSUME RecordsInv, setting' = setting, recs' = recs, idSeq' = idSeq,
         sidx' \in [Field -> Idx \cup {NoIdx}], files' \in [Field -> Idx \cup {NoIdx}],
         clock' \in Nat, builds' \in Nat, th' \in [Thread -> Doing], ReapInv',
         \A t \in Thread : th'[t].pc = "cas" =>
           \/ th'[t] = th[t]
           \/ /\ th'[t].id \in Live
              /\ th'[t].rev = recs[th'[t].id].rev /\ th'[t].saw = recs[th'[t].id].data,
         MaxBuilds = 0 =>
           /\ \A t \in Thread : th'[t].pc \notin {"replay", "swap"}
           /\ \A f \in Field : IF sidx'[f] = NoIdx THEN files'[f] = NoIdx ELSE sidx'[f] = sidx[f]
  PROVE  RecordsInv'
<1>1. ShapeInv BY DEF RecordsInv
<1>2. ShapeInv' BY <1>1, SettingKept DEF ShapeInv
<1>3. Live' = Live /\ (\A f \in Field : rebuild(f)' = rebuild(f))
  BY SettingKept DEF Live, rebuild
<1>4. IssuedInv' BY SettingKept DEF RecordsInv, IssuedInv
<1>5. ReadInv'
  <2>1. SUFFICES ASSUME NEW t \in Thread, th'[t].pc = "cas"
                 PROVE  /\ th'[t].id <= idSeq
                        /\ th'[t].id \in Live => /\ th'[t].rev <= recs[th'[t].id].rev
                                                 /\ recs[th'[t].id].rev = th'[t].rev =>
                                                      recs[th'[t].id].data = th'[t].saw
    BY <1>3 DEF ReadInv
  <2>2. CASE th'[t] = th[t] BY <2>1, <2>2 DEF RecordsInv, ReadInv
  <2>3. CASE /\ th'[t].id \in Live
             /\ th'[t].rev = recs[th'[t].id].rev /\ th'[t].saw = recs[th'[t].id].data
    <3> DEFINE id == th'[t].id
    <3>1. id \in Id /\ recs[id] # NoRec BY <2>3 DEF Live
    <3> HIDE DEF id
    <3>2. recs[id].rev \in Nat BY <1>1, <3>1 DEF ShapeInv, Rec
    <3>3. id <= idSeq
      <4>1. id \in Nat /\ idSeq \in Nat BY <1>1, <3>1, Bounds DEF ShapeInv, Id
      <4>2. ~(id > idSeq) BY <3>1 DEF RecordsInv, IssuedInv
      <4> QED BY <4>1, <4>2
    <3> QED BY <2>3, <3>2, <3>3 DEF id
  <2> QED BY <2>1, <2>2, <2>3
<1>6. ExactInv' /\ UniqueInv'
  BY <1>3, SettingKept DEF RecordsInv, ExactInv, UniqueInv
<1>7. QuotaInv' BY <1>3, SettingKept DEF RecordsInv, QuotaInv, Count
<1> QED BY <1>2, <1>4, <1>5, <1>6, <1>7 DEF RecordsInv

\* A thread that goes idle, or does not move.
LEMMA GoesIdle ==
  ASSUME ShapeInv, NEW t \in Thread, th' = th \/ th' = [th EXCEPT ![t] = Idle]
  PROVE  ThreadStep
<1>1. Idle \in Doing /\ Idle.pc = "idle" BY DEF Doing, Idle
<1> QED BY <1>1 DEF ThreadStep, ShapeInv

\* The reaper's state, when it does not run.
LEMMA ReapKept ==
  ASSUME RecordsInv, setting' = setting, reap' = reap, clock' = clock
  PROVE  ReapInv'
BY SettingKept DEF RecordsInv, ReapInv

-----------------------------------------------------------------------------
(* The plain writes.                                                       *)

\* The calls by id are one locked write each.
LEMMA WriteActions ==
  ASSUME RecordsInv, Write
  PROVE  RecordsInv'
<1>1. ShapeInv /\ QuotaInv BY DEF RecordsInv
<1>2. \A v \in Val : stampKey(None, v) \in Data BY Stamped DEF Held
<1>3. 0 \in Nat /\ clock + 1 \in Nat BY <1>1 DEF ShapeInv
<1>4. \A i \in Live : i \in Id /\ recs[i].exp \in Nat BY <1>1 DEF Live, ShapeInv, Rec
<1>5. SUFFICES WriteStep
  <2>1. /\ setting' = setting /\ files' = files /\ clock' = clock /\ th' = th
        /\ reap' = reap /\ builds' = builds
    BY DEF Write, Insert, InsertMany, Update, UpdateWithExpiry, Delete, UpdateIfMatch
  <2>2. ThreadStep BY <1>1, <2>1 DEF ThreadStep, ShapeInv
  <2>3. ReapInv' BY <2>1, ReapKept
  <2> QED BY <1>5, <2>1, <2>2, <2>3, WriteInv
<1>6. ASSUME NEW v \in Val, NEW e \in Nat, Insert(v, e) PROVE WriteStep
  <2>1. stampKey(None, v) \in Data /\ resolveInsertExpiry(e) \in Nat BY <1>1, <1>2, ExpiryIsNat
  <2>2. /\ idSeq < MaxId /\ insert(stampKey(None, v), resolveInsertExpiry(e))
        /\ setting' = setting
    BY <1>6 DEF Insert
  <2> QED BY <1>1, <2>1, <2>2, InsertStep
<1>7. ASSUME NEW v \in Val, NEW w \in Val, InsertMany(v, w) PROVE WriteStep
  BY <1>1, <1>7, InsertManyStep
<1>8. ASSUME NEW id \in Id, NEW v \in Val, Update(id, v) PROVE WriteStep
  <2>1. /\ id \in Live /\ update(id, stampKey(None, v), recs[id].exp)
        /\ setting' = setting /\ idSeq' = idSeq
    BY <1>8 DEF Update
  <2> QED BY <1>1, <1>2, <1>4, <2>1, UpdateStep
<1>9. ASSUME NEW id \in Id, NEW v \in Val, NEW e \in Nat, UpdateWithExpiry(id, v, e)
      PROVE  WriteStep
  <2>1. stampKey(None, v) \in Data /\ resolveInsertExpiry(e) \in Nat BY <1>1, <1>2, ExpiryIsNat
  <2>2. /\ update(id, stampKey(None, v), resolveInsertExpiry(e))
        /\ setting' = setting /\ idSeq' = idSeq
    BY <1>9 DEF UpdateWithExpiry
  <2> QED BY <1>1, <2>1, <2>2, UpdateStep
<1>10. ASSUME NEW id \in Id, Delete(id) PROVE WriteStep
  <2>1. delete(id) /\ setting' = setting /\ idSeq' = idSeq BY <1>10 DEF Delete
  <2> QED BY <1>1, <2>1, DeleteStep
<1>11. ASSUME NEW k \in Key, NEW cur \in Val, NEW v \in Val, UpdateIfMatch(k, cur, v)
       PROVE  WriteStep
  <2>1. setting' = setting /\ idSeq' = idSeq BY <1>11 DEF UpdateIfMatch
  <2>2. PICK id \in Live : update(id, stampKey(k, v), recs[id].exp)
    BY <1>11 DEF UpdateIfMatch
  <2>3. stampKey(k, v) \in Data BY Stamped DEF Held
  <2> QED BY <1>1, <1>4, <2>1, <2>2, <2>3, UpdateStep
<1> QED BY <1>3, <1>6, <1>7, <1>8, <1>9, <1>10, <1>11 DEF Write

-----------------------------------------------------------------------------
(* The keyed calls.                                                        *)

\* The locked part of a keyed call, after which its thread is idle.
LEMMA KeyedWrite ==
  ASSUME RecordsInv, NEW t \in Thread,
         InsertKeyed(t) \/ UpsertLocked(t) \/ UpdateByKey(t) \/ DeleteByKey(t) \/ UpdateIfRev(t)
  PROVE  RecordsInv'
<1>1. ShapeInv /\ QuotaInv BY DEF RecordsInv
<1>2. /\ setting' = setting /\ files' = files /\ clock' = clock /\ reap' = reap /\ builds' = builds
      /\ th' = [th EXCEPT ![t] = Idle]
  BY DEF InsertKeyed, UpsertLocked, UpdateByKey, DeleteByKey, UpdateIfRev
<1>3. th[t] \in Doing /\ ThreadStep /\ ReapInv' BY <1>1, <1>2, GoesIdle, ReapKept DEF ShapeInv
<1>4. \A i \in Live : i \in Id /\ recs[i].exp \in Nat BY <1>1 DEF Live, ShapeInv, Rec
<1>5. resolveInsertExpiry(0) \in Nat BY <1>1, ExpiryIsNat
<1>6. \A k \in Key, v \in Val : stampKey(k, v) \in Data BY Stamped DEF Held
<1>7. SUFFICES WriteStep BY <1>2, <1>3, <1>7, WriteInv
<1>8. CASE InsertKeyed(t)
  <2>1. th[t] \in Puts BY <1>3, <1>8, DoingByPc DEF InsertKeyed
  <2>2. th[t].key \in Key /\ th[t].val \in Val BY <2>1 DEF Puts
  <2>3. idSeq < MaxId /\ insert(stampKey(th[t].key, th[t].val), resolveInsertExpiry(0))
    BY <1>8 DEF InsertKeyed
  <2>4. stampKey(th[t].key, th[t].val) \in Data BY <1>6, <2>2
  <2> QED BY <1>1, <1>2, <1>5, <2>3, <2>4, InsertStep
<1>9. CASE UpsertLocked(t)
  <2>1. th[t] \in Puts BY <1>3, <1>9, DoingByPc DEF UpsertLocked
  <2>2. th[t].key \in Key /\ th[t].val \in Val BY <2>1 DEF Puts
  <2> DEFINE d == stampKey(th[t].key, th[t].val)
             held == IndexLookup(KeyField, th[t].key)
  <2>3. d \in Data BY <1>6, <2>2
  <2>4. \/ idSeq < MaxId /\ insert(d, resolveInsertExpiry(0))
        \/ \E id \in held \cap Live : update(id, d, recs[id].exp) /\ idSeq' = idSeq
    BY <1>9 DEF UpsertLocked
  <2> HIDE DEF d, held
  <2>5. CASE idSeq < MaxId /\ insert(d, resolveInsertExpiry(0))
    BY <1>1, <1>2, <1>5, <2>3, <2>5, InsertStep
  <2>6. CASE \E id \in held \cap Live : update(id, d, recs[id].exp) /\ idSeq' = idSeq
    <3>1. PICK id \in held \cap Live : update(id, d, recs[id].exp) /\ idSeq' = idSeq BY <2>6
    <3> QED BY <1>1, <1>2, <1>4, <2>3, <3>1, UpdateStep
  <2> QED BY <2>4, <2>5, <2>6
<1>10. CASE UpdateByKey(t)
  <2>1. th[t] \in Updates BY <1>3, <1>10, DoingByPc DEF UpdateByKey
  <2>2. th[t].key \in Key /\ th[t].val \in Val /\ th[t].id \in Id BY <2>1 DEF Updates
  <2> DEFINE id == th[t].id
             e == IF id \in Live THEN recs[id].exp ELSE 0
  <2>3. update(id, stampKey(th[t].key, th[t].val), e) /\ idSeq' = idSeq BY <1>10 DEF UpdateByKey
  <2>4. e \in Nat /\ stampKey(th[t].key, th[t].val) \in Data BY <1>4, <1>6, <2>2
  <2> HIDE DEF e
  <2> QED BY <1>1, <1>2, <2>2, <2>3, <2>4, UpdateStep
<1>11. CASE DeleteByKey(t)
  <2>1. th[t] \in Deletes BY <1>3, <1>11, DoingByPc DEF DeleteByKey
  <2>2. th[t].id \in Id BY <2>1 DEF Deletes
  <2>3. delete(th[t].id) /\ idSeq' = idSeq BY <1>11 DEF DeleteByKey
  <2> QED BY <1>1, <1>2, <2>2, <2>3, DeleteStep
<1>12. CASE UpdateIfRev(t)
  <2>1. th[t] \in Reads BY <1>3, <1>12, DoingByPc DEF UpdateIfRev
  <2>2. th[t].key \in Key /\ th[t].val \in Val BY <2>1 DEF Reads
  <2> DEFINE d == stampKey(th[t].key, th[t].val)
  <2>3. d \in Data BY <1>6, <2>2
  <2>4. /\ idSeq' = idSeq
        /\ \/ recs' = recs /\ sidx' = sidx
           \/ \E id \in Live : update(id, d, recs[id].exp)
    BY <1>12 DEF UpdateIfRev
  <2> HIDE DEF d
  <2>5. CASE recs' = recs /\ sidx' = sidx
    <3>1. idSeq' \in idSeq..MaxId BY <1>1, <2>4, Bounds DEF ShapeInv
    <3> QED BY <1>1, <1>2, <2>5, <3>1, RefusedStep
  <2>6. CASE \E id \in Live : update(id, d, recs[id].exp)
    <3>1. PICK id \in Live : update(id, d, recs[id].exp) BY <2>6
    <3> QED BY <1>1, <1>2, <1>4, <2>3, <2>4, <3>1, UpdateStep
  <2> QED BY <2>4, <2>5, <2>6
<1> QED BY <1>8, <1>9, <1>10, <1>11, <1>12

\* The part of a call before the lock: only its thread moves.
LEMMA ThreadMoves ==
  ASSUME RecordsInv, NEW t \in Thread, NEW x \in Doing, th' = [th EXCEPT ![t] = x],
         x.pc \notin {"replay", "swap"},
         x.pc = "cas" => /\ x.id \in Live
                         /\ x.rev = recs[x.id].rev /\ x.saw = recs[x.id].data,
         UNCHANGED <<setting, recs, idSeq, sidx, files, clock, reap, builds>>
  PROVE  RecordsInv'
<1>1. ShapeInv /\ ReapInv' BY ReapKept DEF RecordsInv
<1>2. /\ th' \in [Thread -> Doing] /\ th'[t] = x /\ \A u \in Thread \ {t} : th'[u] = th[u]
  BY <1>1 DEF ShapeInv
<1>3. \A u \in Thread : th'[u].pc = "cas" =>
           \/ th'[u] = th[u]
           \/ /\ th'[u].id \in Live
              /\ th'[u].rev = recs[th'[u].id].rev /\ th'[u].saw = recs[th'[u].id].data
  BY <1>2
<1>4. MaxBuilds = 0 =>
           /\ \A u \in Thread : th'[u].pc \notin {"replay", "swap"}
           /\ \A f \in Field : IF sidx'[f] = NoIdx THEN files'[f] = NoIdx ELSE sidx'[f] = sidx[f]
  BY <1>2 DEF RecordsInv, ExactInv
<1> QED BY <1>1, <1>2, <1>3, <1>4, QuietInv DEF ShapeInv

\* ensureIndex, with what the thread does next.
LEMMA EnsureStep ==
  ASSUME RecordsInv, NEW t \in Thread, NEW f \in Field, NEW u \in BOOLEAN,
         NEW next \in {Idle} \cup Puts, ensureIndex(t, f, u, next),
         UNCHANGED <<setting, recs, idSeq, files, clock, reap>>
  PROVE  RecordsInv'
<1>1. ShapeInv /\ ReapInv' BY ReapKept DEF RecordsInv
<1>2. next \in Doing /\ next.pc \in {"idle", "insert", "upsert"} BY DEF Doing, Puts, Idle
<1>3. CASE sidx[f] # NoIdx
  <2>1. th' = [th EXCEPT ![t] = next] /\ sidx' = sidx /\ builds' = builds
    BY <1>3 DEF ensureIndex
  <2> QED BY <1>2, <2>1, ThreadMoves
<1>4. CASE sidx[f] = NoIdx
  <2> DEFINE new == newSecondaryIndex(u)
             x == [pc |-> "replay", field |-> f, x |-> new, next |-> next]
  <2>1. /\ builds < MaxBuilds /\ builds' = builds + 1
        /\ sidx' = [sidx EXCEPT ![f] = new] /\ th' = [th EXCEPT ![t] = x]
    BY <1>4 DEF ensureIndex
  <2>2. builds \in Nat /\ MaxBuilds \in Nat BY <1>1, Bounds DEF ShapeInv
  <2>3. MaxBuilds # 0 BY <2>1, <2>2
  <2>4. new \in Idx
    <3>1. [i \in Id |-> None] \in [Id -> Held] BY DEF Held
    <3> QED BY <2>2, <3>1 DEF newSecondaryIndex, Idx
  <2> HIDE DEF new
  <2>5. x \in Doing /\ x.pc = "replay" BY <2>4 DEF Doing, Rebuilds
  <2> HIDE DEF x
  <2>6. /\ th' \in [Thread -> Doing]
        /\ \A v \in Thread : th'[v].pc = "cas" => th'[v] = th[v]
    BY <1>1, <2>1, <2>5 DEF ShapeInv
  <2>7. sidx' \in [Field -> Idx \cup {NoIdx}] BY <1>1, <2>1, <2>4 DEF ShapeInv
  <2>8. builds' \in Nat /\ clock' \in Nat /\ files' \in [Field -> Idx \cup {NoIdx}]
    BY <1>1, <2>1 DEF ShapeInv
  <2> QED BY <1>1, <2>3, <2>6, <2>7, <2>8, QuietInv
<1> QED BY <1>3, <1>4

\* The keyed calls preserve the invariant.
LEMMA KeyedActions ==
  ASSUME RecordsInv, Keyed
  PROVE  RecordsInv'
<1>1. ShapeInv BY DEF RecordsInv
<1>2. PICK t \in Callers :
           \/ \E k \in Key, v \in Val :
                \/ InsertWithKey(t, k, v)
                \/ Upsert(t, k, v)
                \/ ResolveKey(t, "updateByKey", k, v)
                \/ GetByKey(t, k, v)
           \/ \E k \in Key : ResolveKey(t, "deleteByKey", k, None)
           \/ InsertKeyed(t) \/ UpsertLocked(t) \/ UpdateByKey(t)
           \/ DeleteByKey(t) \/ UpdateIfRev(t)
  BY DEF Keyed
<1>3. t \in Thread BY <1>1, Bounds DEF ShapeInv
<1>4. ASSUME NEW k \in Key, NEW v \in Val, InsertWithKey(t, k, v) PROVE RecordsInv'
  <2> DEFINE next == [pc |-> "insert", key |-> k, val |-> v]
  <2>1. next \in Puts BY DEF Puts
  <2>2. /\ ensureIndex(t, KeyField, TRUE, next)
        /\ UNCHANGED <<setting, recs, idSeq, files, clock, reap>>
    BY <1>4 DEF InsertWithKey
  <2> HIDE DEF next
  <2> QED BY <1>3, <2>1, <2>2, EnsureStep DEF Field
<1>5. ASSUME NEW k \in Key, NEW v \in Val, Upsert(t, k, v) PROVE RecordsInv'
  <2> DEFINE next == [pc |-> "upsert", key |-> k, val |-> v]
  <2>1. next \in Puts BY DEF Puts
  <2>2. /\ ensureIndex(t, KeyField, TRUE, next)
        /\ UNCHANGED <<setting, recs, idSeq, files, clock, reap>>
    BY <1>5 DEF Upsert
  <2> HIDE DEF next
  <2> QED BY <1>3, <2>1, <2>2, EnsureStep DEF Field
<1>6. \A k \in Key : IndexLookup(KeyField, k) \subseteq Id BY DEF IndexLookup, Lookup
<1>7. ASSUME NEW k \in Key, NEW v \in Val, ResolveKey(t, "updateByKey", k, v) PROVE RecordsInv'
  <2>1. PICK id \in Id : th' = [th EXCEPT ![t] = [pc |-> "updateByKey", key |-> k, val |-> v, id |-> id]]
    BY <1>6, <1>7 DEF ResolveKey
  <2> DEFINE x == [pc |-> "updateByKey", key |-> k, val |-> v, id |-> id]
  <2>2. x \in Doing /\ x.pc = "updateByKey" BY DEF Doing, Updates
  <2>3. UNCHANGED <<setting, recs, idSeq, sidx, files, clock, reap, builds>> BY <1>7 DEF ResolveKey
  <2> HIDE DEF x
  <2> QED BY <1>3, <2>1, <2>2, <2>3, ThreadMoves DEF x
<1>8. ASSUME NEW k \in Key, ResolveKey(t, "deleteByKey", k, None) PROVE RecordsInv'
  <2>1. PICK id \in Id : th' = [th EXCEPT ![t] = [pc |-> "deleteByKey", key |-> k, val |-> None, id |-> id]]
    BY <1>6, <1>8 DEF ResolveKey
  <2> DEFINE x == [pc |-> "deleteByKey", key |-> k, val |-> None, id |-> id]
  <2>2. x \in Doing /\ x.pc = "deleteByKey" BY DEF Doing, Deletes
  <2>3. UNCHANGED <<setting, recs, idSeq, sidx, files, clock, reap, builds>> BY <1>8 DEF ResolveKey
  <2> HIDE DEF x
  <2> QED BY <1>3, <2>1, <2>2, <2>3, ThreadMoves DEF x
<1>9. ASSUME NEW k \in Key, NEW v \in Val, GetByKey(t, k, v) PROVE RecordsInv'
  <2>1. PICK id \in Live : th' = [th EXCEPT ![t] = [pc |-> "cas", key |-> k, val |-> v, id |-> id,
                                                    rev |-> recs[id].rev, saw |-> recs[id].data]]
    BY <1>9 DEF GetByKey, Visible
  <2> DEFINE x == [pc |-> "cas", key |-> k, val |-> v, id |-> id,
                   rev |-> recs[id].rev, saw |-> recs[id].data]
  <2>2. id \in Id /\ recs[id].rev \in Nat /\ recs[id].data \in Data
    BY <1>1 DEF Live, ShapeInv, Rec
  <2>3. /\ x \in Doing /\ x.pc = "cas" /\ x.id = id
        /\ x.rev = recs[id].rev /\ x.saw = recs[id].data
    BY <2>2 DEF Doing, Reads
  <2>4. UNCHANGED <<setting, recs, idSeq, sidx, files, clock, reap, builds>> BY <1>9 DEF GetByKey
  <2>5. th' = [th EXCEPT ![t] = x] BY <2>1
  <2> HIDE DEF x
  <2> QED BY <1>3, <2>3, <2>4, <2>5, ThreadMoves
<1>10. CASE InsertKeyed(t) \/ UpsertLocked(t) \/ UpdateByKey(t) \/ DeleteByKey(t) \/ UpdateIfRev(t)
  BY <1>3, <1>10, KeyedWrite
<1> QED BY <1>2, <1>4, <1>5, <1>7, <1>8, <1>9, <1>10

-----------------------------------------------------------------------------
(* Indexes, time and the reaper.                                           *)

\* Index management preserves the invariant.
LEMMA IndexActions ==
  ASSUME RecordsInv, Indexes
  PROVE  RecordsInv'
<1>1. ShapeInv BY DEF RecordsInv
<1>2. /\ sidx \in [Field -> Idx \cup {NoIdx}] /\ files \in [Field -> Idx \cup {NoIdx}]
      /\ clock \in Nat /\ builds \in Nat /\ th \in [Thread -> Doing] /\ MaxBuilds \in Nat
      /\ Callers \subseteq Thread
  BY <1>1, Bounds DEF ShapeInv
<1>3. MaxBuilds = 0 =>
        /\ \A u \in Thread : th[u].pc \notin {"replay", "swap"}
        /\ \A f \in Field : sidx[f] = NoIdx => files[f] = NoIdx
  BY DEF RecordsInv, ExactInv
<1>4. Idle \in Doing /\ Idle.pc = "idle" BY DEF Doing, Idle
<1>5. ASSUME NEW t \in Callers, NEW f \in Field, NEW u \in BOOLEAN, EnsureIndex(t, f, u)
      PROVE  RecordsInv'
  <2>1. ensureIndex(t, f, u, Idle) /\ UNCHANGED <<setting, recs, idSeq, files, clock, reap>>
    BY <1>5 DEF EnsureIndex
  <2> QED BY <1>2, <2>1, EnsureStep
<1>6. ASSUME NEW t \in Callers, NEW f \in Field, CompactRebuild(t, f) PROVE RecordsInv'
  <2> DEFINE y == [sidx[f] EXCEPT !.at = rebuild(f)]
             x == [pc |-> "swap", field |-> f, next |-> Idle, x |-> y]
  <2>1. /\ sidx[f] # NoIdx /\ builds < MaxBuilds /\ builds' = builds + 1
        /\ th' = [th EXCEPT ![t] = x]
        /\ UNCHANGED <<setting, recs, idSeq, sidx, files, clock, reap>>
    BY <1>6 DEF CompactRebuild
  <2>2. y \in Idx
    <3>1. sidx[f] \in Idx BY <1>2, <2>1
    <3>2. rebuild(f) \in [Id -> Held] BY <1>1, RebuildShape
    <3> QED BY <3>1, <3>2 DEF Idx
  <2> HIDE DEF y
  <2>3. x \in Doing /\ x.pc = "swap" BY <2>2 DEF Doing, Rebuilds
  <2> HIDE DEF x
  <2>4. MaxBuilds # 0 /\ builds' \in Nat BY <1>2, <2>1
  <2>5. th' \in [Thread -> Doing] /\ \A v \in Thread : th'[v].pc = "cas" => th'[v] = th[v]
    BY <1>2, <2>1, <2>3
  <2>6. ReapInv' BY <2>1, ReapKept
  <2> QED BY <1>2, <2>1, <2>4, <2>5, <2>6, QuietInv
<1>7. ASSUME NEW t \in Callers, Replay(t) PROVE RecordsInv'
  <2>1. /\ th[t].pc = "replay" /\ t \in Thread
        /\ th' = [th EXCEPT ![t].pc = "swap", ![t].x.at = rebuild(th[t].field)]
        /\ UNCHANGED <<setting, recs, idSeq, sidx, files, clock, reap, builds>>
    BY <1>2, <1>7 DEF Replay
  <2>2. th[t] \in Rebuilds BY <1>2, <2>1, DoingByPc
  <2>3. rebuild(th[t].field) \in [Id -> Held] BY <1>1, <2>2, RebuildShape DEF Rebuilds
  <2> DEFINE y == [th[t].x EXCEPT !.at = rebuild(th[t].field)]
             x == [pc |-> "swap", field |-> th[t].field, x |-> y, next |-> th[t].next]
  <2>4. y \in Idx BY <2>2, <2>3 DEF Rebuilds, Idx
  <2>5. th'[t] = x /\ \A v \in Thread \ {t} : th'[v] = th[v]
    BY <1>2, <2>1, <2>2 DEF Rebuilds
  <2>6. x \in Rebuilds /\ x.pc = "swap" BY <2>2, <2>4 DEF Rebuilds
  <2>7. DOMAIN th' = Thread /\ th' = [v \in DOMAIN th' |-> th'[v]] BY <1>2, <2>1
  <2> HIDE DEF x
  <2>8. th' \in [Thread -> Doing] BY <1>2, <2>5, <2>6, <2>7 DEF Doing
  <2>9. MaxBuilds # 0 BY <1>3, <2>1
  <2>10. ReapInv' BY <2>1, ReapKept
  <2> QED BY <1>2, <2>1, <2>5, <2>6, <2>8, <2>9, <2>10, QuietInv
<1>8. ASSUME NEW t \in Callers, ReplayFails(t) PROVE RecordsInv'
  <2>1. /\ th[t].pc = "replay" /\ t \in Thread /\ th' = [th EXCEPT ![t] = Idle]
        /\ sidx' = [sidx EXCEPT ![th[t].field] = NoIdx]
        /\ UNCHANGED <<setting, recs, idSeq, files, clock, reap, builds>>
    BY <1>2, <1>8 DEF ReplayFails
  <2>2. MaxBuilds # 0 BY <1>3, <2>1
  <2>3. th' \in [Thread -> Doing] /\ \A v \in Thread : th'[v].pc = "cas" => th'[v] = th[v]
    BY <1>2, <1>4, <2>1
  <2>4. sidx' \in [Field -> Idx \cup {NoIdx}] BY <1>2, <2>1
  <2>5. ReapInv' BY <2>1, ReapKept
  <2> QED BY <1>2, <2>1, <2>2, <2>3, <2>4, <2>5, QuietInv
<1>9. ASSUME NEW t \in Callers, Swap(t) PROVE RecordsInv'
  <2> DEFINE f == th[t].field
             x == th[t].x
             same == sidx[f] # NoIdx /\ sidx[f].obj = x.obj
  <2>1. /\ th[t].pc = "swap" /\ t \in Thread /\ th' = [th EXCEPT ![t] = th[t].next]
        /\ sidx' = (IF same THEN [sidx EXCEPT ![f].at = x.at] ELSE sidx)
        /\ files' = [files EXCEPT ![f] = x]
        /\ UNCHANGED <<setting, recs, idSeq, clock, reap, builds>>
    BY <1>2, <1>9 DEF Swap
  <2>2. th[t] \in Rebuilds BY <1>2, <2>1, DoingByPc
  <2>3. f \in Field /\ x \in Idx /\ th[t].next \in {Idle} \cup Puts BY <2>2 DEF Rebuilds
  <2>4. th[t].next \in Doing /\ th[t].next.pc # "cas" BY <2>3 DEF Doing, Puts, Idle
  <2>5. MaxBuilds # 0 BY <1>3, <2>1
  <2>6. th' \in [Thread -> Doing] /\ \A v \in Thread : th'[v].pc = "cas" => th'[v] = th[v]
    BY <1>2, <2>1, <2>4
  <2> HIDE DEF f, x
  <2>7. sidx' \in [Field -> Idx \cup {NoIdx}]
    <3>1. CASE same
      <4> DEFINE y == [sidx[f] EXCEPT !.at = x.at]
      <4>1. y \in Idx BY <1>2, <2>3, <3>1 DEF Idx
      <4>2. sidx' = [sidx EXCEPT ![f] = y] BY <2>1, <3>1
      <4> HIDE DEF y
      <4> QED BY <1>2, <4>1, <4>2
    <3>2. CASE ~same BY <1>2, <2>1, <3>2
    <3> QED BY <3>1, <3>2
  <2>8. files' \in [Field -> Idx \cup {NoIdx}] BY <1>2, <2>1, <2>3
  <2>9. ReapInv' BY <2>1, ReapKept
  <2> QED BY <1>2, <2>1, <2>5, <2>6, <2>7, <2>8, <2>9, QuietInv
<1>10. ASSUME NEW f \in Field, DropIndex(f) PROVE RecordsInv'
  <2>1. /\ sidx' = [sidx EXCEPT ![f] = NoIdx] /\ files' = [files EXCEPT ![f] = NoIdx]
        /\ UNCHANGED <<setting, recs, idSeq, clock, th, reap, builds>>
    BY <1>10 DEF DropIndex
  <2>2. /\ sidx' \in [Field -> Idx \cup {NoIdx}] /\ files' \in [Field -> Idx \cup {NoIdx}]
    BY <1>2, <2>1
  <2>3. MaxBuilds = 0 =>
          \A g \in Field : IF sidx'[g] = NoIdx THEN files'[g] = NoIdx ELSE sidx'[g] = sidx[g]
    BY <1>2, <1>3, <2>1
  <2>4. ReapInv' BY <2>1, ReapKept
  <2> QED BY <1>2, <1>3, <2>1, <2>2, <2>3, <2>4, QuietInv
<1>11. CASE Reopen
  <2>1. /\ files' = [f \in Field |-> IF sidx[f] = NoIdx THEN files[f] ELSE sidx[f]]
        /\ sidx' = files'
        /\ UNCHANGED <<setting, recs, idSeq, clock, th, reap, builds>>
    BY <1>11 DEF Reopen
  <2>2. /\ sidx' \in [Field -> Idx \cup {NoIdx}] /\ files' \in [Field -> Idx \cup {NoIdx}]
    BY <1>2, <2>1
  <2>3. MaxBuilds = 0 =>
          \A g \in Field : IF sidx'[g] = NoIdx THEN files'[g] = NoIdx ELSE sidx'[g] = sidx[g]
    BY <1>3, <2>1
  <2>4. ReapInv' BY <2>1, ReapKept
  <2> QED BY <1>2, <1>3, <2>1, <2>2, <2>3, <2>4, QuietInv
<1> QED BY <1>5, <1>6, <1>7, <1>8, <1>9, <1>10, <1>11 DEF Indexes

\* Time and the reaper preserve the invariant.
LEMMA TimeActions ==
  ASSUME RecordsInv, Tick \/ Reaper
  PROVE  RecordsInv'
<1>1. ShapeInv /\ QuotaInv BY DEF RecordsInv
<1>2. /\ sidx \in [Field -> Idx \cup {NoIdx}] /\ files \in [Field -> Idx \cup {NoIdx}]
      /\ clock \in Nat /\ builds \in Nat /\ th \in [Thread -> Doing]
  BY <1>1 DEF ShapeInv
<1>3. MaxBuilds = 0 =>
        /\ \A u \in Thread : th[u].pc \notin {"replay", "swap"}
        /\ \A f \in Field : sidx[f] = NoIdx => files[f] = NoIdx
  BY DEF RecordsInv, ExactInv
<1>4. reap.ids \subseteq Id /\ reap.now \in Nat /\ reap.now <= clock BY DEF RecordsInv, ReapInv
<1>5. CASE Tick
  <2>1. clock' = clock + 1 /\ UNCHANGED <<setting, recs, idSeq, sidx, files, th, reap, builds>>
    BY <1>5 DEF Tick
  <2>2. ReapInv' BY <1>2, <1>4, <2>1, SettingKept DEF ReapInv
  <2>3. clock' \in Nat BY <1>2, <2>1
  <2>4. builds' = builds /\ th' = th /\ sidx' = sidx /\ files' = files BY <2>1
  <2> QED BY <1>2, <1>3, <2>1, <2>2, <2>3, <2>4, QuietInv, ZenonT(30)
<1>6. CASE ReapCollect
  <2>1. UNCHANGED <<setting, recs, idSeq, sidx, files, clock, th, builds>> BY <1>6 DEF ReapCollect
  <2>2. ReapInv'
    <3>1. reap'.ids \subseteq Id /\ reap'.now = clock BY <1>6 DEF ReapCollect, Live
    <3>2. Id' = Id /\ clock' = clock /\ clock \in Nat BY <1>2, <2>1, SettingKept
    <3> QED BY <3>1, <3>2 DEF ReapInv
  <2>3. builds' = builds /\ th' = th /\ sidx' = sidx /\ files' = files /\ clock' = clock BY <2>1
  <2> QED BY <1>2, <1>3, <2>1, <2>2, <2>3, QuietInv, ZenonT(30)
<1>7. CASE ReapLocked
  <2> DEFINE gone == {i \in reap.ids : StillExpired(i)}
  <2>1. /\ recs' = [i \in Id |-> IF i \in gone THEN NoRec ELSE recs[i]]
        /\ sidxRemoveEntry(gone) /\ reap' = NotReaping
        /\ UNCHANGED <<setting, idSeq, files, clock, th, builds>>
    BY <1>7 DEF ReapLocked
  <2>2. gone \in SUBSET Id BY <1>4
  <2> HIDE DEF gone
  <2>3. WriteStep BY <1>1, <2>1, <2>2, RemoveStep
  <2>4. ReapInv' BY <1>2, <2>1, SettingKept DEF ReapInv, NotReaping
  <2>5. ThreadStep BY <1>2, <2>1 DEF ThreadStep
  <2> QED BY <2>1, <2>3, <2>4, <2>5, WriteInv
<1> QED BY <1>5, <1>6, <1>7 DEF Reaper

-----------------------------------------------------------------------------
(* Theorems.                                                               *)

\* Every step preserves the invariant.
LEMMA RecordsStep == RecordsInv /\ [Next]_vars => RecordsInv'
<1> SUFFICES ASSUME RecordsInv, [Next]_vars PROVE RecordsInv'
  OBVIOUS
<1>1. CASE Next BY <1>1, WriteActions, KeyedActions, IndexActions, TimeActions DEF Next
<1>2. CASE UNCHANGED vars
  <2>1. UNCHANGED <<setting, recs, idSeq, sidx, files, clock, th, reap, builds>>
    BY <1>2 DEF vars
  <2>2. ShapeInv /\ ReapInv' BY <2>1, ReapKept DEF RecordsInv
  <2>3. ThreadStep BY <2>1, <2>2 DEF ThreadStep, ShapeInv
  <2>4. idSeq' \in idSeq..MaxId BY <2>1, <2>2, Bounds DEF ShapeInv
  <2>5. WriteStep BY <2>1, <2>2, <2>4, RefusedStep DEF RecordsInv
  <2> QED BY <2>1, <2>2, <2>3, <2>5, WriteInv
<1> QED BY <1>1, <1>2

\* The invariant of the records, their indexes, the callers and the reaper.
THEOREM RecordsInvariant == Spec => []RecordsInv
<1>1. Init => RecordsInv
  <2> SUFFICES ASSUME Init PROVE RecordsInv
    OBVIOUS
  <2>1. /\ setting \in DOMAIN Settings /\ recs = [i \in Id |-> NoRec] /\ idSeq = 0 /\ builds = 0
        /\ clock = 0 /\ th = [t \in Thread |-> Idle] /\ reap = NotReaping /\ files = sidx
    BY DEF Init
  <2> DEFINE x == [obj |-> 0, unique |-> TRUE, at |-> [i \in Id |-> None]]
  <2>2. sidx = [f \in Field |-> IF f \in Registered THEN x ELSE NoIdx] BY DEF Init
  <2>3. x \in Idx /\ x.at = [i \in Id |-> None]
    <3>1. [i \in Id |-> None] \in [Id -> Held] BY DEF Held
    <3> QED BY <3>1 DEF Idx
  <2> HIDE DEF x
  <2>4. Live = {} BY <2>1 DEF Live
  <2>5. \A f \in Field : rebuild(f) = [i \in Id |-> None] BY <2>4 DEF rebuild
  <2>6. Idle \in Doing /\ Idle.pc = "idle" BY DEF Doing, Idle
  <2>7. MaxId \in Nat /\ MaxRecords \in Nat BY <2>1, Bounds
  <2>8. ShapeInv BY <2>1, <2>2, <2>3, <2>6, <2>7 DEF ShapeInv
  <2>9. IssuedInv BY <2>1 DEF IssuedInv
  <2>10. ReadInv BY <2>1, <2>6 DEF ReadInv
  <2>11. ReapInv BY <2>1 DEF ReapInv, NotReaping
  <2>12. ExactInv BY <2>1, <2>2, <2>3, <2>5, <2>6 DEF ExactInv
  <2>13. UniqueInv BY <2>4 DEF UniqueInv
  <2>14. QuotaInv BY <2>4, <2>7, FS_EmptySet DEF QuotaInv, Count
  <2> QED BY <2>8, <2>9, <2>10, <2>11, <2>12, <2>13, <2>14 DEF RecordsInv
<1> QED BY <1>1, RecordsStep, PTL DEF Spec

\* The locked writes keep every index exact where no index is built while they
\* run (sidxIndexEntry, sidxUpdateEntry, sidxRemoveEntry).
THEOREM IndexesExact == Spec => []IndexExact
<1>1. RecordsInv => IndexExact BY DEF RecordsInv, ExactInv, IndexExact
<1> QED BY <1>1, RecordsInvariant, PTL

\* Unique fields and the quota hold however calls interleave (sidxCheckUnique,
\* txCheckUnique, checkQuotaLocked).
THEOREM LimitsAlwaysHold == Spec => []LimitsHold
<1>1. RecordsInv => LimitsHold
  <2> SUFFICES ASSUME RecordsInv PROVE LimitsHold
    OBVIOUS
  <2>1. QuotaInv BY DEF RecordsInv
  <2>2. ASSUME NEW f \in Registered, MaxBuilds = 0, sidx[f] # NoIdx, sidx[f].unique
        PROVE  \A i, j \in Live : i # j /\ recs[i].data[f] # None =>
                                     recs[i].data[f] # recs[j].data[f]
    <3>1. f \in Field BY Bounds DEF RecordsInv, ShapeInv
    <3> QED BY <2>2, <3>1 DEF RecordsInv, UniqueInv
  <2> QED BY <2>1, <2>2 DEF LimitsHold, QuotaInv
<1> QED BY <1>1, RecordsInvariant, PTL

\* An applied UpdateIfRev overwrites what its caller read.
THEOREM CasHasSeenIt == Spec => CasSeesItsRead
<1>1. RecordsInv /\ [Next]_vars =>
        [\A t \in Thread : (UpdateIfRev(t) /\ recs' # recs) =>
           \A i \in Id : recs'[i] # recs[i] /\ i = th[t].id => recs[i].data = th[t].saw]_vars
  <2> SUFFICES ASSUME RecordsInv, NEW t \in Thread, UpdateIfRev(t),
                      NEW i \in Id, recs'[i] # recs[i], i = th[t].id
               PROVE  recs[i].data = th[t].saw
    OBVIOUS
  <2>1. recs \in [Id -> Rec \cup {NoRec}] BY DEF RecordsInv, ShapeInv
  <2>2. PICK id \in Live : /\ CasHolds(id, t)
                           /\ update(id, stampKey(th[t].key, th[t].val), recs[id].exp)
    BY DEF UpdateIfRev
  <2>3. i = id BY <2>1, <2>2 DEF update
  <2>4. recs[i].rev = th[t].rev /\ i \in Live BY <2>2, <2>3 DEF CasHolds
  <2> QED BY <2>4 DEF RecordsInv, ReadInv, UpdateIfRev
<1> QED BY <1>1, RecordsInvariant, PTL DEF Spec, CasSeesItsRead

\* The reaper removes only records that are expired when it removes them.
THEOREM ReaperIsRight == Spec => ReapsOnlyExpired
<1>1. RecordsInv /\ [Next]_vars =>
        [ReapLocked => \A i \in Live : recs'[i] = NoRec => expired(recs[i].exp, clock)]_vars
  <2> SUFFICES ASSUME RecordsInv, ReapLocked, NEW i \in Live, recs'[i] = NoRec
               PROVE  expired(recs[i].exp, clock)
    OBVIOUS
  <2>1. i \in Id /\ recs[i] # NoRec BY DEF Live
  <2>2. recs[i].exp \in Nat /\ clock \in Nat BY <2>1 DEF RecordsInv, ShapeInv, Rec
  <2>3. StillExpired(i) BY <2>1 DEF ReapLocked
  <2>4. reap.now \in Nat /\ reap.now <= clock BY DEF RecordsInv, ReapInv
  <2> QED BY <2>2, <2>3, <2>4 DEF StillExpired, expired
<1> QED BY <1>1, RecordsInvariant, PTL DEF Spec, ReapsOnlyExpired
=============================================================================

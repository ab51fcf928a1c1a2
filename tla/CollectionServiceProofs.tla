----------------------- MODULE CollectionServiceProofs ----------------------
(***************************************************************************)
(* What a collection keeps and serves: whatever a crash leaves on disk     *)
(* replays to exactly the records written, inserts get fresh ids, reads    *)
(* see the records written, and the engine implements RecordStore.         *)
(***************************************************************************)
EXTENDS CollectionProofs

\* The larger steps need more than the default time.
USE SMTT(40)

\* The log the next open will replay.
Recovered == RollForward(disk, temps, manifest)

-----------------------------------------------------------------------------
(* The temp files between CompactWrite and WriteManifest.                  *)

\* Compacted looks at the listed segments only.
LEMMA CompactedFrame ==
  ASSUME NEW T, NEW n, NEW d, NEW e, NEW L,
         \A p \in DOMAIN L : e[L[p]] = d[L[p]], Compacted(T, n, d, L)
  PROVE  Compacted(T, n, e, L)
<1>1. \A p \in DOMAIN L : \A j : Wins(d, L, p, j) <=> Wins(e, L, p, j)
  BY Zenon DEF Wins
<1> QED BY <1>1 DEF Compacted

\* The sealed list of an open collection in order leaves the active segment out.
LEMMA SealedBelow ==
  ASSUME TypeOK, FilesInv, OpenInv, up = "open"
  PROVE  /\ \A p \in DOMAIN sealed : sealed[p] \in files /\ sealed[p] < active
         /\ \A p, q \in DOMAIN sealed : p < q => sealed[p] < sealed[q]
         /\ \A s \in files : s < active => \E p \in DOMAIN sealed : sealed[p] = s
<1>1. /\ Range(sealed) = files \ {active}
      /\ \A p, q \in DOMAIN sealed : p < q => sealed[p] < sealed[q]
      /\ \A s \in files : s <= active
  BY Zenon DEF OpenInv, FilesInv, IsSorted
<1>2. files \subseteq Nat /\ active \in Nat BY FileTypes, Zenon
<1>3. ASSUME NEW p \in DOMAIN sealed PROVE sealed[p] \in files /\ sealed[p] < active
  <2>1. sealed[p] \in files /\ sealed[p] # active BY <1>1, Zenon DEF Range
  <2>2. sealed[p] <= active /\ sealed[p] \in Nat BY <1>1, <1>2, <2>1, Zenon
  <2> QED BY <1>2, <2>1, <2>2
<1>4. ASSUME NEW s \in files, s < active PROVE \E p \in DOMAIN sealed : sealed[p] = s
  <2>1. s \in Range(sealed) BY <1>1, <1>2, <1>4
  <2> QED BY <2>1, Zenon DEF Range
<1> QED BY <1>1, <1>3, <1>4, Zenon

\* What is appended to the active segment is not in the temp files' sources.
LEMMA SealedKept ==
  ASSUME TypeOK, FilesInv, OpenInv, up = "open",
         \A s \in Segs : s # active => disk'[s] = disk[s],
         Compacted(temps, ntemps, disk, sealed)
  PROVE  Compacted(temps, ntemps, disk', sealed)
<1>1. ASSUME NEW p \in DOMAIN sealed PROVE disk'[sealed[p]] = disk[sealed[p]]
  <2>1. sealed[p] \in Segs /\ active \in Nat /\ sealed[p] \in Nat
    BY FileTypes
  <2>2. sealed[p] # active BY <2>1, SealedBelow
  <2> QED BY <2>1, <2>2, Zenon
<1> QED BY <1>1, CompactedFrame

\* A step that keeps the pass, its files and the sealed segments keeps what
\* the temp files hold.
LEMMA CompactedKept ==
  ASSUME TypeOK, Layout, CompactedInv, Good, up = "open",
         UNCHANGED <<up, pass, temps, ntemps, sealed>>,
         \A s \in Segs : s # active => disk'[s] = disk[s]
  PROVE  CompactedInv'
<1> SUFFICES ASSUME pass = "written" PROVE Compacted(temps, ntemps, disk', sealed)
  BY Zenon DEF CompactedInv
<1>1. Compacted(temps, ntemps, disk, sealed) BY Zenon DEF CompactedInv
<1> QED BY <1>1, SealedKept, Zenon DEF Layout

\* CompactedInv is inductive relative to TypeOK and LayoutInv.
LEMMA CompactedStep ==
  TypeOK /\ LayoutInv /\ CompactedInv /\ [Next]_vars => CompactedInv'
<1> SUFFICES ASSUME TypeOK, LayoutInv, CompactedInv, [Next]_vars,
                    Good', up' = "open", pass' = "written"
             PROVE  Compacted(temps, ntemps, disk, sealed)'
  BY Zenon DEF CompactedInv
<1>1. CASE UNCHANGED vars
  <2>1. Good /\ up = "open" /\ pass = "written" 
    BY <1>1, Zenon DEF Good, vars, passVars, ghostVars
  <2> QED BY <1>1, <2>1, CompactedFrame, Zenon
             DEF CompactedInv, vars, fileVars, segVars, passVars
<1>2. CASE Next
  <2>0. Good /\ Layout BY <1>2, GoodBefore, Zenon DEF LayoutInv, Layout
  <2>1. ASSUME up = "open", UNCHANGED <<up, pass, temps, ntemps, sealed>>,
               \A s \in Segs : s # active => disk'[s] = disk[s]
        PROVE  Compacted(temps, ntemps, disk, sealed)'
    BY <2>0, <2>1, CompactedKept, Zenon DEF CompactedInv
  <2>2. ASSUME NEW new, AppendActive(new)
        PROVE  \A s \in Segs : s # active => disk'[s] = disk[s]
    BY <2>2, FileTypes, Zenon DEF AppendActive, Log
  <2>3. CASE \E w \in Writers : InsertAssign(w)
    BY <2>1, <2>3, Zenon DEF InsertAssign, fileVars, segVars, passVars
  <2>4. CASE \E w \in Writers : \E v \in Value : InsertReject(w, v)
    BY <2>1, <2>2, <2>4, Zenon DEF InsertReject, AppendBatch, passVars
  <2>5. CASE \E w \in Writers : \E v \in Value : InsertAppend(w, v)
    BY <2>1, <2>2, <2>5, Zenon DEF InsertAppend, AppendBatch, passVars
  <2>6. CASE \E w \in Writers : \E id \in Ids, v \in Value : Update(w, id, v)
    BY <2>1, <2>2, <2>6, Zenon DEF Update, passVars
  <2>7. CASE \E id \in Ids : Delete(id)
    BY <2>1, <2>2, <2>7, Zenon DEF Delete, passVars
  <2>8. CASE \E w \in Writers : Rotate(w)
    BY <2>8, Zenon DEF Rotate, Good, passVars
  <2>9. CASE CompactWrite
    <3>1. pass = "snap" /\ up = "open" BY <2>9, Zenon DEF CompactWrite
    <3>2. temps = EmptyLog /\ toCompact = sealed
      BY <2>0, <3>1, Zenon DEF Layout, PassInv
    <3>3. PICK ord \in MapOrders(resolveEntries(disk, sealed)) :
             \E cut \in Cuts(EmptyLog, ord) :
               temps' = writeCompacted(EmptyLog, ord, cut) /\ ntemps' = Len(cut)
      BY <2>9, <3>2, Zenon DEF CompactWrite
    <3>4. PICK cut \in Cuts(EmptyLog, ord) :
               temps' = writeCompacted(EmptyLog, ord, cut) /\ ntemps' = Len(cut)
      BY <3>3, Zenon
    <3>5. Compacted(temps', ntemps', disk, sealed)
      BY <3>4, FileTypes, WriteCompactedSound, Zenon
    <3> QED BY <2>9, <3>5, Zenon DEF CompactWrite, segVars
  <2>10. CASE \E r \in Readers : GetRead(r) \/ \E id \in Ids : GetLocate(r, id)
    BY <2>1, <2>10, Zenon DEF GetRead, GetLocate, fileVars, segVars, passVars
  <2>11. CASE CompactSnapshot \/ WriteManifest \/ CompactFails \/ Swap
              \/ PersistIndex \/ PersistIndexFails \/ ClearManifest
    BY <2>11, Zenon
       DEF CompactSnapshot, WriteManifest, CompactFails, Swap, PersistIndex,
                 PersistIndexFails, ClearManifest
  <2>12. CASE Open
    BY <2>0, <2>12, Zenon DEF Open, Layout, PassInv, passVars
  <2>13. CASE Close BY <2>13, Zenon DEF Close
  <2>14. CASE Dies BY <2>14, Zenon DEF Dies
  <2>15. ASSUME \/ \E w \in Writers : \/ CrashInRotate(w)
                                       \/ \E v \in Value : CrashInAppend(w, v)
                \/ Crash \/ CrashInClose \/ CrashInWrite \/ CrashInSwap
                \/ CrashInRecovery
         PROVE  Dies
    BY <2>15, Zenon DEF CrashInRotate, CrashInAppend, Crash, CrashInClose, CrashInWrite,
           CrashInSwap, CrashInRecovery
  <2> QED BY ZenonT(30), <1>2, <2>3, <2>4, <2>5, <2>6, <2>7, <2>8, <2>9, <2>10, <2>11,
             <2>12,
             <2>13, <2>14, <2>15 DEF Next, Compaction
<1> QED BY <1>1, <1>2, Zenon

\* Until the manifest is written, the temp files a compaction pass wrote hold
\* exactly the surviving entries of the sealed segments, whatever is appended
\* meanwhile (compact, between writeCompacted and writeCompactManifest).
THEOREM CompactedInvariant == Spec => []CompactedInv
<1>1. Init => CompactedInv BY Zenon DEF Init, CompactedInv
<1> QED BY <1>1, CompactedStep, LayoutInvariant, TypeInvariant, PTL DEF Spec

-----------------------------------------------------------------------------
(* The log.                                                                *)

\* An append to the active segment is an append to the recovered log.
LEMMA RecoveredAppend ==
  ASSUME TypeOK, Layout, up = "open", NEW new \in Seq(Entry),
         disk' = [disk EXCEPT ![active] = @ \o new],
         UNCHANGED <<temps, manifest>>,
         kv' \in [Ids -> Entry \cup {Nil}],
         Means(Recovered, kv), DistinctIds(new), Applied(new, kv, kv')
  PROVE  Means(Recovered', kv')
<1>0. /\ disk \in Log /\ temps \in Log /\ active \in Segs /\ active \in Nat
      /\ Segs \subseteq Nat /\ kv \in [Ids -> Entry \cup {Nil}]
  BY FileTypes, Zenon DEF TypeOK
<1>1. /\ files \subseteq Nat /\ active \in files /\ \A s \in files : s <= active
      /\ \A s \in Segs : s \notin files => disk[s] = <<>>
  BY FileTypes, Zenon DEF Layout, OpenInv, FilesInv
<1>2. \A s \in Segs : s > active => disk[s] = <<>> BY <1>0, <1>1
<1>3. manifest # Nil =>
        /\ \A s \in Outstanding(temps, manifest.n) : s < active /\ s \in Nat
        /\ \A s \in manifest.removals : s < active /\ s \in Nat
  BY FileTypes DEF Layout, ManifestInv, Outstanding
<1>4. Recovered \in Log BY <1>0, RollForwardType, Zenon DEF Recovered
<1>5. \A s \in Segs : s > active => Recovered[s] = <<>>
  BY <1>0, <1>2, <1>3 DEF Recovered, RollForward, ApplySwap
<1>6. Recovered' = [Recovered EXCEPT ![active] = @ \o new]
  <2>1. CASE manifest = Nil BY <2>1, Zenon DEF Recovered, RollForward
  <2>2. CASE manifest # Nil
    <3> DEFINE O == Outstanding(temps, manifest.n)
               G == manifest.removals
    <3>1. active \notin O /\ active \notin G BY <1>0, <1>3, <2>2
    <3>2. Recovered = ApplySwap(disk, temps, O, G) BY <2>2, Zenon DEF Recovered, RollForward
    <3>3. Recovered' = ApplySwap(disk', temps, O, G)
      BY <2>2, Zenon DEF Recovered, RollForward
    <3> HIDE DEF O, G
    <3>4. Recovered[active] = disk[active] BY <1>0, <3>1, <3>2, Zenon DEF ApplySwap
    <3>5. ASSUME NEW s \in Segs
          PROVE  Recovered'[s] = [Recovered EXCEPT ![active] = @ \o new][s]
      <4>1. CASE s = active
        BY <1>0, <1>4, <3>1, <3>3, <3>4, <4>1, Zenon DEF ApplySwap, Log
      <4>2. CASE s # active
        BY <1>0, <1>4, <3>2, <3>3, <4>2, Zenon DEF ApplySwap, Log
      <4> QED BY <4>1, <4>2, Zenon
    <3>6. Recovered' \in [Segs -> Seq(Entry)] 
      <4>1. disk' \in Log BY <1>0, AppendType, Zenon
      <4> QED BY <1>0, <3>3, <4>1, ApplySwapType, Zenon DEF Log
    <3>7. [Recovered EXCEPT ![active] = @ \o new] \in [Segs -> Seq(Entry)]
      BY <1>0, <1>4, AppendType, Zenon DEF Log
    <3> QED BY <3>5, <3>6, <3>7, Zenon
  <2> QED BY <2>1, <2>2, Zenon
<1>7. Recovered' \in Log /\ IsAppend(Recovered, Recovered', active, new)
  BY <1>0, <1>4, <1>6, AppendType, Zenon DEF Log, IsAppend
<1> QED BY <1>0, <1>4, <1>5, <1>7, AppendMeaning, Zenon

\* A batch of inserts with distinct ids writes each of its records.
LEMMA BatchApplied ==
  ASSUME NEW ids \in Seq(Ids), NEW v \in Value,
         \A i, j \in 1..Len(ids) : ids[i] = ids[j] => i = j,
         kv' = Inserted(ids, v)
  PROVE  /\ Batch(ids, v) \in Seq(Entry) /\ DistinctIds(Batch(ids, v))
         /\ Applied(Batch(ids, v), kv, kv')
<1> DEFINE b == Batch(ids, v)
<1>1. /\ b \in Seq(Entry) /\ Len(b) = Len(ids)
      /\ \A k \in 1..Len(ids) : b[k] = NewInsert(ids[k], v)
  BY BatchType, Zenon
<1>3. Range(ids) = {ids[k] : k \in 1..Len(ids)} /\ \A k \in 1..Len(ids) : ids[k] \in Ids
  BY DEF Range
<1> HIDE DEF b
<1>4. ASSUME NEW k \in 1..Len(ids) PROVE b[k].id = ids[k] /\ b[k].op = "insert"
  <2>1. b[k] = NewInsert(ids[k], v) BY <1>1, Zenon
  <2> QED BY <2>1 DEF NewInsert
<1>5. ASSUME NEW k \in 1..Len(b) PROVE kv'[b[k].id] = b[k] /\ b[k].op # "delete"
  <2>1. b[k] = NewInsert(ids[k], v) /\ b[k].id = ids[k] /\ b[k].op = "insert"
    BY <1>1, <1>4, Zenon
  <2>2. ids[k] \in Ids /\ ids[k] \in Range(ids) BY <1>1, <1>3, Zenon
  <2> QED BY <2>1, <2>2, Zenon DEF Inserted
<1>6. ASSUME NEW id \in Ids, \A k \in 1..Len(b) : b[k].id # id
      PROVE  kv'[id] = kv[id]
  <2>1. id \notin Range(ids) BY <1>1, <1>3, <1>4, <1>6, ZenonT(30)
  <2> QED BY <2>1, Zenon DEF Inserted
<1>7. DistinctIds(b) BY <1>1, <1>4 DEF DistinctIds
<1>8. Applied(b, kv, kv') BY <1>5, <1>6, Zenon DEF Applied
<1> QED BY <1>1, <1>7, <1>8, Zenon DEF b

\* The ids of the beginning of the batch a writer holds are distinct.
LEMMA PrefixDistinct ==
  ASSUME TypeOK, BatchInv, NEW w \in Writers, NEW n \in 0..Len(writer[w].ids)
  PROVE  LET ids == SubSeq(writer[w].ids, 1, n)
         IN  ids \in Seq(Ids) /\ \A i, j \in 1..Len(ids) : ids[i] = ids[j] => i = j
<1> DEFINE ids == SubSeq(writer[w].ids, 1, n)
<1>1. /\ writer[w].ids \in Seq(Ids)
      /\ ids \in Seq(Ids) /\ Len(ids) = n /\ \A k \in 1..n : ids[k] = writer[w].ids[k]
  BY HeldType, PrefixType, Zenon
<1>2. \A i, j \in 1..n : writer[w].ids[i] = writer[w].ids[j] => i = j
  BY <1>1, BatchDistinct, Zenon DEF BatchInv
<1> QED BY <1>1, <1>2, Zenon

\* Putting the temp files in the place of the sealed segments keeps the
\* meaning of the log.
LEMMA SwapMeaning ==
  ASSUME TypeOK, FilesInv, OpenInv, up = "open", ntemps < active,
         Compacted(temps, ntemps, disk, sealed), Means(disk, kv),
         NEW R, \A s \in Segs : s \in R <=> s <= ntemps
  PROVE  Means(ApplySwap(disk, temps, R, Range(sealed) \ (1..ntemps)), kv)
<1> DEFINE e == ApplySwap(disk, temps, R, Range(sealed) \ (1..ntemps))
<1>1. /\ disk \in Log /\ temps \in Log /\ active \in Segs /\ active \in Nat
      /\ Segs \subseteq Nat /\ (\A s \in Segs : s >= 1) /\ sealed \in Seq(Segs)
  BY FileTypes, Zenon
<1>2. ntemps \in Nat /\ ntemps <= MaxSeg /\ kv \in [Ids -> Entry \cup {Nil}]
  BY Bounds DEF TypeOK
<1>3. /\ \A p \in DOMAIN sealed : sealed[p] \in files /\ sealed[p] < active
      /\ \A p, q \in DOMAIN sealed : p < q => sealed[p] < sealed[q]
      /\ \A s \in files : s < active => \E p \in DOMAIN sealed : sealed[p] = s
  BY SealedBelow, Zenon
<1>4. /\ \A s \in Segs : s \notin files => disk[s] = <<>>
      /\ \A s \in files : s <= active
  BY Zenon DEF FilesInv, OpenInv
<1>5. \A s \in Segs : s < active /\ disk[s] # <<>> =>
        \E p \in DOMAIN sealed : sealed[p] = s
  BY <1>3, <1>4, Zenon
<1>6. \A s \in Segs : s > active => disk[s] = <<>> BY <1>1, <1>4
<1>7. e \in Log BY <1>1, ApplySwapType, Zenon
<1>8. ASSUME NEW s \in Segs
      PROVE  e[s] = IF s <= ntemps THEN temps[s]
                    ELSE IF s < active THEN <<>> ELSE disk[s]
  <2>1. s \in Nat /\ s >= 1 BY <1>1, Zenon
  <2>2. s \in R <=> s <= ntemps BY Zenon
  <2>3. s \in Range(sealed) => s < active BY <1>3, Zenon DEF Range
  <2>4. s < active /\ s \notin Range(sealed) => disk[s] = <<>>
    BY <1>5, Zenon DEF Range
  <2> QED BY <1>1, <1>2, <2>1, <2>2, <2>3, <2>4 DEF ApplySwap
<1>9. Means(e, kv)
  <2> HIDE DEF e
  <2> QED BY <1>1, <1>2, <1>3, <1>5, <1>6, <1>7, <1>8, CompactionKeepsMeaning
<1> QED BY <1>9, Zenon

\* Recording the swap intent makes the temp files the log, and they mean what
\* the segments they replace mean.
LEMMA RecoveredManifest ==
  ASSUME TypeOK, TypeOK', Layout, Layout', CompactedInv, Good, WriteManifest,
         Means(Recovered, kv)
  PROVE  Means(Recovered', kv')
<1>1. /\ up = "open" /\ pass = "written" /\ pass' = "logged"
      /\ UNCHANGED <<disk, files, temps, up, sealed, active, toCompact, ntemps, kv>>
  BY Zenon DEF WriteManifest, segVars
<1>2. /\ manifest = Nil /\ manifest' # Nil
      /\ manifest' = [n |-> ntemps, removals |-> Range(sealed) \ (1..ntemps)]
      /\ \A k \in Segs : temps[k] # <<>> <=> k <= ntemps
      /\ Compacted(temps, ntemps, disk, sealed)
  BY <1>1, Zenon DEF Layout, PassInv, CompactedInv
<1>3. manifest'.n = ntemps /\ manifest'.removals = Range(sealed) \ (1..ntemps)
  BY <1>2, Zenon
<1>4. ntemps < active BY <1>1, <1>2, <1>3, Zenon DEF Layout, ManifestInv
<1>5. Means(disk, kv) BY <1>2, Zenon DEF Recovered, RollForward
<1>6. Recovered' = ApplySwap(disk, temps, Outstanding(temps, ntemps),
                             Range(sealed) \ (1..ntemps))
  BY <1>1, <1>2, <1>3, Zenon DEF Recovered, RollForward
<1>7. ASSUME NEW s \in Segs PROVE s \in Outstanding(temps, ntemps) <=> s <= ntemps
  BY <1>2, FileTypes DEF Outstanding
<1> HIDE DEF Recovered
<1>8. Means(Recovered', kv)
  BY <1>1, <1>2, <1>4, <1>5, <1>6, <1>7, SwapMeaning, Zenon DEF Layout
<1> QED BY <1>1, <1>8, Zenon

\* The renames and removals are what the manifest already said.
LEMMA RecoveredSwap ==
  ASSUME TypeOK, Layout, Swap
  PROVE  Recovered' = Recovered
<1>1. /\ up = "open" /\ pass = "logged" /\ manifest # Nil
      /\ manifest.n = ntemps /\ (1..manifest.n) \cap manifest.removals = {}
      /\ \A k \in Segs : temps[k] # <<>> <=> k <= ntemps
  BY DEF Swap, TypeOK, Layout, PassInv, ManifestInv
<1>2. /\ disk' = ApplySwap(disk, temps, 1..manifest.n, manifest.removals)
      /\ temps' = [k \in Segs |-> IF k \in 1..manifest.n THEN <<>> ELSE temps[k]]
      /\ manifest' = manifest
  BY Zenon DEF Swap
<1>3. /\ disk \in Log /\ temps \in Log /\ manifest.n \in Nat
      /\ manifest.n <= MaxSeg /\ Segs = 1..MaxSeg
  BY <1>1, FileTypes, Zenon DEF Segs
<1>4. Outstanding(temps, manifest.n) = 1..manifest.n
  BY <1>1, <1>3, Bounds DEF Outstanding
<1> QED BY <1>1, <1>2, <1>3, <1>4, RollForwardAgain DEF Recovered

\* A crash amid the renames and removals leaves them to be finished, to the
\* same log.
LEMMA RecoveredPartial ==
  ASSUME TypeOK, Layout, manifest # Nil, PartialSwap, manifest' = manifest
  PROVE  Recovered' = Recovered
<1>1. PICK R \in SUBSET Outstanding(temps, manifest.n),
           Q \in SUBSET manifest.removals :
        /\ disk' = ApplySwap(disk, temps, R, Q)
        /\ temps' = [k \in Segs |-> IF k \in R THEN <<>> ELSE temps[k]]
  BY Zenon DEF PartialSwap
<1>2. (1..manifest.n) \cap manifest.removals = {} BY Zenon DEF Layout, ManifestInv
<1>3. /\ disk \in Log /\ temps \in Log /\ manifest.n \in Nat
      /\ manifest.n <= MaxSeg
  BY FileTypes, Zenon
<1> QED BY <1>1, <1>2, <1>3, RollForwardAgain DEF Recovered

\* Once the files are in place the manifest says nothing more.
LEMMA RecoveredClear ==
  ASSUME TypeOK, Layout, ClearManifest
  PROVE  Recovered' = Recovered
<1>1. /\ pass = "indexed" /\ up = "open" /\ manifest # Nil /\ manifest' = Nil
      /\ manifest.removals \cap files = {} /\ temps = EmptyLog
      /\ UNCHANGED <<disk, temps>>
  BY Zenon DEF ClearManifest, Layout, PassInv
<1>2. Recovered' = disk BY <1>1, Zenon DEF Recovered, RollForward
<1>3. \A s \in Segs : s \in manifest.removals => disk[s] = <<>>
  BY <1>1, Zenon DEF Layout, FilesInv
<1>4. disk \in Log /\ manifest.n \in Nat /\ manifest.n <= MaxSeg BY <1>1, FileTypes, Zenon
<1> QED BY <1>1, <1>2, <1>3, <1>4, RollForwardDone, Zenon DEF Recovered

\* An insert, accepted or rejected, appends a beginning of its batch.
LEMMA AppendsPrefix ==
  ASSUME TypeOK, NEW w \in Writers, NEW v \in Value, InsertAppend(w, v) \/ InsertReject(w, v)
  PROVE  \E n \in 0..Len(writer[w].ids) : AppendBatch(SubSeq(writer[w].ids, 1, n), v)
<1>1. writer[w].ids \in Seq(Ids) /\ Len(writer[w].ids) \in Nat BY HeldType, Zenon
<1>2. SubSeq(writer[w].ids, 1, Len(writer[w].ids)) = writer[w].ids BY <1>1
<1>3. CASE InsertAppend(w, v)
  <2>1. AppendBatch(SubSeq(writer[w].ids, 1, Len(writer[w].ids)), v)
    BY ZenonT(60), <1>2, <1>3 DEF InsertAppend
  <2>2. Len(writer[w].ids) \in 0..Len(writer[w].ids) BY <1>1
  <2> HIDE DEF AppendBatch
  <2> QED BY <2>1, <2>2, Zenon
<1>4. CASE InsertReject(w, v)
  <2>1. PICK n \in 0..(Len(writer[w].ids) - 1) :
               AppendBatch(SubSeq(writer[w].ids, 1, n), v)
    BY <1>4, Zenon DEF InsertReject
  <2>2. n \in 0..Len(writer[w].ids) BY <1>1
  <2> QED BY <2>1, <2>2, Zenon
<1> QED BY <1>3, <1>4, Zenon

\* A write of the entries new at offset n of segment a takes the index idx and
\* the records m to idx2 and m2: each id keeps what it had, loses it, or gets
\* one of the entries.
Writes(new, a, n, idx, m, idx2, m2) ==
  \A id \in Ids :
    \/ idx2[id] = idx[id] /\ m2[id] = m[id]
    \/ idx2[id] = Nil /\ m2[id] = Nil
    \/ \E k \in 1..Len(new) : idx2[id] = [seg |-> a, off |-> n + k] /\ m2[id] = new[k]

\* A batch points the index at the entries it appends.
LEMMA BatchWrites ==
  ASSUME TypeOK, OpenInv, up = "open", NEW ids \in Seq(Ids), NEW v \in Value,
         AppendBatch(ids, v)
  PROVE  Writes(Batch(ids, v), active, Len(disk[active]), index, kv, index', kv')
<1> DEFINE b == Batch(ids, v)
<1>1. /\ Len(b) = Len(ids) /\ DOMAIN ids = 1..Len(ids)
      /\ \A k \in 1..Len(ids) : b[k] = NewInsert(ids[k], v)
  BY BatchType
<1>2. asize = Len(disk[active]) BY Zenon DEF OpenInv
<1>3. /\ index' = [id \in Ids |->
                     IF id \in Range(ids)
                     THEN [seg |-> active,
                           off |-> asize + CHOOSE k \in DOMAIN ids : ids[k] = id]
                     ELSE index[id]]
      /\ kv' = Inserted(ids, v)
  BY ZenonT(30) DEF AppendBatch
<1> HIDE DEF b
<1>4. ASSUME NEW id \in Ids
      PROVE  \/ index'[id] = index[id] /\ kv'[id] = kv[id]
             \/ \E k \in 1..Len(b) : /\ index'[id] = [seg |-> active, off |-> Len(disk[active]) + k]
                                     /\ kv'[id] = b[k]
  <2>1. CASE id \notin Range(ids) BY <1>3, <2>1, Zenon DEF Inserted
  <2>2. CASE id \in Range(ids)
    <3> DEFINE k == CHOOSE k \in DOMAIN ids : ids[k] = id
    <3>1. k \in DOMAIN ids /\ ids[k] = id BY <2>2, Zenon DEF Range
    <3>2. index'[id] = [seg |-> active, off |-> asize + k] BY <1>3, <2>2, ZenonT(30)
    <3>3. kv'[id] = NewInsert(id, v) BY <1>3, <2>2, Zenon DEF Inserted
    <3> HIDE DEF k
    <3>4. k \in 1..Len(b) /\ kv'[id] = b[k] BY <1>1, <3>1, <3>3, Zenon
    <3> QED BY <1>2, <3>2, <3>4, Zenon
  <2> QED BY <2>1, <2>2, ZenonT(30)
<1>5. Writes(b, active, Len(disk[active]), index, kv, index', kv') BY <1>4, Zenon DEF Writes
<1> QED BY <1>5, Zenon DEF b

\* A write of one entry: the record is set, or gone.
LEMMA EntryWrites ==
  ASSUME TypeOK, OpenInv, up = "open", NEW e \in Entry, e.id \in Ids,
         \A x \in Ids \ {e.id} : index'[x] = index[x] /\ kv'[x] = kv[x],
         \/ /\ index'[e.id] = [seg |-> active, off |-> asize + 1]
            /\ kv'[e.id] = e /\ e.op # "delete"
         \/ index'[e.id] = Nil /\ kv'[e.id] = Nil /\ e.op = "delete"
  PROVE  /\ <<e>> \in Seq(Entry) /\ DistinctIds(<<e>>) /\ Applied(<<e>>, kv, kv')
         /\ Writes(<<e>>, active, Len(disk[active]), index, kv, index', kv')
<1> DEFINE new == <<e>>
<1>1. new \in Seq(Entry) /\ Len(new) = 1 /\ 1..Len(new) = {1} /\ new[1] = e OBVIOUS
<1>2. asize = Len(disk[active]) BY Zenon DEF OpenInv
<1> HIDE DEF new
<1>3. DistinctIds(new) BY <1>1, Zenon DEF DistinctIds
<1>4. Applied(new, kv, kv') BY <1>1, Zenon DEF Applied
<1>5. Writes(new, active, Len(disk[active]), index, kv, index', kv')
  <2>1. 1 \in 1..Len(new) BY <1>1, Zenon
  <2> QED BY <1>1, <1>2, <2>1, Zenon DEF Writes
<1> QED BY <1>1, <1>3, <1>4, <1>5, Zenon DEF new

\* The steps that append to the log.
IsWrite ==
  \/ \E w \in Writers, v \in Value : \/ InsertAppend(w, v) \/ InsertReject(w, v)
                                      \/ \E id \in Ids : Update(w, id, v)
  \/ \E id \in Ids : Delete(id)

\* The entries new are appended, and change the records and the index alike.
IsWriteOf(new) ==
  /\ AppendActive(new) /\ disk' = [disk EXCEPT ![active] = @ \o new]
  /\ DistinctIds(new) /\ Applied(new, kv, kv')
  /\ Writes(new, active, Len(disk[active]), index, kv, index', kv')

\* Every write appends some entries, and touches no other file.
LEMMA EveryWrite ==
  ASSUME TypeOK, BatchInv, OpenInv, IsWrite
  PROVE  /\ up = "open"
         /\ UNCHANGED <<files, temps, manifest, up, sealed, active, linked, passVars>>
         /\ \E new \in Seq(Entry) : IsWriteOf(new)
<1>0. /\ up = "open"
      /\ UNCHANGED <<files, temps, manifest, up, sealed, active, linked, passVars>>
  BY ZenonT(30) DEF IsWrite, InsertAppend, InsertReject, Update, Delete, AppendBatch
<1>1. linked BY <1>0, Zenon DEF OpenInv
<1>2. index \in [Ids -> Loc \cup {Nil}] /\ kv \in [Ids -> Entry \cup {Nil}]
  BY ZenonT(30) DEF TypeOK
<1>3. ASSUME NEW w \in Writers, NEW v \in Value, InsertAppend(w, v) \/ InsertReject(w, v)
      PROVE  \E new \in Seq(Entry) : IsWriteOf(new)
  <2>1. PICK n \in 0..Len(writer[w].ids) : AppendBatch(SubSeq(writer[w].ids, 1, n), v)
    BY <1>3, AppendsPrefix, Zenon
  <2> DEFINE ids == SubSeq(writer[w].ids, 1, n)
  <2>2. ids \in Seq(Ids) /\ \A i, j \in 1..Len(ids) : ids[i] = ids[j] => i = j
    BY PrefixDistinct, Zenon
  <2>3. AppendBatch(ids, v) BY <2>1, Zenon
  <2> HIDE DEF ids
  <2>4. /\ AppendActive(Batch(ids, v)) /\ kv' = Inserted(ids, v)
        /\ disk' = [disk EXCEPT ![active] = @ \o Batch(ids, v)]
    BY <1>1, <2>3, Zenon DEF AppendBatch, AppendActive
  <2>5. /\ Batch(ids, v) \in Seq(Entry) /\ DistinctIds(Batch(ids, v))
        /\ Applied(Batch(ids, v), kv, kv')
    BY <2>2, <2>4, BatchApplied, Zenon
  <2>6. Writes(Batch(ids, v), active, Len(disk[active]), index, kv, index', kv')
    BY <1>0, <2>2, <2>3, BatchWrites, Zenon
  <2> QED BY <2>4, <2>5, <2>6, Zenon DEF IsWriteOf
<1>4. ASSUME NEW e \in Entry, e.id \in Ids, AppendActive(<<e>>),
             \A x \in Ids \ {e.id} : index'[x] = index[x] /\ kv'[x] = kv[x],
             \/ /\ index'[e.id] = [seg |-> active, off |-> asize + 1]
                /\ kv'[e.id] = e /\ e.op # "delete"
             \/ index'[e.id] = Nil /\ kv'[e.id] = Nil /\ e.op = "delete"
      PROVE  \E new \in Seq(Entry) : IsWriteOf(new)
  <2>1. /\ <<e>> \in Seq(Entry) /\ DistinctIds(<<e>>) /\ Applied(<<e>>, kv, kv')
        /\ Writes(<<e>>, active, Len(disk[active]), index, kv, index', kv')
    BY <1>0, <1>4, EntryWrites, ZenonT(30)
  <2>2. disk' = [disk EXCEPT ![active] = @ \o <<e>>] BY <1>1, <1>4, Zenon DEF AppendActive
  <2> QED BY <1>4, <2>1, <2>2, Zenon DEF IsWriteOf
<1>5. ASSUME NEW w \in Writers, NEW id \in Ids, NEW v \in Value, Update(w, id, v)
      PROVE  \E new \in Seq(Entry) : IsWriteOf(new)
  <2>1. NewUpdate(id, v) \in Entry BY Zenon DEF NewUpdate, Entry, Op
  <2>2. NewUpdate(id, v).id = id /\ NewUpdate(id, v).op # "delete" BY DEF NewUpdate
  <2>3. /\ AppendActive(<<NewUpdate(id, v)>>)
        /\ index' = [index EXCEPT ![id] = [seg |-> active, off |-> asize + 1]]
        /\ kv' = [kv EXCEPT ![id] = NewUpdate(id, v)]
    BY <1>5, Zenon DEF Update
  <2> HIDE DEF NewUpdate
  <2> QED BY <1>2, <1>4, <2>1, <2>2, <2>3, ZenonT(30)
<1>6. ASSUME NEW id \in Ids, Delete(id) PROVE \E new \in Seq(Entry) : IsWriteOf(new)
  <2>1. NewDelete(id) \in Entry BY Zenon DEF NewDelete, Entry, Op
  <2>2. NewDelete(id).id = id /\ NewDelete(id).op = "delete" BY DEF NewDelete
  <2>3. /\ AppendActive(<<NewDelete(id)>>)
        /\ index' = [index EXCEPT ![id] = Nil] /\ kv' = [kv EXCEPT ![id] = Nil]
    BY <1>6, Zenon DEF Delete
  <2> HIDE DEF NewDelete
  <2> QED BY <1>2, <1>4, <2>1, <2>2, <2>3, ZenonT(30)
<1> QED BY <1>0, <1>3, <1>5, <1>6, Zenon DEF IsWrite

\* DurableLog is inductive relative to the invariants above.
LEMMA DurableStep ==
  TypeOK /\ TypeOK' /\ BatchInv /\ LayoutInv /\ LayoutInv' /\ CompactedInv
    /\ DurableLog /\ [Next]_vars => DurableLog'
<1> SUFFICES ASSUME TypeOK, TypeOK', BatchInv, LayoutInv, LayoutInv', CompactedInv,
                    DurableLog, [Next]_vars, Good'
             PROVE  Means(Recovered', kv')
  BY Zenon DEF DurableLog, Good, Recovered
<1>1. CASE UNCHANGED vars
  <2>1. Good BY <1>1, Zenon DEF Good, vars, ghostVars
  <2>2. Recovered' = Recovered /\ kv' = kv
    BY <1>1, Zenon DEF Recovered, vars, fileVars, ghostVars
  <2> QED BY <2>1, <2>2, Zenon DEF DurableLog, Good, Recovered
<1>2. CASE Next
  <2>0. Good /\ Layout /\ Layout' /\ Means(Recovered, kv)
    BY <1>2, GoodBefore, Zenon DEF LayoutInv, Layout, DurableLog, Good, Recovered
  <2>1. ASSUME Recovered' = Recovered, kv' = kv PROVE Means(Recovered', kv')
    BY <2>0, <2>1, Zenon
  <2>2. ASSUME UNCHANGED <<disk, temps, manifest, kv>> PROVE Means(Recovered', kv')
    BY <2>1, <2>2, Zenon DEF Recovered
  <2>4. CASE IsWrite
    <3>1. PICK new \in Seq(Entry) : IsWriteOf(new)
      BY <2>0, <2>4, EveryWrite, Zenon DEF Layout
    <3>2. up = "open" /\ UNCHANGED <<temps, manifest>>
      BY <2>0, <2>4, EveryWrite, Zenon DEF Layout
    <3>3. kv' \in [Ids -> Entry \cup {Nil}] BY Zenon DEF TypeOK
    <3> QED BY <2>0, <3>1, <3>2, <3>3, RecoveredAppend, Zenon DEF IsWriteOf
  <2>7. ASSUME NEW w \in Writers, NEW v \in Value, CrashInAppend(w, v)
        PROVE  Means(Recovered', kv')
    <3>1. PICK n \in 1..(Len(writer[w].ids) - 1) :
            LET ids == SubSeq(writer[w].ids, 1, n)
            IN  /\ disk' = [disk EXCEPT ![active] = @ \o Batch(ids, v)]
                /\ kv' = Inserted(ids, v)
      BY ZenonT(60), <2>7 DEF CrashInAppend
    <3> DEFINE ids == SubSeq(writer[w].ids, 1, n)
    <3>2. n \in 0..Len(writer[w].ids) BY HeldType
    <3>3. ids \in Seq(Ids) /\ \A i, j \in 1..Len(ids) : ids[i] = ids[j] => i = j
      BY <3>2, PrefixDistinct, Zenon
    <3>4. disk' = [disk EXCEPT ![active] = @ \o Batch(ids, v)] /\ kv' = Inserted(ids, v)
      BY <3>1, Zenon
    <3> HIDE DEF ids
    <3>5. /\ Batch(ids, v) \in Seq(Entry) /\ DistinctIds(Batch(ids, v))
          /\ Applied(Batch(ids, v), kv, kv')
      BY <3>3, <3>4, BatchApplied, Zenon
    <3>6. up = "open" /\ UNCHANGED <<temps, manifest>> BY <2>7, Zenon DEF CrashInAppend
    <3>7. kv' \in [Ids -> Entry \cup {Nil}] BY Zenon DEF TypeOK
    <3> QED BY <2>0, <3>4, <3>5, <3>6, <3>7, RecoveredAppend, Zenon
  <2>8. CASE CompactWrite
    <3>1. manifest = Nil /\ UNCHANGED <<disk, manifest, kv>>
      BY ZenonT(60), <2>0, <2>8 DEF CompactWrite, Layout, PassInv, ghostVars
    <3> QED BY <2>1, <3>1, Zenon DEF Recovered, RollForward
  <2>9. CASE CrashInWrite
    <3>1. manifest = Nil /\ UNCHANGED <<disk, manifest, kv>>
      BY <2>0, <2>9, Zenon DEF CrashInWrite, Layout, PassInv
    <3> QED BY <2>1, <3>1, Zenon DEF Recovered, RollForward
  <2>10. CASE WriteManifest BY <2>0, <2>10, RecoveredManifest, Zenon
  <2>11. CASE Swap BY ZenonT(60), <2>0, <2>1, <2>11, RecoveredSwap
                      DEF Swap, ghostVars
  <2>12. CASE ClearManifest
    BY <2>0, <2>1, <2>12, RecoveredClear, Zenon DEF ClearManifest, ghostVars
  <2>13. CASE CrashInSwap
    BY ZenonT(60), <2>0, <2>1, <2>13, RecoveredPartial DEF CrashInSwap, TypeOK
  <2>14. CASE CrashInRecovery
    BY <2>0, <2>1, <2>14, RecoveredPartial, Zenon DEF CrashInRecovery
  <2>15. CASE Open
    <3>1. disk' = Recovered /\ manifest' = Nil /\ kv' = kv
      BY ZenonT(60), <2>15 DEF Open, Recovered
    <3> QED BY <2>1, <3>1, Zenon DEF Recovered, RollForward
  <2>16. CASE \/ CompactSnapshot \/ CompactFails \/ PersistIndex
              \/ PersistIndexFails \/ Close \/ Crash \/ CrashInClose
    BY <2>2, <2>16, Zenon DEF CompactSnapshot, CompactFails, PersistIndex,
                       PersistIndexFails, Close, Crash, CrashInClose,
                       fileVars, ghostVars
  <2>17. ASSUME NEW w \in Writers,
                InsertAssign(w) \/ Rotate(w) \/ CrashInRotate(w)
         PROVE  Means(Recovered', kv')
    BY <2>2, <2>17, Zenon DEF InsertAssign, Rotate, CrashInRotate,
                       fileVars, ghostVars
  <2>18. CASE \E r \in Readers : GetRead(r) \/ \E id \in Ids : GetLocate(r, id)
    BY <2>2, <2>18, Zenon DEF GetRead, GetLocate, fileVars, ghostVars
  <2> QED BY ZenonT(30), <1>2, <2>4, <2>7, <2>8, <2>9, <2>10, <2>11, <2>12,
             <2>13,
             <2>14, <2>15, <2>16, <2>17, <2>18 DEF Next, Compaction, IsWrite
<1> QED BY <1>1, <1>2, Zenon

\* The empty directory means no records.
LEMMA NothingWritten == Init => Means(disk, kv)
<1> SUFFICES ASSUME Init PROVE Means(disk, kv)
  OBVIOUS
<1>1. \A s \in Segs : disk[s] = <<>> BY Zenon DEF Init, EmptyLog
<1>2. \A id \in Ids : kv[id] = Nil BY Zenon DEF Init, EmptyIndex
<1>3. ASSUME NEW id \in Ids PROVE ~ IsLive(disk, AllSegs, id)
  <2>1. \A s \in DOMAIN AllSegs : disk[AllSegs[s]] = <<>> BY <1>1, Zenon DEF AllSegs
  <2>2. \A s \in DOMAIN AllSegs : DOMAIN disk[AllSegs[s]] = {} BY <2>1
  <2> QED BY <2>2, Zenon DEF IsLive
<1> QED BY <1>2, <1>3, Zenon DEF Means

\* What a crash leaves, at any step of any write, rotation, compaction swap or
\* recovery, replays to exactly the records written, unless a segment was
\* sealed during a compaction pass, the output outgrew its input, or an I/O
\* error struck.
THEOREM DurableLogHolds == Spec => []DurableLog
<1>1. Init => DurableLog BY NothingWritten, Zenon DEF Init, DurableLog, RollForward
<1> QED BY <1>1, DurableStep, CompactedInvariant, LayoutInvariant, BatchInvariant,
           TypeInvariant, PTL DEF Spec

-----------------------------------------------------------------------------
(* Ids.                                                                    *)

\* HeldInv is inductive.
LEMMA HeldStep == TypeOK /\ HeldInv /\ [Next]_vars => HeldInv'
<1> SUFFICES ASSUME TypeOK, HeldInv, [Next]_vars PROVE HeldInv' BY Zenon
<1>0. writer \in [Writers -> WriterType] BY Zenon DEF TypeOK, WriterType
<1>1. ASSUME NEW w \in Writers, InsertAssign(w) PROVE HeldInv'
  BY <1>0, <1>1, Zenon DEF InsertAssign, HeldInv
<1>2. ASSUME NEW w \in Writers, AfterAppend(w) PROVE HeldInv'
  BY <1>0, <1>2, Zenon DEF AfterAppend, HeldInv, Idle, Rotating
<1>3. ASSUME NEW w \in Writers, writer' = [writer EXCEPT ![w] = Idle] PROVE HeldInv'
  BY <1>0, <1>3, Zenon DEF HeldInv, Idle
<1>4. ASSUME MemoryLost PROVE HeldInv'
  BY <1>4, Zenon DEF MemoryLost, HeldInv, Idle
<1>5. ASSUME UNCHANGED writer PROVE HeldInv'
  BY <1>5, Zenon DEF HeldInv
<1>6. ASSUME NEW w \in Writers, NEW v \in Value, InsertAppend(w, v) \/ InsertReject(w, v)
      PROVE  HeldInv'
  BY <1>2, <1>3, <1>6, Zenon DEF InsertAppend, InsertReject
<1>7. ASSUME NEW w \in Writers, Rotate(w) \/ \E id \in Ids, v \in Value : Update(w, id, v)
      PROVE  HeldInv'
  BY <1>2, <1>3, <1>7, Zenon DEF Rotate, Update
<1>8. CASE \/ \E w \in Writers : \/ CrashInRotate(w) 
                                 \/ \E v \in Value : CrashInAppend(w, v)
           \/ Close \/ Crash \/ CrashInClose \/ CrashInWrite \/ CrashInSwap \/ CrashInRecovery
  BY <1>4, <1>8, Zenon DEF CrashInRotate, CrashInAppend, Close, Crash, CrashInClose, CrashInWrite,
     CrashInSwap, CrashInRecovery, Dies
<1>9. CASE \/ \E id \in Ids : Delete(id)
           \/ \E r \in Readers : GetRead(r) \/ \E id \in Ids : GetLocate(r, id)
           \/ Compaction \/ Open \/ UNCHANGED vars
  BY <1>5, <1>9, Zenon DEF Delete, GetRead, GetLocate, Compaction, CompactSnapshot, CompactWrite,
     WriteManifest, CompactFails, Swap, PersistIndex, PersistIndexFails, ClearManifest, Open, vars
<1> QED BY <1>1, <1>6, <1>7, <1>8, <1>9, Zenon DEF Next

\* The ids in a segment after an append to it.
LEMMA IdsInAppend ==
  ASSUME NEW d \in Log, NEW a \in Segs, NEW new \in Seq(Entry), NEW e,
         e[a] = d[a] \o new
  PROVE  IdsIn(d, {a}) \subseteq IdsIn(e, {a}) /\ \A k \in DOMAIN new : new[k].id \in IdsIn(e, {a})
<1>1. d[a] \in Seq(Entry) BY Zenon DEF Log
<1>2. \A i \in DOMAIN e[a] : e[a][i].id \in IdsIn(e, {a}) BY Zenon DEF IdsIn
<1>3. IdsIn(d, {a}) = {d[a][i].id : i \in DOMAIN d[a]} BY Zenon DEF IdsIn
<1>4. ASSUME NEW k \in DOMAIN d[a] PROVE k \in DOMAIN e[a] /\ e[a][k] = d[a][k]
  BY <1>1, <1>4
<1>5. ASSUME NEW k \in DOMAIN new PROVE new[k].id \in IdsIn(e, {a})
  <2>1. Len(d[a]) + k \in DOMAIN e[a] /\ e[a][Len(d[a]) + k] = new[k] BY <1>1, <1>5
  <2> QED BY <1>2, <2>1, Zenon
<1>6. ASSUME NEW k \in DOMAIN d[a] PROVE d[a][k].id \in IdsIn(e, {a})
  BY <1>2, <1>4, <1>6, Zenon
<1> QED BY <1>3, <1>5, <1>6, Zenon
\* MetaInv is inductive.
LEMMA MetaStep == TypeOK /\ MetaInv /\ [Next]_vars => MetaInv'
<1> SUFFICES ASSUME TypeOK, MetaInv, [Next]_vars, metaFile' = Nil
             PROVE  used' = {} /\ up' = "closed" /\ manifest' = Nil
  BY Zenon DEF MetaInv
<1>0. idSeq \in Nat /\ Nil \notin Nat
  BY Bounds, CollectionAssumption DEF TypeOK
<1>1. CASE metaFile # Nil
  <2>1. ASSUME NEW w \in Writers, NEW v \in Value, InsertAppend(w, v) \/ InsertReject(w, v)
        PROVE  metaFile' = metaFile
    BY <2>1, Zenon DEF InsertAppend, InsertReject, AppendBatch
  <2>2. CASE \/ \E w \in Writers : Rotate(w)
             \/ Close
    BY <1>0, <2>2, Zenon DEF Rotate, Close
  <2>3. CASE Open
    BY <1>1, <2>3, Zenon DEF Open
  <2>4. CASE \/ \E w \in Writers : \/ InsertAssign(w) \/ CrashInRotate(w)
                                   \/ \E v \in Value : \/ CrashInAppend(w, v)
                                                       \/ \E id \in Ids : Update(w, id, v)
             \/ \E id \in Ids : Delete(id)
             \/ \E r \in Readers : GetRead(r) \/ \E id \in Ids : GetLocate(r, id)
             \/ Compaction
             \/ Crash \/ CrashInClose \/ CrashInWrite \/ CrashInSwap \/ CrashInRecovery
    BY <1>1, <2>4, Zenon DEF InsertAssign, CrashInRotate, CrashInAppend, Update, Delete, GetRead, GetLocate,
       Compaction, CompactSnapshot, CompactWrite, WriteManifest, CompactFails, Swap, PersistIndex,
       PersistIndexFails, ClearManifest, Crash, CrashInClose, CrashInWrite, CrashInSwap,
       CrashInRecovery, fileVars
  <2>5. CASE UNCHANGED vars
    BY <1>1, <2>5, Zenon DEF vars, fileVars
  <2> QED BY <1>1, <2>1, <2>2, <2>3, <2>4, <2>5, ZenonT(30) DEF Next
<1>2. CASE metaFile = Nil
  <2>1. used = {} /\ up = "closed" /\ manifest = Nil
    BY <1>2, Zenon DEF MetaInv
  <2>2. ASSUME NEW w \in Writers, NEW v \in Value PROVE ~InsertAppend(w, v) /\ ~InsertReject(w, v)
    BY <2>1, Zenon DEF InsertAppend, InsertReject
  <2>3. CASE Open
    <3>1. idSeq' \in Nat /\ metaFile' = idSeq'
      BY <1>2, <2>3 DEF Open
    <3> QED BY <1>0, <3>1, Zenon
  <2>4. ~Next \/ Open
    BY <2>1, <2>2, ZenonT(30) DEF Next, InsertAssign, Rotate, CrashInRotate, CrashInAppend, Update, Delete,
       GetRead, GetLocate, Compaction, CompactSnapshot, CompactWrite, WriteManifest, CompactFails, Swap,
       PersistIndex, PersistIndexFails, ClearManifest, Close, Crash, CrashInClose, CrashInWrite,
       CrashInSwap, CrashInRecovery
  <2> QED BY <2>1, <2>3, <2>4, Zenon DEF vars, fileVars, ghostVars
<1> QED BY <1>1, <1>2, Zenon
\* The ids that are used and the ids that are held.
Fresh ==
  /\ \A id \in used : id <= idSeq
  /\ \A w \in Writers : writer[w].pc = "assigned" =>
       /\ Range(writer[w].ids) \cap used = {}
       /\ \A x \in Writers \ {w} : Range(writer[w].ids) \cap Range(writer[x].ids) = {}

\* The counter's next value is above every id used or held.
LEMMA FreshAssign ==
  ASSUME TypeOK, BatchInv, HeldInv, Fresh, NEW w \in Writers, InsertAssign(w)
  PROVE  Fresh'
<1> DEFINE new == idSeq + 1
<1>0. /\ writer \in [Writers -> WriterType] /\ idSeq \in Nat /\ idSeq' = new
      /\ used' = used /\ used \subseteq Nat
      /\ writer' = [writer EXCEPT ![w] = [pc |-> "assigned", ids |-> Append(writer[w].ids, new)]]
  BY Bounds DEF TypeOK, WriterType, InsertAssign, ghostVars, Ids
<1>1. \A x \in Writers : writer[x].ids \in Seq(Ids) /\ Range(writer[x].ids) \subseteq Nat
                         /\ \A id \in Range(writer[x].ids) : id <= idSeq
  <2>1. ASSUME NEW x \in Writers
        PROVE  writer[x].ids \in Seq(Ids) /\ IsBatch(writer[x].ids, idSeq)
    BY HeldType, Zenon DEF BatchInv
  <2>2. Ids \subseteq Nat BY Bounds DEF Ids
  <2>3. ASSUME NEW x \in Writers, NEW id \in Range(writer[x].ids) PROVE id \in Nat /\ id <= idSeq
    <3>1. PICK k \in DOMAIN writer[x].ids : id = writer[x].ids[k] BY <2>3, Zenon DEF Range
    <3>2. id \in Ids BY <2>1, <3>1
    <3>3. id <= idSeq BY <2>1, <3>1, Zenon DEF IsBatch
    <3> QED BY <2>2, <3>2, <3>3, Zenon
  <2> QED BY <2>1, <2>3, Zenon
<1>2. Range(writer'[w].ids) = Range(writer[w].ids) \cup {new} /\ writer'[w].pc = "assigned"
  <2>1. writer'[w].ids = Append(writer[w].ids, new) BY <1>0, Zenon
  <2>2. ASSUME NEW q \in Seq(Ids) PROVE Range(Append(q, new)) = Range(q) \cup {new}
    <3>1. DOMAIN Append(q, new) = DOMAIN q \cup {Len(q) + 1} /\ Append(q, new)[Len(q) + 1] = new
          /\ \A k \in DOMAIN q : Append(q, new)[k] = q[k]
      OBVIOUS
    <3> HIDE DEF new
    <3> QED BY <3>1, Zenon DEF Range
  <2> QED BY <1>0, <1>1, <2>1, <2>2, Zenon
<1>3. \A x \in Writers \ {w} : writer'[x] = writer[x] BY <1>0, Zenon
<1>4. /\ \A id \in used : id <= idSeq
      /\ \A x \in Writers : Range(writer[x].ids) \cap used = {}
      /\ \A x \in Writers : \A y \in Writers \ {x} : Range(writer[x].ids) \cap Range(writer[y].ids) = {}
  <2>1. \A x \in Writers : writer[x].pc # "assigned" => Range(writer[x].ids) = {}
    BY DEF HeldInv, Range
  <2> QED BY <2>1, Zenon DEF Fresh
<1>5. \A id \in used' : id <= idSeq' BY <1>0, <1>4
<1>6. new \notin used /\ \A x \in Writers : new \notin Range(writer[x].ids)
  <2>1. \A id \in Nat : id <= idSeq => id # new BY <1>0
  <2> HIDE DEF new
  <2>2. new \notin used BY <1>0, <1>4, <2>1, Zenon
  <2>3. \A x \in Writers : new \notin Range(writer[x].ids) BY <1>1, <2>1, Zenon
  <2> QED BY <2>2, <2>3, Zenon
<1> HIDE DEF new
<1>7. \A x \in Writers : Range(writer'[x].ids) \cap used' = {}
  BY <1>0, <1>2, <1>3, <1>4, <1>6, ZenonT(30)
<1>8. \A x \in Writers : \A y \in Writers \ {x} : Range(writer'[x].ids) \cap Range(writer'[y].ids) = {}
  BY <1>2, <1>3, <1>4, <1>6
<1> QED BY <1>5, <1>7, <1>8, ZenonT(30) DEF Fresh

\* A writer uses ids it holds, and holds none afterwards.
LEMMA FreshUse ==
  ASSUME TypeOK, BatchInv, Fresh, UNCHANGED idSeq, NEW w \in Writers, writer[w].pc = "assigned",
         NEW U, U \subseteq Range(writer[w].ids), used' = used \cup U,
         writer'[w].ids = <<>>, \A x \in Writers \ {w} : writer'[x] = writer[x]
  PROVE  Fresh'
<1>1. \A id \in Range(writer[w].ids) : id <= idSeq
  BY HeldType, Zenon DEF BatchInv, IsBatch, Range
<1>2. \A id \in used' : id <= idSeq' BY <1>1, Zenon DEF Fresh
<1>3. Range(writer'[w].ids) = {} BY DEF Range
<1>4. ASSUME NEW x \in Writers, writer'[x].pc = "assigned"
      PROVE  /\ Range(writer'[x].ids) \cap used' = {}
             /\ \A y \in Writers \ {x} : Range(writer'[x].ids) \cap Range(writer'[y].ids) = {}
  <2>1. CASE x = w BY <1>3, <2>1, Zenon
  <2>2. CASE x # w
    <3>1. /\ Range(writer[x].ids) \cap used = {}
          /\ \A y \in Writers \ {x} : Range(writer[x].ids) \cap Range(writer[y].ids) = {}
          /\ writer'[x] = writer[x]
      BY <1>4, <2>2, Zenon DEF Fresh
    <3>2. \A y \in Writers \ {x} : Range(writer'[y].ids) \subseteq Range(writer[y].ids)
      BY <1>3, Zenon
    <3> QED BY <2>2, <3>1, <3>2, Zenon
  <2> QED BY <2>1, <2>2, Zenon
<1> QED BY <1>2, <1>4, Zenon DEF Fresh

\* A step that uses no id and gives none out.
LEMMA FreshFrame ==
  ASSUME Fresh, UNCHANGED <<idSeq, used>>,
         \A w \in Writers : writer'[w] = writer[w] \/ writer'[w].ids = <<>>
  PROVE  Fresh'
<1>1. \A w \in Writers : Range(writer'[w].ids) \subseteq Range(writer[w].ids)
  BY DEF Range
<1>2. ASSUME NEW w \in Writers, writer'[w].pc = "assigned"
      PROVE  /\ Range(writer'[w].ids) \cap used = {}
             /\ \A x \in Writers \ {w} : Range(writer'[w].ids) \cap Range(writer'[x].ids) = {}
  <2>1. CASE writer'[w].ids = <<>> BY <2>1 DEF Range
  <2>2. CASE writer'[w] = writer[w] BY <1>1, <1>2, <2>2, Zenon DEF Fresh
  <2> QED BY <2>1, <2>2, Zenon
<1> QED BY <1>2, Zenon DEF Fresh
\* What a manifest says leaves the active segment alone.
LEMMA ActiveKept ==
  ASSUME TypeOK, Layout, manifest # Nil, NEW R, R \subseteq 1..manifest.n,
         NEW Q, Q \subseteq manifest.removals
  PROVE  ApplySwap(disk, temps, R, Q)[active] = disk[active]
<1>1. active \in Segs /\ active \in Nat /\ manifest.n \in Nat /\ manifest.removals \subseteq Nat
  BY FileTypes, Zenon
<1>2. manifest.n < active /\ \A s \in manifest.removals : s < active
  BY Zenon DEF Layout, ManifestInv
<1>3. active \notin R /\ active \notin Q BY <1>1, <1>2
<1> QED BY <1>1, <1>3, Zenon DEF ApplySwap

\* load finds the segment that was active.
LEMMA OpenActive ==
  ASSUME TypeOK, Layout, Open, files # {}
  PROVE  active' = active /\ disk'[active] = disk[active]
<1>1. /\ active \in files /\ files \subseteq Nat /\ active \in Nat
      /\ \A s \in files : s <= active
  BY FileTypes, Zenon DEF Layout, FilesInv
<1>2. active \in RecoveredFiles /\ RecoveredFiles \subseteq Nat /\ \A s \in RecoveredFiles : s <= active
  <2>1. CASE manifest = Nil BY <1>1, <2>1, Zenon DEF RecoveredFiles
  <2>2. CASE manifest # Nil
    <3> DEFINE left == (files \cup Outstanding(temps, manifest.n)) \ manifest.removals
    <3>1. /\ manifest.n \in Nat /\ manifest.n < active /\ manifest.removals \subseteq Nat
          /\ \A s \in manifest.removals : s < active
      BY <2>2, FileTypes, Zenon DEF Layout, ManifestInv
    <3>2. \A s \in Outstanding(temps, manifest.n) : s \in Nat /\ s <= active
      BY <1>1, <3>1 DEF Outstanding
    <3>3. active \in left /\ left \subseteq Nat /\ \A s \in left : s <= active
      <4>1. active \notin manifest.removals BY <1>1, <3>1
      <4> QED BY <1>1, <3>2, <4>1, Zenon
    <3>4. RecoveredFiles = left BY <2>2, <3>3, Zenon DEF RecoveredFiles
    <3> HIDE DEF left
    <3> QED BY <3>3, <3>4, Zenon
  <2> QED BY <2>1, <2>2, Zenon
<1>3. active' \in RecoveredFiles /\ IsTop(active', RecoveredFiles)
  BY Zenon DEF Open
<1>4. active' = active
  <2>1. active' \in Nat /\ active' <= active /\ active <= active'
    BY <1>2, <1>3, Zenon DEF IsTop
  <2> QED BY <1>1, <2>1
<1>5. disk' = RollForward(disk, temps, manifest) BY Zenon DEF Open
<1>6. CASE manifest = Nil BY <1>4, <1>5, <1>6, Zenon DEF RollForward
<1>7. CASE manifest # Nil
  <2>1. Outstanding(temps, manifest.n) \subseteq 1..manifest.n BY Zenon DEF Outstanding
  <2> QED BY <1>4, <1>5, <1>7, <2>1, ActiveKept, Zenon DEF RollForward
<1> QED BY <1>4, <1>6, <1>7, Zenon

\* An append to the active segment writes the ids it uses there.
LEMMA KnownAppend ==
  ASSUME TypeOK, Known, NEW new \in Seq(Entry), disk'[active] = disk[active] \o new,
         UNCHANGED <<metaFile, active>>,
         \A id \in used' : id \in used \/ \E k \in DOMAIN new : id = new[k].id
  PROVE  Known'
<1>1. /\ IdsIn(disk, {active}) \subseteq IdsIn(disk', {active})
      /\ \A k \in DOMAIN new : new[k].id \in IdsIn(disk', {active})
  BY FileTypes, IdsInAppend, Zenon
<1> QED BY <1>1, Zenon DEF Known

\* A step that keeps the active segment and meta.json.
LEMMA KnownFrame ==
  ASSUME Known, UNCHANGED <<metaFile, active, used>>, disk'[active] = disk[active]
  PROVE  Known'
<1>1. IdsIn(disk', {active}) = IdsIn(disk, {active}) BY DEF IdsIn
<1> QED BY <1>1, Zenon DEF Known
\* The entries of a beginning of a batch have its ids.
LEMMA PrefixIds ==
  ASSUME TypeOK, NEW w \in Writers, NEW n \in 0..Len(writer[w].ids), NEW v \in Value
  PROVE  LET ids == SubSeq(writer[w].ids, 1, n)
         IN  /\ Batch(ids, v) \in Seq(Entry) /\ Range(ids) \subseteq Range(writer[w].ids)
             /\ \A id \in Range(ids) : \E k \in DOMAIN Batch(ids, v) : id = Batch(ids, v)[k].id
<1> DEFINE ids == SubSeq(writer[w].ids, 1, n)
           b == Batch(ids, v)
<1>1. /\ writer[w].ids \in Seq(Ids) /\ ids \in Seq(Ids) /\ Len(ids) = n
      /\ \A k \in 1..n : ids[k] = writer[w].ids[k]
  BY HeldType, PrefixType, Zenon
<1>2. b \in Seq(Entry) /\ Len(b) = n /\ \A k \in 1..n : b[k] = NewInsert(ids[k], v)
  BY <1>1, BatchType, Zenon
<1>3. DOMAIN ids = 1..n /\ DOMAIN b = 1..n /\ 1..n \subseteq DOMAIN writer[w].ids
  BY <1>1, <1>2
<1> HIDE DEF ids, b
<1>4. \A k \in 1..n : b[k].id = ids[k] BY <1>2 DEF NewInsert
<1>5. Range(ids) \subseteq Range(writer[w].ids) BY <1>1, <1>3, Zenon DEF Range
<1>6. \A id \in Range(ids) : \E k \in DOMAIN b : id = b[k].id
  BY <1>3, <1>4, Zenon DEF Range
<1> QED BY <1>2, <1>5, <1>6, Zenon DEF ids, b

\* IdInv is inductive relative to the layout and to what writers hold.
LEMMA IdStep ==
  TypeOK /\ BatchInv /\ HeldInv /\ LayoutInv /\ IdInv /\ [Next]_vars => IdInv'
<1> SUFFICES ASSUME TypeOK, BatchInv, HeldInv, LayoutInv, IdInv, [Next]_vars,
                    hist' \subseteq {"trustedAfterCrash"}
             PROVE  Known' /\ FreshIds'
  BY MetaStep, Zenon DEF IdInv
<1>1. CASE UNCHANGED vars
  <2>1. Known /\ FreshIds BY <1>1, Zenon DEF IdInv, vars, ghostVars
  <2> QED BY <1>1, <2>1, KnownFrame, Zenon DEF FreshIds, vars, fileVars, segVars, ghostVars
<1>2. CASE Next
  <2>0. /\ hist \subseteq {"trustedAfterCrash"} /\ Layout /\ Known
        /\ up = "open" => Fresh
    BY <1>2, HistGrows, Zenon DEF IdInv, LayoutInv, Layout, Good, FreshIds, Fresh
  <2>1. writer \in [Writers -> WriterType] /\ disk \in Log /\ active \in Segs
    BY FileTypes, Zenon DEF TypeOK, WriterType
  <2>a. ASSUME up = "open", Known', Fresh' PROVE Known' /\ FreshIds'
    BY <2>a, Zenon DEF FreshIds, Fresh
  <2>b. ASSUME up' # "open", Known' PROVE Known' /\ FreshIds'
    BY <2>b, Zenon DEF FreshIds
  <2>c. up = "open" => linked BY <2>0, Zenon DEF Layout, OpenInv
  <2>2. ASSUME NEW w \in Writers, InsertAssign(w) PROVE Known' /\ FreshIds'
    <3>1. up = "open" /\ UNCHANGED <<metaFile, active, used, disk>>
      BY <2>2, Zenon DEF InsertAssign, fileVars, segVars, ghostVars
    <3> QED BY <2>0, <2>2, <2>a, <3>1, KnownFrame, FreshAssign, Zenon
  <2>3. ASSUME NEW w \in Writers, NEW v \in Value, InsertAppend(w, v) \/ InsertReject(w, v)
        PROVE  Known' /\ FreshIds'
    <3>1. PICK n \in 0..Len(writer[w].ids) : AppendBatch(SubSeq(writer[w].ids, 1, n), v)
      BY <2>3, AppendsPrefix, Zenon
    <3> DEFINE ids == SubSeq(writer[w].ids, 1, n)
               b == Batch(ids, v)
    <3>2. /\ b \in Seq(Entry) /\ Range(ids) \subseteq Range(writer[w].ids)
          /\ \A id \in Range(ids) : \E k \in DOMAIN b : id = b[k].id
      BY PrefixIds, Zenon
    <3>3. up = "open" /\ writer[w].pc = "assigned" BY <2>3, Zenon DEF InsertAppend, InsertReject
    <3>4. /\ disk' = [disk EXCEPT ![active] = @ \o b] /\ used' = used \cup Range(ids)
          /\ UNCHANGED <<metaFile, active, idSeq>>
      BY <2>c, <3>1, <3>3, Zenon DEF AppendBatch, AppendActive
    <3>5. writer'[w].ids = <<>> /\ \A x \in Writers \ {w} : writer'[x] = writer[x]
      BY <2>1, <2>3 DEF InsertAppend, InsertReject, AfterAppend, Idle, Rotating
    <3> HIDE DEF ids, b
    <3>6. Known'
      <4>1. disk'[active] = disk[active] \o b BY <2>1, <3>4, Zenon DEF Log
      <4> QED BY <2>0, <3>2, <3>4, <4>1, KnownAppend, Zenon
    <3>7. Fresh' BY <2>0, <3>2, <3>3, <3>4, <3>5, FreshUse, Zenon
    <3> QED BY <2>a, <3>3, <3>6, <3>7, Zenon
  <2>4. ASSUME NEW new \in Seq(Entry), AppendActive(new), up = "open",
               UNCHANGED <<metaFile, active, used, idSeq>>,
               \A x \in Writers : writer'[x] = writer[x] \/ writer'[x].ids = <<>>
        PROVE  Known' /\ FreshIds'
    <3>1. disk'[active] = disk[active] \o new BY <2>1, <2>4, <2>c, Zenon DEF AppendActive, Log
    <3>2. Known' BY <2>0, <2>4, <3>1, KnownAppend, Zenon
    <3>3. Fresh' BY <2>0, <2>4, FreshFrame, Zenon
    <3> QED BY <2>4, <2>a, <3>2, <3>3, Zenon
  <2>5. ASSUME NEW w \in Writers, NEW id \in Ids, NEW v \in Value, Update(w, id, v)
        PROVE  Known' /\ FreshIds'
    <3>1. NewUpdate(id, v) \in Entry BY Zenon DEF NewUpdate, Entry, Op
    <3>2. \A x \in Writers : writer'[x] = writer[x] \/ writer'[x].ids = <<>>
      BY <2>1, <2>5, Zenon DEF Update, AfterAppend, Idle, Rotating
    <3>3. <<NewUpdate(id, v)>> \in Seq(Entry) BY <3>1
    <3>4. AppendActive(<<NewUpdate(id, v)>>) /\ up = "open" /\ UNCHANGED <<metaFile, active, used, idSeq>>
      BY <2>5, Zenon DEF Update
    <3> QED BY <2>4, <3>2, <3>3, <3>4, ZenonT(30)
  <2>6. ASSUME NEW id \in Ids, Delete(id) PROVE Known' /\ FreshIds'
    <3>1. NewDelete(id) \in Entry BY Zenon DEF NewDelete, Entry, Op
    <3>2. <<NewDelete(id)>> \in Seq(Entry) BY <3>1
    <3>3. /\ AppendActive(<<NewDelete(id)>>) /\ up = "open"
          /\ UNCHANGED <<metaFile, active, used, idSeq, writer>>
      BY <2>6, Zenon DEF Delete
    <3> QED BY <2>4, <3>2, <3>3, Zenon
  <2>7. ASSUME NEW w \in Writers, Rotate(w) PROVE Known' /\ FreshIds'
    <3>1. up = "open" /\ metaFile' = idSeq /\ UNCHANGED <<idSeq, used>> BY <2>7, Zenon DEF Rotate
    <3>2. \A x \in Writers : writer'[x] = writer[x] \/ writer'[x].ids = <<>>
      BY <2>1, <2>7, Zenon DEF Rotate, Idle
    <3>3. Known' BY <2>0, <3>1, Zenon DEF Known, Fresh
    <3>4. Fresh' BY <2>0, <3>1, <3>2, FreshFrame, Zenon
    <3> QED BY <2>a, <3>1, <3>3, <3>4, Zenon
  <2>8. ASSUME up = "open", UNCHANGED <<metaFile, active, used, disk, idSeq, writer>>
        PROVE  Known' /\ FreshIds'
    <3>1. Known' BY <2>0, <2>8, KnownFrame, Zenon
    <3>2. Fresh' BY <2>0, <2>8, FreshFrame, Zenon
    <3> QED BY <2>8, <2>a, <3>1, <3>2, Zenon
  <2>9. CASE \/ CompactSnapshot \/ CompactWrite \/ WriteManifest \/ CompactFails
             \/ PersistIndex \/ PersistIndexFails \/ ClearManifest
    BY <2>8, <2>9, Zenon DEF CompactSnapshot, CompactWrite, WriteManifest, CompactFails, PersistIndex,
       PersistIndexFails, ClearManifest, fileVars, segVars, ghostVars
  <2>10. CASE \E r \in Readers : GetRead(r) \/ \E id \in Ids : GetLocate(r, id)
    BY <2>8, <2>10, Zenon DEF GetRead, GetLocate, fileVars, segVars, ghostVars
  <2>11. CASE Swap
    <3>1. manifest # Nil BY <2>11, ZenonT(30) DEF Swap, TypeOK
    <3>2. /\ up = "open" /\ UNCHANGED <<metaFile, active, used, idSeq, writer>>
          /\ disk' = ApplySwap(disk, temps, 1..manifest.n, manifest.removals)
      BY <2>11, ZenonT(30) DEF Swap, ghostVars
    <3>3. disk'[active] = disk[active] BY <2>0, <3>1, <3>2, ActiveKept, Zenon
    <3>4. Known' BY <2>0, <3>2, <3>3, KnownFrame, Zenon
    <3>5. Fresh' BY <2>0, <3>2, FreshFrame, Zenon
    <3> QED BY <2>a, <3>2, <3>4, <3>5, Zenon
  <2>12. CASE Close
    <3>1. up' = "closed" /\ metaFile' = idSeq /\ used' = used /\ up = "open"
      BY <2>12, Zenon DEF Close, ghostVars
    <3>2. Known' BY <2>0, <3>1, Zenon DEF Known, Fresh
    <3> QED BY <2>b, <3>1, <3>2, Zenon
  <2>13. ASSUME up' = "crashed", UNCHANGED <<metaFile, active, used>>, disk'[active] = disk[active]
         PROVE  Known' /\ FreshIds'
    BY <2>0, <2>13, <2>b, KnownFrame, Zenon
  <2>14. CASE Crash \/ CrashInClose \/ CrashInWrite
    BY <2>13, <2>14, Zenon DEF Crash, CrashInClose, CrashInWrite, Dies, fileVars
  <2>15. CASE CrashInSwap \/ CrashInRecovery
    <3>1. PartialSwap /\ manifest # Nil /\ up' = "crashed" /\ UNCHANGED <<metaFile, active, used>>
      BY <2>15, Zenon DEF CrashInSwap, CrashInRecovery, Dies, TypeOK
    <3>2. PICK R \in SUBSET Outstanding(temps, manifest.n), Q \in SUBSET manifest.removals :
            disk' = ApplySwap(disk, temps, R, Q)
      BY <3>1, Zenon DEF PartialSwap
    <3>3. R \subseteq 1..manifest.n BY <3>2, Zenon DEF Outstanding
    <3>4. disk'[active] = disk[active] BY <2>0, <3>1, <3>2, <3>3, ActiveKept, Zenon
    <3> QED BY <2>13, <3>1, <3>4, Zenon
  <2>16. ASSUME NEW w \in Writers, NEW v \in Value, CrashInAppend(w, v) PROVE Known' /\ FreshIds'
    <3>1. PICK n \in 1..(Len(writer[w].ids) - 1) :
            LET ids == SubSeq(writer[w].ids, 1, n)
            IN  /\ disk' = [disk EXCEPT ![active] = @ \o Batch(ids, v)]
                /\ used' = used \cup Range(ids)
      BY <2>16, Zenon DEF CrashInAppend
    <3>2. n \in 0..Len(writer[w].ids) BY HeldType
    <3> DEFINE ids == SubSeq(writer[w].ids, 1, n)
               b == Batch(ids, v)
    <3>3. /\ b \in Seq(Entry)
          /\ \A id \in Range(ids) : \E k \in DOMAIN b : id = b[k].id
      BY <3>2, PrefixIds, Zenon
    <3>4. disk' = [disk EXCEPT ![active] = @ \o b] /\ used' = used \cup Range(ids) BY <3>1, Zenon
    <3>5. up' = "crashed" /\ UNCHANGED <<metaFile, active>> BY <2>16, Zenon DEF CrashInAppend, Dies
    <3> HIDE DEF ids, b
    <3>6. disk'[active] = disk[active] \o b BY <2>1, <3>4, Zenon DEF Log
    <3>7. Known' BY <2>0, <3>3, <3>4, <3>5, <3>6, KnownAppend, ZenonT(30)
    <3> QED BY <2>b, <3>5, <3>7, Zenon
  <2>17. ASSUME NEW w \in Writers, CrashInRotate(w) PROVE Known' /\ FreshIds'
    BY <2>17, Zenon DEF CrashInRotate
  <2>18. CASE Open
    <3>1. /\ up # "open" /\ up' = "open" /\ UNCHANGED <<used, writer>>
          /\ disk' = RollForward(disk, temps, manifest)
          /\ \E top \in 0..MaxId : /\ IsTop(top, CounterFloor(disk', active', index'))
                                   /\ idSeq' = top
          /\ metaFile' = IF metaFile = Nil THEN idSeq' ELSE metaFile
      BY <2>18, Zenon DEF Open
    <3>2. \A x \in Writers : Range(writer'[x].ids) = {}
      BY <3>1 DEF BatchInv, Range
    <3>3. CASE metaFile = Nil
      <4>1. used' = {} BY <3>1, <3>3, Zenon DEF IdInv, MetaInv
      <4> QED BY <3>2, <4>1, ZenonT(30) DEF Known, FreshIds
    <3>4. CASE metaFile # Nil
      <4>1. \A id \in used : id <= metaFile \/ id \in IdsIn(disk, {active})
        BY <2>0, <3>4, Zenon DEF Known
      <4>2. ASSUME NEW id \in IdsIn(disk, {active}) PROVE id \in IdsIn(disk', {active'})
        <5>1. disk[active] # <<>> BY <4>2 DEF IdsIn
        <5>2. files # {} BY <2>0, <2>1, <5>1, Zenon DEF Layout, FilesInv
        <5>3. active' = active /\ disk'[active] = disk[active] BY <2>0, <2>18, <5>2, OpenActive, Zenon
        <5> QED BY <4>2, <5>3 DEF IdsIn
      <4>3. IsTop(idSeq', IdsIn(disk', {active'}) \cup {metaFile})
        BY <3>1, <3>4, Zenon DEF CounterFloor
      <4>4. \A id \in used' : id <= idSeq'
        <5> TAKE id \in used'
        <5>1. CASE id <= metaFile
          <6>1. id \in Nat /\ metaFile \in Nat /\ idSeq' \in Nat
            BY <3>1, <3>4 DEF TypeOK, Ids
          <6>2. metaFile <= idSeq' BY <4>3, Zenon DEF IsTop
          <6> QED BY <5>1, <6>1, <6>2
        <5>2. CASE id \in IdsIn(disk, {active})
          BY <4>2, <4>3, <5>2, Zenon DEF IsTop
        <5> QED BY <3>1, <4>1, <5>1, <5>2, Zenon
      <4>5. Known' BY <3>1, <3>4, <4>1, <4>2, Zenon DEF Known
      <4> QED BY <3>2, <4>4, <4>5, ZenonT(30) DEF FreshIds
    <3> QED BY <3>3, <3>4, Zenon
  <2> QED BY ZenonT(30), <1>2, <2>2, <2>3, <2>5, <2>6, <2>7, <2>9, <2>10, <2>11, <2>12, <2>14, <2>15, <2>16,
             <2>17, <2>18 DEF Next, Compaction
<1> QED BY <1>1, <1>2, Zenon

\* The counter that load restores and inserts draw from: no insert is given an
\* id that was used or that another insert holds, across crashes and reopens,
\* for any number of writers, batches and crashes.
THEOREM FreshIdsHold == Spec => []FreshIds
<1>1. Init => HeldInv /\ IdInv
  BY DEF Init, HeldInv, IdInv, MetaInv, Known, FreshIds, Idle
<1>2. FreshIds \/ ~(hist \subseteq {"trustedAfterCrash"}) => FreshIds BY Zenon DEF FreshIds
<1>3. IdInv => FreshIds BY <1>2, Zenon DEF IdInv
<1> QED BY <1>1, <1>3, HeldStep, IdStep, LayoutInvariant, BatchInvariant, TypeInvariant, PTL DEF Spec

-----------------------------------------------------------------------------
(* The primary index.                                                      *)

\* The sealed segments and then the active one is a replay of the whole log.
LEMMA ReplayExact ==
  ASSUME NEW d \in Log, NEW q \in Seq(Segs), NEW a \in Segs, NEW F \in SUBSET Segs,
         a \in F, IsSorted(q, F \ {a}), \A s \in F : s <= a,
         \A s \in Segs : s \notin F => d[s] = <<>>,
         NEW m \in [Ids -> Entry \cup {Nil}], Means(d, m)
  PROVE  Exact(Rebuild(d, Append(q, a)), d, m)
<1> DEFINE L == Append(q, a)
           n == Len(q)
<1>0. n \in Nat /\ DOMAIN q = 1..n OBVIOUS
<1>1. /\ L \in Seq(Segs) /\ n \in Nat /\ DOMAIN q = 1..n /\ DOMAIN L = 1..(n + 1)
      /\ L[n + 1] = a /\ \A k \in 1..n : L[k] = q[k]
  BY <1>0
<1>2. Range(q) = F \ {a} /\ \A k, l \in 1..n : k < l => q[k] < q[l]
  BY <1>1, Zenon DEF IsSorted
<1>3. \A s \in Segs : s \in Nat BY Bounds DEF Segs
<1>4. \A k \in 1..n : q[k] \in F /\ q[k] < a
  <2>1. \A k \in 1..n : q[k] \in F /\ q[k] # a BY <1>1, <1>2, Zenon DEF Range
  <2> QED BY <1>3, <2>1
<1> HIDE DEF L, n
<1>5. ASSUME NEW k \in DOMAIN L, NEW l \in DOMAIN L, k < l PROVE L[k] < L[l]
  <2>1. k \in 1..n BY <1>1, <1>5
  <2>2. l \in 1..n \/ l = n + 1 BY <1>1
  <2> QED BY <1>1, <1>2, <1>4, <1>5, <2>1, <2>2, Zenon
<1>6. ASSUME NEW s \in Segs, d[s] # <<>> PROVE \E k \in DOMAIN L : L[k] = s
  <2>1. s \in F BY <1>6, Zenon
  <2>2. CASE s = a
    <3>1. n + 1 \in DOMAIN L BY <1>1
    <3> QED BY <1>1, <2>2, <3>1, Zenon
  <2>3. CASE s # a
    <3>1. s \in Range(q) BY <1>2, <2>1, <2>3, Zenon
    <3>2. PICK k \in DOMAIN q : q[k] = s BY <3>1, Zenon DEF Range
    <3>3. k \in DOMAIN L BY <1>1
    <3> QED BY <1>1, <3>2, <3>3, Zenon
  <2> QED BY <2>2, <2>3, Zenon
<1>7. ASSUME NEW id \in Ids
      PROVE  LET loc == Rebuild(d, L)[id]
             IN  IF loc = Nil THEN m[id] = Nil
                 ELSE loc.off \in DOMAIN d[loc.seg] /\ d[loc.seg][loc.off] = m[id]
  <2>1. /\ L \in Seq(Segs) /\ \A k, l \in DOMAIN L : k < l => L[k] < L[l]
        /\ \A s \in Segs : d[s] # <<>> => \E k \in DOMAIN L : L[k] = s
    BY <1>1, <1>5, <1>6, Zenon
  <2> QED BY <2>1, RebuildLocates, ZenonT(30)
<1>8. Exact(Rebuild(d, L), d, m) BY <1>7, Zenon DEF Exact
<1> QED BY <1>8, ZenonT(30) DEF L

\* Where an appended entry is.
LEMMA EntryArrives ==
  ASSUME NEW s \in Seq(Entry), NEW t \in Seq(Entry), NEW k \in 1..Len(t)
  PROVE  Len(s) + k \in Nat /\ Len(s) + k \in DOMAIN (s \o t) /\ (s \o t)[Len(s) + k] = t[k]
<1>1. Len(s) \in Nat /\ Len(t) \in Nat /\ Len(s \o t) = Len(s) + Len(t) OBVIOUS
<1> QED BY <1>1

\* A location in the index.
LEMMA LocAt ==
  ASSUME NEW a \in Segs, NEW n \in Nat, NEW loc, loc = [seg |-> a, off |-> n]
  PROVE  loc # Nil /\ loc.seg = a /\ loc.off = n
<1>1. loc \in Loc /\ loc.seg = a /\ loc.off = n BY Zenon DEF Loc
<1> QED BY <1>1, NilAssumption, Zenon

\* A write that points the index at the entries it appends keeps it exact.
LEMMA ExactAppend ==
  ASSUME NEW d \in Log, NEW a \in Segs, NEW new \in Seq(Entry), NEW e \in Log,
         IsAppend(d, e, a, new),
         NEW idx \in [Ids -> Loc \cup {Nil}], NEW idx2, NEW m, NEW m2,
         Exact(idx, d, m), Writes(new, a, Len(d[a]), idx, m, idx2, m2)
  PROVE  Exact(idx2, e, m2)
<1>1. e \in Log /\ d[a] \in Seq(Entry) /\ e[a] = d[a] \o new /\ \A s \in Segs : s # a => e[s] = d[s]
  BY Zenon DEF Log, IsAppend
<1> SUFFICES ASSUME NEW id \in Ids
             PROVE  IF idx2[id] = Nil THEN m2[id] = Nil
                    ELSE /\ idx2[id].off \in DOMAIN e[idx2[id].seg]
                         /\ e[idx2[id].seg][idx2[id].off] = m2[id]
  BY ZenonT(30) DEF Exact
<1>2. CASE idx2[id] = idx[id] /\ m2[id] = m[id]
  <2>1. CASE idx[id] = Nil BY <1>2, <2>1, ZenonT(30) DEF Exact
  <2>2. CASE idx[id] # Nil
    <3>1. idx[id].seg \in Segs /\ idx[id].off \in DOMAIN d[idx[id].seg]
          /\ d[idx[id].seg][idx[id].off] = m[id]
      BY <2>2, ZenonT(30) DEF Exact, Loc
    <3>2. /\ idx[id].off \in DOMAIN e[idx[id].seg]
          /\ e[idx[id].seg][idx[id].off] = d[idx[id].seg][idx[id].off]
      BY <1>1, <3>1, EntryStays, ZenonT(30)
    <3> QED BY <1>2, <2>2, <3>1, <3>2, ZenonT(30)
  <2> QED BY <2>1, <2>2, ZenonT(30)
<1>3. CASE idx2[id] = Nil /\ m2[id] = Nil BY <1>3, ZenonT(30)
<1>4. ASSUME NEW k \in 1..Len(new), idx2[id] = [seg |-> a, off |-> Len(d[a]) + k],
             m2[id] = new[k]
      PROVE  IF idx2[id] = Nil THEN m2[id] = Nil
             ELSE /\ idx2[id].off \in DOMAIN e[idx2[id].seg]
                  /\ e[idx2[id].seg][idx2[id].off] = m2[id]
  <2>1. /\ Len(d[a]) + k \in Nat /\ Len(d[a]) + k \in DOMAIN (d[a] \o new)
        /\ (d[a] \o new)[Len(d[a]) + k] = new[k]
    BY <1>1, EntryArrives, Zenon
  <2>2. idx2[id] # Nil /\ idx2[id].seg = a /\ idx2[id].off = Len(d[a]) + k
    <3>1. PICK o \in Nat : o = Len(d[a]) + k BY <2>1, Zenon
    <3>2. idx2[id] = [seg |-> a, off |-> o] BY <1>4, <3>1, Zenon
    <3>3. idx2[id] # Nil /\ idx2[id].seg = a /\ idx2[id].off = o BY <3>2, LocAt
    <3> QED BY <3>1, <3>3, Zenon
  <2> QED BY <1>1, <1>4, <2>1, <2>2, ZenonT(30)
<1> QED BY <1>2, <1>3, <1>4, Zenon DEF Writes

\* Every write keeps the index exact.
LEMMA WriteExact ==
  ASSUME disk \in Log, active \in Segs, index \in [Ids -> Loc \cup {Nil}],
         NEW new \in Seq(Entry), IsWriteOf(new), Exact(index, disk, kv)
  PROVE  Exact(index', disk', kv')
<1>1. disk' \in Log /\ IsAppend(disk, disk', active, new)
  BY AppendType, Zenon DEF IsWriteOf, IsAppend, Log
<1>2. Writes(new, active, Len(disk[active]), index, kv, index', kv')
  BY Zenon DEF IsWriteOf
<1> QED BY <1>1, <1>2, ExactAppend, ZenonT(30)

\* An index rebuilt from the files of an open collection is exact.
LEMMA RebuildExact ==
  ASSUME TypeOK', FilesInv', OpenInv', up' = "open", Means(disk', kv'),
         index' = Rebuild(disk', Append(sealed', active'))
  PROVE  Exact(index', disk', kv')
<1>1. /\ disk' \in Log /\ sealed' \in Seq(Segs) /\ active' \in Segs
      /\ files' \in SUBSET Segs /\ kv' \in [Ids -> Entry \cup {Nil}]
  BY ZenonT(30) DEF TypeOK, Log
<1>2. /\ files' # {} /\ IsSorted(sealed', files' \ {active'})
      /\ \A s \in Segs : s \notin files' => disk'[s] = <<>>
      /\ files' # {} => active' \in files' /\ \A s \in files' : s <= active'
  BY ZenonT(30) DEF OpenInv, FilesInv, IsSorted
<1> QED BY <1>1, <1>2, ReplayExact, ZenonT(30)

\* IndexInv is inductive relative to the layout and to the log's meaning.
LEMMA IndexStep ==
  TypeOK /\ TypeOK' /\ BatchInv /\ LayoutInv /\ LayoutInv' /\ DurableLog' /\ IndexInv
    /\ [Next]_vars => IndexInv'
<1> SUFFICES ASSUME TypeOK, TypeOK', BatchInv, LayoutInv, LayoutInv', DurableLog', IndexInv,
                    [Next]_vars, hist' \subseteq {"crashInRotate"}
             PROVE  /\ up' = "open" => Exact(index', disk', kv')
                    /\ up' = "closed" => indexFile' = Nil \/ Exact(indexFile', disk', kv')
  BY Zenon DEF IndexInv
<1>1. CASE UNCHANGED vars
  <2>1. UNCHANGED <<up, index, disk, kv, indexFile, hist>>
    BY <1>1, Zenon DEF vars, fileVars, ghostVars
  <2> QED BY <2>1, Zenon DEF IndexInv
<1>2. CASE Next
  <2>0. /\ hist \subseteq {"crashInRotate"} /\ Layout /\ Layout' /\ Means(Recovered', kv')
        /\ up = "open" => Exact(index, disk, kv)
        /\ up = "closed" => indexFile = Nil \/ Exact(indexFile, disk, kv)
    BY <1>2, HistGrows, Zenon DEF IndexInv, LayoutInv, Layout, Good, DurableLog, Recovered
  <2>1. /\ disk \in Log /\ active \in Segs /\ index \in [Ids -> Loc \cup {Nil}]
        /\ kv \in [Ids -> Entry \cup {Nil}]
    BY FileTypes, Zenon DEF TypeOK
  <2>a. ASSUME up' = "open", Exact(index', disk', kv')
        PROVE  /\ up' = "open" => Exact(index', disk', kv')
               /\ up' = "closed" => indexFile' = Nil \/ Exact(indexFile', disk', kv')
    BY <2>a, Zenon
  <2>2. ASSUME up = "open", UNCHANGED <<up, index, disk, kv>>
        PROVE  /\ up' = "open" => Exact(index', disk', kv')
               /\ up' = "closed" => indexFile' = Nil \/ Exact(indexFile', disk', kv')
    BY <2>0, <2>2, <2>a, Zenon
  <2>3. ASSUME NEW w \in Writers, InsertAssign(w) \/ Rotate(w)
        PROVE  /\ up' = "open" => Exact(index', disk', kv')
               /\ up' = "closed" => indexFile' = Nil \/ Exact(indexFile', disk', kv')
    BY <2>2, <2>3, Zenon DEF InsertAssign, Rotate, fileVars, ghostVars
  <2>4. CASE IsWrite
    <3>1. PICK new \in Seq(Entry) : IsWriteOf(new)
      BY <2>0, <2>4, EveryWrite, Zenon DEF Layout
    <3>2. up = "open" /\ up' = up BY <2>0, <2>4, EveryWrite, Zenon DEF Layout
    <3>3. Exact(index, disk, kv) BY <2>0, <3>2, Zenon
    <3>4. Exact(index', disk', kv') BY <2>1, <3>1, <3>3, WriteExact, Zenon
    <3> QED BY <2>a, <3>2, <3>4, Zenon
  <2>8. CASE \/ CompactSnapshot \/ CompactWrite \/ WriteManifest \/ CompactFails
             \/ PersistIndex \/ PersistIndexFails \/ ClearManifest
    BY <2>2, <2>8, ZenonT(30) DEF CompactSnapshot, CompactWrite, WriteManifest, CompactFails, PersistIndex,
       PersistIndexFails, ClearManifest, fileVars, ghostVars
  <2>9. CASE \E r \in Readers : GetRead(r) \/ \E id \in Ids : GetLocate(r, id)
    BY <2>2, <2>9, Zenon DEF GetRead, GetLocate, fileVars, ghostVars
  <2>10. ASSUME up' = "open", index' = Rebuild(disk', Append(sealed', active')), Means(disk', kv')
         PROVE  /\ up' = "open" => Exact(index', disk', kv')
                /\ up' = "closed" => indexFile' = Nil \/ Exact(indexFile', disk', kv')
    <3>1. Exact(index', disk', kv') BY <2>0, <2>10, RebuildExact, Zenon DEF Layout
    <3> QED BY <2>10, <2>a, <3>1, Zenon
  <2>11. CASE Swap
    <3>1. /\ up' = "open" /\ pass' = "swapped" /\ index' = Rebuild(disk', Append(sealed', active'))
          /\ manifest' = manifest
      BY <2>11, Zenon DEF Swap
    <3>2. temps' = EmptyLog /\ manifest'.removals \cap files' = {}
          /\ \A s \in Segs : s \notin files' => disk'[s] = <<>>
      BY <2>0, <3>1, ZenonT(30) DEF Layout, PassInv, FilesInv
    <3>3. disk' \in Log /\ (manifest # Nil => manifest.n \in Nat /\ manifest.n <= MaxSeg)
      BY FileTypes, ZenonT(30) DEF TypeOK, Log
    <3>4. \A s \in Segs : s \in manifest'.removals => disk'[s] = <<>> BY <3>2, Zenon
    <3>5. Recovered' = disk' BY <3>1, <3>2, <3>3, <3>4, RollForwardDone, ZenonT(30) DEF Recovered
    <3> QED BY <2>0, <2>10, <3>1, <3>5, Zenon
  <2>12. CASE Close
    BY <2>0, <2>12, Zenon DEF Close, ghostVars
  <2>13. CASE Open
    <3>1. /\ up # "open" /\ up' = "open" /\ disk' = RollForward(disk, temps, manifest)
          /\ manifest' = Nil /\ kv' = kv
          /\ index' = IF MustRebuild(disk') THEN Rebuild(disk', Append(sealed', active'))
                      ELSE indexFile
          /\ hist' = IF up = "crashed" /\ ~ MustRebuild(disk')
                     THEN hist \cup {"trustedAfterCrash"} ELSE hist
      BY <2>13, ZenonT(30) DEF Open
    <3>2. CASE MustRebuild(disk')
      <4>1. Means(disk', kv') BY <2>0, <3>1, Zenon DEF Recovered, RollForward
      <4> QED BY <2>10, <3>1, <3>2, <4>1, Zenon
    <3>3. CASE ~ MustRebuild(disk')
      <4>1. up # "crashed" BY <3>1, <3>3, Zenon
      <4>2. up = "closed" BY <3>1, <4>1, ZenonT(30) DEF TypeOK
      <4>3. manifest = Nil /\ indexFile # Nil BY <3>3, Zenon DEF MustRebuild
      <4>4. disk' = disk /\ index' = indexFile BY <3>1, <3>3, <4>3, Zenon DEF RollForward
      <4>5. Exact(index', disk', kv') BY <2>0, <3>1, <4>2, <4>3, <4>4, Zenon
      <4> QED BY <2>a, <3>1, <4>5, Zenon
    <3> QED BY <3>2, <3>3, Zenon
  <2>14. CASE Dies BY <2>14, Zenon DEF Dies
  <2>15. ASSUME \/ \E w \in Writers : \/ CrashInRotate(w)
                                       \/ \E v \in Value : CrashInAppend(w, v)
                \/ Crash \/ CrashInClose \/ CrashInWrite \/ CrashInSwap
                \/ CrashInRecovery
         PROVE  Dies
    BY <2>15, Zenon DEF CrashInRotate, CrashInAppend, Crash, CrashInClose, CrashInWrite,
           CrashInSwap, CrashInRecovery
  <2> QED BY <1>2, <2>3, <2>4, <2>8, <2>9, <2>11, <2>12, <2>13, <2>14, <2>15, ZenonT(30)
          DEF Next, Compaction, IsWrite
<1> QED BY <1>1, <1>2, Zenon

\* The index in memory, and the one a clean shutdown leaves, point at exactly
\* the records written, for every number of writers, segments and crashes.
THEOREM IndexInvariant == Spec => []IndexInv
<1>1. Init => IndexInv BY Zenon DEF Init, IndexInv
<1> QED BY <1>1, IndexStep, DurableLogHolds, LayoutInvariant, BatchInvariant, TypeInvariant, PTL
        DEF Spec

\* What an open collection serves is what was written.
LEMMA ViewExact ==
  ASSUME TypeOK, Exact(index, disk, kv), NEW id \in Ids
  PROVE  View(id) = kv[id]
BY Zenon DEF Exact, View

\* An open collection serves exactly the records written, whatever rotations,
\* compaction swaps, clean shutdowns and recoveries came before (compact, Close,
\* load and the writers keep the primary index in step with the log).
THEOREM ReadsSeeCommitsHold == Spec => []ReadsSeeCommits
<1>1. TypeOK /\ IndexInv => ReadsSeeCommits
  BY ViewExact, Zenon DEF IndexInv, ReadsSeeCommits
<1> QED BY <1>1, IndexInvariant, TypeInvariant, PTL

-----------------------------------------------------------------------------
(* A failed write of index.json.                                           *)

\* A step that stays calm is no crash, and starts calm.
LEMMA CalmBefore ==
  ASSUME TypeOK, Next, Calm'
  PROVE  Calm /\ ~ Dies
<1>1. ~ Dies
  <2>1. crashes \in 0..MaxCrashes /\ MaxCrashes \in Nat BY CollectionAssumption, Zenon DEF TypeOK
  <2>2. Dies => crashes' = crashes + 1 BY Zenon DEF Dies
  <2>3. crashes' = 0 BY Zenon DEF Calm
  <2> QED BY ONLY <2>1, <2>2, <2>3
<1>2. ASSUME NEW w \in Writers, NEW v \in Value,
             InsertAppend(w, v) \/ InsertReject(w, v) PROVE crashes' = crashes
  BY <1>2, ZenonT(30) DEF InsertAppend, InsertReject, AppendBatch
<1>3. crashes' = crashes
  BY ZenonT(60), <1>1, <1>2 DEF Next, Compaction, InsertAssign, Update, Delete, Rotate,
         CompactSnapshot, CompactWrite, WriteManifest, CompactFails, Swap,
         PersistIndex, PersistIndexFails, ClearManifest, GetLocate, GetRead,
         Close, Crash, CrashInClose, CrashInAppend, CrashInRotate, CrashInWrite,
         CrashInSwap, CrashInRecovery, Open, ghostVars
<1> QED BY <1>1, <1>3, HistGrows, Zenon DEF Calm

\* Between the manifest and the swap, the layout is the usual one.
LEMMA CalmLogged ==
  ASSUME TypeOK, CalmFiles, pass = "logged"
  PROVE  /\ Layout /\ up = "open" /\ ntemps < active
         /\ manifest.n = ntemps /\ manifest.removals = Range(sealed) \ (1..ntemps)
<1>1. up = "open" /\ manifest # Nil BY Zenon DEF TypeOK
<1>2. /\ FilesInv /\ OpenInv /\ toCompact = sealed /\ ntemps < active
      /\ manifest = [n |-> ntemps, removals |-> Range(sealed) \ (1..ntemps)]
      /\ \A k \in Segs : temps[k] # <<>> <=> k <= ntemps
  BY Zenon DEF CalmFiles
<1>3. manifest.n = ntemps /\ manifest.removals = Range(sealed) \ (1..ntemps)
  BY <1>2, Zenon
<1>4. \A s \in manifest.removals : s < active
  <2>1. \A p \in DOMAIN sealed : sealed[p] < active BY <1>1, <1>2, SealedBelow, Zenon
  <2> QED BY <1>3, <2>1, Zenon DEF Range
<1>5. ManifestInv
  <2>1. (1..manifest.n) \cap manifest.removals = {} BY <1>3, Zenon
  <2>2. up # "closed" /\ files # {} BY <1>1, <1>2, Zenon DEF OpenInv
  <2> QED BY <1>2, <1>3, <1>4, <2>1, <2>2, Zenon DEF ManifestInv
<1>6. PassInv BY <1>1, <1>2, Zenon DEF PassInv
<1> QED BY <1>1, <1>2, <1>3, <1>5, <1>6, Zenon DEF Layout

\* A manifest left behind changes nothing at the next open.
LEMMA CalmRecovery ==
  ASSUME TypeOK, CalmFiles, up # "open"
  PROVE  /\ up = "closed" /\ pass = "idle"
         /\ RollForward(disk, temps, manifest) = disk
         /\ RecoveredFiles = IF files = {} THEN {1} ELSE files
<1>1. up = "closed" /\ pass = "idle" /\ temps = EmptyLog
  BY Zenon DEF CalmFiles, TypeOK
<1>2. /\ manifest # Nil => manifest.removals \cap files = {}
      /\ \A s \in Segs : s \notin files => disk[s] = <<>>
  BY <1>1, Zenon DEF CalmFiles, FilesInv
<1>3. disk \in Log /\ (manifest # Nil => manifest.n \in Nat /\ manifest.n <= MaxSeg)
  BY FileTypes, Zenon
<1>4. manifest # Nil => \A s \in Segs : s \in manifest.removals => disk[s] = <<>>
  BY <1>2, Zenon
<1>5. RollForward(disk, EmptyLog, manifest) = disk
  BY <1>3, <1>4, RollForwardDone, Zenon
<1>6. manifest # Nil => Outstanding(EmptyLog, manifest.n) = {}
  <2>1. manifest # Nil => \A k \in 1..manifest.n : k \in Segs BY <1>3, Bounds DEF Segs
  <2> QED BY <2>1, Zenon DEF Outstanding, EmptyLog
<1>7. manifest # Nil => (files \cup Outstanding(temps, manifest.n)) \ manifest.removals = files
  BY <1>1, <1>2, <1>6, Zenon
<1>8. RecoveredFiles = IF files = {} THEN {1} ELSE files
  BY <1>7, Zenon DEF RecoveredFiles
<1> QED BY <1>1, <1>5, <1>8, Zenon

\* load keeps the files and lists them.
LEMMA CalmOpen ==
  ASSUME TypeOK, TypeOK', CalmFiles, Open
  PROVE  CalmFiles' /\ disk' = disk
<1>1. /\ up # "open" /\ up' = "open" /\ disk' = RollForward(disk, temps, manifest)
      /\ files' = RecoveredFiles /\ temps' = EmptyLog /\ manifest' = Nil
      /\ asize' = Len(disk'[active']) /\ linked' = TRUE /\ pass' = pass
  BY Zenon DEF Open, passVars
<1>2. active' \in files' /\ IsTop(active', files') BY Zenon DEF Open
<1>3. IsSorted(sealed', files' \ {active'}) BY ZenonT(30) DEF Open
<1>4. /\ pass = "idle" /\ disk' = disk
      /\ files' = IF files = {} THEN {1} ELSE files
  BY <1>1, CalmRecovery, Zenon
<1>5. FilesInv'
  <2>1. \A s \in Segs : s \notin files' => disk'[s] = <<>>
    BY <1>4, Zenon DEF CalmFiles, FilesInv
  <2>2. \A s \in files' : s <= active' BY <1>2, Zenon DEF IsTop
  <2> QED BY <1>2, <2>1, <2>2, Zenon DEF FilesInv
<1>6. OpenInv' BY <1>1, <1>2, <1>3, Zenon DEF OpenInv, IsSorted
<1> QED BY <1>1, <1>4, <1>5, <1>6, Zenon DEF CalmFiles

\* CalmFiles is kept by every step that stays calm.
LEMMA CalmFilesStep ==
  ASSUME TypeOK, TypeOK', BatchInv, CalmFiles, Next, Calm'
  PROVE  CalmFiles'
<1>0. Calm /\ ~ Dies BY CalmBefore, Zenon
<1>1. ASSUME UNCHANGED LayoutVars PROVE CalmFiles'
  BY <1>1, Zenon DEF CalmFiles, LayoutVars, segVars, passVars, FilesInv, OpenInv, IsSorted
<1>2. CASE IsWrite
  <2>1. /\ up = "open" /\ FilesInv /\ OpenInv
        /\ UNCHANGED <<files, temps, manifest, up, sealed, active, linked, passVars>>
    BY <1>2, EveryWrite, Zenon DEF CalmFiles
  <2>2. PICK new \in Seq(Entry) : AppendActive(new)
    BY <1>2, <2>1, EveryWrite, Zenon DEF IsWriteOf
  <2>3. FilesInv' /\ OpenInv' BY <2>1, <2>2, OpenAppend, Zenon
  <2> QED BY <2>1, <2>3, ZenonT(30) DEF CalmFiles, passVars
<1>3. ASSUME NEW w \in Writers, Rotate(w) PROVE CalmFiles'
  <2>1. /\ up = "open" /\ pass \notin {"snap", "written", "logged"}
        /\ UNCHANGED <<disk, temps, manifest, up, passVars>>
    BY <1>3, Zenon DEF Rotate, Calm
  <2>2. /\ FilesInv' /\ OpenInv' /\ active' > active
        /\ active' \notin files /\ files' = files \cup {active'}
    BY <1>3, OpenRotate, Zenon DEF CalmFiles
  <2>3. active \in Nat /\ active' \in Nat
    <3>1. active' \in Segs BY Zenon DEF TypeOK
    <3> QED BY <3>1, FileTypes, Zenon
  <2>4. manifest # Nil => /\ manifest.removals \cap files = {}
                          /\ manifest.removals \subseteq Nat
                          /\ \A s \in manifest.removals : s < active
    BY <2>1, FileTypes, Zenon DEF CalmFiles
  <2>5. manifest # Nil => /\ \A s \in manifest.removals : s < active' /\ s # active'
    BY ONLY <2>2, <2>3, <2>4
  <2>6. manifest' # Nil => /\ manifest'.removals \cap files' = {}
                           /\ \A s \in manifest'.removals : s < active'
    BY <2>1, <2>2, <2>4, <2>5, Zenon
  <2> QED BY <2>1, <2>2, <2>6, ZenonT(30) DEF CalmFiles, passVars
<1>4. CASE CompactSnapshot
  BY <1>4, ZenonT(30) DEF CompactSnapshot, CalmFiles, FilesInv, OpenInv, IsSorted, fileVars, segVars
<1>5. CASE CompactWrite
  <2>1. up = "open" /\ pass = "snap" /\ pass' = "written" /\ temps = EmptyLog
    BY <1>5, Zenon DEF CompactWrite, CalmFiles
  <2>2. PICK ord \in MapOrders(resolveEntries(disk, toCompact)) :
             \E cut \in Cuts(EmptyLog, ord) :
               temps' = writeCompacted(EmptyLog, ord, cut) /\ ntemps' = Len(cut)
    BY <1>5, <2>1, Zenon DEF CompactWrite
  <2>3. PICK cut \in Cuts(EmptyLog, ord) :
               temps' = writeCompacted(EmptyLog, ord, cut) /\ ntemps' = Len(cut)
    BY <2>2, Zenon
  <2>4. ord \in Seq(Entry) BY MapOrdersType, ZenonT(30) DEF TypeOK, Log
  <2>5. \A k \in Segs : temps'[k] # <<>> <=> k <= ntemps'
    BY <2>3, <2>4, FreshCut, ZenonT(30) DEF EmptyLog
  <2>6. UNCHANGED <<disk, files, manifest, up, segVars, toCompact>> BY <1>5, Zenon DEF CompactWrite
  <2> QED BY <2>1, <2>5, <2>6, ZenonT(30) DEF CalmFiles, FilesInv, OpenInv, IsSorted, segVars
<1>6. CASE WriteManifest
  <2>1. /\ up = "open" /\ pass = "written" /\ pass' = "logged"
        /\ manifest' = [n |-> ntemps, removals |-> Range(toCompact) \ (1..ntemps)]
        /\ active \notin 1..ntemps
        /\ UNCHANGED <<disk, files, temps, up, segVars, toCompact, ntemps>>
    BY <1>6, Zenon DEF WriteManifest, Calm
  <2>2. ntemps \in Nat /\ active \in Nat /\ active >= 1 BY FileTypes, Zenon
  <2>3. ntemps < active BY <2>1, <2>2
  <2> QED BY <2>1, <2>3, ZenonT(30) DEF CalmFiles, FilesInv, OpenInv, IsSorted, segVars
<1>7. CASE CompactFails BY <1>7, Zenon DEF CompactFails, Calm
<1>8. CASE Swap
  <2>1. pass = "logged" /\ up = "open" /\ pass' = "swapped" /\ up' = "open" /\ manifest # Nil
        /\ manifest' = manifest
    BY <1>8, ZenonT(30) DEF Swap, TypeOK
  <2>2. Layout' BY <1>8, <2>1, CalmLogged, LayoutSwap, Zenon
  <2> QED BY <2>1, <2>2, ZenonT(30) DEF Layout, ManifestInv, PassInv, CalmFiles
<1>9. CASE PersistIndex
  BY <1>9, ZenonT(30) DEF PersistIndex, CalmFiles, FilesInv, OpenInv, IsSorted, segVars
<1>10. CASE PersistIndexFails
  BY <1>10, ZenonT(30) DEF PersistIndexFails, CalmFiles, FilesInv, OpenInv, IsSorted, fileVars, segVars
<1>11. CASE ClearManifest
  BY <1>11, ZenonT(30) DEF ClearManifest, CalmFiles, FilesInv, OpenInv, IsSorted, segVars
<1>12. CASE Close
  <2>1. /\ up = "open" /\ pass = "idle" /\ up' = "closed" /\ pass' = "idle"
        /\ UNCHANGED <<disk, files, temps, manifest, active>>
    BY <1>12, Zenon DEF Close, MemoryLost
  <2> QED BY <2>1, ZenonT(30) DEF CalmFiles, FilesInv, OpenInv
<1>13. CASE Open BY <1>13, CalmOpen, Zenon
<1>14. ASSUME \/ \E w \in Writers : InsertAssign(w)
              \/ \E r \in Readers : GetRead(r) \/ \E id \in Ids : GetLocate(r, id)
       PROVE  CalmFiles'
  BY <1>1, <1>14, ZenonT(30) DEF InsertAssign, GetRead, GetLocate, LayoutVars, fileVars
<1>15. ASSUME \/ \E w \in Writers : \/ CrashInRotate(w)
                                     \/ \E v \in Value : CrashInAppend(w, v)
              \/ Crash \/ CrashInClose \/ CrashInWrite \/ CrashInSwap \/ CrashInRecovery
       PROVE  FALSE
  BY <1>0, <1>15, Zenon DEF CrashInRotate, CrashInAppend, Crash, CrashInClose, CrashInWrite,
         CrashInSwap, CrashInRecovery
<1> QED BY ZenonT(30), <1>2, <1>3, <1>4, <1>5, <1>6, <1>7, <1>8, <1>9, <1>10, <1>11,
           <1>12, <1>13, <1>14, <1>15 DEF Next, Compaction, IsWrite

\* CalmLog is kept by every step that stays calm.
LEMMA CalmLogStep ==
  ASSUME TypeOK, TypeOK', BatchInv, CalmFiles, CalmLog, Next, Calm'
  PROVE  CalmLog'
<1>0. Calm /\ ~ Dies BY CalmBefore, Zenon
<1>1. ASSUME UNCHANGED <<disk, kv>>, pass' \notin {"written", "logged"} PROVE CalmLog'
  BY <1>1, Zenon DEF CalmLog
<1>2. ASSUME UNCHANGED <<disk, kv, temps, ntemps, sealed>>,
             pass' \in {"written", "logged"} => pass \in {"written", "logged"}
      PROVE  CalmLog'
  BY <1>2, Zenon DEF CalmLog
<1>3. CASE IsWrite
  <2>1. /\ up = "open" /\ FilesInv /\ OpenInv /\ UNCHANGED <<temps, sealed, passVars>>
    BY <1>3, EveryWrite, Zenon DEF CalmFiles
  <2>2. PICK new \in Seq(Entry) : IsWriteOf(new)
    BY <1>3, <2>1, EveryWrite, Zenon
  <2>3. /\ disk \in Log /\ active \in Segs /\ active \in Nat /\ Segs \subseteq Nat
        /\ files \subseteq Nat
        /\ kv \in [Ids -> Entry \cup {Nil}] /\ kv' \in [Ids -> Entry \cup {Nil}]
    BY FileTypes, ZenonT(30) DEF TypeOK
  <2>4. disk' \in Log /\ IsAppend(disk, disk', active, new)
    BY <2>2, <2>3, AppendType, Zenon DEF IsWriteOf, IsAppend, Log
  <2>5. /\ \A s \in files : s <= active
        /\ \A s \in Segs : s \notin files => disk[s] = <<>>
    BY <2>1, Zenon DEF FilesInv, OpenInv
  <2>6. ASSUME NEW s \in Segs, s > active PROVE disk[s] = <<>>
    <3>1. s \in Nat /\ active \in Nat BY <2>3, Zenon
    <3>2. ~ (s <= active) BY ONLY <2>6, <3>1
    <3> QED BY <2>5, <3>2, Zenon
  <2>7. Means(disk, kv) /\ DistinctIds(new) /\ Applied(new, kv, kv')
    BY <2>2, Zenon DEF CalmLog, IsWriteOf
  <2>8. Means(disk', kv')
    BY <2>3, <2>4, <2>6, <2>7, AppendMeaning, Zenon
  <2>9. \A s \in Segs : s # active => disk'[s] = disk[s] BY <2>4, Zenon DEF IsAppend
  <2>10. pass' \in {"written", "logged"} => Compacted(temps', ntemps', disk', sealed')
    BY <2>1, <2>9, SealedKept, Zenon DEF CalmLog, passVars
  <2> QED BY <2>8, <2>10, Zenon DEF CalmLog
<1>4. ASSUME NEW w \in Writers, Rotate(w) PROVE CalmLog'
  BY <1>1, <1>4, Zenon DEF Rotate, Calm, passVars
<1>5. CASE CompactWrite
  <2>1. up = "open" /\ pass = "snap" /\ temps = EmptyLog /\ toCompact = sealed
    BY <1>5, Zenon DEF CompactWrite, CalmFiles
  <2>2. PICK ord \in MapOrders(resolveEntries(disk, sealed)) :
           \E cut \in Cuts(EmptyLog, ord) :
             temps' = writeCompacted(EmptyLog, ord, cut) /\ ntemps' = Len(cut)
    BY <1>5, <2>1, Zenon DEF CompactWrite
  <2>3. PICK cut \in Cuts(EmptyLog, ord) :
             temps' = writeCompacted(EmptyLog, ord, cut) /\ ntemps' = Len(cut)
    BY <2>2, Zenon
  <2>4. Compacted(temps', ntemps', disk, sealed)
    BY <2>3, FileTypes, WriteCompactedSound, Zenon
  <2>5. UNCHANGED <<disk, kv, sealed>> BY <1>5, Zenon DEF CompactWrite, segVars, ghostVars
  <2> QED BY <2>4, <2>5, Zenon DEF CalmLog
<1>6. CASE WriteManifest BY <1>2, <1>6, Zenon DEF WriteManifest, segVars
<1>7. CASE CompactFails BY <1>7, Zenon DEF CompactFails, Calm
<1>8. CASE Swap
  <2>1. /\ pass = "logged" /\ pass' = "swapped" /\ kv' = kv
        /\ disk' = ApplySwap(disk, temps, 1..manifest.n, manifest.removals)
    BY <1>8, Zenon DEF Swap, ghostVars
  <2>2. /\ Layout /\ up = "open" /\ ntemps < active
        /\ manifest.n = ntemps /\ manifest.removals = Range(sealed) \ (1..ntemps)
    BY <2>1, CalmLogged, Zenon
  <2>3. \A s \in Segs : s \in 1..ntemps <=> s <= ntemps
    <3>1. Segs \subseteq Nat /\ (\A s \in Segs : s >= 1) /\ ntemps \in Nat BY FileTypes, Zenon
    <3> QED BY ONLY <3>1
  <2>4. Means(disk, kv) /\ Compacted(temps, ntemps, disk, sealed) BY <2>1, Zenon DEF CalmLog
  <2>5. Means(ApplySwap(disk, temps, 1..ntemps, Range(sealed) \ (1..ntemps)), kv)
    BY <2>2, <2>3, <2>4, SwapMeaning, Zenon DEF Layout
  <2>6. Means(disk', kv') BY <2>1, <2>2, <2>5, Zenon
  <2> QED BY <2>1, <2>6, Zenon DEF CalmLog
<1>9. CASE Open
  <2>1. disk' = disk /\ kv' = kv /\ pass' = pass BY <1>9, CalmOpen, Zenon DEF Open, passVars
  <2>2. pass = "idle"
    <3>1. up # "open" BY <1>9, Zenon DEF Open
    <3> QED BY <3>1, CalmRecovery, Zenon
  <2> QED BY <1>1, <2>1, <2>2, Zenon
<1>10. ASSUME CompactSnapshot \/ PersistIndex \/ PersistIndexFails \/ ClearManifest \/ Close
       PROVE  CalmLog'
  BY <1>1, <1>10, Zenon DEF CompactSnapshot, PersistIndex, PersistIndexFails, ClearManifest,
         Close, MemoryLost, fileVars, ghostVars
<1>11. ASSUME \/ \E w \in Writers : InsertAssign(w)
              \/ \E r \in Readers : GetRead(r) \/ \E id \in Ids : GetLocate(r, id)
       PROVE  CalmLog'
  BY <1>2, <1>11, ZenonT(30) DEF InsertAssign, GetRead, GetLocate, fileVars, segVars,
         passVars, ghostVars
<1>12. ASSUME \/ \E w \in Writers : \/ CrashInRotate(w)
                                     \/ \E v \in Value : CrashInAppend(w, v)
              \/ Crash \/ CrashInClose \/ CrashInWrite \/ CrashInSwap \/ CrashInRecovery
       PROVE  FALSE
  BY <1>0, <1>12, Zenon DEF CrashInRotate, CrashInAppend, Crash, CrashInClose, CrashInWrite,
         CrashInSwap, CrashInRecovery
<1> QED BY ZenonT(30), <1>3, <1>4, <1>5, <1>6, <1>7, <1>8, <1>9, <1>10, <1>11, <1>12
        DEF Next, Compaction, IsWrite

\* CalmIndex is kept by every step that stays calm.
LEMMA CalmIndexStep ==
  ASSUME TypeOK, TypeOK', BatchInv, CalmFiles, CalmFiles', CalmLog', CalmIndex, Next, Calm'
  PROVE  CalmIndex'
<1>0. Calm /\ ~ Dies BY CalmBefore, Zenon
<1>1. ASSUME up' = "open", Exact(index', disk', kv') PROVE CalmIndex'
  BY <1>1, Zenon DEF CalmIndex
<1>2. ASSUME up = "open", UNCHANGED <<up, index, disk, kv>> PROVE CalmIndex'
  BY <1>1, <1>2, Zenon DEF CalmIndex
<1>3. CASE IsWrite
  <2>1. up = "open" /\ up' = up /\ \E new \in Seq(Entry) : IsWriteOf(new)
    BY <1>3, EveryWrite, Zenon DEF CalmFiles
  <2>2. PICK new \in Seq(Entry) : IsWriteOf(new) BY <2>1, Zenon
  <2>3. disk \in Log /\ active \in Segs /\ index \in [Ids -> Loc \cup {Nil}]
    BY FileTypes, ZenonT(30) DEF TypeOK
  <2>4. Exact(index', disk', kv') BY <2>1, <2>2, <2>3, WriteExact, Zenon DEF CalmIndex
  <2> QED BY <1>1, <2>1, <2>4, Zenon
<1>4. ASSUME up' = "open", index' = Rebuild(disk', Append(sealed', active')) PROVE CalmIndex'
  <2>1. Exact(index', disk', kv') BY <1>4, RebuildExact, Zenon DEF CalmFiles, CalmLog
  <2> QED BY <1>1, <1>4, <2>1, Zenon
<1>5. CASE Swap BY <1>4, <1>5, Zenon DEF Swap
<1>6. CASE Close BY <1>6, Zenon DEF Close, CalmIndex, ghostVars
<1>7. CASE Open
  <2>1. /\ up # "open" /\ up' = "open" /\ disk' = RollForward(disk, temps, manifest)
        /\ kv' = kv
        /\ index' = IF MustRebuild(disk') THEN Rebuild(disk', Append(sealed', active'))
                    ELSE indexFile
    BY <1>7, ZenonT(30) DEF Open
  <2>2. CASE MustRebuild(disk') BY <1>4, <2>1, <2>2, Zenon
  <2>3. CASE ~ MustRebuild(disk')
    <3>1. indexFile # Nil BY <2>3, Zenon DEF MustRebuild
    <3>2. up = "closed" /\ disk' = disk BY <2>1, CalmRecovery, Zenon
    <3>3. Exact(index', disk', kv') BY <2>1, <2>3, <3>1, <3>2, Zenon DEF CalmIndex
    <3> QED BY <1>1, <2>1, <3>3, Zenon
  <2> QED BY <2>2, <2>3, Zenon
<1>8. CASE \/ CompactSnapshot \/ CompactWrite \/ WriteManifest \/ CompactFails
           \/ PersistIndex \/ PersistIndexFails \/ ClearManifest
  BY <1>2, <1>8, ZenonT(30) DEF CompactSnapshot, CompactWrite, WriteManifest, CompactFails,
     PersistIndex, PersistIndexFails, ClearManifest, fileVars, ghostVars
<1>9. ASSUME \/ \E w \in Writers : InsertAssign(w) \/ Rotate(w)
             \/ \E r \in Readers : GetRead(r) \/ \E id \in Ids : GetLocate(r, id)
      PROVE  CalmIndex'
  BY <1>2, <1>9, ZenonT(30) DEF InsertAssign, Rotate, GetRead, GetLocate, fileVars, ghostVars
<1>10. ASSUME \/ \E w \in Writers : \/ CrashInRotate(w)
                                     \/ \E v \in Value : CrashInAppend(w, v)
              \/ Crash \/ CrashInClose \/ CrashInWrite \/ CrashInSwap \/ CrashInRecovery
       PROVE  FALSE
  BY <1>0, <1>10, Zenon DEF CrashInRotate, CrashInAppend, Crash, CrashInClose, CrashInWrite,
         CrashInSwap, CrashInRecovery
<1> QED BY ZenonT(30), <1>3, <1>5, <1>6, <1>7, <1>8, <1>9, <1>10 DEF Next, Compaction, IsWrite

\* CalmInv is inductive relative to TypeOK and BatchInv.
LEMMA CalmStep == TypeOK /\ TypeOK' /\ BatchInv /\ CalmInv /\ [Next]_vars => CalmInv'
<1> SUFFICES ASSUME TypeOK, TypeOK', BatchInv, CalmInv, [Next]_vars, Calm'
             PROVE  CalmFiles' /\ CalmLog' /\ CalmIndex'
  BY Zenon DEF CalmInv
<1>1. CASE UNCHANGED vars
  <2>1. /\ UNCHANGED LayoutVars /\ UNCHANGED <<kv, index, indexFile, hist, crashes>>
    BY <1>1, Zenon DEF vars, LayoutVars, fileVars, ghostVars
  <2>2. CalmFiles /\ CalmLog /\ CalmIndex BY <2>1, Zenon DEF CalmInv, Calm
  <2>3. CalmFiles'
    BY <2>1, <2>2, Zenon DEF CalmFiles, LayoutVars, segVars, passVars, FilesInv, OpenInv, IsSorted
  <2>4. UNCHANGED <<disk, temps, up, sealed, pass, ntemps>>
    BY <2>1, Zenon DEF LayoutVars, segVars, passVars
  <2>5. CalmLog' /\ CalmIndex' BY <2>1, <2>2, <2>4, Zenon DEF CalmLog, CalmIndex
  <2> QED BY <2>3, <2>5, Zenon
<1>2. CASE Next
  <2>1. CalmFiles /\ CalmLog /\ CalmIndex BY <1>2, CalmBefore, Zenon DEF CalmInv
  <2>2. CalmFiles' BY <1>2, <2>1, CalmFilesStep, Zenon
  <2>3. CalmLog' BY <1>2, <2>1, CalmLogStep, Zenon
  <2>4. CalmIndex' BY <1>2, <2>1, <2>2, <2>3, CalmIndexStep, Zenon
  <2> QED BY <2>2, <2>3, <2>4, Zenon
<1> QED BY <1>1, <1>2, Zenon

\* A write of index.json that fails after a swap leaves a manifest with nothing
\* left to do: as long as the process does not crash, an open collection goes
\* on serving exactly the records written, through later passes, Close and
\* load, for every number of writers, segments and failures (compact,
\* recoverCompaction).
THEOREM FailedPersistHolds == Spec => []FailedPersistInvisible
<1>1. ASSUME Init PROVE CalmInv
  <2>1. /\ up = "closed" /\ pass = "idle" /\ manifest = Nil /\ temps = EmptyLog
        /\ disk = EmptyLog /\ files = {} /\ indexFile = Nil
    BY <1>1, Zenon DEF Init
  <2>2. FilesInv BY <2>1, Zenon DEF FilesInv, EmptyLog
  <2>3. CalmFiles BY <2>1, <2>2, Zenon DEF CalmFiles, OpenInv
  <2>4. CalmLog BY <1>1, <2>1, NothingWritten, Zenon DEF CalmLog
  <2> QED BY <2>1, <2>3, <2>4, Zenon DEF CalmInv, CalmIndex
<1>2. TypeOK /\ CalmInv => FailedPersistInvisible
  BY ViewExact, Zenon DEF CalmInv, CalmIndex, Calm, FailedPersistInvisible
<1> QED BY <1>1, <1>2, CalmStep, BatchInvariant, TypeInvariant, PTL DEF Spec

-----------------------------------------------------------------------------
(* Get.                                                                    *)

\* ReaderInv is inductive, given the types.
LEMMA ReaderStep == TypeOK /\ ReaderInv /\ [Next]_vars => ReaderInv'
<1> SUFFICES ASSUME TypeOK, ReaderInv, [Next]_vars PROVE ReaderInv' BY Zenon
<1>0. reader \in [Readers -> [pc : {"idle", "located", "done"}, id : 0..MaxId,
                             loc : Loc \cup {Nil}, got : Entry \cup {Nil}]]
      /\ index \in [Ids -> Loc \cup {Nil}]
  BY Zenon DEF TypeOK
<1>1. ASSUME reader' = reader PROVE ReaderInv' BY <1>1, Zenon DEF ReaderInv
<1>2. ASSUME MemoryLost PROVE ReaderInv' BY <1>2, Zenon DEF MemoryLost, NoRead, ReaderInv
<1>3. ASSUME NEW r \in Readers, NEW id \in Ids, GetLocate(r, id) PROVE ReaderInv'
  <2>1. index[id] \in Loc BY <1>0, <1>3, ZenonT(30) DEF GetLocate
  <2>2. reader' = [reader EXCEPT ![r] =
                     [pc |-> "located", id |-> id, loc |-> index[id], got |-> Nil]]
    BY <1>3, Zenon DEF GetLocate
  <2> QED BY <1>0, <2>1, <2>2, Zenon DEF ReaderInv
<1>4. ASSUME NEW r \in Readers, GetRead(r) PROVE ReaderInv'
  <2>1. /\ reader'[r].pc = "done" /\ \A x \in Readers \ {r} : reader'[x] = reader[x]
    BY <1>0, <1>4, Zenon DEF GetRead
  <2> QED BY <2>1, Zenon DEF ReaderInv
<1>5. ASSUME NEW w \in Writers, NEW v \in Value,
             InsertAppend(w, v) \/ InsertReject(w, v) \/ CrashInAppend(w, v)
      PROVE  ReaderInv'
  BY <1>1, <1>2, <1>5, ZenonT(30) DEF InsertAppend, InsertReject, AppendBatch, CrashInAppend, Dies
<1>6. CASE UNCHANGED vars BY <1>1, <1>6, Zenon DEF vars
<1>7. ASSUME NEW w \in Writers, InsertAssign(w) \/ Rotate(w) \/ CrashInRotate(w) PROVE ReaderInv'
  BY <1>1, <1>2, <1>7, Zenon DEF InsertAssign, Rotate, CrashInRotate, Dies
<1>8. ASSUME NEW id \in Ids, Delete(id) \/ \E w \in Writers, v \in Value : Update(w, id, v)
      PROVE  ReaderInv'
  BY <1>1, <1>8, ZenonT(30) DEF Delete, Update
<1>9. CASE Compaction
  BY <1>1, <1>9, ZenonT(30) DEF Compaction, CompactSnapshot, CompactWrite, WriteManifest, CompactFails, Swap,
     PersistIndex, PersistIndexFails, ClearManifest
<1>10. CASE Open BY <1>1, <1>10, ZenonT(30) DEF Open
<1>11. CASE Close \/ Crash \/ CrashInClose \/ CrashInWrite \/ CrashInSwap \/ CrashInRecovery
  BY <1>2, <1>11, Zenon DEF Close, Crash, CrashInClose, CrashInWrite, CrashInSwap, CrashInRecovery, Dies
<1> QED BY <1>3, <1>4, <1>5, <1>6, <1>7, <1>8, <1>9, <1>10, <1>11, ZenonT(30) DEF Next

\* A Get whose record did not move between its two halves finds the segment
\* its location names and returns the record as it is then (getStored).
THEOREM UnmovedGetHolds == Spec => UnmovedGetIsCurrent
<1>1. ASSUME TypeOK, LayoutInv, IndexInv, ReaderInv, NEW r \in Readers, GetRead(r), hist = {},
             index[reader[r].id] = reader[r].loc
      PROVE  reader'[r].got = kv[reader[r].id]
  <2> DEFINE loc == reader[r].loc
  <2>1. up = "open" /\ reader[r].pc = "located" BY <1>1, Zenon DEF GetRead
  <2>2. Layout /\ Exact(index, disk, kv)
    BY <1>1, <2>1, Zenon DEF LayoutInv, Layout, Good, IndexInv
  <2>3. reader[r].id \in Ids /\ loc \in Loc /\ loc # Nil
    BY <1>1, <2>1, NilAssumption, Zenon DEF ReaderInv
  <2>4. loc.off \in DOMAIN disk[loc.seg] /\ disk[loc.seg][loc.off] = kv[reader[r].id]
    BY <1>1, <2>2, <2>3, ZenonT(30) DEF Exact
  <2>5. loc.seg \in Segs BY <2>3, ZenonT(30) DEF Loc
  <2>6. loc.seg \in Range(sealed) \cup {active}
    <3>1. disk[loc.seg] # <<>> BY <2>4
    <3>2. loc.seg \in files BY <2>2, <2>5, <3>1, Zenon DEF Layout, FilesInv
    <3> QED BY <2>1, <2>2, <3>2, ZenonT(30) DEF Layout, OpenInv, IsSorted
  <2>7. reader'[r].got = disk[loc.seg][loc.off]
    <3>1. reader \in [Readers -> [pc : {"idle", "located", "done"}, id : 0..MaxId,
                                  loc : Loc \cup {Nil}, got : Entry \cup {Nil}]]
      BY <1>1, Zenon DEF TypeOK
    <3> QED BY <1>1, <2>4, <2>6, <3>1, Zenon DEF GetRead
  <2> QED BY <2>4, <2>7, Zenon
<1>2. TypeOK /\ LayoutInv /\ IndexInv /\ ReaderInv /\ [Next]_vars =>
        [\A r \in Readers :
           GetRead(r) /\ hist = {} /\ index[reader[r].id] = reader[r].loc =>
             reader'[r].got = kv[reader[r].id]]_vars
  BY <1>1, Zenon
<1>3. Init => ReaderInv BY DEF Init, ReaderInv, NoRead
<1> QED BY <1>2, <1>3, ReaderStep, IndexInvariant, LayoutInvariant, TypeInvariant, PTL
        DEF Spec, UnmovedGetIsCurrent

-----------------------------------------------------------------------------
(* The engine implements RecordStore.                                      *)

\* The ways a step changes the records written and the ids used: not at all,
\* by a beginning of the batch a writer holds, or by one update or delete.
KvStep ==
  \/ UNCHANGED <<kv, used>>
  \/ \E w \in Writers, v \in Value : \E n \in 0..Len(writer[w].ids) :
       /\ up = "open" /\ writer[w].pc = "assigned"
       /\ kv' = Inserted(SubSeq(writer[w].ids, 1, n), v)
       /\ used' = used \cup Range(SubSeq(writer[w].ids, 1, n))
  \/ \E id \in Ids : /\ up = "open" /\ index[id] # Nil /\ used' = used
                     /\ \/ kv' = [kv EXCEPT ![id] = Nil]
                        \/ \E v \in Value : kv' = [kv EXCEPT ![id] = NewUpdate(id, v)]

\* Every step of the engine is one of those.
LEMMA EveryKvStep == TypeOK /\ [Next]_vars => KvStep
<1> SUFFICES ASSUME TypeOK, [Next]_vars PROVE KvStep BY Zenon
<1>1. ASSUME UNCHANGED <<kv, used>> PROVE KvStep BY <1>1, ZenonT(30) DEF KvStep
<1>2. ASSUME NEW w \in Writers, NEW v \in Value, InsertAppend(w, v) \/ InsertReject(w, v)
      PROVE  KvStep
  <2>1. PICK n \in 0..Len(writer[w].ids) : AppendBatch(SubSeq(writer[w].ids, 1, n), v)
    BY <1>2, AppendsPrefix, Zenon
  <2>2. /\ kv' = Inserted(SubSeq(writer[w].ids, 1, n), v)
        /\ used' = used \cup Range(SubSeq(writer[w].ids, 1, n))
    BY <2>1, ZenonT(30) DEF AppendBatch
  <2>3. up = "open" /\ writer[w].pc = "assigned" BY <1>2, Zenon DEF InsertAppend, InsertReject
  <2> QED BY <2>2, <2>3, Zenon DEF KvStep
<1>3. ASSUME NEW w \in Writers, NEW v \in Value, CrashInAppend(w, v) PROVE KvStep
  <2>1. PICK n \in 1..(Len(writer[w].ids) - 1) :
          /\ kv' = Inserted(SubSeq(writer[w].ids, 1, n), v)
          /\ used' = used \cup Range(SubSeq(writer[w].ids, 1, n))
    BY <1>3, Zenon DEF CrashInAppend
  <2>2. n \in 0..Len(writer[w].ids) BY HeldType
  <2>3. up = "open" /\ writer[w].pc = "assigned" BY <1>3, Zenon DEF CrashInAppend
  <2> QED BY <2>1, <2>2, <2>3, ZenonT(30) DEF KvStep
<1>4. ASSUME NEW id \in Ids, Delete(id) \/ \E w \in Writers, v \in Value : Update(w, id, v)
      PROVE  KvStep
  BY <1>4, ZenonT(30) DEF Delete, Update, KvStep
<1>5. ASSUME NEW w \in Writers, InsertAssign(w) \/ Rotate(w) \/ CrashInRotate(w) PROVE KvStep
  BY <1>1, <1>5, Zenon DEF InsertAssign, Rotate, CrashInRotate, ghostVars
<1>6. CASE Compaction
  BY <1>1, <1>6, ZenonT(30) DEF Compaction, CompactSnapshot, CompactWrite, WriteManifest, CompactFails, Swap,
     PersistIndex, PersistIndexFails, ClearManifest, ghostVars
<1>7. CASE \E r \in Readers : GetRead(r) \/ \E id \in Ids : GetLocate(r, id)
  BY <1>1, <1>7, Zenon DEF GetRead, GetLocate, ghostVars
<1>8. CASE Open \/ Close \/ Crash \/ CrashInClose \/ CrashInWrite \/ CrashInSwap \/ CrashInRecovery
  BY <1>1, <1>8, Zenon DEF Open, Close, Crash, CrashInClose, CrashInWrite, CrashInSwap, CrashInRecovery,
     ghostVars
<1>9. CASE UNCHANGED vars BY <1>1, <1>9, Zenon DEF vars, ghostVars
<1> QED BY <1>2, <1>3, <1>4, <1>5, <1>6, <1>7, <1>8, <1>9, ZenonT(30) DEF Next

\* PayloadInv is inductive.
LEMMA PayloadStep == TypeOK /\ PayloadInv /\ KvStep => PayloadInv'
<1> SUFFICES ASSUME TypeOK, PayloadInv, KvStep PROVE PayloadInv' BY Zenon
<1>0. kv \in [Ids -> Entry \cup {Nil}] BY Zenon DEF TypeOK
<1>1. CASE UNCHANGED <<kv, used>> BY <1>1, Zenon DEF PayloadInv
<1>2. ASSUME NEW v \in Value, NEW ids, kv' = Inserted(ids, v) PROVE PayloadInv'
  BY <1>2, Zenon DEF Inserted, NewInsert, PayloadInv
<1>3. ASSUME NEW id \in Ids, kv' = [kv EXCEPT ![id] = Nil] PROVE PayloadInv'
  BY <1>0, <1>3, Zenon DEF PayloadInv
<1>4. ASSUME NEW id \in Ids, NEW v \in Value, kv' = [kv EXCEPT ![id] = NewUpdate(id, v)]
      PROVE  PayloadInv'
  BY <1>0, <1>4, Zenon DEF PayloadInv, NewUpdate
<1> QED BY <1>1, <1>2, <1>3, <1>4, Zenon DEF KvStep

\* The payloads of a map of records.
Payloads(m) == [id \in Ids |-> IF m[id] = Nil THEN Nil ELSE m[id].val]

\* Before any hazard, callers see the payloads of the records written.
LEMMA ServedIsWritten == ReadsSeeCommits => Served = Payloads(kv)
<1> SUFFICES ASSUME ReadsSeeCommits PROVE Served = Payloads(kv) BY Zenon
<1>1. \A id \in Ids : (IF up = "open" /\ hist = {} THEN View(id) ELSE kv[id]) = kv[id]
  BY Zenon DEF ReadsSeeCommits
<1> QED BY <1>1, Zenon DEF Served, Payloads

\* An insert of never-used ids, an update or a delete of a live record, or
\* nothing: that is all the callers of the engine see of a step.
LEMMA RecordStoreStep ==
  ASSUME TypeOK, IndexInv, FreshIds, PayloadInv, hist = {}, KvStep,
         Served = Payloads(kv), (Served = Payloads(kv))'
  PROVE  [RS!Next]_<<Served, used>>
<1>0. /\ kv \in [Ids -> Entry \cup {Nil}] /\ disk \in Log
      /\ Served' = Payloads(kv') /\ Served = Payloads(kv)
      /\ Nil \notin Value
  BY FileTypes, CollectionAssumption, ZenonT(30) DEF TypeOK
<1>1. CASE UNCHANGED <<kv, used>> BY <1>0, <1>1, Zenon
<1>2. ASSUME NEW w \in Writers, NEW v \in Value, NEW n \in 0..Len(writer[w].ids),
             up = "open", writer[w].pc = "assigned",
             kv' = Inserted(SubSeq(writer[w].ids, 1, n), v),
             used' = used \cup Range(SubSeq(writer[w].ids, 1, n))
      PROVE  [RS!Next]_<<Served, used>>
  <2> DEFINE ids == Range(SubSeq(writer[w].ids, 1, n))
  <2>1. ids \subseteq Range(writer[w].ids) BY PrefixIds, Zenon
  <2>2. Range(writer[w].ids) \cap used = {} BY <1>2, Zenon DEF FreshIds
  <2>3. ids \subseteq Ids
    <3>1. SubSeq(writer[w].ids, 1, n) \in Seq(Ids) BY HeldType, PrefixType, Zenon
    <3> QED BY <3>1, InsertedType, Zenon
  <2>4. kv' = [id \in Ids |-> IF id \in ids THEN NewInsert(id, v) ELSE kv[id]]
    BY <1>2, Zenon DEF Inserted
  <2>5. used' = used \cup ids BY <1>2, Zenon
  <2> HIDE DEF ids
  <2>6. \A id \in Ids : NewInsert(id, v) # Nil /\ NewInsert(id, v).val = v
    BY NilAssumption DEF NewInsert, Entry, Op
  <2>7. Served' = [id \in Ids |-> IF id \in ids THEN v ELSE Served[id]]
    BY <1>0, <2>4, <2>6, ZenonT(30) DEF Payloads
  <2>8. CASE ids = {}
    <3>1. used' = used BY <2>5, <2>8, Zenon
    <3>2. Served' = Served BY <1>0, <2>7, <2>8, Zenon DEF Payloads
    <3> QED BY <3>1, <3>2, Zenon
  <2>9. CASE ids # {}
    <3>1. RS!Insert(ids, v) BY <2>1, <2>2, <2>5, <2>7, Zenon DEF RS!Insert
    <3>2. ids \in (SUBSET Ids) \ {{}} BY <2>3, <2>9, Zenon
    <3> QED BY <3>1, <3>2, Zenon DEF RS!Next
  <2> QED BY <2>8, <2>9, Zenon
<1>3. ASSUME NEW id \in Ids, up = "open", index[id] # Nil, used' = used
      PROVE  Served[id] # Nil
  <2>1. Exact(index, disk, kv) BY <1>3, Zenon DEF IndexInv
  <2>2. index[id] \in Loc BY <1>3, Zenon DEF TypeOK
  <2>3. index[id].seg \in Segs /\ index[id].off \in DOMAIN disk[index[id].seg]
        /\ disk[index[id].seg][index[id].off] = kv[id]
    BY <1>3, <2>1, <2>2, ZenonT(30) DEF Exact, Loc
  <2>4. kv[id] \in Entry BY <1>0, <2>3 DEF Log
  <2>5. kv[id] # Nil BY <2>4, NilAssumption, Zenon
  <2> QED BY <1>0, <2>5, ZenonT(30) DEF PayloadInv, Payloads
<1>4. ASSUME NEW id \in Ids, up = "open", index[id] # Nil, used' = used,
             kv' = [kv EXCEPT ![id] = Nil]
      PROVE  [RS!Next]_<<Served, used>>
  <2>1. Served' = [Served EXCEPT ![id] = Nil] BY <1>0, <1>4, Zenon DEF Payloads
  <2>2. RS!Delete(id) BY <1>3, <1>4, <2>1, ZenonT(30) DEF RS!Delete
  <2> QED BY <2>2, Zenon DEF RS!Next
<1>5. ASSUME NEW id \in Ids, up = "open", index[id] # Nil, used' = used,
             NEW v \in Value, kv' = [kv EXCEPT ![id] = NewUpdate(id, v)]
      PROVE  [RS!Next]_<<Served, used>>
  <2>1. NewUpdate(id, v) # Nil /\ NewUpdate(id, v).val = v
    BY NilAssumption DEF NewUpdate, Entry, Op
  <2>2. Served' = [Served EXCEPT ![id] = v] BY <1>0, <1>5, <2>1, Zenon DEF Payloads
  <2>3. RS!Update(id, v) BY <1>3, <1>5, <2>2, Zenon DEF RS!Update
  <2> QED BY <2>3, Zenon DEF RS!Next
<1> QED BY <1>1, <1>2, <1>4, <1>5, ZenonT(30) DEF KvStep

\* The engine implements its abstract specification: as long as no hazard
\* occurs, every step - a write, a rotation, any step of a compaction pass, a
\* clean shutdown, a crash, a recovery - is one atomic operation on a map from
\* ids to payloads, or invisible.
THEOREM ImplementsRecordStore == Spec /\ [](hist = {}) => RefinesRecordStore
<1>1. Init => PayloadInv /\ RS!Init
  BY Zenon DEF Init, PayloadInv, EmptyIndex, RS!Init, Served
<1>2. TypeOK /\ IndexInv /\ FreshIds /\ PayloadInv /\ hist = {} /\ [Next]_vars
        /\ Served = Payloads(kv) /\ (Served = Payloads(kv))'
        => [RS!Next]_<<Served, used>>
  BY EveryKvStep, RecordStoreStep, Zenon
<1>3. TypeOK /\ PayloadInv /\ [Next]_vars => PayloadInv' BY EveryKvStep, PayloadStep, Zenon
<1> QED BY <1>1, <1>2, <1>3, ServedIsWritten, ReadsSeeCommitsHold, FreshIdsHold, IndexInvariant,
           TypeInvariant, PTL DEF Spec, RefinesRecordStore, RS!Spec
=============================================================================

----------------------------- MODULE Collection -----------------------------
(***************************************************************************)
(* The storage engine of one collection: writers appending to the active   *)
(* segment, segment rotation, the background compaction pass with its      *)
(* manifest, point reads, clean shutdown, a crash at any step, and load.   *)
(*                                                                         *)
(* Steps are as coarse as the locks allow.  A write that runs under c.mu   *)
(* is one action.  Id assignment (before c.mu) and rotation (a second      *)
(* critical section) are actions of their own, and so is every stretch of  *)
(* compact() between two points another goroutine or a crash can come in.  *)
(***************************************************************************)
EXTENDS SegmentLog

CONSTANTS Writers,      \* goroutines serving writes
          Readers,      \* goroutines serving Get
          MaxBatch,     \* the largest InsertMany batch (bound)
          MaxLen,       \* appends to one active segment (bound)
          MaxCrashes,   \* crashes (bound)
          IOFaults      \* the compaction steps an I/O error may hit

\* compact.manifest: the number of renames, and the removals.
Manifest == [n : 0..MaxSeg, removals : SUBSET Segs]

ASSUME CollectionAssumption ==
  /\ MaxBatch \in Nat \ {0}
  /\ MaxLen \in Nat
  /\ MaxCrashes \in Nat
  /\ IOFaults \subseteq {"manifest", "index"}
  /\ Nil \notin Manifest /\ Nil \notin Nat /\ Nil \notin [Ids -> Loc \cup {Nil}]
  /\ Nil \notin Value

VARIABLES
  (* files *)
  disk,        \* segment number -> content of seg_<n>.ndjson
  files,       \* the segment files that exist
  temps,       \* content of .compact_<n>.ndjson
  manifest,    \* compact.manifest, or Nil
  indexFile,   \* index.json
  metaFile,    \* the id counter in meta.json
  (* memory of the open collection *)
  up,          \* "open", "closed" (after Close) or "crashed"
  sealed,      \* c.sealed, as segment numbers
  active,      \* c.active, as a segment number
  asize,       \* c.active.size
  linked,      \* the active file descriptor is still the file of that name
  index,       \* c.index: id -> location
  idSeq,       \* c.idSeq
  writer,      \* the call each writer is in
  reader,      \* the Get each reader is in
  pass,        \* where the compaction pass is
  toCompact,   \* its snapshot of the sealed segments
  ntemps,      \* how many temp segments it wrote
  (* history *)
  kv,          \* what the appended entries mean: id -> entry or Nil
  used,        \* ids some insert has appended
  hist,        \* the hazards that have occurred
  crashes

fileVars == <<disk, files, temps, manifest, indexFile, metaFile>>
segVars == <<sealed, active, asize, linked>>
passVars == <<pass, toCompact, ntemps>>
ghostVars == <<kv, used, hist, crashes>>
vars == <<fileVars, up, segVars, index, idSeq, writer, reader, passVars,
          ghostVars>>

Hazards == {"sealedInPass", "outgrew", "trustedAfterCrash", "crashInRotate",
            "failedManifest", "failedIndex"}
Idle == [pc |-> "idle", ids |-> <<>>]
Rotating == [pc |-> "rotate", ids |-> <<>>]
NoRead == [pc |-> "idle", id |-> 0, loc |-> Nil, got |-> Nil]
EmptyIndex == [id \in Ids |-> Nil]

TypeOK ==
  /\ disk \in [Segs -> Seq(Entry)]
  /\ files \in SUBSET Segs
  /\ temps \in [Segs -> Seq(Entry)]
  /\ manifest \in Manifest \cup {Nil}
  /\ indexFile = Nil \/ indexFile \in [Ids -> Loc \cup {Nil}]
  /\ metaFile \in 0..MaxId \cup {Nil}
  /\ up \in {"open", "closed", "crashed"}
  /\ sealed \in Seq(Segs)
  /\ active \in Segs
  /\ asize \in Nat
  /\ linked \in BOOLEAN
  /\ index \in [Ids -> Loc \cup {Nil}]
  /\ idSeq \in 0..MaxId
  /\ writer \in [Writers -> [pc : {"idle", "assigned", "rotate"}, ids : Seq(Ids)]]
  /\ reader \in [Readers -> [pc : {"idle", "located", "done"},
                             id : 0..MaxId, loc : Loc \cup {Nil},
                             got : Entry \cup {Nil}]]
  /\ pass \in {"idle", "snap", "written", "logged", "swapped", "indexed"}
  /\ pass = "logged" => up = "open" /\ manifest # Nil
  /\ toCompact \in Seq(Segs)
  /\ ntemps \in 0..MaxSeg
  /\ kv \in [Ids -> Entry \cup {Nil}]
  /\ used \in SUBSET Ids
  /\ hist \in SUBSET Hazards
  /\ crashes \in 0..MaxCrashes

-----------------------------------------------------------------------------
(* An empty directory, not yet opened.                                     *)
Init ==
  /\ disk = EmptyLog
  /\ files = {}
  /\ temps = EmptyLog
  /\ manifest = Nil
  /\ indexFile = Nil
  /\ metaFile = Nil
  /\ up = "closed"
  /\ sealed = <<>>
  /\ active = 1
  /\ asize = 0
  /\ linked = TRUE
  /\ index = EmptyIndex
  /\ idSeq = 0
  /\ writer = [w \in Writers |-> Idle]
  /\ reader = [r \in Readers |-> NoRead]
  /\ pass = "idle"
  /\ toCompact = <<>>
  /\ ntemps = 0
  /\ kv = EmptyIndex
  /\ used = {}
  /\ hist = {}
  /\ crashes = 0

-----------------------------------------------------------------------------
(* Writes.                                                                 *)

\* Segment.Append of a batch: the bytes go to the open descriptor, which is
\* no longer the file of that name once a rename has replaced it.
AppendActive(new) ==
  /\ asize + Len(new) <= MaxLen
  /\ disk' = IF linked THEN [disk EXCEPT ![active] = @ \o new] ELSE disk
  /\ asize' = asize + Len(new)

\* needRotate, read before c.mu is released.
AfterAppend(w) ==
  writer' = [writer EXCEPT ![w] =
               IF asize' >= SegmentMaxSize THEN Rotating ELSE Idle]

\* Mutant: the counter's value before the increment is taken for the id.
InsertAssign_OldValue(w) ==
  /\ up = "open" /\ writer[w].pc \in {"idle", "assigned"}
  /\ idSeq < MaxId /\ Len(writer[w].ids) < MaxBatch
  /\ idSeq' = idSeq + 1
  /\ writer' = [writer EXCEPT ![w] =
                  [pc |-> "assigned", ids |-> Append(writer[w].ids, idSeq)]]
  /\ UNCHANGED <<fileVars, up, segVars, index, reader, passVars, ghostVars>>

\* Each record's id comes from the atomic counter, one by one and before the
\* write lock is taken.
InsertAssign(w) ==
  /\ up = "open" /\ writer[w].pc \in {"idle", "assigned"}
  /\ idSeq < MaxId /\ Len(writer[w].ids) < MaxBatch
  /\ idSeq' = idSeq + 1
  /\ writer' = [writer EXCEPT ![w] =
                  [pc |-> "assigned", ids |-> Append(writer[w].ids, idSeq + 1)]]
  /\ UNCHANGED <<fileVars, up, segVars, index, reader, passVars, ghostVars>>

Batch(ids, v) == [k \in DOMAIN ids |-> NewInsert(ids[k], v)]

Inserted(ids, v) ==
  [id \in Ids |-> IF id \in Range(ids) THEN NewInsert(id, v) ELSE kv[id]]

\* The records of a batch are appended and indexed in turn.
AppendBatch(ids, v) ==
  /\ AppendActive(Batch(ids, v))
  /\ index' = [id \in Ids |->
                 IF id \in Range(ids)
                 THEN [seg |-> active,
                       off |-> asize + CHOOSE k \in DOMAIN ids : ids[k] = id]
                 ELSE index[id]]
  /\ kv' = Inserted(ids, v)
  /\ used' = used \cup Range(ids)
  /\ UNCHANGED <<files, temps, manifest, indexFile, metaFile, up, sealed, active,
                 linked, idSeq, reader, passVars, hist, crashes>>

InsertAppend(w, v) ==
  /\ up = "open" /\ writer[w].pc = "assigned"
  /\ AppendBatch(writer[w].ids, v)
  /\ AfterAppend(w)

\* The quota or a unique index turns the insert down, or Append refuses one of
\* its records as too large: the ones before it stay.
InsertReject(w, v) ==
  /\ up = "open" /\ writer[w].pc = "assigned"
  /\ \E n \in 0..(Len(writer[w].ids) - 1) :
       AppendBatch(SubSeq(writer[w].ids, 1, n), v)
  /\ writer' = [writer EXCEPT ![w] = Idle]

Update(w, id, v) ==
  /\ up = "open" /\ writer[w].pc = "idle"
  /\ index[id] # Nil
  /\ AppendActive(<<NewUpdate(id, v)>>)
  /\ index' = [index EXCEPT ![id] = [seg |-> active, off |-> asize + 1]]
  /\ kv' = [kv EXCEPT ![id] = NewUpdate(id, v)]
  /\ AfterAppend(w)
  /\ UNCHANGED <<files, temps, manifest, indexFile, metaFile, up, sealed, active,
                 linked, idSeq, reader, passVars, used, hist, crashes>>

\* Delete does not check whether the segment is full.
Delete(id) ==
  /\ up = "open"
  /\ index[id] # Nil
  /\ AppendActive(<<NewDelete(id)>>)
  /\ index' = [index EXCEPT ![id] = Nil]
  /\ kv' = [kv EXCEPT ![id] = Nil]
  /\ UNCHANGED <<files, temps, manifest, indexFile, metaFile, up, sealed, active,
                 linked, idSeq, writer, reader, passVars, used, hist, crashes>>

-----------------------------------------------------------------------------
(* Rotation.                                                               *)

\* Mutant: the next number is the number of sealed segments plus one.
IsNextSegment_Counted(m) == m = Len(sealed) + 2

\* One past the highest sealed segment, the one just sealed included.
IsNextSegment(m) ==
  /\ \A s \in Range(sealed) \cup {active} : s < m
  /\ m - 1 \in Range(sealed) \cup {active}

\* Seal the active segment and open the next.  An existing file of that name
\* would be reopened with what it holds.
SealAndOpen(m) ==
  /\ IsNextSegment(m)
  /\ sealed' = Append(sealed, active)
  /\ active' = m
  /\ files' = files \cup {m}
  /\ asize' = Len(disk[m])
  /\ linked' = TRUE

Rotate(w) ==
  /\ up = "open" /\ writer[w].pc = "rotate"
  /\ \E m \in Segs : SealAndOpen(m)
  /\ metaFile' = idSeq
  /\ writer' = [writer EXCEPT ![w] = Idle]
  /\ hist' = IF pass \in {"snap", "written", "logged"}
             THEN hist \cup {"sealedInPass"} ELSE hist
  /\ UNCHANGED <<disk, temps, manifest, indexFile, up, index, idSeq, reader,
                 passVars, kv, used, crashes>>

-----------------------------------------------------------------------------
(* compact(): one pass at a time, under compactMu.                         *)

\* Snapshot the sealed segments.  A forced pass skips the dirty gate.
CompactSnapshot ==
  /\ up = "open" /\ pass = "idle"
  /\ sealed # <<>>
  /\ toCompact' = sealed
  /\ pass' = "snap"
  /\ UNCHANGED <<fileVars, up, segVars, index, idSeq, writer, reader, ntemps,
                 ghostVars>>

\* Resolve and write the temp segments: reads sealed files, takes no lock.
CompactWrite ==
  /\ up = "open" /\ pass = "snap"
  /\ \E ord \in MapOrders(resolveEntries(disk, toCompact)) :
       \E cut \in Cuts(temps, ord) :
         /\ temps' = writeCompacted(temps, ord, cut)
         /\ ntemps' = Len(cut)
  /\ pass' = "written"
  /\ UNCHANGED <<disk, files, manifest, indexFile, metaFile, up, segVars, index,
                 idSeq, writer, reader, toCompact, ghostVars>>

\* Mutant: a removed name that a rename reuses stays in the removals.
WriteManifest_KeepsReused ==
  /\ up = "open" /\ pass = "written"
  /\ manifest' = [n |-> ntemps, removals |-> Range(toCompact)]
  /\ pass' = "logged"
  /\ hist' = IF active \in 1..ntemps THEN hist \cup {"outgrew"} ELSE hist
  /\ UNCHANGED <<disk, files, temps, indexFile, metaFile, up, segVars, index,
                 idSeq, writer, reader, toCompact, ntemps, kv, used, crashes>>

\* Record the swap intent.  Final names are seg_1 .. seg_ntemps.
WriteManifest ==
  /\ up = "open" /\ pass = "written"
  /\ manifest' = [n |-> ntemps, removals |-> Range(toCompact) \ (1..ntemps)]
  /\ pass' = "logged"
  /\ hist' = IF active \in 1..ntemps THEN hist \cup {"outgrew"} ELSE hist
  /\ UNCHANGED <<disk, files, temps, indexFile, metaFile, up, segVars, index,
                 idSeq, writer, reader, toCompact, ntemps, kv, used, crashes>>

\* The pass fails before the manifest is durable: its temp files stay.
CompactFails ==
  /\ "manifest" \in IOFaults
  /\ up = "open" /\ pass = "written"
  /\ pass' = "idle" /\ toCompact' = <<>> /\ ntemps' = 0
  /\ hist' = hist \cup {"failedManifest"}
  /\ UNCHANGED <<fileVars, up, segVars, index, idSeq, writer, reader, kv, used,
                 crashes>>

\* Mutant: the index is not rebuilt for the new files.
Swap_KeepsIndex ==
  LET finals == 1..manifest.n
      gone == manifest.removals
  IN  /\ up = "open" /\ pass = "logged"
      /\ disk' = ApplySwap(disk, temps, finals, gone)
      /\ files' = (files \cup finals) \ gone
      /\ temps' = [k \in Segs |-> IF k \in finals THEN <<>> ELSE temps[k]]
      /\ sealed' = [k \in finals |-> k]
      /\ linked' = (linked /\ active \notin finals \cup gone)
      /\ pass' = "swapped"
      /\ UNCHANGED <<manifest, indexFile, metaFile, up, active, asize, index, idSeq,
                     writer, reader, toCompact, ntemps, ghostVars>>

\* Renames, removals, the new sealed list and the index, all under c.mu.
Swap ==
  LET finals == 1..manifest.n
      gone == manifest.removals
      d == ApplySwap(disk, temps, finals, gone)
      now == [k \in finals |-> k]
  IN  /\ up = "open" /\ pass = "logged"
      /\ disk' = d
      /\ files' = (files \cup finals) \ gone
      /\ temps' = [k \in Segs |-> IF k \in finals THEN <<>> ELSE temps[k]]
      /\ sealed' = now
      /\ linked' = (linked /\ active \notin finals \cup gone)
      /\ index' = Rebuild(d, Append(now, active))
      /\ pass' = "swapped"
      /\ UNCHANGED <<manifest, indexFile, metaFile, up, active, asize, idSeq,
                     writer, reader, toCompact, ntemps, ghostVars>>

\* index.json is written after c.mu is released.
PersistIndex ==
  /\ up = "open" /\ pass = "swapped"
  /\ indexFile' = index
  /\ pass' = "indexed"
  /\ UNCHANGED <<disk, files, temps, manifest, metaFile, up, segVars, index,
                 idSeq, writer, reader, toCompact, ntemps, ghostVars>>

\* ... and when that fails the pass ends with its manifest in place.
PersistIndexFails ==
  /\ "index" \in IOFaults
  /\ up = "open" /\ pass = "swapped"
  /\ pass' = "idle" /\ toCompact' = <<>> /\ ntemps' = 0
  /\ hist' = hist \cup {"failedIndex"}
  /\ UNCHANGED <<fileVars, up, segVars, index, idSeq, writer, reader, kv, used,
                 crashes>>

ClearManifest ==
  /\ up = "open" /\ pass = "indexed"
  /\ manifest' = Nil
  /\ pass' = "idle" /\ toCompact' = <<>> /\ ntemps' = 0
  /\ UNCHANGED <<disk, files, temps, indexFile, metaFile, up, segVars, index,
                 idSeq, writer, reader, ghostVars>>

-----------------------------------------------------------------------------
(* Get: the location is read under the lock, the file after it.            *)

GetLocate(r, id) ==
  /\ up = "open" /\ reader[r].pc # "located"
  /\ index[id] # Nil
  /\ reader' = [reader EXCEPT ![r] =
                  [pc |-> "located", id |-> id, loc |-> index[id], got |-> Nil]]
  /\ UNCHANGED <<fileVars, up, segVars, index, idSeq, writer, passVars, ghostVars>>

\* Nil is the error return: no such segment, or nothing at that offset.
GetRead(r) ==
  LET loc == reader[r].loc
      found == /\ loc.seg \in Range(sealed) \cup {active}
               /\ loc.off \in DOMAIN disk[loc.seg]
  IN  /\ up = "open" /\ reader[r].pc = "located"
      /\ reader' = [reader EXCEPT ![r].pc = "done",
                      ![r].got = IF found THEN disk[loc.seg][loc.off] ELSE Nil]
      /\ UNCHANGED <<fileVars, up, segVars, index, idSeq, writer, passVars,
                     ghostVars>>

-----------------------------------------------------------------------------
(* Shutdown and crashes.                                                   *)

\* Everything in memory is gone; the calls in flight return errors.
MemoryLost ==
  /\ sealed' = <<>> /\ asize' = 0 /\ linked' = TRUE
  /\ index' = EmptyIndex /\ idSeq' = 0
  /\ writer' = [w \in Writers |-> Idle]
  /\ reader' = [r \in Readers |-> NoRead]
  /\ pass' = "idle" /\ toCompact' = <<>> /\ ntemps' = 0

Dies ==
  /\ crashes < MaxCrashes
  /\ crashes' = crashes + 1
  /\ up' = "crashed"
  /\ MemoryLost

\* Mutant: Close forgets to persist the index.
Close_NoIndex ==
  /\ up = "open" /\ pass = "idle"
  /\ metaFile' = idSeq
  /\ up' = "closed"
  /\ MemoryLost
  /\ UNCHANGED <<disk, files, temps, manifest, indexFile, active, ghostVars>>

\* Close waits for the pass in flight (compactMu) before it persists.
Close ==
  /\ up = "open" /\ pass = "idle"
  /\ indexFile' = index
  /\ metaFile' = idSeq
  /\ up' = "closed"
  /\ MemoryLost
  /\ UNCHANGED <<disk, files, temps, manifest, active, ghostVars>>

Crash ==
  /\ up = "open"
  /\ Dies
  /\ UNCHANGED <<fileVars, active, kv, used, hist>>

\* Between the index.json and the meta.json of Close.
CrashInClose ==
  /\ up = "open" /\ pass = "idle"
  /\ Dies
  /\ indexFile' = index
  /\ UNCHANGED <<disk, files, temps, manifest, metaFile, active, kv, used, hist>>

\* Within a batch: a proper prefix of it is in the file.  A torn last line is
\* cut off by recoverPartialLine, so only whole entries matter.
CrashInAppend(w, v) ==
  /\ up = "open" /\ writer[w].pc = "assigned" /\ linked
  /\ \E n \in 1..(Len(writer[w].ids) - 1) :
       LET ids == SubSeq(writer[w].ids, 1, n) IN
       /\ asize + n <= MaxLen
       /\ disk' = [disk EXCEPT ![active] = @ \o Batch(ids, v)]
       /\ kv' = Inserted(ids, v)
       /\ used' = used \cup Range(ids)
  /\ Dies
  /\ UNCHANGED <<files, temps, manifest, indexFile, metaFile, active, hist>>

\* After the new active segment exists, before meta.json is rewritten.
CrashInRotate(w) ==
  /\ up = "open" /\ writer[w].pc = "rotate"
  /\ \E m \in Segs : IsNextSegment(m) /\ active' = m /\ files' = files \cup {m}
  /\ hist' = hist \cup {"crashInRotate"}
  /\ Dies
  /\ UNCHANGED <<disk, temps, manifest, indexFile, metaFile, kv, used>>

\* While the first temp file is being written.
CrashInWrite ==
  /\ up = "open" /\ pass = "snap"
  /\ \E ord \in MapOrders(resolveEntries(disk, toCompact)) :
       \E m \in 1..Len(ord) :
         temps' = [temps EXCEPT ![1] = @ \o SubSeq(ord, 1, m)]
  /\ Dies
  /\ UNCHANGED <<disk, files, manifest, indexFile, metaFile, active, kv, used, hist>>

\* Any part of the manifest's renames and removals reached the disk.
PartialSwap ==
  \E R \in SUBSET Outstanding(temps, manifest.n), Q \in SUBSET manifest.removals :
    /\ disk' = ApplySwap(disk, temps, R, Q)
    /\ files' = (files \cup R) \ Q
    /\ temps' = [k \in Segs |-> IF k \in R THEN <<>> ELSE temps[k]]

CrashInSwap ==
  /\ up = "open" /\ pass = "logged"
  /\ PartialSwap
  /\ Dies
  /\ UNCHANGED <<manifest, indexFile, metaFile, active, kv, used, hist>>

CrashInRecovery ==
  /\ up # "open" /\ manifest # Nil
  /\ PartialSwap
  /\ Dies
  /\ UNCHANGED <<manifest, indexFile, metaFile, active, kv, used, hist>>

-----------------------------------------------------------------------------
(* load(): recover the swap, find the segments, restore index and counter. *)

\* top is the largest member of S, or 0.
IsTop(top, S) == top \in S \cup {0} /\ \A x \in S : x <= top

\* q lists S in increasing order (the file names are zero-padded).
IsSorted(q, S) ==
  Range(q) = S /\ \A i, j \in DOMAIN q : i < j => q[i] < q[j]

IdsIn(d, S) == UNION {{d[s][i].id : i \in DOMAIN d[s]} : s \in S}

RecoveredFiles ==
  LET left == IF manifest = Nil THEN files
              ELSE (files \cup Outstanding(temps, manifest.n)) \ manifest.removals
  IN  IF left = {} THEN {1} ELSE left

\* index.json is trusted unless a swap was rolled forward, it is missing, or
\* one of its locations lies outside the segments.
MustRebuild(d) ==
  \/ manifest # Nil
  \/ indexFile = Nil
  \/ ~ segmentsValid(indexFile, d, RecoveredFiles)

\* Mutant: the active segment is not scanned for ids.
CounterFloor_MetaOnly(d, a, idx) ==
  IF metaFile # Nil THEN {metaFile}
  ELSE IdsIn(d, RecoveredFiles) \cup {id \in Ids : idx[id] # Nil}

\* The ids the counter is restored from: the active segment beside meta.json,
\* or every segment and the index when meta.json is missing.
CounterFloor(d, a, idx) ==
  IF metaFile # Nil THEN IdsIn(d, {a}) \cup {metaFile}
  ELSE IdsIn(d, RecoveredFiles) \cup {id \in Ids : idx[id] # Nil}

Open ==
  LET d == RollForward(disk, temps, manifest)
      fs == RecoveredFiles
  IN  /\ up # "open"
      /\ up' = "open"
      /\ disk' = d /\ files' = fs
      /\ temps' = EmptyLog /\ manifest' = Nil
      /\ \E a \in fs : IsTop(a, fs) /\ active' = a
      /\ \E n \in 0..MaxSeg : \E q \in [1..n -> fs \ {active'}] :
           IsSorted(q, fs \ {active'}) /\ sealed' = q
      /\ asize' = Len(d[active']) /\ linked' = TRUE
      /\ index' = IF MustRebuild(d) THEN Rebuild(d, Append(sealed', active'))
                  ELSE indexFile
      /\ indexFile' = index'
      /\ \E top \in 0..MaxId :
           IsTop(top, CounterFloor(d, active', index')) /\ idSeq' = top
      /\ metaFile' = IF metaFile = Nil THEN idSeq' ELSE metaFile
      /\ hist' = IF up = "crashed" /\ ~ MustRebuild(d)
                 THEN hist \cup {"trustedAfterCrash"} ELSE hist
      /\ UNCHANGED <<writer, reader, passVars, kv, used, crashes>>

-----------------------------------------------------------------------------
Compaction == \/ CompactSnapshot \/ CompactWrite \/ WriteManifest \/ CompactFails
              \/ Swap \/ PersistIndex \/ PersistIndexFails \/ ClearManifest

Next ==
  \/ \E w \in Writers : \/ InsertAssign(w) \/ Rotate(w) \/ CrashInRotate(w)
                        \/ \E v \in Value : \/ InsertAppend(w, v)
                                            \/ InsertReject(w, v)
                                            \/ CrashInAppend(w, v)
                                            \/ \E id \in Ids : Update(w, id, v)
  \/ \E id \in Ids : Delete(id)
  \/ \E r \in Readers : GetRead(r) \/ \E id \in Ids : GetLocate(r, id)
  \/ Compaction
  \/ Close \/ Open
  \/ Crash \/ CrashInClose \/ CrashInWrite \/ CrashInSwap \/ CrashInRecovery

Spec == Init /\ [][Next]_vars

-----------------------------------------------------------------------------
(* Correctness.  Each invariant holds until one of the hazards in hist has *)
(* occurred; the violation runs show what each hazard breaks.              *)

\* What Get returns for id when nothing runs beside it.
View(id) ==
  IF index[id] = Nil \/ index[id].off \notin DOMAIN disk[index[id].seg] THEN Nil
  ELSE disk[index[id].seg][index[id].off]

\* The files a crash leaves at any step of a write, a rotation, a compaction
\* swap or an earlier recovery replay, after recoverCompaction has rolled the
\* manifest forward, to exactly the records written (collection.go load,
\* compact_manifest.go recoverCompaction).
DurableLog ==
  hist \subseteq {"trustedAfterCrash", "crashInRotate"} =>
    Means(RollForward(disk, temps, manifest), kv)

\* An open collection serves exactly the records written: rotation, the swap
\* of compact(), Close and load keep the primary index in step with the log.
ReadsSeeCommits ==
  up = "open" /\ hist \subseteq {"crashInRotate"} =>
    \A id \in Ids : View(id) = kv[id]

\* Sealed segments are listed in the order they were written, before the
\* active one, and no other segment file exists: replay order is commit order
\* (rotateSegment's numbering, #68).
ReplayOrder ==
  up = "open" /\ hist \subseteq {"trustedAfterCrash", "crashInRotate"} =>
    /\ IsSorted(sealed, files \ {active})
    /\ IsTop(active, files)
    /\ linked /\ asize = Len(disk[active])

\* No insert is given an id an earlier insert has used, or another insert in
\* flight holds, across crashes and reopens (insert, load's id counter).
FreshIds ==
  up = "open" /\ hist \subseteq {"trustedAfterCrash"} =>
    /\ \A id \in used : id <= idSeq
    /\ \A w \in Writers : writer[w].pc = "assigned" =>
         /\ Range(writer[w].ids) \cap used = {}
         /\ \A x \in Writers \ {w} : Range(writer[w].ids) \cap Range(writer[x].ids) = {}

\* When index.json cannot be persisted after a swap, the pass reports an error
\* and its manifest stays; as long as the process does not crash, reads stay
\* right, across Close and reopen (compact, recoverCompaction).
FailedPersistInvisible ==
  up = "open" /\ crashes = 0 /\ hist \subseteq {"failedIndex"} =>
    \A id \in Ids : View(id) = kv[id]

\* A Get whose record did not move between its two halves returns what is
\* current when it reads the file (getStored).
UnmovedGetIsCurrent ==
  [][\A r \in Readers :
       GetRead(r) /\ hist = {} /\ index[reader[r].id] = reader[r].loc =>
         reader'[r].got = kv[reader[r].id]]_vars

\* The collection as its callers see it: while it is open, what the index
\* serves; between a crash or a Close and the next open, what was written.
Served == [id \in Ids |->
  LET e == IF up = "open" /\ hist = {} THEN View(id) ELSE kv[id]
  IN  IF e = Nil THEN Nil ELSE e.val]

RS == INSTANCE RecordStore WITH Id <- Ids, store <- Served, issued <- used

\* Every step of the engine - writes, rotation, compaction, Close, crash, load
\* - is one abstract operation or invisible to the callers.
RefinesRecordStore == RS!Spec

-----------------------------------------------------------------------------
(* What comments, tests and docs say without qualification.                *)

\* InsertMany is atomic: a batch that returns an error has written nothing
\* (collection.go, InsertMany).
RejectedBatchWritesNothing ==
  [][\A w \in Writers, v \in Value : InsertReject(w, v) => kv' = kv]_vars

\* A compaction swap changes no record: "compact, and assert nothing changed"
\* (engine/compaction_property_test.go).
CompactionPreservesData ==
  [][Swap => \A id \in Ids : View(id)' = View(id)]_vars

\* A rename of the swap replaces an old sealed segment, never the segment
\* being written to (compact_manifest.go, compactManifest.Renames).
RenamesOnlySealed == manifest # Nil => active \notin 1..manifest.n

\* No acknowledged write is missing after a crash and a reopen
\* (docs/architecture.md, Durability).
AcknowledgedSurviveCrash ==
  up = "open" => \A id \in Ids : View(id) = kv[id]

\* A crash between writes cannot cause id reuse (collection.go, insert).
NoIdReuse == up = "open" => \A id \in used : id <= idSeq

\* Get returns the record it was asked for (collection.go, Get).
GetReturnsItsRecord ==
  \A r \in Readers : reader[r].pc = "done" /\ reader[r].got # Nil =>
    reader[r].got.id = reader[r].id

\* A manifest left behind by a failed index persist only makes the next open
\* rebuild from the segments (compactor.go, compact).
LeftManifestHarmless ==
  hist \subseteq {"failedIndex"} => Means(RollForward(disk, temps, manifest), kv)

\* A deleted record does not resurface after a compaction, also when an
\* earlier pass failed (engine/compaction_property_test.go, deletedIDs).
DeletedStayDeleted ==
  [][hist' \subseteq {"failedManifest"} /\ Swap =>
       \A id \in Ids : kv[id] = Nil => index'[id] = Nil]_vars
=============================================================================

------------------------------ MODULE Snapshots -----------------------------
(***************************************************************************)
(* A snapshot of a collection beside its writers, its compactor, the       *)
(* writes of meta.json and other snapshots, and the collection that opens  *)
(* over the extracted archive.                                             *)
(*                                                                         *)
(* A segment is a sequence of [id, v], v = 0 for a tombstone.  Of the      *)
(* other files the model keeps which exist, and what index.json says.  A   *)
(* file written by writeFileAtomic exists as name.tmp in between.  Actions *)
(* that hold c.mu for writing are single steps; a snapshot holds it for    *)
(* reading from Lock to its end.  There is one writer, which rotates a     *)
(* segment it filled before it writes again (Collection has several).      *)
(***************************************************************************)
EXTENDS Naturals, Sequences, SequencesExt, FiniteSets, FiniteSetsExt

CONSTANTS Snaps,     \* snapshots that may be taken
          Settings,  \* by name: which ones are, and the bounds of the writers
          SegMax     \* entries that fill a segment

ASSUME SnapshotsAssumption ==
  /\ SegMax \in Nat \ {0}
  /\ \A n \in DOMAIN Settings : Settings[n].snaps \subseteq Snaps

VARIABLES
  setting,   \* the case in hand; no step changes it
  seg,       \* segment number -> its entries, for the files there are
  active,    \* the number of the active segment
  sealed,    \* c.sealed, as numbers
  mem,       \* the primary index in memory: id -> version, 0 for none
  aux,       \* the other files there are
  idxFile,   \* what index.json says
  intent,    \* what the manifest on disk says: numbers to remove
  pass,      \* the compactor: where it is, what it snapshotted, what it wrote
  full,      \* the writer has filled the active segment and must rotate it
  metaTmp,   \* a write of meta.json is between its temp file and its rename
  snap,      \* per snapshot: where it is, what is left to copy, the archive
  puts, passes

vars == <<setting, seg, active, sealed, mem, aux, idxFile, intent, pass, full, metaTmp, snap, puts,
          passes>>
store == <<setting, seg, active, sealed, mem, idxFile, full, puts>>

Ids == 1..Settings[setting].ids
MaxSeg == Settings[setting].segs       \* segment numbers (bound)
MaxPuts == Settings[setting].puts      \* writes (bound)
MaxPasses == Settings[setting].passes  \* compaction passes (bound)

Names == {"index.json", "index.json.tmp", "compact.manifest", "compact.manifest.tmp", "meta.json",
          "meta.json.tmp", "sidx_f.json", "sidx_f.json.tmp", ".compact_1", ".compact_1.merge"}
Temps == {"index.json.tmp", "compact.manifest.tmp", "meta.json.tmp", "sidx_f.json.tmp",
          ".compact_1", ".compact_1.merge"}

Blank == [i \in Ids |-> 0]
Nothing == [segs |-> <<>>, aux |-> {}, idx |-> Blank, intent |-> {}]
NotBegun == [pc |-> "idle", todo |-> {}, more |-> {}, out |-> Nothing, cut |-> Blank]
Failed == [NotBegun EXCEPT !.pc = "failed"]
NoPass == [pc |-> "idle", from |-> <<>>, out |-> <<>>, idx |-> Blank]

\* The entries of a list of segments, in order, and the records they leave.
Entries(files, list) == FlattenSeq([k \in DOMAIN list |-> files[list[k]]])
Latest(es) == [i \in Ids |-> LET at == {k \in DOMAIN es : es[k].id = i}
                             IN IF at = {} THEN 0 ELSE es[Max(at)].v]

\* The segment files in the order of their numbers, and the records they leave.
Numbered(files) == SetToSortSeq(DOMAIN files, <)
Replay(files) == Latest(Entries(files, Numbered(files)))

Init == /\ setting \in DOMAIN Settings
        /\ seg = [n \in {1} |-> <<>>] /\ active = 1 /\ sealed = <<>> /\ mem = Blank
        /\ aux = {"meta.json", "index.json"} /\ idxFile = Blank /\ intent = {}
        /\ pass = NoPass /\ full = FALSE /\ metaTmp = FALSE
        /\ snap = [s \in Snaps |-> NotBegun]
        /\ puts = 0 /\ passes = 0

Copying(s) == snap[s].pc \in {"persist", "rename", "list", "copy"}
Unlocked == \A s \in Snaps : ~Copying(s)

-----------------------------------------------------------------------------
(* The collection.                                                         *)

\* An update (an insert when there is no record) or a delete, up to c.mu.Unlock.
\* A delete never rotates.
Put(i, del) ==
  /\ puts < MaxPuts /\ Unlocked /\ ~full
  /\ del => mem[i] # 0
  /\ LET v == IF del THEN 0 ELSE puts + 1
     IN /\ seg' = [seg EXCEPT ![active] = Append(@, [id |-> i, v |-> v])]
        /\ mem' = [mem EXCEPT ![i] = v]
        /\ full' = (~del /\ Len(seg'[active]) >= SegMax)
  /\ puts' = puts + 1
  /\ UNCHANGED <<active, sealed, aux, idxFile, intent, pass, metaTmp, snap, passes,
                 setting>>

\* The number past the highest one of the sealed segments, the old active included.
NextSegment == Max(ToSet(sealed) \cup {active}) + 1

\* rotateSegment takes c.mu again.  Its write of meta.json shares the temp file
\* with any other, and renames it.
Rotate ==
  /\ full /\ Unlocked /\ NextSegment <= MaxSeg
  /\ seg' = [n \in DOMAIN seg \cup {NextSegment} |-> IF n = NextSegment THEN <<>> ELSE seg[n]]
  /\ active' = NextSegment /\ sealed' = Append(sealed, active)
  /\ full' = FALSE /\ aux' = aux \ {"meta.json.tmp"}
  /\ UNCHANGED <<mem, idxFile, intent, pass, metaTmp, snap, puts, passes, setting>>

\* meta.json after a commit or a change of the default time to live, c.mu released.
WriteMeta == /\ metaTmp' = ~metaTmp
             /\ aux' = IF metaTmp THEN aux \ {"meta.json.tmp"} ELSE aux \cup {"meta.json.tmp"}
             /\ UNCHANGED <<store, intent, pass, snap, passes>>

\* The records of a list of segments, without deleted ones, in files of SegMax.
Compacted(list) ==
  LET last == Latest(Entries(seg, list))
      es == SetToSeq({[id |-> i, v |-> last[i]] : i \in {i \in Ids : last[i] # 0}})
  IN [k \in 1..((Len(es) + SegMax - 1) \div SegMax) |->
        SubSeq(es, (k - 1) * SegMax + 1, IF k * SegMax < Len(es) THEN k * SegMax ELSE Len(es))]

Step(from, to) == pass.pc = from /\ pass' = [pass EXCEPT !.pc = to]
PassOnly == UNCHANGED <<store, metaTmp, snap, passes>>

\* Steps 1 to 4 of a pass: the merged records are in dot files.
Merge == /\ pass.pc = "idle" /\ sealed # <<>> /\ passes < MaxPasses
         /\ pass' = [pc |-> "manifest", from |-> sealed, out |-> Compacted(sealed), idx |-> Blank]
         /\ passes' = passes + 1
         /\ aux' = IF pass'.out = <<>> THEN aux ELSE aux \cup {".compact_1", ".compact_1.merge"}
         /\ UNCHANGED <<store, intent, metaTmp, snap>>

\* writeFileAtomic of a file of the pass: create, then rename.
Create(name, from, to) == Step(from, to) /\ aux' = aux \cup {name} /\ UNCHANGED intent /\ PassOnly

Removals == {n \in ToSet(pass.from) : n > Len(pass.out)}

BeginManifest == Create("compact.manifest.tmp", "manifest", "renameManifest")
WriteManifest == /\ Step("renameManifest", "swap")
                 /\ aux' = (aux \ {"compact.manifest.tmp"}) \cup {"compact.manifest"}
                 /\ intent' = Removals
                 /\ PassOnly

\* Under c.mu: the renames, the removals, and the new index.
Swap == /\ Unlocked /\ Step("swap", "index")
        /\ LET n == Len(pass.out)
               files == [k \in (DOMAIN seg \cup 1..n) \ Removals |->
                           IF k <= n THEN pass.out[k] ELSE seg[k]]
               list == [k \in 1..n |-> k]
           IN /\ seg' = files /\ sealed' = list
              /\ mem' = Latest(Entries(files, Append(list, active)))
        /\ aux' = aux \ {".compact_1", ".compact_1.merge"}
        /\ UNCHANGED <<active, idxFile, full, puts, intent, metaTmp, snap, passes, setting>>

\* index.Persist copies the index before it creates the temp file.
BeginIndex == /\ pass.pc = "index"
              /\ pass' = [pass EXCEPT !.pc = "renameIndex", !.idx = mem]
              /\ aux' = aux \cup {"index.json.tmp"}
              /\ UNCHANGED intent /\ PassOnly
PersistIndex == /\ Step("renameIndex", "sidx")
                /\ aux' = (aux \ {"index.json.tmp"}) \cup {"index.json"}
                /\ idxFile' = pass.idx
                /\ UNCHANGED <<seg, active, sealed, mem, full, puts, intent, metaTmp, snap, passes,
                               setting>>
BeginSidx == Create("sidx_f.json.tmp", "sidx", "renameSidx")

\* Another writer may have renamed the shared temp file away; that error is dropped.
Renamed == IF "sidx_f.json.tmp" \in aux THEN (aux \ {"sidx_f.json.tmp"}) \cup {"sidx_f.json"} ELSE aux
PersistSidx == Step("renameSidx", "clear") /\ aux' = Renamed /\ UNCHANGED intent /\ PassOnly

ClearManifest == /\ pass.pc = "clear" /\ pass' = NoPass
                 /\ aux' = aux \ {"compact.manifest"} /\ intent' = {}
                 /\ PassOnly

-----------------------------------------------------------------------------
(* A snapshot.                                                             *)

SnapOnly == UNCHANGED <<store, intent, pass, metaTmp, passes>>

\* writeSnapshot takes the read lock and refreshes the secondary index files.
Lock(s) == /\ snap[s].pc = "idle" /\ s \in Settings[setting].snaps
           /\ snap' = [snap EXCEPT ![s].pc = "persist", ![s].cut = Replay(seg)]
           /\ UNCHANGED aux /\ SnapOnly
BeginPersist(s) == /\ snap[s].pc = "persist"
                   /\ snap' = [snap EXCEPT ![s].pc = "rename"]
                   /\ aux' = aux \cup {"sidx_f.json.tmp"}
                   /\ SnapOnly
Persist(s) == /\ snap[s].pc = "rename"
              /\ snap' = [snap EXCEPT ![s].pc = "list"]
              /\ aux' = Renamed
              /\ SnapOnly

\* Mutant: the index is archived.
Skipped_Index == {".compact_1", ".compact_1.merge", "compact.manifest"}

\* Dot files, *.merge, the index and the manifest stay out of the archive.
Skipped == {".compact_1", ".compact_1.merge", "index.json", "compact.manifest"}

List(s) == /\ snap[s].pc = "list"
           /\ snap' = [snap EXCEPT ![s].pc = "copy", ![s].todo = DOMAIN seg, ![s].more = aux \ Skipped]
           /\ UNCHANGED aux /\ SnapOnly

\* ReadDir sorts by name: the segments come before the secondary indexes, and
\* after the others.
Order == <<"compact.manifest", "compact.manifest.tmp", "index.json", "index.json.tmp", "meta.json",
           "meta.json.tmp", "sidx_f.json", "sidx_f.json.tmp">>
After == {"sidx_f.json", "sidx_f.json.tmp"}
Place(name) == CHOOSE k \in DOMAIN Order : Order[k] = name
Upcoming(s) == {f \in snap[s].more : /\ \A g \in snap[s].more : Place(f) <= Place(g)
                                     /\ f \in After => snap[s].todo = {}}
Complete(s) == snap[s].pc = "copy" /\ snap[s].todo = {} /\ snap[s].more = {}

\* The archive with one more segment, or one more of the other files.
WithSegment(a, n) ==
  [a EXCEPT !.segs = [k \in DOMAIN @ \cup {n} |-> IF k = n THEN seg[n] ELSE @[k]]]
WithFile(a, name) ==
  [a EXCEPT !.aux = @ \cup {name},
            !.idx = IF name = "index.json" THEN idxFile ELSE @,
            !.intent = IF name = "compact.manifest" THEN intent ELSE @]

\* writeFileToTar: a listed file that is gone fails the snapshot.
CopyFile(s, n) ==
  /\ snap[s].pc = "copy" /\ snap[s].more \subseteq After /\ n = Min(snap[s].todo)
  /\ snap' = IF n \notin DOMAIN seg THEN [snap EXCEPT ![s] = Failed]
             ELSE [snap EXCEPT ![s].todo = @ \ {n}, ![s].out = WithSegment(@, n)]
  /\ UNCHANGED aux /\ SnapOnly

CopyOther(s, name) ==
  /\ snap[s].pc = "copy" /\ name \in Upcoming(s)
  /\ snap' = IF name \notin aux THEN [snap EXCEPT ![s] = Failed]
             ELSE [snap EXCEPT ![s].more = @ \ {name}, ![s].out = WithFile(@, name)]
  /\ UNCHANGED aux /\ SnapOnly

\* The archive is closed, the lock released, and the client has its copy.
Done(s) == /\ Complete(s)
           /\ snap' = [snap EXCEPT ![s] = [NotBegun EXCEPT !.pc = "done"]]
           /\ UNCHANGED aux /\ SnapOnly

Compacting == \/ BeginManifest \/ WriteManifest \/ Swap \/ BeginIndex \/ PersistIndex
              \/ BeginSidx \/ PersistSidx \/ ClearManifest
Copy(s) == \/ \E n \in snap[s].todo : CopyFile(s, n)
           \/ \E name \in Upcoming(s) : CopyOther(s, name)
           \/ Done(s)

Next == \/ \E i \in Ids, del \in BOOLEAN : Put(i, del)
        \/ Rotate \/ WriteMeta \/ Merge \/ Compacting
        \/ \E s \in Snaps : Lock(s) \/ BeginPersist(s) \/ Persist(s) \/ List(s) \/ Copy(s)

Spec == Init /\ [][Next]_vars

\* The server's own steps go on, and the client reads the stream that the copy
\* is sent over.
FairSpec == /\ Spec /\ WF_vars(Compacting)
            /\ \A s \in Snaps : /\ WF_vars(BeginPersist(s) \/ Persist(s) \/ List(s))
                               /\ WF_vars(Copy(s))

-----------------------------------------------------------------------------
(* The collection that opens over an archive.                              *)

\* recoverCompaction of a manifest that came with the archive.
RolledForward(a) == [n \in DOMAIN a.segs \ a.intent |-> a.segs[n]]

\* An index.json that came along is used when it can be; without it the index
\* is rebuilt from the segments.
Restore(a) == IF "index.json" \in a.aux /\ "compact.manifest" \notin a.aux THEN a.idx
              ELSE Replay(RolledForward(a))

-----------------------------------------------------------------------------
(* Properties.                                                             *)

\* The active segment is there and is never one that is sealed; every file has
\* a known name.
TypeOK == /\ active \in DOMAIN seg /\ ToSet(sealed) \subseteq DOMAIN seg
          /\ aux \subseteq Names /\ active \notin ToSet(sealed)

\* A collection opened over a finished archive has exactly the records that the
\* files had when the snapshot took its lock, whatever writers, the compactor
\* and other snapshots did: "the extracted directory always opens to a
\* consistent state".
RestoresCut == \A s \in Snaps : Complete(s) => Restore(snap[s].out) = snap[s].cut

-----------------------------------------------------------------------------
(* Further properties, which hold on the instance of the run and are not   *)
(* part of it.                                                             *)

\* A snapshot gives its lock back, and writers are let in again ("for the
\* (brief) duration of the copy"), when its client reads what it is sent.
LockReleased == \A s \in Snaps : Copying(s) ~> ~Copying(s)

-----------------------------------------------------------------------------
(* Not invariants of the code: TLC finds each of these violated on the     *)
(* instance of the run.                                                     *)

\* "a half-written temp file must never land in a backup"
NoTempInBackup == \A s \in Snaps : snap[s].out.aux \cap Temps = {}

\* No file disappears under a copy: "no write, rotation, or compaction can
\* mutate them during the copy".
CopyNeverFails == \A s \in Snaps : snap[s].pc # "failed"
=============================================================================

--------------------------- MODULE SnapshotsProofs --------------------------
(***************************************************************************)
(* An archive holds the records of the moment its snapshot took the lock,  *)
(* for any number of snapshots, records, segments and passes.              *)
(***************************************************************************)
EXTENDS Snapshots, TLAPS

\* The records of the segments change only with the segments.
LEMMA ReplayKept ==
  ASSUME UNCHANGED <<setting, seg>>
  PROVE  Replay(seg)' = Replay(seg)
BY DEF Replay, Latest, Ids

-----------------------------------------------------------------------------
(* The inductive invariant.                                                *)

IsArchive(a) == DOMAIN a = {"segs", "aux", "idx", "intent"}
IsSnapshot(x) == DOMAIN x = {"pc", "todo", "more", "out", "cut"} /\ IsArchive(x.out)

\* Before its first copy a snapshot has archived nothing.
Unbegun(x) == x.pc \in {"idle", "persist", "rename", "list"} => x.out = Nothing

\* While the segments are copied, the archive has exactly those that are not
\* left to copy, as they are, and nothing that a reader of the archive would
\* take for an index or a manifest.
PartCopied(x) ==
  x.pc = "copy" => /\ x.todo \subseteq DOMAIN seg
                   /\ DOMAIN x.out.segs = DOMAIN seg \ x.todo
                   /\ \A n \in DOMAIN seg \ x.todo : x.out.segs[n] = seg[n]
                   /\ x.more \cap Skipped = {} /\ x.out.aux \cap Skipped = {}
                   /\ x.out.intent = {}

\* The read lock keeps the segments as they were when the snapshot took it.
CutKept(s) == Copying(s) => snap[s].cut = Replay(seg)

SnapInv ==
  /\ seg = [n \in DOMAIN seg |-> seg[n]]
  /\ DOMAIN snap = Snaps
  /\ \A s \in Snaps : /\ IsSnapshot(snap[s]) /\ Unbegun(snap[s]) /\ PartCopied(snap[s])
                      /\ CutKept(s)

-----------------------------------------------------------------------------
\* A snapshot that a step leaves alone, with the segments unchanged.
LEMMA SnapFrame ==
  ASSUME SnapInv, UNCHANGED <<setting, seg>>, NEW s \in Snaps, snap'[s] = snap[s]
  PROVE  /\ IsSnapshot(snap[s])' /\ Unbegun(snap[s])' /\ PartCopied(snap[s])'
         /\ CutKept(s)'
<1>1. IsSnapshot(snap[s]) /\ Unbegun(snap[s]) /\ PartCopied(snap[s]) /\ CutKept(s)
  BY DEF SnapInv
<1>2. IsSnapshot(snap[s])'
  BY <1>1 DEF IsSnapshot, IsArchive
<1>3. Unbegun(snap[s])'
  BY <1>1 DEF Unbegun, Nothing, Blank, Ids
<1>4. PartCopied(snap[s])'
  BY <1>1 DEF PartCopied
<1>5. CutKept(s)'
  BY <1>1, ReplayKept DEF CutKept, Copying
<1> QED BY <1>2, <1>3, <1>4, <1>5

\* A step of one snapshot keeps SnapInv when its own part holds afterwards.
LEMMA SnapStep ==
  ASSUME SnapInv, UNCHANGED <<setting, seg>>, NEW s \in Snaps, NEW x,
         snap' = [snap EXCEPT ![s] = x],
         IsSnapshot(snap[s])', Unbegun(snap[s])', PartCopied(snap[s])', CutKept(s)'
  PROVE  SnapInv'
<1>1. \A t \in Snaps \ {s} : snap'[t] = snap[t]
  BY DEF SnapInv
<1>2. \A t \in Snaps : /\ IsSnapshot(snap[t])' /\ Unbegun(snap[t])' /\ PartCopied(snap[t])'
                       /\ CutKept(t)'
  BY <1>1, SnapFrame
<1> QED BY <1>2 DEF SnapInv
-----------------------------------------------------------------------------
\* The collection changes its segments only while no snapshot holds the lock.
LEMMA UnlockedStep ==
  ASSUME SnapInv, Unlocked, UNCHANGED <<setting, snap>>, seg' = [n \in DOMAIN seg' |-> seg'[n]]
  PROVE  SnapInv'
<1> SUFFICES ASSUME NEW s \in Snaps
             PROVE  /\ IsSnapshot(snap[s])' /\ Unbegun(snap[s])' /\ PartCopied(snap[s])'
                    /\ CutKept(s)'
  BY DEF SnapInv
<1>1. IsSnapshot(snap[s]) /\ Unbegun(snap[s])
  BY DEF SnapInv
<1>2. ~Copying(s) /\ (~Copying(s))'
  BY DEF Unlocked, Copying
<1>3. IsSnapshot(snap[s])'
  BY <1>1 DEF IsSnapshot, IsArchive
<1>4. Unbegun(snap[s])'
  BY <1>1 DEF Unbegun, Nothing, Blank, Ids
<1>5. PartCopied(snap[s])' /\ CutKept(s)'
  BY <1>2 DEF PartCopied, CutKept, Copying
<1> QED BY <1>3, <1>4, <1>5

\* Its other steps leave the segments and the snapshots alone.
LEMMA SegmentsKept ==
  ASSUME SnapInv, UNCHANGED <<setting, seg, snap>>
  PROVE  SnapInv'
<1>1. \A s \in Snaps : /\ IsSnapshot(snap[s])' /\ Unbegun(snap[s])' /\ PartCopied(snap[s])'
                       /\ CutKept(s)'
  BY SnapFrame
<1> QED BY <1>1 DEF SnapInv

\* The writer, the compactor and the writes of meta.json.
LEMMA CollectionStep ==
  ASSUME SnapInv,
         (\E i \in Ids, del \in BOOLEAN : Put(i, del)) \/ Rotate \/ WriteMeta \/ Merge \/ Compacting
  PROVE  SnapInv'
<1>1. CASE \E i \in Ids, del \in BOOLEAN : Put(i, del)
  <2>1. Unlocked /\ UNCHANGED <<setting, snap>> /\ seg' = [n \in DOMAIN seg' |-> seg'[n]]
    BY <1>1, Zenon DEF Put
  <2> QED BY <2>1, UnlockedStep
<1>2. CASE Rotate
  <2>1. Unlocked /\ UNCHANGED <<setting, snap>> /\ seg' = [n \in DOMAIN seg' |-> seg'[n]]
    BY <1>2 DEF Rotate
  <2> QED BY <2>1, UnlockedStep
<1>3. CASE Swap
  <2>1. Unlocked /\ UNCHANGED <<setting, snap>> /\ seg' = [n \in DOMAIN seg' |-> seg'[n]]
    BY <1>3 DEF Swap
  <2> QED BY <2>1, UnlockedStep
<1>4. CASE WriteMeta \/ Merge
  BY <1>4, SegmentsKept DEF WriteMeta, Merge, store
<1>5. CASE Compacting /\ ~Swap
  BY <1>5, SegmentsKept DEF Compacting, BeginManifest, WriteManifest, BeginIndex, PersistIndex,
     BeginSidx, PersistSidx, ClearManifest, Create, PassOnly, store
<1> QED BY <1>1, <1>2, <1>3, <1>4, <1>5
-----------------------------------------------------------------------------
\* Up to the listing a snapshot copies nothing, and the lock keeps its cut.
LEMMA BeginStep ==
  ASSUME SnapInv, NEW s \in Snaps, Lock(s) \/ BeginPersist(s) \/ Persist(s) \/ List(s)
  PROVE  SnapInv'
<1> DEFINE x == snap[s]
<1>0. IsSnapshot(x) /\ Unbegun(x) /\ CutKept(s) /\ s \in DOMAIN snap /\ UNCHANGED <<setting, seg>>
  BY DEF SnapInv, Lock, BeginPersist, Persist, List, SnapOnly, store
<1>1. x.out = Nothing
  BY <1>0 DEF Lock, BeginPersist, Persist, List, Unbegun
<1>2. /\ \E y : snap' = [snap EXCEPT ![s] = y]
      /\ DOMAIN x' = DOMAIN x /\ x'.out = x.out
      /\ x'.pc \in {"persist", "rename", "list", "copy"}
      /\ x'.pc = "copy" => x'.todo = DOMAIN seg /\ x'.more \cap Skipped = {}
      /\ x'.cut = Replay(seg)
  <2>1. CASE Lock(s)
    BY <1>0, <2>1, Zenon DEF Lock, IsSnapshot
  <2>2. CASE BeginPersist(s)
    BY <1>0, <2>2, Zenon DEF CutKept, Copying, BeginPersist, IsSnapshot
  <2>3. CASE Persist(s)
    BY <1>0, <2>3, Zenon DEF CutKept, Copying, Persist, IsSnapshot
  <2>4. CASE List(s)
    BY <1>0, <2>4, Zenon DEF CutKept, Copying, List, IsSnapshot
  <2> QED BY <2>1, <2>2, <2>3, <2>4
<1>5. IsSnapshot(snap[s])'
  BY <1>0, <1>2 DEF IsSnapshot, IsArchive
<1>6. Unbegun(snap[s])'
  BY <1>0, <1>1, <1>2 DEF Unbegun, Nothing, Blank, Ids
<1>7. PartCopied(snap[s])'
  BY <1>0, <1>1, <1>2 DEF PartCopied, Nothing
<1>8. CutKept(s)'
  BY <1>0, <1>2, ReplayKept DEF CutKept
<1> QED BY <1>0, <1>2, <1>5, <1>6, <1>7, <1>8, SnapStep, Zenon
-----------------------------------------------------------------------------
\* What one more file changes in an archive.
LEMMA SegmentAdded ==
  ASSUME NEW a, IsArchive(a), NEW n, NEW b, b = WithSegment(a, n)
  PROVE  /\ IsArchive(b) /\ b.aux = a.aux /\ b.idx = a.idx /\ b.intent = a.intent
         /\ b.segs = [k \in DOMAIN a.segs \cup {n} |-> IF k = n THEN seg[n] ELSE a.segs[k]]
BY DEF IsArchive, WithSegment

\* A file that writeSnapshot does not skip brings no index and no manifest.
LEMMA FileAdded ==
  ASSUME NEW a, IsArchive(a), NEW name, NEW b, b = WithFile(a, name), name \notin Skipped
  PROVE  /\ IsArchive(b) /\ b.segs = a.segs /\ b.aux = a.aux \cup {name}
         /\ b.idx = a.idx /\ b.intent = a.intent
BY DEF IsArchive, WithFile, Skipped

\* A snapshot that has ended, in either way, promises nothing more.
LEMMA EndStep ==
  ASSUME SnapInv, UNCHANGED <<setting, seg>>, NEW s \in Snaps,
         \/ snap' = [snap EXCEPT ![s] = Failed]
         \/ snap' = [snap EXCEPT ![s] = [NotBegun EXCEPT !.pc = "done"]]
  PROVE  SnapInv'
<1>1. s \in DOMAIN snap
  BY DEF SnapInv
<1>2. /\ DOMAIN snap'[s] = {"pc", "todo", "more", "out", "cut"}
      /\ snap'[s].pc \in {"failed", "done"} /\ snap'[s].out = Nothing
  BY <1>1 DEF Failed, NotBegun
<1>3. IsSnapshot(snap[s])'
  BY <1>2 DEF IsSnapshot, IsArchive, Nothing
<1>4. Unbegun(snap[s])' /\ PartCopied(snap[s])' /\ CutKept(s)'
  BY <1>2 DEF Unbegun, PartCopied, CutKept, Copying
<1> QED BY <1>3, <1>4, SnapStep

\* A copied segment is the one the snapshot's cut was taken of.
LEMMA CopyFileStep ==
  ASSUME SnapInv, NEW s \in Snaps, NEW n \in snap[s].todo, CopyFile(s, n)
  PROVE  SnapInv'
<1> DEFINE x == snap[s]
<1>0. /\ IsSnapshot(x) /\ PartCopied(x) /\ CutKept(s) /\ s \in DOMAIN snap
      /\ x.pc = "copy" /\ UNCHANGED <<setting, seg>>
  BY DEF SnapInv, CopyFile, SnapOnly, store
<1>1. n \in DOMAIN seg
  BY <1>0 DEF PartCopied
<1>2. /\ \E y : snap' = [snap EXCEPT ![s] = y]
      /\ DOMAIN x' = DOMAIN x /\ x'.pc = x.pc /\ x'.more = x.more /\ x'.cut = x.cut
      /\ x'.todo = x.todo \ {n} /\ x'.out = WithSegment(x.out, n)
  BY <1>0, <1>1, Zenon DEF CopyFile, IsSnapshot
<1>3. IsArchive(x.out)
  BY <1>0 DEF IsSnapshot
<1>4. /\ IsArchive(x'.out) /\ x'.out.aux = x.out.aux /\ x'.out.intent = x.out.intent
      /\ x'.out.segs = [k \in DOMAIN x.out.segs \cup {n} |-> IF k = n THEN seg[n] ELSE x.out.segs[k]]
  BY <1>2, <1>3, SegmentAdded
<1>5. IsSnapshot(snap[s])'
  BY <1>0, <1>2, <1>4 DEF IsSnapshot, IsArchive
<1>6. Unbegun(snap[s])'
  BY <1>0, <1>2 DEF Unbegun
<1>7. PartCopied(snap[s])'
  <2>1. /\ x.todo \subseteq DOMAIN seg /\ DOMAIN x.out.segs = DOMAIN seg \ x.todo
        /\ \A m \in DOMAIN seg \ x.todo : x.out.segs[m] = seg[m]
        /\ x.more \cap Skipped = {} /\ x.out.aux \cap Skipped = {} /\ x.out.intent = {}
    BY <1>0 DEF PartCopied
  <2>2. DOMAIN x'.out.segs = DOMAIN seg' \ x'.todo /\ x'.todo \subseteq DOMAIN seg'
    BY <1>0, <1>1, <1>2, <1>4, <2>1
  <2>3. \A m \in DOMAIN seg' \ x'.todo : x'.out.segs[m] = seg'[m]
    BY <1>0, <1>1, <1>2, <1>4, <2>1
  <2> QED BY <1>2, <1>4, <2>1, <2>2, <2>3 DEF PartCopied
<1>8. CutKept(s)'
  BY <1>0, <1>2, ReplayKept DEF CutKept, Copying
<1> QED BY <1>0, <1>2, <1>5, <1>6, <1>7, <1>8, SnapStep, Zenon
\* No other file that is copied is the index or the manifest.
LEMMA CopyOtherStep ==
  ASSUME SnapInv, NEW s \in Snaps, NEW name \in Upcoming(s), CopyOther(s, name)
  PROVE  SnapInv'
<1> DEFINE x == snap[s]
<1>0. /\ IsSnapshot(x) /\ PartCopied(x) /\ CutKept(s) /\ s \in DOMAIN snap
      /\ x.pc = "copy" /\ UNCHANGED <<setting, seg>>
  BY DEF SnapInv, CopyOther, SnapOnly, store
<1>1. CASE name \notin aux
  BY <1>0, <1>1, EndStep, Zenon DEF CopyOther
<1>2. CASE name \in aux
  <2>1. /\ \E y : snap' = [snap EXCEPT ![s] = y]
        /\ DOMAIN x' = DOMAIN x /\ x'.pc = x.pc /\ x'.todo = x.todo /\ x'.cut = x.cut
        /\ x'.more = x.more \ {name} /\ x'.out = WithFile(x.out, name)
    BY <1>0, <1>2, Zenon DEF CopyOther, IsSnapshot
  <2>2. IsArchive(x.out) /\ name \notin Skipped
    BY <1>0 DEF IsSnapshot, PartCopied, Upcoming
  <2>3. /\ IsArchive(x'.out) /\ x'.out.segs = x.out.segs /\ x'.out.intent = x.out.intent
        /\ x'.out.aux = x.out.aux \cup {name}
    BY <2>1, <2>2, FileAdded
  <2>4. IsSnapshot(snap[s])'
    BY <1>0, <2>1, <2>3 DEF IsSnapshot, IsArchive
  <2>5. Unbegun(snap[s])'
    BY <1>0, <2>1 DEF Unbegun
  <2>6. PartCopied(snap[s])'
    BY <1>0, <2>1, <2>2, <2>3 DEF PartCopied
  <2>7. CutKept(s)'
    BY <1>0, <2>1, ReplayKept DEF CutKept, Copying
  <2> QED BY <1>0, <2>1, <2>4, <2>5, <2>6, <2>7, SnapStep, Zenon
<1> QED BY <1>1, <1>2

-----------------------------------------------------------------------------
\* No snapshot has begun.
LEMMA SnapInit == Init => SnapInv
<1> SUFFICES ASSUME Init PROVE SnapInv
  OBVIOUS
<1> SUFFICES ASSUME NEW s \in Snaps
             PROVE  /\ IsSnapshot(snap[s]) /\ Unbegun(snap[s]) /\ PartCopied(snap[s])
                    /\ CutKept(s)
  BY DEF Init, SnapInv
<1>1. snap[s].pc = "idle" /\ snap[s].out = Nothing /\ DOMAIN snap[s] = {"pc", "todo", "more", "out", "cut"}
  BY DEF Init, NotBegun
<1> QED BY <1>1 DEF IsSnapshot, IsArchive, Nothing, Unbegun, PartCopied, CutKept, Copying

\* A complete archive has every segment of the collection and no manifest: what
\* opens over it replays those segments, which the lock has kept.
LEMMA CompleteRestores ==
  ASSUME SnapInv
  PROVE  RestoresCut
<1> SUFFICES ASSUME NEW s \in Snaps, Complete(s)
             PROVE  Restore(snap[s].out) = snap[s].cut
  BY DEF RestoresCut
<1> DEFINE a == snap[s].out
<1>1. PartCopied(snap[s]) /\ CutKept(s) /\ snap[s].pc = "copy" /\ snap[s].todo = {}
  BY DEF SnapInv, Complete
<1>2. /\ DOMAIN a.segs = DOMAIN seg /\ \A n \in DOMAIN seg : a.segs[n] = seg[n]
      /\ a.intent = {} /\ "index.json" \notin a.aux
  BY <1>1 DEF PartCopied, Skipped
<1>3. RolledForward(a) = seg
  <2>1. RolledForward(a) = [n \in DOMAIN seg |-> seg[n]]
    BY <1>2 DEF RolledForward
  <2> QED BY <2>1 DEF SnapInv
<1>4. Restore(a) = Replay(seg)
  BY <1>2, <1>3 DEF Restore
<1> QED BY <1>1, <1>4 DEF CutKept, Copying

\* Snapshot and SnapshotStream: an archive that was finished opens to exactly
\* the records of the moment writeSnapshot took the read lock, whatever the
\* writer, the compactor and other snapshots did beside it.
THEOREM ArchivesRestoreTheirCut == Spec => []RestoresCut
<1>1. SnapInv /\ [Next]_vars => SnapInv'
  <2> SUFFICES ASSUME SnapInv, [Next]_vars PROVE SnapInv'
    OBVIOUS
  <2>1. CASE (\E i \in Ids, del \in BOOLEAN : Put(i, del)) \/ Rotate \/ WriteMeta \/ Merge \/ Compacting
    BY <2>1, CollectionStep
  <2>2. ASSUME NEW s \in Snaps, Lock(s) \/ BeginPersist(s) \/ Persist(s) \/ List(s)
        PROVE  SnapInv'
    BY <2>2, BeginStep
  <2>3. ASSUME NEW s \in Snaps, Copy(s) PROVE SnapInv'
    <3>1. CASE Done(s)
      BY <3>1, EndStep, Zenon DEF Done, SnapOnly, store
    <3> QED BY <2>3, <3>1, CopyFileStep, CopyOtherStep DEF Copy
  <2>4. CASE UNCHANGED vars
    BY <2>4, SegmentsKept DEF vars
  <2> QED BY <2>1, <2>2, <2>3, <2>4 DEF Next
<1> QED BY <1>1, SnapInit, CompleteRestores, PTL DEF Spec
=============================================================================

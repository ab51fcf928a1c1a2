------------------------------- MODULE Replay -------------------------------
(***************************************************************************)
(* The loops of the engine over a log, against the definitions without     *)
(* recursion that SegmentLog gives of them.  The log grows as the engine   *)
(* makes it grow: legal writes, rotation, and compaction of the sealed     *)
(* segments.  Entries also carry their revision here, so that what a       *)
(* restart recomputes can be compared with what the index held.            *)
(***************************************************************************)
EXTENDS SegmentLog, SequencesExt

CONSTANTS MaxEntries,   \* entries in the log (bound)
          MaxRev,       \* revisions of one record (bound)
          MaxLeft       \* leftover entries in a temp file (bound)

VARIABLES d,      \* the log
          top,    \* the active segment; 1..top are the segments
          rev,    \* IndexEntry.Rev of every record, 0 when there is none
          left    \* what a failed pass left in each temp file

vars == <<d, top, rev, left>>

Scan == [s \in 1..top |-> s]
Live(id) == rev[id] # 0
Size == FoldLeft(LAMBDA n, seg : n + Len(seg), 0, d)
Stamped(e, r) == [id |-> e.id, op |-> e.op, val |-> e.val, rev |-> r]

-----------------------------------------------------------------------------
(* The loops.                                                              *)

\* Every entry of the scan list with its place.
Entries(L) ==
  FlattenSeq([p \in DOMAIN L |-> [i \in DOMAIN d[L[p]] |->
                [loc |-> [seg |-> L[p], off |-> i], e |-> d[L[p]][i]]]])

\* Mutant: a tombstone does not clear the record.
RebuildEntry_KeepsDeleted(fresh, x) ==
  IF x.e.op = "delete" THEN fresh
  ELSE [fresh EXCEPT ![x.e.id] = [loc |-> x.loc, rev |-> Max({@.rev + 1, x.e.rev})]]

\* Mutant: a replayed entry always counts one revision.
RebuildEntry_Recount(fresh, x) ==
  [fresh EXCEPT ![x.e.id] =
     IF x.e.op = "delete" THEN [loc |-> Nil, rev |-> 0]
     ELSE [loc |-> x.loc, rev |-> @.rev + 1]]

\* One turn of Rebuild's inner loop.
RebuildEntry(fresh, x) ==
  [fresh EXCEPT ![x.e.id] =
     IF x.e.op = "delete" THEN [loc |-> Nil, rev |-> 0]
     ELSE [loc |-> x.loc, rev |-> Max({@.rev + 1, x.e.rev})]]

RebuildLoop(L) ==
  FoldLeft(RebuildEntry, [id \in Ids |-> [loc |-> Nil, rev |-> 0]], Entries(L))

\* resolveEntries: the last entry of every id, then the tombstones dropped.
ResolveLoop(L) ==
  LET latest == FoldLeft(LAMBDA m, x : [m EXCEPT ![x.e.id] = x.e],
                         [id \in Ids |-> Nil], Entries(L))
  IN  {e \in {latest[id] : id \in Ids} \ {Nil} : e.op # "delete"}

\* Mutant: the check before an append lets a file grow one past full.
WriteEntry_OffByOne(fs, e) ==
  IF Len(Last(fs)) > SegmentMaxSize
  THEN Append(fs, Append(left[Len(fs) + 1], e))
  ELSE Append(Front(fs), Append(Last(fs), e))

\* One turn of writeCompacted's loop: a full file is sealed, the next opened
\* with what it holds.
WriteEntry(fs, e) ==
  IF Len(Last(fs)) >= SegmentMaxSize
  THEN Append(fs, Append(left[Len(fs) + 1], e))
  ELSE Append(Front(fs), Append(Last(fs), e))

mergeSegments(a, b) == a \o b

\* rebalance: a file of less than a tenth of the maximum, sizes in tenths of an
\* entry, joins the next one if both fit in one file.  The last stays.
rebalance(fs) ==
  LET size(k) == 10 * Len(fs[k])
      merges(k) == /\ k < Len(fs) /\ size(k) < SegmentMaxSize
                   /\ size(k) + size(k + 1) <= 10 * SegmentMaxSize
      turn(acc, k) ==
        CASE acc.taken -> [acc EXCEPT !.taken = FALSE]
          [] ~acc.taken /\ merges(k) ->
               [taken |-> TRUE, out |-> Append(acc.out, mergeSegments(fs[k], fs[k + 1]))]
          [] OTHER -> [acc EXCEPT !.out = Append(@, fs[k])]
  IN  FoldLeft(turn, [taken |-> FALSE, out |-> <<>>], [k \in DOMAIN fs |-> k]).out

WriteLoop(ord) ==
  IF ord = <<>> THEN <<>> ELSE rebalance(FoldLeft(WriteEntry, <<left[1]>>, ord))

-----------------------------------------------------------------------------
(* How a log grows.                                                        *)

Leftover == [id |-> 1, op |-> "insert", val |-> Nil, rev |-> 1]

Init ==
  /\ d = EmptyLog /\ top = 1
  /\ rev = [id \in Ids |-> 0]
  /\ left \in [Segs -> {[i \in 1..n |-> Leftover] : n \in 0..MaxLeft}]

Put(e, r) ==
  /\ Size < MaxEntries
  /\ d' = [d EXCEPT ![top] = Append(@, Stamped(e, r))]
  /\ rev' = [rev EXCEPT ![e.id] = r]
  /\ UNCHANGED <<top, left>>

\* Ids are never used twice (Collection, FreshIds).
Insert(id, v) ==
  /\ \A s \in Segs : \A i \in DOMAIN d[s] : d[s][i].id < id
  /\ Put(NewInsert(id, v), 1)

Update(id, v) ==
  /\ Live(id) /\ rev[id] < MaxRev
  /\ Put(NewUpdate(id, v), rev[id] + 1)

Delete(id) == Live(id) /\ Put(NewDelete(id), 0)

Rotate == top < MaxSeg /\ top' = top + 1 /\ UNCHANGED <<d, rev, left>>

\* The sealed segments become the files of a pass that found no leftovers.
Compact ==
  LET sealed == [s \in 1..(top - 1) |-> s]
  IN  /\ \E ord \in MapOrders(resolveEntries(d, sealed)) :
           \E cut \in Cuts(EmptyLog, ord) :
             /\ Len(cut) < top
             /\ d' = [writeCompacted(EmptyLog, ord, cut) EXCEPT ![top] = d[top]]
      /\ UNCHANGED <<top, rev, left>>

Next == \/ \E id \in Ids : \/ \E v \in Value : Insert(id, v) \/ Update(id, v)
                           \/ Delete(id)
        \/ Rotate \/ Compact

Spec == Init /\ [][Next]_vars

-----------------------------------------------------------------------------
\* The log, the revisions and the leftovers have their types.
TypeOK ==
  /\ d \in [Segs -> Seq([id : Ids, op : Op, val : Value \cup {Nil}, rev : 0..MaxRev])]
  /\ top \in Segs
  /\ rev \in [Ids -> 0..MaxRev]
  /\ left \in [Segs -> Seq({Leftover})]

\* A restart and a pass agree with the order of the writes: replaying the
\* segments yields the location of the last write of every live record, and a
\* pass keeps the last write of every record that is not deleted (the loops of
\* Index.Rebuild and resolveEntries are what SegmentLog defines).
LastWriteWins ==
  /\ \A id \in Ids : RebuildLoop(Scan)[id].loc = Rebuild(d, Scan)[id]
  /\ ResolveLoop(Scan) = resolveEntries(d, Scan)

\* A restart computes for every record the revision the running collection
\* had, though compaction collapsed its history (Index.Rebuild): a caller's
\* UpdateIfRev means the same before and after.
RevisionsSurviveReplay ==
  \A id \in Ids : RebuildLoop(Scan)[id].rev = rev[id]

\* Whatever order the records leave the map in, writeCompacted fills the temp
\* files, leftovers of a failed pass included, in the one way SegmentLog's cut
\* describes, and rebalance finds nothing to merge in them.
FilesAreTheCut ==
  \A ord \in MapOrders(resolveEntries(d, Scan)) :
    LET fs == WriteLoop(ord)
        cuts == {cut \in Cuts(left, ord) : Len(cut) = Len(fs)}
    IN  /\ Cuts(left, ord) = cuts
        /\ \A cut \in cuts : \A k \in DOMAIN fs : fs[k] = writeCompacted(left, ord, cut)[k]
        /\ cuts # {}

=============================================================================

----------------------------- MODULE SegmentLog -----------------------------
(***************************************************************************)
(* The on-disk log of a collection and the pure functions the engine       *)
(* computes over it.  A log is a function d from segment numbers to        *)
(* sequences of entries: d[s] is the content of seg_<s>.ndjson, empty when *)
(* the file does not exist.  Payloads are members of Value, a record's id  *)
(* is its identity, and every entry has size one, so that an offset is a   *)
(* position and SegmentMaxSize counts entries.                             *)
(*                                                                         *)
(* The engine always reads a log through a scan list L, the sequence of    *)
(* segment numbers in replay order (sealed segments, then the active one). *)
(* "Last write wins" is stated here without recursion, as the absence of a *)
(* later entry with the same id; module Replay checks these definitions    *)
(* against the loops of the code.                                          *)
(***************************************************************************)
EXTENDS Integers, Sequences, Functions

CONSTANTS MaxId,            \* ids are 1..MaxId (bound)
          MaxSeg,           \* segment numbers are 1..MaxSeg (bound)
          Value,            \* record payloads
          SegmentMaxSize,   \* CollectionConfig.SegmentMaxSize, in entries
          Nil               \* absence: no record, no location, no file

Ids == 1..MaxId
Segs == 1..MaxSeg
Op == {"insert", "update", "delete"}
Entry == [id : Ids, op : Op, val : Value \cup {Nil}]
Loc == [seg : Segs, off : Nat]

ASSUME BoundsAssumption ==
  /\ MaxId \in Nat
  /\ MaxSeg \in Nat \ {0}
  /\ SegmentMaxSize \in Nat \ {0}
ASSUME NilAssumption == Nil \notin Entry /\ Nil \notin Loc

NewInsert(id, v) == [id |-> id, op |-> "insert", val |-> v]
NewUpdate(id, v) == [id |-> id, op |-> "update", val |-> v]
NewDelete(id) == [id |-> id, op |-> "delete", val |-> Nil]

EmptyLog == [s \in Segs |-> <<>>]
AllSegs == [s \in Segs |-> s]

-----------------------------------------------------------------------------
(* Replay.                                                                 *)

\* Entry i of the p-th segment of the scan list has no later entry of its id.
Wins(d, L, p, i) ==
  \A q \in DOMAIN L : \A j \in DOMAIN d[L[q]] :
    d[L[q]][j].id = d[L[p]][i].id => q < p \/ (q = p /\ j <= i)

\* ... and it is a record, not a tombstone.
LiveAt(d, L, id, p, i) ==
  /\ d[L[p]][i].id = id
  /\ d[L[p]][i].op # "delete"
  /\ Wins(d, L, p, i)

IsLive(d, L, id) ==
  \E p \in DOMAIN L : \E i \in DOMAIN d[L[p]] : LiveAt(d, L, id, p, i)

\* The primary index a full replay of the scan list yields.
Rebuild(d, L) ==
  [id \in Ids |->
    IF IsLive(d, L, id)
    THEN LET p == CHOOSE p \in DOMAIN L :
                    \E i \in DOMAIN d[L[p]] : LiveAt(d, L, id, p, i)
         IN  [seg |-> L[p],
              off |-> CHOOSE i \in DOMAIN d[L[p]] : LiveAt(d, L, id, p, i)]
    ELSE Nil]

\* Every location of a persisted index lies inside a segment that exists.
segmentsValid(idx, d, files) ==
  \A id \in Ids : idx[id] # Nil =>
    idx[id].seg \in files /\ idx[id].off \in DOMAIN d[idx[id].seg]

-----------------------------------------------------------------------------
(* Compaction: what survives, and how it is cut into files.                *)

\* Mutant: the first write of an id survives instead of the last.
resolveEntries_FirstWins(d, L) ==
  UNION {{d[L[p]][i] : i \in {j \in DOMAIN d[L[p]] :
            \A q \in DOMAIN L : \A k \in DOMAIN d[L[q]] :
              d[L[q]][k].id = d[L[p]][j].id => p < q \/ (p = q /\ j <= k)}} :
         p \in DOMAIN L}

\* The surviving entries; the order they leave the Go map in is arbitrary.
resolveEntries(d, L) ==
  UNION {{d[L[p]][i] : i \in {j \in DOMAIN d[L[p]] : d[L[p]][j].op # "delete"
                                                     /\ Wins(d, L, p, j)}} :
         p \in DOMAIN L}

\* There is at most one survivor per id.
MapOrders(S) ==
  {f \in UNION {[1..n -> S] : n \in 0..MaxId} :
     /\ \A x \in S : \E i \in DOMAIN f : f[i] = x
     /\ \A i, j \in DOMAIN f : f[i] = f[j] => i = j}

\* cut[k] is the number of entries in the first k files.
Start(cut, k) == IF k = 1 THEN 0 ELSE cut[k - 1]

\* A file takes entries until the check before the next one finds it full.
\* Every file but the first receives one entry without a check.  A leftover
\* T0[k] of a failed pass is reopened, not truncated, and counts as size.
IsCut(T0, ord, cut) ==
  LET n == Len(cut)
      count(k) == cut[k] - Start(cut, k)
      size(k) == Len(T0[k]) + count(k)
  IN  /\ IF ord = <<>> THEN n = 0 ELSE n > 0 /\ cut[n] = Len(ord)
      /\ \A k, m \in 1..n : k < m => cut[k] < cut[m]
      /\ \A k \in 1..n : count(k) > (IF k = 1 THEN 0 ELSE 1)
                           => size(k) <= SegmentMaxSize
      /\ \A k \in 1..n : k < n => size(k) >= SegmentMaxSize

Cuts(T0, ord) ==
  {cut \in UNION {[1..n -> 0..Len(ord)] : n \in 0..MaxSeg} : IsCut(T0, ord, cut)}

writeCompacted(T0, ord, cut) ==
  [k \in Segs |-> IF k \in 1..Len(cut)
                  THEN T0[k] \o SubSeq(ord, Start(cut, k) + 1, cut[k])
                  ELSE T0[k]]

-----------------------------------------------------------------------------
(* The swap, and what a log means.                                         *)

\* The log after the renames R and the removals Q of a manifest are applied.
ApplySwap(d, T, R, Q) ==
  [s \in Segs |-> IF s \in R THEN T[s] ELSE IF s \in Q THEN <<>> ELSE d[s]]

\* The temp files a recovery finds: a temp file is never empty.
Outstanding(T, n) == {k \in 1..n : T[k] # <<>>}

\* The log once recoverCompaction has rolled the manifest m forward.
RollForward(d, T, m) ==
  IF m = Nil THEN d ELSE ApplySwap(d, T, Outstanding(T, m.n), m.removals)

\* The n temp files T hold the surviving entries of the segments L of the log
\* d, each exactly once.
Compacted(T, n, d, L) ==
  /\ \A k \in 1..n : \A i \in DOMAIN T[k] :
       \E p \in DOMAIN L : \E j \in DOMAIN d[L[p]] :
         /\ T[k][i] = d[L[p]][j]
         /\ d[L[p]][j].op # "delete" /\ Wins(d, L, p, j)
  /\ \A p \in DOMAIN L : \A j \in DOMAIN d[L[p]] :
       d[L[p]][j].op # "delete" /\ Wins(d, L, p, j) =>
         \E k \in 1..n : \E i \in DOMAIN T[k] : T[k][i] = d[L[p]][j]
  /\ \A k, m \in 1..n : \A i \in DOMAIN T[k], j \in DOMAIN T[m] :
       T[k][i].id = T[m][j].id => k = m /\ i = j

\* The log d says of every id what the map kv says.
Means(d, kv) ==
  \A id \in Ids :
    IF kv[id] = Nil
    THEN ~ IsLive(d, AllSegs, id)
    ELSE \E s \in Segs : \E i \in DOMAIN d[s] :
           LiveAt(d, AllSegs, id, s, i) /\ d[s][i] = kv[id]
=============================================================================

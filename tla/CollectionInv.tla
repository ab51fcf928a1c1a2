--------------------------- MODULE CollectionInv ----------------------------
(***************************************************************************)
(* The inductive strengthening of Collection's invariants.  Each predicate *)
(* below is preserved by every step, given the ones above it.              *)
(***************************************************************************)
EXTENDS Collection

\* The ids are increasing, and none is above top.
IsBatch(ids, top) ==
  \A i \in DOMAIN ids : /\ ids[i] <= top
                        /\ \A j \in DOMAIN ids : i < j => ids[i] < ids[j]

\* A writer's ids come from the counter, in increasing order.
BatchInv ==
  \A w \in Writers : /\ up # "open" => writer[w].ids = <<>>
                     /\ IsBatch(writer[w].ids, idSeq)

\* No hazard has occurred that could put the files out of order.
Good == hist \subseteq {"trustedAfterCrash", "crashInRotate"}

\* The segment files: the active one is the last.
FilesInv ==
  /\ \A s \in Segs : s \notin files => disk[s] = <<>>
  /\ files = {} => up = "closed"
  /\ files # {} => active \in files /\ \A s \in files : s <= active

\* A manifest renames and removes files below the active segment only.
ManifestInv ==
  manifest # Nil => /\ (1..manifest.n) \cap manifest.removals = {}
                    /\ manifest.n < active
                    /\ \A s \in manifest.removals : s < active
                    /\ up # "closed" /\ files # {}

\* What the open collection knows of its files.
OpenInv ==
  up = "open" => /\ files # {}
                 /\ IsSorted(sealed, files \ {active})
                 /\ linked /\ asize = Len(disk[active])

\* The files at every point of a compaction pass.
PassInv ==
  IF up = "open"
  THEN /\ pass \in {"snap", "written", "logged"} => toCompact = sealed
       /\ pass \in {"idle", "snap", "written"} <=> manifest = Nil
       /\ pass = "logged" =>
            manifest = [n |-> ntemps, removals |-> Range(toCompact) \ (1..ntemps)]
       /\ pass \in {"swapped", "indexed"} => manifest.removals \cap files = {}
       /\ IF pass \in {"written", "logged"}
          THEN \A k \in Segs : temps[k] # <<>> <=> k <= ntemps
          ELSE temps = EmptyLog
  ELSE pass = "idle"

LayoutInv == Good => FilesInv /\ ManifestInv /\ OpenInv /\ PassInv

\* What the pass wrote to the temporary files still says what the sealed
\* segments say when the manifest is written.
CompactedInv ==
  Good /\ up = "open" /\ pass = "written" =>
    Compacted(temps, ntemps, disk, sealed)

\* The index idx locates exactly the records of m in the log d.
Exact(idx, d, m) ==
  \A id \in Ids :
    IF idx[id] = Nil THEN m[id] = Nil
    ELSE /\ idx[id].off \in DOMAIN d[idx[id].seg]
         /\ d[idx[id].seg][idx[id].off] = m[id]

\* The index in memory, or the one a clean shutdown left, is exact.
IndexInv ==
  hist \subseteq {"crashInRotate"} =>
    /\ up = "open" => Exact(index, disk, kv)
    /\ up = "closed" => indexFile = Nil \/ Exact(indexFile, disk, kv)

\* Nothing has gone wrong but the write of index.json after a swap.
Calm == crashes = 0 /\ hist \subseteq {"failedIndex"}

\* The files when such a failure may have left a manifest behind: until the
\* next pass replaces it, there is nothing in it left to do.
CalmFiles ==
  /\ FilesInv /\ OpenInv
  /\ up # "crashed" /\ (up = "closed" => pass = "idle")
  /\ pass \in {"snap", "written", "logged"} => toCompact = sealed
  /\ pass = "logged" =>
       /\ manifest = [n |-> ntemps, removals |-> Range(toCompact) \ (1..ntemps)]
       /\ ntemps < active
  /\ manifest # Nil /\ pass # "logged" =>
       /\ manifest.removals \cap files = {}
       /\ \A s \in manifest.removals : s < active
  /\ IF pass \in {"written", "logged"}
     THEN \A k \in Segs : temps[k] # <<>> <=> k <= ntemps
     ELSE temps = EmptyLog

\* What the files mean, rolled forward or not, and what the temp files hold.
CalmLog ==
  /\ Means(disk, kv)
  /\ pass \in {"written", "logged"} => Compacted(temps, ntemps, disk, sealed)

CalmIndex ==
  /\ up = "open" => Exact(index, disk, kv)
  /\ up = "closed" => indexFile = Nil \/ Exact(indexFile, disk, kv)

CalmInv == Calm => CalmFiles /\ CalmLog /\ CalmIndex

\* Only an insert about to append holds ids.
HeldInv == \A w \in Writers : writer[w].pc # "assigned" => writer[w].ids = <<>>

\* meta.json is missing only before the first open.
MetaInv == metaFile = Nil => used = {} /\ up = "closed" /\ manifest = Nil

\* Every id used is at most the persisted counter or in the active segment,
\* the two places Open restores the counter from.
Known == metaFile # Nil =>
           \A id \in used : id <= metaFile \/ id \in IdsIn(disk, {active})

IdInv == MetaInv /\ (hist \subseteq {"trustedAfterCrash"} => Known /\ FreshIds)

\* A Get that has its location was asked for a record that had one.
ReaderInv ==
  \A r \in Readers : reader[r].pc = "located" => reader[r].id \in Ids /\ reader[r].loc \in Loc
\* The records written have payloads: tombstones are not records.
PayloadInv == \A id \in Ids : kv[id] # Nil => kv[id].val \in Value
=============================================================================

# ScrivaDB: a TLA+ verification of the database

ScrivaDB (`src/`) is an embedded and networked document store written in Go.
Each collection is a directory of append-only segment files; everything else
the engine offers is built on that log. These modules model the log and the
code that maintains it, the record operations, transactions, queries,
encryption, replication and snapshots above it, and the server's chain of
access checks. TLC checks them on small instances, and TLAPS proves the main
safety properties of the collection, the record calls, transactions, encryption,
the database's keys, snapshots and the interceptor chain for every value of the
constants.

## The system and its parts

| Part | Code | Module |
|---|---|---|
| Segments, entries | `engine/segment.go`, `store/ndjson.go` | `SegmentLog`, `Collection` |
| Primary index | `engine/index.go` | `SegmentLog`, `Replay`, `Collection` |
| Collection: writes, rotation, load, Close | `engine/collection.go`, `meta.go`, `fsync.go` | `Collection`, `RecordStore` |
| Compactor, swap manifest | `engine/compactor.go`, `compact_manifest.go` | `Replay`, `Collection`, `Encryption` |
| Keys, upsert, conditional updates, unique indexes among writers, TTL, record quota | `engine/keys.go`, `collection.go`, `ttl.go`, `quota.go` | `Records` |
| Transactions | `engine/txmanager.go`, `CommitTx`, the handlers | `Transactions` |
| Index structure, filters, scans, pages, aggregates | `engine/secondary_index.go`, `scan.go`, `count.go`, `aggregate.go`, `query/` | `Values`, `SecondaryIndex`, `Query` |
| Encryption of records, migration | `engine/encryption*.go`, `crypto/` | `Encryption` |
| Registry, facade, opening with keys | `engine/db.go`, `scriva.go`, `encryption.go` | `Database` |
| Replication | `engine/replication.go`, `server/replication.go` | `Replication` |
| Snapshots | `engine/snapshot.go` | `Snapshots` |
| Authentication, scopes, limits, read-only, audit | `server/`, `internal/auth`, `cmd/scriva/main.go` | `Access` |

How they interact: a write takes its ids from an atomic counter, then, under
the collection lock `c.mu`, checks quota and unique indexes, appends to the
active segment and updates the primary and secondary indexes and the
replication feed. It releases the lock, emits watch events and, when the
segment is full, takes the lock again to rotate. The compactor snapshots the
sealed segments under the lock, rewrites them without it (re-encrypting records
of an older policy), records the swap in a manifest, takes the lock to rename
the files and rebuild the index, and then persists `index.json` and rebuilds
the secondary indexes. `load` undoes what a crash interrupted. A follower copies
a snapshot and then applies the feed. On the server every call passes the
interceptors before it reaches a handler.

## Modules

| Module | Models |
|---|---|
| `SegmentLog` | entries, segments, the winning entry of an id, `Rebuild`, `resolveEntries`, `writeCompacted`, `ApplySwap`, `RollForward`: definitions without recursion, so that proofs can use them |
| `Replay` | the loops those definitions stand for, `rebalance` included, with revisions, over logs grown by legal writes, rotation and compaction |
| `Collection` | one collection: files, memory, writers, readers, the pass, crash and load |
| `RecordStore` | what a collection promises: a map changed atomically by inserts of unused ids, updates and deletes |
| `CollectionInv` | the inductive strengthening |
| `CollectionProofs` | theorems about the meaning of a log; types, ids in flight, the layout of the files |
| `CollectionServiceProofs` | durability, fresh ids, the index, reads, a failed write of `index.json`, the refinement of `RecordStore` |
| `Records` | the calls on records of one collection, its secondary indexes, deadlines and quota |
| `Transactions` | the transaction manager, its handlers and `CommitTx` |
| `Values`, `SecondaryIndex`, `Query` | values and their comparison; the index of one field; filters, scans, pages and aggregates over it (`Query` instantiates `SecondaryIndex`) |
| `Encryption` | the stored form of records, policies, keys and the re-encrypting pass |
| `Database` | opening, creating and dropping collections with keys |
| `Replication` | broker, feed, follower, bootstrap and promotion of a cluster |
| `Snapshots` | the archive of a collection beside writers and the compactor |
| `Access` | the interceptor chain |
| `RecordsProofs`, `TransactionsProofs`, `EncryptionProofs`, `DatabaseProofs`, `SnapshotsProofs`, `AccessProofs` | the inductive invariant of the module each is named after, and its theorems |
| `MC...` | each of them for TLC: settings, constraints and symmetry |

A module of the second half has a `setting` (or `deploy`, `work`) variable, chosen
in `Init` and never changed: one run explores several small configurations of
the same specification. An operator named `F_Bug`, or commented `Mutant:`, is `F`
with a plausible mistake; no specification uses it. `PROJECT.json` says which
property notices it.

### Collection

| Variables | Code |
|---|---|
| `disk`, `files`, `temps`, `manifest`, `indexFile`, `metaFile` | the directory: segments, `.compact_<n>.ndjson`, `compact.manifest`, `index.json`, `meta.json` |
| `sealed`, `active`, `asize`, `linked` | `c.sealed`, `c.active`, its size, and whether its descriptor is still the file of that name |
| `index`, `idSeq` | `c.index`, `c.idSeq` |
| `writer`, `reader` | the calls in flight, with what they took before the lock |
| `pass`, `toCompact`, `ntemps` | the locals of `compact()` |
| `kv`, `used`, `hist`, `crashes` | history: what was written, the ids used, the hazards met, crashes so far |

| Actions | Code |
|---|---|
| `InsertAssign`, `InsertAppend`, `InsertReject` | `insert`, `InsertMany`: ids one by one before the lock, the batch under it, and its error returns |
| `Update`, `Delete` | the same-named methods; a refused call changes nothing |
| `Rotate` | `rotateSegment` |
| `CompactSnapshot`, `CompactWrite`, `WriteManifest`, `Swap`, `PersistIndex`, `ClearManifest` | `compact()`, cut where another goroutine or a crash can come in |
| `CompactFails`, `PersistIndexFails` | its error returns before and after the swap |
| `GetLocate`, `GetRead` | `getStored`: the location under the lock, the file after it |
| `Close`, `Open` | `Close`; `OpenCollection` and `load` with `recoverCompaction` |
| `Crash`, `CrashIn...` | the process dies between two steps, or within a batch, a rotation, the temp files, the swap, the recovery or Close |

`hist` records when a hazard occurs: a rotation during a pass (`sealedInPass`),
a pass with more files than there is room for below the active segment
(`outgrew`), an old `index.json` accepted after a crash (`trustedAfterCrash`),
a crash within a rotation (`crashInRotate`) and the two failed passes. The
invariants say what holds until the hazards that break them; for each of these
an instance of its own shows the break (Known deviations).

### The other components

| Module | State | Actions |
|---|---|---|
| `Records` | records with revision, data and deadline; the index map and its files; clock; the calls half done; the reaper's ids | every insert, update, upsert, delete and conditional call, the keyed ones in two steps (look-up without the lock, write under it); `EnsureIndex`, rebuild, `DropIndex`, `Reopen`; `Tick`; the reaper's collect and locked passes |
| `Transactions` | the manager's map, staged operations, idle marks; where each request is; the holder of `c.mu` | `BeginTx`, staging, rollback and commit, each cut where the code releases a mutex; `ApplyOp` one append at a time; `Sweep`, `Elapse`; writes outside transactions; drop; crash, failing append, failing fsync |
| `SecondaryIndex` | buckets, reverse map, kind, ordered view | `add`, `remove`, `update`, `rebuild`, `Persist`, `Load` (also of a file without a kind), `LookupRange` |
| `Query` | live records in segment order, the index, one client's walk | writes, restart, `FirstPage`, `NextPage`; `Find`, `Count` and `Aggregate` are operators of the state |
| `Encryption` | policy in memory and in `meta.json`, key ring, log of stored forms, a sealed write, the pass, `MigrateNow` | seal and append as two steps; `SetEncryptionPolicy`, `Disable`, `RotateKey` (persist, then swap); `SetCurrent`, `RetireKeys`; dirty, pending and forced passes (`CompactNow`, `MigrateNow`), the swap, which drops a segment sealed since the pass began; crash and `initEncryption`, which lists the dropped segments again |
| `Database` | directories with their encryption block, registry, cached handles, running goroutines, provider | `Open` (also with a wrong key), `Close`, `CreateCollection`, `Collection`, `DropCollection`, `SetEncryptionPolicy`, `RotateKey`, crash |
| `Replication` | per node: role, the records served, those in the segments and the fsynced part of them, `index.json`, LSN, ring, watermarks, `replication.json`, the loop's position, connection, the leader's subscriber | writes with publish, bootstrap (watermark, snapshot, `SetAppliedLSN`), `Subscribe`, `Ship`, receive, `ApplyEntry`, `Promote`, clean restart, crash and power loss (the records of the last `index.json` come back), disconnect, repointing, drop |
| `Snapshots` | segment files, index file, manifest, temp files, the pass, the snapshots | writes, rotation, `meta.json`, each file operation of a pass, and of a snapshot: lock, persist index, list, copy file by file |
| `Access` | key set, role, semaphore, token buckets; per call its place in the chain, principal, log and audit records | one action per interceptor, handlers, first message and end of a stream, refill, `Reload` |

Where they share a call each module keeps the part its properties need: the
write path of `Records` and `Transactions` is atomic under the lock where
`Collection` shows the files, and `Collection` leaves out the indexes that
`Records` maintains.

## Runs

| Run | Question | Distinct states |
|---|---|---|
| `replay` | Do the loops of `Rebuild`, `resolveEntries` and `writeCompacted` compute what `SegmentLog` defines, and do revisions survive a restart? | 66,872 |
| `crash` | With two writers, compaction and a crash anywhere: is the log on disk exactly what was written, is it served, are segments in order, are ids fresh? | 497,336 |
| `faults` | When a file cannot be written: are reads still right, and is a Get whose record did not move current? | 514,716 |
| `refines` | With batches, and a crash in the recovery from a crash: does the engine implement `RecordStore`? | 537,118 |
| `records` | Are indexes exact, unique values unique, the quota kept, conditional updates free of lost updates, and does the reaper take what has expired and nothing else? | 154,011 |
| `transactions` | Is what a transaction wrote what its client was told, are the limits held for a batch as a whole, does every request end, is every abandoned transaction reaped? | 273,351 |
| `query` | Do pages cover each match once while records change, does the heap select what a sort would, is the plan invisible, are groups exact, does the index answer as a scan? | 123,981 |
| `encryption` | Does every record and projection read back in every half-migrated state, is a migration complete but for segments that a swap dropped, is a query on a plaintext field right, does a policy reach sealed records by itself? | 699,788 |
| `database` | Can the directory always be opened again, has a collection one owner, is a wrong key refused? | 265,584 |
| `replication` | Is a follower's staleness bounded by its watermark, or by the LSN of the `index.json` a crash brought back, its feed without a gap, a failover convergent, and does a follower catch up? | 532,519 |
| `snapshots` | Does an archive open to the records of the moment of its lock? | 343,686 |
| `access` | Are slots exact, is the audit trail right across reloads, is every call answered? | 217,282 |

All of them hold. The properties are described where they are defined. Beside
those of the runs, the modules hold type invariants and a few further
properties that hold on the same instances; name them in the `.cfg` to check
them.

**Bounds.** Every bound has a name (`Max...` or a field of a setting) and caps what
would grow without end. What they are chosen for:

- `Collection`: two ids and three or four segments with `SegmentMaxSize = 1` make
  every insert and update fill its segment, so rotations and passes over several
  segments happen at once; two writers can both append before either rotates,
  which gives a segment larger than its maximum. `crash` has one crash at any
  step; `refines` has two, so that the second can interrupt the recovery from the
  first. The proofs have no bound on crashes, batches, segments or ids.
- `Records`: one keyed caller among plain writes with two records; two callers
  on one record; a quota of one with the `_key` index built while writes run;
  deadlines within a clock of three ticks.
- `Transactions`: one client with two staged operations at a quota of two, and
  two direct writes; the same under a crash, a failing append or fsync; two
  requests at once on one transaction, with a drop.
- `Query`: three or four records; pages of one in two orderings with writes in
  between; every operator under limits and offsets; values that print alike; a
  field that holds numbers, text that looks like them, and other text, with
  rebuilds and restarts. One ordering over equal keys needs two records, a heap
  that evicts three, one that sifts four.
- `Encryption`: field policies through three epochs with two keys and a crash;
  record policies with two records; migrations overlapping a write; a
  `MigrateNow` that rotates while a pass runs, so that the pass drops its segment.
- `Database`: three collections, six handles, three salts, two crashes.
- `Replication`: two nodes with four commits and a ring of two, with two records and
  one restart, crash or disconnection, and with one record and two of them; a ring of
  one under every fault, a promotion and a drop; three nodes with a promotion.
- `Snapshots`: one snapshot beside three writes and two passes; two snapshots.
- `Access`: a follower with six key files and two reloads; three calls at an
  in-flight limit of two and a burst of one; three calls at a limit of one.

**Symmetry.** `crash` identifies the two writers and `refines` the two values: no
definition tells them apart, and both check safety only. The constraints of the
`Collection` runs stop the search after a hazard outside those the properties
allow: `hist` only grows, so the invariants say nothing of later states.

**Deadlock** is checked in `replay`, the three `Collection` runs, `query` and
`snapshots`. In `records`, `transactions`, `encryption`, `database`, `replication` and
`access` the calls, ids, epochs, handles or commits of the bounds are used up in
the end, and the system then rests.

**Fairness** is weak, and per goroutine:

- `transactions`: a handler that has started runs to its end, the sweeper's
  ticker fires, time passes. A client need not call again.
- `records`: the compactor's ticker drives the reaper while the collection is open.
- `encryption`: the ticker starts a pending pass, passes and admin calls end, a
  migration goes on, and a stopped program is started again.
- `replication`: the handler and the follower's loop, which retries until it is
  stopped, are scheduled. Writes, faults and promotions are not fair; they are
  bounded.
- `access`: each call's goroutine goes on, and a finite stream ends. A client may
  hold a feed open for ever.
- `snapshots` (for `LockReleased`): the client reads what it is sent.
- `Collection`, `Query` and `Database` have safety properties only.

## Proofs

Every theorem holds for all values of the constants that satisfy the named
assumptions of its component's module. TLC evaluates them on the runs. The bounds
are naturals, at least one where the code needs it (`BoundsAssumption`,
`CollectionAssumption`); a value that marks absence is no proper value
(`NilAssumption`, `NoneAssumption`, `Nil \notin Value`); every configuration is one
the code accepts (`SettingsAssumption`, `TransactionsAssumption`,
`SnapshotsAssumption`, `AccessAssumption`); collections are numbers and finitely
many, and so are calls (`CollAssumption`, `CallsAssumption`). In `Encryption` every
policy passes `validate` (`PoliciesAssumption`), a document has no field
`secure_data`, which the known deviations are about (`DocsAssumption`), and keys are
numbered from 1, several of them only where no write is in flight when a migration
starts (`KeysAssumption`; see `MigrationComplete` without `Quiet` for what happens
otherwise). The state constraints of the `MC` modules play no part in the proofs.

| Theorem | Module | States |
|---|---|---|
| `AppendMeaning`, `CompactionKeepsMeaning`, `RebuildLocates` | `CollectionProofs` | what an append, a swap and a rebuild of the index do, as facts about logs alone |
| `TypeInvariant`, `BatchInvariant`, `LayoutInvariant` | `CollectionProofs` | types; ids held by a call increase and are at most the counter; where the files are at every step of a pass and a recovery |
| `ReplayOrderHolds` | `CollectionProofs` | `Spec => []ReplayOrder` |
| `CompactedInvariant`, `IndexInvariant` | `CollectionServiceProofs` | the temp files of a pass say what its segments say; the index points at exactly the records written |
| `DurableLogHolds`, `FreshIdsHold`, `ReadsSeeCommitsHold` | `CollectionServiceProofs` | `[]DurableLog`, `[]FreshIds`, `[]ReadsSeeCommits` |
| `FailedPersistHolds` | `CollectionServiceProofs` | `[]FailedPersistInvisible` |
| `UnmovedGetHolds` | `CollectionServiceProofs` | the action property `UnmovedGetIsCurrent` |
| `ImplementsRecordStore` | `CollectionServiceProofs` | `Spec /\ [](hist = {}) => RefinesRecordStore` |
| `RecordsInvariant`, `IndexesExact`, `LimitsAlwaysHold` | `RecordsProofs` | `[]IndexExact`, `[]LimitsHold` |
| `CasHasSeenIt`, `ReaperIsRight` | `RecordsProofs` | the action properties `CasSeesItsRead`, `ReapsOnlyExpired` |
| `TransactionsInvariant`, `BatchesKeepLimits`, `AnswersAreTrue` | `TransactionsProofs` | `[]LimitsHold`, `[]AppliedAsAnswered` |
| `MigrationInvariant`, `MigrationCompletes` | `EncryptionProofs` | `[]MigrationComplete` |
| `FormInvariant`, `ReadsBackHolds`, `QueriesSeePlaintextHolds` | `EncryptionProofs` | `[]ReadsBack`, `[]QueriesSeePlaintext` |
| `DatabaseInvariant`, `ReopensHold`, `OneOwnerHolds`, `WrongKeysRefused` | `DatabaseProofs` | `[]CanReopen`, `[]OneOwner`, `[]WrongKeyRefused` |
| `ArchivesRestoreTheirCut` | `SnapshotsProofs` | `[]RestoresCut` |
| `SlotsHold`, `AuditHolds` | `AccessProofs` | `[]SlotsExact`, `[]AuditFaithful` |

**Durability.** `DurableLog` compares the log *after* roll-forward
with what was written, so a step of the swap, a crash in it or in a recovery
does not change it: `RollForward` of a partly applied manifest is `RollForward`
of the whole. What is left is (1) appends, by `AppendMeaning`, which needs the
active segment to be the last; (2) the step that writes the manifest, after
which roll-forward means the new files, by `CompactionKeepsMeaning`. That needs
the sealed list to be all files below the active one in order, the number of
outputs to be below it, and the temp files to hold the survivors of exactly
those segments. None of this follows from `DurableLog`, so `LayoutInv` and
`CompactedInv` carry it; each conjunct of `LayoutInv` serves a step of the next:
`FilesInv` and `OpenInv` give the scan order, `PassInv` ties the snapshot to the
list while no rotation intervened, and `ManifestInv` keeps renames and removals
off the active segment.

**Reads and the refinement.** `ReadsSeeCommits` says nothing of the offsets behind
the answers, so it is not inductive. `IndexInv` adds them: every index entry names a
place of the log that holds the record. An append keeps old places (segments
only grow), and the swap and an `Open` without a usable `index.json` rebuild the
index, which `RebuildLocates` shows to be exact because `DurableLog` says what the
log means. `IndexInv` also speaks of the `index.json` that a Close leaves, so that
an `Open` that trusts it is covered. `FreshIds` rests on `IdInv`: every id used is
at most the persisted counter or in the active segment, the two places `load`
restores the counter from. With these, each action is one operation of `RecordStore`
or changes neither the records served nor the ids used. The theorem assumes
that no hazard occurs (`[](hist = {})`), as the run does by its constraint
`NoHazard`; each hazard has its own entry under the known deviations.

**A failed write of `index.json`.** The invariants above stop at a recorded hazard, and
this failure is one: it leaves a manifest behind while rotations and further passes
go on. `CalmInv` is a second invariant for the behaviours in which nothing else goes
wrong. Its core is that such a manifest has nothing left to do: the files it would
remove are gone and their numbers are below the active segment, which no later
rotation takes again, and when the collection is closed there are no temp files it
could rename, so an `Open` that rolls it forward changes nothing. With that the log on disk means what was written
without any roll-forward, each pass keeps it by `CompactionKeepsMeaning`, and the index
is exact whether it was kept, rebuilt or loaded. `CalmInv` holds on
the instance of `faults` too (name it in `MCCollectionFaults.cfg`).

**Records.** A write checks under the lock against the indexes, so `LimitsHold` needs
them to be exact (`ExactInv`), and exactness needs that no thread holds an index
it built earlier. `CasSeesItsRead` relates a step to a read made before it: `ReadInv`
says that the record read is gone for good, unchanged at the revision read, or at
a later revision; it needs that ids are not reused (`IssuedInv`). `ReapInv` says that
the time the reaper noted is not ahead of the clock.

**Transactions.** The batch is checked before its first operation and applied one
operation at a time. `BatchInv` and `QuotaInv` say that *what is left* would pass the
check again, against the records as they are half way; so the unique field holds at
every step and not only when the lock is free. For the answers, `SerialInv` follows
one request of a client that waits: what it has applied followed by what is left is
what was acknowledged. `OpenInv` and `ReapedInv` give the manager's side: whoever
removes a transaction from it is the only one to apply it.

**Encryption.** That a migration is complete is a fact about all its steps. `Migration`
says what each leaves to the next: after the rotation, whatever is of an older epoch
is sealed, or in a segment that a swap has dropped; while the merge runs, it is in the
merge's snapshot or in such a segment; so after the swap none is left anywhere else,
and none can come back, since every write is sealed at the epoch in force. A segment
counts as dropped from the swap on, also after a restart has listed it again: a pass
under way before `MigrateNow` can drop the segment that `MigrateNow` has just sealed,
and the theorem says nothing of its entries. `Epochs` keeps the persisted block at
most one change ahead of the one in memory: a policy change in between starts a new
epoch, and the migration then speaks of the old one. For reads, `Forms` says how every
form came about: under some policy of the read mode, which the first policy fixes
(`Modes`), and with a key that the ring still has and that is not older than the
key-check at the persisted epoch (`KeysInv`); of a dropped entry it says only that it
was sealed with some key. This part and `MigrationComplete` are why a retired key is
missed by no record outside the dropped segments. The lemma `ReadBack` shows that
`materialize` undoes `encrypt` for every document, policy, key and projection,
half-migrated records in plaintext included; a re-encrypting pass needs it to know
what it seals again. `FewerKeys` shows that a ring without the key turns an answer into
a refusal and never into another answer, which is what is left for a dropped entry that
a restart brings back. `QueriesSeePlaintext` adds a count: when as many live records are
at the epoch as there are, all are.

**Database.** `SaltInv`: under one passphrase all encrypted directories have one
salt, the open database uses it, and their keys derive from it; that is why the salt
that `FindPersistedKDF` meets first opens all of them. `OwnerInv`: live handles are the
registered ones. `CanReopen` and `OneOwner` speak of a passphrase that is neither
mistaken nor joined by keys changed at run time (`Steady`): the code promises no more,
and an `Open` that fails half way keeps what it opened. `WrongKeyRefused` holds in
every setting.

**Snapshots.** `SnapInv`: while a snapshot copies, the archive has exactly the segments
not left to copy, byte for byte as they are, and neither an index nor a manifest. The
read lock keeps them as they were at the cut.

**Access.** `SlotsExact` needs only that calls keep their places in the chain; the
cardinality lemmas of `FiniteSetTheorems` count the handlers. For `AuditFaithful`,
`Judged` carries through the chain who the credentials stood for in the key set
they were judged by, a reload in between included. Which calls must have a record
is the list of `docs/getting-started.md` (`Recorded`), not the code's own.

Only model-checked:

- all liveness properties (fairness is beyond the prover);
- `LastWriteWins`, `RevisionsSurviveReplay`, `FilesAreTheCut` in `Replay` and
  `StalenessBounded` in `Replication`: what a loop or a fold computes needs induction
  over data;
- the properties of `Query`, whose filters are recursive;
- `FeedHasNoGap` and `FailoverConverges` in `Replication`: no inductive invariant is
  written for them;
- the exactness of an index built while writes run, which does not hold (see the
  known deviations).

## Abstractions

`Collection`:

- An entry has size one and its payload is a model value. The records of one
  batch share theirs and differ by id only. A rejected batch stands for a quota or
  unique-index refusal (nothing written) and for an oversized record (the ones
  before it written).
- Ids are bounded. When they are used up no insert is possible; the 64-bit
  counter of the code does not reach its limit.
- A crash is the death of the process: what was written to a file stays, a torn
  last line is dropped. An append or fsync that fails after part of its bytes
  is not modelled. Power loss is modelled in `Replication` alone.
- A call in flight when the collection closes or crashes returns an error.
- The decision to compact (`isDirty`) is left open: any pass with a sealed
  segment may run, as a forced one does.
- `rebalance` is left out here: `FilesAreTheCut` shows in `Replay` that it merges
  nothing a pass wrote.
- A crash while temp files are written is shown with the first one partly
  written; `Open` removes them all.
- `resolveEntries` drops no expired record; deadlines are in `Records`.
- A rename that fails in the middle of a swap is not modelled.

The others:

- Documents have a few fields and values are ranks: a number and a string with
  the same printed form share a rank (`Values`). Regular expressions and
  substrings are relations on ranks.
- A ciphertext is a record of key, field and plaintext (`Encryption`); a key
  derived from a passphrase is its salt (`Database`). The primitives are taken
  to be correct.
- In `Records` and `Transactions` a record is in memory and in the log at once; what
  the segments add is `Collection`'s subject. There `insert` issues the id and sets the
  deadline in one step, `checkQuota` counts records and not bytes, and dropping a
  collection is one step.
- `Replication` has no compaction, so `index.json` is written at Open and at a clean
  Close only: after a crash a follower serves the records of that file. A promotion is one step.
- `Encryption` has no deletes, and a dirty pass runs whenever a superseded entry is
  sealed, whatever the share. The segments that a restart lists again keep their
  revisions, as `Rebuild` does, so the newest entry of a record is the one served.
- `Database`: a Close that fails is not modelled, and an attempt to open a collection
  is one step.
- No record of `Query` has a deadline: whatever it says of `Count` and `Aggregate` holds
  while no record has expired.
- A scan is one step of `Query`; writes come between pages. Groups that
  compare equal come in any order, and nothing is said of values whose comparison is
  not transitive (Known deviations).
- One collection stands for the database in `Replication` and `Snapshots`.
- Time is a counter (`Records`), a flag (`Transactions`) or the refill of one token
  (`Access`).

## Known deviations

Places where the code does something else than a comment, a document or a test
of the repository says. The properties named are in the modules under "Not
invariants of the code", or are the ones of a run without the condition it is
stated under; put in the `.cfg` TLC finds a counterexample.

### Log and compaction (`Collection`; one `.cfg` each)

| Instance, property | Code | What is said |
|---|---|---|
| `LostOnRotation`: `CompactionPreservesData` | `engine/compactor.go:175`: a segment sealed after the pass took its snapshot is dropped from `c.sealed`, and its records from the index | `compaction_property_test.go:236` "snapshot the live set, compact, and assert nothing changed" |
| `Outgrown`: `RenamesOnlySealed` | `engine/compactor.go:136`: output numbers are not bounded by the active segment's | `compact_manifest.go:22` "When the final name belongs to an old sealed segment the rename replaces that file atomically" |
| `StaleIndex`: `AcknowledgedSurviveCrash` | `engine/collection.go:379`: an `index.json` with readable locations is trusted after a crash | `docs/architecture.md:765` crash loss "Zero (for acknowledged writes)" |
| `IdReuse`: `NoIdReuse` | `engine/collection.go:998`: the new segment exists before `meta.json` has the counter | `collection.go:583` "a crash between writes cannot cause id reuse" |
| `GetRace`: `GetReturnsItsRecord` | `engine/collection.go:815`: the location is used after the lock is released | `collection.go:827` "Get returns the fully-resolved record for id" |
| `LeftManifest`: `LeftManifestHarmless` | `engine/compactor.go:191`: the manifest of a failed pass names the next pass's temp files | `compactor.go:188` "the manifest is deliberately left in place" |
| `LeftTemps`: `DeletedStayDeleted` | `engine/compactor.go:399`: temp files are opened for append | `compaction_property_test.go:62` "these must not resurface after compaction" |
| `PartialBatch`: `RejectedBatchWritesNothing` | `engine/collection.go:647`: an oversized record is refused when its turn comes | `collection.go:590` "appends a batch of keyless records atomically" |

### Records and transactions

| Property | Code | What is said |
|---|---|---|
| `KeysAreUnique`; `LimitsHold`, `IndexExact` with `MaxBuilds > 0` | `engine/collection.go:1396`, `compactor.go:210`: indexes are rebuilt without the write lock, and a write in between is lost from them; `collection.go:1381`: a plain index on `_key` is taken for a unique one | `secondary_index.go:346` "Must be called while the Collection write lock is held."; `keys.go:38` "key already held by a live record is rejected" |
| `DroppedStaysDropped` with `MaxBuilds > 0` | `engine/compactor.go:213`: a pass persists an index dropped meanwhile | `docs/architecture.md:373` "removes from memory and deletes" |
| `CountIsScan` | `engine/count.go:27`: expired records count until they are reaped | `count.go:21` "equals len(Scan(f)) for every filter" |
| `UpsertIsVisible` | `engine/keys.go:127`: an upsert of an expired record keeps its deadline | `keys.go:86` "inserts data under key if no live record carries it" |
| `KeyIsFixed` | `engine/collection.go:685`: `Update` of a keyed record drops the key | `docs/architecture.md:445` "a record's key is fixed for its lifetime" |
| `AppliedAsAnswered` without `SerialClients` | `server/grpc.go:946`, `961`: look-up, snapshot and removal are separate steps, so an operation staged meanwhile is lost and a rolled back transaction can commit | `docs/architecture.md:731` "staged in memory and applied atomically on commit" |
| `AppliedAsAnswered` with faults | `engine/collection.go:1131`, `1141`: a crash or a failing append leaves a prefix of the batch | `collection.go:1042` "applies a slice of staged transaction ops atomically" |
| `VisibleIsPublished` with faults | `engine/collection.go:1192`: after a failed fsync the entries are indexed and not published | `docs/architecture.md:837` "identical to the leader's" |
| `InsertsAreFresh` with drops | `engine/collection.go:1133`: a transaction outlives the collection it was begun on | `docs/architecture.md:430` "a monotonic `uint64` id" |
| `RevsMonotonic` | `engine/collection.go:1159`: an update after a delete in one batch restarts at revision 1 | `collection.go:1158` "keeps revs monotonic within the batch" |

### Queries, encryption, registry

| Property | Code | What is said |
|---|---|---|
| `PagesExactlyOnce` with text between two numbers | `engine/scan.go:450`: the comparison of mixed values is not transitive (9 < 10 < "5x" < 9) | `scan.go:451` "so the ordering is total" |
| `InsertionOrder` | `engine/scan.go:361`: an updated record moves to the end | `docs/architecture.md:166` "results are returned in insertion (id) order." |
| `OneEmission` | `engine/aggregate.go:136`: groups that compare equal come in map order | `aggregate.go:129` "Emit in a deterministic order" |
| `QueriesGated` | `engine/encryption.go:407`: a field just de-encrypted can be queried before its records are migrated | `encryption.go:405` "migration pass completes, which is why queries newly enabled" |
| `MigrationComplete` without `Quiet` | `engine/collection.go:543`: data is sealed before the lock and appended after the migration | `compactor.go:232` "no stale old-form bytes remain" |
| `MigrationPurges`, `RetiredKeysUnneeded` | `engine/compactor.go:175`: a pass that began before `MigrateNow` drops the segment `MigrateNow` has just sealed; its file stays, in the old form, and a restart serves it again, with a key retired meanwhile not at all | `compactor.go:232` "no stale old-form bytes remain", `:233` "so an old key can be retired" |
| `ReadsBack` for documents with a field `secure_data` | `engine/encryption.go:303`: a plaintext field of that name is not returned in record mode | `encryption.go:379` "yields an empty map" |
| `CanReopen` with run-time changes | `engine/encryption.go:497`: after a crash between the rotations of two collections neither key opens both; `encryption_admin.go:117`: a policy set at run time does not persist the salt | `src/encryption.go:52` "every subsequent Open re-derives the same key from the persisted salt" |
| `OneOwner` with failing opens | `engine/db.go:75`: the collections opened before the one that fails are not closed | `compactor.go:56` "serializes with the background compactor via compactMu" |
| `CachedIsOpen` with drops through `Engine()` | `scriva.go:192`: a cached handle is returned unasked | `scriva.go:183` "opens (or creates) the named collection" |

By reading only: after a policy is disabled and migrated, the other mode is still
refused (`encryption_admin.go:96`, against its comment at line 72).

### Replication, snapshots, server

| Property | Code | What is said |
|---|---|---|
| `LsnNeverRepeats`, `CaughtUpIsEqual` | `engine/replication.go:286`: the LSN is persisted at clean shutdown only; line 482: a forced promotion starts below the old leader's LSNs | `replication.go:251` "so LSNs never repeat across a restart" |
| `CaughtUpIsEqual` | `engine/db.go:151`: a drop is not published | `docs/architecture.md:837` "identical to the leader's" |
| `PromotedStopsApplying` | `server/replication.go:225`: an entry received before the promotion is applied after it | `replication.go:453` "it stops the apply loop" |
| `RecordsNeverGoBack` | `engine/replication.go:556`: an entry older than the snapshot brings a deleted record back until its delete comes | `docs/architecture.md:880` "re-applying them is a no-op" |
| `AppliedIsDurable` | `engine/replication.go:343`: the watermark is fsynced and the entry need not be | `replication.go:333` "durably applied" |
| `AppliedIsHeld` | `engine/collection.go:379`: after a crash a follower serves the records of an older `index.json` while `replication.json` has the later watermark, and the feed resumes behind what is missing | `replication.go:333` "durably applied" |
| `NoTempInBackup`, `CopyNeverFails` | `engine/snapshot.go:87`, `116`: temp files of `writeFileAtomic` are listed, copied or gone | `snapshot.go:86` "half-written temp file must never land in a backup." |
| `LockReleased` without a reading client | `engine/snapshot.go:139`: the copy is sent under the lock | `snapshot.go:60` "for the (brief) duration of the copy." |
| `ShedIsLogged` | `server/limits.go:72`: the limiter is outside the log interceptor | `limits.go:68` "shed request is still logged" |
| `RejectedIsUnauthenticated` | `internal/auth/apikey.go:361`: the sink is filled before the scope is checked, so the record of a call refused for its scope names the key's owner | `apikey.go:110` "On a rejected call the sink stays", `docs/operations.md:162` "on a rejected call the sink stays empty" |

By reading only: keys without a name share a token bucket (`server/limits.go:106`),
and a read-scoped key is refused `FindByKey` and `Aggregate`
(`internal/auth/scope.go:95`).

## Not modelled

- **Watch feed** (`Subscribe`, `emit`): nothing depends on it. Read from the code:
  events are emitted after the lock is released, so two writes of a record can
  arrive in the other order (`engine/collection.go:925`; `examples/watch/main.go:43`
  says "in commit order"), and the overflow sentinel waits for a later write.
- **Concurrent writes of `meta.json`**: a write is one step. `CommitTx` writes it
  after releasing the lock and through one temporary name (`fsync.go:16`), so an
  older snapshot can replace a newer one.
- **Scans beside writers**: a scan holds no lock while it reads, so a swap can
  move a record behind it or ahead of it (`engine/scan.go:356`, `371`).
- **Bulk load** (`LoadJSONL`): parsing, then one `CommitTx`, with its deviations.
- **Server life cycle**: start-up, follower bootstrap into a directory,
  shutdown; REST gateway, TLS, flags, configuration, metrics, tracing, logging.
- **Clients, command-line tools, generated protocol code**: no state the engine
  depends on.
- **Cryptographic primitives, JSON encoding, the file system**: taken as correct.

---------------------------- MODULE Replication -----------------------------
(***************************************************************************)
(* Leader to follower log shipping: the replication broker with its LSN    *)
(* counter, ring and subscriber buffers, the Replicate handler, snapshot   *)
(* bootstrap, the follower's tail and idempotent apply, the persisted      *)
(* watermarks, restarts, and manual promotion.                             *)
(*                                                                         *)
(* One collection stands for the database: collections share one LSN order *)
(* and only DropCollection tells them apart.  A payload is the number of   *)
(* the commit that wrote it.  A write is one action, since append, index   *)
(* update and publish run in one critical section of c.mu.                 *)
(***************************************************************************)
EXTENDS Integers, Sequences, SequencesExt, FiniteSetsExt

CONSTANTS Node,            \* servers
          First,           \* the node that starts as leader
          PromoteMaxLag,   \* --promote-max-lag
          Deployments      \* the clusters and the bounds to explore

FaultKinds == {"close", "crash", "leaderCrash", "power", "disconnect"}

ASSUME ReplicationAssumption ==
  /\ PromoteMaxLag \in Nat
  /\ \A d \in Deployments :
        /\ First \in d.nodes /\ d.nodes \subseteq Node
        /\ {d.ring, d.ids} \subseteq Nat \ {0}
        /\ d.sync \in BOOLEAN
        /\ d.faults \subseteq FaultKinds

VARIABLES
  deploy,    \* the deployment of this behaviour
  role,      \* db.role
  upstream,  \* --replicate-from; First follows nobody
  data,      \* the records the index serves: id -> [rev, tag]
  segs,      \* the records a rebuild would find in the segments
  synced,    \* the part of segs an fsync has covered
  index,     \* what index.json describes, and the applied LSN when it was written
  idSeq,     \* the id counter
  lsn,       \* broker.lsn
  ring,      \* broker.ring, oldest first
  applied,   \* db.appliedLSN
  known,     \* db.lastLeaderLSN
  file,      \* replication.json
  tail,      \* where the follower's start-up and Run loop is
  mark,      \* the watermark Bootstrap read
  hand,      \* the record the loop received and is applying, or NoRecord
  wire,      \* records sent and not yet received
  sub,       \* the leader's side of the feed: backlog, ch, dead
  log,       \* history: every commit in order
  trusted,   \* history: the LSNs of the index files a node was restarted from
             \* without a Close
  faults, promotes, drops

Ids == 1..deploy.ids             \* record ids
RingSize == deploy.ring          \* --replication-ring-size, and the subscriber buffer
SyncAlways == deploy.sync        \* --sync=always: an append is on stable storage
Faults == deploy.faults          \* the faults that happen
MaxFaults == deploy.maxFaults    \* restarts, crashes and lost connections (bound)
MaxCommits == deploy.commits     \* commits (bound)
MaxPromotes == deploy.promotes   \* promotions (bound)
MaxDrops == deploy.drops         \* collections dropped (bound)

Absent == [rev |-> 0, tag |-> 0]
NoRecord == [lsn |-> 0, op |-> "none", id |-> 0, rev |-> 0, tag |-> 0]
NoSub == [open |-> FALSE, backlog |-> <<>>, ch |-> <<>>, dead |-> FALSE]
Ended == [NoSub EXCEPT !.dead = TRUE]   \* FAILED_PRECONDITION is on its way
Empty == [i \in Ids |-> Absent]

brokerVars == <<lsn, ring>>
markVars == <<applied, known, file>>
tailVars == <<tail, mark, hand, wire, sub>>
boundVars == <<deploy, faults, promotes, drops>>
storeVars == <<data, segs, synced, index, idSeq>>
logVars == <<log, trusted>>
vars == <<role, upstream, storeVars, brokerVars, markVars, tailVars, logVars, boundVars>>

Followers == {n \in deploy.nodes : role[n] = "follower"}

Init ==
  /\ deploy \in Deployments
  /\ role = [n \in Node |-> IF n = First THEN "leader" ELSE "follower"]
  /\ upstream = [n \in Node |-> First]
  /\ data = [n \in Node |-> Empty]
  /\ segs = data /\ synced = data
  /\ index = [n \in Node |-> [data |-> Empty, lsn |-> 0]]
  /\ idSeq = [n \in Node |-> 0]
  /\ lsn = [n \in Node |-> 0]
  /\ ring = [n \in Node |-> <<>>]
  /\ applied = [n \in Node |-> 0]
  /\ known = [n \in Node |-> 0]
  /\ file = [n \in Node |-> [leader |-> 0, applied |-> 0]]
  /\ tail = [n \in Node |-> IF n = First THEN "none" ELSE "fresh"]
  /\ mark = [n \in Node |-> 0]
  /\ hand = [n \in Node |-> NoRecord]
  /\ wire = [n \in Node |-> <<>>]
  /\ sub = [n \in Node |-> NoSub]
  /\ log = <<>>
  /\ trusted = [n \in Node |-> {}]
  /\ faults = 0 /\ promotes = 0 /\ drops = 0
-----------------------------------------------------------------------------
(* The broker.                                                             *)

\* Mutant: an empty ring claims to serve the entry before the next one.
OldestTooLow(n) == IF ring[n] = <<>> THEN lsn[n] ELSE Head(ring[n]).lsn

\* broker.oldest(): the lowest LSN the ring can still serve.
Oldest(n) == IF ring[n] = <<>> THEN lsn[n] + 1 ELSE Head(ring[n]).lsn

\* The ring after publish: full, it loses its oldest entry.
Pushed(r, e) == Append(IF Len(r) < RingSize THEN r ELSE Tail(r), e)

\* Mutant: a full buffer drops the entry instead of killing the subscriber.
OfferOrDrop(s, e) == IF s.open /\ Len(s.ch) < RingSize THEN [s EXCEPT !.ch = Append(@, e)] ELSE s

\* What publish does to a subscriber: a full buffer kills it, a dead one is
\* left alone.
Offer(s, e) ==
  IF ~s.open \/ s.dead THEN s
  ELSE IF Len(s.ch) < RingSize THEN [s EXCEPT !.ch = Append(@, e)]
  ELSE [s EXCEPT !.dead = TRUE]

\* broker.publish: the next LSN, the ring, and every subscriber.
Publish(n, op, id, rev, tag) ==
  LET e == [lsn |-> lsn[n] + 1, op |-> op, id |-> id, rev |-> rev, tag |-> tag]
  IN  /\ lsn' = [lsn EXCEPT ![n] = @ + 1]
      /\ ring' = [ring EXCEPT ![n] = Pushed(@, e)]
      /\ sub' = [f \in Node |-> IF upstream[f] = n /\ f # n THEN Offer(sub[f], e) ELSE sub[f]]
      /\ log' = Append(log, e)

\* Seeded: setLSN only raises the counter.
Seeded(n, floor) == IF floor > lsn[n] THEN floor ELSE lsn[n]

\* What Rebuild makes of an entry that follows old: the last one wins, and its
\* revision is counted up where the entry's own is not higher.
Rebuilt(old, r) ==
  IF r = Absent THEN Absent ELSE [r EXCEPT !.rev = IF @ > old.rev THEN @ ELSE old.rev + 1]

\* An append and its index update, flushed at once under --sync=always.
Store(n, id, r) ==
  LET new == Rebuilt(segs[n][id], r)
  IN  /\ data' = [data EXCEPT ![n][id] = r]
      /\ segs' = [segs EXCEPT ![n][id] = new]
      /\ synced' = IF SyncAlways THEN [synced EXCEPT ![n][id] = new] ELSE synced
-----------------------------------------------------------------------------
(* Writes on a leader.                                                     *)

\* The operator fences the old leader before a promotion.
Writable(n) ==
  /\ role[n] = "leader" /\ Len(log) < MaxCommits
  /\ promotes > 0 => n # First

Insert(n) ==
  /\ Writable(n)
  /\ idSeq[n] + 1 \in Ids
  /\ idSeq' = [idSeq EXCEPT ![n] = @ + 1]
  /\ LET id == idSeq[n] + 1
         tag == Len(log) + 1
     IN  /\ Store(n, id, [rev |-> 1, tag |-> tag])
         /\ Publish(n, "insert", id, 1, tag)
  /\ UNCHANGED <<role, upstream, index, trusted, markVars, tail, mark, hand, wire, boundVars>>

Update(n, id) ==
  /\ Writable(n)
  /\ data[n][id] # Absent
  /\ LET rev == data[n][id].rev + 1
         tag == Len(log) + 1
     IN  /\ Store(n, id, [rev |-> rev, tag |-> tag])
         /\ Publish(n, "update", id, rev, tag)
  /\ UNCHANGED <<role, upstream, index, trusted, idSeq, markVars, tail, mark, hand, wire, boundVars>>

Delete(n, id) ==
  /\ Writable(n)
  /\ data[n][id] # Absent
  /\ Store(n, id, Absent)
  /\ Publish(n, "delete", id, 0, 0)
  /\ UNCHANGED <<role, upstream, index, trusted, idSeq, markVars, tail, mark, hand, wire, boundVars>>

\* DropCollection and the CreateCollection that follows: no entry is
\* published, and the new collection numbers its records from 1 again.
DropCollection(n) ==
  /\ role[n] = "leader" /\ drops < MaxDrops
  /\ data' = [data EXCEPT ![n] = Empty]
  /\ segs' = [segs EXCEPT ![n] = Empty]
  /\ synced' = [synced EXCEPT ![n] = Empty]
  /\ index' = [index EXCEPT ![n].data = Empty]
  /\ idSeq' = [idSeq EXCEPT ![n] = 0]
  /\ drops' = drops + 1
  /\ UNCHANGED <<role, upstream, brokerVars, markVars, tailVars, logVars, deploy, faults, promotes>>

\* The interval flush, or the operating system's.  First never loses power here,
\* so its fsynced part is not looked at.
Flush(n) ==
  /\ n # First
  /\ synced[n] # segs[n]
  /\ synced' = [synced EXCEPT ![n] = segs[n]]
  /\ UNCHANGED <<role, upstream, data, segs, index, idSeq, brokerVars, markVars, tailVars, logVars, boundVars>>
-----------------------------------------------------------------------------
(* The follower.                                                           *)

\* Bootstrap, first call: the leader's LSN.
ReadWatermark(f) ==
  /\ tail[f] = "fresh"
  /\ mark' = [mark EXCEPT ![f] = lsn[upstream[f]]]
  /\ tail' = [tail EXCEPT ![f] = "marked"]
  /\ UNCHANGED <<role, upstream, storeVars, brokerVars, markVars, hand,
                 wire, sub, logVars, boundVars>>

\* What persistReplState writes.
ReplState(n, a) == [leader |-> lsn[n], applied |-> a]

\* SetAppliedLSN: the watermark only rises, and replication.json follows it.
SetAppliedLSN(f, n) ==
  IF n <= applied[f] THEN UNCHANGED <<applied, file>>
  ELSE /\ applied' = [applied EXCEPT ![f] = n]
       /\ file' = [file EXCEPT ![f] = ReplState(f, n)]

\* Bootstrap, second call: SnapshotTo on the leader, extractSnapshot here,
\* then Open, which rebuilds the index the archive leaves out and persists it,
\* and SetAppliedLSN(watermark).  The extracted files are not fsynced.  The id
\* counter comes back from the archived segments.
TakeSnapshot(f) ==
  LET u == upstream[f]
  IN  /\ tail[f] = "marked"
      /\ data' = [data EXCEPT ![f] = segs[u]]
      /\ segs' = [segs EXCEPT ![f] = segs[u]]
      /\ index' = [index EXCEPT ![f] = [data |-> segs[u], lsn |-> mark[f]]]
      /\ idSeq' = [idSeq EXCEPT ![f] = idSeq[u]]
      /\ SetAppliedLSN(f, mark[f])
      /\ tail' = [tail EXCEPT ![f] = "idle"]
      /\ mark' = [mark EXCEPT ![f] = 0]
      /\ UNCHANGED <<role, upstream, synced, brokerVars, known, hand, wire, sub, logVars, boundVars>>

\* NoteLeaderLSN.
Noted(f, n) == [known EXCEPT ![f] = IF n > @ THEN n ELSE @]

\* broker.subscribe: the ring's entries after fromLSN, and an empty channel.
Subscribed(u, from) ==
  [NoSub EXCEPT !.open = TRUE, !.backlog = SelectSeq(ring[u], LAMBDA e : e.lsn > from)]

\* Follower.stream opens a feed: the status probe, then Replicate, whose
\* handler subscribes.  A follower behind the ring is refused with
\* FAILED_PRECONDITION, and Run stops.
Connect(f) ==
  LET u == upstream[f]
      from == applied[f]
  IN  /\ role[f] = "follower" /\ tail[f] = "idle"
      /\ known' = Noted(f, lsn[u])
      /\ IF from + 1 < Oldest(u)
         THEN /\ tail' = [tail EXCEPT ![f] = "stopped"]
              /\ UNCHANGED sub
         ELSE /\ tail' = [tail EXCEPT ![f] = "open"]
              /\ sub' = [sub EXCEPT ![f] = Subscribed(u, from)]
      /\ UNCHANGED <<role, upstream, storeVars, brokerVars, applied,
                     file, mark, hand, wire, logVars, boundVars>>

\* The Replicate handler sends a record: the backlog first, then the channel.
Ship(f) ==
  LET from == IF sub[f].backlog # <<>> THEN sub[f].backlog ELSE sub[f].ch
  IN  /\ sub[f].open /\ from # <<>>
      /\ wire' = [wire EXCEPT ![f] = Append(@, Head(from))]
      /\ sub' = [sub EXCEPT ![f] = IF @.backlog # <<>> THEN [@ EXCEPT !.backlog = Tail(@)]
                                                       ELSE [@ EXCEPT !.ch = Tail(@)]]
      /\ UNCHANGED <<role, upstream, storeVars, brokerVars, markVars,
                     tail, mark, hand, logVars, boundVars>>

\* Mutant: the handler of a dead subscriber goes on waiting.
EndDeadNever(f) == sub[f].open /\ sub[f].dead /\ UNCHANGED vars

\* The handler sees Dead and ends the stream with FAILED_PRECONDITION, and
\* unsubscribes; the status arrives after the records already sent.
EndDead(f) ==
  /\ sub[f].open /\ sub[f].dead /\ sub[f].backlog = <<>>
  /\ sub' = [sub EXCEPT ![f] = Ended]
  /\ UNCHANGED <<role, upstream, storeVars, brokerVars, markVars, tail,
                 mark, hand, wire, logVars, boundVars>>

\* The follower reads that status: Run returns.
Stop(f) ==
  /\ tail[f] = "open" /\ sub[f] = Ended /\ wire[f] = <<>>
  /\ tail' = [tail EXCEPT ![f] = "stopped"]
  /\ UNCHANGED <<role, upstream, storeVars, brokerVars, markVars, mark,
                 hand, wire, sub, logVars, boundVars>>

\* Any other error: Run reconnects after its backoff.
Retry(f) ==
  /\ tail[f] = "open" /\ sub[f] = NoSub /\ wire[f] = <<>>
  /\ tail' = [tail EXCEPT ![f] = "idle"]
  /\ UNCHANGED <<role, upstream, storeVars, brokerVars, markVars, mark,
                 hand, wire, sub, logVars, boundVars>>

\* rs.Recv() returns the next record.
Receive(f) ==
  /\ tail[f] = "open" /\ wire[f] # <<>>
  /\ hand' = [hand EXCEPT ![f] = Head(wire[f])]
  /\ wire' = [wire EXCEPT ![f] = Tail(@)]
  /\ tail' = [tail EXCEPT ![f] = "received"]
  /\ UNCHANGED <<role, upstream, storeVars, brokerVars, markVars, mark,
                 sub, logVars, boundVars>>

\* Has applyEntry seen this entry's effect already?
Redundant(d, e) ==
  IF e.op = "delete" THEN d[e.id] = Absent
  ELSE d[e.id] # Absent /\ d[e.id].rev >= e.rev

\* What an entry leaves of its record.
Effect(e) == IF e.op = "delete" THEN Absent ELSE [rev |-> e.rev, tag |-> e.tag]

\* Where the loop goes after a record: a promotion has cancelled its context.
Looping(f) == IF role[f] = "follower" THEN "open" ELSE "none"

\* ApplyReplication: an entry whose effect is there is skipped, anything else is
\* written as it came, and the id counter stays ahead of it.
ApplyEntry(f, e) ==
  IF Redundant(data[f], e) THEN UNCHANGED <<data, segs, synced, idSeq>>
  ELSE /\ Store(f, e.id, Effect(e))
       /\ idSeq' = [idSeq EXCEPT ![f] = IF e.id > @ THEN e.id ELSE @]

\* A record the watermark covers is skipped before it reaches the engine.
Apply(f) ==
  LET e == hand[f]
  IN  /\ tail[f] = "received"
      /\ known' = Noted(f, e.lsn)
      /\ IF e.lsn <= applied[f]
         THEN /\ tail' = [tail EXCEPT ![f] = Looping(f)]
              /\ hand' = [hand EXCEPT ![f] = NoRecord]
              /\ UNCHANGED <<data, segs, synced, idSeq>>
         ELSE /\ tail' = [tail EXCEPT ![f] = "applied"]
              /\ UNCHANGED hand
              /\ ApplyEntry(f, e)
      /\ UNCHANGED <<role, upstream, index, brokerVars, applied, file, mark, wire, sub, logVars, boundVars>>

\* SetAppliedLSN(rec.Lsn).
Advance(f) ==
  /\ tail[f] = "applied"
  /\ SetAppliedLSN(f, hand[f].lsn)
  /\ hand' = [hand EXCEPT ![f] = NoRecord]
  /\ tail' = [tail EXCEPT ![f] = Looping(f)]
  /\ UNCHANGED <<role, upstream, storeVars, brokerVars, known, mark,
                 wire, sub, logVars, boundVars>>
-----------------------------------------------------------------------------
(* Promotion and faults.                                                   *)

\* ReplicationLag: the last known leader LSN less the applied one.
Lag(f) == IF known[f] > applied[f] THEN known[f] - applied[f] ELSE 0

\* DB.Promote: the guard on the lag, the role, the LSN counter, the hook that
\* cancels the tail, and replication.json.  A record already received is past
\* the cancellation and is still applied.
Promote(f, force) ==
  LET floor == Seeded(f, applied[f])
  IN  /\ role[f] = "follower" /\ promotes < MaxPromotes
      /\ tail[f] \notin {"fresh", "marked"}
      /\ force \/ Lag(f) <= PromoteMaxLag
      /\ role' = [role EXCEPT ![f] = "leader"]
      /\ lsn' = [lsn EXCEPT ![f] = floor]
      /\ tail' = [tail EXCEPT ![f] = IF @ \in {"received", "applied"} THEN @ ELSE "none"]
      /\ wire' = [wire EXCEPT ![f] = <<>>]
      /\ sub' = [sub EXCEPT ![f] = NoSub]
      /\ file' = [file EXCEPT ![f] = [leader |-> floor, applied |-> applied[f]]]
      /\ promotes' = promotes + 1
      /\ UNCHANGED <<upstream, storeVars, ring, applied, known, mark,
                     hand, logVars, deploy, faults, drops>>

\* What a restart leaves of a node: its files and its flags, so a promoted node
\* comes back as a follower.  load takes the records from index.json when its
\* segments are there.  Feeds to and from the node break.
Restart(n, ix, s, st, up) ==
  LET was(f) == f = n \/ (upstream[f] = n /\ role[f] = "follower")
  IN  /\ data' = [data EXCEPT ![n] = ix.data]
      /\ segs' = [segs EXCEPT ![n] = s]
      /\ index' = [index EXCEPT ![n] = ix]
      /\ file' = [file EXCEPT ![n] = st]
      /\ lsn' = [lsn EXCEPT ![n] = st.leader]
      /\ ring' = [ring EXCEPT ![n] = <<>>]
      /\ applied' = [applied EXCEPT ![n] = st.applied]
      /\ known' = [known EXCEPT ![n] = 0]
      /\ upstream' = [upstream EXCEPT ![n] = up]
      /\ role' = [role EXCEPT ![n] = IF n = First THEN "leader" ELSE "follower"]
      /\ tail' = [tail EXCEPT ![n] = IF n = First THEN "none" ELSE "idle"]
      /\ hand' = [hand EXCEPT ![n] = NoRecord]
      /\ wire' = [f \in Node |-> IF was(f) THEN <<>> ELSE wire[f]]
      /\ sub' = [f \in Node |-> IF was(f) THEN NoSub ELSE sub[f]]
      /\ mark' = [mark EXCEPT ![n] = 0]
      /\ UNCHANGED <<synced, idSeq, log>>

Settled(n) == tail[n] \notin {"fresh", "marked"}

\* What Close persists as index.json.
ClosedIndex(n) == [data |-> data[n], lsn |-> applied[n]]

\* Close, which writes index.json and replication.json, then Open.
CleanRestart(n) ==
  /\ "close" \in Faults /\ faults < MaxFaults /\ Settled(n)
  /\ tail[n] \notin {"received", "applied"}
  /\ Restart(n, ClosedIndex(n), segs[n], ReplState(n, applied[n]), upstream[n])
  /\ faults' = faults + 1
  /\ UNCHANGED <<trusted, deploy, promotes, drops>>

\* A restart without a Close, from the index ix, the segments s and the
\* replication.json on disk.
Recover(n, ix, s) ==
  /\ faults < MaxFaults /\ Settled(n)
  /\ Restart(n, ix, s, file[n], upstream[n])
  /\ trusted' = [trusted EXCEPT ![n] = @ \cup {ix.lsn}]
  /\ faults' = faults + 1
  /\ UNCHANGED <<deploy, promotes, drops>>

\* The process dies.  Its segments hold every write, and its index.json those
\* before it was last persisted: load trusts the index.
Crash(n) ==
  /\ IF role[n] = "leader" THEN "leaderCrash" \in Faults ELSE "crash" \in Faults
  /\ Recover(n, index[n], segs[n])

\* The machine dies, and what no fsync covered is lost: the index is trusted when
\* the entries it names are still there, and rebuilt from the others if not.
PowerLoss(n) ==
  /\ "power" \in Faults /\ role[n] = "follower"
  /\ \E d \in {index[n].data, synced[n]} : Recover(n, [index[n] EXCEPT !.data = d], synced[n])

\* The operator restarts a follower with --replicate-from naming a new leader.
Repoint(f, n) ==
  /\ promotes > 0 /\ f # n /\ Settled(f)
  /\ role[f] = "follower" /\ role[n] = "leader" /\ upstream[f] # n
  /\ tail[f] \notin {"received", "applied"}
  /\ Restart(f, ClosedIndex(f), segs[f], ReplState(f, applied[f]), n)
  /\ UNCHANGED <<trusted, boundVars>>

\* The connection breaks, and the records in flight are lost.
Disconnect(f) ==
  /\ "disconnect" \in Faults /\ faults < MaxFaults
  /\ sub[f].open
  /\ wire' = [wire EXCEPT ![f] = <<>>]
  /\ sub' = [sub EXCEPT ![f] = NoSub]
  /\ faults' = faults + 1
  /\ UNCHANGED <<role, upstream, storeVars, brokerVars, markVars, tail,
                 mark, hand, logVars, deploy, promotes, drops>>
-----------------------------------------------------------------------------
Write(n) == Insert(n) \/ \E id \in Ids : Update(n, id) \/ Delete(n, id)

Follow(f) ==
  \/ ReadWatermark(f) \/ TakeSnapshot(f) \/ Connect(f)
  \/ Ship(f) \/ EndDead(f) \/ Stop(f) \/ Retry(f)
  \/ Receive(f) \/ Apply(f) \/ Advance(f)

Next == \E n \in deploy.nodes :
  \/ Write(n) \/ DropCollection(n) \/ Flush(n)
  \/ Follow(n)
  \/ \E force \in BOOLEAN : Promote(n, force)
  \/ CleanRestart(n) \/ Crash(n) \/ PowerLoss(n) \/ Disconnect(n)
  \/ \E m \in deploy.nodes : Repoint(n, m)

Spec == Init /\ [][Next]_vars

\* The goroutines of both ends are scheduled: the handler sends while its
\* select has something, and Run's loop retries until it is stopped.
Fairness == \A f \in Node : WF_vars(f \in deploy.nodes /\ Follow(f))

FairSpec == Spec /\ Fairness

-----------------------------------------------------------------------------
(* Properties.                                                             *)

\* Roles, watermarks and buffers have their types, and no buffer of the broker
\* outgrows its ring (replBroker).
TypeOK ==
  /\ role \in [Node -> {"leader", "follower"}]
  /\ upstream \in [Node -> Node]
  /\ \A n \in Node : \A d \in {data[n], segs[n], synced[n], index[n].data} :
        d \in [Ids -> [rev : Nat, tag : 0..MaxCommits]]
  /\ \A n \in Node : {idSeq[n]} \subseteq Ids \cup {0}
  /\ \A n \in Node : {lsn[n], applied[n], known[n], mark[n], index[n].lsn} \subseteq 0..MaxCommits
  /\ trusted \in [Node -> SUBSET (0..MaxCommits)]
  /\ file \in [Node -> [leader : 0..MaxCommits, applied : 0..MaxCommits]]
  /\ tail \in [Node -> {"none", "fresh", "marked", "idle", "open", "received", "applied", "stopped"}]
  /\ \A n \in Node : Len(ring[n]) <= RingSize /\ Len(sub[n].ch) <= RingSize

\* The records after the first k commits.
Replayed(k) == FoldLeft(LAMBDA d, e : [d EXCEPT ![e.id] = Effect(e)], Empty, SubSeq(log, 1, k))

\* One leader that neither dies nor is replaced.
SteadyLeader ==
  /\ deploy.faults \cap {"leaderCrash", "power"} = {}
  /\ deploy.promotes = 0 /\ deploy.drops = 0

\* While the leader lives, a follower's record is what the leader's was at some
\* commit not before the follower's applied LSN or, once the follower has come
\* back from a crash, not before the LSN its index.json was written at: Bootstrap,
\* the resumed feed and applyEntry together miss nothing else up to the watermark
\* that ReplicationStatus reports.
StalenessBounded ==
  SteadyLeader => \A f \in Followers : Settled(f) =>
    \A i \in Ids : \E k \in Min(trusted[f] \cup {applied[f]})..Len(log) :
      data[f][i] = Replayed(k)[i]

\* What the loop, the connection and the leader's buffers hold for a follower is
\* an unbroken run of LSNs that starts no later than the next one it needs and,
\* unless publish has killed the subscriber, ends at the leader's last.
FeedHasNoGap ==
  \A f \in Followers : sub[f].open =>
    LET held == IF tail[f] \in {"received", "applied"} THEN <<hand[f]>> ELSE <<>>
        q == held \o wire[f] \o sub[f].backlog \o sub[f].ch
        last == lsn[upstream[f]]
    IN  /\ \A i \in 1..Len(q) - 1 : q[i + 1].lsn = q[i].lsn + 1
        /\ q # <<>> => q[1].lsn <= applied[f] + 1
        /\ ~sub[f].dead => IF q = <<>> THEN applied[f] >= last ELSE q[Len(q)].lsn = last

\* Under one leader, once the writes end, every follower's applied LSN is the
\* leader's or it has been told to bootstrap again, whatever was restarted or
\* disconnected on the way (Follower.Run).
FollowersCatchUp ==
  SteadyLeader => <>[](\A f \in Followers : tail[f] = "stopped" \/ applied[f] = lsn[upstream[f]])

\* No two commits carry the same LSN (replState, Promote).
LsnNeverRepeats == \A i, j \in 1..Len(log) : log[i].lsn = log[j].lsn => i = j

\* A follower restarted against a promoted leader and level with it holds its
\* records, if the promotion lost no commit of the old one: Promote's LSN and the
\* empty ring's Oldest turn away a follower that is behind.
FailoverConverges ==
  LsnNeverRepeats =>
    \A f \in Followers : LET u == upstream[f] IN
      /\ u # First /\ role[u] = "leader" /\ tail[u] = "none"
      /\ lsn[u] >= lsn[First] /\ applied[f] = lsn[u]
      => data[f] = data[u]

-----------------------------------------------------------------------------
(* Further properties, which hold on the instance of the run and are not   *)
(* part of it.                                                             *)

\* Every record a node holds was committed by a leader, with that payload and at
\* that revision or, where a rebuild has counted an entry twice, a higher one:
\* applyEntry and the snapshot write entries as they came.
OnlyCommitted ==
  \A n \in Node, i \in Ids : data[n][i] # Absent =>
    \E k \in 1..Len(log) : /\ log[k].op # "delete" /\ log[k].id = i
                           /\ data[n][i].tag = log[k].tag /\ data[n][i].rev >= log[k].rev

-----------------------------------------------------------------------------
(* Not invariants of the code: TLC finds each of these violated on the     *)
(* instance of the run.                                                     *)

\* A follower that has applied the leader's last LSN holds the leader's records.
CaughtUpIsEqual ==
  \A f \in Followers :
    Settled(f) /\ applied[f] >= lsn[upstream[f]] => data[f] = data[upstream[f]]

\* On a follower a deleted record does not come back (applyEntry).
RecordsNeverGoBack ==
  [][\A f \in Followers, i \in Ids :
       Settled(f) /\ i <= idSeq[f] /\ data[f][i] = Absent => data'[f][i] = Absent]_vars

\* A promoted node applies nothing from its old leader (Promote).
PromotedStopsApplying ==
  [][\A n \in Node : role[n] = "leader" /\ data'[n] # data[n] => log' # log \/ drops' # drops]_vars

\* What a follower holds is never older than the applied LSN it reports, whatever
\* it was restarted after (SetAppliedLSN).
AppliedIsHeld ==
  SteadyLeader => \A f \in Followers : Settled(f) =>
    \A i \in Ids : \E k \in applied[f]..Len(log) : data[f][i] = Replayed(k)[i]

\* What a restart restores as applied has survived it (AppliedLSN).
AppliedIsDurable ==
  \A f \in Followers : Settled(f) =>
    \A i \in Ids : \E k \in file[f].applied..Len(log) : synced[f][i] = Replayed(k)[i]
=============================================================================

---------------------------- MODULE Transactions ----------------------------
(***************************************************************************)
(* Transactions: the TxManager, the gRPC handlers that stage, commit and   *)
(* roll back, and Collection.CommitTx, beside writers outside any          *)
(* transaction, the idle sweeper, crashes and failing appends and fsyncs.  *)
(*                                                                         *)
(* A handler is split where it gives up a lock.  A transaction that has    *)
(* left the manager is still an object that a handler may hold.  One field *)
(* has a unique index, and a record is its revision and its value there.   *)
(* A process crash loses no append, so recs stands for index and log.      *)
(***************************************************************************)
EXTENDS Naturals, Sequences, FiniteSets, FiniteSetsExt

CONSTANTS
  Caller,        \* concurrent requests
  Tx,            \* transaction ids
  Settings       \* clients, faults and bounds to explore, by name

ASSUME TransactionsAssumption ==
  \A s \in {Settings[n] : n \in DOMAIN Settings} :
    /\ {s.ids, s.ops, s.records, s.maxFaults, s.direct, s.drops} \subseteq Nat
    /\ s.callers \subseteq Caller
    /\ s.faults \subseteq {"crash", "append", "sync"}
    /\ s.serial \in BOOLEAN

VARIABLES
  setting,    \* the name of the setting
  idSeq,      \* the id counter of each incarnation of the collection
  top,        \* the highest id in the log
  recs,       \* id -> record
  gen,        \* how often the collection was dropped and created again
  open,       \* TxManager.txs: the ids it holds
  ops,        \* Tx.ops, kept while a handler may hold the object
  idle,       \* has lastUsed fallen behind the timeout?
  call,       \* what each request is doing
  lock,       \* the holder of c.mu
  base,       \* history: recs when c.mu was last taken
  acked,      \* history: operations whose staging was acknowledged
  applied,    \* history: operations of the transaction appended so far
  done,       \* history: how calls on the transaction ended
  published,  \* history: <<id, rev>> pairs shipped to followers
  faults, direct, drops

Val == Settings[setting].vals              \* values of the unique field
MaxId == Settings[setting].ids             \* bound: ids handed out
MaxOps == Settings[setting].ops            \* bound: operations staged in one transaction
MaxRecords == Settings[setting].records    \* CollectionConfig.MaxRecords
SerialClients == Settings[setting].serial  \* does a client wait for an answer before its next call?
Faults == Settings[setting].faults         \* which faults happen
MaxFaults == Settings[setting].maxFaults   \* bound: faults
MaxDirect == Settings[setting].direct      \* bound: writes outside a transaction
MaxDrops == Settings[setting].drops        \* bound: drops of the collection

Id == 1..MaxId
NoVal == "noval"
None == "none"

\* No request and no transaction is called None.
ASSUME NoneAssumption == None \notin Caller \cup Tx

Absent == [rev |-> 0, val |-> NoVal]
Live == {i \in Id : recs[i] # Absent}
Idle == [pc |-> "idle", tx |-> None, gen |-> 0, todo |-> <<>>]
histVars == <<acked, applied, done>>
boundVars == <<setting, faults, direct, drops>>
txVars == <<open, ops, idle>>
vars == <<idSeq, top, recs, gen, txVars, call, lock, base, histVars, published, boundVars>>

Op(kind, id, val) == [kind |-> kind, id |-> id, val |-> val]

Init ==
  /\ setting \in DOMAIN Settings
  /\ idSeq = [g \in 0..MaxDrops |-> 0] /\ top = 0 /\ recs = [i \in Id |-> Absent] /\ gen = 0
  /\ open = {} /\ ops = [t \in Tx |-> <<>>] /\ idle = {}
  /\ call = [c \in Caller |-> Idle] /\ lock = None
  /\ base = recs
  /\ acked = [t \in Tx |-> <<>>] /\ applied = [t \in Tx |-> <<>>] /\ done = [t \in Tx |-> {}]
  /\ published = {}
  /\ faults = 0 /\ direct = 0 /\ drops = 0
-----------------------------------------------------------------------------
(* The manager and the staging handlers.                                   *)

\* BeginTx: ids are random, so each is used once.
BeginTx(t) ==
  /\ t \notin open /\ done[t] = {} /\ acked[t] = <<>>
  /\ \A c \in Caller : call[c].tx # t
  /\ open' = open \cup {t}
  /\ idle' = idle \ {t}
  /\ UNCHANGED <<idSeq, top, recs, gen, ops, call, lock, base, histVars, published, boundVars>>

\* A request that names a transaction; TxManager.Get finds it or the request
\* ends with NotFound and nothing changed.
Get(c, t) ==
  /\ call[c] = Idle /\ t \in open /\ c \in Settings[setting].callers
  /\ SerialClients => \A d \in Caller : call[d].tx # t

\* The handlers Insert, Update and Delete of a request that carries a
\* transaction id, up to the moment they stage.
InsertInTx(c, t, v) ==
  /\ Get(c, t)
  /\ call' = [call EXCEPT ![c] = [pc |-> "stage", tx |-> t, gen |-> gen, todo |-> <<Op("insert", 0, v)>>]]

UpdateInTx(c, t, i, v) ==
  /\ Get(c, t)
  /\ call' = [call EXCEPT ![c] = [pc |-> "stage", tx |-> t, gen |-> gen, todo |-> <<Op("update", i, v)>>]]

DeleteInTx(c, t, i) ==
  /\ Get(c, t)
  /\ call' = [call EXCEPT ![c] = [pc |-> "stage", tx |-> t, gen |-> gen, todo |-> <<Op("delete", i, NoVal)>>]]

\* Bound: an id is left for every request that may still reserve one.
IdsLeft == idSeq[gen] + Cardinality({c \in Caller : call[c].pc = "stage"}) < MaxId

BeginStage(c, t) ==
  /\ Len(ops[t]) < MaxOps
  /\ IdsLeft
  /\ \/ \E v \in Val : InsertInTx(c, t, v)
     \/ \E i \in Id : DeleteInTx(c, t, i) \/ \E v \in Val : UpdateInTx(c, t, i, v)
  /\ UNCHANGED <<idSeq, top, recs, gen, txVars, lock, base, histVars, published, boundVars>>

\* ReserveID, on the incarnation the handler looked up.
ReserveID(c) == idSeq' = [idSeq EXCEPT ![call[c].gen] = @ + 1]

\* ReserveID for an insert, then StageInsert, StageUpdate or StageDelete.
Stage(c) ==
  LET t == call[c].tx
      op == call[c].todo[1]
      o == IF op.kind = "insert" THEN [op EXCEPT !.id = idSeq[call[c].gen] + 1] ELSE op
  IN  /\ call[c].pc = "stage"
      /\ IF op.kind = "insert" THEN ReserveID(c) ELSE UNCHANGED idSeq
      /\ ops' = [ops EXCEPT ![t] = Append(@, o)]
      /\ idle' = idle \ {t}
      /\ acked' = [acked EXCEPT ![t] = Append(@, o)]
      /\ call' = [call EXCEPT ![c] = Idle]
      /\ UNCHANGED <<top, recs, gen, open, lock, base, applied, done, published, boundVars>>

\* Time passes over a transaction nobody stages into.
Elapse(t) ==
  /\ t \in open \ idle
  /\ idle' = idle \cup {t}
  /\ UNCHANGED <<idSeq, top, recs, gen, open, ops, call, lock, base, histVars,
                 published, boundVars>>

\* Mutant: a transaction with staged operations is never idle.
Reapable_Unused == {t \in open \cap idle : ops[t] = <<>>}

\* The transactions whose lastUsed is before the cutoff.
Reapable == open \cap idle

\* How a reaped transaction ended: a handler may already hold it.
Reaped(t) == IF \E c \in Caller : call[c].tx = t THEN "overtaken" ELSE "reaped"

\* TxManager.reapExpired.
Sweep ==
  /\ Reapable # {}
  /\ open' = open \ Reapable
  /\ done' = [t \in Tx |-> IF t \in Reapable THEN done[t] \cup {Reaped(t)} ELSE done[t]]
  /\ UNCHANGED <<idSeq, top, recs, gen, ops, idle, call, lock, base, acked,
                 applied, published, boundVars>>
-----------------------------------------------------------------------------
(* Rollback and commit.                                                    *)

\* A call ends and its request with it.
Finish(c, how) ==
  /\ call' = [call EXCEPT ![c] = Idle]
  /\ done' = [done EXCEPT ![call[c].tx] = @ \cup {how}]

RollbackGet(c, t) ==
  /\ Get(c, t)
  /\ call' = [call EXCEPT ![c] = [Idle EXCEPT !.pc = "rollback", !.tx = t]]
  /\ UNCHANGED <<idSeq, top, recs, gen, txVars, lock, base, histVars, published, boundVars>>

RollbackRemove(c) ==
  LET t == call[c].tx
  IN  /\ call[c].pc = "rollback"
      /\ open' = open \ {t}
      /\ Finish(c, "rolledback")
      /\ UNCHANGED <<idSeq, top, recs, gen, ops, idle, lock, base, acked, applied,
                     published, boundVars>>

\* CommitTx looks up the transaction and the collection.
CommitGet(c, t) ==
  /\ Get(c, t)
  /\ call' = [call EXCEPT ![c] = [Idle EXCEPT !.pc = "commit", !.tx = t, !.gen = gen]]
  /\ UNCHANGED <<idSeq, top, recs, gen, txVars, lock, base, histVars, published, boundVars>>

\* Tx.Snapshot.
Snapshot(c) ==
  /\ call[c].pc = "commit"
  /\ call' = [call EXCEPT ![c].pc = "taken", ![c].todo = ops[call[c].tx]]
  /\ UNCHANGED <<idSeq, top, recs, gen, txVars, lock, base, histVars, published, boundVars>>

\* Mutant: the transaction stays in the manager.
Remove_Keeps(c) ==
  /\ call[c].pc = "taken"
  /\ call' = [call EXCEPT ![c].pc = "removed"]
  /\ UNCHANGED <<idSeq, top, recs, gen, txVars, lock, base, histVars, published, boundVars>>

\* TxManager.Remove.
Remove(c) ==
  /\ call[c].pc = "taken"
  /\ open' = open \ {call[c].tx}
  /\ call' = [call EXCEPT ![c].pc = "removed"]
  /\ UNCHANGED <<idSeq, top, recs, gen, ops, idle, lock, base, histVars, published, boundVars>>

\* A value that a live record other than id holds (sidx.conflict).
Taken(v, id) == \E i \in Live \ {id} : recs[i].val = v

\* Mutant: operations of one batch are not compared with each other.
txCheckUnique_DataOnly(s) == \A k \in DOMAIN s : s[k].kind # "delete" => ~Taken(s[k].val, s[k].id)

\* txCheckUnique: no insert or update of the batch takes a value that a live
\* record or an earlier operation of the batch claims for another id.
txCheckUnique(s) ==
  \A k \in DOMAIN s : s[k].kind # "delete" =>
    /\ ~Taken(s[k].val, s[k].id)
    /\ \A j \in 1..k - 1 : s[j].kind # "delete" /\ s[j].val = s[k].val => s[j].id = s[k].id

\* Every update and delete names a record that exists.
TargetsExist(s) == \A k \in DOMAIN s : s[k].kind # "insert" => s[k].id \in Live

\* checkQuotaLocked, for a limit on records.
checkQuota(n) == n = 0 \/ MaxRecords = 0 \/ Cardinality(Live) + n <= MaxRecords

Inserts(s) == Cardinality({k \in DOMAIN s : s[k].kind = "insert"})

\* Collection.CommitTx takes c.mu and validates the batch; a handle on a dropped
\* collection fails at its first append.
CommitLock(c) ==
  LET s == call[c].todo
  IN  /\ call[c].pc = "removed" /\ lock = None
      /\ base' = recs
      /\ IF s = <<>> THEN Finish(c, "committed") /\ UNCHANGED lock
         ELSE IF call[c].gen = gen /\ TargetsExist(s) /\ txCheckUnique(s) /\ checkQuota(Inserts(s))
         THEN /\ lock' = c
              /\ call' = [call EXCEPT ![c].pc = "apply"]
              /\ UNCHANGED done
         ELSE Finish(c, "aborted") /\ UNCHANGED lock
      /\ UNCHANGED <<idSeq, top, recs, gen, txVars, acked, applied, published, boundVars>>

\* What an operation leaves of its record.
Effect(o) ==
  IF o.kind = "delete" THEN Absent
  ELSE [rev |-> IF o.kind = "insert" THEN 1 ELSE recs[o.id].rev + 1, val |-> o.val]

\* One turn of the apply loop: append, index, and later publish.
ApplyOp(c) ==
  LET o == Head(call[c].todo)
      t == call[c].tx
  IN  /\ call[c].pc = "apply" /\ call[c].todo # <<>>
      /\ recs' = [recs EXCEPT ![o.id] = Effect(o)]
      /\ top' = Max({top, o.id})
      /\ applied' = [applied EXCEPT ![t] = Append(@, o)]
      /\ call' = [call EXCEPT ![c].todo = Tail(@)]
      /\ UNCHANGED <<idSeq, gen, txVars, lock, base, acked, done, published, boundVars>>

\* What the locked part of a write has left to publish.
Changed == {<<i, recs[i].rev>> : i \in {j \in Id : recs[j] # base[j]}}

\* The fsync, publishCommit of every entry, and the end of the call.
CommitUnlock(c) ==
  /\ call[c].pc = "apply" /\ call[c].todo = <<>>
  /\ lock' = None
  /\ published' = published \cup Changed
  /\ Finish(c, "committed")
  /\ UNCHANGED <<idSeq, top, recs, gen, txVars, base, acked, applied, boundVars>>

\* Mutant: the error path forgets to unlock.
CommitFails_Locked(c) ==
  /\ faults < MaxFaults /\ call[c].pc = "apply"
  /\ IF call[c].todo = <<>> THEN "sync" \in Faults ELSE "append" \in Faults
  /\ faults' = faults + 1
  /\ Finish(c, "aborted")
  /\ UNCHANGED <<idSeq, top, recs, gen, txVars, lock, base, acked, applied,
                 published, setting, direct, drops>>

\* An append, or the fsync after the last one, fails: the call ends with an
\* error, and what was appended stays, unpublished.
CommitFails(c) ==
  /\ faults < MaxFaults /\ call[c].pc = "apply"
  /\ IF call[c].todo = <<>> THEN "sync" \in Faults ELSE "append" \in Faults
  /\ faults' = faults + 1
  /\ lock' = None
  /\ Finish(c, "aborted")
  /\ UNCHANGED <<idSeq, top, recs, gen, txVars, base, acked, applied, published,
                 setting, direct, drops>>
-----------------------------------------------------------------------------
(* The rest of the system.                                                 *)

\* A write of one record outside a transaction, with its checks.
Insert(v) ==
  /\ IdsLeft /\ checkQuota(1) /\ ~Taken(v, idSeq[gen] + 1)
  /\ idSeq' = [idSeq EXCEPT ![gen] = @ + 1]
  /\ recs' = [recs EXCEPT ![idSeq[gen] + 1] = [rev |-> 1, val |-> v]]
  /\ top' = Max({top, idSeq[gen] + 1})

Update(i, v) ==
  /\ i \in Live /\ ~Taken(v, i)
  /\ recs' = [recs EXCEPT ![i] = [rev |-> @.rev + 1, val |-> v]]
  /\ UNCHANGED <<idSeq, top>>

Delete(i) ==
  /\ i \in Live
  /\ recs' = [recs EXCEPT ![i] = Absent]
  /\ UNCHANGED <<idSeq, top>>

DirectWrite ==
  /\ direct < MaxDirect /\ lock = None
  /\ \/ \E v \in Val : Insert(v)
     \/ \E i \in Id : Delete(i) \/ \E v \in Val : Update(i, v)
  /\ base' = recs
  /\ published' = published \cup {<<i, recs'[i].rev>> : i \in {j \in Id : recs'[j] # recs[j]}}
  /\ direct' = direct + 1
  /\ UNCHANGED <<gen, txVars, call, lock, histVars, setting, faults, drops>>

\* DropCollection and CreateCollection under the same name.
Drop ==
  /\ drops < MaxDrops /\ lock = None
  /\ drops' = drops + 1
  /\ gen' = gen + 1
  /\ top' = 0
  /\ recs' = [i \in Id |-> Absent]
  /\ base' = recs'
  /\ published' = {}
  /\ UNCHANGED <<idSeq, txVars, call, lock, histVars, setting, faults, direct>>

\* The process dies and restarts: transactions and requests are gone, the
\* counter comes back from the highest id written.
Crash ==
  /\ "crash" \in Faults /\ faults < MaxFaults
  /\ faults' = faults + 1
  /\ open' = {} /\ idle' = {} /\ ops' = [t \in Tx |-> <<>>]
  /\ call' = [c \in Caller |-> Idle] /\ lock' = None
  /\ idSeq' = [idSeq EXCEPT ![gen] = top]
  /\ done' = [t \in Tx |-> IF t \in open \/ \E c \in Caller : call[c].tx = t
                              THEN done[t] \cup {"crashed"} ELSE done[t]]
  /\ UNCHANGED <<top, recs, gen, base, acked, applied, published, setting, direct, drops>>

Handle(c) ==
  \/ \E t \in Tx : BeginStage(c, t) \/ RollbackGet(c, t) \/ CommitGet(c, t)
  \/ Stage(c) \/ RollbackRemove(c)
  \/ Snapshot(c) \/ Remove(c) \/ CommitLock(c) \/ ApplyOp(c) \/ CommitUnlock(c) \/ CommitFails(c)

Next ==
  \/ \E c \in Caller : Handle(c)
  \/ \E t \in Tx : BeginTx(t) \/ Elapse(t)
  \/ Sweep \/ DirectWrite \/ Drop \/ Crash

Spec == Init /\ [][Next]_vars

\* A handler goroutine runs to its end, and the sweeper's ticker fires.
Fairness ==
  /\ \A c \in Caller : WF_vars(\/ Stage(c) \/ RollbackRemove(c) \/ Snapshot(c) \/ Remove(c)
                               \/ CommitLock(c) \/ ApplyOp(c) \/ CommitUnlock(c))
  /\ WF_vars(Sweep) /\ \A t \in Tx : WF_vars(Elapse(t))

FairSpec == Spec /\ Fairness

-----------------------------------------------------------------------------
(* Properties.                                                             *)

\* The lock is held by exactly the request that is applying (CommitTx).
TypeOK ==
  /\ idSeq \in [0..MaxDrops -> 0..MaxId]
  /\ recs \in [Id -> [rev : Nat, val : Val \cup {NoVal}]]
  /\ open \subseteq Tx /\ idle \subseteq Tx
  /\ lock \in Caller \cup {None}
  /\ \A c \in Caller : call[c].pc \in {"idle", "stage", "rollback", "commit", "taken", "removed", "apply"}
  /\ \A c \in Caller : lock = c <=> call[c].pc = "apply"

\* What a transaction has written is what its client was told: one reaped
\* while no request held it has written nothing; for a client that waits for
\* its answers a committed one has applied the operations acknowledged as
\* staged, each once and in order, and a rolled back one nothing; and, without
\* crashes and failing appends, one that has not committed has written nothing
\* whenever the lock is free (Stage, Snapshot, Remove, CommitTx, RollbackTx,
\* reapExpired).
AppliedAsAnswered ==
  \A t \in Tx :
    /\ "reaped" \in done[t] => applied[t] = <<>>
    /\ SerialClients /\ "committed" \in done[t] => applied[t] = acked[t]
    /\ SerialClients /\ "rolledback" \in done[t] => applied[t] = <<>>
    /\ Faults = {} /\ lock = None /\ applied[t] # <<>> => "committed" \in done[t]

\* A batch is held to the limits as one: whenever the lock is free no two live
\* records share a value of the unique field, and the live records stay within
\* MaxRecords (txCheckUnique, sidxCheckUnique, checkQuotaLocked).
LimitsHold ==
  /\ lock = None => \A i, j \in Live : recs[i].val = recs[j].val => i = j
  /\ MaxRecords > 0 => Cardinality(Live) <= MaxRecords

\* No call waits for ever for the lock: CommitTx and the other writers unlock on
\* every path.
CallsEnd == \A c \in Caller : call[c] # Idle ~> call[c] = Idle

\* No transaction stays in the manager for ever unless someone keeps using it
\* (sweepLoop).
AbandonedAreReaped ==
  \A t \in Tx : t \in open ~> (t \notin open \/ \E c \in Caller : call[c].tx = t)

-----------------------------------------------------------------------------
(* Further properties, which hold on the instance of the run and are not   *)
(* part of it.                                                             *)

\* Unless the collection is dropped, a committed insert never lands on a live
\* record (ReserveID, CommitTx).
InsertsAreFresh ==
  [][MaxDrops = 0 => \A c \in Caller :
       /\ call[c].pc = "apply" /\ call[c].todo # <<>>
       /\ Head(call[c].todo).kind = "insert" /\ recs' # recs
       => Head(call[c].todo).id \notin Live]_vars

\* Without faults, what readers see has been sent to the followers (publishCommit).
VisibleIsPublished == Faults = {} /\ lock = None => \A i \in Live : <<i, recs[i].rev>> \in published

-----------------------------------------------------------------------------
(* Not invariants of the code: TLC finds each of these violated on the     *)
(* instance of the run.                                                     *)

\* A write never lowers the revision of a record (CommitTx).
RevsMonotonic == lock = None => \A i \in Live : base[i] # Absent => recs[i].rev >= base[i].rev
=============================================================================

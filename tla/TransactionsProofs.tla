------------------------- MODULE TransactionsProofs -------------------------
(***************************************************************************)
(* Theorems about Transactions, for every set of requests, transactions    *)
(* and settings: a batch is held to the unique index and the quota as one, *)
(* and what a transaction has written is what its client was told.         *)
(***************************************************************************)
EXTENDS Transactions, FiniteSetTheorems, TLAPS

Operation == [kind : {"insert", "update", "delete"}, id : Nat, val : Val \cup {NoVal}]
Record == [rev : Nat, val : Val \cup {NoVal}]
PC == {"idle", "stage", "rollback", "commit", "taken", "removed", "apply"}
Calls == [pc : PC, tx : Tx \cup {None}, gen : 0..MaxDrops, todo : Seq(Operation)]
Ends == {"committed", "aborted", "rolledback", "reaped", "overtaken", "crashed"}

\* A request names a transaction until it is idle, and stages one operation.
GoodCalls == {x \in Calls : /\ x.pc = "idle" <=> x = Idle
                            /\ x.pc = "idle" <=> x.tx = None
                            /\ x.pc = "stage" => Len(x.todo) = 1}

\* The state has its shapes, whatever the bounds on the run.
ShapeInv ==
  /\ setting \in DOMAIN Settings
  /\ idSeq \in [0..MaxDrops -> Nat] /\ top \in Nat /\ gen \in 0..MaxDrops /\ gen = drops
  /\ recs \in [Id -> Record]
  /\ open \subseteq Tx /\ ops \in [Tx -> Seq(Operation)]
  /\ call \in [Caller -> GoodCalls] /\ lock \in Caller \cup {None}
  /\ acked \in [Tx -> Seq(Operation)] /\ applied \in [Tx -> Seq(Operation)]
  /\ done \in [Tx -> SUBSET Ends]

\* The lock is held by exactly the request that is applying.
LockInv == \A c \in Caller : lock = c <=> call[c].pc = "apply"

\* No two live records share a value, even while a batch is being applied.
UniqueInv == \A i, j \in Live : recs[i].val = recs[j].val => i = j

\* What is left of a batch would still pass the check it passed as a whole.
BatchInv == \A c \in Caller : call[c].pc = "apply" => txCheckUnique(call[c].todo)

\* The ids of a batch.
IdsOf(s) == {s[k].id : k \in DOMAIN s}

\* The quota has room for what is left of a batch.
QuotaInv ==
  MaxRecords > 0 =>
    /\ Cardinality(Live) <= MaxRecords
    /\ \A c \in Caller : call[c].pc = "apply" =>
         Cardinality(Live \cup (IdsOf(call[c].todo) \cap Id)) <= MaxRecords

LimitInv == LockInv /\ UniqueInv /\ BatchInv /\ QuotaInv

Requested(t) == \E c \in Caller : call[c].tx = t
Applying(t) == \E c \in Caller : call[c].tx = t /\ call[c].pc = "apply"

\* A transaction in the manager has written nothing and no call on it has
\* ended; a request that applies has taken it out.
OpenInv(t) ==
  t \in open => /\ applied[t] = <<>> /\ done[t] = {}
                /\ \A c \in Caller : call[c].tx = t => call[c].pc \notin {"removed", "apply"}

\* A transaction reaped while no request held it is never heard of again.
ReapedInv(t) == "reaped" \in done[t] => applied[t] = <<>> /\ t \notin open /\ ~Requested(t)

\* What a transaction has written comes from a request that still applies it
\* or that has ended.
WroteInv(t) ==
  applied[t] # <<>> => \/ Applying(t) \/ "committed" \in done[t]
                       \/ Faults # {} /\ done[t] # {}

\* A client that waits for its answers has one request at a time, which stages
\* what was acknowledged and applies what was staged.
SerialInv(t) ==
  SerialClients =>
    /\ \A c, d \in Caller : call[c].tx = t /\ call[d].tx = t => c = d
    /\ acked[t] = <<>> => ops[t] = <<>>
    /\ t \in open \/ Requested(t) => ops[t] = acked[t]
    /\ \A c \in Caller : call[c].tx = t =>
         /\ call[c].pc # "apply" => applied[t] = <<>>
         /\ call[c].pc \in {"taken", "removed", "apply"} => applied[t] \o call[c].todo = acked[t]
    /\ done[t] \cap {"committed", "rolledback"} # {} => t \notin open /\ ~Requested(t)
    /\ "committed" \in done[t] => applied[t] = acked[t]
    /\ "rolledback" \in done[t] => applied[t] = <<>>

AnswerOf(t) == OpenInv(t) /\ ReapedInv(t) /\ WroteInv(t) /\ SerialInv(t)
AnswerInv == \A t \in Tx : AnswerOf(t)

TransactionsInv == ShapeInv /\ LimitInv /\ AnswerInv

-----------------------------------------------------------------------------
(* Lemmas about the operators.                                             *)

\* The settings do not change.
LEMMA SettingKept ==
  ASSUME setting' = setting
  PROVE  /\ Id' = Id /\ MaxDrops' = MaxDrops /\ MaxRecords' = MaxRecords /\ Faults' = Faults
         /\ SerialClients' = SerialClients /\ Operation' = Operation /\ Record' = Record
         /\ GoodCalls' = GoodCalls
<1>1. /\ Id' = Id /\ MaxDrops' = MaxDrops /\ MaxRecords' = MaxRecords /\ Faults' = Faults
      /\ SerialClients' = SerialClients /\ Val' = Val
  BY DEF Id, MaxId, MaxDrops, MaxRecords, Faults, SerialClients, Val
<1>2. Operation' = Operation /\ Record' = Record BY <1>1 DEF Operation, Record
<1>3. Calls' = Calls BY <1>1, <1>2 DEF Calls
<1> QED BY <1>1, <1>2, <1>3 DEF GoodCalls

\* The bounds are numbers.
LEMMA Bounds ==
  ASSUME setting \in DOMAIN Settings
  PROVE  MaxId \in Nat /\ MaxRecords \in Nat /\ MaxDrops \in Nat
BY TransactionsAssumption DEF MaxId, MaxRecords, MaxDrops

\* A request is idle or names a transaction.
LEMMA CallShape ==
  ASSUME ShapeInv, NEW c \in Caller
  PROVE  /\ call[c] \in Calls /\ call[c] \in GoodCalls
         /\ call[c].pc = "idle" <=> call[c] = Idle
         /\ call[c].pc = "idle" <=> call[c].tx = None
         /\ call[c].pc # "idle" => call[c].tx \in Tx
         /\ call[c].pc = "stage" => Len(call[c].todo) = 1
         /\ call[c].todo \in Seq(Operation) /\ call[c].gen \in 0..MaxDrops
BY DEF ShapeInv, GoodCalls, Calls

\* The idle request.
LEMMA IdleShape ==
  ASSUME setting \in DOMAIN Settings
  PROVE  Idle \in GoodCalls /\ Idle.pc = "idle" /\ Idle.tx = None
<1>1. 0 \in 0..MaxDrops BY Bounds
<1>2. <<>> \in Seq(Operation) OBVIOUS
<1> QED BY <1>1, <1>2 DEF Idle, GoodCalls, Calls, PC

\* One request moves.
LEMMA CallMoves ==
  ASSUME ShapeInv, NEW c \in Caller, NEW x \in GoodCalls, call' = [call EXCEPT ![c] = x]
  PROVE  /\ call' \in [Caller -> GoodCalls] /\ call'[c] = x
         /\ \A d \in Caller : d # c => call'[d] = call[d]
BY DEF ShapeInv

\* An operation moves from what is left to what was applied.
LEMMA HeadMoves ==
  ASSUME NEW S, NEW a \in Seq(S), NEW s \in Seq(S), s # <<>>
  PROVE  Append(a, Head(s)) \o Tail(s) = a \o s
<1>1. Append(a, Head(s)) \in Seq(S) /\ Tail(s) \in Seq(S) /\ Len(Tail(s)) = Len(s) - 1
      /\ Len(s) \in Nat /\ Len(s) # 0 /\ Len(a) \in Nat /\ Len(Append(a, Head(s))) = Len(a) + 1
  OBVIOUS
<1>2. /\ Append(a, Head(s)) \o Tail(s) \in Seq(S) /\ a \o s \in Seq(S)
      /\ Len(Append(a, Head(s)) \o Tail(s)) = Len(a) + Len(s) /\ Len(a \o s) = Len(a) + Len(s)
  BY <1>1
<1>3. ASSUME NEW i \in 1..(Len(a) + Len(s))
      PROVE  (Append(a, Head(s)) \o Tail(s))[i] = (a \o s)[i]
  <2>1. CASE i <= Len(a) BY <1>1, <2>1
  <2>2. CASE i = Len(a) + 1 BY <1>1, <2>2
  <2>3. CASE i > Len(a) + 1
    <3>1. (Append(a, Head(s)) \o Tail(s))[i] = Tail(s)[i - Len(a) - 1] BY <1>1, <2>3
    <3>2. Tail(s)[i - Len(a) - 1] = s[i - Len(a)] BY <1>1, <2>3
    <3>3. (a \o s)[i] = s[i - Len(a)] BY <1>1, <2>3
    <3> QED BY <3>1, <3>2, <3>3
  <2> QED BY <1>1, <2>1, <2>2, <2>3
<1> QED BY <1>2, <1>3

\* Live records of a state.
LEMMA LiveFinite ==
  ASSUME ShapeInv
  PROVE  /\ IsFiniteSet(Id) /\ Live \subseteq Id /\ IsFiniteSet(Live)
         /\ \A T \in SUBSET Id : IsFiniteSet(T) /\ Cardinality(T) \in Nat
<1>1. IsFiniteSet(Id) BY Bounds, FS_Interval DEF Id, ShapeInv
<1>2. \A T \in SUBSET Id : IsFiniteSet(T) /\ Cardinality(T) \in Nat
  BY <1>1, FS_Subset, FS_CardinalityType
<1> QED BY <1>1, <1>2 DEF Live

\* The inserts of a batch bound the records it adds.
LEMMA InsertsBound ==
  ASSUME NEW s \in Seq(Operation)
  PROVE  LET new == {s[k].id : k \in {k \in DOMAIN s : s[k].kind = "insert"}}
         IN  /\ IsFiniteSet(new) /\ Cardinality(new) <= Inserts(s)
             /\ Inserts(s) \in Nat
             /\ Inserts(s) = 0 => new = {}
<1> DEFINE K == {k \in DOMAIN s : s[k].kind = "insert"}
           new == {s[k].id : k \in K}
           f == [k \in K |-> s[k].id]
<1>1. IsFiniteSet(K)
  <2>1. IsFiniteSet(1..Len(s)) BY FS_Interval
  <2> QED BY <2>1, FS_Subset
<1>2. f \in Surjection(K, new) BY DEF Surjection
<1> HIDE DEF f
<1>3. IsFiniteSet(new) /\ Cardinality(new) <= Cardinality(K)
  BY <1>1, <1>2, FS_Surjection
<1>4. Inserts(s) = Cardinality(K) BY DEF Inserts
<1>5. Cardinality(K) \in Nat /\ (Cardinality(K) = 0 => K = {})
  BY <1>1, FS_CardinalityType, FS_EmptySet
<1> QED BY <1>3, <1>4, <1>5

-----------------------------------------------------------------------------
(* Steps that leave the limits, or one transaction, alone.                 *)

\* Nothing is written and nobody starts or stops applying.
LEMMA QuietLimits ==
  ASSUME LimitInv, setting' = setting, recs' = recs, lock' = lock,
         \A c \in Caller : call'[c].pc = "apply" \/ call[c].pc = "apply" => call'[c] = call[c]
  PROVE  LimitInv'
<1>1. Live' = Live /\ Id' = Id /\ MaxRecords' = MaxRecords BY SettingKept DEF Live
<1>2. LockInv' BY DEF LimitInv, LockInv
<1>3. UniqueInv' BY <1>1 DEF LimitInv, UniqueInv
<1>4. BatchInv' BY <1>1 DEF LimitInv, BatchInv, txCheckUnique, Taken
<1>5. QuotaInv' BY <1>1 DEF LimitInv, QuotaInv, IdsOf
<1> QED BY <1>2, <1>3, <1>4, <1>5 DEF LimitInv

\* The transaction u has no part in the step.
Aside(u) ==
  /\ u \in open' <=> u \in open
  /\ done'[u] = done[u] /\ applied'[u] = applied[u]
  /\ acked'[u] = acked[u] /\ ops'[u] = ops[u]
  /\ \A c \in Caller : call'[c].tx = u \/ call[c].tx = u => call'[c] = call[c]

\* Nothing changes for a transaction that is aside.
LEMMA Elsewhere ==
  ASSUME NEW u \in Tx, AnswerOf(u), Aside(u), setting' = setting
  PROVE  AnswerOf(u)'
<1>1. (Requested(u)' <=> Requested(u)) /\ (Applying(u)' <=> Applying(u))
  BY DEF Requested, Applying, Aside
<1>2. OpenInv(u)' BY DEF AnswerOf, OpenInv, Aside
<1>3. ReapedInv(u)' BY <1>1 DEF AnswerOf, ReapedInv, Aside
<1>4. WroteInv(u)' BY <1>1, SettingKept DEF AnswerOf, WroteInv, Aside
<1>5. SerialInv(u)' BY <1>1, SettingKept, Zenon DEF AnswerOf, SerialInv, Aside
<1> QED BY <1>2, <1>3, <1>4, <1>5 DEF AnswerOf

\* A request c on t goes on as x; the transactions other than t are aside.
LEMMA OthersAside ==
  ASSUME ShapeInv, NEW c \in Caller, NEW x, NEW t \in Tx,
         call'[c] = x, \A d \in Caller : d # c => call'[d] = call[d],
         call[c].tx \in {t, None}, x.tx \in {t, None},
         NEW u \in Tx, u # t
  PROVE  \A d \in Caller : call'[d].tx = u \/ call[d].tx = u => call'[d] = call[d]
BY NoneAssumption

-----------------------------------------------------------------------------
(* The manager and the staging handlers.                                   *)

\* A request starts on a transaction the manager holds.
LEMMA BeginCall ==
  ASSUME TransactionsInv, NEW c \in Caller, NEW t \in Tx, NEW x \in GoodCalls,
         x.pc \in {"stage", "rollback", "commit"}, x.tx = t, Get(c, t),
         call' = [call EXCEPT ![c] = x],
         UNCHANGED <<setting, idSeq, top, recs, gen, open, ops, lock, acked, applied, done, drops>>
  PROVE  TransactionsInv'
<1>1. ShapeInv /\ LimitInv /\ AnswerInv BY DEF TransactionsInv
<1>2. /\ call' \in [Caller -> GoodCalls] /\ call'[c] = x
      /\ \A d \in Caller : d # c => call'[d] = call[d]
  BY <1>1, CallMoves, Zenon
<1>3. /\ call[c] = Idle /\ call[c].tx = None /\ call[c].pc = "idle" /\ t \in open
      /\ SerialClients => \A d \in Caller : call[d].tx # t
  BY IdleShape DEF Get, Idle
<1>4. ShapeInv' BY <1>1, <1>2, SettingKept DEF ShapeInv
<1>5. LimitInv' BY <1>1, <1>2, <1>3, QuietLimits
<1>6. ASSUME NEW u \in Tx PROVE AnswerOf(u)'
  <2>1. CASE u # t
    <3>1. Aside(u) BY <1>1, <1>2, <1>3, <2>1, OthersAside DEF Aside
    <3> QED BY <1>1, <3>1, Elsewhere DEF AnswerInv
  <2>2. CASE u = t
    <3>1. AnswerOf(t) BY <1>1 DEF AnswerInv
    <3>2. applied[t] = <<>> /\ done[t] = {} BY <1>3, <3>1 DEF AnswerOf, OpenInv
    <3>3. OpenInv(t)' BY <1>2, <3>1 DEF AnswerOf, OpenInv
    <3>4. ReapedInv(t)' /\ WroteInv(t)' BY <3>2 DEF ReapedInv, WroteInv
    <3>5. SerialInv(t)'
      <4>1. SUFFICES ASSUME SerialClients
                     PROVE  /\ \A d, e \in Caller : call'[d].tx = t /\ call'[e].tx = t => d = e
                            /\ acked[t] = <<>> => ops[t] = <<>>
                            /\ ops[t] = acked[t]
                            /\ \A d \in Caller : call'[d].tx = t =>
                                 call'[d].pc \notin {"taken", "removed", "apply"}
        BY <3>2, SettingKept, Zenon DEF SerialInv
      <4> QED BY <1>2, <1>3, <3>1, <4>1 DEF AnswerOf, SerialInv
    <3> QED BY <2>2, <3>3, <3>4, <3>5 DEF AnswerOf
  <2> QED BY <2>1, <2>2
<1> QED BY <1>4, <1>5, <1>6 DEF TransactionsInv, AnswerInv

\* The three kinds of request.
LEMMA BeginActions ==
  ASSUME TransactionsInv, NEW c \in Caller, NEW t \in Tx,
         BeginStage(c, t) \/ RollbackGet(c, t) \/ CommitGet(c, t)
  PROVE  TransactionsInv'
<1>1. UNCHANGED <<setting, idSeq, top, recs, gen, open, ops, lock, acked, applied, done, drops>>
  BY DEF BeginStage, RollbackGet, CommitGet, txVars, histVars, boundVars
<1>2. ShapeInv /\ gen \in 0..MaxDrops /\ MaxDrops \in Nat /\ t # None
  BY Bounds, NoneAssumption DEF TransactionsInv, ShapeInv
<1>3. \A v \in Val \cup {NoVal}, i \in Nat, kind \in {"insert", "update", "delete"} :
         Op(kind, i, v) \in Operation
  BY DEF Op, Operation
<1>4. ASSUME NEW o \in Operation
      PROVE  LET x == [pc |-> "stage", tx |-> t, gen |-> gen, todo |-> <<o>>]
             IN  x \in GoodCalls /\ x.pc = "stage" /\ x.tx = t
  <2>1. <<o>> \in Seq(Operation) /\ Len(<<o>>) = 1 OBVIOUS
  <2> QED BY <1>2, <2>1 DEF GoodCalls, Calls, PC, Idle
<1>5. CASE BeginStage(c, t)
  <2>1. \E o \in Operation : /\ Get(c, t)
                             /\ call' = [call EXCEPT ![c] = [pc |-> "stage", tx |-> t, gen |-> gen,
                                                             todo |-> <<o>>]]
    <3>1. CASE \E v \in Val : InsertInTx(c, t, v)
      <4>1. PICK v \in Val : InsertInTx(c, t, v) BY <3>1
      <4>2. Op("insert", 0, v) \in Operation BY <1>3
      <4> QED BY <4>1, <4>2, Zenon DEF InsertInTx
    <3>2. CASE \E i \in Id : DeleteInTx(c, t, i)
      <4>1. PICK i \in Id : DeleteInTx(c, t, i) BY <3>2
      <4>2. Op("delete", i, NoVal) \in Operation BY <1>3 DEF Id
      <4> QED BY <4>1, <4>2, Zenon DEF DeleteInTx
    <3>3. CASE \E i \in Id, v \in Val : UpdateInTx(c, t, i, v)
      <4>1. PICK i \in Id, v \in Val : UpdateInTx(c, t, i, v) BY <3>3
      <4>2. Op("update", i, v) \in Operation BY <1>3 DEF Id
      <4> QED BY <4>1, <4>2, Zenon DEF UpdateInTx
    <3> QED BY <1>5, <3>1, <3>2, <3>3 DEF BeginStage
  <2>2. PICK o \in Operation : /\ Get(c, t)
                               /\ call' = [call EXCEPT ![c] = [pc |-> "stage", tx |-> t, gen |-> gen,
                                                               todo |-> <<o>>]]
    BY <2>1, Zenon
  <2> DEFINE x == [pc |-> "stage", tx |-> t, gen |-> gen, todo |-> <<o>>]
  <2>3. x \in GoodCalls /\ x.pc = "stage" /\ x.tx = t BY <1>4
  <2>4. call' = [call EXCEPT ![c] = x] BY <2>2
  <2> HIDE DEF x
  <2> QED BY <1>1, <2>2, <2>3, <2>4, BeginCall, Zenon
<1>6. CASE RollbackGet(c, t)
  <2> DEFINE x == [Idle EXCEPT !.pc = "rollback", !.tx = t]
  <2>1. Get(c, t) /\ call' = [call EXCEPT ![c] = x] BY <1>6 DEF RollbackGet
  <2>2. x \in GoodCalls /\ x.pc = "rollback" /\ x.tx = t
    <3>1. 0 \in 0..MaxDrops /\ <<>> \in Seq(Operation) BY <1>2
    <3> QED BY <1>2, <3>1, Zenon DEF GoodCalls, Calls, PC, Idle
  <2> HIDE DEF x
  <2> QED BY <1>1, <2>1, <2>2, BeginCall, Zenon
<1>7. CASE CommitGet(c, t)
  <2> DEFINE x == [Idle EXCEPT !.pc = "commit", !.tx = t, !.gen = gen]
  <2>1. Get(c, t) /\ call' = [call EXCEPT ![c] = x] BY <1>7 DEF CommitGet
  <2>2. x \in GoodCalls /\ x.pc = "commit" /\ x.tx = t
    <3>1. <<>> \in Seq(Operation) OBVIOUS
    <3> QED BY <1>2, <3>1, Zenon DEF GoodCalls, Calls, PC, Idle
  <2> HIDE DEF x
  <2> QED BY <1>1, <2>1, <2>2, BeginCall, Zenon
<1> QED BY <1>5, <1>6, <1>7

\* BeginTx gives out an id that was never used; time passes; the sweeper runs.
LEMMA ManagerActions ==
  ASSUME TransactionsInv, (\E t \in Tx : BeginTx(t) \/ Elapse(t)) \/ Sweep
  PROVE  TransactionsInv'
<1>1. ShapeInv /\ LimitInv /\ AnswerInv BY DEF TransactionsInv
<1>2. UNCHANGED <<setting, idSeq, top, recs, gen, ops, call, lock, acked, applied, drops>>
  BY DEF BeginTx, Elapse, Sweep, histVars, boundVars
<1>3. LimitInv' BY <1>1, <1>2, QuietLimits
<1>4. ASSUME NEW t \in Tx, BeginTx(t) PROVE TransactionsInv'
  <2>1. /\ t \notin open /\ done[t] = {} /\ acked[t] = <<>> /\ ~Requested(t)
        /\ open' = open \cup {t} /\ done' = done
    BY <1>4 DEF BeginTx, Requested, histVars
  <2>2. ShapeInv' BY <1>1, <1>2, <2>1, SettingKept DEF ShapeInv
  <2>3. ASSUME NEW u \in Tx PROVE AnswerOf(u)'
    <3>1. AnswerOf(u) BY <1>1 DEF AnswerInv
    <3>2. CASE u # t
      <4>1. Aside(u) BY <1>2, <2>1, <3>2 DEF Aside
      <4> QED BY <1>2, <3>1, <4>1, Elsewhere
    <3>3. CASE u = t
      <4>1. applied[t] = <<>> BY <2>1, <3>1, <3>3 DEF AnswerOf, WroteInv, Applying, Requested
      <4>2. ~Requested(t)' BY <1>2, <2>1 DEF Requested
      <4>3. OpenInv(t)' /\ ReapedInv(t)' /\ WroteInv(t)'
        BY <1>2, <2>1, <4>1, <4>2 DEF OpenInv, ReapedInv, WroteInv, Requested
      <4>4. SerialInv(t)'
        BY <1>2, <2>1, <3>1, <3>3, <4>1, <4>2, SettingKept, Zenon DEF AnswerOf, SerialInv, Requested
      <4> QED BY <3>3, <4>3, <4>4 DEF AnswerOf
    <3> QED BY <3>2, <3>3
  <2> QED BY <1>3, <2>2, <2>3 DEF TransactionsInv, AnswerInv
<1>5. ASSUME NEW t \in Tx, Elapse(t) PROVE TransactionsInv'
  <2>1. open' = open /\ done' = done BY <1>5 DEF Elapse, histVars
  <2>2. ShapeInv' BY <1>1, <1>2, <2>1, SettingKept DEF ShapeInv
  <2>3. \A u \in Tx : Aside(u) BY <1>2, <2>1 DEF Aside
  <2>4. AnswerInv' BY <1>1, <1>2, <2>3, Elsewhere DEF AnswerInv
  <2> QED BY <1>3, <2>2, <2>4 DEF TransactionsInv
<1>6. CASE Sweep
  <2>1. /\ open' = open \ Reapable /\ Reapable \subseteq open
        /\ done' = [t \in Tx |-> IF t \in Reapable THEN done[t] \cup {Reaped(t)} ELSE done[t]]
    BY <1>6 DEF Sweep, Reapable
  <2>2. done' \in [Tx -> SUBSET Ends]
    <3>1. \A t \in Tx : Reaped(t) \in Ends BY DEF Reaped, Ends
    <3> QED BY <1>1, <2>1, <3>1 DEF ShapeInv
  <2>3. ShapeInv' BY <1>1, <1>2, <2>1, <2>2, SettingKept DEF ShapeInv
  <2>4. ASSUME NEW u \in Tx PROVE AnswerOf(u)'
    <3>1. AnswerOf(u) BY <1>1 DEF AnswerInv
    <3>2. CASE u \notin Reapable
      <4>1. Aside(u) BY <1>2, <2>1, <3>2 DEF Aside
      <4> QED BY <1>2, <3>1, <4>1, Elsewhere
    <3>3. CASE u \in Reapable
      <4>1. applied[u] = <<>> /\ done[u] = {} BY <2>1, <3>1, <3>3 DEF AnswerOf, OpenInv
      <4>2. u \notin open' /\ done'[u] = {Reaped(u)} BY <2>1, <3>3, <4>1
      <4>3. (Requested(u)' <=> Requested(u)) /\ (Reaped(u) = "reaped" => ~Requested(u))
            /\ Reaped(u) \in {"reaped", "overtaken"}
        BY <1>2 DEF Requested, Reaped
      <4>4. OpenInv(u)' /\ ReapedInv(u)' /\ WroteInv(u)'
        BY <1>2, <4>1, <4>2, <4>3 DEF OpenInv, ReapedInv, WroteInv
      <4>5. SerialInv(u)'
        BY <1>2, <3>1, <4>1, <4>2, <4>3, SettingKept, ZenonT(30) DEF AnswerOf, SerialInv
      <4> QED BY <4>4, <4>5 DEF AnswerOf
    <3> QED BY <3>2, <3>3
  <2> QED BY <1>3, <2>3, <2>4 DEF TransactionsInv, AnswerInv
<1> QED BY <1>4, <1>5, <1>6

\* Staging an operation is acknowledged, and the request ends.
LEMMA StageStep ==
  ASSUME TransactionsInv, NEW c \in Caller, Stage(c)
  PROVE  TransactionsInv'
<1>1. ShapeInv /\ LimitInv /\ AnswerInv BY DEF TransactionsInv
<1> PICK t \in Tx : t = call[c].tx BY <1>1, CallShape DEF Stage
<1> DEFINE op == call[c].todo[1]
           o == IF op.kind = "insert" THEN [op EXCEPT !.id = idSeq[call[c].gen] + 1] ELSE op
<1>2. /\ call[c].pc = "stage" /\ call' = [call EXCEPT ![c] = Idle]
      /\ IF op.kind = "insert" THEN ReserveID(c) ELSE idSeq' = idSeq
      /\ ops' = [ops EXCEPT ![t] = Append(@, o)] /\ acked' = [acked EXCEPT ![t] = Append(@, o)]
      /\ UNCHANGED <<setting, top, recs, gen, open, lock, applied, done, drops>>
  BY DEF Stage, boundVars
<1>3. /\ t \in Tx /\ call[c].todo \in Seq(Operation) /\ Len(call[c].todo) = 1
      /\ call[c].gen \in 0..MaxDrops
  BY <1>1, <1>2, CallShape
<1>4. idSeq[call[c].gen] \in Nat /\ idSeq' \in [0..MaxDrops -> Nat]
  <2>1. idSeq \in [0..MaxDrops -> Nat] BY <1>1 DEF ShapeInv
  <2>2. idSeq' = idSeq \/ idSeq' = [idSeq EXCEPT ![call[c].gen] = @ + 1] BY <1>2 DEF ReserveID
  <2> QED BY <1>3, <2>1, <2>2
<1>5. op \in Operation BY <1>3
<1>6. o \in Operation BY <1>4, <1>5 DEF Operation
<1> HIDE DEF o, op
<1>7. Idle \in GoodCalls /\ Idle.pc = "idle" /\ Idle.tx = None BY <1>1, IdleShape DEF ShapeInv
<1>8. /\ call' \in [Caller -> GoodCalls] /\ call'[c] = Idle
      /\ \A d \in Caller : d # c => call'[d] = call[d]
  BY <1>1, <1>2, <1>7, CallMoves, Zenon
<1>9. /\ ops[t] \in Seq(Operation) /\ acked[t] \in Seq(Operation)
      /\ ops'[t] = Append(ops[t], o) /\ acked'[t] = Append(acked[t], o)
      /\ \A u \in Tx \ {t} : ops'[u] = ops[u] /\ acked'[u] = acked[u]
      /\ ops' \in [Tx -> Seq(Operation)] /\ acked' \in [Tx -> Seq(Operation)]
  BY <1>1, <1>2, <1>3, <1>6 DEF ShapeInv
<1>10. ShapeInv' BY <1>1, <1>2, <1>4, <1>8, <1>9, SettingKept DEF ShapeInv
<1>11. LimitInv' BY <1>1, <1>2, <1>7, <1>8, QuietLimits
<1>12. ASSUME NEW u \in Tx PROVE AnswerOf(u)'
  <2>1. AnswerOf(u) BY <1>1 DEF AnswerInv
  <2>2. CASE u # t
    <3>1. \A d \in Caller : call'[d].tx = u \/ call[d].tx = u => call'[d] = call[d]
      BY <1>1, <1>7, <1>8, <2>2, OthersAside, Zenon
    <3>2. Aside(u) BY <1>2, <1>9, <2>2, <3>1, Zenon DEF Aside
    <3> QED BY <1>2, <2>1, <3>2, Elsewhere, Zenon
  <2>3. CASE u = t
    <3>1. Requested(t) BY DEF Requested
    <3>2. /\ Requested(t)' => Requested(t)
          /\ Applying(t) => Applying(t)'
      BY <1>2, <1>7, <1>8, <1>3, NoneAssumption DEF Requested, Applying
    <3>3. OpenInv(t)'
      BY <1>2, <1>3, <1>7, <1>8, <2>1, <2>3, NoneAssumption, ZenonT(30) DEF AnswerOf, OpenInv
    <3>4. ReapedInv(t)' /\ WroteInv(t)'
      BY <1>2, <2>1, <2>3, <3>1, <3>2, SettingKept, ZenonT(30) DEF AnswerOf, ReapedInv, WroteInv
    <3>5. SerialInv(t)'
      <4>1. SUFFICES ASSUME SerialClients
                     PROVE  /\ \A d \in Caller : call'[d].tx # t
                            /\ acked'[t] # <<>> /\ ops'[t] = acked'[t]
                            /\ done[t] \cap {"committed", "rolledback"} = {}
        BY <1>2, SettingKept, ZenonT(30) DEF SerialInv, Requested
      <4>2. \A d \in Caller : call[d].tx = t => d = c
        BY <2>1, <2>3, <4>1, ZenonT(30) DEF AnswerOf, SerialInv
      <4>3. ops[t] = acked[t] /\ done[t] \cap {"committed", "rolledback"} = {}
        BY <2>1, <2>3, <3>1, <4>1, Zenon DEF AnswerOf, SerialInv
      <4>4. \A d \in Caller : call'[d].tx # t BY <1>7, <1>8, <4>2, NoneAssumption
      <4>5. Append(acked[t], o) # <<>> BY <1>6, <1>9
      <4> QED BY <1>9, <4>3, <4>4, <4>5, ZenonT(30)
    <3> QED BY <2>3, <3>3, <3>4, <3>5 DEF AnswerOf
  <2> QED BY <2>2, <2>3
<1> QED BY <1>10, <1>11, <1>12 DEF TransactionsInv, AnswerInv

-----------------------------------------------------------------------------
(* Rollback and commit.                                                    *)

\* A request ends with an answer that what was applied bears out.
Answered(c, how) ==
  /\ how \in {"committed", "aborted", "rolledback"}
  /\ call[c].pc \in {"rollback", "removed", "apply"}
  /\ how = "committed" => call[c].pc # "rollback" /\ call[c].todo = <<>>
  /\ how = "rolledback" => call[c].pc = "rollback"
  /\ how = "aborted" /\ call[c].pc = "apply" => Faults # {}
  /\ Finish(c, how)

\* Such an answer is true of the transaction, and no other one is concerned.
LEMMA AnsweredStep ==
  ASSUME ShapeInv, AnswerInv, NEW c \in Caller, NEW how, Answered(c, how),
         open' = open \ {call[c].tx},
         UNCHANGED <<setting, ops, acked, applied>>
  PROVE  /\ AnswerInv' /\ call' \in [Caller -> GoodCalls] /\ done' \in [Tx -> SUBSET Ends]
         /\ call'[c] = Idle /\ Idle.pc = "idle" /\ \A d \in Caller : d # c => call'[d] = call[d]
<1>1. PICK t \in Tx : t = call[c].tx BY CallShape DEF Answered
<1>2. Idle \in GoodCalls /\ Idle.pc = "idle" /\ Idle.tx = None BY IdleShape DEF ShapeInv
<1>3. call' = [call EXCEPT ![c] = Idle] /\ done' = [done EXCEPT ![t] = @ \cup {how}]
  BY <1>1 DEF Answered, Finish
<1>4. /\ call' \in [Caller -> GoodCalls] /\ call'[c] = Idle
      /\ \A d \in Caller : d # c => call'[d] = call[d]
  BY <1>2, <1>3, CallMoves, Zenon
<1>5. how \in Ends BY DEF Answered, Ends
<1>6. /\ done' \in [Tx -> SUBSET Ends] /\ done'[t] = done[t] \cup {how}
      /\ \A u \in Tx \ {t} : done'[u] = done[u]
  BY <1>1, <1>3, <1>5 DEF ShapeInv
<1>7. ASSUME NEW u \in Tx PROVE AnswerOf(u)'
  <2>1. AnswerOf(u) BY DEF AnswerInv
  <2>2. CASE u # t
    <3>1. Aside(u) BY <1>1, <1>2, <1>4, <1>6, <2>2, OthersAside DEF Aside
    <3> QED BY <2>1, <3>1, Elsewhere
  <2>3. CASE u = t
    <3>1. Requested(t) /\ t \notin open' BY <1>1 DEF Requested
    <3>2. Requested(t)' => Requested(t)
      BY <1>1, <1>2, <1>4, NoneAssumption, ZenonT(30) DEF Requested
    <3>3. OpenInv(t)' BY <3>1, Zenon DEF OpenInv
    <3>4. ReapedInv(t)'
      <4>1. "reaped" \notin done[t] BY <2>1, <2>3, <3>1 DEF AnswerOf, ReapedInv
      <4>2. how # "reaped" BY DEF Answered
      <4> QED BY <1>6, <4>1, <4>2 DEF ReapedInv
    <3>5. WroteInv(t)'
      <4>1. CASE call[c].pc = "apply"
        <5>1. how = "committed" \/ Faults # {} BY <4>1 DEF Answered
        <5> QED BY <1>6, <5>1, SettingKept DEF WroteInv
      <4>2. CASE call[c].pc # "apply"
        <5>1. Applying(t) => Applying(t)' BY <1>4, <4>2 DEF Applying
        <5> QED BY <1>6, <2>1, <2>3, <5>1, SettingKept DEF AnswerOf, WroteInv
      <4> QED BY <4>1, <4>2
    <3>6. SerialInv(t)'
      <4>1. CASE SerialClients
        <5>1. \A d \in Caller : call[d].tx = t => d = c
          BY <1>1, <2>1, <2>3, <4>1, Zenon DEF AnswerOf, SerialInv
        <5>2. \A d \in Caller : call'[d].tx # t BY <1>1, <1>2, <1>4, <5>1, NoneAssumption, ZenonT(30)
        <5>3. /\ acked[t] = <<>> => ops[t] = <<>>
              /\ done[t] \cap {"committed", "rolledback"} = {}
              /\ call[c].pc # "apply" => applied[t] = <<>>
              /\ call[c].pc \in {"taken", "removed", "apply"} => applied[t] \o call[c].todo = acked[t]
          BY <1>1, <2>1, <2>3, <3>1, <4>1, ZenonT(30) DEF AnswerOf, SerialInv
        <5>4. how = "committed" => applied[t] = acked[t]
          <6>1. applied[t] \in Seq(Operation) BY <1>1 DEF ShapeInv
          <6>2. applied[t] \o <<>> = applied[t] BY <6>1
          <6> QED BY <5>3, <6>2, Zenon DEF Answered
        <5>5. how = "rolledback" => applied[t] = <<>> BY <5>3 DEF Answered
        <5>6. "committed" \in done'[t] <=> how = "committed" BY <1>6, <5>3
        <5>7. "rolledback" \in done'[t] <=> how = "rolledback" BY <1>6, <5>3
        <5> QED BY <3>1, <5>2, <5>3, <5>4, <5>5, <5>6, <5>7, Zenon DEF SerialInv, Requested
      <4>2. CASE ~SerialClients BY <4>2, SettingKept, Zenon DEF SerialInv
      <4> QED BY <4>1, <4>2
    <3> QED BY <2>3, <3>3, <3>4, <3>5, <3>6 DEF AnswerOf
  <2> QED BY <2>2, <2>3
<1> QED BY <1>2, <1>4, <1>6, <1>7 DEF AnswerInv

\* A rollback takes the transaction out of the manager.
LEMMA RollbackStep ==
  ASSUME TransactionsInv, NEW c \in Caller, RollbackRemove(c)
  PROVE  TransactionsInv'
<1>1. ShapeInv /\ LimitInv /\ AnswerInv BY DEF TransactionsInv
<1>2. /\ call[c].pc = "rollback" /\ open' = open \ {call[c].tx} /\ Finish(c, "rolledback")
      /\ UNCHANGED <<setting, idSeq, top, recs, gen, ops, lock, acked, applied, drops>>
  BY DEF RollbackRemove, boundVars
<1>3. Answered(c, "rolledback") BY <1>2 DEF Answered
<1>4. /\ AnswerInv' /\ call' \in [Caller -> GoodCalls] /\ done' \in [Tx -> SUBSET Ends]
      /\ call'[c] = Idle /\ Idle.pc = "idle" /\ \A d \in Caller : d # c => call'[d] = call[d]
  BY <1>1, <1>2, <1>3, AnsweredStep, Zenon
<1>5. ShapeInv' BY <1>1, <1>2, <1>4, SettingKept, ZenonT(30) DEF ShapeInv
<1>6. LimitInv' BY <1>1, <1>2, <1>4, QuietLimits, Zenon
<1> QED BY <1>4, <1>5, <1>6 DEF TransactionsInv

\* The staged operations are taken, then the transaction leaves the manager.
LEMMA TakeStep ==
  ASSUME TransactionsInv, NEW c \in Caller, Snapshot(c) \/ Remove(c)
  PROVE  TransactionsInv'
<1>1. ShapeInv /\ LimitInv /\ AnswerInv BY DEF TransactionsInv
<1> PICK t \in Tx : t = call[c].tx BY <1>1, CallShape DEF Snapshot, Remove
<1>2. UNCHANGED <<setting, idSeq, top, recs, gen, ops, lock, acked, applied, done, drops>>
  BY DEF Snapshot, Remove, txVars, histVars, boundVars
<1>3. /\ call[c] \in Calls /\ call[c].pc \in {"commit", "taken"} /\ t \in Tx
      /\ call[c].todo \in Seq(Operation)
  BY <1>1, CallShape DEF Snapshot, Remove
<1>4. ops[t] \in Seq(Operation) BY <1>1, <1>3 DEF ShapeInv
<1>5. \E x \in GoodCalls : /\ call' = [call EXCEPT ![c] = x] /\ x.tx = t
                           /\ \/ /\ call[c].pc = "commit" /\ x.pc = "taken" /\ x.todo = ops[t]
                                 /\ open' = open
                              \/ /\ call[c].pc = "taken" /\ x.pc = "removed" /\ x.todo = call[c].todo
                                 /\ open' = open \ {t}
  <2>1. CASE Snapshot(c)
    <3> DEFINE x == [call[c] EXCEPT !.pc = "taken", !.todo = ops[t]]
    <3>1. /\ call' = [call EXCEPT ![c] = x] /\ call[c].pc = "commit" /\ open' = open
      BY <2>1, Zenon DEF Snapshot, txVars
    <3>2. x \in GoodCalls /\ x.tx = t /\ x.pc = "taken" /\ x.todo = ops[t]
      BY <1>3, <1>4, NoneAssumption, Zenon DEF GoodCalls, Calls, PC, Idle
    <3> QED BY <3>1, <3>2, Zenon
  <2>2. CASE Remove(c)
    <3> DEFINE x == [call[c] EXCEPT !.pc = "removed"]
    <3>1. /\ call' = [call EXCEPT ![c] = x] /\ call[c].pc = "taken" /\ open' = open \ {t}
      BY <2>2 DEF Remove
    <3>2. x \in GoodCalls /\ x.tx = t /\ x.pc = "removed" /\ x.todo = call[c].todo
      BY <1>3, NoneAssumption DEF GoodCalls, Calls, PC, Idle
    <3> QED BY <3>1, <3>2, Zenon
  <2> QED BY <2>1, <2>2
<1>6. PICK x \in GoodCalls : /\ call' = [call EXCEPT ![c] = x] /\ x.tx = t
                             /\ \/ /\ call[c].pc = "commit" /\ x.pc = "taken" /\ x.todo = ops[t]
                                   /\ open' = open
                                \/ /\ call[c].pc = "taken" /\ x.pc = "removed"
                                   /\ x.todo = call[c].todo /\ open' = open \ {t}
  BY <1>5, Zenon
<1>7. /\ call' \in [Caller -> GoodCalls] /\ call'[c] = x
      /\ \A d \in Caller : d # c => call'[d] = call[d]
  BY <1>1, <1>6, CallMoves, Zenon
<1>8. ShapeInv' BY <1>1, <1>2, <1>6, <1>7, SettingKept, ZenonT(30) DEF ShapeInv
<1>9. LimitInv' BY <1>1, <1>2, <1>6, <1>7, QuietLimits
<1>10. ASSUME NEW u \in Tx PROVE AnswerOf(u)'
  <2>1. AnswerOf(u) BY <1>1 DEF AnswerInv
  <2>2. CASE u # t
    <3>1. Aside(u) BY <1>1, <1>2, <1>3, <1>6, <1>7, <2>2, OthersAside, Zenon DEF Aside
    <3> QED BY <1>2, <2>1, <3>1, Elsewhere, ZenonT(30)
  <2>3. CASE u = t
    <3>1. Requested(t) /\ Requested(t)' BY <1>6, <1>7 DEF Requested
    <3>2. Applying(t) => Applying(t)' BY <1>6, <1>7 DEF Applying
    <3>3. OpenInv(t)' BY <1>2, <1>6, <1>7, <2>1, <2>3 DEF AnswerOf, OpenInv
    <3>4. ReapedInv(t)' BY <1>2, <2>1, <2>3, <3>1, ZenonT(30) DEF AnswerOf, ReapedInv
    <3>5. WroteInv(t)' BY <1>2, <2>1, <2>3, <3>2, SettingKept, Zenon DEF AnswerOf, WroteInv
    <3>6. SerialInv(t)'
      <4>1. CASE SerialClients
        <5>1. /\ \A d \in Caller : call[d].tx = t => d = c
              /\ acked[t] = <<>> => ops[t] = <<>>
              /\ ops[t] = acked[t] /\ applied[t] = <<>>
              /\ call[c].pc = "taken" => applied[t] \o call[c].todo = acked[t]
              /\ done[t] \cap {"committed", "rolledback"} = {}
          BY <1>3, <2>1, <2>3, <3>1, <4>1, Zenon DEF AnswerOf, SerialInv
        <5>2. \A d \in Caller : call'[d].tx = t => d = c BY <1>7, <5>1
        <5>3. applied[t] \o x.todo = acked[t]
          <6>1. <<>> \o ops[t] = ops[t] BY <1>4
          <6> QED BY <1>6, <5>1, <6>1
        <5> QED BY <1>2, <1>6, <1>7, <5>1, <5>2, <5>3, SettingKept, ZenonT(30) DEF SerialInv
      <4>2. CASE ~SerialClients BY <1>2, <4>2, SettingKept, Zenon DEF SerialInv
      <4> QED BY <4>1, <4>2
    <3> QED BY <2>3, <3>3, <3>4, <3>5, <3>6, ZenonT(30) DEF AnswerOf
  <2> QED BY <2>2, <2>3
<1> QED BY <1>8, <1>9, <1>10 DEF TransactionsInv, AnswerInv

\* The quota has room for a batch that passed the checks.
LEMMA BatchFits ==
  ASSUME ShapeInv, QuotaInv, NEW s \in Seq(Operation), TargetsExist(s), checkQuota(Inserts(s)),
         MaxRecords > 0
  PROVE  Cardinality(Live \cup (IdsOf(s) \cap Id)) <= MaxRecords
<1> DEFINE new == {s[k].id : k \in {k \in DOMAIN s : s[k].kind = "insert"}}
           T == Live \cup (IdsOf(s) \cap Id)
<1>1. /\ IsFiniteSet(new) /\ Cardinality(new) <= Inserts(s) /\ Inserts(s) \in Nat
      /\ Inserts(s) = 0 => new = {}
  BY InsertsBound, Zenon
<1>2. T \subseteq Live \cup new BY DEF TargetsExist, IdsOf
<1>3. /\ T \in SUBSET Id /\ IsFiniteSet(Live) /\ Cardinality(Live) \in Nat
      /\ IsFiniteSet(T) /\ Cardinality(T) \in Nat
  BY LiveFinite
<1>4. MaxRecords \in Nat /\ Cardinality(Live) <= MaxRecords BY Bounds DEF QuotaInv, ShapeInv
<1> HIDE DEF new, T
<1>5. /\ IsFiniteSet(Live \cup new) /\ Cardinality(new) \in Nat
      /\ Cardinality(Live \cup new) \in Nat
      /\ Cardinality(Live \cup new) <= Cardinality(Live) + Cardinality(new)
  <2>1. /\ IsFiniteSet(Live \cup new) /\ Cardinality(new) \in Nat
        /\ Cardinality(Live \cup new) \in Nat /\ Cardinality(Live \cap new) \in Nat
        /\ Cardinality(Live \cup new) = Cardinality(Live) + Cardinality(new) - Cardinality(Live \cap new)
    BY <1>1, <1>3, FS_Union, FS_Intersection, FS_CardinalityType, Zenon
  <2> QED BY <1>3, <2>1
<1>6. Cardinality(T) <= Cardinality(Live \cup new) BY <1>2, <1>5, FS_Subset
<1>7. CASE Inserts(s) = 0
  <2>1. Cardinality(new) = 0 BY <1>1, <1>7, FS_EmptySet
  <2> QED BY <1>3, <1>4, <1>5, <1>6, <2>1 DEF T
<1>8. CASE Inserts(s) # 0
  <2>1. Cardinality(Live) + Inserts(s) <= MaxRecords BY <1>8, <1>4 DEF checkQuota
  <2> QED BY <1>1, <1>3, <1>4, <1>5, <1>6, <2>1 DEF T
<1> QED BY <1>7, <1>8

\* CommitTx validates the batch under the lock, and applies it or ends.
LEMMA CommitLockStep ==
  ASSUME TransactionsInv, NEW c \in Caller, CommitLock(c)
  PROVE  TransactionsInv'
<1>1. ShapeInv /\ LimitInv /\ AnswerInv BY DEF TransactionsInv
<1>2. /\ call[c].pc = "removed" /\ lock = None
      /\ UNCHANGED <<setting, idSeq, top, recs, gen, open, ops, acked, applied, drops>>
  BY DEF CommitLock, txVars, boundVars
<1>3. call[c] \in Calls /\ call[c].todo \in Seq(Operation) BY <1>1, CallShape
<1>4. PICK t \in Tx : t = call[c].tx BY <1>1, <1>2, CallShape
<1>5. t \notin open BY <1>1, <1>2, <1>4 DEF AnswerInv, AnswerOf, OpenInv
<1>6. \A d \in Caller : call[d].pc # "apply"
  BY <1>1, <1>2, NoneAssumption DEF LimitInv, LockInv
<1>7. ASSUME NEW how \in {"committed", "aborted"}, Finish(c, how), lock' = lock,
             how = "committed" => call[c].todo = <<>>
      PROVE  TransactionsInv'
  <2>1. Answered(c, how) BY <1>2, <1>7 DEF Answered
  <2>2. open' = open \ {call[c].tx} BY <1>2, <1>4, <1>5
  <2>3. /\ AnswerInv' /\ call' \in [Caller -> GoodCalls] /\ done' \in [Tx -> SUBSET Ends]
        /\ call'[c] = Idle /\ Idle.pc = "idle" /\ \A d \in Caller : d # c => call'[d] = call[d]
    BY <1>1, <1>2, <2>1, <2>2, AnsweredStep, ZenonT(30)
  <2>4. ShapeInv' BY <1>1, <1>2, <1>7, <2>3, SettingKept, ZenonT(30) DEF ShapeInv
  <2>5. LimitInv' BY <1>1, <1>2, <1>7, <2>3, QuietLimits, Zenon
  <2> QED BY <2>3, <2>4, <2>5 DEF TransactionsInv
<1> DEFINE s == call[c].todo
<1>8. ASSUME lock' = c, call' = [call EXCEPT ![c].pc = "apply"], done' = done,
             TargetsExist(s), txCheckUnique(s), checkQuota(Inserts(s))
      PROVE  TransactionsInv'
  <2> DEFINE x == [call[c] EXCEPT !.pc = "apply"]
  <2>1. x \in GoodCalls /\ x.tx = t /\ x.pc = "apply" /\ x.todo = s
    BY <1>3, <1>4, NoneAssumption DEF GoodCalls, Calls, PC, Idle
  <2>2. call' = [call EXCEPT ![c] = x] BY <1>8
  <2> HIDE DEF x
  <2>3. /\ call' \in [Caller -> GoodCalls] /\ call'[c] = x
        /\ \A d \in Caller : d # c => call'[d] = call[d]
    BY <1>1, <2>1, <2>2, CallMoves, Zenon
  <2>4. ShapeInv' BY <1>1, <1>2, <1>8, <2>3, SettingKept DEF ShapeInv
  <2>5. Live' = Live /\ Id' = Id /\ MaxRecords' = MaxRecords BY <1>2, SettingKept, Zenon DEF Live
  <2>6. LockInv' BY <1>6, <1>8, <2>1, <2>3, ZenonT(30) DEF LockInv
  <2>7. UniqueInv' BY <1>1, <1>2, <2>5, Zenon DEF LimitInv, UniqueInv
  <2>8. \A d \in Caller : call'[d].pc = "apply" => d = c BY <1>6, <2>3
  <2>9. BatchInv'
    <3>1. \A d \in Caller : call'[d].pc = "apply" => call'[d].todo = s BY <2>1, <2>3, <2>8
    <3>2. \A k \in DOMAIN s : s[k].kind # "delete" =>
             /\ ~ \E i \in Live' \ {s[k].id} : recs'[i].val = s[k].val
             /\ \A j \in 1..k - 1 : s[j].kind # "delete" /\ s[j].val = s[k].val => s[j].id = s[k].id
      BY <1>2, <1>8, <2>5 DEF txCheckUnique, Taken
    <3> HIDE DEF s
    <3> QED BY <3>1, <3>2 DEF BatchInv, txCheckUnique, Taken
  <2>10. QuotaInv'
    <3>1. MaxRecords > 0 => /\ Cardinality(Live) <= MaxRecords
                            /\ Cardinality(Live \cup (IdsOf(s) \cap Id)) <= MaxRecords
      BY <1>1, <1>3, <1>8, BatchFits, Zenon DEF LimitInv, QuotaInv
    <3>2. \A d \in Caller : call'[d].pc = "apply" => call'[d].todo = s BY <2>1, <2>3, <2>8
    <3> QED BY <2>5, <3>1, <3>2, Zenon DEF QuotaInv, IdsOf
  <2>11. ASSUME NEW u \in Tx PROVE AnswerOf(u)'
    <3>1. AnswerOf(u) BY <1>1 DEF AnswerInv
    <3>2. CASE u # t
      <4>1. Aside(u) BY <1>1, <1>2, <1>4, <1>8, <2>1, <2>3, <3>2, OthersAside DEF Aside
      <4> QED BY <1>2, <3>1, <4>1, Elsewhere
    <3>3. CASE u = t
      <4>1. Requested(t) /\ Requested(t)' /\ Applying(t)'
        BY <1>4, <2>1, <2>3 DEF Requested, Applying
      <4>2. OpenInv(t)' /\ WroteInv(t)' BY <1>2, <1>5, <4>1 DEF OpenInv, WroteInv
      <4>3. ReapedInv(t)' BY <1>8, <3>1, <3>3, <4>1 DEF AnswerOf, ReapedInv
      <4>4. SerialInv(t)'
        <5>1. CASE SerialClients
          <6>1. /\ \A d \in Caller : call[d].tx = t => d = c
                /\ acked[t] = <<>> => ops[t] = <<>>
                /\ ops[t] = acked[t] /\ applied[t] \o s = acked[t]
                /\ done[t] \cap {"committed", "rolledback"} = {}
            BY <1>2, <1>4, <3>1, <3>3, <4>1, <5>1, Zenon DEF AnswerOf, SerialInv
          <6>2. \A d \in Caller : call'[d].tx = t => d = c BY <2>3, <6>1
          <6> QED BY <1>2, <1>8, <2>1, <2>3, <6>1, <6>2, SettingKept, ZenonT(30) DEF SerialInv
        <5>2. CASE ~SerialClients BY <1>2, <5>2, SettingKept, Zenon DEF SerialInv
        <5> QED BY <5>1, <5>2
      <4> QED BY <3>3, <4>2, <4>3, <4>4 DEF AnswerOf
    <3> QED BY <3>2, <3>3
  <2> QED BY <2>4, <2>6, <2>7, <2>9, <2>10, <2>11 DEF TransactionsInv, LimitInv, AnswerInv
<1> QED BY <1>7, <1>8 DEF CommitLock

\* The higher of two ids.
LEMMA MaxOfTwo ==
  ASSUME NEW m \in Nat, NEW n \in Nat
  PROVE  Max({m, n}) \in Nat
<1>1. CASE m >= n
  <2>1. Max({m, n}) = m BY <1>1 DEF Max
  <2> QED BY <2>1
<1>2. CASE n > m
  <2>1. Max({m, n}) = n BY <1>2 DEF Max
  <2> QED BY <2>1
<1> QED BY <1>1, <1>2

\* One operation of a checked batch keeps values unique, and what is left of
\* the batch checked and within the quota.
LEMMA ApplyLimits ==
  ASSUME ShapeInv, UniqueInv, setting' = setting, NEW s \in Seq(Operation), s # <<>>,
         txCheckUnique(s), recs' = [recs EXCEPT ![Head(s).id] = Effect(Head(s))]
  PROVE  /\ recs' \in [Id -> Record] /\ UniqueInv'
         /\ txCheckUnique(Tail(s))'
         /\ Live' \cup (IdsOf(Tail(s)) \cap Id) \subseteq Live \cup (IdsOf(s) \cap Id)
         /\ Live' \subseteq Live \cup (IdsOf(s) \cap Id)
<1> DEFINE o == Head(s)
           r == Tail(s)
<1>1. /\ o = s[1] /\ 1 \in DOMAIN s /\ o \in Operation /\ r \in Seq(Operation)
      /\ \A k \in DOMAIN r : k + 1 \in DOMAIN s /\ r[k] = s[k + 1] /\ k \in Nat /\ k >= 1
  OBVIOUS
<1>2. recs \in [Id -> Record] BY DEF ShapeInv
<1>3. recs' \in [Id -> Record]
  <2>1. o.id \in Id => Effect(o) \in Record
    BY <1>1, <1>2 DEF Effect, Record, Operation, Absent
  <2> QED BY <1>2, <2>1, Zenon
<1>4. /\ \A i \in Id : i # o.id => recs'[i] = recs[i]
      /\ o.id \in Id => recs'[o.id] = Effect(o)
  BY <1>2
<1>5. o.kind # "delete" => Effect(o).val = o.val BY DEF Effect
<1>6. o.kind = "delete" => Effect(o) = Absent BY DEF Effect
<1> HIDE DEF o, r
<1>7. /\ Live' = {i \in Id : recs'[i] # Absent}
      /\ \A i \in Live' : i # o.id => i \in Live /\ recs'[i] = recs[i]
      /\ o.id \in Live' => o.kind # "delete" /\ recs'[o.id].val = o.val /\ o.id \in Id
  BY <1>4, <1>5, <1>6, SettingKept DEF Live
<1>8. \A k \in DOMAIN s : s[k].kind # "delete" =>
        /\ \A i \in Live : i # s[k].id => recs[i].val # s[k].val
        /\ \A j \in 1..k - 1 : s[j].kind # "delete" /\ s[j].val = s[k].val => s[j].id = s[k].id
  BY DEF txCheckUnique, Taken
<1>9. UniqueInv'
  <2>1. SUFFICES ASSUME NEW i \in Live', NEW j \in Live', recs'[i].val = recs'[j].val, i # j
                 PROVE  FALSE
    BY DEF UniqueInv
  <2>2. CASE i # o.id /\ j # o.id BY <1>7, <2>1, <2>2 DEF UniqueInv
  <2>3. CASE i = o.id BY <1>1, <1>7, <1>8, <2>1, <2>3
  <2>4. CASE j = o.id BY <1>1, <1>7, <1>8, <2>1, <2>4
  <2> QED BY <2>2, <2>3, <2>4
<1>10. ASSUME NEW k \in DOMAIN r, r[k].kind # "delete"
       PROVE  /\ \A i \in Live' : i # r[k].id => recs'[i].val # r[k].val
              /\ \A j \in 1..k - 1 : r[j].kind # "delete" /\ r[j].val = r[k].val => r[j].id = r[k].id
  <2>1. k + 1 \in DOMAIN s /\ r[k] = s[k + 1] /\ k \in Nat /\ k >= 1 BY <1>1
  <2>2. o.kind # "delete" /\ o.val = r[k].val => o.id = r[k].id
    <3>1. 1 \in 1..(k + 1) - 1 BY <2>1
    <3> QED BY <1>1, <1>8, <1>10, <2>1, <3>1
  <2>3. ASSUME NEW i \in Live', i # r[k].id PROVE recs'[i].val # r[k].val
    <3>1. CASE i = o.id BY <1>7, <2>2, <2>3, <3>1
    <3>2. CASE i # o.id BY <1>7, <1>8, <1>10, <2>1, <2>3, <3>2
    <3> QED BY <3>1, <3>2
  <2>4. ASSUME NEW j \in 1..k - 1, r[j].kind # "delete", r[j].val = r[k].val
        PROVE  r[j].id = r[k].id
    <3>1. j \in DOMAIN r /\ j + 1 \in 1..(k + 1) - 1
      <4>1. DOMAIN r = 1..Len(r) /\ k <= Len(r) /\ Len(r) \in Nat BY <1>1, <1>10
      <4>2. j \in Nat /\ 1 <= j /\ j <= k - 1 BY <2>1
      <4> QED BY <2>1, <4>1, <4>2
    <3>2. r[j] = s[j + 1] BY <1>1, <3>1
    <3> QED BY <1>8, <1>10, <2>1, <2>4, <3>1, <3>2, Zenon
  <2> QED BY <2>3, <2>4
<1>11. txCheckUnique(r)' BY <1>10 DEF txCheckUnique, Taken, r
<1>12. o.id \in IdsOf(s) /\ IdsOf(r) \subseteq IdsOf(s) BY <1>1 DEF IdsOf
<1>13. Live' \subseteq Live \cup (IdsOf(s) \cap Id) BY <1>7, <1>12
<1> QED BY <1>3, <1>9, <1>11, <1>12, <1>13 DEF r

\* One turn of the apply loop.
LEMMA ApplyStep ==
  ASSUME TransactionsInv, NEW c \in Caller, ApplyOp(c)
  PROVE  TransactionsInv'
<1>1. ShapeInv /\ LimitInv /\ AnswerInv BY DEF TransactionsInv
<1>2. PICK s \in Seq(Operation) : s = call[c].todo BY <1>1, CallShape
<1>3. PICK t \in Tx : t = call[c].tx BY <1>1, CallShape DEF ApplyOp
<1>4. /\ call[c].pc = "apply" /\ s # <<>> /\ call[c] \in Calls
      /\ recs' = [recs EXCEPT ![Head(s).id] = Effect(Head(s))]
      /\ top' = Max({top, Head(s).id})
      /\ applied' = [applied EXCEPT ![t] = Append(@, Head(s))]
      /\ call' = [call EXCEPT ![c].todo = Tail(s)]
      /\ UNCHANGED <<setting, idSeq, gen, open, ops, lock, acked, done, drops>>
  BY <1>1, <1>2, <1>3, CallShape DEF ApplyOp, txVars, boundVars
<1> DEFINE x == [call[c] EXCEPT !.todo = Tail(s)]
<1>5. Head(s) \in Operation /\ Tail(s) \in Seq(Operation) BY <1>2, <1>4
<1>6. x \in GoodCalls /\ x.tx = t /\ x.pc = "apply" /\ x.todo = Tail(s)
  BY <1>3, <1>4, <1>5, NoneAssumption, Zenon DEF GoodCalls, Calls, PC, Idle
<1>7. call' = [call EXCEPT ![c] = x] BY <1>4
<1> HIDE DEF x
<1>8. /\ call' \in [Caller -> GoodCalls] /\ call'[c] = x
      /\ \A d \in Caller : d # c => call'[d] = call[d]
  BY <1>1, <1>6, <1>7, CallMoves, Zenon
<1>9. txCheckUnique(s) BY <1>1, <1>2, <1>4 DEF LimitInv, BatchInv
<1>10. /\ recs' \in [Id -> Record] /\ UniqueInv' /\ txCheckUnique(Tail(s))'
       /\ Live' \cup (IdsOf(Tail(s)) \cap Id) \subseteq Live \cup (IdsOf(s) \cap Id)
       /\ Live' \subseteq Live \cup (IdsOf(s) \cap Id)
  BY <1>1, <1>2, <1>4, <1>9, ApplyLimits, Zenon DEF LimitInv
<1>11. top' \in Nat BY <1>1, <1>4, <1>5, MaxOfTwo, Zenon DEF ShapeInv, Operation
<1>12. /\ applied[t] \in Seq(Operation) /\ applied' \in [Tx -> Seq(Operation)]
       /\ applied'[t] = Append(applied[t], Head(s))
       /\ \A u \in Tx \ {t} : applied'[u] = applied[u]
  BY <1>1, <1>4, <1>5 DEF ShapeInv
<1>13. ShapeInv' BY <1>1, <1>4, <1>8, <1>10, <1>11, <1>12, SettingKept DEF ShapeInv
<1>14. LockInv' BY <1>1, <1>4, <1>6, <1>8 DEF LimitInv, LockInv
<1>15. \A d \in Caller : call'[d].pc = "apply" => d = c /\ call'[d].todo = Tail(s)
  BY <1>1, <1>4, <1>6, <1>8 DEF LimitInv, LockInv
<1>16. BatchInv' BY <1>10, <1>15, Zenon DEF BatchInv
<1>17. QuotaInv'
  <2>1. SUFFICES ASSUME MaxRecords > 0
                 PROVE  /\ Cardinality(Live') <= MaxRecords
                        /\ Cardinality(Live' \cup (IdsOf(Tail(s)) \cap Id)) <= MaxRecords
    <3>1. Id' = Id /\ MaxRecords' = MaxRecords BY <1>4, SettingKept
    <3> QED BY <1>15, <2>1, <3>1, Zenon DEF QuotaInv, IdsOf
  <2> DEFINE T == Live \cup (IdsOf(s) \cap Id)
  <2>2. Cardinality(T) <= MaxRecords BY <1>1, <1>2, <1>4, <2>1 DEF LimitInv, QuotaInv
  <2>3. T \in SUBSET Id /\ IsFiniteSet(T) /\ Cardinality(T) \in Nat BY <1>1, LiveFinite
  <2>4. MaxRecords \in Nat BY <1>1, Bounds DEF ShapeInv
  <2>5. Live' \subseteq T /\ Live' \cup (IdsOf(Tail(s)) \cap Id) \subseteq T BY <1>10
  <2> HIDE DEF T
  <2>6. ASSUME NEW U, U \subseteq T PROVE Cardinality(U) <= MaxRecords
    <3>1. Cardinality(U) <= Cardinality(T) /\ IsFiniteSet(U) BY <2>3, <2>6, FS_Subset
    <3>2. Cardinality(U) \in Nat BY <3>1, FS_CardinalityType
    <3> QED BY <2>2, <2>3, <2>4, <3>1, <3>2
  <2> QED BY <2>5, <2>6
<1>18. ASSUME NEW u \in Tx PROVE AnswerOf(u)'
  <2>1. AnswerOf(u) BY <1>1 DEF AnswerInv
  <2>2. CASE u # t
    <3>1. Aside(u) BY <1>1, <1>3, <1>4, <1>6, <1>8, <1>12, <2>2, OthersAside DEF Aside
    <3> QED BY <1>4, <2>1, <3>1, Elsewhere
  <2>3. CASE u = t
    <3>1. Requested(t) /\ Applying(t)' BY <1>3, <1>6, <1>8 DEF Requested, Applying
    <3>2. OpenInv(t)' BY <1>3, <1>4, <2>1, <2>3 DEF AnswerOf, OpenInv
    <3>3. ReapedInv(t)' BY <1>4, <2>1, <2>3, <3>1 DEF AnswerOf, ReapedInv
    <3>4. WroteInv(t)' BY <3>1 DEF WroteInv
    <3>5. SerialInv(t)'
      <4>1. CASE SerialClients
        <5>1. /\ \A d \in Caller : call[d].tx = t => d = c
              /\ acked[t] = <<>> => ops[t] = <<>>
              /\ ops[t] = acked[t] /\ applied[t] \o s = acked[t]
              /\ done[t] \cap {"committed", "rolledback"} = {}
          BY <1>2, <1>3, <1>4, <2>1, <2>3, <3>1, <4>1, Zenon DEF AnswerOf, SerialInv
        <5>2. \A d \in Caller : call'[d].tx = t => d = c BY <1>8, <5>1
        <5>3. applied'[t] \o Tail(s) = acked[t]
          <6>1. applied[t] \in Seq(Operation) /\ s \in Seq(Operation) /\ s # <<>>
            BY <1>2, <1>4, <1>12
          <6>2. Append(applied[t], Head(s)) \o Tail(s) = applied[t] \o s
            BY <6>1, HeadMoves, Zenon
          <6> QED BY <1>12, <5>1, <6>2, Zenon
        <5> QED BY <1>4, <1>6, <1>8, <5>1, <5>2, <5>3, SettingKept, ZenonT(30) DEF SerialInv
      <4>2. CASE ~SerialClients BY <1>4, <4>2, SettingKept, ZenonT(30) DEF SerialInv
      <4> QED BY <4>1, <4>2
    <3> QED BY <2>3, <3>2, <3>3, <3>4, <3>5 DEF AnswerOf
  <2> QED BY <2>2, <2>3
<1> QED BY <1>10, <1>13, <1>14, <1>16, <1>17, <1>18 DEF TransactionsInv, LimitInv, AnswerInv

\* The commit ends, with or without an error, and gives the lock back.
LEMMA CommitEnds ==
  ASSUME TransactionsInv, NEW c \in Caller, CommitUnlock(c) \/ CommitFails(c)
  PROVE  TransactionsInv'
<1>1. ShapeInv /\ LimitInv /\ AnswerInv BY DEF TransactionsInv
<1>2. /\ call[c].pc = "apply" /\ lock' = None
      /\ UNCHANGED <<setting, idSeq, top, recs, gen, open, ops, acked, applied, drops>>
  BY DEF CommitUnlock, CommitFails, txVars, boundVars
<1>3. \E how : Answered(c, how)
  <2>1. CASE CommitUnlock(c)
    <3>1. Answered(c, "committed") BY <2>1 DEF CommitUnlock, Answered
    <3> QED BY <3>1
  <2>2. CASE CommitFails(c)
    <3>1. Answered(c, "aborted") BY <2>2, Zenon DEF CommitFails, Answered
    <3> QED BY <3>1
  <2> QED BY <2>1, <2>2
<1>4. PICK how : Answered(c, how) BY <1>3
<1>5. call[c].tx \in Tx /\ call[c].tx \notin open
  BY <1>1, <1>2, CallShape DEF AnswerInv, AnswerOf, OpenInv
<1>6. open' = open \ {call[c].tx} BY <1>2, <1>5
<1>7. /\ AnswerInv' /\ call' \in [Caller -> GoodCalls] /\ done' \in [Tx -> SUBSET Ends]
      /\ call'[c] = Idle /\ Idle.pc = "idle" /\ \A d \in Caller : d # c => call'[d] = call[d]
  BY <1>1, <1>2, <1>4, <1>6, AnsweredStep
<1>8. ShapeInv' BY <1>1, <1>2, <1>7, SettingKept DEF ShapeInv
<1>9. Live' = Live /\ MaxRecords' = MaxRecords BY <1>2, SettingKept, ZenonT(30) DEF Live
<1>10. \A d \in Caller : call'[d].pc # "apply" BY <1>1, <1>2, <1>7, Zenon DEF LimitInv, LockInv
<1>11. LockInv' BY <1>2, <1>10, NoneAssumption DEF LockInv
<1>12. UniqueInv' BY <1>1, <1>2, <1>9, ZenonT(30) DEF LimitInv, UniqueInv
<1>13. BatchInv' /\ QuotaInv' BY <1>1, <1>9, <1>10, Zenon DEF LimitInv, BatchInv, QuotaInv
<1> QED BY <1>7, <1>8, <1>11, <1>12, <1>13 DEF TransactionsInv, LimitInv

\* A record outside a batch is written, with a value no other record has.
LEMMA DirectLimits ==
  ASSUME ShapeInv, UniqueInv, setting' = setting, NEW i \in Nat, NEW x \in Record,
         x # Absent => ~Taken(x.val, i),
         recs' = [recs EXCEPT ![i] = x]
  PROVE  /\ recs' \in [Id -> Record] /\ UniqueInv'
         /\ Live' \subseteq Live \cup {i}
<1>1. recs \in [Id -> Record] BY DEF ShapeInv
<1>2. /\ recs' \in [Id -> Record]
      /\ \A j \in Id : j # i => recs'[j] = recs[j]
      /\ i \in Id => recs'[i] = x
  BY <1>1, Zenon
<1>3. /\ Live' = {j \in Id : recs'[j] # Absent}
      /\ \A j \in Live' : j # i => j \in Live /\ recs'[j] = recs[j]
      /\ i \in Live' => recs'[i] = x /\ x # Absent
  BY <1>2, SettingKept DEF Live
<1>4. x # Absent => \A j \in Live : j # i => recs[j].val # x.val BY DEF Taken
<1>5. UniqueInv'
  <2>1. SUFFICES ASSUME NEW j \in Live', NEW k \in Live', recs'[j].val = recs'[k].val, j # k
                 PROVE  FALSE
    BY DEF UniqueInv
  <2>2. CASE j # i /\ k # i BY <1>3, <2>1, <2>2 DEF UniqueInv
  <2>3. CASE j = i BY <1>3, <1>4, <2>1, <2>3
  <2>4. CASE k = i BY <1>3, <1>4, <2>1, <2>4
  <2> QED BY <2>2, <2>3, <2>4
<1> QED BY <1>2, <1>3, <1>5

\* A write outside any transaction waits for the lock and passes its checks.
LEMMA DirectStep ==
  ASSUME TransactionsInv, DirectWrite
  PROVE  TransactionsInv'
<1>1. ShapeInv /\ LimitInv /\ AnswerInv BY DEF TransactionsInv
<1>2. /\ lock = None
      /\ UNCHANGED <<setting, gen, open, ops, call, lock, acked, applied, done, drops>>
  BY DEF DirectWrite, txVars, histVars
<1>3. \A c \in Caller : call'[c].pc # "apply"
  BY <1>1, <1>2, NoneAssumption DEF LimitInv, LockInv
<1>4. /\ recs' \in [Id -> Record] /\ UniqueInv'
      /\ idSeq' \in [0..MaxDrops -> Nat] /\ top' \in Nat
      /\ MaxRecords > 0 => Cardinality(Live') <= MaxRecords
  <2> DEFINE Kept == /\ recs' \in [Id -> Record] /\ UniqueInv'
                     /\ idSeq' \in [0..MaxDrops -> Nat] /\ top' \in Nat
                     /\ MaxRecords > 0 => Cardinality(Live') <= MaxRecords
  <2> SUFFICES Kept OBVIOUS
  <2>1. /\ idSeq \in [0..MaxDrops -> Nat] /\ gen \in 0..MaxDrops /\ top \in Nat
        /\ recs \in [Id -> Record] /\ UniqueInv
    BY <1>1 DEF ShapeInv, LimitInv
  <2>2. /\ MaxRecords \in Nat /\ IsFiniteSet(Live) /\ Cardinality(Live) \in Nat
        /\ Live \subseteq Id
    BY <1>1, Bounds, LiveFinite DEF ShapeInv
  <2>3. MaxRecords > 0 => Cardinality(Live) <= MaxRecords BY <1>1 DEF LimitInv, QuotaInv
  <2>4. Id \subseteq Nat BY Bounds DEF Id
  <2>5. ASSUME NEW T, IsFiniteSet(T), Live' \subseteq T, MaxRecords > 0,
               Cardinality(T) <= MaxRecords
        PROVE  Cardinality(Live') <= MaxRecords
    <3>1. Cardinality(Live') <= Cardinality(T) /\ IsFiniteSet(Live') BY <2>5, FS_Subset
    <3>2. Cardinality(Live') \in Nat /\ Cardinality(T) \in Nat
      BY <2>5, <3>1, FS_CardinalityType
    <3> QED BY <2>2, <2>5, <3>1, <3>2
  <2>6. ASSUME NEW v \in Val, Insert(v)
        PROVE  Kept
    <3>1. PICK i \in Nat : i = idSeq[gen] + 1 BY <2>1
    <3>2. PICK x \in Record : x = [rev |-> 1, val |-> v] BY Zenon DEF Record
    <3>3. /\ checkQuota(1) /\ ~Taken(x.val, i) /\ recs' = [recs EXCEPT ![i] = x]
          /\ idSeq' = [idSeq EXCEPT ![gen] = @ + 1] /\ top' = Max({top, i})
      BY <2>6, <3>1, <3>2 DEF Insert
    <3>4. recs' \in [Id -> Record] /\ UniqueInv' /\ Live' \subseteq Live \cup {i}
      BY <1>1, <1>2, <2>1, <3>3, DirectLimits, Zenon
    <3>5. top' \in Nat BY <2>1, <3>3, MaxOfTwo
    <3>6. idSeq' \in [0..MaxDrops -> Nat] BY <2>1, <3>3
    <3>7. ASSUME MaxRecords > 0 PROVE Cardinality(Live') <= MaxRecords
      <4>1. Cardinality(Live) + 1 <= MaxRecords BY <2>2, <3>3, <3>7 DEF checkQuota
      <4>2. IsFiniteSet(Live \cup {i}) /\ Cardinality(Live \cup {i}) <= Cardinality(Live) + 1
        <5>1. /\ IsFiniteSet(Live \cup {i})
              /\ Cardinality(Live \cup {i}) \in {Cardinality(Live), Cardinality(Live) + 1}
          BY <2>2, FS_AddElement
        <5> QED BY <2>2, <5>1
      <4>3. Cardinality(Live \cup {i}) <= MaxRecords
        <5>1. Cardinality(Live \cup {i}) \in Nat BY <4>2, FS_CardinalityType
        <5> QED BY <2>2, <4>1, <4>2, <5>1
      <4> QED BY <2>5, <3>4, <3>7, <4>2, <4>3
    <3> QED BY <3>4, <3>5, <3>6, <3>7
  <2>7. ASSUME NEW i \in Live, NEW x \in Record, x # Absent => ~Taken(x.val, i),
               recs' = [recs EXCEPT ![i] = x], UNCHANGED <<idSeq, top>>
        PROVE  Kept
    <3>1. recs' \in [Id -> Record] /\ UniqueInv' /\ Live' \subseteq Live \cup {i}
      BY <1>1, <1>2, <2>1, <2>2, <2>4, <2>7, DirectLimits, Zenon
    <3>2. Live' \subseteq Live BY <2>7, <3>1
    <3> QED BY <2>1, <2>2, <2>3, <2>5, <2>7, <3>1, <3>2
  <2>8. ASSUME NEW i \in Id, NEW v \in Val, Update(i, v)
        PROVE  Kept
    <3>1. PICK x \in Record : x = [rev |-> recs[i].rev + 1, val |-> v]
      <4>1. recs[i].rev \in Nat BY <2>1 DEF Record
      <4>2. [rev |-> recs[i].rev + 1, val |-> v] \in Record BY <4>1 DEF Record
      <4> QED BY <4>2
    <3>2. /\ i \in Live /\ ~Taken(x.val, i) /\ recs' = [recs EXCEPT ![i] = x]
          /\ UNCHANGED <<idSeq, top>>
      BY <2>8, <3>1 DEF Update
    <3> QED BY <2>7, <3>2, Zenon
  <2>9. ASSUME NEW i \in Id, Delete(i)
        PROVE  Kept
    <3>1. Absent \in Record BY DEF Record, Absent
    <3>2. i \in Live /\ recs' = [recs EXCEPT ![i] = Absent] /\ UNCHANGED <<idSeq, top>>
      BY <2>9 DEF Delete
    <3> QED BY <2>7, <3>1, <3>2, Zenon
  <2> HIDE DEF Kept
  <2>10. CASE \E v \in Val : Insert(v) BY <2>6, <2>10
  <2>11. CASE \E i \in Id : Delete(i) BY <2>9, <2>11
  <2>12. CASE \E i \in Id : \E v \in Val : Update(i, v) BY <2>8, <2>12
  <2> QED BY <2>10, <2>11, <2>12 DEF DirectWrite
<1>5. ShapeInv' BY <1>1, <1>2, <1>4, SettingKept DEF ShapeInv
<1>6. LockInv' BY <1>1, <1>2 DEF LimitInv, LockInv
<1>7. BatchInv' BY <1>3 DEF BatchInv
<1>8. QuotaInv' BY <1>2, <1>3, <1>4, SettingKept, ZenonT(30) DEF QuotaInv
<1>9. \A u \in Tx : Aside(u) BY <1>2 DEF Aside
<1>10. AnswerInv' BY <1>1, <1>2, <1>9, Elsewhere DEF AnswerInv
<1> QED BY <1>4, <1>5, <1>6, <1>7, <1>8, <1>10 DEF TransactionsInv, LimitInv

\* A collection dropped and created again starts empty.
LEMMA DropStep ==
  ASSUME TransactionsInv, Drop
  PROVE  TransactionsInv'
<1>1. ShapeInv /\ LimitInv /\ AnswerInv BY DEF TransactionsInv
<1>2. /\ lock = None /\ drops < MaxDrops /\ drops' = drops + 1 /\ gen' = gen + 1 /\ top' = 0
      /\ recs' = [i \in Id |-> Absent]
      /\ UNCHANGED <<setting, idSeq, open, ops, call, lock, acked, applied, done>>
  BY DEF Drop, txVars, histVars
<1>3. \A c \in Caller : call'[c].pc # "apply"
  BY <1>1, <1>2, NoneAssumption DEF LimitInv, LockInv
<1>4. Live' = {} BY <1>2, SettingKept DEF Live
<1>5. recs' \in [Id -> Record]
  <2>1. Absent \in Record BY DEF Record, Absent
  <2> QED BY <1>2, <2>1
<1>6. gen' \in 0..MaxDrops /\ gen' = drops' BY <1>1, <1>2, Bounds DEF ShapeInv
<1>7. ShapeInv' BY <1>1, <1>2, <1>5, <1>6, SettingKept DEF ShapeInv
<1>8. LockInv' /\ UniqueInv' /\ BatchInv'
  BY <1>1, <1>2, <1>3, <1>4, Zenon DEF LimitInv, LockInv, UniqueInv, BatchInv
<1>9. QuotaInv'
  <2>1. Cardinality(Live') = 0 BY <1>4, FS_EmptySet
  <2>2. MaxRecords' = MaxRecords /\ MaxRecords \in Nat
    BY <1>1, <1>2, SettingKept, Bounds DEF ShapeInv
  <2> QED BY <1>3, <2>1, <2>2 DEF QuotaInv
<1>10. \A u \in Tx : Aside(u) BY <1>2 DEF Aside
<1>11. AnswerInv' BY <1>1, <1>2, <1>10, Elsewhere DEF AnswerInv
<1> QED BY <1>7, <1>8, <1>9, <1>11 DEF TransactionsInv, LimitInv

\* A restart forgets every transaction and request, and no append.
LEMMA CrashStep ==
  ASSUME TransactionsInv, Crash
  PROVE  TransactionsInv'
<1>1. ShapeInv /\ LimitInv /\ AnswerInv BY DEF TransactionsInv
<1>2. /\ Faults # {} /\ open' = {} /\ ops' = [t \in Tx |-> <<>>]
      /\ call' = [c \in Caller |-> Idle] /\ lock' = None
      /\ idSeq' = [idSeq EXCEPT ![gen] = top]
      /\ done' = [t \in Tx |-> IF t \in open \/ Requested(t)
                               THEN done[t] \cup {"crashed"} ELSE done[t]]
      /\ UNCHANGED <<setting, top, recs, gen, acked, applied, drops>>
  BY Zenon DEF Crash, Requested
<1>3. Idle \in GoodCalls /\ Idle.pc = "idle" /\ Idle.tx = None BY <1>1, IdleShape DEF ShapeInv
<1>4. /\ call' \in [Caller -> GoodCalls]
      /\ \A c \in Caller : call'[c].pc = "idle" /\ call'[c].tx = None
  BY <1>2, <1>3, Zenon
<1>5. done' \in [Tx -> SUBSET Ends] BY <1>1, <1>2 DEF ShapeInv, Ends
<1>6. ops' \in [Tx -> Seq(Operation)]
  <2>1. <<>> \in Seq(Operation) OBVIOUS
  <2> QED BY <1>2, <2>1, Zenon
<1>7. ShapeInv' BY <1>1, <1>2, <1>4, <1>5, <1>6, SettingKept, ZenonT(30) DEF ShapeInv
<1>8. Live' = Live /\ MaxRecords' = MaxRecords BY <1>2, SettingKept, ZenonT(30) DEF Live
<1>9. LockInv' BY <1>2, <1>4, NoneAssumption DEF LockInv
<1>10. UniqueInv' BY <1>1, <1>2, <1>8 DEF LimitInv, UniqueInv
<1>11. BatchInv' /\ QuotaInv' BY <1>1, <1>4, <1>8 DEF LimitInv, BatchInv, QuotaInv
<1>12. ASSUME NEW u \in Tx PROVE AnswerOf(u)'
  <2>1. AnswerOf(u) BY <1>1 DEF AnswerInv
  <2>2. /\ u \notin open' /\ ~Requested(u)' /\ ops'[u] = <<>>
        /\ applied'[u] = applied[u] /\ acked'[u] = acked[u]
    BY <1>2, <1>4, NoneAssumption DEF Requested
  <2>3. /\ done[u] \subseteq done'[u] /\ done'[u] \subseteq done[u] \cup {"crashed"}
        /\ Applying(u) => done'[u] # {}
    BY <1>2 DEF Applying, Requested
  <2>4. OpenInv(u)' BY <2>2 DEF OpenInv
  <2>5. ReapedInv(u)' BY <2>1, <2>2, <2>3 DEF AnswerOf, ReapedInv
  <2>6. WroteInv(u)'
    BY <1>2, <2>1, <2>2, <2>3, SettingKept, ZenonT(30) DEF AnswerOf, WroteInv
  <2>7. SerialInv(u)'
    <3>1. \A c \in Caller : call'[c].tx # u BY <1>4, NoneAssumption
    <3> QED BY <1>2, <2>1, <2>2, <2>3, <3>1, SettingKept, Zenon DEF AnswerOf, SerialInv
  <2> QED BY <2>4, <2>5, <2>6, <2>7 DEF AnswerOf
<1> QED BY <1>7, <1>9, <1>10, <1>11, <1>12, ZenonT(30) DEF TransactionsInv, LimitInv, AnswerInv

-----------------------------------------------------------------------------
(* The theorems.                                                           *)

\* Every initial state satisfies it.
LEMMA TransactionsInit ==
  ASSUME Init
  PROVE  TransactionsInv
<1>1. /\ setting \in DOMAIN Settings
      /\ idSeq = [g \in 0..MaxDrops |-> 0] /\ top = 0 /\ recs = [i \in Id |-> Absent]
      /\ gen = 0 /\ drops = 0 /\ open = {} /\ ops = [t \in Tx |-> <<>>]
      /\ call = [c \in Caller |-> Idle] /\ lock = None
      /\ acked = [t \in Tx |-> <<>>] /\ applied = [t \in Tx |-> <<>>]
      /\ done = [t \in Tx |-> {}]
  BY DEF Init
<1>2. Idle \in GoodCalls /\ Idle.pc = "idle" /\ Idle.tx = None BY <1>1, IdleShape
<1>3. MaxRecords \in Nat /\ MaxDrops \in Nat BY <1>1, Bounds
<1>4. Absent \in Record BY DEF Record, Absent
<1>5. <<>> \in Seq(Operation) OBVIOUS
<1>6. ShapeInv BY <1>1, <1>2, <1>3, <1>4, <1>5 DEF ShapeInv
<1>7. Live = {} BY <1>1 DEF Live
<1>8. \A c \in Caller : call[c].pc = "idle" /\ call[c].tx = None BY <1>1, <1>2
<1>9. LockInv BY <1>1, <1>8, NoneAssumption DEF LockInv
<1>10. UniqueInv /\ BatchInv BY <1>7, <1>8, ZenonT(30) DEF UniqueInv, BatchInv
<1>11. QuotaInv
  <2>1. Cardinality(Live) = 0 BY <1>7, FS_EmptySet
  <2> QED BY <1>3, <1>8, <2>1 DEF QuotaInv
<1>12. ASSUME NEW t \in Tx PROVE AnswerOf(t)
  <2>1. \A c \in Caller : call[c].tx # t BY <1>8, NoneAssumption
  <2>2. ops[t] = <<>> /\ acked[t] = <<>> /\ applied[t] = <<>> /\ done[t] = {} /\ t \notin open
    BY <1>1
  <2> QED BY <2>1, <2>2 DEF AnswerOf, OpenInv, ReapedInv, WroteInv, SerialInv, Requested
<1> QED BY <1>6, <1>9, <1>10, <1>11, <1>12 DEF TransactionsInv, LimitInv, AnswerInv

\* Every step of a handler, the manager, a direct writer or a crash keeps it.
LEMMA TransactionsStep ==
  ASSUME TransactionsInv, [Next]_vars
  PROVE  TransactionsInv'
<1>1. ASSUME NEW c \in Caller, Handle(c) PROVE TransactionsInv'
  <2>1. CASE \E t \in Tx : BeginStage(c, t) \/ RollbackGet(c, t) \/ CommitGet(c, t)
    BY <2>1, BeginActions
  <2>2. CASE Stage(c) BY <2>2, StageStep
  <2>3. CASE RollbackRemove(c) BY <2>3, RollbackStep
  <2>4. CASE Snapshot(c) \/ Remove(c) BY <2>4, TakeStep
  <2>5. CASE CommitLock(c) BY <2>5, CommitLockStep
  <2>6. CASE ApplyOp(c) BY <2>6, ApplyStep
  <2>7. CASE CommitUnlock(c) \/ CommitFails(c) BY <2>7, CommitEnds
  <2> QED BY <1>1, <2>1, <2>2, <2>3, <2>4, <2>5, <2>6, <2>7 DEF Handle
<1>2. CASE (\E t \in Tx : BeginTx(t) \/ Elapse(t)) \/ Sweep BY <1>2, ManagerActions
<1>3. CASE DirectWrite BY <1>3, DirectStep
<1>4. CASE Drop BY <1>4, DropStep
<1>5. CASE Crash BY <1>5, CrashStep
<1>6. CASE UNCHANGED vars
  <2>1. ShapeInv /\ LimitInv /\ AnswerInv BY DEF TransactionsInv
  <2>2. UNCHANGED <<setting, idSeq, top, recs, gen, open, ops, call, lock, acked, applied, done, drops>>
    BY <1>6 DEF vars, txVars, histVars, boundVars
  <2>3. ShapeInv' BY <2>1, <2>2, SettingKept DEF ShapeInv
  <2>4. LimitInv' BY <2>1, <2>2, QuietLimits
  <2>5. \A u \in Tx : Aside(u) BY <2>2 DEF Aside
  <2>6. AnswerInv' BY <2>1, <2>2, <2>5, Elsewhere DEF AnswerInv
  <2> QED BY <2>3, <2>4, <2>6 DEF TransactionsInv
<1> QED BY <1>1, <1>2, <1>3, <1>4, <1>5, <1>6 DEF Next

\* The invariant of the TxManager, its handlers and Collection.CommitTx.
THEOREM TransactionsInvariant == Spec => []TransactionsInv
<1>1. Init => TransactionsInv BY TransactionsInit
<1>2. TransactionsInv /\ [Next]_vars => TransactionsInv' BY TransactionsStep
<1> QED BY <1>1, <1>2, PTL DEF Spec

\* No batch CommitTx applies, and no write beside it, puts two live records on
\* one value of the unique field or takes the collection above its quota.
THEOREM BatchesKeepLimits == Spec => []LimitsHold
<1>1. TransactionsInv => LimitsHold
  BY DEF TransactionsInv, LimitInv, UniqueInv, QuotaInv, LimitsHold
<1> QED BY <1>1, TransactionsInvariant, PTL

\* What a transaction has written is what its client was told, however its
\* staging, commit and rollback interleave with the sweeper, other
\* transactions, crashes and failing appends.
THEOREM AnswersAreTrue == Spec => []AppliedAsAnswered
<1>1. ASSUME TransactionsInv, NEW t \in Tx
      PROVE  /\ "reaped" \in done[t] => applied[t] = <<>>
             /\ SerialClients /\ "committed" \in done[t] => applied[t] = acked[t]
             /\ SerialClients /\ "rolledback" \in done[t] => applied[t] = <<>>
             /\ Faults = {} /\ lock = None /\ applied[t] # <<>> => "committed" \in done[t]
  <2>1. AnswerOf(t) /\ LockInv BY <1>1 DEF TransactionsInv, AnswerInv, LimitInv
  <2>2. lock = None => ~Applying(t) BY <2>1, NoneAssumption DEF LockInv, Applying
  <2> QED BY <2>1, <2>2, Zenon DEF AnswerOf, ReapedInv, WroteInv, SerialInv
<1>2. TransactionsInv => AppliedAsAnswered BY <1>1 DEF AppliedAsAnswered
<1> QED BY <1>2, TransactionsInvariant, PTL
=============================================================================

------------------------------- MODULE Access -------------------------------
(***************************************************************************)
(* The interceptor chain every RPC passes on both servers, outermost       *)
(* first: audit, authentication, read-only guard, rate limit, in-flight    *)
(* slot, request log, handler.  Calls interleave between the interceptors, *)
(* with SIGHUP reloads of the key file and with the promotion of a         *)
(* follower.                                                               *)
(*                                                                         *)
(* A request is its method, the key and certificate it presents and the    *)
(* collection it names.  Names and keys are members of small sets; an      *)
(* empty collection list is no restriction, as in the code.                *)
(***************************************************************************)
EXTENDS Naturals, Sequences, SequencesExt, FiniteSets, TLC

CONSTANTS Calls,         \* the calls made, one RPC each
          Settings       \* by name: the options of a server and what is asked of it

NoKey == "no key"
NoName == "no name"

ASSUME CallsAssumption == IsFiniteSet(Calls)
ASSUME AccessAssumption ==
  \A n \in DOMAIN Settings :
    /\ Settings[n].calls \subseteq Calls
    /\ Settings[n].certAuth \in BOOLEAN /\ Settings[n].replica \in BOOLEAN
    /\ {Settings[n].inflight, Settings[n].burst, Settings[n].reloads} \subseteq Nat
    /\ \A config \in Settings[n].configs : config.keys \in Seq(ToSet(config.keys))

VARIABLES
  setting,   \* the server in hand; no step changes it
  keys,      \* the active keySet: a set of [key, name, scope, collections]
  follower,  \* db.IsFollower()
  sem,       \* tokens in the semaphore channel
  buckets,   \* name -> tokens left, for the names seen
  taken,     \* history: name -> callers that took a token since its last refill
  call,      \* per call: where it is and what it carries
  reloads

vars == <<setting, keys, follower, sem, buckets, taken, call, reloads>>

Requests == Settings[setting].requests     \* [method, key, cert, collection]
Configs == Settings[setting].configs       \* what the key file may hold: [parses, keys]
APIKey == Settings[setting].apiKey         \* --api-key given at startup, or NoKey
CertAuth == Settings[setting].certAuth     \* mutual TLS is on
Replica == Settings[setting].replica       \* started with --replicate-from
MaxInflight == Settings[setting].inflight  \* --max-inflight, 0 for none
Burst == Settings[setting].burst           \* size of a token bucket, 0 for no rate limit
MaxReloads == Settings[setting].reloads    \* SIGHUPs (bound)

-----------------------------------------------------------------------------
(* Methods.  auth and server keep a list each.                             *)

Streams == {"Find", "Watch", "Aggregate", "Snapshot", "Replicate"}

\* A stream the server ends by itself.
Finite == Streams \ {"Watch", "Replicate"}

\* Requests without a collection field.
NotScoped == {"ListCollections", "Snapshot", "Replicate", "ReplicationStatus", "Promote",
              "CommitTx", "RollbackTx", "CreateCollection", "DropCollection"}

\* server/readonly.go
writeMethods == {"CreateCollection", "DropCollection", "Insert", "InsertMany", "Update", "Delete",
                 "Upsert", "UpdateByKey", "DeleteByKey", "UpdateIfRev", "EnsureIndex", "DropIndex",
                 "BeginTx", "CommitTx", "RollbackTx", "Compact"}

\* internal/auth/scope.go: what is not a known read needs the write scope.
readMethods == {"ListCollections", "FindById", "Find", "ListIndexes", "Watch", "CollectionStats",
                "Snapshot", "Replicate", "ReplicationStatus"}

methodRequiresWrite(m) == m \notin readMethods

isAuditedMethod(m) == m \in writeMethods \/ m = "Promote"

-----------------------------------------------------------------------------
(* Key sets and principals.                                                *)

ParseScope == "read" :> "read" @@ "read-write" :> "read-write" @@ "" :> "read"

Nobody == [name |-> NoName, scope |-> "read-write", collections |-> {}]

\* The keys of a configuration with the startup key, or a refusal: a key is
\* empty, a scope unknown, or two entries share a key.
buildKeys(config) ==
  config.keys \o IF APIKey = NoKey THEN <<>>
                 ELSE <<[key |-> APIKey, name |-> "default", scope |-> "read-write", collections |-> {}]>>

Valid(config) ==
  /\ config.parses
  /\ \A i \in DOMAIN config.keys : /\ config.keys[i].key # NoKey
                                   /\ config.keys[i].scope \in DOMAIN ParseScope
  /\ IsInjective([i \in DOMAIN buildKeys(config) |-> buildKeys(config)[i].key])

buildKeySet(ks) ==
  {[key |-> ks[i].key, name |-> IF ks[i].name = NoName THEN "unnamed" ELSE ks[i].name,
    scope |-> ParseScope[ks[i].scope], collections |-> ks[i].collections] : i \in DOMAIN ks}

enabled == keys # {}

lookup(k) == {e \in keys : e.key = k}

principalFromPeerCert(cert) ==
  IF cert = NoName THEN {} ELSE {[name |-> cert, scope |-> "read-write", collections |-> {}]}

allowsCollection(p, r) ==
  p.collections = {} \/ r.method \in NotScoped \/ r.collection \in p.collections

\* The principals the credentials of a request stand for: none when they are
\* refused.  A presented key is never passed over for the certificate.
Resolved(r) ==
  IF enabled /\ r.key # NoKey
  THEN {[name |-> e.name, scope |-> e.scope, collections |-> e.collections] : e \in lookup(r.key)}
  ELSE IF CertAuth THEN principalFromPeerCert(r.cert) ELSE {}

\* Mutant: the sink is filled after the scope check.
authorize_Late(r) ==
  LET who == Resolved(r)
  IN IF ~enabled /\ ~CertAuth THEN [code |-> "OK", who |-> Nobody, sink |-> Nobody]
     ELSE IF who = {} THEN [code |-> "Unauthenticated", who |-> Nobody, sink |-> Nobody]
     ELSE LET p == CHOOSE p \in who : TRUE
          IN IF methodRequiresWrite(r.method) /\ p.scope # "read-write"
             THEN [code |-> "PermissionDenied", who |-> Nobody, sink |-> Nobody]
             ELSE [code |-> "OK", who |-> p, sink |-> p]

\* The answer of authorize: a code, the principal put on the context, and the
\* one left in the audit sink, which a scope denial keeps.
authorize(r) ==
  LET who == Resolved(r)
  IN IF ~enabled /\ ~CertAuth THEN [code |-> "OK", who |-> Nobody, sink |-> Nobody]
     ELSE IF who = {} THEN [code |-> "Unauthenticated", who |-> Nobody, sink |-> Nobody]
     ELSE LET p == CHOOSE p \in who : TRUE
          IN IF methodRequiresWrite(r.method) /\ p.scope # "read-write"
             THEN [code |-> "PermissionDenied", who |-> Nobody, sink |-> p]
             ELSE [code |-> "OK", who |-> p, sink |-> p]

-----------------------------------------------------------------------------
(* The calls.                                                              *)

NoRequest == [method |-> "none", key |-> NoKey, cert |-> NoName, collection |-> "none"]

\* under: history, the key set that was active when the call was authorized.
\* blame: history, who had drained the bucket that refused the call.
Idle == [pc |-> "idle", req |-> NoRequest, who |-> Nobody, sink |-> Nobody, code |-> "none",
         log |-> <<>>, audit |-> <<>>, under |-> {}, blame |-> {}]

Init == /\ setting \in DOMAIN Settings
        /\ \E config \in Configs : Valid(config) /\ keys = buildKeySet(buildKeys(config))
        /\ follower = Replica
        /\ sem = 0 /\ buckets = <<>> /\ taken = <<>>
        /\ call = [c \in Calls |-> Idle]
        /\ reloads = 0

At(c, pc) == call[c].pc = pc
Go(c, pc) == call' = [call EXCEPT ![c].pc = pc]
Fail(c, code) == call' = [call EXCEPT ![c].pc = "audit", ![c].code = code]

\* A request reaches the audit interceptor, which installs the sink.
Arrive(c) == /\ At(c, "idle") /\ c \in Settings[setting].calls
             /\ \E r \in Requests : call' = [call EXCEPT ![c].pc = "auth", ![c].req = r]
             /\ UNCHANGED <<keys, follower, sem, buckets, taken, reloads, setting>>

\* One load of the key-set pointer decides the call; a unary call names its
\* collection here.
Authorize(c) ==
  /\ At(c, "auth")
  /\ LET r == call[c].req
         a == authorize(r)
         denied == a.code = "OK" /\ r.method \notin Streams /\ ~allowsCollection(a.who, r)
         code == IF denied THEN "PermissionDenied" ELSE a.code
     IN call' = [call EXCEPT ![c] =
                   [@ EXCEPT !.pc = IF code = "OK" THEN "readonly" ELSE "audit",
                             !.code = code, !.who = a.who, !.sink = a.sink, !.under = keys]]
  /\ UNCHANGED <<keys, follower, sem, buckets, taken, reloads, setting>>

ReadOnly(c) ==
  /\ At(c, "readonly")
  /\ IF Replica /\ follower /\ call[c].req.method \in writeMethods
     THEN Fail(c, "FailedPrecondition")
     ELSE Go(c, "allow")
  /\ UNCHANGED <<keys, follower, sem, buckets, taken, reloads, setting>>

BucketName(c) == IF call[c].who.name = NoName THEN "anonymous" ELSE call[c].who.name

\* The bucket of a name, full when it is first used.
limiterFor(n) == IF n \in DOMAIN buckets THEN buckets[n] ELSE Burst

Caller(c) == [name |-> call[c].who.name, key |-> call[c].req.key, cert |-> call[c].req.cert]
TakenBy(n) == IF n \in DOMAIN taken THEN taken[n] ELSE {}

\* A refused call leaves its bucket as it was.
allow(c) ==
  /\ At(c, "allow")
  /\ LET n == BucketName(c)
         left == limiterFor(n)
     IN IF Burst = 0 THEN Go(c, "acquire") /\ UNCHANGED <<buckets, taken>>
        ELSE /\ buckets' = n :> (IF left > 0 THEN left - 1 ELSE 0) @@ buckets
             /\ IF left > 0
                THEN Go(c, "acquire") /\ taken' = n :> (TakenBy(n) \cup {Caller(c)}) @@ taken
                ELSE /\ call' = [call EXCEPT ![c].pc = "audit", ![c].code = "ResourceExhausted",
                                             ![c].blame = TakenBy(n)]
                     /\ UNCHANGED taken
  /\ UNCHANGED <<keys, follower, sem, reloads, setting>>

\* Time passes for a bucket (golang.org/x/time/rate).
Refill(n) == /\ n \in DOMAIN buckets /\ buckets[n] < Burst
             /\ buckets' = [buckets EXCEPT ![n] = @ + 1]
             /\ taken' = [taken EXCEPT ![n] = {}]
             /\ UNCHANGED <<keys, follower, sem, call, reloads, setting>>

\* Mutant: a call waits for a free slot.
acquire_Waits(c) ==
  /\ At(c, "acquire") /\ (MaxInflight = 0 \/ sem < MaxInflight)
  /\ Go(c, "handler")
  /\ sem' = IF MaxInflight = 0 THEN sem ELSE sem + 1
  /\ UNCHANGED <<keys, follower, buckets, taken, reloads, setting>>

\* The slot is tried, never waited for.
acquire(c) ==
  /\ At(c, "acquire")
  /\ IF MaxInflight = 0 THEN Go(c, "handler") /\ UNCHANGED sem
     ELSE IF sem < MaxInflight THEN Go(c, "handler") /\ sem' = sem + 1
     ELSE Fail(c, "ResourceExhausted") /\ UNCHANGED sem
  /\ UNCHANGED <<keys, follower, buckets, taken, reloads, setting>>

logRPC(c, code) ==
  [method |-> call[c].req.method, code |-> code,
   principal |-> IF call[c].who.name = NoName THEN "anonymous" ELSE call[c].who.name]

\* Mutant: a handler that fails keeps its slot.
Leave_Keeps(c, code) ==
  /\ call' = [call EXCEPT ![c].pc = "audit", ![c].code = code, ![c].log = Append(@, logRPC(c, code))]
  /\ sem' = IF MaxInflight = 0 \/ code # "OK" THEN sem ELSE sem - 1

\* The handler returns: the request is logged, then the slot is released.
Leave(c, code) ==
  /\ call' = [call EXCEPT ![c].pc = "audit", ![c].code = code, ![c].log = Append(@, logRPC(c, code))]
  /\ sem' = IF MaxInflight = 0 THEN sem ELSE sem - 1

\* A unary handler runs and answers; Promote makes the node a leader.
Handle(c) ==
  /\ At(c, "handler") /\ call[c].req.method \notin Streams
  /\ \E code \in {"OK", "NotFound"} :
       /\ Leave(c, code)
       /\ follower' = (follower /\ ~(call[c].req.method = "Promote" /\ code = "OK"))
  /\ UNCHANGED <<keys, buckets, taken, reloads, setting>>

\* The first message of a stream is received inside the slot and names the
\* collection.
RecvMsg(c) ==
  /\ At(c, "handler") /\ call[c].req.method \in Streams
  /\ IF allowsCollection(call[c].who, call[c].req)
     THEN Go(c, "stream") /\ UNCHANGED sem
     ELSE Leave(c, "PermissionDenied")
  /\ UNCHANGED <<keys, follower, buckets, taken, reloads, setting>>

StreamEnds(c) == /\ At(c, "stream")
                 /\ \E code \in {"OK", "Canceled"} : Leave(c, code)
                 /\ UNCHANGED <<keys, follower, buckets, taken, reloads, setting>>

isAuthFailure(code) == code \in {"Unauthenticated", "PermissionDenied"}

\* The outermost interceptor records the outcome and the reply leaves.
maybeRecord(c) ==
  LET x == call[c]
  IN IF ~isAuditedMethod(x.req.method) /\ ~isAuthFailure(x.code) THEN <<>>
     ELSE <<[principal |-> IF x.sink.name # NoName THEN x.sink.name
                           ELSE IF isAuthFailure(x.code) THEN "unauthenticated" ELSE "anonymous",
             outcome |-> x.code]>>

Audit(c) == /\ At(c, "audit")
            /\ call' = [call EXCEPT ![c].pc = "done", ![c].audit = @ \o maybeRecord(c)]
            /\ UNCHANGED <<keys, follower, sem, buckets, taken, reloads, setting>>

\* SIGHUP: the file is read, and a file that is refused changes nothing.
Reload ==
  /\ reloads < MaxReloads /\ reloads' = reloads + 1
  /\ \E config \in Configs :
       keys' = IF Valid(config) THEN buildKeySet(buildKeys(config)) ELSE keys
  /\ UNCHANGED <<follower, sem, buckets, taken, call, setting>>

Next == \/ \E c \in Calls : \/ Arrive(c) \/ Authorize(c) \/ ReadOnly(c) \/ allow(c) \/ acquire(c)
                            \/ Handle(c) \/ RecvMsg(c) \/ StreamEnds(c) \/ Audit(c)
        \/ \E n \in DOMAIN buckets : Refill(n)
        \/ Reload

Spec == Init /\ [][Next]_vars

\* A call that has arrived is carried on by its goroutine, and a stream that is
\* not a feed comes to its end; a client may hold Watch open for ever.
FairSpec ==
  /\ Spec
  /\ \A c \in Calls :
       /\ WF_vars(Authorize(c)) /\ WF_vars(ReadOnly(c)) /\ WF_vars(allow(c)) /\ WF_vars(acquire(c))
       /\ WF_vars(Handle(c)) /\ WF_vars(RecvMsg(c)) /\ WF_vars(Audit(c))
       /\ WF_vars(StreamEnds(c) /\ call[c].req.method \in Finite)

-----------------------------------------------------------------------------
(* Properties.                                                             *)

Inside(c) == call[c].pc \in {"handler", "stream"}

\* Slots, tokens and calls have their types.
TypeOK ==
  /\ sem \in 0..Cardinality(Calls)
  /\ \A n \in DOMAIN buckets : buckets[n] \in 0..Burst
  /\ \A c \in Calls : Len(call[c].log) <= 1 /\ Len(call[c].audit) <= 1
  /\ \A e \in keys : e.scope \in {"read", "read-write"} /\ e.name # NoName

\* The semaphore counts exactly the handlers and streams that run, whatever way
\* calls leave, and never more than --max-inflight.
SlotsExact == MaxInflight # 0 => /\ sem = Cardinality({c \in Calls : Inside(c)})
                                 /\ sem <= MaxInflight

\* The RPCs that docs/getting-started.md:531-534 promises a record of.
Recorded == {"Insert", "Update", "Delete", "Upsert", "UpdateByKey", "DeleteByKey", "UpdateIfRev",
             "InsertMany", "CreateCollection", "DropCollection", "EnsureIndex", "DropIndex",
             "BeginTx", "CommitTx", "RollbackTx", "Compact", "Promote"}

\* Every answered call of a documented RPC, and every one that authentication
\* refused, has exactly one audit record and no other call has one; the record
\* has the outcome, and the principal that the credentials stood for in the one
\* key set the call was judged by, whatever was reloaded since.
AuditFaithful ==
  \A c \in Calls : At(c, "done") =>
    LET x == call[c]
        owners == {e.name : e \in {e \in x.under : e.key = x.req.key}}
                    \cup (IF CertAuth /\ (x.under = {} \/ x.req.key = NoKey) THEN {x.req.cert} ELSE {})
    IN /\ Len(x.audit) = IF x.req.method \in Recorded
                            \/ x.code \in {"Unauthenticated", "PermissionDenied"} THEN 1 ELSE 0
       /\ x.audit # <<>> =>
            /\ x.audit[1].outcome = x.code
            /\ x.audit[1].principal \in
                 IF owners \ {NoName} # {} THEN owners
                 ELSE IF x.code = "Unauthenticated" THEN {"unauthenticated"} ELSE {"anonymous"}

\* A call that does not hold a feed open is answered, even while feeds hold
\* every slot: a saturated server sheds and does not queue.
Answered ==
  \A c \in Calls : At(c, "auth") /\ call[c].req.method \notin Streams \ Finite ~> At(c, "done")

-----------------------------------------------------------------------------
(* Further properties, which hold on the instance of the run and are not   *)
(* part of it.                                                             *)

\* No write is in its handler on a node that follows a leader: the guard is
\* read on every call, and a promotion only lifts it.
FollowerTakesNoWrite ==
  \A c \in Calls : Inside(c) /\ follower => call[c].req.method \notin writeMethods

\* The startup key stays valid, read-write, through every reload, and no reload
\* leaves two principals behind one key.
StartupKeyKept ==
  /\ APIKey # NoKey => \E e \in keys : e.key = APIKey /\ e.scope = "read-write"
  /\ \A d, e \in keys : d.key = e.key => d = e

\* A call refused for its rate had its bucket drained, since it last had a token,
\* by calls of the same principal ("throttling one never affects another").
ThrottledByOwnPrincipal ==
  \A c \in Calls : call[c].blame # {} =>
    \E b \in call[c].blame : b.name = call[c].who.name

-----------------------------------------------------------------------------
(* Not invariants of the code: TLC finds each of these violated on the     *)
(* instance of the run.                                                     *)

\* A call that is shed is in the request log with its code.
ShedIsLogged ==
  \A c \in Calls : At(c, "done") /\ call[c].code = "ResourceExhausted" => call[c].log # <<>>

\* The record of a call that authentication refused names nobody: the sink of a
\* rejected call stays empty (principalSink).
RejectedIsUnauthenticated ==
  \A c \in Calls : At(c, "done") /\ isAuthFailure(call[c].code) =>
    \A i \in DOMAIN call[c].audit : call[c].audit[i].principal = "unauthenticated"
=============================================================================

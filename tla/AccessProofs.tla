---------------------------- MODULE AccessProofs ----------------------------
(***************************************************************************)
(* The slots of --max-inflight are counted exactly and the audit trail is  *)
(* faithful, for any number of calls, requests, key files and limits.      *)
(***************************************************************************)
EXTENDS Access, FiniteSetTheorems, TLAPS

Running == {c \in Calls : Inside(c)}

\* Every call has a place in the chain.
CallInv == /\ setting \in DOMAIN Settings
           /\ DOMAIN call = Calls
           /\ \A c \in Calls : DOMAIN call[c] = {"pc", "req", "who", "sink", "code", "log", "audit",
                                                 "under", "blame"}

\* The semaphore of acquire holds one token per running handler or stream.
SlotsInv == CallInv /\ SlotsExact

\* Only finitely many calls run.
LEMMA RunningFinite == IsFiniteSet(Running) /\ Cardinality(Running) \in Nat
  BY CallsAssumption, FS_Subset, FS_CardinalityType DEF Running

\* What a step of one call does to the set of running ones.
LEMMA RunningStep ==
  ASSUME CallInv, CallInv', NEW c \in Calls,
         \A d \in Calls \ {c} : call'[d] = call[d]
  PROVE  Running' = IF Inside(c)' THEN Running \cup {c} ELSE Running \ {c}
  BY DEF Running, Inside

\* Every step keeps the calls and their fields.
LEMMA CallStep == CallInv /\ [Next]_vars => CallInv'
<1> SUFFICES ASSUME CallInv, [Next]_vars PROVE CallInv'
  OBVIOUS
<1>1. ASSUME NEW c \in Calls, Arrive(c) PROVE CallInv'
  BY <1>1 DEF CallInv, Arrive
<1>2. ASSUME NEW c \in Calls, Authorize(c) PROVE CallInv'
  BY <1>2 DEF CallInv, Authorize
<1>3. ASSUME NEW c \in Calls, ReadOnly(c) PROVE CallInv'
  BY <1>3 DEF CallInv, ReadOnly, Fail, Go
<1>4. ASSUME NEW c \in Calls, allow(c) PROVE CallInv'
  BY <1>4 DEF CallInv, allow, Go
<1>5. ASSUME NEW c \in Calls, acquire(c) PROVE CallInv'
  BY <1>5 DEF CallInv, acquire, Fail, Go
<1>6. ASSUME NEW c \in Calls, Handle(c) PROVE CallInv'
  BY <1>6 DEF CallInv, Handle, Leave
<1>7. ASSUME NEW c \in Calls, RecvMsg(c) PROVE CallInv'
  BY <1>7 DEF CallInv, RecvMsg, Leave, Go
<1>8. ASSUME NEW c \in Calls, StreamEnds(c) PROVE CallInv'
  BY <1>8 DEF CallInv, StreamEnds, Leave
<1>9. ASSUME NEW c \in Calls, Audit(c) PROVE CallInv'
  BY <1>9 DEF CallInv, Audit
<1>10. CASE \E n \in DOMAIN buckets : Refill(n)
  BY <1>10 DEF CallInv, Refill
<1>11. CASE Reload
  BY <1>11 DEF CallInv, Reload
<1>12. CASE UNCHANGED vars
  BY <1>12 DEF CallInv, vars
<1> QED
  BY <1>1, <1>2, <1>3, <1>4, <1>5, <1>6, <1>7, <1>8, <1>9, <1>10, <1>11, <1>12 DEF Next
-----------------------------------------------------------------------------
\* A call enters the handler: one more runs.
LEMMA Entered ==
  ASSUME CallInv, CallInv', NEW c \in Calls, ~Inside(c), Inside(c)',
         \A d \in Calls \ {c} : call'[d] = call[d]
  PROVE  Cardinality(Running') = Cardinality(Running) + 1
<1>1. Running' = Running \cup {c}
  BY RunningStep
<1>2. c \notin Running
  BY DEF Running
<1> QED
  BY <1>1, <1>2, RunningFinite, FS_AddElement

\* A call leaves the handler or the stream: one less runs.
LEMMA Left ==
  ASSUME CallInv, CallInv', NEW c \in Calls, Inside(c), ~Inside(c)',
         \A d \in Calls \ {c} : call'[d] = call[d]
  PROVE  Cardinality(Running') = Cardinality(Running) - 1
<1>1. Running' = Running \ {c}
  BY RunningStep
<1>2. c \in Running
  BY DEF Running
<1> QED
  BY <1>1, <1>2, RunningFinite, FS_RemoveElement

\* A call moves between two places on the same side of acquire.
LEMMA Stayed ==
  ASSUME CallInv, CallInv', NEW c \in Calls, Inside(c) <=> Inside(c)',
         \A d \in Calls \ {c} : call'[d] = call[d]
  PROVE  Running' = Running
<1>1. Running' = IF Inside(c)' THEN Running \cup {c} ELSE Running \ {c}
  BY RunningStep
<1>2. c \in Running <=> Inside(c)
  BY DEF Running
<1> QED
  BY <1>1, <1>2

\* A handler that returns gives its slot back, with any code.
LEMMA LeaveFreesItsSlot ==
  ASSUME SlotsInv, CallInv', UNCHANGED setting, NEW c \in Calls, Inside(c),
         NEW code, Leave(c, code)
  PROVE  SlotsExact'
<1>1. /\ ~Inside(c)'
      /\ \A d \in Calls \ {c} : call'[d] = call[d]
  BY DEF SlotsInv, CallInv, Leave, Inside
<1>2. Cardinality(Running') = Cardinality(Running) - 1
  BY <1>1, Left DEF SlotsInv
<1>3. MaxInflight' = MaxInflight /\ MaxInflight \in Nat
  BY AccessAssumption DEF MaxInflight, SlotsInv, CallInv
<1> QED
  BY <1>2, <1>3, RunningFinite DEF SlotsInv, SlotsExact, Running, Leave
-----------------------------------------------------------------------------
\* Only acquire takes a slot and only a handler that returns frees one; every
\* other step leaves both the semaphore and the set of running calls alone.
LEMMA SlotsStep == SlotsInv /\ [Next]_vars => SlotsInv'
<1> SUFFICES ASSUME SlotsInv, [Next]_vars PROVE SlotsExact'
  BY CallStep DEF SlotsInv
<1>0. CallInv /\ CallInv'
  BY CallStep DEF SlotsInv
<1>a. ASSUME UNCHANGED <<setting, sem>>, Running' = Running PROVE SlotsExact'
  BY <1>a DEF SlotsInv, SlotsExact, Running, MaxInflight
<1>b. ASSUME NEW c \in Calls, UNCHANGED <<setting, sem>>, Inside(c) <=> Inside(c)',
             \A d \in Calls \ {c} : call'[d] = call[d]
      PROVE  SlotsExact'
  BY <1>0, <1>a, <1>b, Stayed
<1>1. ASSUME NEW c \in Calls, Arrive(c) PROVE SlotsExact'
  <2>1. PICK r \in Requests : call' = [call EXCEPT ![c].pc = "auth", ![c].req = r]
    BY <1>1, Zenon DEF Arrive
  <2> QED
    BY <1>0, <1>1, <1>b, <2>1 DEF CallInv, Arrive, Inside, At
<1>2. ASSUME NEW c \in Calls, Authorize(c) PROVE SlotsExact'
  <2>1. /\ call'[c].pc \in {"readonly", "audit"}
        /\ \A d \in Calls \ {c} : call'[d] = call[d]
    BY <1>0, <1>2 DEF CallInv, Authorize
  <2> QED
    BY <1>2, <1>b, <2>1 DEF Authorize, Inside, At
<1>3. ASSUME NEW c \in Calls, ReadOnly(c) PROVE SlotsExact'
  BY <1>0, <1>3, <1>b DEF CallInv, ReadOnly, Fail, Go, Inside, At
<1>4. ASSUME NEW c \in Calls, allow(c) PROVE SlotsExact'
  <2>1. /\ call'[c].pc \in {"acquire", "audit"}
        /\ \A d \in Calls \ {c} : call'[d] = call[d]
    BY <1>0, <1>4 DEF CallInv, allow, Go
  <2> QED
    BY <1>4, <1>b, <2>1 DEF allow, Inside, At
<1>5. ASSUME NEW c \in Calls, acquire(c) PROVE SlotsExact'
  <2>1. ~Inside(c) /\ UNCHANGED setting /\ \A d \in Calls \ {c} : call'[d] = call[d]
    BY <1>0, <1>5 DEF CallInv, acquire, Fail, Go, Inside, At
  <2>2. MaxInflight' = MaxInflight /\ MaxInflight \in Nat
    BY <1>0, <2>1, AccessAssumption DEF MaxInflight, CallInv
  <2>3. CASE MaxInflight = 0
    BY <2>2, <2>3 DEF SlotsExact
  <2>4. CASE MaxInflight # 0 /\ sem < MaxInflight
    <3>1. Inside(c)'
      BY <1>0, <1>5, <2>4 DEF CallInv, acquire, Go, Inside
    <3>2. Cardinality(Running') = Cardinality(Running) + 1
      BY <1>0, <2>1, <3>1, Entered
    <3> QED
      BY <1>5, <2>2, <2>4, <3>2, RunningFinite DEF SlotsInv, SlotsExact, Running, acquire
  <2>5. CASE MaxInflight # 0 /\ ~(sem < MaxInflight)
    <3>1. ~Inside(c)' /\ UNCHANGED sem
      BY <1>0, <1>5, <2>5 DEF CallInv, acquire, Fail, Inside
    <3> QED
      BY <1>b, <2>1, <3>1
  <2> QED
    BY <2>3, <2>4, <2>5
<1>6. ASSUME NEW c \in Calls, Handle(c) PROVE SlotsExact'
  BY <1>0, <1>6, LeaveFreesItsSlot DEF Handle, Inside, At
<1>7. ASSUME NEW c \in Calls, RecvMsg(c) PROVE SlotsExact'
  <2>1. CASE Leave(c, "PermissionDenied")
    BY <1>0, <1>7, <2>1, LeaveFreesItsSlot DEF RecvMsg, Inside, At
  <2>2. CASE Go(c, "stream") /\ UNCHANGED sem
    BY <1>0, <1>7, <1>b, <2>2 DEF CallInv, RecvMsg, Go, Inside, At
  <2> QED
    BY <1>7, <2>1, <2>2 DEF RecvMsg
<1>8. ASSUME NEW c \in Calls, StreamEnds(c) PROVE SlotsExact'
  BY <1>0, <1>8, LeaveFreesItsSlot DEF StreamEnds, Inside, At
<1>9. ASSUME NEW c \in Calls, Audit(c) PROVE SlotsExact'
  BY <1>0, <1>9, <1>b DEF CallInv, Audit, Inside, At
<1>10. ASSUME UNCHANGED <<setting, sem, call>> PROVE SlotsExact'
  BY <1>10, <1>a DEF Running, Inside
<1> QED
  BY <1>1, <1>2, <1>3, <1>4, <1>5, <1>6, <1>7, <1>8, <1>9, <1>10
     DEF Next, Refill, Reload, vars

\* No slot of --max-inflight is lost or given twice, whatever way calls leave:
\* acquire's channel holds as many tokens as handlers and streams run.
THEOREM SlotsHold == Spec => []SlotsExact
<1>1. Init => SlotsInv
  <2> SUFFICES ASSUME Init PROVE SlotsInv
    OBVIOUS
  <2>1. CallInv
    BY DEF Init, CallInv, Idle
  <2>2. Running = {}
    BY DEF Init, Idle, Running, Inside
  <2>3. MaxInflight \in Nat
    BY <2>1, AccessAssumption DEF MaxInflight, CallInv
  <2>4. Cardinality(Running) = 0
    BY <2>2, FS_EmptySet
  <2>5. sem = 0
    BY DEF Init
  <2>6. SlotsExact
    BY <2>3, <2>4, <2>5 DEF SlotsExact, Running
  <2> QED
    BY <2>1, <2>6 DEF SlotsInv
<1>2. SlotsInv => SlotsExact
  BY DEF SlotsInv
<1> QED
  BY <1>1, <1>2, SlotsStep, PTL DEF Spec
-----------------------------------------------------------------------------
(* The audit trail.                                                        *)

\* The names that the credentials of a call stand for in the key set that was
\* active when authorize ran.
Owners(x) ==
  {e.name : e \in {e \in x.under : e.key = x.req.key}}
    \cup (IF CertAuth /\ (x.under = {} \/ x.req.key = NoKey) THEN {x.req.cert} ELSE {})

\* The audit sink has the owner of the credentials.  It is empty only when they
\* stand for nobody, and then no interceptor refuses for lack of permission: a
\* call without a principal is not restricted to any collection.
Stands(x) == IF x.sink.name = NoName
             THEN Owners(x) \ {NoName} = {} /\ x.code # "PermissionDenied" /\ x.who = Nobody
             ELSE x.sink.name \in Owners(x)

\* No key set has a key without text or without a name.
KeysInv == \A e \in keys : e.key # NoKey /\ e.name # NoName

\* A call is judged once and recorded once, last of all.
Judged(c) == /\ call[c].pc \notin {"idle", "auth"} => Stands(call[c])
             /\ call[c].audit = IF call[c].pc = "done" THEN maybeRecord(c) ELSE <<>>

AuditInv == CallInv /\ KeysInv /\ \A c \in Calls : Judged(c)

\* The keys of a file that Valid accepts, and the startup key, have a text and
\* get a name.
LEMMA KeysBuilt ==
  ASSUME setting \in DOMAIN Settings, NEW config \in Configs, Valid(config)
  PROVE  \A e \in buildKeySet(buildKeys(config)) : e.key # NoKey /\ e.name # NoName
<1> DEFINE ks == buildKeys(config)
<1>1. config.keys \in Seq(ToSet(config.keys))
  BY AccessAssumption DEF Configs
<1>2. \A i \in DOMAIN config.keys : config.keys[i].key # NoKey
  BY DEF Valid
<1>3. \A i \in DOMAIN ks : ks[i].key # NoKey
  <2>1. CASE APIKey = NoKey
    <3>1. ks = config.keys \o <<>>
      BY <2>1 DEF buildKeys
    <3> QED BY <1>1, <1>2, <3>1
  <2>2. CASE APIKey # NoKey
    <3> DEFINE d == [key |-> APIKey, name |-> "default", scope |-> "read-write", collections |-> {}]
    <3>1. ks = config.keys \o <<d>> /\ d.key # NoKey
      BY <2>2 DEF buildKeys
    <3> HIDE DEF d, ks
    <3> QED BY <1>1, <1>2, <3>1
  <2> QED BY <2>1, <2>2
<1>4. NoName # "unnamed"
  BY DEF NoName
<1> HIDE DEF ks
<1>5. \A e \in buildKeySet(ks) : \E i \in DOMAIN ks :
        e.key = ks[i].key /\ e.name = IF ks[i].name = NoName THEN "unnamed" ELSE ks[i].name
  BY DEF buildKeySet
<1> QED BY <1>3, <1>4, <1>5 DEF ks

\* A call that a step leaves alone stays judged.
LEMMA JudgedFrame ==
  ASSUME NEW c, Judged(c), call'[c] = call[c], UNCHANGED setting
  PROVE  Judged(c)'
BY DEF Judged, Stands, Owners, maybeRecord, CertAuth
\* What a request resolves to: only owners of its credentials, and nobody only
\* when there is none.
LEMMA ResolvedOwners ==
  ASSUME KeysInv, NEW r, NEW x, x.under = keys, x.req = r
  PROVE  /\ \A p \in Resolved(r) : p.name # NoName /\ p.name \in Owners(x)
         /\ Resolved(r) = {} => Owners(x) \ {NoName} = {}
<1>1. CASE enabled /\ r.key # NoKey
  <2>1. Resolved(r) = {[name |-> e.name, scope |-> e.scope, collections |-> e.collections] : e \in lookup(r.key)}
    BY <1>1 DEF Resolved
  <2>2. Owners(x) = {e.name : e \in lookup(r.key)}
    BY <1>1 DEF Owners, lookup, enabled
  <2>3. \A e \in lookup(r.key) : e.name # NoName
    BY DEF KeysInv, lookup
  <2>4. \A p \in Resolved(r) : \E e \in lookup(r.key) : p.name = e.name
    BY <2>1
  <2>5. Resolved(r) = {} => lookup(r.key) = {}
    BY <2>1, Zenon
  <2> QED BY <2>2, <2>3, <2>4, <2>5
<1>2. CASE ~(enabled /\ r.key # NoKey)
  <2>1. Owners(x) = IF CertAuth THEN {r.cert} ELSE {}
    BY <1>2 DEF Owners, enabled, KeysInv
  <2>2. Resolved(r) = IF CertAuth THEN principalFromPeerCert(r.cert) ELSE {}
    BY <1>2 DEF Resolved
  <2>3. CASE CertAuth /\ r.cert # NoName
    <3>1. \A p \in Resolved(r) : p.name = r.cert
      BY <2>2, <2>3 DEF principalFromPeerCert
    <3>2. Resolved(r) # {}
      BY <2>2, <2>3, Zenon DEF principalFromPeerCert
    <3> QED BY <2>1, <2>3, <3>1, <3>2
  <2>4. CASE ~(CertAuth /\ r.cert # NoName)
    <3>1. Resolved(r) = {}
      BY <2>2, <2>4 DEF principalFromPeerCert
    <3> QED BY <2>1, <2>4, <3>1
  <2> QED BY <2>3, <2>4
<1> QED BY <1>1, <1>2

\* authorize fills the sink with the owner, or with nobody when there is none,
\* and a call that nobody owns is never denied.
LEMMA AuthorizeStands ==
  ASSUME AuditInv, NEW c \in Calls, Authorize(c)
  PROVE  Stands(call[c])'
<1> DEFINE r == call[c].req
           a == authorize(r)
           x == call[c]
<1>0. /\ x'.req = r /\ x'.under = keys /\ x'.who = a.who /\ x'.sink = a.sink
      /\ x'.code = IF a.code = "OK" /\ r.method \notin Streams /\ ~allowsCollection(a.who, r)
                   THEN "PermissionDenied" ELSE a.code
      /\ UNCHANGED setting
  BY DEF AuditInv, CallInv, Authorize
<1>1. /\ \A p \in Resolved(r) : p.name # NoName /\ p.name \in Owners(x')
      /\ Resolved(r) = {} => Owners(x') \ {NoName} = {}
  BY <1>0, ResolvedOwners DEF AuditInv
<1>2. Owners(x)' = Owners(x')
  BY <1>0 DEF Owners, CertAuth
<1>3. Nobody.name = NoName /\ Nobody.collections = {}
  BY DEF Nobody
<1>4. CASE (~enabled /\ ~CertAuth) \/ Resolved(r) = {}
  <2>1. a.who = Nobody /\ a.sink = Nobody /\ a.code \in {"OK", "Unauthenticated"}
    BY <1>4 DEF authorize
  <2>2. Resolved(r) = {}
    BY <1>4 DEF Resolved
  <2>3. x'.code # "PermissionDenied"
    BY <1>0, <1>3, <2>1 DEF allowsCollection
  <2> QED BY <1>0, <1>1, <1>2, <1>3, <2>1, <2>2, <2>3 DEF Stands
<1>5. CASE ~(~enabled /\ ~CertAuth) /\ Resolved(r) # {}
  <2>1. a.sink \in Resolved(r)
    BY <1>5 DEF authorize
  <2> QED BY <1>0, <1>1, <1>2, <2>1 DEF Stands
<1> QED BY <1>4, <1>5

\* The later interceptors and the handler change neither the sink nor what the
\* call was judged by, and deny no call that nobody owns.
LEMMA PassedOn ==
  ASSUME AuditInv, NEW c \in Calls, UNCHANGED setting,
         call[c].pc \notin {"idle", "auth", "done"}, call'[c].pc \notin {"idle", "auth", "done"},
         call'[c].req = call[c].req, call'[c].under = call[c].under,
         call'[c].who = call[c].who, call'[c].sink = call[c].sink,
         call'[c].audit = call[c].audit,
         call'[c].code = "PermissionDenied" => call[c].code = "PermissionDenied" \/ call[c].who # Nobody
  PROVE  Judged(c)'
<1>1. Stands(call[c]) /\ call[c].audit = <<>>
  BY DEF AuditInv, Judged
<1>2. Owners(call[c])' = Owners(call[c])
  BY DEF Owners, CertAuth
<1>3. Stands(call[c])'
  BY <1>1, <1>2 DEF Stands
<1> QED BY <1>1, <1>3 DEF Judged
\* Every interceptor, the handlers and a reload keep AuditInv.
LEMMA AuditStep == AuditInv /\ [Next]_vars => AuditInv'
<1> SUFFICES ASSUME AuditInv, [Next]_vars PROVE AuditInv'
  OBVIOUS
<1>0. CallInv /\ CallInv' /\ KeysInv /\ UNCHANGED setting
  BY CallStep, Zenon DEF AuditInv, Next, vars, Arrive, Authorize, ReadOnly, allow, acquire, Handle,
     RecvMsg, StreamEnds, Audit, Refill, Reload
<1>a. ASSUME UNCHANGED <<keys>>, NEW c \in Calls, \A d \in Calls \ {c} : call'[d] = call[d], Judged(c)'
      PROVE  AuditInv'
  <2>1. KeysInv'
    BY <1>0, <1>a DEF KeysInv
  <2>2. \A d \in Calls \ {c} : Judged(d)'
    BY <1>0, <1>a, JudgedFrame DEF AuditInv
  <2> QED BY <1>0, <1>a, <2>1, <2>2 DEF AuditInv
<1>b. ASSUME NEW c \in Calls, NEW code, Leave(c, code), UNCHANGED keys, Inside(c),
             code = "PermissionDenied" => call[c].who # Nobody
      PROVE  AuditInv'
  <2>1. /\ \A d \in Calls \ {c} : call'[d] = call[d]
        /\ call'[c].pc = "audit" /\ call'[c].code = code
        /\ call'[c].req = call[c].req /\ call'[c].under = call[c].under
        /\ call'[c].who = call[c].who /\ call'[c].sink = call[c].sink
        /\ call'[c].audit = call[c].audit
    BY <1>0, <1>b DEF CallInv, Leave
  <2> QED BY <1>0, <1>a, <1>b, <2>1, PassedOn DEF Inside
<1>c. ASSUME NEW c \in Calls, UNCHANGED keys, call[c].pc \notin {"idle", "auth", "done"},
             NEW pc \in {"allow", "acquire", "handler", "stream"}, Go(c, pc)
      PROVE  AuditInv'
  <2>1. /\ \A d \in Calls \ {c} : call'[d] = call[d]
        /\ call'[c].pc = pc /\ call'[c].code = call[c].code
        /\ call'[c].req = call[c].req /\ call'[c].under = call[c].under
        /\ call'[c].who = call[c].who /\ call'[c].sink = call[c].sink
        /\ call'[c].audit = call[c].audit
    BY <1>0, <1>c DEF CallInv, Go
  <2> QED BY <1>0, <1>a, <1>c, <2>1, PassedOn
<1>d. ASSUME NEW c \in Calls, UNCHANGED keys, call[c].pc \notin {"idle", "auth", "done"},
             NEW code \in {"FailedPrecondition", "ResourceExhausted"}, Fail(c, code)
      PROVE  AuditInv'
  <2>1. /\ \A d \in Calls \ {c} : call'[d] = call[d]
        /\ call'[c].pc = "audit" /\ call'[c].code = code
        /\ call'[c].req = call[c].req /\ call'[c].under = call[c].under
        /\ call'[c].who = call[c].who /\ call'[c].sink = call[c].sink
        /\ call'[c].audit = call[c].audit
    BY <1>0, <1>d DEF CallInv, Fail
  <2> QED BY <1>0, <1>a, <1>d, <2>1, PassedOn
<1>1. ASSUME NEW c \in Calls, Arrive(c) PROVE AuditInv'
  <2>1. PICK r \in Requests : call' = [call EXCEPT ![c].pc = "auth", ![c].req = r]
    BY <1>1, Zenon DEF Arrive
  <2>2. /\ \A d \in Calls \ {c} : call'[d] = call[d]
        /\ call'[c].pc = "auth" /\ call'[c].audit = call[c].audit
    BY <1>0, <2>1 DEF CallInv
  <2>3. Judged(c)'
    BY <1>1, <2>2 DEF AuditInv, Judged, Arrive, At
  <2> QED BY <1>1, <1>a, <2>2, <2>3, Zenon DEF Arrive
<1>2. ASSUME NEW c \in Calls, Authorize(c) PROVE AuditInv'
  <2>1. /\ \A d \in Calls \ {c} : call'[d] = call[d]
        /\ call'[c].pc \in {"readonly", "audit"} /\ call'[c].audit = call[c].audit
    BY <1>0, <1>2 DEF CallInv, Authorize
  <2>2. Judged(c)'
    BY <1>2, <2>1, AuthorizeStands, ZenonT(30) DEF AuditInv, Judged, Authorize, At
  <2> QED BY <1>2, <1>a, <2>1, <2>2 DEF Authorize
<1>3. ASSUME NEW c \in Calls, ReadOnly(c) PROVE AuditInv'
  BY <1>3, <1>c, <1>d DEF ReadOnly, At
<1>4. ASSUME NEW c \in Calls, allow(c) PROVE AuditInv'
  <2>1. CASE Go(c, "acquire")
    BY <1>4, <1>c, <2>1 DEF allow, At
  <2>2. CASE call' = [call EXCEPT ![c].pc = "audit", ![c].code = "ResourceExhausted",
                                  ![c].blame = TakenBy(BucketName(c))]
    <3>1. /\ \A d \in Calls \ {c} : call'[d] = call[d]
          /\ call'[c].pc = "audit" /\ call'[c].code = "ResourceExhausted"
          /\ call'[c].req = call[c].req /\ call'[c].under = call[c].under
          /\ call'[c].who = call[c].who /\ call'[c].sink = call[c].sink
          /\ call'[c].audit = call[c].audit
      BY <1>0, <2>2 DEF CallInv
    <3>2. UNCHANGED keys /\ call[c].pc \notin {"idle", "auth", "done"}
      BY <1>4 DEF allow, At
    <3> QED BY <1>0, <1>a, <3>1, <3>2, PassedOn
  <2> QED BY <1>4, <2>1, <2>2 DEF allow
<1>5. ASSUME NEW c \in Calls, acquire(c) PROVE AuditInv'
  BY <1>5, <1>c, <1>d DEF acquire, At
<1>6. ASSUME NEW c \in Calls, Handle(c) PROVE AuditInv'
  BY <1>6, <1>b DEF Handle, Inside, At
<1>7. ASSUME NEW c \in Calls, RecvMsg(c) PROVE AuditInv'
  <2>1. CASE allowsCollection(call[c].who, call[c].req)
    BY <1>7, <1>c, <2>1 DEF RecvMsg, At
  <2>2. CASE ~allowsCollection(call[c].who, call[c].req)
    <3>1. call[c].who # Nobody
      BY <2>2 DEF allowsCollection, Nobody
    <3> QED BY <1>7, <1>b, <2>2, <3>1 DEF RecvMsg, At, Inside
  <2> QED BY <2>1, <2>2
<1>8. ASSUME NEW c \in Calls, StreamEnds(c) PROVE AuditInv'
  BY <1>8, <1>b DEF StreamEnds, Inside, At
<1>9. ASSUME NEW c \in Calls, Audit(c) PROVE AuditInv'
  <2> DEFINE x == call[c]
  <2>1. /\ \A d \in Calls \ {c} : call'[d] = call[d]
        /\ x'.pc = "done" /\ x'.audit = x.audit \o maybeRecord(c) /\ x'.code = x.code
        /\ x'.req = x.req /\ x'.under = x.under /\ x'.who = x.who /\ x'.sink = x.sink
    BY <1>0, <1>9 DEF CallInv, Audit
  <2>2. Stands(x) /\ x.audit = <<>>
    BY <1>9 DEF AuditInv, Judged, Audit, At
  <2>3. maybeRecord(c)' = maybeRecord(c) /\ <<>> \o maybeRecord(c) = maybeRecord(c)
    BY <2>1 DEF maybeRecord
  <2>4. Stands(x)'
    BY <1>0, <2>1, <2>2, ZenonT(30) DEF Stands, Owners, CertAuth
  <2>5. Judged(c)'
    BY <2>1, <2>2, <2>3, <2>4 DEF Judged
  <2> QED BY <1>9, <1>a, <2>1, <2>5, Zenon DEF Audit
<1>10. CASE Reload
  <2>1. \A c \in Calls : Judged(c)'
    BY <1>0, <1>10, JudgedFrame DEF AuditInv, Reload
  <2>2. KeysInv'
    BY <1>0, <1>10, KeysBuilt DEF KeysInv, CallInv, Reload
  <2> QED BY <1>0, <2>1, <2>2 DEF AuditInv
<1>11. ASSUME UNCHANGED <<setting, keys, call>> PROVE AuditInv'
  <2>1. \A c \in Calls : Judged(c)'
    BY <1>11, JudgedFrame DEF AuditInv
  <2> QED BY <1>0, <1>11, <2>1 DEF AuditInv, KeysInv
<1> QED
  BY <1>1, <1>2, <1>3, <1>4, <1>5, <1>6, <1>7, <1>8, <1>9, <1>10, <1>11 DEF Next, Refill, vars

\* isAuditedMethod, which takes the read-only guard's writeMethods and Promote, is
\* the list of RPCs the documentation promises a record of.
LEMMA AuditedIsRecorded == \A m : isAuditedMethod(m) <=> m \in Recorded
BY Zenon DEF isAuditedMethod, writeMethods, Recorded

\* The record that maybeRecord makes of a call that stands for its owner.
LEMMA RecordFaithful == AuditInv => AuditFaithful
<1> SUFFICES ASSUME AuditInv, NEW c \in Calls, call[c].pc = "done"
             PROVE  LET x == call[c]
                    IN /\ Len(x.audit) = IF x.req.method \in Recorded
                                            \/ x.code \in {"Unauthenticated", "PermissionDenied"} THEN 1 ELSE 0
                       /\ x.audit # <<>> =>
                            /\ x.audit[1].outcome = x.code
                            /\ x.audit[1].principal \in
                                 IF Owners(x) \ {NoName} # {} THEN Owners(x)
                                 ELSE IF x.code = "Unauthenticated" THEN {"unauthenticated"} ELSE {"anonymous"}
  BY ZenonT(30) DEF AuditFaithful, At, Owners
<1> DEFINE x == call[c]
<1>1. Stands(x) /\ x.audit = maybeRecord(c)
  BY DEF AuditInv, Judged
<1>2. CASE ~isAuditedMethod(x.req.method) /\ ~isAuthFailure(x.code)
  BY <1>1, <1>2, AuditedIsRecorded DEF maybeRecord, isAuthFailure
<1>3. CASE isAuditedMethod(x.req.method) \/ isAuthFailure(x.code)
  <2>1. x.audit = <<[principal |-> IF x.sink.name # NoName THEN x.sink.name
                                   ELSE IF isAuthFailure(x.code) THEN "unauthenticated" ELSE "anonymous",
                     outcome |-> x.code]>>
    BY <1>1, <1>3 DEF maybeRecord
  <2>2. /\ Len(x.audit) = 1 /\ x.audit[1].outcome = x.code
        /\ x.audit[1].principal = IF x.sink.name # NoName THEN x.sink.name
                                  ELSE IF isAuthFailure(x.code) THEN "unauthenticated" ELSE "anonymous"
    BY <2>1
  <2>3. x.audit[1].principal \in IF Owners(x) \ {NoName} # {} THEN Owners(x)
                                 ELSE IF x.code = "Unauthenticated" THEN {"unauthenticated"} ELSE {"anonymous"}
    BY <1>1, <2>2 DEF Stands, isAuthFailure
  <2> QED BY <1>3, <2>2, <2>3, AuditedIsRecorded DEF isAuthFailure
<1> QED BY <1>2, <1>3

\* The audit trail: every answered call of a documented RPC, and every one that
\* authentication refused, has one record, with its outcome and with the owner of its
\* credentials in the key set it was judged by, whatever was reloaded since.
THEOREM AuditHolds == Spec => []AuditFaithful
<1>1. Init => AuditInv
  <2> SUFFICES ASSUME Init PROVE AuditInv
    OBVIOUS
  <2>1. CallInv
    BY DEF Init, CallInv, Idle
  <2>2. KeysInv
    BY KeysBuilt DEF Init, KeysInv
  <2>3. \A c \in Calls : Judged(c)
    BY DEF Init, Idle, Judged
  <2> QED BY <2>1, <2>2, <2>3 DEF AuditInv
<1> QED
  BY <1>1, AuditStep, RecordFaithful, PTL DEF Spec
=============================================================================

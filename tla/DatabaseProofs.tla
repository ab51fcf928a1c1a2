---------------------------- MODULE DatabaseProofs ---------------------------
(***************************************************************************)
(* Theorems about Database, for every set of collections and settings: the *)
(* key an encrypted directory needs is found again, a wrong one is refused *)
(* and a collection has one open handle.                                   *)
(***************************************************************************)
EXTENDS Database, FiniteSetTheorems, WellFoundedInduction, TLAPS

Dir == [there : BOOLEAN, enc : BOOLEAN, key : Nat, kdf : Nat]

\* The state has its types, whatever the bounds.
ShapeInv ==
  /\ dir \in [Coll -> Dir] /\ reg \in [Coll -> Nat]
  /\ gen \in Nat /\ key \in Nat /\ kdf \in Nat /\ salts \in Nat /\ up \in BOOLEAN

\* A keyring's owner chooses one of its keys, or a key that is no key of it.
KeyInv == up /\ Provider = "keyring" => key \in Ring \cup {Stranger}

\* All encrypted directories have one salt, the open database uses it, and
\* their keys are derived from it.
SaltInv ==
  Steady =>
    /\ \A c \in Coll : dir[c].enc => /\ dir[c].there /\ dir[c].kdf # 0
                                     /\ dir[c].key = Derived(dir[c].kdf)
    /\ \A c, d \in Coll : dir[c].enc /\ dir[d].enc => dir[c].kdf = dir[d].kdf
    /\ up => /\ kdf # 0 /\ key = Derived(kdf)
             /\ \A c \in Coll : dir[c].enc => dir[c].kdf = kdf

\* The handles with live goroutines are the registered ones.
OwnerInv ==
  Steady => /\ ~up => running = {}
            /\ \A x \in running : /\ x = <<x[1], x[2]>> /\ x[1] \in Coll
                                  /\ x[2] = reg[x[1]] /\ x[2] # 0

DatabaseInv == ShapeInv /\ KeyInv /\ SaltInv /\ OwnerInv /\ WrongKeyRefused

-----------------------------------------------------------------------------
(* Lemmas about the operators.                                             *)

\* Collection directories are read in order: there is a first one.
LEMMA FirstColl ==
  ASSUME NEW S \in SUBSET Coll, S # {}
  PROVE  Min(S) \in S /\ \A c \in S : Min(S) <= c
<1>1. S \subseteq Nat BY CollAssumption
<1>2. PICK x \in S : \A y \in S : ~ (<<y, x>> \in OpToRel(<, Nat))
  BY <1>1, WFMin, NatLessThanWellFounded, Zenon
<1>3. ASSUME NEW y \in S PROVE x <= y
  <2>1. ~ (y < x) BY <1>1, <1>2, Zenon DEF OpToRel
  <2> QED BY <1>1, <2>1
<1> QED BY <1>3 DEF Min

\* Opening a collection gives its block the types, and encrypts it with the
\* key in use when it is to be encrypted and was not.
LEMMA InitEncryption ==
  ASSUME NEW c \in Coll, NEW m \in Dir, NEW o, o.key \in Nat, o.kdf \in Nat
  PROVE  /\ initEncryption(c, m, o) \in Dir
         /\ initEncryption(c, m, o).there
         /\ m.enc => /\ initEncryption(c, m, o).enc /\ initEncryption(c, m, o).key = m.key
                     /\ initEncryption(c, m, o).kdf = m.kdf
         /\ ~m.enc /\ initEncryption(c, m, o).enc =>
              initEncryption(c, m, o).key = o.key /\ initEncryption(c, m, o).kdf = o.kdf
<1>1. CASE ~m.enc /\ c \in Encrypted BY <1>1 DEF initEncryption, Dir
<1>2. CASE ~(~m.enc /\ c \in Encrypted) BY <1>2, Zenon DEF initEncryption, Dir
<1> QED BY <1>1, <1>2

\* The settings do not change.
LEMMA SettingKept ==
  ASSUME setting' = setting
  PROVE  /\ Provider' = Provider /\ (Steady <=> Steady') /\ Encrypted' = Encrypted
BY DEF Provider, Steady, Runtime, Mistakes, Encrypted

\* The key a passphrase is resolved to opens every directory: its salt is the
\* one they were encrypted with.
LEMMA PassphraseOpens ==
  ASSUME ShapeInv, SaltInv, Steady
  PROVE  LET s == resolvePassphrase(dir)
         IN  /\ s \in Nat /\ s # 0
             /\ \A c \in Coll : dir[c].enc => dir[c].kdf = s /\ dir[c].key = Derived(s)
<1> DEFINE with == {c \in Coll : dir[c].there /\ dir[c].enc /\ dir[c].kdf # 0}
<1>1. CASE with = {}
  <2>1. \A c \in Coll : ~dir[c].enc BY <1>1 DEF SaltInv
  <2>2. FindPersistedKDF(dir) = 0 BY <1>1 DEF FindPersistedKDF
  <2>3. resolvePassphrase(dir) = salts + 1 BY <2>2 DEF resolvePassphrase
  <2> QED BY <2>1, <2>3 DEF ShapeInv
<1>2. CASE with # {}
  <2>1. Min(with) \in with BY <1>2, FirstColl
  <2> DEFINE d == Min(with)
  <2>2. FindPersistedKDF(dir) = dir[d].kdf BY <1>2 DEF FindPersistedKDF
  <2>3. d \in Coll /\ dir[d].enc /\ dir[d].kdf # 0 BY <2>1
  <2> HIDE DEF d, with
  <2>4. resolvePassphrase(dir) = dir[d].kdf BY <2>2, <2>3 DEF resolvePassphrase
  <2>5. dir[d].kdf \in Nat BY <2>3 DEF ShapeInv, Dir
  <2> QED BY <2>3, <2>4, <2>5 DEF SaltInv
<1> QED BY <1>1, <1>2

\* Under its one passphrase a directory always opens.
LEMMA Reopens == ShapeInv /\ SaltInv => CanReopen
<1> SUFFICES ASSUME ShapeInv, SaltInv, Steady
             PROVE  \E o \in resolveKeyOptions(dir) : \A c \in OnDisk : Opens(dir[c], o.key)
  BY DEF CanReopen
<1> DEFINE o == [key |-> Derived(resolvePassphrase(dir)), kdf |-> resolvePassphrase(dir)]
<1>1. o \in resolveKeyOptions(dir) BY DEF resolveKeyOptions, Steady
<1>2. ASSUME NEW c \in OnDisk PROVE Opens(dir[c], o.key)
  BY PassphraseOpens DEF OnDisk, Opens, VerifyKeyCheck
<1> QED BY <1>1, <1>2

-----------------------------------------------------------------------------
(* Opening.                                                                *)

\* The collections an attempt with key k opens.
Bad(k) == {c \in OnDisk : ~Opens(dir[c], k)}
Reached(k) == IF Bad(k) = {} THEN OnDisk ELSE {c \in OnDisk : c < Min(Bad(k))}

\* The collections reached all open, and each gets a number of its own.
LEMMA ReachedOpens ==
  ASSUME ShapeInv, NEW k
  PROVE  /\ Reached(k) \subseteq OnDisk /\ OnDisk \subseteq Coll
         /\ \A c \in Reached(k) : Opens(dir[c], k)
<1>1. OnDisk \subseteq Coll BY DEF OnDisk
<1>2. CASE Bad(k) = {} BY <1>1, <1>2 DEF Reached, Bad
<1>3. CASE Bad(k) # {}
  <2>1. Bad(k) \in SUBSET Coll BY <1>1 DEF Bad
  <2>2. Min(Bad(k)) \in Bad(k) /\ \A c \in Bad(k) : Min(Bad(k)) <= c BY <1>3, <2>1, FirstColl
  <2> DEFINE m == Min(Bad(k))
  <2> HIDE DEF m
  <2>3. m \in Nat /\ \A c \in Coll : c \in Nat BY <2>1, <2>2, CollAssumption, Zenon DEF m
  <2>4. ASSUME NEW c \in OnDisk, c < m PROVE Opens(dir[c], k)
    <3>1. ~(m <= c) BY <1>1, <2>3, <2>4
    <3>2. c \notin Bad(k) BY <2>2, <3>1 DEF m
    <3> QED BY <3>2 DEF Bad
  <2> QED BY <1>1, <1>3, <2>4 DEF Reached, m
<1> QED BY <1>2, <1>3

\* Handles are numbered from the count of handles on.
LEMMA NumberIsNew ==
  ASSUME ShapeInv, NEW S \in SUBSET Coll
  PROVE  /\ gen + Cardinality(S) \in Nat
         /\ \A c \in S : Number(c, S) \in Nat /\ Number(c, S) # 0
<1>1. IsFiniteSet(S) BY CollAssumption, FS_Subset, Zenon
<1>2. Cardinality(S) \in Nat BY <1>1, FS_CardinalityType
<1>3. ASSUME NEW c \in S PROVE Number(c, S) \in Nat /\ Number(c, S) # 0
  <2> DEFINE T == {d \in S : d <= c}
  <2>1. c \in T BY CollAssumption
  <2>2. IsFiniteSet(T) BY <1>1, FS_Subset
  <2>3. Cardinality(T) \in Nat /\ Cardinality(T) # 0 BY <2>1, <2>2, FS_CardinalityType, FS_EmptySet
  <2> QED BY <2>3 DEF Number, ShapeInv
<1> QED BY <1>2, <1>3 DEF ShapeInv

\* What an attempt to open with the options o leaves, whether it fails or not.
LEMMA AttemptStep ==
  ASSUME ShapeInv, ~up, NEW o, o.key \in Nat, o.kdf \in Nat, Attempt(o), salts' \in Nat
  PROVE  /\ ShapeInv' /\ WrongKeyRefused' /\ setting' = setting
         /\ up' => key' = o.key /\ kdf' = o.kdf
         /\ up' <=> Bad(o.key) = {}
         /\ \A c \in Coll : /\ dir[c].enc => /\ dir'[c].enc /\ dir'[c].key = dir[c].key
                                             /\ dir'[c].kdf = dir[c].kdf
                                             /\ dir[c].there => dir'[c].there
                            /\ ~dir[c].enc /\ dir'[c].enc =>
                                 dir'[c].there /\ dir'[c].key = o.key /\ dir'[c].kdf = o.kdf
<1> DEFINE S == Reached(o.key)
<1>1. S \subseteq OnDisk /\ OnDisk \subseteq Coll /\ \A c \in S : Opens(dir[c], o.key)
  BY ReachedOpens
<1>2. /\ gen' = gen + Cardinality(S)
      /\ dir' = [c \in Coll |-> IF c \in S THEN initEncryption(c, dir[c], o) ELSE dir[c]]
      /\ up' = (Bad(o.key) = {})
      /\ reg' = [c \in Coll |-> IF Bad(o.key) = {} /\ c \in S THEN Number(c, S) ELSE 0]
      /\ key' = (IF Bad(o.key) = {} THEN o.key ELSE NoKey)
      /\ kdf' = (IF Bad(o.key) = {} THEN o.kdf ELSE 0)
      /\ setting' = setting
  BY DEF Attempt, Reached, Bad
<1> HIDE DEF S
<1>3. gen' \in Nat /\ \A c \in S : Number(c, S) \in Nat BY <1>1, <1>2, NumberIsNew
<1>4. \A c \in Coll : dir[c] \in Dir BY DEF ShapeInv
<1>5. ASSUME NEW c \in Coll
      PROVE  /\ dir'[c] \in Dir
             /\ dir[c].enc => /\ dir'[c].enc /\ dir'[c].key = dir[c].key
                              /\ dir'[c].kdf = dir[c].kdf
                              /\ dir[c].there => dir'[c].there
             /\ ~dir[c].enc /\ dir'[c].enc =>
                  dir'[c].there /\ dir'[c].key = o.key /\ dir'[c].kdf = o.kdf
  <2>1. CASE c \in S
    <3>1. dir'[c] = initEncryption(c, dir[c], o) BY <1>2, <2>1
    <3> QED BY <1>4, <3>1, InitEncryption
  <2>2. CASE c \notin S BY <1>2, <1>4, <2>2
  <2> QED BY <2>1, <2>2
<1>6. dir' \in [Coll -> Dir] BY <1>2, <1>5
<1>7. reg' \in [Coll -> Nat] BY <1>2, <1>3
<1>8. key' \in Nat /\ kdf' \in Nat BY <1>2 DEF NoKey
<1>9. ShapeInv' BY <1>2, <1>3, <1>6, <1>7, <1>8 DEF ShapeInv
<1>10. ASSUME up', NEW c \in Coll, reg'[c] # 0, dir'[c].enc PROVE dir'[c].key = key'
  <2>1. c \in S /\ key' = o.key BY <1>2, <1>10
  <2>2. dir[c].enc => dir[c].key = o.key BY <1>1, <2>1 DEF Opens, VerifyKeyCheck
  <2> QED BY <1>5, <1>10, <2>1, <2>2
<1>11. WrongKeyRefused' BY <1>10 DEF WrongKeyRefused
<1> QED BY <1>2, <1>5, <1>9, <1>11, Zenon

\* The right passphrase opens every collection, and with what it is resolved
\* to the directories stay under one salt.
LEMMA OpenStep ==
  ASSUME DatabaseInv, Open
  PROVE  DatabaseInv'
<1>1. PICK o \in resolveKeyOptions(dir) : salts' = Max({salts, o.kdf}) /\ Attempt(o)
  BY DEF Open
<1>2. ~up BY DEF Open
<1>3. setting' = setting BY <1>1 DEF Attempt
<1>4. ShapeInv BY DEF DatabaseInv
<1>5. FindPersistedKDF(dir) \in Nat
  <2> DEFINE with == {c \in Coll : dir[c].there /\ dir[c].enc /\ dir[c].kdf # 0}
  <2>1. CASE with = {} BY <2>1 DEF FindPersistedKDF
  <2>2. CASE with # {}
    <3>1. Min(with) \in Coll BY <2>2, FirstColl
    <3>2. FindPersistedKDF(dir) = dir[Min(with)].kdf BY <2>2 DEF FindPersistedKDF
    <3> QED BY <1>4, <3>1, <3>2 DEF ShapeInv, Dir
  <2> QED BY <2>1, <2>2
<1>6. resolvePassphrase(dir) \in Nat BY <1>4, <1>5 DEF resolvePassphrase, ShapeInv
<1>7. /\ o.key \in Nat /\ o.kdf \in Nat
      /\ Provider = "passphrase" =>
           o.kdf = resolvePassphrase(dir) /\ o.key = Derived(resolvePassphrase(dir))
      /\ Provider # "passphrase" => o.key \in Ring
  BY <1>6 DEF resolveKeyOptions, Derived, Ring
<1>8. salts' \in Nat
  <2>1. salts \in Nat /\ o.kdf \in Nat BY <1>4, <1>7 DEF ShapeInv
  <2>2. CASE salts >= o.kdf
    <3>1. Max({salts, o.kdf}) = salts BY <2>1, <2>2 DEF Max
    <3> QED BY <1>1, <2>1, <3>1
  <2>3. CASE o.kdf > salts
    <3>1. Max({salts, o.kdf}) = o.kdf BY <2>1, <2>3 DEF Max
    <3> QED BY <1>1, <2>1, <3>1
  <2> QED BY <2>1, <2>2, <2>3
<1>9. /\ ShapeInv' /\ WrongKeyRefused'
      /\ up' => key' = o.key /\ kdf' = o.kdf
      /\ up' <=> Bad(o.key) = {}
      /\ \A c \in Coll : /\ dir[c].enc => /\ dir'[c].enc /\ dir'[c].key = dir[c].key
                                          /\ dir'[c].kdf = dir[c].kdf
                                          /\ dir[c].there => dir'[c].there
                         /\ ~dir[c].enc /\ dir'[c].enc =>
                              dir'[c].there /\ dir'[c].key = o.key /\ dir'[c].kdf = o.kdf
  BY <1>1, <1>2, <1>4, <1>7, <1>8, AttemptStep
<1>10. KeyInv' BY <1>3, <1>7, <1>9, SettingKept DEF KeyInv
<1>11. ASSUME Steady PROVE SaltInv' /\ OwnerInv'
  <2> DEFINE s == resolvePassphrase(dir)
  <2>1. /\ s \in Nat /\ s # 0
        /\ \A c \in Coll : dir[c].enc => dir[c].kdf = s /\ dir[c].key = Derived(s)
    BY <1>4, <1>11, PassphraseOpens DEF DatabaseInv
  <2>2. o.kdf = s /\ o.key = Derived(s) BY <1>7, <1>11 DEF Steady
  <2> HIDE DEF s
  <2>3. Bad(o.key) = {} BY <2>1, <2>2 DEF Bad, OnDisk, Opens, VerifyKeyCheck
  <2>4. up' /\ key' = Derived(s) /\ kdf' = s BY <1>9, <2>2, <2>3
  <2>5. \A c \in Coll : dir[c].enc => dir[c].there BY <1>11 DEF DatabaseInv, SaltInv
  <2>6. \A c \in Coll : dir'[c].enc => dir'[c].there /\ dir'[c].kdf = s /\ dir'[c].key = Derived(s)
    BY <1>9, <2>1, <2>2, <2>5
  <2>7. SaltInv' BY <2>1, <2>4, <2>6 DEF SaltInv
  <2>8. running = {} BY <1>2, <1>11 DEF DatabaseInv, OwnerInv
  <2> DEFINE S == Reached(o.key)
  <2>9. /\ running' = {<<c, Number(c, S)>> : c \in S}
        /\ reg' = [c \in Coll |-> IF c \in S THEN Number(c, S) ELSE 0]
    BY <1>1, <2>3, <2>8 DEF Attempt, Reached, Bad
  <2>10. S \in SUBSET Coll BY <1>4, ReachedOpens
  <2>11. \A c \in S : Number(c, S) # 0 BY <1>4, <2>10, NumberIsNew
  <2> HIDE DEF S
  <2>12. ASSUME NEW x \in running'
         PROVE  x = <<x[1], x[2]>> /\ x[1] \in Coll /\ x[2] = reg'[x[1]] /\ x[2] # 0
    <3>1. PICK c \in S : x = <<c, Number(c, S)>> BY <2>9
    <3>2. x[1] = c /\ x[2] = Number(c, S) BY <3>1
    <3> QED BY <2>9, <2>10, <2>11, <3>1, <3>2
  <2>13. OwnerInv' BY <2>4, <2>12 DEF OwnerInv
  <2> QED BY <2>7, <2>13
<1>12. (~Steady => SaltInv' /\ OwnerInv') BY <1>3, SettingKept DEF SaltInv, OwnerInv
<1> QED BY <1>9, <1>10, <1>11, <1>12 DEF DatabaseInv

\* A mistaken key leaves no registered collection it does not fit.
LEMMA OpenMistakenStep ==
  ASSUME DatabaseInv, OpenMistaken
  PROVE  DatabaseInv'
<1> DEFINE o == [key |-> Stranger, kdf |-> 0]
<1>1. ~up /\ Mistakes /\ Attempt(o) /\ salts' = salts BY DEF OpenMistaken
<1>2. o.key \in Nat /\ o.kdf \in Nat /\ o.key = Stranger BY DEF Stranger
<1> HIDE DEF o
<1>3. ShapeInv /\ salts' \in Nat BY <1>1 DEF DatabaseInv, ShapeInv
<1>4. ShapeInv' /\ WrongKeyRefused' /\ setting' = setting /\ (up' => key' = o.key)
  BY <1>1, <1>2, <1>3, AttemptStep
<1>5. ~Steady BY <1>1 DEF Steady
<1>6. SaltInv' /\ OwnerInv' BY <1>4, <1>5, SettingKept DEF SaltInv, OwnerInv
<1>7. KeyInv' BY <1>2, <1>4 DEF KeyInv
<1> QED BY <1>4, <1>6, <1>7 DEF DatabaseInv

-----------------------------------------------------------------------------
(* The other steps.                                                        *)

\* A step that closes the database, cleanly or not, leaves no handle.
LEMMA DownStep ==
  ASSUME DatabaseInv, Close \/ Crash
  PROVE  DatabaseInv'
<1>1. /\ up' = FALSE /\ dir' = dir /\ gen' = gen /\ salts' = salts /\ setting' = setting
      /\ reg' = [c \in Coll |-> 0] /\ key' = NoKey /\ kdf' = 0
  BY DEF Close, Crash
<1>2. ShapeInv' BY <1>1, Zenon DEF DatabaseInv, ShapeInv, NoKey
<1>3. KeyInv' /\ WrongKeyRefused' BY <1>1 DEF KeyInv, WrongKeyRefused
<1>4. SaltInv' BY <1>1, SettingKept DEF DatabaseInv, SaltInv
<1>5. ASSUME Steady PROVE running' = {}
  <2>1. CASE Crash BY <2>1 DEF Crash
  <2>2. CASE Close
    <3>1. running' = running \ {<<c, reg[c]>> : c \in Coll} BY <2>2 DEF Close
    <3>2. \A x \in running : x = <<x[1], x[2]>> /\ x[1] \in Coll /\ x[2] = reg[x[1]]
      BY <1>5 DEF DatabaseInv, OwnerInv
    <3>3. \A x \in running : x = <<x[1], reg[x[1]]>> /\ x[1] \in Coll BY <3>2
    <3> QED BY <3>1, <3>3
  <2> QED BY <2>1, <2>2
<1>6. OwnerInv' BY <1>1, <1>5, SettingKept DEF OwnerInv
<1> QED BY <1>2, <1>3, <1>4, <1>6 DEF DatabaseInv

\* The handles before a collection is opened are those of the others.
Others(c, before) == before \subseteq running /\ \A x \in before : x[1] # c

\* Opening one collection of an open database.
LEMMA OpenCollectionStep ==
  ASSUME DatabaseInv, NEW c \in Coll, NEW before, up, Opens(dir[c], key),
         Steady => Others(c, before),
         OpenCollection(c, before), up' = up, key' = key, kdf' = kdf, salts' = salts,
         setting' = setting
  PROVE  DatabaseInv'
<1> DEFINE o == [key |-> key, kdf |-> kdf]
           m == IF dir[c].there THEN dir[c] ELSE Fresh
<1>1. /\ gen' = gen + 1 /\ running' = before \cup {<<c, gen + 1>>}
      /\ reg' = [reg EXCEPT ![c] = gen + 1]
      /\ dir' = [dir EXCEPT ![c] = initEncryption(c, m, o)]
  BY DEF OpenCollection
<1>2. ShapeInv /\ o.key = key /\ o.kdf = kdf /\ o.key \in Nat /\ o.kdf \in Nat
  BY DEF DatabaseInv, ShapeInv
<1>3. m \in Dir /\ (m.enc => dir[c].enc /\ m.key = dir[c].key /\ m.kdf = dir[c].kdf)
  BY <1>2, Zenon DEF ShapeInv, Dir, Fresh, NoDir, NoKey
<1> HIDE DEF o, m
<1>4. /\ dir'[c] \in Dir /\ dir'[c].there
      /\ dir'[c].enc => \/ dir[c].enc /\ dir'[c].key = dir[c].key /\ dir'[c].kdf = dir[c].kdf
                        \/ dir'[c].key = key /\ dir'[c].kdf = kdf
  <2>1. dir'[c] = initEncryption(c, m, o) BY <1>1, <1>2 DEF ShapeInv
  <2> QED BY <1>2, <1>3, <2>1, InitEncryption
<1>5. \A d \in Coll \ {c} : dir'[d] = dir[d] /\ reg'[d] = reg[d]
  BY <1>1, <1>2 DEF ShapeInv
<1>6. reg'[c] = gen + 1 /\ gen + 1 \in Nat /\ gen + 1 # 0 BY <1>1, <1>2 DEF ShapeInv
<1>7. dir' \in [Coll -> Dir] BY <1>1, <1>2, <1>4 DEF ShapeInv
<1>8. reg' \in [Coll -> Nat] BY <1>1, <1>2, <1>6 DEF ShapeInv
<1>9. ShapeInv' BY <1>1, <1>2, <1>6, <1>7, <1>8 DEF ShapeInv
<1>10. KeyInv' BY SettingKept DEF DatabaseInv, KeyInv
<1>11. WrongKeyRefused'
  <2>1. dir'[c].enc => dir'[c].key = key BY <1>4 DEF Opens, VerifyKeyCheck
  <2>2. \A d \in Coll \ {c} : reg[d] # 0 /\ dir[d].enc =>
                                dir[d].key = key \/ {dir[d].key, key} \subseteq Ring
    BY DEF DatabaseInv, WrongKeyRefused
  <2> QED BY <1>5, <2>1, <2>2 DEF WrongKeyRefused
<1>12. SaltInv'
  <2>1. SUFFICES ASSUME Steady
                 PROVE  \A d \in Coll : dir'[d].enc => /\ dir'[d].there /\ dir'[d].kdf = kdf
                                                       /\ dir'[d].key = Derived(kdf)
                                                       /\ kdf # 0 /\ key = Derived(kdf)
    BY SettingKept DEF DatabaseInv, SaltInv
  <2>2. /\ \A d \in Coll : dir[d].enc => dir[d].there /\ dir[d].kdf = kdf /\ dir[d].key = Derived(kdf)
        /\ kdf # 0 /\ key = Derived(kdf)
    BY <2>1 DEF DatabaseInv, SaltInv
  <2>3. dir'[c].enc => dir'[c].there /\ dir'[c].kdf = kdf /\ dir'[c].key = Derived(kdf)
    BY <1>4, <2>2
  <2> QED BY <1>5, <2>2, <2>3
<1>13. OwnerInv'
  <2>1. SUFFICES ASSUME Steady, NEW x \in running'
                 PROVE  x = <<x[1], x[2]>> /\ x[1] \in Coll /\ x[2] = reg'[x[1]] /\ x[2] # 0
    BY SettingKept DEF OwnerInv
  <2>2. CASE x = <<c, gen + 1>> BY <1>6, <2>2
  <2>3. CASE x \in before
    <3>1. x \in running /\ x[1] # c BY <2>1, <2>3 DEF Others
    <3>2. x = <<x[1], x[2]>> /\ x[1] \in Coll /\ x[2] = reg[x[1]] /\ x[2] # 0
      BY <2>1, <3>1 DEF DatabaseInv, OwnerInv
    <3> QED BY <1>5, <3>1, <3>2
  <2> QED BY <1>1, <2>2, <2>3
<1> QED BY <1>9, <1>10, <1>11, <1>12, <1>13 DEF DatabaseInv

\* Without its registered handle a collection has none.
LEMMA Closed ==
  ASSUME DatabaseInv, NEW c \in Coll
  PROVE  Steady => /\ Others(c, running \ {<<c, reg[c]>>})
                   /\ reg[c] = 0 => Others(c, running)
<1>1. SUFFICES ASSUME Steady, NEW x \in running, x[1] = c
               PROVE  x = <<c, reg[c]>> /\ reg[c] # 0
  BY DEF Others
<1>2. x = <<x[1], x[2]>> /\ x[2] = reg[x[1]] /\ x[2] # 0 BY <1>1 DEF DatabaseInv, OwnerInv
<1> QED BY <1>1, <1>2

\* Closing one collection, with its directory kept or removed.
LEMMA CloseCollectionStep ==
  ASSUME DatabaseInv, NEW c \in Coll, up, up' = up, key' = key, kdf' = kdf, salts' = salts,
         setting' = setting, gen' = gen,
         running' = running \ {<<c, reg[c]>>}, reg' = [reg EXCEPT ![c] = 0],
         dir' = dir \/ dir' = [dir EXCEPT ![c] = NoDir]
  PROVE  DatabaseInv'
<1>1. ShapeInv BY DEF DatabaseInv
<1>2. /\ reg' \in [Coll -> Nat] /\ reg'[c] = 0
      /\ \A d \in Coll \ {c} : dir'[d] = dir[d] /\ reg'[d] = reg[d]
  BY <1>1 DEF ShapeInv
<1>3. NoDir \in Dir /\ ~NoDir.enc BY DEF NoDir, Dir, NoKey
<1>4. dir' \in [Coll -> Dir] /\ (dir'[c] = dir[c] \/ dir'[c] = NoDir) BY <1>1, <1>3 DEF ShapeInv
<1>5. ShapeInv' BY <1>1, <1>2, <1>4 DEF ShapeInv
<1>6. KeyInv' BY SettingKept DEF DatabaseInv, KeyInv
<1>7. WrongKeyRefused' BY <1>2 DEF DatabaseInv, WrongKeyRefused
<1>8. \A d \in Coll : dir'[d].enc => dir'[d] = dir[d] BY <1>2, <1>3, <1>4
<1>9. SaltInv'
  <2>1. CASE Steady
    <3>1. /\ \A d \in Coll : dir[d].enc => dir[d].there /\ dir[d].kdf = kdf /\ dir[d].key = Derived(kdf)
          /\ kdf # 0 /\ key = Derived(kdf)
      BY <2>1 DEF DatabaseInv, SaltInv
    <3>2. \A d \in Coll : dir'[d].enc => dir'[d].there /\ dir'[d].kdf = kdf /\ dir'[d].key = Derived(kdf)
      BY <1>8, <3>1
    <3> QED BY <3>1, <3>2 DEF SaltInv
  <2>2. CASE ~Steady BY <2>2, SettingKept DEF SaltInv
  <2> QED BY <2>1, <2>2
<1>10. OwnerInv'
  <2>1. SUFFICES ASSUME Steady, NEW x \in running'
                 PROVE  x = <<x[1], x[2]>> /\ x[1] \in Coll /\ x[2] = reg'[x[1]] /\ x[2] # 0
    BY SettingKept DEF OwnerInv
  <2>2. x \in running /\ x[1] # c BY <2>1, Closed DEF Others
  <2>3. x = <<x[1], x[2]>> /\ x[1] \in Coll /\ x[2] = reg[x[1]] /\ x[2] # 0
    BY <2>1, <2>2 DEF DatabaseInv, OwnerInv
  <2> QED BY <1>2, <2>2, <2>3
<1> QED BY <1>5, <1>6, <1>7, <1>9, <1>10 DEF DatabaseInv

\* SetEncryptionPolicy and RotateKey seal a collection with the current key.
LEMMA SealStep ==
  ASSUME DatabaseInv, NEW c \in Coll, SetEncryptionPolicy(c) \/ RotateKey(c)
  PROVE  DatabaseInv'
<1>1. /\ up /\ Runtime /\ reg' = reg /\ running' = running /\ gen' = gen
      /\ up' = up /\ key' = key /\ kdf' = kdf /\ salts' = salts /\ setting' = setting
  BY DEF SetEncryptionPolicy, RotateKey, session
<1>2. ShapeInv BY DEF DatabaseInv
<1>3. dir[c] \in Dir /\ key \in Nat BY <1>2 DEF ShapeInv
<1>4. \E m \in Dir : m.key = key /\ dir' = [dir EXCEPT ![c] = m]
  <2>1. CASE SetEncryptionPolicy(c)
    <3> DEFINE m == [there |-> TRUE, enc |-> TRUE, key |-> key, kdf |-> 0]
    <3>1. m \in Dir /\ m.key = key BY <1>3 DEF Dir
    <3>2. dir' = [dir EXCEPT ![c] = m] BY <2>1 DEF SetEncryptionPolicy
    <3> QED BY <3>1, <3>2, Zenon
  <2>2. CASE RotateKey(c)
    <3> DEFINE m == [dir[c] EXCEPT !.key = key]
    <3>1. m \in Dir /\ m.key = key BY <1>3 DEF Dir
    <3>2. dir' = [dir EXCEPT ![c] = m] BY <2>2 DEF RotateKey
    <3> QED BY <3>1, <3>2, Zenon
  <2> QED BY <2>1, <2>2
<1>5. PICK m \in Dir : m.key = key /\ dir' = [dir EXCEPT ![c] = m] BY <1>4, Zenon
<1>6. dir' \in [Coll -> Dir] /\ dir'[c].key = key /\ \A d \in Coll \ {c} : dir'[d] = dir[d]
  BY <1>2, <1>5 DEF ShapeInv
<1>7. ShapeInv' BY <1>1, <1>2, <1>6 DEF ShapeInv
<1>8. ~Steady BY <1>1 DEF Steady
<1>9. KeyInv' /\ SaltInv' /\ OwnerInv'
  BY <1>1, <1>8, SettingKept DEF DatabaseInv, KeyInv, SaltInv, OwnerInv
<1>10. WrongKeyRefused' BY <1>1, <1>6 DEF DatabaseInv, WrongKeyRefused
<1> QED BY <1>7, <1>9, <1>10 DEF DatabaseInv

\* A key is promoted within the ring the collections were sealed from.
LEMMA SetCurrentStep ==
  ASSUME DatabaseInv, NEW k \in Ring, SetCurrent(k)
  PROVE  DatabaseInv'
<1>1. /\ up /\ Runtime /\ Provider = "keyring" /\ k > key /\ key' = k
      /\ dir' = dir /\ reg' = reg /\ running' = running /\ gen' = gen /\ up' = up /\ kdf' = kdf
      /\ salts' = salts /\ setting' = setting
  BY DEF SetCurrent
<1>2. key \in Ring BY <1>1 DEF DatabaseInv, KeyInv, Ring, Stranger
<1>3. ~Steady BY <1>1 DEF Steady
<1>4. ShapeInv' BY <1>1 DEF DatabaseInv, ShapeInv, Ring
<1>5. KeyInv' BY <1>1, SettingKept DEF KeyInv
<1>6. SaltInv' /\ OwnerInv' BY <1>1, <1>3, SettingKept DEF SaltInv, OwnerInv
<1>7. WrongKeyRefused' BY <1>1, <1>2 DEF DatabaseInv, WrongKeyRefused
<1> QED BY <1>4, <1>5, <1>6, <1>7 DEF DatabaseInv

\* Every step preserves the invariant.
LEMMA DatabaseStep == DatabaseInv /\ [Next]_vars => DatabaseInv'
<1> SUFFICES ASSUME DatabaseInv, [Next]_vars PROVE DatabaseInv'
  OBVIOUS
<1>1. CASE Open BY <1>1, OpenStep
<1>2. CASE OpenMistaken BY <1>2, OpenMistakenStep
<1>3. CASE Close \/ Crash BY <1>3, DownStep
<1>4. ASSUME NEW c \in Coll, CreateCollection(c) PROVE DatabaseInv'
  <2>1. /\ up /\ reg[c] = 0 /\ Opens(dir[c], key) /\ OpenCollection(c, running)
        /\ up' = up /\ key' = key /\ kdf' = kdf /\ salts' = salts /\ setting' = setting
    BY <1>4 DEF CreateCollection, session
  <2>2. Steady => Others(c, running) BY <2>1, Closed, Zenon
  <2> QED BY <2>1, <2>2, OpenCollectionStep
<1>5. ASSUME NEW c \in Coll, DropCollection(c) PROVE DatabaseInv'
  <2>1. /\ up /\ running' = running \ {<<c, reg[c]>>} /\ reg' = [reg EXCEPT ![c] = 0]
        /\ dir' = [dir EXCEPT ![c] = NoDir] /\ gen' = gen
        /\ up' = up /\ key' = key /\ kdf' = kdf /\ salts' = salts /\ setting' = setting
    BY <1>5 DEF DropCollection, session
  <2> QED BY <2>1, CloseCollectionStep, Zenon
<1>6. ASSUME NEW c \in Coll, NEW indexed \in BOOLEAN, Collection(c, indexed) PROVE DatabaseInv'
  <2>1. /\ up /\ CollectionWithConfig(c)
        /\ up' = up /\ key' = key /\ kdf' = kdf /\ salts' = salts /\ setting' = setting
    BY <1>6 DEF Collection, session
  <2>2. CASE Opens(dir[c], key)
    <3>1. OpenCollection(c, running \ {<<c, reg[c]>>}) BY <2>1, <2>2 DEF CollectionWithConfig
    <3>2. Steady => Others(c, running \ {<<c, reg[c]>>}) BY Closed
    <3> QED BY <2>1, <2>2, <3>1, <3>2, OpenCollectionStep
  <2>3. CASE ~Opens(dir[c], key)
    <3>1. /\ running' = running \ {<<c, reg[c]>>} /\ reg' = [reg EXCEPT ![c] = 0]
          /\ dir' = dir /\ gen' = gen
      BY <2>1, <2>3 DEF CollectionWithConfig
    <3> QED BY <2>1, <3>1, CloseCollectionStep, Zenon
  <2> QED BY <2>2, <2>3
<1>7. ASSUME NEW c \in Coll, SetEncryptionPolicy(c) \/ RotateKey(c) PROVE DatabaseInv'
  BY <1>7, SealStep
<1>8. ASSUME NEW k \in Ring, SetCurrent(k) PROVE DatabaseInv' BY <1>8, SetCurrentStep
<1>9. CASE UNCHANGED vars
  BY <1>9, SettingKept
     DEF vars, DatabaseInv, ShapeInv, KeyInv, SaltInv, OwnerInv, WrongKeyRefused
<1> QED BY <1>1, <1>2, <1>3, <1>4, <1>5, <1>6, <1>7, <1>8, <1>9 DEF Next

-----------------------------------------------------------------------------
(* Theorems.                                                               *)

\* The keys, salts and handles of a database agree in every reachable state.
THEOREM DatabaseInvariant == Spec => []DatabaseInv
<1>1. Init => DatabaseInv
  <2> SUFFICES ASSUME Init PROVE DatabaseInv
    OBVIOUS
  <2>1. NoDir \in Dir /\ ~NoDir.enc BY DEF NoDir, Dir, NoKey
  <2>2. ShapeInv BY <2>1, Zenon DEF Init, ShapeInv, NoKey
  <2>3. \A c \in Coll : ~dir[c].enc BY <2>1 DEF Init
  <2> QED BY <2>2, <2>3 DEF Init, DatabaseInv, KeyInv, SaltInv, OwnerInv, WrongKeyRefused
<1> QED BY <1>1, DatabaseStep, PTL DEF Spec

\* A database under one passphrase opens again wherever it stopped
\* (FindPersistedKDF, resolveKeyOptions).
THEOREM ReopensHold == Spec => []CanReopen
<1>1. DatabaseInv => CanReopen BY Reopens DEF DatabaseInv
<1> QED BY <1>1, DatabaseInvariant, PTL

\* A collection directory has one live handle (CollectionWithConfig, Close).
THEOREM OneOwnerHolds == Spec => []OneOwner
<1>1. DatabaseInv => OneOwner
  <2> SUFFICES ASSUME DatabaseInv, Steady, NEW x \in running, NEW y \in running, x[1] = y[1]
               PROVE  x = y
    BY DEF OneOwner
  <2>1. x = <<x[1], x[2]>> /\ x[2] = reg[x[1]] BY DEF DatabaseInv, OwnerInv
  <2>2. y = <<y[1], y[2]>> /\ y[2] = reg[y[1]] BY DEF DatabaseInv, OwnerInv
  <2> QED BY <2>1, <2>2
<1> QED BY <1>1, DatabaseInvariant, PTL

\* A wrong key fails at Open, for a passphrase and for a keyring, whatever is
\* sealed, rotated, mistaken or promoted (VerifyKeyCheck).
THEOREM WrongKeysRefused == Spec => []WrongKeyRefused
<1>1. DatabaseInv => WrongKeyRefused BY DEF DatabaseInv
<1> QED BY <1>1, DatabaseInvariant, PTL
=============================================================================

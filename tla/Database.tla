------------------------------ MODULE Database ------------------------------
(***************************************************************************)
(* A database directory and the program that opens it (src/scriva.go,      *)
(* src/encryption.go, src/engine/db.go, encryption_kdf.go): the registry   *)
(* of open collections, the handles the embedded facade caches, and how    *)
(* the key that a directory needs is found again after a restart.          *)
(*                                                                         *)
(* A handle is an engine.Collection with its background goroutines; two    *)
(* handles on one directory are told apart by a number.  Of meta.json only *)
(* the encryption block matters here: the key its key-check was made with  *)
(* and the salt of its kdf block.  A key derived from a passphrase is the  *)
(* salt it was derived with.                                               *)
(***************************************************************************)
EXTENDS Integers, FiniteSetsExt

CONSTANTS Coll,      \* collection names, in directory order: 1..n
          Settings,  \* by name: how a program and its operator use the directory
          MaxSalt, MaxCrashes

ASSUME CollAssumption == Coll \subseteq Nat /\ IsFiniteSet(Coll)
ASSUME SettingsAssumption ==
    \A n \in DOMAIN Settings : /\ Settings[n].provider \in {"keyring", "passphrase"}
                               /\ Settings[n].encrypted \subseteq Coll

VARIABLES setting,  \* the use in hand; no step changes it
          dir,      \* per collection: its directory, NoDir when there is none
          reg,      \* engine.DB.collections: handle per name, 0 when closed
          cols,     \* scriva.DB.cols: the cached handle per name
          running,  \* handles with live goroutines, <<name, number>>
          gen,      \* handles made so far
          up,       \* a DB is open
          key,      \* the provider's current key
          kdf,      \* base.EncryptionKDF: the salt to persist, 0 when none
          salts,    \* salts minted so far
          crashes

vars == <<setting, dir, reg, cols, running, gen, up, key, kdf, salts, crashes>>

Encrypted == Settings[setting].encrypted  \* named by WithCollectionEncryption
Provider == Settings[setting].provider
Runtime == Settings[setting].runtime      \* SetEncryptionPolicy, RotateKey are called
EngineDrops == Settings[setting].drops    \* DropCollection, through DB.Engine()
Mistakes == Settings[setting].mistakes    \* Open with a key that was never used
MaxGen == Settings[setting].gens

\* One passphrase, never mistaken, and no key changed at run time.
Steady == Provider = "passphrase" /\ ~Runtime /\ ~Mistakes

NoKey == 0
Ring == {1, 2}          \* the keys of a keyring
Derived(salt) == 10 + salt
Stranger == 9

NoDir == [there |-> FALSE, enc |-> FALSE, key |-> NoKey, kdf |-> 0]
Fresh == [NoDir EXCEPT !.there = TRUE]

\* Directories, handles and keys have their types.
TypeOK ==
    /\ dir \in [Coll -> [there: BOOLEAN, enc: BOOLEAN, key: 0..(10 + MaxSalt),
                         kdf: 0..MaxSalt]]
    /\ reg \in [Coll -> 0..MaxGen] /\ cols \in [Coll -> 0..MaxGen]
    /\ running \subseteq Coll \X (1..MaxGen)
    /\ gen \in 0..MaxGen /\ up \in BOOLEAN
    /\ key \in 0..(10 + MaxSalt) /\ kdf \in 0..MaxSalt
    /\ salts \in 0..MaxSalt /\ crashes \in 0..MaxCrashes

Init ==
    /\ setting \in DOMAIN Settings
    /\ dir = [c \in Coll |-> NoDir]
    /\ reg = [c \in Coll |-> 0] /\ cols = [c \in Coll |-> 0]
    /\ running = {} /\ gen = 0
    /\ up = FALSE /\ key = NoKey /\ kdf = 0 /\ salts = 0 /\ crashes = 0

-----------------------------------------------------------------------------
(* Finding the key.                                                        *)

\* Mutant: the persisted salt is not found.
FindPersistedKDF_Misses(d) == 0

\* The first kdf block in directory order.
FindPersistedKDF(d) ==
    LET with == {c \in Coll : d[c].there /\ d[c].enc /\ d[c].kdf # 0}
    IN  IF with = {} THEN 0 ELSE d[Min(with)].kdf

\* The salt a passphrase is resolved with, minted when none is on disk.
resolvePassphrase(d) ==
    IF FindPersistedKDF(d) # 0 THEN FindPersistedKDF(d) ELSE salts + 1

\* The key and kdf an Open may start with: a passphrase leaves no choice, the
\* owner of a keyring chooses the current key, and a mistaken key is neither.
resolveKeyOptions(d) ==
    IF Provider = "passphrase"
      THEN {[key |-> Derived(resolvePassphrase(d)), kdf |-> resolvePassphrase(d)]}
      ELSE {[key |-> k, kdf |-> 0] : k \in Ring}

\* Mutant: the key-check is not compared.
VerifyKeyCheck_Off(k, m) == TRUE

VerifyKeyCheck(k, m) == m.key = k

\* initEncryption: may the collection be opened, and the block it then has.
Opens(m, k) == m.enc => VerifyKeyCheck(k, m)
initEncryption(c, m, o) ==
    IF ~m.enc /\ c \in Encrypted
      THEN [there |-> TRUE, enc |-> TRUE, key |-> o.key, kdf |-> o.kdf]
      ELSE [m EXCEPT !.there = TRUE]

-----------------------------------------------------------------------------
(* Opening and closing a database.                                         *)

OnDisk == {c \in Coll : dir[c].there}
Number(c, S) == gen + Cardinality({d \in S : d <= c})

\* engine.Open opens the directories in order.
Attempt(o) ==
    LET bad == {c \in OnDisk : ~Opens(dir[c], o.key)}
        S == IF bad = {} THEN OnDisk ELSE {c \in OnDisk : c < Min(bad)}
    IN  /\ gen + Cardinality(S) <= MaxGen
        /\ gen' = gen + Cardinality(S)
        /\ running' = running \cup {<<c, Number(c, S)>> : c \in S}
        /\ dir' = [c \in Coll |-> IF c \in S THEN initEncryption(c, dir[c], o) ELSE dir[c]]
        /\ up' = (bad = {})
        /\ reg' = [c \in Coll |-> IF bad = {} /\ c \in S THEN Number(c, S) ELSE 0]
        /\ key' = IF bad = {} THEN o.key ELSE NoKey
        /\ kdf' = IF bad = {} THEN o.kdf ELSE 0
        /\ cols' = [c \in Coll |-> 0]
        /\ UNCHANGED <<crashes, setting>>

Open ==
    /\ ~up
    /\ \E o \in resolveKeyOptions(dir) :
          /\ o.kdf <= MaxSalt
          /\ salts' = Max({salts, o.kdf})
          /\ Attempt(o)

OpenMistaken ==
    /\ ~up /\ Mistakes
    /\ Attempt([key |-> Stranger, kdf |-> 0])
    /\ UNCHANGED salts

Close ==
    /\ up /\ up' = FALSE
    /\ running' = running \ {<<c, reg[c]>> : c \in Coll}
    /\ reg' = [c \in Coll |-> 0] /\ cols' = [c \in Coll |-> 0]
    /\ key' = NoKey /\ kdf' = 0
    /\ UNCHANGED <<dir, gen, salts, crashes, setting>>

Crash ==
    /\ crashes < MaxCrashes /\ crashes' = crashes + 1
    /\ up' = FALSE /\ running' = {}
    /\ reg' = [c \in Coll |-> 0] /\ cols' = [c \in Coll |-> 0]
    /\ key' = NoKey /\ kdf' = 0
    /\ UNCHANGED <<dir, gen, salts, setting>>

-----------------------------------------------------------------------------
(* Collections.                                                            *)

session == <<up, key, kdf, salts, crashes, setting>>

\* OpenCollection under the database's configuration.
OpenCollection(c, before) ==
    /\ gen < MaxGen /\ gen' = gen + 1
    /\ running' = before \cup {<<c, gen'>>}
    /\ reg' = [reg EXCEPT ![c] = gen']
    /\ dir' = [dir EXCEPT ![c] = initEncryption(c, IF dir[c].there THEN dir[c] ELSE Fresh,
                                                [key |-> key, kdf |-> kdf])]

CreateCollection(c) ==
    /\ up /\ reg[c] = 0
    /\ Opens(dir[c], key)
    /\ OpenCollection(c, running)
    /\ UNCHANGED <<cols, session>>

\* Mutant: the open handle is not closed.
CollectionWithConfig_Leaks(c) ==
    IF Opens(dir[c], key)
      THEN OpenCollection(c, running)
      ELSE /\ reg[c] # 0
           /\ running' = running \ {<<c, reg[c]>>}
           /\ reg' = [reg EXCEPT ![c] = 0]
           /\ UNCHANGED <<dir, gen>>

\* An open collection is closed first, and out of the registry when it then
\* fails to open.
CollectionWithConfig(c) ==
    IF Opens(dir[c], key)
      THEN OpenCollection(c, running \ {<<c, reg[c]>>})
      ELSE /\ reg[c] # 0
           /\ running' = running \ {<<c, reg[c]>>}
           /\ reg' = [reg EXCEPT ![c] = 0]
           /\ UNCHANGED <<dir, gen>>

\* DB.Collection: a cached handle is returned as it is (no step); otherwise
\* the collection is opened and cached, unless a unique index it asks for
\* cannot be built.
Collection(c, indexed) ==
    /\ up /\ cols[c] = 0
    /\ CollectionWithConfig(c)
    /\ cols' = IF indexed THEN [cols EXCEPT ![c] = reg'[c]] ELSE cols
    /\ UNCHANGED session

DropCollection(c) ==
    /\ up /\ reg[c] # 0 /\ EngineDrops
    /\ running' = running \ {<<c, reg[c]>>}
    /\ reg' = [reg EXCEPT ![c] = 0]
    /\ dir' = [dir EXCEPT ![c] = NoDir]
    /\ UNCHANGED <<cols, gen, session>>

\* First-time SetEncryptionPolicy makes a key-check and leaves kdf empty.
SetEncryptionPolicy(c) ==
    /\ up /\ Runtime /\ reg[c] # 0 /\ ~dir[c].enc
    /\ dir' = [dir EXCEPT ![c] = [there |-> TRUE, enc |-> TRUE, key |-> key, kdf |-> 0]]
    /\ UNCHANGED <<reg, cols, running, gen, session>>

\* The owner of a keyring promotes the other key, then rotates collections.
SetCurrent(k) ==
    /\ up /\ Runtime /\ Provider = "keyring" /\ k \in Ring /\ k > key
    /\ key' = k
    /\ UNCHANGED <<dir, reg, cols, running, gen, up, kdf, salts, crashes,
                   setting>>

RotateKey(c) ==
    /\ up /\ Runtime /\ reg[c] # 0 /\ dir[c].enc /\ dir[c].key # key
    /\ dir' = [dir EXCEPT ![c].key = key]
    /\ UNCHANGED <<reg, cols, running, gen, session>>

Next ==
    \/ Open \/ OpenMistaken \/ Close \/ Crash
    \/ \E c \in Coll :
          \/ CreateCollection(c) \/ DropCollection(c)
          \/ \E indexed \in BOOLEAN : Collection(c, indexed)
          \/ SetEncryptionPolicy(c) \/ RotateKey(c)
    \/ \E k \in Ring : SetCurrent(k)

Spec == Init /\ [][Next]_vars

-----------------------------------------------------------------------------
(* Properties.                                                             *)

\* Wherever the program stops, the owner of a directory can open it again with
\* what they have, the passphrase: the salt of every collection encrypted at
\* Open is found again (encryption.go:49-54).  Keys changed at run time are
\* not covered.
CanReopen ==
    Steady =>
        \E o \in resolveKeyOptions(dir) : \A c \in OnDisk : Opens(dir[c], o.key)

\* One collection directory has one compactor and one syncer, as long as no
\* Open fails half way, which the right passphrase ensures: compaction passes
\* are serialised per handle, not per directory (compactor.go:53-59).
OneOwner == Steady => \A x, y \in running : x[1] = y[1] => x = y

\* A program never works on an encrypted collection without the key, or the
\* keyring, it was last sealed with: a wrong key fails at Open.
WrongKeyRefused ==
    up => \A c \in Coll : reg[c] # 0 /\ dir[c].enc =>
             dir[c].key = key \/ {dir[c].key, key} \subseteq Ring

-----------------------------------------------------------------------------
(* Further properties, which hold on the instance of the run and are not   *)
(* part of it.                                                             *)

\* The handle the facade hands out is the open one, as long as collections
\* are dropped through the facade alone.
CachedIsOpen == ~EngineDrops => \A c \in Coll : cols[c] # 0 => cols[c] = reg[c]
=============================================================================

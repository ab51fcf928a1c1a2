----------------------------- MODULE Encryption -----------------------------
(***************************************************************************)
(* Encryption at rest of one collection (src/engine/encryption.go,         *)
(* encryption_admin.go, the re-encrypting half of compactor.go, and        *)
(* src/crypto): writes seal their data under the policy in force, policies *)
(* and keys change at run time, records of every earlier policy stay in    *)
(* the log until a pass rewrites them, and reads decode them all.          *)
(*                                                                         *)
(* A document maps fields to values.  A stored cell is plaintext or an     *)
(* envelope: the key that sealed it, the context it is bound to (the field *)
(* name; the collection is fixed), and the part of the document inside.    *)
(* A key and its id are one value.  Entries of the log carry the document  *)
(* the caller wrote, which the code does not have and only the properties  *)
(* look at.                                                                *)
(***************************************************************************)
EXTENDS Integers, FiniteSets

CONSTANTS Docs,      \* documents the clients write
          Settings   \* by name: the policies in use and the bounds of one use

VARIABLES setting,  \* the use in hand; no step changes it
          enc,      \* c.enc: [epoch, readMode, policy]; epoch 0 is nil
          meta,     \* the persisted encryption block: enc and key of key_check
          adm,      \* an admin call that has persisted and not yet swapped
          ring, current,  \* keys the provider resolves, and its current one
          log,      \* entries [id, rev, doc, stored, epoch, seg]
          rev,      \* revisions handed out
          write,    \* a write sealed and not yet appended, or NoWrite
          pass,     \* the running compaction pass, or NoPass
          mig,      \* MigrateNow: its step, and the epoch it was called at
          migrated, \* epoch MigrateNow last completed for
          up, crashes

vars == <<setting, enc, meta, adm, ring, current, log, rev, write, pass, mig,
          migrated, up, crashes>>

Policies == Settings[setting].policies
MaxKey == Settings[setting].keys
MaxEpoch == Settings[setting].epochs
MaxRev == Settings[setting].revs
MaxCrashes == Settings[setting].crashes
Ids == 1..Settings[setting].ids
Quiet == Settings[setting].quiet   \* MigrateNow starts while no write is in flight

Key == 1..MaxKey
KeyField == "_key"
secureDataField == "secure_data"
Off == [mode |-> "", set |-> {}]

\* Field mode names at least one field; the reserved names are refused.
validate(p) ==
    \/ p.mode = "fields" /\ p.set # {} /\ p.set \cap {KeyField, secureDataField} = {}
    \/ p.mode = "record" /\ secureDataField \notin p.set

ASSUME PoliciesAssumption ==
    \A n \in DOMAIN Settings : \A p \in Settings[n].policies : validate(p)

\* No document uses the reserved name.
ASSUME DocsAssumption ==
    \A doc \in Docs : /\ doc = [f \in DOMAIN doc |-> doc[f]]
                      /\ secureDataField \notin DOMAIN doc

\* An operator who retires keys calls MigrateNow while no write is in flight.
ASSUME KeysAssumption ==
    \A n \in DOMAIN Settings :
        /\ Settings[n].keys \in Nat \ {0}
        /\ Settings[n].quiet \/ Settings[n].keys = 1

Nil == [epoch |-> 0, readMode |-> "", policy |-> Off]
NoWrite == {}
NoMig == [at |-> "idle", epoch |-> 0]
NoPass == [on |-> FALSE, from |-> {}, to |-> {}]

-----------------------------------------------------------------------------
(* Envelopes.                                                              *)

Plain(part) == [env |-> FALSE, key |-> 0, aad |-> "", data |-> part]
seal(key, field, part) == [env |-> TRUE, key |-> key, aad |-> field, data |-> part]

\* Keyring.ByID finds a key that is still registered.
ByID(keys, id) == id \in keys

\* DecryptWith: the key is resolved by id, and the context must be the same.
Opens(cell, keys, aad) == ByID(keys, cell.key) /\ cell.aad = aad

(* encryptor.encrypt, for the policy p and the current key.                *)

enabled(p) == p.mode # ""
isEncryptedField(p, f) ==
    CASE p.mode = "fields" -> f \in p.set
      [] p.mode = "record" -> f # KeyField /\ f \notin p.set
      [] OTHER -> FALSE

Part(doc, F) == [f \in F \cap DOMAIN doc |-> doc[f]]

\* Record mode reserves secure_data.
Refused(p, doc) == p.mode = "record" /\ secureDataField \in DOMAIN doc

encryptFields(p, key, doc) ==
    [f \in DOMAIN doc |->
        IF f \in p.set THEN seal(key, f, Part(doc, {f})) ELSE Plain(Part(doc, {f}))]

encryptRecord(p, key, doc) ==
    LET hidden == {f \in DOMAIN doc : isEncryptedField(p, f)} IN
    [f \in (DOMAIN doc \ hidden) \cup {secureDataField} |->
        IF f = secureDataField THEN seal(key, f, Part(doc, hidden))
                               ELSE Plain(Part(doc, {f}))]

encrypt(p, key, doc) ==
    CASE p.mode = "fields" -> encryptFields(p, key, doc)
      [] p.mode = "record" -> encryptRecord(p, key, doc)
      [] OTHER -> [f \in DOMAIN doc |-> Plain(Part(doc, {f}))]

-----------------------------------------------------------------------------
(* encryptor.materialize: driven by the read mode and by the marker of each *)
(* cell, never by the policy in force.  F = {} asks for the whole record.   *)

Failed == [ok |-> FALSE, data |-> <<>>]
Read(part) == [ok |-> TRUE, data |-> part]

maybeDecryptValue(cell, keys, f) == ~cell.env \/ Opens(cell, keys, f)

Columns(stored, F) == [f \in F \cap DOMAIN stored |-> stored[f].data[f]]

materializeFields(stored, keys, F) ==
    LET want == IF F = {} THEN DOMAIN stored ELSE F \cap DOMAIN stored IN
    IF \A f \in want : maybeDecryptValue(stored[f], keys, f)
      THEN Read(Columns(stored, want \cup {KeyField}))
      ELSE Failed

decryptBlob(stored, keys) ==
    IF secureDataField \notin DOMAIN stored THEN Read(<<>>)
    ELSE LET blob == stored[secureDataField] IN
         CASE ~blob.env -> Read(<<>>)
           [] blob.env /\ Opens(blob, keys, secureDataField) -> Read(blob.data)
           [] OTHER -> Failed

\* Mutant: the blob is never opened.
materializeRecord_Columns(stored, keys, F) ==
    LET cols == DOMAIN stored \ {secureDataField}
        want == IF F = {} THEN cols ELSE F \cap cols
    IN  Read(Columns(stored, want \cup {KeyField}))

\* What the blob held is copied over the columns.
Over(f, g) == [x \in DOMAIN f \cup DOMAIN g |-> IF x \in DOMAIN f THEN f[x] ELSE g[x]]

\* A projection takes what it finds as a column and opens the blob only for
\* the rest.
materializeRecord(stored, keys, F) ==
    LET cols == DOMAIN stored \ {secureDataField}
        want == IF F = {} THEN cols ELSE F \cap cols
        out == Columns(stored, want \cup {KeyField})
        needBlob == F = {} \/ ~(F \ {KeyField}) \subseteq cols
        blob == decryptBlob(stored, keys)
        add == IF F = {} THEN blob.data ELSE Part(blob.data, F \ DOMAIN out)
    IN  IF ~needBlob THEN Read(out)
        ELSE IF ~blob.ok THEN Failed
        ELSE Read(Over(add, out))

materialize(mode, stored, keys, F) ==
    IF mode = "record" THEN materializeRecord(stored, keys, F)
                       ELSE materializeFields(stored, keys, F)

Reads(e, F) == materialize(enc.readMode, e.stored, ring, F)

-----------------------------------------------------------------------------
\* Where an entry is: in the active segment, in one of c.sealed, in a segment
\* that a swap dropped from c.sealed and left in the directory, or in such a
\* segment after a restart has listed it again.
Segments == {"active", "sealed", "dropped", "revived"}
Lost == {"dropped", "revived"}

Entry == [id: Ids, rev: 1..MaxRev, epoch: 0..MaxEpoch, seg: Segments]
Shape(e) == [id |-> e.id, rev |-> e.rev, epoch |-> e.epoch, seg |-> e.seg]

Policy == Policies \cup {Off}
encryptor == [epoch: 0..MaxEpoch, readMode: {"", "fields", "record"},
              policy: Policy]

\* Entries, policies, keys and passes have their types.
TypeOK ==
    /\ enc \in encryptor /\ adm \in {Nil} \cup encryptor
    /\ meta.enc \in encryptor /\ meta.key \in 0..MaxKey
    /\ ring \subseteq Key /\ current \in ring
    /\ \A e \in log : Shape(e) \in Entry
    /\ rev \in 0..MaxRev /\ migrated \in 0..MaxEpoch
    /\ mig \in [at: {"idle", "rotated", "merging"}, epoch: 0..MaxEpoch]
    /\ up \in BOOLEAN /\ crashes \in 0..MaxCrashes

Init ==
    /\ setting \in DOMAIN Settings
    /\ enc = Nil /\ meta = [enc |-> Nil, key |-> 0] /\ adm = Nil
    /\ ring = Key /\ current = 1
    /\ log = {} /\ rev = 0 /\ write = NoWrite
    /\ pass = NoPass /\ mig = NoMig /\ migrated = 0
    /\ up = TRUE /\ crashes = 0

keys_ == <<ring, current>>
admin == <<enc, meta, adm>>
compaction == <<pass, mig, migrated>>

-----------------------------------------------------------------------------
(* Writes.                                                                 *)

\* sealEntryData, called before c.mu is taken: the policy, its epoch and the
\* current key are read here.
sealEntryData(id, doc) ==
    /\ up /\ write = NoWrite /\ rev < MaxRev
    /\ ~Refused(enc.policy, doc)
    /\ write' = {[id |-> id, doc |-> doc, epoch |-> enc.epoch,
                  stored |-> encrypt(enc.policy, current, doc)]}
    /\ UNCHANGED <<admin, keys_, log, rev, compaction, up, crashes, setting>>

Moved(es, from, to) == {IF e.seg \in from THEN [e EXCEPT !.seg = to] ELSE e : e \in es}
Sealed(es) == Moved(es, {"active"}, "sealed")

\* The sealed entry is appended under c.mu; a full segment is rotated.
Append(full) ==
    /\ up
    /\ \E x \in write :
          LET e == [id |-> x.id, rev |-> rev + 1, doc |-> x.doc,
                    stored |-> x.stored, epoch |-> x.epoch, seg |-> "active"]
          IN  log' = IF full THEN Sealed(log \cup {e}) ELSE log \cup {e}
    /\ rev' = rev + 1 /\ write' = NoWrite
    /\ UNCHANGED <<admin, keys_, compaction, up, crashes, setting>>

-----------------------------------------------------------------------------
(* Admin calls, serialised by encAdminMu.                                  *)

PolicyAccepted(p) == enc.epoch = 0 \/ p.mode = enc.readMode

\* The block is durable before the encryptor is swapped; readMode is fixed by
\* the first policy.
applyEncryptionChange(mode, p, key) ==
    /\ up /\ adm = Nil /\ enc.epoch < MaxEpoch
    /\ adm' = [epoch |-> enc.epoch + 1, readMode |-> mode, policy |-> p]
    /\ meta' = [enc |-> adm', key |-> key]
    /\ UNCHANGED <<enc, keys_, log, rev, write, compaction, up, crashes, setting>>

SetEncryptionPolicy(p) ==
    /\ PolicyAccepted(p)
    /\ applyEncryptionChange(p.mode, p, IF enc.epoch = 0 THEN current ELSE meta.key)

Disable ==
    /\ enc.epoch > 0 /\ enabled(enc.policy)
    /\ applyEncryptionChange(enc.readMode, Off, meta.key)

RotateKey ==
    /\ enc.epoch > 0
    /\ applyEncryptionChange(enc.readMode, enc.policy, current)

SwapEncryptor ==
    /\ up /\ adm # Nil
    /\ enc' = adm /\ adm' = Nil
    /\ UNCHANGED <<meta, keys_, log, rev, write, compaction, up, crashes, setting>>

\* The operator promotes a newer key on the provider ...
SetCurrent(k) ==
    /\ k \in ring /\ k > current
    /\ current' = k
    /\ UNCHANGED <<admin, ring, log, rev, write, compaction, up, crashes, setting>>

\* ... and drops older keys once RotateKey and MigrateNow have returned.
RetireKeys ==
    /\ up /\ adm = Nil /\ enc.epoch > 0
    /\ meta.key = current /\ migrated = enc.epoch
    /\ ring' = {k \in ring : k >= current} /\ ring' # ring
    /\ UNCHANGED <<admin, current, log, rev, write, compaction, up, crashes, setting>>

-----------------------------------------------------------------------------
(* Compaction and migration.                                               *)

Latest(es) == {e \in es : \A d \in es : d.id = e.id => d.rev <= e.rev}
Live == Latest({e \in log : e.seg # "dropped"})
InSealed == {e \in log : e.seg \in {"sealed", "revived"}}

\* The progress of a migration, from the index alone.
countAtEpoch(epoch) == [total |-> Cardinality(Live),
                        at |-> Cardinality({e \in Live : e.epoch = epoch})]

EncryptionStatus ==
    LET n == countAtEpoch(enc.epoch) IN
    [configured |-> enc # Nil, enabled |-> enabled(enc.policy),
     functionalComplete |-> enc = Nil \/ n.total = n.at]

\* Mutant: the epoch is stamped and the stored form kept.
reencrypt_Forgets(e) ==
    [e EXCEPT !.epoch = enc.epoch]

reencrypt(e) ==
    LET pt == materialize(enc.readMode, e.stored, ring, {}) IN
    [e EXCEPT !.epoch = enc.epoch,
              !.stored = encrypt(enc.policy, current, pt.data)]

CanReencrypt(e) == e.epoch = enc.epoch \/ Reads(e, {}).ok

reencryptForMigration(es) ==
    {IF e.epoch = enc.epoch THEN e ELSE reencrypt(e) : e \in es}

\* Some sealed entry is not the one the index points at; how many it takes is
\* configured.
isDirty == ~(InSealed \subseteq Live)

\* Mutant: a pending migration starts no pass.
migrationPendingIn_Off == FALSE

migrationPendingIn == \E e \in InSealed \cap Live : e.epoch # enc.epoch

PassRefused == \E e \in Latest(InSealed) : ~CanReencrypt(e)

\* Steps 1 to 4 of compact: the newest sealed entry of each id, brought to the
\* current policy; a key that cannot be resolved aborts the pass.
Begin ==
    /\ up /\ ~pass.on /\ InSealed # {} /\ ~PassRefused
    /\ pass' = [on |-> TRUE, from |-> InSealed,
                to |-> Moved(reencryptForMigration(Latest(InSealed)),
                             {"revived"}, "sealed")]

CompactDirty ==
    /\ isDirty /\ Begin
    /\ UNCHANGED <<admin, keys_, log, rev, write, mig, migrated, up, crashes, setting>>

CompactPending ==
    /\ migrationPendingIn /\ Begin
    /\ UNCHANGED <<admin, keys_, log, rev, write, mig, migrated, up, crashes, setting>>

\* CompactNow asks neither for dirt nor for a pending migration.
CompactNow ==
    /\ Begin
    /\ UNCHANGED <<admin, keys_, log, rev, write, mig, migrated, up, crashes, setting>>

\* The swap replaces c.sealed by what the pass wrote: the segments of its
\* snapshot are gone, and one sealed since is dropped, its file left behind.
\* MigrateNow then returns.
Swap ==
    /\ up /\ pass.on
    /\ log' = Moved(log \ pass.from, {"sealed"}, "dropped") \cup pass.to
    /\ pass' = NoPass
    /\ mig' = IF mig.at = "merging" THEN NoMig ELSE mig
    /\ migrated' = IF mig.at = "merging" THEN mig.epoch ELSE migrated
    /\ UNCHANGED <<admin, keys_, rev, write, up, crashes, setting>>

\* Mutant: the active segment is not sealed first.
MigrateNow_KeepsActive ==
    /\ up /\ mig = NoMig /\ enc.epoch > 0 /\ log # {}
    /\ Quiet => write = NoWrite
    /\ mig' = [at |-> "rotated", epoch |-> enc.epoch]
    /\ UNCHANGED <<admin, keys_, log, rev, write, pass, migrated, up, crashes, setting>>

\* MigrateNow seals the active segment first.
MigrateNow ==
    /\ up /\ mig = NoMig /\ enc.epoch > 0 /\ log # {}
    /\ Quiet => write = NoWrite
    /\ log' = Sealed(log)
    /\ mig' = [at |-> "rotated", epoch |-> enc.epoch]
    /\ UNCHANGED <<admin, keys_, rev, write, pass, migrated, up, crashes, setting>>

MigrateCompact ==
    /\ mig.at = "rotated" /\ Begin
    /\ mig' = [mig EXCEPT !.at = "merging"]
    /\ UNCHANGED <<admin, keys_, log, rev, write, migrated, up, crashes, setting>>

-----------------------------------------------------------------------------
(* Restarts.                                                               *)

Crash ==
    /\ up /\ crashes < MaxCrashes /\ crashes' = crashes + 1
    /\ up' = FALSE
    /\ write' = NoWrite /\ pass' = NoPass /\ mig' = NoMig /\ adm' = Nil
    /\ UNCHANGED <<enc, meta, keys_, log, rev, migrated, setting>>

\* initEncryption verifies the provider's current key against the key-check;
\* load lists every segment file, a dropped one included.
initEncryption(k) ==
    /\ ~up /\ k \in ring
    /\ meta.enc.epoch > 0 => k = meta.key
    /\ current' = k /\ enc' = meta.enc /\ up' = TRUE
    /\ log' = Moved(log, {"dropped"}, "revived")
    /\ UNCHANGED <<meta, adm, ring, rev, write, compaction, crashes, setting>>

Next ==
    \/ \E id \in Ids, doc \in Docs : sealEntryData(id, doc)
    \/ \E full \in BOOLEAN : Append(full)
    \/ \E p \in Policies : SetEncryptionPolicy(p)
    \/ Disable \/ RotateKey \/ SwapEncryptor
    \/ \E k \in Key : SetCurrent(k) \/ initEncryption(k)
    \/ RetireKeys
    \/ CompactDirty \/ CompactPending \/ CompactNow \/ Swap \/ MigrateNow \/ MigrateCompact
    \/ Crash

Spec == Init /\ [][Next]_vars

\* The compactor's ticker keeps firing, its passes end, an admin call returns,
\* a migration under way goes on, and a stopped program is started again.
FairSpec ==
    /\ Spec
    /\ WF_vars(CompactPending) /\ WF_vars(Swap) /\ WF_vars(SwapEncryptor)
    /\ WF_vars(MigrateCompact) /\ WF_vars(\E k \in Key : initEncryption(k))

-----------------------------------------------------------------------------
(* Properties.                                                             *)

\* A live record, and every projection of it, reads back as the caller wrote
\* it, wherever each field happens to be stored, under every history of
\* policies, half-finished migrations, key rotations, retired keys and restarts
\* (materialize is "policy-independent", encryption.go:251-254, 317-322).  An
\* entry that a swap had dropped and a restart brought back may be refused,
\* since its key may have been retired, but is not misread.
ReadsBack ==
    up => \A e \in Live :
             LET refusal == IF e.seg \in Lost THEN {Failed} ELSE {} IN
             /\ Reads(e, {}) \in {Read(e.doc)} \cup refusal
             /\ \A F \in (SUBSET DOMAIN e.doc) \ {{}} :
                   Reads(e, F) \in {Read(Part(e.doc, F \cup {KeyField}))} \cup refusal

\* Once every live record is at the current epoch (EncryptionStatus reports
\* FunctionalComplete), every field a filter is allowed on is stored in
\* plaintext, so filters on stored data miss nothing.
QueriesSeePlaintext ==
    (up /\ EncryptionStatus.functionalComplete) =>
        \A e \in Live : \A f \in DOMAIN e.doc :
            ~isEncryptedField(enc.policy, f) =>
                f \in DOMAIN e.stored /\ e.stored[f] = Plain(Part(e.doc, {f}))

\* When MigrateNow has returned for the current policy, no entry of an older
\* epoch is left in any segment, live or superseded (compactor.go:231-233),
\* provided no write was in flight when it was called; all that can be left are
\* segments that a swap dropped, which no pass rewrites before a restart.
MigrationComplete ==
    (Quiet /\ up /\ enc.epoch > 0 /\ migrated = enc.epoch) =>
        \A e \in log : e.epoch = enc.epoch \/ e.seg \in Lost

\* Records in sealed segments reach the current policy without an operator:
\* a pending migration alone starts a background pass (compactor.go:99-105),
\* unless each pass is refused because the key of an entry has been retired.
SealedReachPolicy ==
    <>[](PassRefused \/ \A e \in InSealed \cap Live : e.epoch = enc.epoch)

-----------------------------------------------------------------------------
(* Not invariants of the code: TLC finds each of these violated on the     *)
(* instance of the run.                                                     *)

\* Whatever field a filter is allowed on is plaintext in every live record,
\* at every moment.
QueriesGated ==
    up => \A e \in Live : \A f \in DOMAIN e.doc :
             ~isEncryptedField(enc.policy, f) =>
                 f \in DOMAIN e.stored /\ ~e.stored[f].env

\* Once MigrateNow has returned "no stale old-form bytes remain".
MigrationPurges ==
    (Quiet /\ up /\ enc.epoch > 0 /\ migrated = enc.epoch) =>
        \A e \in log : e.epoch = enc.epoch

\* After MigrateNow "an old key can be retired": no record becomes unreadable.
RetiredKeysUnneeded ==
    up => \A e \in Live : Reads(e, {}).ok
=============================================================================

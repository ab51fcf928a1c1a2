-------------------------- MODULE EncryptionProofs --------------------------
(***************************************************************************)
(* Proofs about Encryption: what a completed migration leaves behind, that *)
(* every stored form reads back, and that filters see plaintext.           *)
(***************************************************************************)
EXTENDS Encryption, FiniteSetTheorems, TLAPS

-----------------------------------------------------------------------------
(* What the stored form of a document is, and how it reads back.           *)

\* A disabled policy names no mode (Disable).
LEMMA OffMode == Off.mode = ""
  BY Zenon DEF Off

\* Over the columns of a document, Part keeps the values (encryptor.encrypt).
LEMMA PartValue ==
    ASSUME NEW doc, NEW F, NEW f \in F \cap DOMAIN doc
    PROVE  Part(doc, F)[f] = doc[f]
  BY Zenon DEF Part

\* ... and has the columns asked for that the document has.
LEMMA PartDomain ==
    ASSUME NEW doc, NEW F
    PROVE  DOMAIN Part(doc, F) = F \cap DOMAIN doc
  BY Zenon DEF Part

\* A cell in plaintext holds its part as it is (encryption.go:174-191).
LEMMA PlainCell == \A d : Plain(d).data = d /\ ~Plain(d).env
  BY Zenon DEF Plain

\* Field mode and a disabled policy keep one cell per field; the cell holds the
\* field, sealed for the context that reads it (encryption.go:174-191).
FieldCells(s, doc, p, k) ==
    /\ DOMAIN s = DOMAIN doc
    /\ \A f \in DOMAIN doc :
          /\ s[f].data = Part(doc, {f})
          /\ s[f].env => s[f].key = k /\ s[f].aad = f
          /\ ~isEncryptedField(p, f) => s[f] = Plain(Part(doc, {f}))

\* encryptFields and a disabled policy leave such cells.
LEMMA FieldForm ==
    ASSUME NEW doc, NEW p, NEW k, p.mode # "record"
    PROVE  FieldCells(encrypt(p, k, doc), doc, p, k)
<1> DEFINE s == encrypt(p, k, doc)
<1> HIDE DEF s
<1>0. SUFFICES FieldCells(s, doc, p, k) BY Zenon DEF s
<1>1. CASE p.mode = "fields"
  <2>1. s = [f \in DOMAIN doc |->
              IF f \in p.set THEN seal(k, f, Part(doc, {f}))
                             ELSE Plain(Part(doc, {f}))]
    BY <1>1, Zenon DEF s, encrypt, encryptFields
  <2>2. ASSUME NEW f \in DOMAIN doc
        PROVE  /\ s[f].data = Part(doc, {f})
               /\ s[f].env => s[f].key = k /\ s[f].aad = f
               /\ ~isEncryptedField(p, f) => s[f] = Plain(Part(doc, {f}))
    <3>1. isEncryptedField(p, f) <=> f \in p.set
      BY <1>1, Zenon DEF isEncryptedField
    <3>2. f \in p.set => s[f] = seal(k, f, Part(doc, {f})) BY <2>1, Zenon
    <3>3. f \notin p.set => s[f] = Plain(Part(doc, {f})) BY <2>1, Zenon
    <3>4. \A d : /\ seal(k, f, d).data = d
                 /\ seal(k, f, d).key = k /\ seal(k, f, d).aad = f
      BY DEF seal
    <3>5. ~isEncryptedField(p, f) => s[f] = Plain(Part(doc, {f}))
      BY <3>1, <3>3, Zenon
    <3>6. s[f].data = Part(doc, {f}) BY ONLY <3>2, <3>3, <3>4, PlainCell
    <3>7. s[f].env => s[f].key = k /\ s[f].aad = f
      BY ONLY <3>2, <3>3, <3>4, PlainCell
    <3> QED BY <3>5, <3>6, <3>7, Zenon
  <2> QED BY <2>1, <2>2, Zenon DEF FieldCells
<1>2. CASE p.mode # "fields"
  <2>1. s = [f \in DOMAIN doc |-> Plain(Part(doc, {f}))]
    BY <1>2, Zenon DEF s, encrypt
  <2>2. ASSUME NEW f \in DOMAIN doc
        PROVE  /\ s[f] = Plain(Part(doc, {f}))
               /\ s[f].data = Part(doc, {f}) /\ ~s[f].env
    <3>1. s[f] = Plain(Part(doc, {f})) BY <2>1, Zenon
    <3> QED BY <3>1, PlainCell, Zenon
  <2> QED BY <2>1, <2>2, Zenon DEF FieldCells
<1> QED BY <1>1, <1>2, Zenon

\* Record mode keeps the columns in plaintext and seals the rest in one cell,
\* for the context that reads it (encryption.go:192-214).
Hidden(p, doc) == {f \in DOMAIN doc : isEncryptedField(p, f)}

RecordCells(s, doc, p, k) ==
    /\ DOMAIN s = (DOMAIN doc \ Hidden(p, doc)) \cup {secureDataField}
    /\ s[secureDataField] = seal(k, secureDataField, Part(doc, Hidden(p, doc)))
    /\ \A f \in DOMAIN doc \ Hidden(p, doc) : s[f] = Plain(Part(doc, {f}))

\* encryptRecord leaves such cells.
LEMMA RecordForm ==
    ASSUME NEW doc, NEW p, NEW k, p.mode = "record",
           secureDataField \notin DOMAIN doc
    PROVE  RecordCells(encrypt(p, k, doc), doc, p, k)
<1> DEFINE s == encrypt(p, k, doc)
<1>1. s = [f \in (DOMAIN doc \ Hidden(p, doc)) \cup {secureDataField} |->
            IF f = secureDataField THEN seal(k, f, Part(doc, Hidden(p, doc)))
                                   ELSE Plain(Part(doc, {f}))]
  BY Zenon DEF encrypt, encryptRecord, Hidden
<1> HIDE DEF s
<1>2. RecordCells(s, doc, p, k) BY <1>1, Zenon DEF RecordCells
<1> QED BY <1>2, Zenon DEF s

\* The whole of a document is itself.
LEMMA PartWhole ==
    ASSUME NEW doc \in Docs
    PROVE  \A F : DOMAIN doc \subseteq F => Part(doc, F) = doc
<1>1. doc = [f \in DOMAIN doc |-> doc[f]] BY DocsAssumption, Zenon
<1>2. SUFFICES ASSUME NEW F, DOMAIN doc \subseteq F PROVE Part(doc, F) = doc
  BY Zenon
<1>3. F \cap DOMAIN doc = DOMAIN doc BY <1>2, Zenon
<1>4. Part(doc, F) = [f \in DOMAIN doc |-> doc[f]] BY <1>3, Zenon DEF Part
<1> QED BY <1>1, <1>4, Zenon

\* What materializeFields makes of a record sealed under a field policy or
\* under none, with a key still in the ring (encryption.go:264-296).
LEMMA FieldsReadBack ==
    ASSUME NEW doc \in Docs, NEW p, NEW k, NEW s, NEW keys, k \in keys,
           FieldCells(s, doc, p, k)
    PROVE  /\ materializeFields(s, keys, {}) = Read(doc)
           /\ \A F \in SUBSET DOMAIN doc : F # {} =>
                 materializeFields(s, keys, F) = Read(Part(doc, F \cup {KeyField}))
<1>1. /\ DOMAIN s = DOMAIN doc
      /\ \A f \in DOMAIN doc : /\ s[f].data = Part(doc, {f})
                               /\ s[f].env => s[f].key = k /\ s[f].aad = f
  BY Zenon DEF FieldCells
<1>2. ASSUME NEW f \in DOMAIN doc
      PROVE  maybeDecryptValue(s[f], keys, f) /\ s[f].data[f] = doc[f]
  <2>1. s[f].env => s[f].key = k /\ s[f].aad = f BY <1>1, Zenon
  <2>2. s[f].data = Part(doc, {f}) BY <1>1, Zenon
  <2>3. Part(doc, {f})[f] = doc[f] BY PartValue, Zenon
  <2>4. maybeDecryptValue(s[f], keys, f)
    BY <2>1, Zenon DEF maybeDecryptValue, Opens, ByID
  <2> QED BY <2>2, <2>3, <2>4, Zenon
<1>3. ASSUME NEW W PROVE Columns(s, W) = Part(doc, W)
  <2>1. Columns(s, W) = [f \in W \cap DOMAIN doc |-> s[f].data[f]]
    BY <1>1, Zenon DEF Columns
  <2> QED BY <1>2, <2>1, Zenon DEF Part
<1>4. materializeFields(s, keys, {}) = Read(doc)
  <2>1. materializeFields(s, keys, {}) = Read(Columns(s, DOMAIN s \cup {KeyField}))
    BY <1>1, <1>2, Zenon DEF materializeFields
  <2>2. Part(doc, DOMAIN s \cup {KeyField}) = doc BY <1>1, PartWhole, Zenon
  <2> QED BY <1>3, <2>1, <2>2, Zenon
<1>5. ASSUME NEW F \in SUBSET DOMAIN doc, F # {}
      PROVE  materializeFields(s, keys, F) = Read(Part(doc, F \cup {KeyField}))
  <2>1. materializeFields(s, keys, F)
          = Read(Columns(s, (F \cap DOMAIN s) \cup {KeyField}))
    BY <1>1, <1>2, <1>5, Zenon DEF materializeFields
  <2>2. (F \cap DOMAIN s) \cup {KeyField} = F \cup {KeyField} BY <1>1, Zenon
  <2> QED BY <1>3, <2>1, <2>2, Zenon
<1> QED BY <1>4, <1>5, Zenon

\* A record whose columns C hold their fields and whose blob holds the others.
RecordParts(s, doc, keys, C) ==
    LET blob == decryptBlob(s, keys) IN
    /\ C \subseteq DOMAIN doc /\ DOMAIN s \ {secureDataField} = C
    /\ KeyField \in DOMAIN doc => KeyField \in C
    /\ \A f \in C : s[f].data[f] = doc[f]
    /\ blob.ok /\ DOMAIN blob.data = DOMAIN doc \ C
    /\ \A f \in DOMAIN doc \ C : blob.data[f] = doc[f]

\* What materializeRecord makes of such a record, in full and projected
\* (encryption.go:298-356).
LEMMA PartsReadBack ==
    ASSUME NEW doc \in Docs, NEW s, NEW keys, NEW C, RecordParts(s, doc, keys, C)
    PROVE  /\ materializeRecord(s, keys, {}) = Read(doc)
           /\ \A F \in SUBSET DOMAIN doc : F # {} =>
                 materializeRecord(s, keys, F) = Read(Part(doc, F \cup {KeyField}))
<1> DEFINE blob == decryptBlob(s, keys)
           D == blob.data
<1>1. /\ C \subseteq DOMAIN doc /\ DOMAIN s \ {secureDataField} = C
      /\ KeyField \in DOMAIN doc => KeyField \in C
      /\ \A f \in C : s[f].data[f] = doc[f]
      /\ blob.ok /\ DOMAIN D = DOMAIN doc \ C
      /\ \A f \in DOMAIN doc \ C : D[f] = doc[f]
  BY Zenon DEF RecordParts
<1>2. doc = [f \in DOMAIN doc |-> doc[f]] BY DocsAssumption, Zenon
<1>3. KeyField # secureDataField BY Zenon DEF KeyField, secureDataField
<1> HIDE DEF blob
<1>4. ASSUME NEW W, W \subseteq C \cup {KeyField}
      PROVE  Columns(s, W) = [f \in W \cap C |-> doc[f]]
  <2>1. W \cap DOMAIN s = W \cap C BY <1>1, <1>3, <1>4, Zenon
  <2>2. Columns(s, W) = [f \in W \cap C |-> s[f].data[f]]
    BY <2>1, Zenon DEF Columns
  <2> QED BY <1>1, <2>2, Zenon
<1>5. materializeRecord(s, keys, {}) = Read(doc)
  <2> DEFINE out == [f \in (C \cup {KeyField}) \cap C |-> doc[f]]
  <2>1. Columns(s, C \cup {KeyField}) = out BY <1>4, Zenon
  <2>2. materializeRecord(s, keys, {}) = Read(Over(D, Columns(s, C \cup {KeyField})))
    BY <1>1, Zenon DEF materializeRecord, blob
  <2>3. Over(D, out) = [f \in DOMAIN doc |-> doc[f]]
    <3>1. DOMAIN D \cup DOMAIN out = DOMAIN doc BY <1>1, Zenon
    <3>2. Over(D, out) = [f \in DOMAIN doc |-> IF f \in DOMAIN D THEN D[f] ELSE out[f]]
      BY <3>1, Zenon DEF Over
    <3>3. \A f \in DOMAIN doc : (IF f \in DOMAIN D THEN D[f] ELSE out[f]) = doc[f]
      BY <1>1, Zenon
    <3> QED BY <3>2, <3>3, Zenon
  <2> QED BY <1>2, <2>1, <2>2, <2>3, Zenon
<1>6. ASSUME NEW F \in SUBSET DOMAIN doc, F # {}
      PROVE  materializeRecord(s, keys, F) = Read(Part(doc, F \cup {KeyField}))
  <2> DEFINE W == (F \cap C) \cup {KeyField}
             out == [f \in W \cap C |-> doc[f]]
             add == Part(D, F \ DOMAIN out)
  <2>1. Columns(s, W) = out BY <1>4, Zenon
  <2>2. Part(doc, F \cup {KeyField})
          = [f \in (F \cup {KeyField}) \cap DOMAIN doc |-> doc[f]]
    BY Zenon DEF Part
  <2>3. CASE (F \ {KeyField}) \subseteq C
    <3>1. materializeRecord(s, keys, F) = Read(Columns(s, W))
      BY <1>1, <1>6, <2>3, Zenon DEF materializeRecord
    <3>2. (F \cup {KeyField}) \cap DOMAIN doc = W \cap C BY <1>1, <2>3, Zenon
    <3> QED BY <2>1, <2>2, <3>1, <3>2, Zenon
  <2>4. CASE ~(F \ {KeyField}) \subseteq C
    <3>1. materializeRecord(s, keys, F) = Read(Over(add, Columns(s, W)))
      BY <1>1, <1>6, <2>1, <2>4, Zenon DEF materializeRecord, blob
    <3>2. DOMAIN add = (F \ (W \cap C)) \cap (DOMAIN doc \ C)
      <4>1. DOMAIN out = W \cap C OBVIOUS
      <4>2. DOMAIN add = (F \ DOMAIN out) \cap DOMAIN D BY PartDomain, Zenon
      <4>3. DOMAIN D = DOMAIN doc \ C BY <1>1, Zenon
      <4> QED BY ONLY <4>1, <4>2, <4>3, Zenon
    <3>3. \A f \in DOMAIN add : add[f] = doc[f]
      BY <1>1, <3>2, Zenon DEF Part
    <3>4. DOMAIN add \cup DOMAIN out = (F \cup {KeyField}) \cap DOMAIN doc
      <4>1. DOMAIN out = W \cap C OBVIOUS
      <4>2. C \subseteq DOMAIN doc /\ (KeyField \in DOMAIN doc => KeyField \in C)
        BY <1>1, Zenon
      <4>3. F \subseteq DOMAIN doc OBVIOUS
      <4> HIDE DEF out, add
      <4> QED BY ONLY <3>2, <4>1, <4>2, <4>3
    <3> HIDE DEF add
    <3>5. Over(add, out) = [f \in (F \cup {KeyField}) \cap DOMAIN doc |->
                              IF f \in DOMAIN add THEN add[f] ELSE out[f]]
      BY <3>4, Zenon DEF Over
    <3>6. \A f \in (F \cup {KeyField}) \cap DOMAIN doc :
              (IF f \in DOMAIN add THEN add[f] ELSE out[f]) = doc[f]
      BY <3>3, <3>4, Zenon
    <3> QED BY <2>1, <2>2, <3>1, <3>5, <3>6, Zenon
  <2> QED BY <2>3, <2>4, Zenon
<1> QED BY <1>5, <1>6, Zenon

\* A successful materialize returns the document with no error.
LEMMA ReadOk == \A d : Read(d).ok /\ Read(d).data = d
  BY Zenon DEF Read

\* A record-mode record with a key in the ring is in parts ...
LEMMA RecordFormParts ==
    ASSUME NEW doc \in Docs, NEW p, NEW k, NEW keys, k \in keys, p.mode = "record"
    PROVE  RecordParts(encrypt(p, k, doc), doc, keys, DOMAIN doc \ Hidden(p, doc))
<1> DEFINE s == encrypt(p, k, doc)
           H == Hidden(p, doc)
           C == DOMAIN doc \ H
<1>1. secureDataField \notin DOMAIN doc BY DocsAssumption, Zenon
<1>2. RecordCells(s, doc, p, k) BY <1>1, RecordForm, Zenon
<1> HIDE DEF s
<1>3. /\ DOMAIN s = C \cup {secureDataField}
      /\ s[secureDataField] = seal(k, secureDataField, Part(doc, H))
      /\ \A f \in C : s[f] = Plain(Part(doc, {f}))
  BY <1>2, Zenon DEF RecordCells
<1>4. DOMAIN s \ {secureDataField} = C BY <1>1, <1>3, Zenon
<1>5. H \subseteq DOMAIN doc BY Zenon DEF Hidden
<1>6. KeyField \notin H BY Zenon DEF Hidden, isEncryptedField
<1>7. ASSUME NEW f \in C PROVE s[f].data[f] = doc[f]
  <2>1. s[f].data = Part(doc, {f}) BY <1>3, PlainCell, Zenon
  <2>2. Part(doc, {f})[f] = doc[f] BY PartValue, Zenon
  <2> QED BY <2>1, <2>2, Zenon
<1>8. decryptBlob(s, keys) = Read(Part(doc, H))
  <2> DEFINE b == s[secureDataField]
  <2>1. b.env /\ b.key = k /\ b.aad = secureDataField /\ b.data = Part(doc, H)
    BY ONLY <1>3 DEF seal
  <2>2. Opens(b, keys, secureDataField) BY <2>1, Zenon DEF Opens, ByID
  <2>3. secureDataField \in DOMAIN s BY <1>3, Zenon
  <2> QED BY <2>1, <2>2, <2>3, Zenon DEF decryptBlob
<1>9. DOMAIN Part(doc, H) = DOMAIN doc \ C
  <2>1. DOMAIN Part(doc, H) = H \cap DOMAIN doc BY PartDomain, Zenon
  <2> QED BY <1>5, <2>1, Zenon
<1>10. ASSUME NEW f \in DOMAIN doc \ C PROVE Part(doc, H)[f] = doc[f]
  BY PartValue, Zenon
<1>11. RecordParts(s, doc, keys, C)
  BY <1>4, <1>6, <1>7, <1>8, <1>9, <1>10, ReadOk, Zenon DEF RecordParts
<1> QED BY <1>11, Zenon DEF s

\* ... and so is a record in plaintext, all of it in columns.
LEMMA PlainFormParts ==
    ASSUME NEW doc \in Docs, NEW p, NEW k, NEW keys, p.mode = Off.mode
    PROVE  RecordParts(encrypt(p, k, doc), doc, keys, DOMAIN doc)
<1> DEFINE s == encrypt(p, k, doc)
<1>1. secureDataField \notin DOMAIN doc BY DocsAssumption, Zenon
<1>2. FieldCells(s, doc, p, k) BY OffMode, FieldForm, Zenon
<1> HIDE DEF s
<1>3. DOMAIN s = DOMAIN doc BY <1>2, Zenon DEF FieldCells
<1>4. ASSUME NEW f \in DOMAIN doc PROVE s[f].data[f] = doc[f]
  <2>1. s[f].data = Part(doc, {f}) BY <1>2, Zenon DEF FieldCells
  <2>2. Part(doc, {f})[f] = doc[f] BY PartValue, Zenon
  <2> QED BY <2>1, <2>2, Zenon
<1>5. decryptBlob(s, keys) = Read(<<>>) BY <1>1, <1>3, Zenon DEF decryptBlob
<1>6. DOMAIN <<>> = {} BY SMT
<1>7. decryptBlob(s, keys).ok /\ DOMAIN decryptBlob(s, keys).data = {}
  BY <1>5, <1>6, ReadOk, Zenon
<1>8. RecordParts(s, doc, keys, DOMAIN doc)
  BY <1>1, <1>3, <1>4, <1>7, Zenon DEF RecordParts
<1> QED BY <1>8, Zenon DEF s

\* What materialize makes of any stored form of the read mode, in full and
\* projected, is what the caller wrote (encryption.go:249-262).
LEMMA ReadBack ==
    ASSUME NEW doc \in Docs, NEW p, NEW k, NEW keys, k \in keys,
           NEW mode, p.mode \in {Off.mode, mode}
    PROVE  /\ materialize(mode, encrypt(p, k, doc), keys, {}) = Read(doc)
           /\ \A F \in SUBSET DOMAIN doc : F # {} =>
                 materialize(mode, encrypt(p, k, doc), keys, F)
                    = Read(Part(doc, F \cup {KeyField}))
<1> DEFINE s == encrypt(p, k, doc)
<1>1. CASE mode = "record"
  <2>1. \E C : RecordParts(s, doc, keys, C)
    BY <1>1, RecordFormParts, PlainFormParts, Zenon
  <2>2. PICK C : RecordParts(s, doc, keys, C) BY <2>1, Zenon
  <2>3. \A F : materialize(mode, s, keys, F) = materializeRecord(s, keys, F)
    BY <1>1, Zenon DEF materialize
  <2> HIDE DEF s
  <2>4. /\ materializeRecord(s, keys, {}) = Read(doc)
        /\ \A F \in SUBSET DOMAIN doc : F # {} =>
              materializeRecord(s, keys, F) = Read(Part(doc, F \cup {KeyField}))
    BY ONLY <2>2, PartsReadBack, doc \in Docs
  <2>5. /\ materialize(mode, s, keys, {}) = Read(doc)
        /\ \A F \in SUBSET DOMAIN doc : F # {} =>
              materialize(mode, s, keys, F) = Read(Part(doc, F \cup {KeyField}))
    BY <2>3, <2>4, Zenon
  <2> QED BY <2>5, Zenon DEF s
<1>2. CASE mode # "record"
  <2>1. p.mode # "record" BY <1>2, OffMode, Zenon
  <2>2. FieldCells(s, doc, p, k) BY <2>1, FieldForm, Zenon
  <2>3. \A F : materialize(mode, s, keys, F) = materializeFields(s, keys, F)
    BY <1>2, Zenon DEF materialize
  <2> HIDE DEF s
  <2>4. /\ materializeFields(s, keys, {}) = Read(doc)
        /\ \A F \in SUBSET DOMAIN doc : F # {} =>
              materializeFields(s, keys, F) = Read(Part(doc, F \cup {KeyField}))
    BY ONLY <2>2, k \in keys, FieldsReadBack, doc \in Docs
  <2>5. /\ materialize(mode, s, keys, {}) = Read(doc)
        /\ \A F \in SUBSET DOMAIN doc : F # {} =>
              materialize(mode, s, keys, F) = Read(Part(doc, F \cup {KeyField}))
    BY <2>3, <2>4, Zenon
  <2> QED BY <2>5, Zenon DEF s
<1> QED BY <1>1, <1>2, Zenon

\* A read that fails returns no document.
LEMMA NotOk == ~Failed.ok
  BY Zenon DEF Failed

\* A key missing from the ring makes a read fail and never makes it return
\* something else (encryption.go:264-356).
LEMMA FewerKeys ==
    ASSUME NEW mode, NEW s, NEW keys, NEW more, keys \subseteq more, NEW F
    PROVE  \/ materialize(mode, s, keys, F) = Failed
           \/ materialize(mode, s, keys, F) = materialize(mode, s, more, F)
<1>1. \A c, a : Opens(c, keys, a) => Opens(c, more, a) BY Zenon DEF Opens, ByID
<1>2. CASE mode # "record"
  <2>1. \A c, f : maybeDecryptValue(c, keys, f) => maybeDecryptValue(c, more, f)
    BY <1>1, Zenon DEF maybeDecryptValue
  <2> DEFINE want == IF F = {} THEN DOMAIN s ELSE F \cap DOMAIN s
             out == Read(Columns(s, want \cup {KeyField}))
  <2>2. \A ks : materializeFields(s, ks, F)
                 = IF \A f \in want : maybeDecryptValue(s[f], ks, f) THEN out ELSE Failed
    BY Zenon DEF materializeFields
  <2> HIDE DEF want, out
  <2>3. \A ks : materialize(mode, s, ks, F) = materializeFields(s, ks, F)
    BY <1>2, Zenon DEF materialize
  <2> QED BY ONLY <2>1, <2>2, <2>3, Zenon
<1>3. CASE mode = "record"
  <2>1. decryptBlob(s, keys) = Failed \/ decryptBlob(s, keys) = decryptBlob(s, more)
    <3> DEFINE blob == s[secureDataField]
    <3>1. CASE secureDataField \notin DOMAIN s BY <3>1, Zenon DEF decryptBlob
    <3>2. CASE secureDataField \in DOMAIN s /\ ~blob.env
      BY <3>2, Zenon DEF decryptBlob
    <3>3. CASE /\ secureDataField \in DOMAIN s /\ blob.env
               /\ Opens(blob, keys, secureDataField)
      <4>1. Opens(blob, more, secureDataField) BY <1>1, <3>3, Zenon
      <4> QED BY <3>3, <4>1, Zenon DEF decryptBlob
    <3>4. CASE /\ secureDataField \in DOMAIN s /\ blob.env
               /\ ~Opens(blob, keys, secureDataField)
      BY <3>4, Zenon DEF decryptBlob
    <3> QED BY <3>1, <3>2, <3>3, <3>4, Zenon
  <2>2. ASSUME decryptBlob(s, keys) = decryptBlob(s, more)
        PROVE  materializeRecord(s, keys, F) = materializeRecord(s, more, F)
    BY <2>2, Zenon DEF materializeRecord
  <2>3. ASSUME decryptBlob(s, keys) = Failed
        PROVE  \/ materializeRecord(s, keys, F) = Failed
               \/ materializeRecord(s, keys, F) = materializeRecord(s, more, F)
    <3> DEFINE cols == DOMAIN s \ {secureDataField}
               need == F = {} \/ ~(F \ {KeyField}) \subseteq cols
    <3>1. ~decryptBlob(s, keys).ok BY <2>3, NotOk, Zenon
    <3>2. need => materializeRecord(s, keys, F) = Failed
      BY <3>1, Zenon DEF materializeRecord
    <3>3. ~need => materializeRecord(s, keys, F) = materializeRecord(s, more, F)
      BY Zenon DEF materializeRecord
    <3> QED BY ONLY <3>2, <3>3, Zenon
  <2>4. \A ks : materialize(mode, s, ks, F) = materializeRecord(s, ks, F)
    BY <1>3, Zenon DEF materialize
  <2> QED BY ONLY <2>1, <2>2, <2>3, <2>4, Zenon
<1> QED BY <1>2, <1>3, Zenon

-----------------------------------------------------------------------------
(* The inductive invariant.                                                *)

\* The block in memory is the persisted one, or one change behind it.
Epochs ==
    /\ setting \in DOMAIN Settings
    /\ up \in BOOLEAN
    /\ enc.epoch \in Nat
    /\ enc.epoch = 0 => enc = Nil
    /\ meta.enc = enc \/ meta.enc.epoch = enc.epoch + 1
    /\ (adm = Nil /\ up) => meta.enc = enc
    /\ adm # Nil => up /\ adm = meta.enc /\ adm.epoch = enc.epoch + 1
    /\ migrated \in Nat /\ migrated <= enc.epoch
    /\ mig.epoch \in Nat /\ mig.epoch <= enc.epoch
    /\ mig = [at |-> mig.at, epoch |-> mig.epoch]

\* An entry of a segment has all its parts.
IsEntry(e) ==
    /\ e = [id |-> e.id, rev |-> e.rev, doc |-> e.doc, stored |-> e.stored,
            epoch |-> e.epoch, seg |-> e.seg]
    /\ e.seg \in Segments

\* A pass reads sealed segments and writes sealed segments.
Entries ==
    /\ \A e \in log : IsEntry(e)
    /\ \A e \in pass.from : e.seg \in {"sealed", "revived"}
    /\ \A e \in pass.to : IsEntry(e) /\ e.seg = "sealed"
    /\ IsFiniteSet(log) /\ IsFiniteSet(pass.to)

\* What will be appended or swapped in.
Coming == write \cup pass.to

\* Two entries hold the same document in the same form.
Like(d, e) == d.doc = e.doc /\ d.stored = e.stored /\ d.epoch = e.epoch

\* An entry is at the epoch of the encryptor, or in a segment a swap dropped.
Done(e) == e.epoch = enc.epoch \/ e.seg \in Lost

\* The steps of MigrateNow: once it has sealed the active segment, whatever is
\* of an older epoch is in the snapshot of its pass or was dropped by a swap.
Migration ==
    /\ mig.at = "merging" => pass.on
    /\ Quiet =>
        /\ (enc.epoch > 0 /\ migrated = enc.epoch) =>
              /\ \A x \in Coming : x.epoch = enc.epoch
              /\ \A e \in log : Done(e)
        /\ (mig.at # "idle" /\ mig.epoch = enc.epoch) =>
              /\ \A x \in write : x.epoch = enc.epoch
              /\ \A e \in log : Done(e) \/ e.seg = "sealed"
        /\ (mig.at = "merging" /\ mig.epoch = enc.epoch) =>
              /\ \A e \in pass.to : e.epoch = enc.epoch
              /\ \A e \in log \ pass.from : Done(e)

MigInv == Epochs /\ Entries /\ Migration

\* The read mode is fixed by the first policy.
Modes ==
    /\ enc.policy \in Policy /\ meta.enc.policy \in Policy
    /\ enc.policy.mode \in {Off.mode, enc.readMode}
    /\ meta.enc.policy.mode \in {Off.mode, meta.enc.readMode}
    /\ enc.epoch > 0 => meta.enc.readMode = enc.readMode

\* The key of the key-check is the current one or was before it.
KeysInv ==
    /\ ring \subseteq Key /\ current \in ring
    /\ meta.key \in Nat /\ meta.key <= current
    /\ meta.enc.epoch = 0 => meta.key = 0

\* Whatever is stored was sealed under some policy of the fixed read mode; what
\* is at the current epoch, under the policy in force; what is at the persisted
\* epoch, not with a key older than its check.
SealedBy(x, p, k) ==
    /\ p.mode \in {Off.mode, enc.readMode}
    /\ x.stored = encrypt(p, k, x.doc)
    /\ x.epoch = enc.epoch => p = enc.policy
    /\ x.epoch = meta.enc.epoch => k >= meta.key

WellSealed(x) ==
    /\ x.doc \in Docs /\ x.epoch \in Nat /\ x.epoch <= enc.epoch
    /\ \E p \in Policy, k \in ring : SealedBy(x, p, k)

\* The key of an entry of an older epoch may have been retired.
OnceSealed(x) ==
    /\ x.doc \in Docs /\ x.epoch \in Nat /\ x.epoch <= enc.epoch
    /\ \E p \in Policy, k \in Key :
          SealedBy(x, p, k) /\ (x.epoch = enc.epoch => k \in ring)

\* Only an entry in a segment that a swap dropped can have lost its key.
Forms ==
    /\ \A x \in Coming : WellSealed(x)
    /\ \A e \in log : OnceSealed(e) /\ (e.seg \notin Lost => WellSealed(e))

FormInv == Modes /\ KeysInv /\ Forms

-----------------------------------------------------------------------------
(* Entries.                                                                *)

\* Moving an entry to another kind of segment changes nothing else of it.
LEMMA MovedEntry ==
    ASSUME NEW e, IsEntry(e), NEW to \in Segments
    PROVE  LET d == [e EXCEPT !.seg = to] IN
           /\ IsEntry(d) /\ d.seg = to
           /\ d.doc = e.doc /\ d.stored = e.stored /\ d.epoch = e.epoch
  BY DEF IsEntry

\* Re-encrypting an entry keeps its identity and brings it to the epoch of the
\* encryptor (encryption.go:234-247).
LEMMA ReencryptedEntry ==
    ASSUME NEW e, IsEntry(e)
    PROVE  /\ IsEntry(reencrypt(e)) /\ reencrypt(e).seg = e.seg
           /\ reencrypt(e).doc = e.doc /\ reencrypt(e).epoch = enc.epoch
           /\ reencrypt(e).stored
                 = encrypt(enc.policy, current,
                           materialize(enc.readMode, e.stored, ring, {}).data)
<1> DEFINE n == enc.epoch
           v == encrypt(enc.policy, current,
                        materialize(enc.readMode, e.stored, ring, {}).data)
           d == [e EXCEPT !.epoch = n, !.stored = v]
<1>1. reencrypt(e) = d BY Zenon DEF reencrypt
<1> HIDE DEF n, v
<1>2. /\ IsEntry(d) /\ d.seg = e.seg /\ d.doc = e.doc
      /\ d.epoch = n /\ d.stored = v
  <2>1. d = [id |-> e.id, rev |-> e.rev, doc |-> e.doc, stored |-> v,
             epoch |-> n, seg |-> e.seg]
    <3> DEFINE c == [e EXCEPT !.epoch = n]
    <3>1. d = [c EXCEPT !.stored = v] BY Zenon
    <3>2. c = [id |-> e.id, rev |-> e.rev, doc |-> e.doc, stored |-> e.stored,
               epoch |-> n, seg |-> e.seg]
      BY DEF IsEntry
    <3> HIDE DEF c, d
    <3> QED BY ONLY <3>1, <3>2
  <2> HIDE DEF d
  <2>2. /\ d.id = e.id /\ d.rev = e.rev /\ d.doc = e.doc /\ d.stored = v
        /\ d.epoch = n /\ d.seg = e.seg
    BY <2>1
  <2> QED BY <2>1, <2>2, Zenon DEF IsEntry
<1> HIDE DEF d
<1> QED BY <1>1, <1>2, Zenon DEF n, v

\* A rotation, a swap and a restart move finitely many entries (Moved).
LEMMA MovedFinite ==
    ASSUME NEW S, IsFiniteSet(S), NEW from, NEW to
    PROVE  IsFiniteSet(Moved(S, from, to))
<1> DEFINE f == [e \in S |-> IF e.seg \in from THEN [e EXCEPT !.seg = to] ELSE e]
<1>1. f \in Surjection(S, Moved(S, from, to)) BY Zenon DEF Surjection, Moved
<1> QED BY <1>1, FS_Surjection, Zenon

\* ... and leave each as it was or in the segment they move it to.
LEMMA MovedFacts ==
    ASSUME NEW S, \A e \in S : IsEntry(e), NEW from, NEW to \in Segments
    PROVE  \A d \in Moved(S, from, to) :
             /\ IsEntry(d)
             /\ \E e \in S : /\ Like(d, e)
                             /\ \/ e.seg \notin from /\ d = e
                                \/ e.seg \in from /\ d.seg = to
<1>1. SUFFICES ASSUME NEW d \in Moved(S, from, to)
               PROVE  /\ IsEntry(d)
                      /\ \E e \in S : /\ Like(d, e)
                                      /\ \/ e.seg \notin from /\ d = e
                                         \/ e.seg \in from /\ d.seg = to
  BY Zenon
<1>2. PICK e \in S : d = IF e.seg \in from THEN [e EXCEPT !.seg = to] ELSE e
  BY Zenon DEF Moved
<1>3. CASE e.seg \notin from
  <2>1. d = e BY <1>2, <1>3, Zenon
  <2> QED BY <1>3, <2>1, Zenon DEF Like
<1>4. CASE e.seg \in from
  <2>1. d = [e EXCEPT !.seg = to] BY <1>2, <1>4, Zenon
  <2>2. /\ IsEntry(d) /\ d.seg = to
        /\ d.doc = e.doc /\ d.stored = e.stored /\ d.epoch = e.epoch
    BY <2>1, MovedEntry, Zenon
  <2> QED BY <1>4, <2>2, Zenon DEF Like
<1> QED BY <1>3, <1>4, Zenon

\* A migration writes finitely many entries (reencryptForMigration).
LEMMA ReencryptedFinite ==
    ASSUME NEW S, IsFiniteSet(S)
    PROVE  IsFiniteSet(reencryptForMigration(S))
<1> DEFINE f == [e \in S |-> IF e.epoch = enc.epoch THEN e ELSE reencrypt(e)]
<1>1. f \in Surjection(S, reencryptForMigration(S))
  BY Zenon DEF Surjection, reencryptForMigration
<1> QED BY <1>1, FS_Surjection, Zenon

\* A new pass reads the sealed entries and writes sealed entries of the current
\* epoch, each copied or opened and sealed again (compactor.go:88-125).
LEMMA BeginFacts ==
    ASSUME Epochs, Entries, Begin
    PROVE  /\ pass'.on /\ pass'.from = InSealed
           /\ \A d \in pass'.to :
                 /\ IsEntry(d) /\ d.seg = "sealed" /\ d.epoch = enc.epoch
                 /\ \E e \in log : \/ e.epoch = enc.epoch /\ Like(d, e)
                                   \/ Reads(e, {}).ok /\ Like(d, reencrypt(e))
           /\ IsFiniteSet(pass'.to)
<1> DEFINE new == reencryptForMigration(Latest(InSealed))
<1>1. /\ pass'.on /\ pass'.from = InSealed
      /\ pass'.to = Moved(new, {"revived"}, "sealed")
  <2> DEFINE to == Moved(new, {"revived"}, "sealed")
  <2>1. pass' = [on |-> TRUE, from |-> InSealed, to |-> to] BY Zenon DEF Begin
  <2> HIDE DEF to
  <2>2. pass'.on /\ pass'.from = InSealed /\ pass'.to = to BY ONLY <2>1
  <2> QED BY <2>2, Zenon DEF to
<1>2. InSealed \subseteq log /\ Latest(InSealed) \subseteq InSealed
  BY Zenon DEF InSealed, Latest
<1>3. IsFiniteSet(pass'.to)
  <2>1. IsFiniteSet(Latest(InSealed)) BY <1>2, FS_Subset, Zenon DEF Entries
  <2> QED BY <1>1, <2>1, ReencryptedFinite, MovedFinite, Zenon
<1>4. ASSUME NEW c \in new
      PROVE  /\ IsEntry(c) /\ c.seg \in {"sealed", "revived"} /\ c.epoch = enc.epoch
             /\ \E e \in log : \/ e.epoch = enc.epoch /\ c = e
                               \/ Reads(e, {}).ok /\ c = reencrypt(e)
  <2>1. PICK e \in Latest(InSealed) :
               c = IF e.epoch = enc.epoch THEN e ELSE reencrypt(e)
    BY <1>4, Zenon DEF reencryptForMigration
  <2>2. e \in log /\ IsEntry(e) /\ e.seg \in {"sealed", "revived"}
    BY <1>2, Zenon DEF Entries, InSealed
  <2>3. e.epoch = enc.epoch \/ Reads(e, {}).ok
    BY Zenon DEF Begin, PassRefused, CanReencrypt
  <2>4. CASE e.epoch = enc.epoch
    BY <2>1, <2>2, <2>4, Zenon
  <2>5. CASE e.epoch # enc.epoch
    BY <2>1, <2>2, <2>3, <2>5, ReencryptedEntry, Zenon
  <2> QED BY <2>4, <2>5, Zenon
<1> HIDE DEF new
<1>5. ASSUME NEW d \in pass'.to
      PROVE  /\ IsEntry(d) /\ d.seg = "sealed" /\ d.epoch = enc.epoch
             /\ \E e \in log : \/ e.epoch = enc.epoch /\ Like(d, e)
                               \/ Reads(e, {}).ok /\ Like(d, reencrypt(e))
  <2>1. "sealed" \in Segments BY Zenon DEF Segments
  <2>2. \A c \in new : IsEntry(c) BY <1>4, Zenon
  <2>3. d \in Moved(new, {"revived"}, "sealed") BY <1>1, <1>5, Zenon
  <2>4. IsEntry(d) BY <2>1, <2>2, <2>3, MovedFacts, Zenon
  <2>5. PICK c \in new : /\ Like(d, c)
                         /\ \/ c.seg \notin {"revived"} /\ d = c
                            \/ c.seg \in {"revived"} /\ d.seg = "sealed"
    BY <2>1, <2>2, <2>3, MovedFacts, Zenon
  <2>6. d.seg = "sealed" BY <1>4, <2>5, Zenon
  <2>7. d.epoch = enc.epoch BY <1>4, <2>5, Zenon DEF Like
  <2>8. PICK e \in log : \/ e.epoch = enc.epoch /\ c = e
                         \/ Reads(e, {}).ok /\ c = reencrypt(e)
    BY <1>4, Zenon
  <2> QED BY <2>4, <2>5, <2>6, <2>7, <2>8, Zenon
<1> QED BY <1>1, <1>3, <1>5, Zenon

\* A pass that ends leaves none (Swap, Crash).
LEMMA NoPassFacts == ~NoPass.on /\ NoPass.from = {} /\ NoPass.to = {}
  BY DEF NoPass

\* A collection that never had a policy, and the migrator at rest.
LEMMA NilFacts == Nil.epoch = 0 /\ Nil.policy = Off /\ NoMig.at = "idle" /\ NoMig.epoch = 0
  BY Zenon DEF Nil, NoMig

\* What MigrateNow's and a full segment's rotation leave of the entries.
LEMMA SealedFacts ==
    ASSUME NEW S, \A e \in S : IsEntry(e)
    PROVE  \A d \in Sealed(S) :
             /\ IsEntry(d)
             /\ \E e \in S : /\ Like(d, e)
                             /\ \/ e.seg # "active" /\ d = e
                                \/ e.seg = "active" /\ d.seg = "sealed"
<1>1. "sealed" \in Segments BY Zenon DEF Segments
<1>2. \A x : x \in {"active"} <=> x = "active" BY Zenon
<1>3. \A d \in Moved(S, {"active"}, "sealed") :
         /\ IsEntry(d)
         /\ \E e \in S : /\ Like(d, e)
                         /\ \/ e.seg \notin {"active"} /\ d = e
                            \/ e.seg \in {"active"} /\ d.seg = "sealed"
  BY <1>1, MovedFacts, Zenon
<1>4. Sealed(S) = Moved(S, {"active"}, "sealed") BY Zenon DEF Sealed
<1> QED BY ONLY <1>2, <1>3, <1>4, ZenonT(30)

\* What an append does to the log: one entry more, and perhaps the active
\* segment sealed (collection.go:546-588).
LEMMA AppendFacts ==
    ASSUME Entries, NEW full \in BOOLEAN, Append(full)
    PROVE  /\ IsFiniteSet(log')
           /\ \E x \in write :
                \A d \in log' :
                  /\ IsEntry(d)
                  /\ \/ Like(d, x) /\ d.seg \notin Lost
                     \/ \E e \in log : /\ Like(d, e)
                                       /\ \/ d = e
                                          \/ e.seg = "active" /\ d.seg = "sealed"
<1>1. PICK x \in write :
        LET e == [id |-> x.id, rev |-> rev + 1, doc |-> x.doc,
                  stored |-> x.stored, epoch |-> x.epoch, seg |-> "active"]
        IN  log' = IF full THEN Sealed(log \cup {e}) ELSE log \cup {e}
  BY Zenon DEF Append
<1> DEFINE n == [id |-> x.id, rev |-> rev + 1, doc |-> x.doc,
                 stored |-> x.stored, epoch |-> x.epoch, seg |-> "active"]
<1>2. IsEntry(n) /\ n.seg = "active" /\ Like(n, x)
  BY Zenon DEF IsEntry, Like, Segments
<1>3. log' = IF full THEN Sealed(log \cup {n}) ELSE log \cup {n}
  BY <1>1, Zenon
<1> HIDE DEF n
<1>4. \A e \in log \cup {n} : IsEntry(e) BY <1>2, Zenon DEF Entries
<1>5. IsFiniteSet(log \cup {n}) BY FS_AddElement, Zenon DEF Entries
<1>6. IsFiniteSet(log') BY <1>3, <1>5, MovedFinite, Zenon DEF Sealed
<1>7. "active" \notin Lost /\ "sealed" \notin Lost BY Zenon DEF Lost
<1>8. ASSUME NEW d \in log'
      PROVE  /\ IsEntry(d)
             /\ \/ Like(d, x) /\ d.seg \notin Lost
                \/ \E e \in log : /\ Like(d, e)
                                  /\ \/ d = e
                                     \/ e.seg = "active" /\ d.seg = "sealed"
  <2>1. CASE full
    <3>1. d \in Sealed(log \cup {n}) BY <1>3, <1>8, <2>1, Zenon
    <3>2. /\ IsEntry(d)
          /\ \E e \in log \cup {n} :
                /\ Like(d, e)
                /\ \/ e.seg # "active" /\ d = e
                   \/ e.seg = "active" /\ d.seg = "sealed"
      BY <1>4, <3>1, SealedFacts, Zenon
    <3>3. PICK e \in log \cup {n} :
                /\ Like(d, e)
                /\ \/ e.seg # "active" /\ d = e
                   \/ e.seg = "active" /\ d.seg = "sealed"
      BY <3>2, Zenon
    <3>4. CASE e = n
      <4>1. d.seg = "sealed" BY <1>2, <3>3, <3>4, Zenon
      <4>2. Like(d, x) BY <1>2, <3>3, <3>4, Zenon DEF Like
      <4> QED BY <1>7, <3>2, <4>1, <4>2, Zenon
    <3>5. CASE e \in log BY <3>2, <3>3, <3>5, Zenon
    <3> QED BY <3>4, <3>5, Zenon
  <2>2. CASE ~full
    <3>1. d \in log \cup {n} BY <1>3, <1>8, <2>2, Zenon
    <3>2. CASE d = n BY <1>2, <1>7, <3>2, Zenon
    <3>3. CASE d \in log BY <1>4, <3>3, Zenon DEF Like
    <3> QED BY <3>1, <3>2, <3>3, Zenon
  <2> QED BY <2>1, <2>2, Zenon
<1> QED BY <1>6, <1>8, Zenon

-----------------------------------------------------------------------------
(* What a migration leaves behind.                                         *)

\* A new collection has nothing to migrate.
LEMMA MigInit == Init => MigInv
<1> SUFFICES ASSUME Init PROVE MigInv OBVIOUS
<1>1. Epochs BY NilFacts DEF Init, Epochs, NoMig
<1>2. Entries BY NoPassFacts, FS_EmptySet, Zenon DEF Init, Entries
<1>3. Migration BY NilFacts, NoPassFacts, Zenon DEF Init, Migration, Coming, NoWrite
<1> QED BY <1>1, <1>2, <1>3, Zenon DEF MigInv

\* An encryptor that moves on leaves every migration of the old epoch behind,
\* and a restart that lists a dropped segment again completes none.
LEMMA EncMoves ==
    ASSUME MigInv, enc' = meta.enc,
           UNCHANGED <<write, pass, mig, migrated, setting>>,
           \A d \in log' : \E e \in log : /\ Like(d, e)
                                          /\ d = e \/ d.seg \in Lost
    PROVE  /\ Migration'
           /\ enc'.epoch \in Nat /\ enc.epoch <= enc'.epoch
           /\ enc'.epoch = 0 => enc' = Nil
           /\ migrated <= enc'.epoch /\ mig.epoch <= enc'.epoch
<1>1. CASE meta.enc = enc
  <2>1. enc' = enc BY <1>1, Zenon
  <2>2. Quiet' = Quiet /\ (\A e : Done(e)' <=> Done(e)) /\ Coming' = Coming
    BY <2>1, Zenon DEF Quiet, Done, Coming
  <2>3. (\A e \in log : Done(e)) => \A d \in log' : Done(d) BY Zenon DEF Done
  <2>4. (\A e \in log : Done(e) \/ e.seg = "sealed")
          => \A d \in log' : Done(d) \/ d.seg = "sealed"
    BY Zenon DEF Done
  <2>5. ASSUME \A e \in log \ pass.from : Done(e), NEW d \in log' \ pass.from
        PROVE  Done(d)
    <3>1. PICK e \in log : Like(d, e) /\ (d = e \/ d.seg \in Lost) BY <2>5, Zenon
    <3>2. CASE d = e BY <2>5, <3>2, Zenon
    <3>3. CASE d.seg \in Lost BY <3>3, Zenon DEF Done
    <3> QED BY <3>1, <3>2, <3>3, Zenon
  <2>6. Migration' BY <2>1, <2>2, <2>3, <2>4, <2>5, Zenon DEF MigInv, Migration
  <2> QED BY <2>1, <2>6 DEF MigInv, Epochs
<1>2. CASE meta.enc.epoch = enc.epoch + 1
  <2>1. /\ mig.epoch # enc'.epoch /\ migrated # enc'.epoch
        /\ enc'.epoch \in Nat /\ enc'.epoch # 0 /\ enc.epoch <= enc'.epoch
        /\ migrated <= enc'.epoch /\ mig.epoch <= enc'.epoch
    BY <1>2 DEF MigInv, Epochs
  <2>2. Migration' BY <2>1, Zenon DEF MigInv, Migration
  <2> QED BY <2>1, <2>2, Zenon
<1> QED BY <1>1, <1>2, Zenon DEF MigInv, Epochs

\* A change that is persisted and not yet in force touches no migration.
LEMMA MigChange ==
    ASSUME MigInv, NEW mode, NEW p, NEW key, applyEncryptionChange(mode, p, key)
    PROVE  MigInv'
<1> USE DEF MigInv
<1>1. /\ UNCHANGED <<enc, log, write, pass, mig, migrated, up, setting>>
      /\ up /\ adm = Nil
      /\ adm' = [epoch |-> enc.epoch + 1, readMode |-> mode, policy |-> p]
      /\ meta' = [enc |-> adm', key |-> key]
  BY Zenon DEF applyEncryptionChange, compaction
<1>2. adm'.epoch = enc.epoch + 1 /\ meta'.enc = adm' BY <1>1
<1>3. adm' # Nil BY <1>2, NilFacts DEF Epochs
<1>4. Epochs' BY <1>1, <1>2, <1>3, Zenon DEF Epochs
<1>5. Entries' BY <1>1, Zenon DEF Entries
<1>6. Migration' BY <1>1, Zenon DEF Migration, Coming, Done, Quiet
<1> QED BY <1>4, <1>5, <1>6, Zenon

\* A merge that starts, from the compactor or from MigrateNow, has in hand all
\* that is sealed, and writes it at the current epoch (compactor.go:88-125).
LEMMA MigBegin ==
    ASSUME MigInv, Begin, UNCHANGED <<admin, log, write, migrated, up, setting>>,
           \/ mig' = mig
           \/ mig.at = "rotated" /\ mig' = [mig EXCEPT !.at = "merging"]
    PROVE  MigInv'
<1> USE DEF MigInv
<1>1. /\ pass'.on /\ pass'.from = InSealed
      /\ \A d \in pass'.to : IsEntry(d) /\ d.seg = "sealed" /\ d.epoch = enc.epoch
      /\ IsFiniteSet(pass'.to)
  BY BeginFacts, Zenon
<1>2. UNCHANGED <<enc, meta, adm, log, write, migrated, up, setting>>
  BY Zenon DEF admin
<1>3. /\ mig'.epoch = mig.epoch
      /\ mig' = [at |-> mig'.at, epoch |-> mig'.epoch]
      /\ \/ mig'.at = mig.at
         \/ mig.at = "rotated" /\ mig'.at = "merging"
  <2>1. mig = [at |-> mig.at, epoch |-> mig.epoch] BY Zenon DEF Epochs
  <2> QED BY ONLY <2>1, \/ mig' = mig
                        \/ mig.at = "rotated" /\ mig' = [mig EXCEPT !.at = "merging"]
<1>4. Epochs' BY <1>2, <1>3 DEF Epochs
<1>5. Entries'
  <2>1. \A e \in InSealed : e.seg \in {"sealed", "revived"} BY Zenon DEF InSealed
  <2> QED BY <1>1, <1>2, <2>1, Zenon DEF Entries
<1>6. ASSUME Quiet, enc.epoch > 0, migrated = enc.epoch
      PROVE  (\A x \in Coming' : x.epoch = enc.epoch) /\ (\A e \in log : Done(e))
  <2>1. (\A x \in Coming : x.epoch = enc.epoch) /\ (\A e \in log : Done(e))
    BY <1>6, Zenon DEF Migration
  <2> QED BY <1>1, <1>2, <2>1, Zenon DEF Coming
<1>7. ASSUME Quiet, mig'.at # "idle", mig.epoch = enc.epoch
      PROVE  /\ \A x \in write : x.epoch = enc.epoch
             /\ \A e \in log : Done(e) \/ e.seg = "sealed"
  <2>1. mig.at # "idle" BY <1>3, <1>7, Zenon
  <2> QED BY <1>7, <2>1, Zenon DEF Migration
<1>8. ASSUME Quiet, mig'.at = "merging", mig.epoch = enc.epoch
      PROVE  /\ \A e \in pass'.to : e.epoch = enc.epoch
             /\ \A e \in log \ pass'.from : Done(e)
  <2>1. mig'.at # "idle" BY <1>8, Zenon
  <2>2. \A e \in log : Done(e) \/ e.seg = "sealed" BY <1>7, <1>8, <2>1, Zenon
  <2> QED BY <1>1, <2>2, Zenon DEF InSealed
<1>9. Quiet' = Quiet /\ \A e : Done(e)' <=> Done(e) BY <1>2, Zenon DEF Quiet, Done
<1>10. Migration' BY <1>1, <1>2, <1>3, <1>6, <1>7, <1>8, <1>9, Zenon DEF Migration
<1> QED BY <1>4, <1>5, <1>10, Zenon

\* A swap keeps what was sealed after its snapshot, in a segment it drops, and
\* adds what the pass wrote (compactor.go:160-190).
LEMMA SwapFacts ==
    ASSUME Entries, Swap
    PROVE  /\ IsFiniteSet(log')
           /\ \A d \in log' :
                /\ IsEntry(d)
                /\ \/ d \in pass.to
                   \/ \E e \in log \ pass.from :
                         /\ Like(d, e)
                         /\ \/ d = e
                            \/ d.seg \in Lost
<1> DEFINE rest == log \ pass.from
           old == Moved(rest, {"sealed"}, "dropped")
<1>1. log' = old \cup pass.to BY Zenon DEF Swap
<1>2. "dropped" \in Segments /\ "dropped" \in Lost BY Zenon DEF Segments, Lost
<1>3. (\A e \in rest : IsEntry(e)) /\ IsFiniteSet(rest)
  BY FS_Difference, Zenon DEF Entries
<1>4. IsFiniteSet(log')
  <2>1. IsFiniteSet(old) BY <1>3, MovedFinite, Zenon
  <2> HIDE DEF old
  <2> QED BY <1>1, <2>1, FS_Union, Zenon DEF Entries
<1> HIDE DEF rest
<1>5. \A d \in old : /\ IsEntry(d)
                     /\ \E e \in rest : /\ Like(d, e)
                                        /\ \/ e.seg \notin {"sealed"} /\ d = e
                                           \/ e.seg \in {"sealed"} /\ d.seg = "dropped"
  BY <1>2, <1>3, MovedFacts, Zenon
<1> HIDE DEF old
<1>6. \A d \in log' : /\ IsEntry(d)
                      /\ \/ d \in pass.to
                         \/ \E e \in rest : /\ Like(d, e)
                                            /\ d = e \/ d.seg \in Lost
  BY <1>1, <1>2, <1>5, Zenon DEF Entries
<1> QED BY <1>4, <1>6, Zenon DEF rest

\* The swap that ends MigrateNow's merge leaves only entries of the epoch it
\* recorded, save in the segments it drops, and another one brings back no
\* older entry (Swap).
LEMMA MigSwap ==
    ASSUME MigInv, Swap
    PROVE  MigInv'
<1> USE DEF MigInv
<1>1. /\ pass.on /\ pass' = NoPass
      /\ mig' = IF mig.at = "merging" THEN NoMig ELSE mig
      /\ migrated' = IF mig.at = "merging" THEN mig.epoch ELSE migrated
      /\ UNCHANGED <<enc, meta, adm, write, up, setting>>
  BY Zenon DEF Swap, admin
<1>2. Quiet' = Quiet /\ \A e : Done(e)' <=> Done(e) BY <1>1, Zenon DEF Quiet, Done
<1>3. Epochs' BY <1>1, NilFacts DEF Epochs, NoMig
<1>4. \A d \in log' : /\ IsEntry(d)
                      /\ \/ d \in pass.to
                         \/ \E e \in log \ pass.from : /\ Like(d, e)
                                                       /\ d = e \/ d.seg \in Lost
  BY SwapFacts, Zenon
<1>5. Entries'
  <2>1. IsFiniteSet(log') BY SwapFacts, Zenon
  <2> QED BY <1>1, <1>4, <2>1, NoPassFacts, FS_EmptySet, Zenon DEF Entries
<1>6. Coming' = write BY <1>1, NoPassFacts, Zenon DEF Coming
<1>7. ASSUME \A e \in pass.to : e.epoch = enc.epoch,
             \A e \in log \ pass.from : Done(e)
      PROVE  \A d \in log' : Done(d)
  BY <1>4, <1>7, Zenon DEF Done
<1>8. CASE mig.at = "merging"
  <2>1. mig'.at = "idle" /\ migrated' = mig.epoch BY <1>1, <1>8, NilFacts, Zenon
  <2>2. mig.at # "idle" BY <1>8, Zenon
  <2>3. ASSUME Quiet, mig.epoch = enc.epoch
        PROVE  /\ \A x \in Coming' : x.epoch = enc.epoch
               /\ \A d \in log' : Done(d)
    <3>1. \A x \in write : x.epoch = enc.epoch
      BY <2>2, <2>3, Zenon DEF Migration
    <3>2. \A d \in log' : Done(d) BY <1>7, <1>8, <2>3, Zenon DEF Migration
    <3> QED BY <1>6, <3>1, <3>2, Zenon
  <2>4. mig'.at # "merging" BY <2>1, Zenon
  <2>5. Migration' BY <1>1, <1>2, <2>1, <2>3, <2>4, Zenon DEF Migration
  <2> QED BY <1>3, <1>5, <2>5, Zenon
<1>9. CASE mig.at # "merging"
  <2>1. mig' = mig /\ migrated' = migrated BY <1>1, <1>9, Zenon
  <2>2. ASSUME Quiet, enc.epoch > 0, migrated = enc.epoch
        PROVE  /\ \A x \in Coming' : x.epoch = enc.epoch
               /\ \A d \in log' : Done(d)
    <3>1. (\A x \in Coming : x.epoch = enc.epoch) /\ (\A e \in log : Done(e))
      BY <2>2, Zenon DEF Migration
    <3>2. \A e \in pass.to : e.epoch = enc.epoch BY <3>1, Zenon DEF Coming
    <3>3. \A d \in log' : Done(d) BY <1>7, <3>1, <3>2, Zenon
    <3> QED BY <1>6, <3>1, <3>3, Zenon DEF Coming
  <2>3. ASSUME Quiet, mig.at # "idle", mig.epoch = enc.epoch
        PROVE  /\ \A x \in write : x.epoch = enc.epoch
               /\ \A d \in log' : Done(d) \/ d.seg = "sealed"
    <3>1. /\ \A x \in write : x.epoch = enc.epoch
          /\ \A e \in log : Done(e) \/ e.seg = "sealed"
      BY <2>3, Zenon DEF Migration
    <3>2. \A e \in pass.to : e.seg = "sealed" BY Zenon DEF Entries
    <3> QED BY <1>4, <3>1, <3>2, Zenon DEF Done
  <2>4. Migration' BY <1>1, <1>2, <1>9, <2>1, <2>2, <2>3, Zenon DEF Migration
  <2> QED BY <1>3, <1>5, <2>4, Zenon
<1> QED BY <1>8, <1>9, Zenon

\* MigrateNow's rotation leaves nothing of an older epoch in the active segment.
LEMMA MigMigrateNow ==
    ASSUME MigInv, MigrateNow
    PROVE  MigInv'
<1> USE DEF MigInv
<1>1. /\ mig = NoMig /\ enc.epoch > 0 /\ (Quiet => write = NoWrite)
      /\ log' = Sealed(log)
      /\ mig' = [at |-> "rotated", epoch |-> enc.epoch]
      /\ UNCHANGED <<enc, meta, adm, write, pass, migrated, up, setting>>
  BY Zenon DEF MigrateNow, admin
<1>2. Quiet' = Quiet /\ \A e : Done(e)' <=> Done(e) BY <1>1, Zenon DEF Quiet, Done
<1>3. mig'.at = "rotated" /\ mig'.epoch = enc.epoch BY <1>1, Zenon
<1>4. Epochs' BY <1>1, <1>3 DEF Epochs
<1>5. \A d \in log' : /\ IsEntry(d)
                      /\ \E e \in log : /\ Like(d, e)
                                        /\ \/ e.seg # "active" /\ d = e
                                           \/ e.seg = "active" /\ d.seg = "sealed"
  <2>1. \A e \in log : IsEntry(e) BY Zenon DEF Entries
  <2> QED BY <1>1, <2>1, SealedFacts, Zenon
<1>6. Entries' BY <1>1, <1>5, MovedFinite, Zenon DEF Entries, Sealed
<1>7. ASSUME Quiet, migrated = enc.epoch
      PROVE  (\A x \in Coming' : x.epoch = enc.epoch) /\ (\A d \in log' : Done(d))
  <2>1. (\A x \in Coming : x.epoch = enc.epoch) /\ (\A e \in log : Done(e))
    BY <1>1, <1>7, Zenon DEF Migration
  <2>2. "active" \notin Lost BY Zenon DEF Lost
  <2>3. \A d \in log' : Done(d) BY <1>5, <2>1, <2>2, Zenon DEF Done, Like
  <2> QED BY <1>1, <2>1, <2>3, Zenon DEF Coming
<1>8. \A d \in log' : Done(d) \/ d.seg = "sealed"
  <2>1. ASSUME NEW d \in log', d.seg # "sealed" PROVE d.seg \in Lost
    <3>1. d.seg # "active" BY <1>5, <2>1, Zenon
    <3>2. d.seg \in Segments BY <1>5, <2>1, Zenon DEF IsEntry
    <3> QED BY <2>1, <3>1, <3>2, Zenon DEF Segments, Lost
  <2> QED BY <2>1, Zenon DEF Done
<1>9. Quiet => \A x \in write : x.epoch = enc.epoch BY <1>1, Zenon DEF NoWrite
<1>10. mig'.at # "merging" BY <1>3, Zenon
<1>11. Migration'
  BY <1>1, <1>2, <1>3, <1>7, <1>8, <1>9, <1>10, Zenon DEF Migration
<1> QED BY <1>4, <1>6, <1>11, Zenon

\* A write sealed now is at the current epoch (sealEntryData).
LEMMA MigSeal ==
    ASSUME MigInv, NEW id, NEW doc, sealEntryData(id, doc)
    PROVE  MigInv'
<1> USE DEF MigInv
<1>1. /\ UNCHANGED <<enc, meta, adm, log, pass, mig, migrated, up, setting>>
      /\ write' = {[id |-> id, doc |-> doc, epoch |-> enc.epoch,
                    stored |-> encrypt(enc.policy, current, doc)]}
  BY Zenon DEF sealEntryData, admin, compaction
<1>2. \A x \in write' : x.epoch = enc.epoch BY ONLY <1>1
<1>3. Epochs' BY <1>1, Zenon DEF Epochs
<1>4. Entries' BY <1>1, Zenon DEF Entries
<1>5. Coming' \subseteq Coming \cup write' BY <1>1, Zenon DEF Coming
<1>6. Quiet' = Quiet /\ \A e : Done(e)' <=> Done(e) BY <1>1, Zenon DEF Quiet, Done
<1>7. Migration' BY <1>1, <1>2, <1>5, <1>6, Zenon DEF Migration
<1> QED BY <1>3, <1>4, <1>7, Zenon

\* An append adds the entry that was sealed, and a rotation only moves the
\* active entries to a sealed segment (Append).
LEMMA MigAppend ==
    ASSUME MigInv, NEW full \in BOOLEAN, Append(full)
    PROVE  MigInv'
<1> USE DEF MigInv
<1>1. /\ UNCHANGED <<enc, meta, adm, pass, mig, migrated, up, setting>>
      /\ write' = NoWrite
  BY Zenon DEF Append, admin, compaction
<1>2. IsFiniteSet(log') BY AppendFacts, Zenon
<1>3. PICK x \in write :
        \A d \in log' :
          /\ IsEntry(d)
          /\ \/ Like(d, x) /\ d.seg \notin Lost
             \/ \E e \in log : /\ Like(d, e)
                               /\ d = e \/ (e.seg = "active" /\ d.seg = "sealed")
  BY AppendFacts, Zenon
<1>4. Epochs' BY <1>1, Zenon DEF Epochs
<1>5. Entries' BY <1>1, <1>2, <1>3, Zenon DEF Entries
<1>6. Quiet' = Quiet /\ \A e : Done(e)' <=> Done(e) BY <1>1, Zenon DEF Quiet, Done
<1>7. "active" \notin Lost BY Zenon DEF Lost
<1>8. ASSUME NEW e \in log, NEW d, Done(e), Like(d, e),
             d = e \/ (e.seg = "active" /\ d.seg = "sealed")
      PROVE  Done(d)
  BY <1>7, <1>8, Zenon DEF Done, Like
<1>9. ASSUME NEW d, Like(d, x), x.epoch = enc.epoch PROVE Done(d)
  BY <1>9, Zenon DEF Done, Like
<1>10. ASSUME Quiet, enc.epoch > 0, migrated = enc.epoch
       PROVE  (\A y \in Coming' : y.epoch = enc.epoch) /\ (\A d \in log' : Done(d))
  <2>1. (\A y \in Coming : y.epoch = enc.epoch) /\ (\A e \in log : Done(e))
    BY <1>10, Zenon DEF Migration
  <2>2. x.epoch = enc.epoch BY <2>1, Zenon DEF Coming
  <2>3. ASSUME NEW d \in log' PROVE Done(d)
    <3>1. CASE Like(d, x) BY <1>9, <2>2, <3>1, Zenon
    <3>2. CASE \E e \in log : /\ Like(d, e)
                              /\ d = e \/ (e.seg = "active" /\ d.seg = "sealed")
      BY <1>8, <2>1, <3>2, Zenon
    <3> QED BY ONLY <1>3, <2>3, <3>1, <3>2, Zenon
  <2>4. \A y \in Coming' : y.epoch = enc.epoch
    BY <1>1, <2>1, Zenon DEF Coming, NoWrite
  <2> QED BY <2>3, <2>4, Zenon
<1>11. ASSUME Quiet, mig.at # "idle", mig.epoch = enc.epoch
       PROVE  /\ x.epoch = enc.epoch
              /\ \A d \in log' : Done(d) \/ d.seg = "sealed"
  <2>1. /\ x.epoch = enc.epoch
        /\ \A e \in log : Done(e) \/ e.seg = "sealed"
    BY <1>3, <1>11, Zenon DEF Migration
  <2>2. ASSUME NEW d \in log' PROVE Done(d) \/ d.seg = "sealed"
    <3>1. CASE Like(d, x) BY <1>9, <2>1, <3>1, Zenon
    <3>2. CASE \E e \in log : /\ Like(d, e)
                              /\ d = e \/ (e.seg = "active" /\ d.seg = "sealed")
      BY <2>1, <3>2, Zenon
    <3> QED BY ONLY <1>3, <2>2, <3>1, <3>2, Zenon
  <2> QED BY <2>1, <2>2, Zenon
<1>12. ASSUME Quiet, mig.at = "merging", mig.epoch = enc.epoch
       PROVE  /\ \A e \in pass.to : e.epoch = enc.epoch
              /\ \A d \in log' \ pass.from : Done(d)
  <2>1. /\ \A e \in pass.to : e.epoch = enc.epoch
        /\ \A e \in log \ pass.from : Done(e)
    BY <1>12, Zenon DEF Migration
  <2>2. mig.at # "idle" BY <1>12, Zenon
  <2>3. x.epoch = enc.epoch BY <1>11, <1>12, <2>2, Zenon
  <2>4. \A e \in pass.from : e.seg # "active" BY Zenon DEF Entries
  <2>5. ASSUME NEW d \in log' \ pass.from PROVE Done(d)
    <3>1. CASE Like(d, x) BY <1>9, <2>3, <3>1, Zenon
    <3>2. CASE \E e \in log : /\ Like(d, e)
                              /\ d = e \/ (e.seg = "active" /\ d.seg = "sealed")
      <4>1. PICK e \in log : /\ Like(d, e)
                             /\ d = e \/ (e.seg = "active" /\ d.seg = "sealed")
        BY <3>2, Zenon
      <4>2. e \notin pass.from BY <2>4, <2>5, <4>1, Zenon
      <4>3. Done(e) BY <2>1, <4>2, Zenon
      <4> QED BY <1>8, <4>1, <4>3, Zenon
    <3>3. d \in log' BY <2>5, Zenon
    <3> QED BY ONLY <1>3, <3>1, <3>2, <3>3, Zenon
  <2> QED BY <2>1, <2>5, Zenon
<1>13. \A y \in write' : y.epoch = enc.epoch BY <1>1, Zenon DEF NoWrite
<1>14. Migration'
  BY <1>1, <1>6, <1>10, <1>11, <1>12, <1>13, Zenon DEF Migration
<1> QED BY <1>4, <1>5, <1>14, Zenon

\* A restart reads the persisted block and forgets the pass (Open).
LEMMA MigCrash ==
    ASSUME MigInv, Crash
    PROVE  MigInv'
<1> USE DEF MigInv
<1>1. /\ up' = FALSE
      /\ write' = NoWrite /\ pass' = NoPass /\ mig' = NoMig /\ adm' = Nil
      /\ UNCHANGED <<enc, meta, log, migrated, setting>>
  BY Zenon DEF Crash
<1>2. Epochs'
  <2>1. mig' = [at |-> mig'.at, epoch |-> mig'.epoch] BY <1>1, Zenon DEF NoMig
  <2>2. mig'.epoch \in Nat /\ mig'.epoch <= enc.epoch
    BY <1>1, NilFacts DEF Epochs
  <2> QED BY <1>1, <2>1, <2>2, Zenon DEF Epochs
<1>3. Entries' BY <1>1, NoPassFacts, FS_EmptySet, Zenon DEF Entries
<1>4. Coming' = {} BY <1>1, NoPassFacts, Zenon DEF Coming, NoWrite
<1>5. mig'.at = "idle" BY <1>1, NilFacts, Zenon
<1>6. mig'.at # "merging" BY <1>5, Zenon
<1>7. Quiet' = Quiet /\ \A e : Done(e)' <=> Done(e) BY <1>1, Zenon DEF Quiet, Done
<1>8. Migration' BY <1>1, <1>4, <1>5, <1>6, <1>7, Zenon DEF Migration
<1> QED BY <1>2, <1>3, <1>8, Zenon

\* A restart lists the dropped segments again (initEncryption).
LEMMA RevivedFacts ==
    ASSUME Entries, NEW k, initEncryption(k)
    PROVE  /\ IsFiniteSet(log')
           /\ \A d \in log' : /\ IsEntry(d)
                              /\ \E e \in log : /\ Like(d, e)
                                                /\ \/ d = e
                                                   \/ d.seg \in Lost
<1>1. log' = Moved(log, {"dropped"}, "revived") BY Zenon DEF initEncryption
<1>2. "revived" \in Segments /\ "revived" \in Lost BY Zenon DEF Segments, Lost
<1>3. (\A e \in log : IsEntry(e)) /\ IsFiniteSet(log) BY Zenon DEF Entries
<1>4. IsFiniteSet(log') BY <1>1, <1>3, MovedFinite, Zenon
<1>5. \A d \in log' : /\ IsEntry(d)
                      /\ \E e \in log : /\ Like(d, e)
                                        /\ \/ e.seg \notin {"dropped"} /\ d = e
                                           \/ e.seg \in {"dropped"} /\ d.seg = "revived"
  BY <1>1, <1>2, <1>3, MovedFacts, Zenon
<1> QED BY <1>2, <1>4, <1>5, Zenon

\* Every step keeps the migration's invariant.
LEMMA MigNext ==
    ASSUME MigInv, [Next]_vars
    PROVE  MigInv'
<1> USE DEF MigInv
<1>1. ASSUME NEW id \in Ids, NEW doc \in Docs, sealEntryData(id, doc) PROVE MigInv'
  BY <1>1, MigSeal, Zenon
<1>2. ASSUME NEW full \in BOOLEAN, Append(full) PROVE MigInv'
  BY <1>2, MigAppend, Zenon
<1>3. ASSUME NEW p \in Policies, SetEncryptionPolicy(p) PROVE MigInv'
  BY <1>3, MigChange, Zenon DEF SetEncryptionPolicy
<1>4. CASE Disable BY <1>4, MigChange, Zenon DEF Disable
<1>5. CASE RotateKey BY <1>5, MigChange, Zenon DEF RotateKey
<1>6. CASE SwapEncryptor
  <2>1. /\ up /\ adm # Nil /\ enc' = adm /\ adm' = Nil
        /\ UNCHANGED <<meta, log, write, pass, mig, migrated, up, setting>>
    BY <1>6, Zenon DEF SwapEncryptor, compaction
  <2>2. enc' = meta.enc BY <2>1, Zenon DEF Epochs
  <2>3. /\ Migration' /\ enc'.epoch \in Nat /\ (enc'.epoch = 0 => enc' = Nil)
        /\ migrated <= enc'.epoch /\ mig.epoch <= enc'.epoch
    BY <2>1, <2>2, EncMoves, Zenon DEF Like
  <2>4. Epochs' BY <2>1, <2>2, <2>3, Zenon DEF Epochs
  <2> QED BY <2>1, <2>3, <2>4, Zenon DEF Entries
<1>7. ASSUME NEW k \in Key, SetCurrent(k) PROVE MigInv'
  BY <1>7, Zenon DEF SetCurrent, admin, compaction, Epochs, Entries, Migration,
                     Coming, Done, Quiet
<1>8. ASSUME NEW k \in Key, initEncryption(k) PROVE MigInv'
  <2>1. /\ ~up /\ enc' = meta.enc /\ up' = TRUE
        /\ UNCHANGED <<meta, adm, write, pass, mig, migrated, setting>>
    BY <1>8, Zenon DEF initEncryption, compaction
  <2>2. /\ IsFiniteSet(log')
        /\ \A d \in log' : /\ IsEntry(d)
                           /\ \E e \in log : Like(d, e) /\ (d = e \/ d.seg \in Lost)
    BY <1>8, RevivedFacts, Zenon
  <2>3. /\ Migration' /\ enc'.epoch \in Nat /\ (enc'.epoch = 0 => enc' = Nil)
        /\ migrated <= enc'.epoch /\ mig.epoch <= enc'.epoch
    BY <2>1, <2>2, EncMoves, Zenon
  <2>4. adm = Nil BY <2>1, Zenon DEF Epochs
  <2>5. Epochs' BY <2>1, <2>3, <2>4, Zenon DEF Epochs
  <2>6. Entries' BY <2>1, <2>2, Zenon DEF Entries
  <2> QED BY <2>3, <2>5, <2>6, Zenon
<1>9. CASE RetireKeys
  BY <1>9, Zenon DEF RetireKeys, admin, compaction, Epochs, Entries, Migration,
                     Coming, Done, Quiet
<1>10. CASE CompactDirty BY <1>10, MigBegin, Zenon DEF CompactDirty
<1>11. CASE CompactPending BY <1>11, MigBegin, Zenon DEF CompactPending
<1>12. CASE Swap BY <1>12, MigSwap, Zenon
<1>13. CASE MigrateNow BY <1>13, MigMigrateNow, Zenon
<1>14. CASE MigrateCompact BY <1>14, MigBegin, Zenon DEF MigrateCompact
<1>15. CASE Crash BY <1>15, MigCrash, Zenon
<1>16. CASE CompactNow BY <1>16, MigBegin, Zenon DEF CompactNow
<1>17. CASE UNCHANGED vars
  BY <1>17, Zenon DEF vars, Epochs, Entries, Migration, Coming, Done, Quiet
<1> QED BY <1>1, <1>2, <1>3, <1>4, <1>5, <1>6, <1>7, <1>8, <1>9, <1>10, <1>11,
           <1>12, <1>13, <1>14, <1>15, <1>16, <1>17, ZenonT(30) DEF Next

\* Wherever entries and writes are, the persisted block is at most one change
\* ahead, and a migration under way accounts for every older entry: it is in the
\* snapshot of its pass, or in a segment that a swap dropped from c.sealed
\* (compactor.go:175).
THEOREM MigrationInvariant == Spec => []MigInv
  BY MigInit, MigNext, PTL DEF Spec

\* MigrateNow, once it has returned for the policy in force, has left an entry of
\* an older epoch nowhere but in a segment that a swap dropped
\* (compactor.go:175, 228-262), whatever passes, writes, policy changes and
\* crashes came in between.
THEOREM MigrationCompletes == Spec => []MigrationComplete
<1>1. MigInv => MigrationComplete
  BY Zenon DEF MigInv, Migration, MigrationComplete, Done
<1> QED BY <1>1, MigrationInvariant, PTL

-----------------------------------------------------------------------------
(* What is stored reads back.                                              *)

\* A new collection stores nothing.
LEMMA FormInit == Init => FormInv
<1> SUFFICES ASSUME Init PROVE FormInv OBVIOUS
<1>1. Forms BY NoPassFacts, Zenon DEF Init, Forms, Coming, NoWrite
<1>2. meta.enc = Nil /\ meta.key = 0 /\ enc = Nil /\ enc.epoch = 0
  BY NilFacts, Zenon DEF Init
<1>3. Modes BY <1>2, NilFacts, Zenon DEF Modes, Policy
<1>4. MaxKey \in Nat \ {0} BY KeysAssumption, Zenon DEF Init, MaxKey
<1>5. ring = 1..MaxKey /\ current = 1 BY Zenon DEF Init, Key
<1>6. KeysInv BY <1>2, <1>4, <1>5 DEF KeysInv, Key
<1> QED BY <1>1, <1>3, <1>6, Zenon DEF FormInv

\* Whether an entry is well sealed depends on its document, form and epoch only.
LEMMA SealedLike ==
    ASSUME NEW x, NEW y, Like(y, x)
    PROVE  /\ WellSealed(x) => WellSealed(y)
           /\ OnceSealed(x) => OnceSealed(y)
  BY Zenon DEF WellSealed, OnceSealed, SealedBy, Like

\* What is sealed with a key of the ring was sealed once.
LEMMA WellIsOnce ==
    ASSUME KeysInv, NEW x, WellSealed(x)
    PROVE  OnceSealed(x)
  BY Zenon DEF WellSealed, OnceSealed, KeysInv

\* A form does not change while encryptor, block and ring stay.
LEMMA SealedKept ==
    ASSUME NEW x, UNCHANGED <<enc, meta, ring, setting>>
    PROVE  /\ WellSealed(x) => WellSealed(x)'
           /\ OnceSealed(x) => OnceSealed(x)'
  BY Zenon DEF WellSealed, OnceSealed, SealedBy, Policy, Policies, Key, MaxKey

\* An entry that was to come, or one that was there and has lost no more.
From(d) ==
    \/ \E x \in Coming : Like(d, x)
    \/ \E e \in log : Like(d, e) /\ (d.seg \notin Lost => e.seg \notin Lost)

\* What leaves the log and the pass takes no form with it, and what moves from
\* one segment to another keeps its form.
LEMMA FormFewer ==
    ASSUME FormInv, UNCHANGED <<enc, meta, ring, current, setting>>,
           Coming' \subseteq Coming, \A d \in log' : From(d)
    PROVE  FormInv'
<1> USE DEF FormInv
<1>1. ASSUME NEW d \in log'
      PROVE  OnceSealed(d) /\ (d.seg \notin Lost => WellSealed(d))
  <2>1. CASE \E x \in Coming : Like(d, x)
    <3>1. WellSealed(d) BY <2>1, SealedLike, Zenon DEF Forms
    <3> QED BY <3>1, WellIsOnce, Zenon
  <2>2. CASE \E e \in log : Like(d, e) /\ (d.seg \notin Lost => e.seg \notin Lost)
    BY <2>2, SealedLike, Zenon DEF Forms
  <2> QED BY <1>1, <2>1, <2>2, Zenon DEF From
<1>2. \A x \in Coming' : WellSealed(x) BY Zenon DEF Forms
<1>3. Forms' BY <1>1, <1>2, SealedKept, Zenon DEF Forms
<1>4. Modes' /\ KeysInv' BY Zenon DEF Modes, KeysInv, Policy, Policies, Key, MaxKey
<1> QED BY <1>3, <1>4, Zenon

\* Encrypting under the policy in force with the current key, as a write and a
\* re-encrypting pass both do, yields a form that reads back.
LEMMA FreshlySealed ==
    ASSUME MigInv, FormInv, NEW x, x.doc \in Docs, x.epoch = enc.epoch,
           x.stored = encrypt(enc.policy, current, x.doc)
    PROVE  WellSealed(x)
<1>1. enc.policy \in Policy /\ current \in ring
  BY Zenon DEF FormInv, Modes, KeysInv
<1>2. current >= meta.key
  <2>1. current \in Nat /\ meta.key \in Nat /\ meta.key <= current
    <3>1. MaxKey \in Nat BY KeysAssumption, Zenon DEF MigInv, Epochs, MaxKey
    <3> QED BY <3>1 DEF FormInv, KeysInv, Key
  <2> QED BY <2>1
<1>3. SealedBy(x, enc.policy, current)
  BY <1>2, Zenon DEF SealedBy, FormInv, Modes
<1>4. x.epoch \in Nat /\ x.epoch <= enc.epoch BY DEF MigInv, Epochs
<1> QED BY <1>1, <1>3, <1>4, Zenon DEF WellSealed

\* Whatever keys have been retired, an entry reads back as what the caller wrote
\* or is refused.
LEMMA EntryReads ==
    ASSUME NEW e, OnceSealed(e), NEW F \in SUBSET DOMAIN e.doc
    PROVE  \/ Reads(e, F) = Failed
           \/ Reads(e, F)
                 = Read(IF F = {} THEN e.doc ELSE Part(e.doc, F \cup {KeyField}))
<1>1. PICK p \in Policy, k \in Key : SealedBy(e, p, k) BY Zenon DEF OnceSealed
<1> DEFINE doc == e.doc
           mode == enc.readMode
           more == ring \cup {k}
<1>2. doc \in Docs /\ p.mode \in {Off.mode, mode} /\ F \in SUBSET DOMAIN doc
  BY <1>1, Zenon DEF OnceSealed, SealedBy
<1>3. k \in more /\ ring \subseteq more BY Zenon
<1>4. Reads(e, F) = materialize(mode, encrypt(p, k, doc), ring, F)
  BY <1>1, Zenon DEF SealedBy, Reads
<1> HIDE DEF doc, mode, more
<1>5. /\ materialize(mode, encrypt(p, k, doc), more, {}) = Read(doc)
      /\ \A G \in SUBSET DOMAIN doc : G # {} =>
            materialize(mode, encrypt(p, k, doc), more, G)
               = Read(Part(doc, G \cup {KeyField}))
  <2>1. doc \in Docs /\ p.mode \in {Off.mode, mode} /\ k \in more BY <1>2, <1>3, Zenon
  <2> QED BY ONLY <2>1, ReadBack
<1> DEFINE s == encrypt(p, k, doc)
<1>6. materialize(mode, s, more, F)
        = Read(IF F = {} THEN doc ELSE Part(doc, F \cup {KeyField}))
  <2>1. CASE F = {} BY <1>5, <2>1, Zenon
  <2>2. CASE F # {} BY <1>2, <1>5, <2>2, Zenon
  <2> QED BY <2>1, <2>2, Zenon
<1> HIDE DEF s
<1>7. \/ materialize(mode, s, ring, F) = Failed
      \/ materialize(mode, s, ring, F) = materialize(mode, s, more, F)
  BY ONLY <1>3, FewerKeys, ZenonT(30)
<1> QED BY <1>4, <1>6, <1>7, Zenon DEF doc, s

\* A re-encrypted entry is sealed afresh: what materialize opened is what the
\* caller wrote.
LEMMA ReencryptWell ==
    ASSUME MigInv, FormInv, NEW e, IsEntry(e), OnceSealed(e), Reads(e, {}).ok
    PROVE  WellSealed(reencrypt(e))
<1>1. e.doc \in Docs /\ {} \in SUBSET DOMAIN e.doc BY Zenon DEF OnceSealed
<1>2. Reads(e, {}) = Failed \/ Reads(e, {}) = Read(e.doc)
  BY <1>1, EntryReads, Zenon
<1>3. materialize(enc.readMode, e.stored, ring, {}).data = e.doc
  BY <1>2, NotOk, ReadOk, Zenon DEF Reads
<1>4. /\ reencrypt(e).doc = e.doc /\ reencrypt(e).epoch = enc.epoch
      /\ reencrypt(e).stored = encrypt(enc.policy, current, e.doc)
  BY <1>3, ReencryptedEntry, Zenon
<1> QED BY <1>1, <1>4, FreshlySealed, Zenon

\* A write is sealed under the policy in force with the current key
\* (sealEntryData).
LEMMA FormSeal ==
    ASSUME MigInv, FormInv, NEW id, NEW doc \in Docs, sealEntryData(id, doc)
    PROVE  FormInv'
<1> USE DEF FormInv
<1>1. /\ UNCHANGED <<enc, meta, ring, current, log, pass, setting>>
      /\ write' = {[id |-> id, doc |-> doc, epoch |-> enc.epoch,
                    stored |-> encrypt(enc.policy, current, doc)]}
  BY Zenon DEF sealEntryData, admin, keys_, compaction
<1>2. ASSUME NEW x \in write' PROVE WellSealed(x)
  <2>1. /\ x.doc = doc /\ x.epoch = enc.epoch
        /\ x.stored = encrypt(enc.policy, current, doc)
    <3> DEFINE v == encrypt(enc.policy, current, doc)
    <3>1. x = [id |-> id, doc |-> doc, epoch |-> enc.epoch, stored |-> v]
      BY <1>1, <1>2, Zenon
    <3> HIDE DEF v
    <3>2. x.doc = doc /\ x.epoch = enc.epoch /\ x.stored = v BY ONLY <3>1
    <3> QED BY <3>2, Zenon DEF v
  <2> QED BY <2>1, FreshlySealed, Zenon
<1>3. \A x \in Coming' : WellSealed(x) BY <1>1, <1>2, Zenon DEF Forms, Coming
<1>4. Forms' BY <1>1, <1>3, SealedKept, Zenon DEF Forms
<1>5. Modes' /\ KeysInv' BY <1>1, Zenon DEF Modes, KeysInv, Policy, Policies, Key, MaxKey
<1> QED BY <1>4, <1>5, Zenon

\* An append stores the form that was sealed (Append).
LEMMA FormAppend ==
    ASSUME MigInv, FormInv, NEW full \in BOOLEAN, Append(full)
    PROVE  FormInv'
<1>1. /\ UNCHANGED <<enc, meta, ring, current, pass, setting>>
      /\ write' = NoWrite
  BY Zenon DEF Append, admin, keys_, compaction
<1>2. PICK x \in write :
        \A d \in log' :
          \/ Like(d, x)
          \/ \E e \in log : /\ Like(d, e)
                            /\ d = e \/ (e.seg = "active" /\ d.seg = "sealed")
  BY AppendFacts, ZenonT(30) DEF MigInv
<1>3. "active" \notin Lost BY Zenon DEF Lost
<1>4. ASSUME NEW d \in log' PROVE From(d)
  <2>1. CASE Like(d, x) BY <2>1, Zenon DEF From, Coming
  <2>2. CASE \E e \in log : /\ Like(d, e)
                            /\ d = e \/ (e.seg = "active" /\ d.seg = "sealed")
    BY <1>3, <2>2, Zenon DEF From
  <2> QED BY ONLY <1>2, <1>4, <2>1, <2>2, Zenon
<1>5. Coming' \subseteq Coming BY <1>1, Zenon DEF Coming, NoWrite
<1> QED BY <1>1, <1>4, <1>5, FormFewer, Zenon

\* A change that is persisted leaves the forms: nothing is at its epoch yet.
LEMMA FormChange ==
    ASSUME MigInv, FormInv, NEW mode, NEW p \in Policy, NEW key,
           applyEncryptionChange(mode, p, key),
           p.mode \in {Off.mode, mode}, enc.epoch > 0 => mode = enc.readMode,
           key \in {current, meta.key}
    PROVE  FormInv'
<1> USE DEF FormInv
<1>1. /\ UNCHANGED <<enc, log, write, pass, ring, current, setting>>
      /\ adm' = [epoch |-> enc.epoch + 1, readMode |-> mode, policy |-> p]
      /\ meta' = [enc |-> adm', key |-> key]
  BY Zenon DEF applyEncryptionChange, keys_, compaction
<1>2. /\ meta'.enc.epoch = enc.epoch + 1 /\ meta'.enc.readMode = mode
      /\ meta'.enc.policy = p /\ meta'.key = key
  BY ONLY <1>1
<1>3. Modes' BY <1>1, <1>2, Zenon DEF Modes, Policy, Policies
<1>4. KeysInv'
  <2>1. MaxKey \in Nat BY KeysAssumption, Zenon DEF MigInv, Epochs, MaxKey
  <2>2. key \in Nat /\ key <= current BY <2>1 DEF KeysInv, Key
  <2>3. meta'.enc.epoch # 0 BY <1>2 DEF MigInv, Epochs
  <2> QED BY <1>1, <1>2, <2>2, <2>3, Zenon DEF KeysInv, Key, MaxKey
<1>5. ASSUME NEW x
      PROVE  /\ WellSealed(x) => WellSealed(x)'
             /\ OnceSealed(x) => OnceSealed(x)'
  <2>1. ASSUME x.epoch \in Nat, x.epoch <= enc.epoch PROVE x.epoch # meta'.enc.epoch
    BY <1>2, <2>1 DEF MigInv, Epochs
  <2>2. WellSealed(x) => WellSealed(x)'
    BY <1>1, <2>1, Zenon DEF WellSealed, SealedBy, Policy, Policies
  <2>3. OnceSealed(x) => OnceSealed(x)'
    BY <1>1, <2>1, Zenon DEF OnceSealed, SealedBy, Policy, Policies, Key, MaxKey
  <2> QED BY <2>2, <2>3, Zenon
<1>6. Coming' = Coming BY <1>1, Zenon DEF Coming
<1>7. Forms' BY <1>1, <1>5, <1>6, Zenon DEF Forms
<1> QED BY <1>3, <1>4, <1>7, Zenon

\* An encryptor that moves on to the persisted block keeps the forms readable:
\* the read mode is the same, or nothing was encrypted before.
LEMMA FormEncMoves ==
    ASSUME MigInv, FormInv, enc' = meta.enc,
           UNCHANGED <<meta, write, pass, ring, setting>>,
           \A d \in log' : \E e \in log : /\ Like(d, e)
                                          /\ d = e \/ d.seg \in Lost
    PROVE  Modes' /\ Forms'
<1> USE DEF FormInv
<1>1. Modes' BY Zenon DEF Modes, Policy, Policies
<1>2. ASSUME NEW d \in log'
      PROVE  OnceSealed(d) /\ (d.seg \notin Lost => WellSealed(d))
  BY SealedLike, Zenon DEF Forms
<1>3. Coming' = Coming BY Zenon DEF Coming
<1>4. SUFFICES ASSUME NEW x
               PROVE  /\ WellSealed(x) => WellSealed(x)'
                      /\ OnceSealed(x) => OnceSealed(x)'
  BY <1>1, <1>2, <1>3, Zenon DEF Forms
<1>5. CASE meta.enc = enc
  <2>1. enc' = enc BY <1>5, Zenon
  <2> QED BY <2>1, SealedKept, Zenon
<1>6. CASE meta.enc.epoch = enc.epoch + 1
  <2>1. enc.readMode \in {Off.mode, enc'.readMode}
    <3>1. CASE enc.epoch = 0
      <4>1. Nil.readMode = Off.mode BY OffMode, Zenon DEF Nil
      <4> QED BY <3>1, <4>1, Zenon DEF MigInv, Epochs
    <3>2. CASE enc.epoch > 0 BY <3>2, Zenon DEF Modes
    <3> QED BY <3>1, <3>2 DEF MigInv, Epochs
  <2>2. ASSUME x.epoch \in Nat, x.epoch <= enc.epoch
        PROVE  x.epoch # enc'.epoch /\ x.epoch # meta.enc.epoch /\ x.epoch <= enc'.epoch
    BY <1>6, <2>2 DEF MigInv, Epochs
  <2>3. ASSUME x.epoch \in Nat, x.epoch <= enc.epoch, NEW p, NEW k, SealedBy(x, p, k)
        PROVE  SealedBy(x, p, k)'
    BY <2>1, <2>2, <2>3, Zenon DEF SealedBy
  <2>4. WellSealed(x) => WellSealed(x)'
    BY <2>2, <2>3, Zenon DEF WellSealed, Policy, Policies
  <2>5. OnceSealed(x) => OnceSealed(x)'
    BY <2>2, <2>3, Zenon DEF OnceSealed, Policy, Policies, Key, MaxKey
  <2> QED BY <2>4, <2>5, Zenon
<1> QED BY <1>5, <1>6, Zenon DEF MigInv, Epochs

\* A re-encrypting pass writes forms that read back (compactor.go:290-316).
LEMMA FormBegin ==
    ASSUME MigInv, FormInv, Begin, UNCHANGED <<admin, keys_, log, write, setting>>
    PROVE  FormInv'
<1> USE DEF FormInv
<1>1. UNCHANGED <<enc, meta, ring, current, log, write, setting>>
  BY Zenon DEF admin, keys_
<1>2. ASSUME NEW d \in pass'.to PROVE WellSealed(d)
  <2>1. PICK e \in log : \/ e.epoch = enc.epoch /\ Like(d, e)
                         \/ Reads(e, {}).ok /\ Like(d, reencrypt(e))
    BY <1>2, BeginFacts, Zenon DEF MigInv
  <2>2. IsEntry(e) /\ OnceSealed(e) BY Zenon DEF MigInv, Entries, Forms
  <2>3. CASE e.epoch = enc.epoch /\ Like(d, e)
    <3>1. WellSealed(e) BY <2>2, <2>3, Zenon DEF OnceSealed, WellSealed
    <3> QED BY <2>3, <3>1, SealedLike, Zenon
  <2>4. CASE Reads(e, {}).ok /\ Like(d, reencrypt(e))
    <3>1. WellSealed(reencrypt(e)) BY <2>2, <2>4, ReencryptWell, Zenon
    <3> QED BY <2>4, <3>1, SealedLike, Zenon
  <2> QED BY <2>1, <2>3, <2>4, Zenon
<1>3. \A x \in Coming' : WellSealed(x) BY <1>1, <1>2, Zenon DEF Forms, Coming
<1>4. Forms' BY <1>1, <1>3, SealedKept, Zenon DEF Forms
<1>5. Modes' /\ KeysInv' BY <1>1, Zenon DEF Modes, KeysInv, Policy, Policies, Key, MaxKey
<1> QED BY <1>4, <1>5, Zenon

\* Keys are dropped when a completed migration has left nothing sealed with
\* them outside the segments that swaps dropped; where migrations may overlap
\* writes there is one key and none to drop.
LEMMA FormRetire ==
    ASSUME MigInv, FormInv, RetireKeys
    PROVE  FormInv'
<1> USE DEF FormInv
<1>1. /\ up /\ adm = Nil /\ enc.epoch > 0
      /\ meta.key = current /\ migrated = enc.epoch
      /\ ring' = {k \in ring : k >= current} /\ ring' # ring
      /\ UNCHANGED <<enc, meta, current, log, write, pass, setting>>
  BY Zenon DEF RetireKeys, admin, compaction
<1>2. MaxKey \in Nat BY KeysAssumption, Zenon DEF MigInv, Epochs, MaxKey
<1>3. ring \subseteq 1..MaxKey /\ current \in ring BY Zenon DEF KeysInv, Key
<1>4. Quiet
  <2>1. Quiet \/ MaxKey = 1 BY KeysAssumption, Zenon DEF MigInv, Epochs, MaxKey, Quiet
  <2>2. ASSUME MaxKey = 1 PROVE FALSE
    <3>1. \A k \in ring : k >= current
      <4>1. \A k \in 1..1 : k = 1 OBVIOUS
      <4>2. \A k \in ring : k = 1 BY <1>3, <2>2, <4>1, Zenon
      <4>3. 1 >= 1 OBVIOUS
      <4> QED BY <1>3, <4>2, <4>3, Zenon
    <3> QED BY <1>1, <3>1, Zenon
  <2> QED BY <2>1, <2>2, Zenon
<1>5. (\A x \in Coming : x.epoch = enc.epoch) /\ (\A e \in log : Done(e))
  BY <1>1, <1>4, Zenon DEF MigInv, Migration
<1>6. meta.enc = enc BY <1>1, Zenon DEF MigInv, Epochs
<1>7. KeysInv'
  <2>1. current \in ring' BY <1>1, <1>2, <1>3
  <2>2. ring' \subseteq ring BY <1>1, Zenon
  <2> QED BY <1>1, <2>1, <2>2, Zenon DEF KeysInv, Key, MaxKey
<1>8. Modes' BY <1>1, Zenon DEF Modes, Policy, Policies
<1>9. ASSUME NEW x, NEW p, NEW k \in ring, x.epoch = enc.epoch, SealedBy(x, p, k)
      PROVE  k \in ring'
  <2>1. k >= current BY <1>1, <1>6, <1>9, Zenon DEF SealedBy
  <2> QED BY <1>1, <2>1, Zenon
<1>10. \A x, p, k : SealedBy(x, p, k) => SealedBy(x, p, k)' BY <1>1, Zenon DEF SealedBy
<1>11. Policy' = Policy /\ Key' = Key
  BY <1>1, Zenon DEF Policy, Policies, Key, MaxKey
<1>12. ASSUME NEW x, WellSealed(x), x.epoch = enc.epoch PROVE WellSealed(x)'
  <2>1. PICK p \in Policy, k \in ring : SealedBy(x, p, k)
    BY <1>12, Zenon DEF WellSealed
  <2>2. k \in ring' /\ SealedBy(x, p, k)' BY <1>9, <1>10, <1>12, <2>1, Zenon
  <2> QED BY <1>1, <1>11, <1>12, <2>2, Zenon DEF WellSealed
<1>13. ASSUME NEW x, OnceSealed(x) PROVE OnceSealed(x)'
  <2>1. PICK p \in Policy, k \in Key :
            SealedBy(x, p, k) /\ (x.epoch = enc.epoch => k \in ring)
    BY <1>13, Zenon DEF OnceSealed
  <2>2. SealedBy(x, p, k)' BY <1>10, <2>1, Zenon
  <2>3. x.epoch = enc.epoch => k \in ring' BY <1>9, <2>1, Zenon
  <2> QED BY <1>1, <1>11, <1>13, <2>2, <2>3, Zenon DEF OnceSealed
<1>14. Coming' = Coming BY <1>1, Zenon DEF Coming
<1>15. ASSUME NEW e \in log, e.seg \notin Lost PROVE WellSealed(e)'
  <2>1. WellSealed(e) /\ e.epoch = enc.epoch BY <1>5, <1>15, Zenon DEF Forms, Done
  <2> QED BY <1>12, <2>1, Zenon
<1>16. Forms' BY <1>1, <1>5, <1>12, <1>13, <1>14, <1>15, Zenon DEF Forms
<1> QED BY <1>7, <1>8, <1>16, Zenon

\* Every step keeps the invariant of the stored forms.
LEMMA FormNext ==
    ASSUME MigInv, FormInv, [Next]_vars
    PROVE  FormInv'
<1>1. ASSUME NEW id \in Ids, NEW doc \in Docs, sealEntryData(id, doc) PROVE FormInv'
  BY <1>1, FormSeal, Zenon
<1>2. ASSUME NEW full \in BOOLEAN, Append(full) PROVE FormInv'
  BY <1>2, FormAppend, Zenon
<1>3. ASSUME NEW p \in Policies, SetEncryptionPolicy(p) PROVE FormInv'
  <2>1. p \in Policy BY Zenon DEF Policy
  <2>2. enc.epoch > 0 => p.mode = enc.readMode
    <3>1. enc.epoch > 0 => enc.epoch # 0 BY DEF MigInv, Epochs
    <3> QED BY <1>3, <3>1, Zenon DEF SetEncryptionPolicy, PolicyAccepted
  <2>3. PICK key \in {current, meta.key} : applyEncryptionChange(p.mode, p, key)
    BY <1>3, Zenon DEF SetEncryptionPolicy
  <2> QED BY <2>1, <2>2, <2>3, FormChange, Zenon
<1>4. CASE Disable
  <2>1. Off \in Policy BY Zenon DEF Policy
  <2>2. applyEncryptionChange(enc.readMode, Off, meta.key) BY <1>4, Zenon DEF Disable
  <2> QED BY <2>1, <2>2, FormChange, Zenon
<1>5. CASE RotateKey
  <2>1. /\ enc.policy \in Policy
        /\ enc.policy.mode \in {Off.mode, enc.readMode}
    BY Zenon DEF FormInv, Modes
  <2>2. applyEncryptionChange(enc.readMode, enc.policy, current)
    BY <1>5, Zenon DEF RotateKey
  <2> QED BY <2>1, <2>2, FormChange, Zenon
<1>6. CASE SwapEncryptor
  <2>1. /\ adm # Nil /\ enc' = adm
        /\ UNCHANGED <<meta, ring, current, log, write, pass, setting>>
    BY <1>6, Zenon DEF SwapEncryptor, keys_, compaction
  <2>2. enc' = meta.enc BY <2>1, Zenon DEF MigInv, Epochs
  <2>3. Modes' /\ Forms' BY <2>1, <2>2, FormEncMoves, Zenon DEF Like
  <2>4. KeysInv' BY <2>1, Zenon DEF FormInv, KeysInv, Key, MaxKey
  <2> QED BY <2>3, <2>4, Zenon DEF FormInv
<1>7. ASSUME NEW k \in Key, SetCurrent(k) PROVE FormInv'
  <2>1. /\ k \in ring /\ k > current /\ current' = k
        /\ UNCHANGED <<enc, meta, ring, log, write, pass, setting>>
    BY <1>7, Zenon DEF SetCurrent, admin, compaction
  <2>2. MaxKey \in Nat BY KeysAssumption, Zenon DEF MigInv, Epochs, MaxKey
  <2>3. meta.key <= k BY <2>1, <2>2 DEF FormInv, KeysInv, Key
  <2>4. KeysInv' BY <2>1, <2>3, Zenon DEF FormInv, KeysInv, Key, MaxKey
  <2>5. Modes' BY <2>1, Zenon DEF FormInv, Modes, Policy, Policies
  <2>6. Forms' BY <2>1, SealedKept, Zenon DEF FormInv, Forms, Coming
  <2> QED BY <2>4, <2>5, <2>6, Zenon DEF FormInv
<1>8. ASSUME NEW k \in Key, initEncryption(k) PROVE FormInv'
  <2>1. /\ k \in ring /\ (meta.enc.epoch > 0 => k = meta.key)
        /\ current' = k /\ enc' = meta.enc
        /\ UNCHANGED <<meta, ring, write, pass, setting>>
    BY <1>8, Zenon DEF initEncryption, compaction
  <2>2. Modes' /\ Forms'
    <3>1. \A d \in log' : \E e \in log : Like(d, e) /\ (d = e \/ d.seg \in Lost)
      BY <1>8, RevivedFacts, Zenon DEF MigInv
    <3> QED BY <2>1, <3>1, FormEncMoves, Zenon
  <2>3. MaxKey \in Nat BY KeysAssumption, Zenon DEF MigInv, Epochs, MaxKey
  <2>4. meta.enc.epoch \in Nat BY DEF MigInv, Epochs
  <2>5. meta.key <= k BY <2>1, <2>3, <2>4 DEF FormInv, KeysInv, Key
  <2>6. KeysInv' BY <2>1, <2>5, Zenon DEF FormInv, KeysInv, Key, MaxKey
  <2> QED BY <2>2, <2>6, Zenon DEF FormInv
<1>9. CASE RetireKeys BY <1>9, FormRetire, Zenon
<1>10. CASE CompactDirty BY <1>10, FormBegin, Zenon DEF CompactDirty
<1>11. CASE CompactPending BY <1>11, FormBegin, Zenon DEF CompactPending
<1>12. CASE Swap
  <2>1. pass' = NoPass /\ UNCHANGED <<enc, meta, ring, current, write, setting>>
    BY <1>12, Zenon DEF Swap, admin, keys_
  <2>2. Coming' \subseteq Coming BY <2>1, NoPassFacts, Zenon DEF Coming
  <2>3. \A d \in log' : \/ d \in pass.to
                        \/ \E e \in log : Like(d, e) /\ (d = e \/ d.seg \in Lost)
    BY <1>12, SwapFacts, Zenon DEF MigInv
  <2>4. \A d \in log' : From(d) BY <2>3, Zenon DEF From, Coming, Like
  <2> QED BY <2>1, <2>2, <2>4, FormFewer, Zenon
<1>13. CASE MigrateNow
  <2>1. /\ log' = Sealed(log)
        /\ UNCHANGED <<enc, meta, ring, current, write, pass, setting>>
    BY <1>13, Zenon DEF MigrateNow, admin, keys_
  <2>2. \A d \in log' : \E e \in log : /\ Like(d, e)
                                        /\ \/ e.seg # "active" /\ d = e
                                           \/ e.seg = "active" /\ d.seg = "sealed"
    <3>1. \A e \in log : IsEntry(e) BY Zenon DEF MigInv, Entries
    <3> QED BY <2>1, <3>1, SealedFacts, Zenon
  <2>3. "active" \notin Lost BY Zenon DEF Lost
  <2>4. \A d \in log' : From(d) BY <2>2, <2>3, Zenon DEF From
  <2>5. Coming' \subseteq Coming BY <2>1, Zenon DEF Coming
  <2> QED BY <2>1, <2>4, <2>5, FormFewer, Zenon
<1>14. CASE MigrateCompact BY <1>14, FormBegin, Zenon DEF MigrateCompact
<1>15. CASE Crash
  <2>1. /\ write' = NoWrite /\ pass' = NoPass
        /\ UNCHANGED <<enc, meta, ring, current, log, setting>>
    BY <1>15, Zenon DEF Crash, keys_
  <2>2. Coming' \subseteq Coming BY <2>1, NoPassFacts, Zenon DEF Coming, NoWrite
  <2>3. \A d \in log' : From(d) BY <2>1, Zenon DEF From, Like
  <2> QED BY <2>1, <2>2, <2>3, FormFewer, Zenon
<1>16. CASE CompactNow BY <1>16, FormBegin, Zenon DEF CompactNow
<1>17. CASE UNCHANGED vars
  <2>1. UNCHANGED <<enc, meta, ring, current, log, write, pass, setting>>
    BY <1>17, Zenon DEF vars
  <2>2. Coming' \subseteq Coming BY <2>1, Zenon DEF Coming
  <2>3. \A d \in log' : From(d) BY <2>1, Zenon DEF From, Like
  <2> QED BY <2>1, <2>2, <2>3, FormFewer, Zenon
<1> QED BY <1>1, <1>2, <1>3, <1>4, <1>5, <1>6, <1>7, <1>8, <1>9, <1>10, <1>11,
           <1>12, <1>13, <1>14, <1>15, <1>16, <1>17, ZenonT(30) DEF Next

\* Every stored form was sealed under a policy of the fixed read mode, with a key
\* that the ring still has unless a swap dropped its segment (compactor.go:175).
THEOREM FormInvariant == Spec => []FormInv
<1>1. MigInv /\ FormInv /\ [Next]_vars => FormInv' BY FormNext, Zenon
<1> QED BY <1>1, FormInit, MigrationInvariant, PTL DEF Spec

\* Every live record, whole or projected, reads back as it was written, under
\* every history of policies, passes, migrations, rotations, retired keys and
\* restarts (encryption.go:249-356); one that a restart brought back from a
\* dropped segment reads back so or is refused.
THEOREM ReadsBackHolds == Spec => []ReadsBack
<1>1. ASSUME FormInv, NEW e \in Live, e.seg \notin Lost
      PROVE  /\ Reads(e, {}) = Read(e.doc)
             /\ \A F \in (SUBSET DOMAIN e.doc) \ {{}} :
                   Reads(e, F) = Read(Part(e.doc, F \cup {KeyField}))
  <2>1. WellSealed(e) BY <1>1, Zenon DEF FormInv, Forms, Live, Latest
  <2>2. PICK p \in Policy, k \in ring : SealedBy(e, p, k)
    BY <2>1, Zenon DEF WellSealed
  <2>3. e.doc \in Docs /\ p.mode \in {Off.mode, enc.readMode}
    BY <2>1, <2>2, Zenon DEF WellSealed, SealedBy
  <2>4. /\ materialize(enc.readMode, encrypt(p, k, e.doc), ring, {}) = Read(e.doc)
        /\ \A F \in SUBSET DOMAIN e.doc : F # {} =>
              materialize(enc.readMode, encrypt(p, k, e.doc), ring, F)
                 = Read(Part(e.doc, F \cup {KeyField}))
    BY ONLY k \in ring, <2>3, ReadBack
  <2>5. e.stored = encrypt(p, k, e.doc) BY <2>2, Zenon DEF SealedBy
  <2> QED BY <2>4, <2>5, Zenon DEF Reads
<1>2. ASSUME FormInv, NEW e \in Live
      PROVE  /\ Reads(e, {}) \in {Read(e.doc), Failed}
             /\ \A F \in (SUBSET DOMAIN e.doc) \ {{}} :
                   Reads(e, F) \in {Read(Part(e.doc, F \cup {KeyField})), Failed}
  <2>1. OnceSealed(e) BY <1>2, Zenon DEF FormInv, Forms, Live, Latest
  <2>2. ASSUME NEW F \in SUBSET DOMAIN e.doc
        PROVE  \/ Reads(e, F) = Failed
               \/ Reads(e, F)
                     = Read(IF F = {} THEN e.doc ELSE Part(e.doc, F \cup {KeyField}))
    BY <2>1, EntryReads, Zenon
  <2>3. Reads(e, {}) \in {Read(e.doc), Failed}
    <3>1. {} \in SUBSET DOMAIN e.doc BY Zenon
    <3> QED BY <2>2, <3>1, Zenon
  <2>4. ASSUME NEW F \in (SUBSET DOMAIN e.doc) \ {{}}
        PROVE  Reads(e, F) \in {Read(Part(e.doc, F \cup {KeyField})), Failed}
    <3>1. F \in SUBSET DOMAIN e.doc /\ F # {} BY <2>4, Zenon
    <3> QED BY <2>2, <3>1, Zenon
  <2> QED BY <2>3, <2>4, Zenon
<1>3. FormInv => ReadsBack
  <2>1. SUFFICES ASSUME FormInv, NEW e \in Live
                 PROVE  LET refusal == IF e.seg \in Lost THEN {Failed} ELSE {} IN
                        /\ Reads(e, {}) \in {Read(e.doc)} \cup refusal
                        /\ \A F \in (SUBSET DOMAIN e.doc) \ {{}} :
                              Reads(e, F) \in {Read(Part(e.doc, F \cup {KeyField}))}
                                              \cup refusal
    BY Zenon DEF ReadsBack
  <2>2. CASE e.seg \in Lost BY <1>2, <2>1, <2>2, Zenon
  <2>3. CASE e.seg \notin Lost BY <1>1, <2>1, <2>3, Zenon
  <2> QED BY <2>2, <2>3, Zenon
<1> QED BY <1>3, FormInvariant, PTL

\* Once the status reports functional completeness, every field that a filter
\* may name is stored in plaintext in every live record
\* (encryption_admin.go:41-62, encryption.go:401-421).
THEOREM QueriesSeePlaintextHolds == Spec => []QueriesSeePlaintext
<1>1. ASSUME MigInv, FormInv, EncryptionStatus.functionalComplete, NEW e \in Live
      PROVE  e.epoch = enc.epoch
  <2> DEFINE at == {d \in Live : d.epoch = enc.epoch}
  <2>1. Live \subseteq log /\ at \subseteq Live BY Zenon DEF Live, Latest
  <2>2. CASE enc = Nil
    <3>1. e.epoch \in Nat /\ e.epoch <= enc.epoch
      BY <1>1, <2>1, Zenon DEF FormInv, Forms, OnceSealed
    <3>2. enc.epoch = 0 BY <2>2, NilFacts, Zenon
    <3> QED BY <3>1, <3>2
  <2>3. CASE enc # Nil
    <3>1. EncryptionStatus.functionalComplete
            <=> enc = Nil \/ countAtEpoch(enc.epoch).total = countAtEpoch(enc.epoch).at
      BY Zenon DEF EncryptionStatus
    <3>2. /\ countAtEpoch(enc.epoch).total = Cardinality(Live)
          /\ countAtEpoch(enc.epoch).at = Cardinality(at)
      BY Zenon DEF countAtEpoch
    <3>3. Cardinality(Live) = Cardinality(at) BY <1>1, <2>3, <3>1, <3>2, Zenon
    <3>4. IsFiniteSet(Live)
      BY <1>1, <2>1, FS_Subset, Zenon DEF MigInv, Entries
    <3>5. Live = at BY <2>1, <3>3, <3>4, FS_Subset, Zenon
    <3> QED BY <3>5, Zenon
  <2> QED BY <2>2, <2>3, Zenon
<1>2. ASSUME MigInv, FormInv, EncryptionStatus.functionalComplete, NEW e \in Live,
             NEW f \in DOMAIN e.doc, ~isEncryptedField(enc.policy, f)
      PROVE  f \in DOMAIN e.stored /\ e.stored[f] = Plain(Part(e.doc, {f}))
  <2>1. OnceSealed(e) BY <1>2, Zenon DEF FormInv, Forms, Live, Latest
  <2>2. PICK p \in Policy, k \in Key : SealedBy(e, p, k)
    BY <2>1, Zenon DEF OnceSealed
  <2>3. e.stored = encrypt(enc.policy, k, e.doc)
    BY <1>1, <1>2, <2>2, Zenon DEF SealedBy
  <2>4. CASE enc.policy.mode = "record"
    <3>1. secureDataField \notin DOMAIN e.doc
      BY <2>1, DocsAssumption, Zenon DEF OnceSealed
    <3>2. RecordCells(e.stored, e.doc, enc.policy, k)
      BY <2>3, <2>4, <3>1, RecordForm, Zenon
    <3>3. f \notin Hidden(enc.policy, e.doc) BY <1>2, Zenon DEF Hidden
    <3> QED BY <1>2, <3>2, <3>3, Zenon DEF RecordCells
  <2>5. CASE enc.policy.mode # "record"
    <3>1. FieldCells(e.stored, e.doc, enc.policy, k)
      BY <2>3, <2>5, FieldForm, Zenon
    <3> QED BY <1>2, <3>1, Zenon DEF FieldCells
  <2> QED BY <2>4, <2>5, Zenon
<1>3. MigInv /\ FormInv => QueriesSeePlaintext
  BY <1>2, Zenon DEF QueriesSeePlaintext
<1> QED BY <1>3, MigrationInvariant, FormInvariant, PTL
=============================================================================

---------------------------- MODULE MCEncryption ----------------------------
(* Instances of Encryption over a document with a key and two fields:      *)
(* field-level policies with two master keys and a crash, record-level     *)
(* ones with two keys and two records, and migrations that overlap a write.*)
EXTENDS Encryption

OneDoc == {[f \in {KeyField, "a", "b"} |-> f]}

FieldPolicies == {[mode |-> "fields", set |-> s] : s \in {{"a"}, {"b"}}}
RecordPolicies == {[mode |-> "record", set |-> s] : s \in {{}, {"a"}}}

Uses ==
  [fields  |-> [policies |-> FieldPolicies, keys |-> 2, epochs |-> 3, revs |-> 2,
                crashes |-> 1, ids |-> 1, quiet |-> TRUE],
   record  |-> [policies |-> RecordPolicies, keys |-> 2, epochs |-> 2, revs |-> 2,
                crashes |-> 0, ids |-> 2, quiet |-> TRUE],
   overlap |-> [policies |-> RecordPolicies, keys |-> 1, epochs |-> 2, revs |-> 2,
                crashes |-> 1, ids |-> 2, quiet |-> FALSE]]
=============================================================================

----------------------------- MODULE MCDatabase -----------------------------
(* Instances of Database: a passphrase with collections that come and go,  *)
(* and a keyring whose keys are rotated, mistaken and promoted.            *)
EXTENDS Database

Uses ==
  [passphrase |-> [provider |-> "passphrase", encrypted |-> {1, 2}, gens |-> 6,
                   runtime |-> FALSE, drops |-> TRUE, mistakes |-> FALSE],
   keyring    |-> [provider |-> "keyring", encrypted |-> {1}, gens |-> 6,
                   runtime |-> TRUE, drops |-> FALSE, mistakes |-> TRUE]]
=============================================================================

---------------------------- MODULE MCSnapshots -----------------------------
(* Instances of Snapshots: one snapshot beside writers and two compaction  *)
(* passes, and two snapshots that share the temporary index file.          *)
EXTENDS Snapshots

Cases ==
  [one |-> [snaps |-> {"s1"}, ids |-> 2, segs |-> 3, puts |-> 3, passes |-> 2],
   two |-> [snaps |-> {"s1", "s2"}, ids |-> 1, segs |-> 2, puts |-> 1, passes |-> 1]]
=============================================================================

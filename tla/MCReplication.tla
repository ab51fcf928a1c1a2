--------------------------- MODULE MCReplication ----------------------------
(* Replication for TLC: four deployments.                                  *)
EXTENDS Replication

CONSTANTS a, b, c

\* One follower, two records: bootstrap, tail, a lost connection, a crash of the
\* follower or a clean restart of either node.
Steady ==
  [nodes |-> {a, b}, ids |-> 2, ring |-> 2, sync |-> TRUE, commits |-> 4,
   faults |-> {"close", "crash", "disconnect"}, maxFaults |-> 1, promotes |-> 0, drops |-> 0]

\* The same with one record and two of these faults.
Shaken == [Steady EXCEPT !.ids = 1, !.maxFaults = 2]

\* Every fault, a promotion and a dropped collection.
Faulty ==
  [nodes |-> {a, b}, ids |-> 1, ring |-> 1, sync |-> FALSE, commits |-> 2,
   faults |-> FaultKinds, maxFaults |-> 2, promotes |-> 1, drops |-> 1]

\* Two followers: one is promoted, the other restarted against it.
Failover ==
  [nodes |-> {a, b, c}, ids |-> 2, ring |-> 1, sync |-> TRUE, commits |-> 2,
   faults |-> {"disconnect"}, maxFaults |-> 1, promotes |-> 1, drops |-> 0]

MCDeployments == {Steady, Shaken, Faulty, Failover}
=============================================================================

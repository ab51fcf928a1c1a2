--------------------------- MODULE MCTransactions ---------------------------
(* Transactions for TLC: three settings.                                   *)
EXTENDS Transactions

CONSTANTS c1, c2, a, b, c

\* One client, two staged operations, a quota, writers beside it.
Serial ==
  [callers |-> {c1}, vals |-> {a, b, c}, ids |-> 3, ops |-> 2, records |-> 2, serial |-> TRUE,
   faults |-> {}, maxFaults |-> 0, direct |-> 2, drops |-> 0]

\* The same client under every fault.
Failing ==
  [Serial EXCEPT !.vals = {a}, !.ids = 2, !.faults = {"crash", "append", "sync"}, !.maxFaults = 1,
                 !.direct = 1]

\* Two requests at once on one transaction, every fault, and a drop.
Concurrent ==
  [callers |-> {c1, c2}, vals |-> {a}, ids |-> 2, ops |-> 1, records |-> 0, serial |-> FALSE,
   faults |-> {"crash", "append", "sync"}, maxFaults |-> 1, direct |-> 0, drops |-> 1]

MCSettings == [serial |-> Serial, failing |-> Failing, concurrent |-> Concurrent]
=============================================================================

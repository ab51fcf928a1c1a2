---------------------------- MODULE RecordStore -----------------------------
(***************************************************************************)
(* What a collection promises its callers: a map from ids to payloads,     *)
(* changed atomically by inserts of never-used ids, updates and deletes of *)
(* live records, and by nothing else.  Rotation, compaction, crashes and   *)
(* restarts do not appear: they must be invisible.                         *)
(***************************************************************************)
CONSTANTS Id, Value, Nil

VARIABLES store,    \* id -> payload, or Nil
          issued    \* the ids inserts have used

Init == store = [id \in Id |-> Nil] /\ issued = {}

Insert(ids, v) ==
  /\ ids \cap issued = {}
  /\ issued' = issued \cup ids
  /\ store' = [id \in Id |-> IF id \in ids THEN v ELSE store[id]]

Update(id, v) ==
  /\ store[id] # Nil
  /\ store' = [store EXCEPT ![id] = v]
  /\ UNCHANGED issued

Delete(id) ==
  /\ store[id] # Nil
  /\ store' = [store EXCEPT ![id] = Nil]
  /\ UNCHANGED issued

Next == \/ \E ids \in (SUBSET Id) \ {{}}, v \in Value : Insert(ids, v)
        \/ \E id \in Id : Delete(id) \/ \E v \in Value : Update(id, v)

Spec == Init /\ [][Next]_<<store, issued>>
=============================================================================

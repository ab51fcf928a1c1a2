------------------------------ MODULE MCRecords ------------------------------
(* Records for TLC: four settings.                                         *)
EXTENDS Records

CONSTANTS t1, t2, a, b

\* One caller of keyed calls, and plain writes between its steps.
Keys ==
  [vals |-> {a, b}, callers |-> {t1}, registered |-> {"_key", "f"}, ttl |-> 0, records |-> 0,
   ids |-> 2, revs |-> 3, clock |-> 0, builds |-> 0]

\* Two such callers on one record.
Races == [Keys EXCEPT !.callers = {t1, t2}, !.ids = 1]

\* A quota, and the _key index built while writes run.
Builds == [Keys EXCEPT !.callers = {t1, t2}, !.vals = {a}, !.revs = 2,
                       !.registered = {"f"}, !.records = 1, !.builds = 1]

\* Deadlines and the reaper.
Deadline == [Keys EXCEPT !.vals = {a}, !.registered = {"_key"}, !.ttl = 1, !.revs = 2, !.clock = 3]

MCSettings == [keys |-> Keys, races |-> Races, builds |-> Builds, deadlines |-> Deadline]
=============================================================================

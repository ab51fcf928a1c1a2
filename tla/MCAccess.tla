------------------------------ MODULE MCAccess ------------------------------
(* Key files and requests for Access.                                      *)
EXTENDS Access

Entry(key, name, scope, collections) ==
  [key |-> key, name |-> name, scope |-> scope, collections |-> collections]
File(keyList) == [parses |-> TRUE, keys |-> keyList]
Reader == Entry("k1", "reader", "read", {})
Writer == Entry("k2", "writer", "read-write", {"a"})

\* Keys come, go and change scope; the last three files are refused.
Rotating == {File(<<Reader, Writer>>), File(<<[Reader EXCEPT !.scope = "read-write"]>>), File(<<>>),
             File(<<Reader, [Writer EXCEPT !.key = "k1"]>>), File(<<[Writer EXCEPT !.key = "k0"]>>),
             [parses |-> FALSE, keys |-> <<>>]}
Both == {File(<<Reader, Writer>>)}

Ask(method, key, cert, collection) ==
  [method |-> method, key |-> key, cert |-> cert, collection |-> collection]
Audited == {Ask("Insert", "k1", "cn", "a"), Ask("Insert", "k2", NoName, "b"), Ask("Promote", "k0", NoName, "none"),
            Ask("Watch", "k2", NoName, "b"), Ask("FindById", NoKey, NoName, "a"), Ask("Insert", NoKey, "cn", "a"),
            Ask("Find", "k1", NoName, "a"), Ask("BeginTx", "k2", NoName, "a")}
Loading == {Ask("Watch", "k1", NoName, "a"), Ask("FindById", "k1", NoName, "a"), Ask("Insert", "k2", NoName, "a"),
            Ask("Find", "k2", NoName, "b")}
Mixed == Loading \ {Ask("FindById", "k1", NoName, "a")}
Cs == {"c1", "c2", "c3"}

\* A follower whose key file is reloaded, a server under both limits, and one
\* that a single feed can saturate.
Servers ==
  [audit   |-> [calls |-> {"c1", "c2"}, requests |-> Audited, configs |-> Rotating, apiKey |-> "k0",
                certAuth |-> TRUE, replica |-> TRUE, inflight |-> 0, burst |-> 0, reloads |-> 2],
   limited |-> [calls |-> Cs, requests |-> Mixed, configs |-> Both, apiKey |-> NoKey,
                certAuth |-> FALSE, replica |-> FALSE, inflight |-> 2, burst |-> 1, reloads |-> 0],
   full    |-> [calls |-> Cs, requests |-> Loading, configs |-> Both, apiKey |-> NoKey,
                certAuth |-> FALSE, replica |-> FALSE, inflight |-> 1, burst |-> 0, reloads |-> 0]]
=============================================================================

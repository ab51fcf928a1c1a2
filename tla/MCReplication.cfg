\* Two steady pairs, a pair with every fault, and a failover of three nodes.
CONSTANTS
  a = a
  b = b
  c = c
  Node = {a, b, c}
  First = a
  PromoteMaxLag = 0
  Deployments <- MCDeployments
SPECIFICATION FairSpec
INVARIANTS
  StalenessBounded
  FeedHasNoGap
  FailoverConverges
PROPERTIES
  FollowersCatchUp
CHECK_DEADLOCK FALSE

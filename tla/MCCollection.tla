---------------------------- MODULE MCCollection ----------------------------
(* Collection for TLC.                                                     *)
EXTENDS CollectionInv, TLC

\* Every invariant is about the time before the first hazard outside the set
\* it names, and hazards are never forgotten: states past these are not
\* expanded further.
NoHazardYet == hist \subseteq {"trustedAfterCrash", "crashInRotate"}

NoHazard == hist = {}

OnlyFailedIndex == hist \subseteq {"failedIndex"}

WriterSymmetry == Permutations(Writers)

ValueSymmetry == Permutations(Value)
=============================================================================

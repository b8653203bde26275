------------------------ MODULE MCRootSnapshotCache ------------------------
(* RootSnapshotCache on small instances.  Readers are interchangeable, and *)
(* so are mutators.                                                        *)
EXTENDS RootSnapshotCache, TLC

CONSTANTS A, B

TwoRules == <<A, B>>
OneRule == <<A>>

Symmetry == Permutations(Reader) \cup Permutations(Mutator)
=============================================================================

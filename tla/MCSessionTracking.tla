------------------------- MODULE MCSessionTracking -------------------------
(* SessionTracking on small instances: threads are interchangeable.        *)
EXTENDS SessionTracking, TLC

Symmetry == Permutations(Thread)
=============================================================================

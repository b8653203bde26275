---------------------- MODULE MCInvalidationScheduler ----------------------
(***************************************************************************)
(* Instances of InvalidationScheduler: each run's .cfg says how many        *)
(* addresses, objects and publishers it has.                               *)
(***************************************************************************)
EXTENDS InvalidationScheduler, TLC

CONSTANTS d1, d2, e1, e2, i1, i2

OneDirPerEntry == (e1 :> d1) @@ (e2 :> d2)
NoEntry == <<>>
InodeSymmetry == Permutations(Inode)
=============================================================================

-------------------------- MODULE MCUidRuleCache --------------------------
(* UidRuleCache on small instances.  Threads are interchangeable: no       *)
(* definition or invariant tells one from another.                         *)
EXTENDS UidRuleCache, TLC

Symmetry == Permutations(Thread)
=============================================================================

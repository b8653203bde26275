------------------------ MODULE MCNativeHookAdapter ------------------------
(* NativeHookAdapter on small instances: threads, targets and slots are    *)
(* interchangeable.                                                        *)
EXTENDS NativeHookAdapter, TLC

Symmetry == Permutations(Thread) \cup Permutations(Target) \cup Permutations(Slot)
=============================================================================

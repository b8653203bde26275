------------------------ MODULE KernelCachePromise ------------------------
(***************************************************************************)
(* What the publisher of a configuration is promised, without the queue:   *)
(* publishing makes what the kernel cached under the old rules stale, the  *)
(* kernel is told to forget it piece by piece, and the publication is      *)
(* acknowledged only when nothing stale is left in any session.            *)
(***************************************************************************)
EXTENDS Naturals

CONSTANTS Session, Target

VARIABLES stale, acknowledged

TypeOK ==
    /\ stale \in [Session -> SUBSET Target]
    /\ acknowledged \in Nat

Init ==
    /\ stale = [se \in Session |-> {}]
    /\ acknowledged = 0

Publish ==
    /\ stale' \in [Session -> SUBSET Target]
    /\ \A se \in Session : stale[se] \subseteq stale'[se]
    /\ UNCHANGED acknowledged

Forget ==
    /\ stale' \in [Session -> SUBSET Target]
    /\ \A se \in Session : stale'[se] \subseteq stale[se]
    /\ UNCHANGED acknowledged

Acknowledge ==
    /\ \A se \in Session : stale[se] = {}
    /\ acknowledged' \in Nat
    /\ UNCHANGED stale

Next == Publish \/ Forget \/ Acknowledge

Spec == Init /\ [][Next]_<<stale, acknowledged>>
=============================================================================

---------------------------- MODULE UidRuleCache ----------------------------
(***************************************************************************)
(* The hide rule of a uid (fusehide.cpp): FUSE threads resolve it through  *)
(* a slot of their own, a shared cache and, when both miss, PackageManager *)
(* and the published configuration, while configurations are published     *)
(* and packages come and go.                                               *)
(*                                                                         *)
(* Rules and package sets are version numbers: version n of the            *)
(* configuration is the one generation n announces.  Each load of an       *)
(* atomic is a step of its own; a hold of gUidHideCacheMutex is one step.  *)
(***************************************************************************)
EXTENDS Naturals, FiniteSets

CONSTANTS
    Thread,                  \* FUSE request threads
    Uid,
    PackageManagerFails,     \* whether a query may fail
    MaxConfig, MaxPackages   \* bounds of the instance

ASSUME UidRuleAssumption ==
    /\ PackageManagerFails \in BOOLEAN
    /\ MaxConfig \in Nat
    /\ MaxPackages \in Nat

VARIABLES
    config,                  \* gCompiledHideConfig
    configGeneration,        \* gHideConfigGeneration
    applying,                \* where ApplyHideConfig is
    installed,               \* the package set PackageManager answers from
    packageGeneration,       \* gUidPackageSetGeneration
    announced,               \* the package set of that generation (history)
    notifying,               \* where NotifyUidRulePackageSetChanged is
    shared,                  \* gUidHideRuleCache, an optional entry per uid
    slot,                    \* gThreadLocalUidHideRuleCache of each thread
    call                     \* the call each thread is in

publication == <<config, configGeneration, applying>>
packages == <<installed, packageGeneration, announced, notifying>>
vars == <<publication, packages, shared, slot, call>>

Version == [config: Nat, packages: Nat]
NoRule == [config |-> 0, packages |-> 0]      \* nothing could be resolved
Entry == [cg: Nat, pg: Nat, rule: Version]

Now == [config |-> configGeneration, packages |-> announced]
AtLeast(rule, version) ==
    rule.config >= version.config /\ rule.packages >= version.packages

CallState == [pc: {"idle", "config", "packages", "shared", "query", "compile",
                   "store", "resolved", "failed", "recheck", "recheck2"},
              uid: Uid, borrow: BOOLEAN,
              cg: Nat, pg: Nat,               \* the generations it loaded
              rule: Version,                  \* what it has resolved so far
              since: Version,                 \* what was current at the call (history)
              failed: BOOLEAN]                \* a query of this call failed (history)

IdleCall(uid) == [pc |-> "idle", uid |-> uid, borrow |-> FALSE, cg |-> 0, pg |-> 0,
                  rule |-> NoRule, since |-> NoRule, failed |-> FALSE]

Init ==
    /\ config = 1 /\ configGeneration = 1 /\ applying = "idle"
    /\ installed = 1 /\ packageGeneration = 1 /\ announced = 1 /\ notifying = "idle"
    /\ shared = [uid \in Uid |-> {}]
    /\ slot = [t \in Thread |-> {}]
    /\ \E uid \in Uid : call = [t \in Thread |-> IdleCall(uid)]

-----------------------------------------------------------------------------
(***************************************************************************)
(* ApplyHideConfig publishes the rules, then their generation, then drops  *)
(* what was resolved before.  Its mutex makes it one process.              *)
(***************************************************************************)
StoreConfig ==
    /\ applying = "idle" /\ config < MaxConfig
    /\ config' = config + 1
    /\ applying' = "stored"
    /\ UNCHANGED <<configGeneration, packages, shared, slot, call>>

\* Defect: the generation is announced before its rules are in place.
AnnounceThenStore ==
    \/ /\ applying = "idle" /\ config < MaxConfig
       /\ configGeneration' = configGeneration + 1
       /\ applying' = "stored"
       /\ UNCHANGED <<config, packages, shared, slot, call>>
    \/ /\ applying = "stored"
       /\ config' = config + 1
       /\ shared' = [uid \in Uid |-> {}]
       /\ applying' = "idle"
       /\ UNCHANGED <<configGeneration, packages, slot, call>>

BumpConfigGeneration ==
    /\ applying = "stored"
    /\ configGeneration' = configGeneration + 1
    /\ applying' = "bumped"
    /\ UNCHANGED <<config, packages, shared, slot, call>>

ClearAfterConfig ==
    /\ applying = "bumped"
    /\ shared' = [uid \in Uid |-> {}]
    /\ applying' = "idle"
    /\ UNCHANGED <<config, configGeneration, packages, slot, call>>

ApplyHideConfig == StoreConfig \/ BumpConfigGeneration \/ ClearAfterConfig

\* A package is added or removed; the broadcast comes some time later.
PackageSetChanges ==
    /\ installed < MaxPackages
    /\ installed' = installed + 1
    /\ UNCHANGED <<publication, packageGeneration, announced, notifying, shared, slot, call>>

BumpPackageGeneration ==
    /\ notifying = "idle" /\ announced < installed
    /\ packageGeneration' = packageGeneration + 1
    /\ announced' = installed
    /\ notifying' = "bumped"
    /\ UNCHANGED <<publication, installed, shared, slot, call>>

ClearAfterPackages ==
    /\ notifying = "bumped"
    /\ shared' = [uid \in Uid |-> {}]
    /\ notifying' = "idle"
    /\ UNCHANGED <<publication, installed, packageGeneration, announced, slot, call>>

NotifyUidRulePackageSetChanged == BumpPackageGeneration \/ ClearAfterPackages

-----------------------------------------------------------------------------
(***************************************************************************)
(* ResolveHideRuleForUid, and BorrowHideRuleForUid which repeats it until  *)
(* the generations stand still.  The borrower's own first look at the slot *)
(* is the resolver's.                                                      *)
(***************************************************************************)
Step(t, from, to) == call[t].pc = from /\ call' = [call EXCEPT ![t] = to]
At(t, pc) == [call[t] EXCEPT !.pc = pc]

\* What remains of a call is the rule it handed out, for the properties.
Return(t, rule) ==
    [IdleCall(call[t].uid) EXCEPT !.rule = rule, !.since = call[t].since,
                                  !.failed = call[t].failed]

Call(t) ==
    /\ \E uid \in Uid, borrow \in BOOLEAN :
          Step(t, "idle", [IdleCall(uid) EXCEPT !.pc = "config", !.borrow = borrow,
                                                !.since = Now])
    /\ UNCHANGED <<publication, packages, shared, slot>>

LoadConfigGeneration(t) ==
    /\ Step(t, "config", [At(t, "packages") EXCEPT !.cg = configGeneration])
    /\ UNCHANGED <<publication, packages, shared, slot>>

SlotMatches(t, cg, pg) ==
    \E s \in slot[t] : s.uid = call[t].uid /\ s.entry.cg = cg /\ s.entry.pg = pg

SlotRule(t) == (CHOOSE s \in slot[t] : TRUE).entry.rule

LoadPackageGeneration(t) ==
    /\ Step(t, "packages",
            IF SlotMatches(t, call[t].cg, packageGeneration)
            THEN Return(t, SlotRule(t))
            ELSE [At(t, "shared") EXCEPT !.pg = packageGeneration])
    /\ UNCHANGED <<publication, packages, shared, slot>>

Tagged(t, rule) == [cg |-> call[t].cg, pg |-> call[t].pg, rule |-> rule]
SlotOf(t, rule) == {[uid |-> call[t].uid, entry |-> Tagged(t, rule)]}

LookupShared(t) ==
    LET uid == call[t].uid
        hit == {e \in shared[uid] : e.cg = call[t].cg /\ e.pg = call[t].pg}
    IN  /\ \/ \E e \in hit :
                 /\ Step(t, "shared", [At(t, "resolved") EXCEPT !.rule = e.rule])
                 /\ slot' = [slot EXCEPT ![t] = SlotOf(t, e.rule)]
                 /\ UNCHANGED shared
           \/ /\ hit = {}
              /\ Step(t, "shared", At(t, "query"))
              /\ shared' = [shared EXCEPT ![uid] = {}]
              /\ UNCHANGED slot
        /\ UNCHANGED <<publication, packages>>

QueryPackageManager(t) ==
    /\ \/ Step(t, "query", [At(t, "compile") EXCEPT !.rule.packages = installed])
       \/ /\ PackageManagerFails
          /\ Step(t, "query", [At(t, "failed") EXCEPT !.rule = NoRule, !.failed = TRUE])
    /\ UNCHANGED <<publication, packages, shared, slot>>

CompileRule(t) ==
    /\ Step(t, "compile", [At(t, "store") EXCEPT !.rule.config = config])
    /\ UNCHANGED <<publication, packages, shared, slot>>

\* Defect: the entry is stored without a second look at the generations.
StoreUnchecked(t) ==
    /\ Step(t, "store", At(t, "resolved"))
    /\ shared' = [shared EXCEPT ![call[t].uid] = {Tagged(t, call[t].rule)}]
    /\ slot' = [slot EXCEPT ![t] = SlotOf(t, call[t].rule)]
    /\ UNCHANGED <<publication, packages>>

StoreResolved(t) ==
    /\ Step(t, "store", At(t, "resolved"))
    /\ shared' = IF configGeneration = call[t].cg /\ packageGeneration = call[t].pg
                 THEN [shared EXCEPT ![call[t].uid] = {Tagged(t, call[t].rule)}]
                 ELSE shared
    /\ slot' = [slot EXCEPT ![t] = SlotOf(t, call[t].rule)]
    /\ UNCHANGED <<publication, packages>>

\* ResolveHideRuleForUid returns, to its caller or to the borrower.
Resolved(t) ==
    /\ Step(t, "resolved",
            IF call[t].borrow THEN At(t, "recheck") ELSE Return(t, call[t].rule))
    /\ UNCHANGED <<publication, packages, shared, slot>>

\* Without an answer there is no rule; a borrower that has a slot of an older
\* generation goes on to compare it.
Failed(t) ==
    /\ Step(t, "failed",
            IF call[t].borrow /\ \E s \in slot[t] : s.uid = call[t].uid
            THEN At(t, "recheck") ELSE Return(t, NoRule))
    /\ UNCHANGED <<publication, packages, shared, slot>>

RecheckConfigGeneration(t) ==
    /\ Step(t, "recheck", [At(t, "recheck2") EXCEPT !.cg = configGeneration])
    /\ UNCHANGED <<publication, packages, shared, slot>>

\* Defect: the borrower hands out the slot whatever its generation.
ReturnAnySlot(t) ==
    /\ Step(t, "recheck2", Return(t, SlotRule(t)))
    /\ UNCHANGED <<publication, packages, shared, slot>>

RecheckPackageGeneration(t) ==
    /\ Step(t, "recheck2",
            IF SlotMatches(t, call[t].cg, packageGeneration)
            THEN Return(t, SlotRule(t))
            ELSE At(t, "config"))
    /\ UNCHANGED <<publication, packages, shared, slot>>

Continue(t) ==
    \/ LoadConfigGeneration(t) \/ LoadPackageGeneration(t) \/ LookupShared(t)
    \/ QueryPackageManager(t) \/ CompileRule(t) \/ StoreResolved(t)
    \/ Resolved(t) \/ Failed(t)
    \/ RecheckConfigGeneration(t) \/ RecheckPackageGeneration(t)

Next ==
    \/ ApplyHideConfig
    \/ PackageSetChanges
    \/ NotifyUidRulePackageSetChanged
    \/ \E t \in Thread : Call(t) \/ Continue(t)

Spec == Init /\ [][Next]_vars

\* A FUSE thread that is in a call goes on with it.
FairSpec == Spec /\ \A t \in Thread : WF_vars(Continue(t))

-----------------------------------------------------------------------------
\* Types; the shared cache and a slot hold at most one entry each.
TypeOK ==
    /\ config \in Nat /\ configGeneration \in Nat
    /\ applying \in {"idle", "stored", "bumped"}
    /\ installed \in Nat /\ packageGeneration \in Nat /\ announced \in Nat
    /\ notifying \in {"idle", "bumped"}
    /\ \A uid \in Uid : shared[uid] \subseteq Entry /\ Cardinality(shared[uid]) <= 1
    /\ \A t \in Thread :
          slot[t] \subseteq [uid: Uid, entry: Entry] /\ Cardinality(slot[t]) <= 1
    /\ call \in [Thread -> CallState]

Cached ==
    (UNION {shared[uid] : uid \in Uid})
    \cup (UNION {{s.entry : s \in slot[t]} : t \in Thread})

\* An entry that the current generations let through was made from the rules
\* those generations announce, or from later ones: the store of the rules
\* precedes their generation, and the resolver loads in the other order.
CurrentEntriesAreCurrent ==
    \A e \in Cached :
        /\ e.rule.config >= e.cg
        /\ e.pg = packageGeneration => e.rule.packages >= announced

\* Whatever happens during a call, the rule it hands out is not older than
\* what was published and announced when the call was made; there is no rule
\* only if PackageManager did not answer.
RuleIsFresh ==
    \A t \in Thread : call[t].pc = "idle" =>
        \/ AtLeast(call[t].rule, call[t].since)
        \/ call[t].failed /\ call[t].rule = NoRule

\* Every call returns: publications are finitely many, and without them the
\* borrower's comparison succeeds.
CallsReturn == \A t \in Thread : call[t].pc # "idle" ~> call[t].pc = "idle"
=============================================================================

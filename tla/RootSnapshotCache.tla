------------------------- MODULE RootSnapshotCache -------------------------
(***************************************************************************)
(* The cache of filtered root listings (hooks/fuse_wrappers.cpp): FUSE     *)
(* threads list the visible root of one uid, from the cache or from the    *)
(* lower file system, while others create and remove root children and     *)
(* configurations are published.                                           *)
(*                                                                         *)
(* The root's contents are the set of mutations that have reached it.      *)
(* Version v of the configuration gives the uid the rule RuleOf[v]; a      *)
(* change of the package set is a version like any other.  A hold of       *)
(* gRootSnapshotCacheMutex is one step.                                    *)
(***************************************************************************)
EXTENDS Naturals, Sequences, FiniteSets

CONSTANTS
    Reader, Mutator,      \* FUSE request threads
    Rule,                 \* rules up to semantic equality
    RuleOf,               \* the rule of each version
    MaxMutation           \* bound of the instance

ASSUME SnapshotAssumption ==
    /\ RuleOf \in Seq(Rule) /\ RuleOf # <<>>
    /\ MaxMutation \in Nat

VARIABLES
    config,               \* the version ApplyHideConfig has stored
    configGeneration,     \* gHideConfigGeneration
    applying,             \* where ApplyHideConfig is
    root,                 \* what the lower file system's root has seen
    parentGeneration,     \* gRootSnapshotParentGeneration
    cache,                \* gRootSnapshotCache, an optional entry per rule
    reader,               \* the listing each reader is making
    mutator,              \* the operation each mutator is in
    acknowledged          \* mutations the kernel was told of (history)

publication == <<config, configGeneration, applying>>
vars == <<publication, root, parentGeneration, cache, reader, mutator, acknowledged>>

Version == 1..Len(RuleOf)
Mutation == 1..MaxMutation

\* What a listing was made from.
Listing == [root: SUBSET Mutation, filter: Nat]
Unread == [root |-> {}, filter |-> 0]

Entry == [cg: Nat, pg: Nat, listing: Listing,
          since: Nat,     \* configGeneration when the call began (history)
          seen: Nat]      \* parentGeneration when the root was read (history)

ReaderState == [pc: {"idle", "lookup", "read", "filter", "load", "store"},
                rule: Rule, listing: Listing, cg: Nat, pg: Nat,
                since: Nat, seen: Nat]            \* history
IdleReader == [pc |-> "idle", rule |-> RuleOf[1], listing |-> Unread,
               cg |-> 0, pg |-> 0, since |-> 0, seen |-> 0]
MutatorState == [pc: {"idle", "tracked", "created", "done", "failed", "bumped"},
                 id: Nat]

Init ==
    /\ config = 1 /\ configGeneration = 1 /\ applying = "idle"
    /\ root = {} /\ parentGeneration = 1 /\ acknowledged = {}
    /\ cache = [rule \in Rule |-> {}]
    /\ reader = [r \in Reader |-> IdleReader]
    /\ mutator = [m \in Mutator |-> [pc |-> "idle", id |-> 0]]

-----------------------------------------------------------------------------
(***************************************************************************)
(* ApplyHideConfig                                                         *)
(***************************************************************************)
StoreConfig ==
    /\ applying = "idle" /\ config < Len(RuleOf)
    /\ config' = config + 1
    /\ applying' = "stored"
    /\ UNCHANGED <<configGeneration, root, parentGeneration, cache, reader, mutator, acknowledged>>

BumpConfigGeneration ==
    /\ applying = "stored"
    /\ configGeneration' = configGeneration + 1
    /\ applying' = "bumped"
    /\ UNCHANGED <<config, root, parentGeneration, cache, reader, mutator, acknowledged>>

\* Defect: the generation is announced before its rules are in place.
AnnounceThenStore ==
    \/ /\ applying = "idle" /\ config < Len(RuleOf)
       /\ configGeneration' = configGeneration + 1
       /\ applying' = "stored"
       /\ UNCHANGED <<config, root, parentGeneration, cache, reader, mutator, acknowledged>>
    \/ /\ applying = "stored"
       /\ config' = config + 1
       /\ cache' = [rule \in Rule |-> {}]
       /\ applying' = "idle"
       /\ UNCHANGED <<configGeneration, root, parentGeneration, reader, mutator, acknowledged>>

ClearRootSnapshotCache ==
    /\ applying = "bumped"
    /\ cache' = [rule \in Rule |-> {}]
    /\ applying' = "idle"
    /\ UNCHANGED <<config, configGeneration, root, parentGeneration, reader, mutator, acknowledged>>

ApplyHideConfig == StoreConfig \/ BumpConfigGeneration \/ ClearRootSnapshotCache

-----------------------------------------------------------------------------
(***************************************************************************)
(* GetDirectoryEntries of the visible root                                 *)
(***************************************************************************)
ReaderGoes(r, from, to) == reader[r].pc = from /\ reader' = [reader EXCEPT ![r] = to]
ReaderAt(r, pc) == [reader[r] EXCEPT !.pc = pc]

\* A resolved rule, or a cached classification of a path, is not older than the
\* announced version and may be newer.
Effective == {config} \cup configGeneration..config

ResolveRule(r) ==
    /\ \E v \in Effective :
          ReaderGoes(r, "idle", [ReaderAt(r, "lookup") EXCEPT
                                    !.rule = RuleOf[v], !.since = configGeneration])
    /\ UNCHANGED <<publication, root, parentGeneration, cache, mutator, acknowledged>>

Current(e) == e.cg = configGeneration /\ e.pg = parentGeneration

Candidate(r) == cache[reader[r].rule]

LookupRootSnapshotCache(r) ==
    /\ \/ \E e \in Candidate(r) :
             /\ Current(e)
             /\ ReaderGoes(r, "lookup", IdleReader)
             /\ UNCHANGED cache
       \/ /\ \A e \in Candidate(r) : ~Current(e)
          /\ ReaderGoes(r, "lookup", ReaderAt(r, "read"))
          /\ cache' = [cache EXCEPT ![reader[r].rule] = {}]
    /\ UNCHANGED <<publication, root, parentGeneration, mutator, acknowledged>>

ReadDirectory(r) ==
    /\ ReaderGoes(r, "read", [ReaderAt(r, "filter") EXCEPT !.listing.root = root,
                                                          !.seen = parentGeneration])
    /\ UNCHANGED <<publication, root, parentGeneration, cache, mutator, acknowledged>>

FilterHiddenDirectoryEntries(r) ==
    /\ \E v \in Effective :
          ReaderGoes(r, "filter", [ReaderAt(r, "load") EXCEPT !.listing.filter = v])
    /\ UNCHANGED <<publication, root, parentGeneration, cache, mutator, acknowledged>>

\* The first half of MaybeStoreRootSnapshotCache; a listing whose first entry
\* has no name is not stored.
LoadGenerations(r) ==
    /\ \/ ReaderGoes(r, "load", [ReaderAt(r, "store") EXCEPT !.cg = configGeneration,
                                                            !.pg = parentGeneration])
       \/ ReaderGoes(r, "load", IdleReader)
    /\ UNCHANGED <<publication, root, parentGeneration, cache, mutator, acknowledged>>

EntryOf(r) == [cg |-> reader[r].cg, pg |-> reader[r].pg, listing |-> reader[r].listing,
               since |-> reader[r].since, seen |-> reader[r].seen]

\* Defect: the listing is stored without a second look at the generations.
StoreUnchecked(r) ==
    /\ ReaderGoes(r, "store", IdleReader)
    /\ cache' = [cache EXCEPT ![reader[r].rule] = {EntryOf(r)}]
    /\ UNCHANGED <<publication, root, parentGeneration, mutator, acknowledged>>

MaybeStoreRootSnapshotCache(r) ==
    /\ ReaderGoes(r, "store", IdleReader)
    /\ cache' = [cache EXCEPT ![reader[r].rule] =
                   IF Current(EntryOf(r)) THEN {EntryOf(r)} ELSE @]
    /\ UNCHANGED <<publication, root, parentGeneration, mutator, acknowledged>>

-----------------------------------------------------------------------------
(***************************************************************************)
(* Changes of the root's children.  unlink, rmdir and rename are noted     *)
(* when they come and settled by fuse_reply_err; mkdir, mknod and open are *)
(* settled by the hook of the libc call.                                   *)
(***************************************************************************)
MutatorGoes(m, from, to) == mutator[m].pc = from /\ mutator' = [mutator EXCEPT ![m].pc = to]

TrackPendingRootSnapshotMutation(m) ==
    /\ MutatorGoes(m, "idle", "tracked")
    /\ UNCHANGED <<publication, root, parentGeneration, cache, reader, acknowledged>>

BeginCreate(m) ==
    /\ MutatorGoes(m, "idle", "created")
    /\ UNCHANGED <<publication, root, parentGeneration, cache, reader, acknowledged>>

\* The original handler, or the original libc call, does it or fails.
Perform(m) ==
    /\ mutator[m].pc \in {"tracked", "created"}
    /\ \/ /\ Cardinality(root) < MaxMutation
          /\ root' = root \cup {Cardinality(root) + 1}
          /\ mutator' = [mutator EXCEPT ![m] = [pc |-> "done", id |-> Cardinality(root) + 1]]
       \/ /\ mutator' = [mutator EXCEPT ![m].pc = "failed"]
          /\ UNCHANGED root
    /\ UNCHANGED <<publication, parentGeneration, cache, reader, acknowledged>>

\* Defect: the listings go, the counter stays.
ClearWithoutBump(m) ==
    /\ MutatorGoes(m, "done", "bumped")
    /\ cache' = [rule \in Rule |-> {}]
    /\ UNCHANGED <<publication, root, parentGeneration, reader, acknowledged>>

BumpRootSnapshotParentGeneration(m) ==
    /\ MutatorGoes(m, "done", "bumped")
    /\ parentGeneration' = parentGeneration + 1
    /\ cache' = [rule \in Rule |-> {}]
    /\ UNCHANGED <<publication, root, reader, acknowledged>>

\* The reply goes to the kernel.
Reply(m) ==
    /\ mutator[m].pc \in {"bumped", "failed"}
    /\ acknowledged' = IF mutator[m].pc = "bumped"
                       THEN acknowledged \cup {mutator[m].id} ELSE acknowledged
    /\ mutator' = [mutator EXCEPT ![m] = [pc |-> "idle", id |-> 0]]
    /\ UNCHANGED <<publication, root, parentGeneration, cache, reader>>

-----------------------------------------------------------------------------
Next ==
    \/ ApplyHideConfig
    \/ \E r \in Reader :
          \/ ResolveRule(r) \/ LookupRootSnapshotCache(r) \/ ReadDirectory(r)
          \/ FilterHiddenDirectoryEntries(r) \/ LoadGenerations(r)
          \/ MaybeStoreRootSnapshotCache(r)
    \/ \E m \in Mutator :
          \/ TrackPendingRootSnapshotMutation(m) \/ BeginCreate(m) \/ Perform(m)
          \/ BumpRootSnapshotParentGeneration(m) \/ Reply(m)

Spec == Init /\ [][Next]_vars

-----------------------------------------------------------------------------
\* Types; the cache holds at most one listing per key.
TypeOK ==
    /\ config \in Version /\ configGeneration \in Version
    /\ applying \in {"idle", "stored", "bumped"}
    /\ root \subseteq Mutation /\ acknowledged \subseteq Mutation
    /\ parentGeneration \in Nat
    /\ \A rule \in Rule : cache[rule] \subseteq Entry /\ Cardinality(cache[rule]) <= 1
    /\ reader \in [Reader -> ReaderState]
    /\ mutator \in [Mutator -> MutatorState]

Cached == UNION {cache[rule] : rule \in Rule}

\* A listing that was read, filtered and stored under one parent generation
\* misses no mutation of the root the kernel has been told of.
UndisturbedListingsAreComplete ==
    \A e \in Cached : Current(e) /\ e.seen = e.pg => acknowledged \subseteq e.listing.root

\* The rules that may be in force while e is current.
InForce(e) == {RuleOf[v] : v \in e.cg..config}

\* A listing made under one configuration generation, from the resolution of
\* the rule to the store, was filtered by a rule that is in force.
UndisturbedListingsObeyTheRule ==
    \A e \in Cached :
        Current(e) /\ e.since = e.cg => RuleOf[e.listing.filter] \in InForce(e)

\* No listing a reader may be given misses an acknowledged mutation:
\* MaybeStoreRootSnapshotCache says that "a concurrent rule or root mutation change
\* becomes a miss instead of storing stale filtered entries".
ListingsAreComplete ==
    \A e \in Cached : Current(e) => acknowledged \subseteq e.listing.root

=============================================================================

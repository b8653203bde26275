---------------------- MODULE RootSnapshotCacheProofs ----------------------
(***************************************************************************)
(* Theorems about RootSnapshotCache, for every number of FUSE threads, of  *)
(* mutations, and for every sequence of rules.                             *)
(***************************************************************************)
EXTENDS RootSnapshotCache, FiniteSetTheorems, TLAPS

-----------------------------------------------------------------------------
\* Types, with the cache as a function.
Typed == TypeOK /\ cache \in [Rule -> SUBSET Entry]

\* The announced version is the stored one, or the one before it.
AnnouncedIsStored ==
    /\ applying = "stored" => config = configGeneration + 1
    /\ applying # "stored" => config = configGeneration

\* What the kernel was told, or is about to be told, of the root.
Settled == acknowledged \cup {mutator[m].id : m \in {n \in Mutator : mutator[n].pc = "bumped"}}

\* It has happened.
SettledIsDone ==
    /\ acknowledged \subseteq root
    /\ \A m \in Mutator : mutator[m].pc \in {"done", "bumped"} => mutator[m].id \in root

\* A listing, in a reader's hands or stored, whose root was read under the present
\* parent generation has everything that was settled.
Whole(x) ==
    /\ x.seen <= parentGeneration
    /\ x.seen = parentGeneration => Settled \subseteq x.listing.root

\* A listing whose call began under the present configuration generation was
\* filtered by that version or by a later one.
Lawful(x) ==
    /\ x.since <= configGeneration
    /\ x.listing.filter <= config
    /\ x.since = configGeneration => configGeneration <= x.listing.filter

ReadersKeepUp ==
    \A r \in Reader :
        /\ reader[r].since <= configGeneration
        /\ reader[r].pc \in {"filter", "load", "store"} => Whole(reader[r])
        /\ reader[r].pc \in {"load", "store"} => Lawful(reader[r])

EntriesKeepUp == \A rule \in Rule : \A e \in cache[rule] : Whole(e) /\ Lawful(e)

Inv ==
    /\ Typed /\ AnnouncedIsStored /\ SettledIsDone
    /\ ReadersKeepUp /\ EntriesKeepUp

-----------------------------------------------------------------------------
LEMMA RulesOfVersions ==
    /\ Len(RuleOf) \in Nat /\ 1 \in Version
    /\ \A v \in Version : v \in Nat /\ v >= 1 /\ v <= Len(RuleOf) /\ RuleOf[v] \in Rule
  BY SnapshotAssumption DEF Version

\* The versions a lookup may see: none older than the announced one.
LEMMA EffectiveVersions ==
    ASSUME Typed, AnnouncedIsStored, NEW v \in Effective
    PROVE  v \in Version /\ configGeneration <= v /\ v <= config
<1>1. /\ config \in Nat /\ configGeneration \in Nat /\ 1 <= configGeneration
      /\ config <= Len(RuleOf) /\ Len(RuleOf) \in Nat
  BY RulesOfVersions DEF Typed, TypeOK
<1>2. configGeneration <= config
  BY <1>1 DEF AnnouncedIsStored
<1> QED BY <1>1, <1>2 DEF Effective, Version

\* A listing in a reader's hands becomes an entry of the cache as it is.
LEMMA EntryOfReader ==
    ASSUME Typed, NEW r \in Reader
    PROVE  /\ EntryOf(r) \in Entry
           /\ Whole(reader[r]) => Whole(EntryOf(r))
           /\ Lawful(reader[r]) => Lawful(EntryOf(r))
<1>1. reader[r] \in ReaderState
  BY DEF Typed, TypeOK
<1> QED BY <1>1 DEF EntryOf, Entry, ReaderState, Whole, Lawful

\* A reader changes nothing but its own listing and the cache.
ReaderStep(r) ==
    \/ ResolveRule(r) \/ LookupRootSnapshotCache(r) \/ ReadDirectory(r)
    \/ FilterHiddenDirectoryEntries(r) \/ LoadGenerations(r) \/ MaybeStoreRootSnapshotCache(r)

MutatorStep(m) ==
    \/ TrackPendingRootSnapshotMutation(m) \/ BeginCreate(m) \/ Perform(m)
    \/ BumpRootSnapshotParentGeneration(m) \/ Reply(m)

\* Where a reader's step brings its listing.
ReaderMove(r, s) ==
    \/ s = IdleReader
    \/ s.pc = "lookup" /\ s.since = configGeneration
    \/ s.pc = "read" /\ s.since = reader[r].since
    \/ /\ s.pc = "filter" /\ s.since = reader[r].since
       /\ s.listing.root = root /\ s.seen = parentGeneration
    \/ /\ reader[r].pc = "filter" /\ s.pc = "load"
       /\ s.since = reader[r].since /\ s.seen = reader[r].seen
       /\ s.listing.root = reader[r].listing.root /\ s.listing.filter \in Effective
    \/ /\ reader[r].pc = "load" /\ s.pc = "store"
       /\ s.since = reader[r].since /\ s.seen = reader[r].seen
       /\ s.listing = reader[r].listing

ReadAs(s, x, n) == [s EXCEPT !.listing.root = x, !.seen = n]

LEMMA ReadFields ==
    ASSUME NEW s \in ReaderState, NEW x \in SUBSET Mutation, NEW n \in Nat
    PROVE  LET c == ReadAs(s, x, n)
           IN  /\ c \in ReaderState /\ c.pc = s.pc /\ c.since = s.since
               /\ c.listing.root = x /\ c.seen = n
<1> DEFINE l == [s.listing EXCEPT !.root = x]
           b == [s EXCEPT !.listing = l]
<1>1. s.listing \in Listing
  BY DEF ReaderState
<1>2. l \in Listing /\ l.root = x
  BY <1>1 DEF Listing
<1>3. ReadAs(s, x, n) = [b EXCEPT !.seen = n]
  BY DEF ReaderState, ReadAs
<1> HIDE DEF l
<1>4. /\ b \in ReaderState /\ b.pc = s.pc /\ b.since = s.since /\ b.listing = l
  BY <1>2 DEF ReaderState
<1> HIDE DEF b
<1>5. LET c == [b EXCEPT !.seen = n]
      IN  /\ c \in ReaderState /\ c.pc = b.pc /\ c.since = b.since
          /\ c.listing = b.listing /\ c.seen = n
  BY <1>4 DEF ReaderState
<1> QED BY <1>2, <1>3, <1>4, <1>5

LEMMA FilterFields ==
    ASSUME NEW s \in ReaderState, NEW v \in Nat
    PROVE  LET c == [s EXCEPT !.listing.filter = v]
           IN  /\ c \in ReaderState /\ c.pc = s.pc /\ c.since = s.since /\ c.seen = s.seen
               /\ c.listing.root = s.listing.root /\ c.listing.filter = v
<1> DEFINE l == [s.listing EXCEPT !.filter = v]
<1>1. s.listing \in Listing
  BY DEF ReaderState
<1>2. l \in Listing /\ l.root = s.listing.root /\ l.filter = v
  BY <1>1 DEF Listing
<1>3. [s EXCEPT !.listing.filter = v] = [s EXCEPT !.listing = l]
  BY DEF ReaderState
<1> HIDE DEF l
<1> QED BY <1>2, <1>3 DEF ReaderState

LEMMA ReaderMoves ==
    ASSUME Typed, NEW r \in Reader, ReaderStep(r)
    PROVE  \E s \in ReaderState : ReaderMove(r, s) /\ reader' = [reader EXCEPT ![r] = s]
<1> USE DEF ReaderGoes
<1>t. /\ reader[r] \in ReaderState /\ root \in SUBSET Mutation
      /\ configGeneration \in Nat /\ parentGeneration \in Nat
      /\ \A v \in Effective : v \in Nat /\ RuleOf[v] \in Rule
  BY RulesOfVersions DEF Typed, TypeOK, Effective, Version
<1>i. IdleReader \in ReaderState
  BY RulesOfVersions DEF IdleReader, Unread, ReaderState, Listing
<1>a. \A pc \in {"idle", "lookup", "read", "filter", "load", "store"} :
         /\ ReaderAt(r, pc) \in ReaderState /\ ReaderAt(r, pc).pc = pc
         /\ ReaderAt(r, pc).since = reader[r].since /\ ReaderAt(r, pc).seen = reader[r].seen
         /\ ReaderAt(r, pc).listing = reader[r].listing
  BY <1>t DEF ReaderAt, ReaderState
<1>1. CASE ResolveRule(r)
  <2>1. PICK v \in Effective :
           reader' = [reader EXCEPT ![r] = [ReaderAt(r, "lookup") EXCEPT
                                              !.rule = RuleOf[v], !.since = configGeneration]]
    BY <1>1 DEF ResolveRule
  <2> DEFINE a == ReaderAt(r, "lookup")
             b == [a EXCEPT !.rule = RuleOf[v]]
             c == [b EXCEPT !.since = configGeneration]
  <2>2. a \in ReaderState /\ a.pc = "lookup"
    BY <1>a
  <2>3. reader' = [reader EXCEPT ![r] = c]
    BY <2>1, <2>2 DEF ReaderState
  <2> HIDE DEF a
  <2>4. b \in ReaderState /\ b.pc = "lookup"
    BY <1>t, <2>2 DEF ReaderState
  <2> HIDE DEF b
  <2>5. c \in ReaderState /\ c.pc = "lookup" /\ c.since = configGeneration
    BY <1>t, <2>4 DEF ReaderState
  <2> HIDE DEF c
  <2> QED BY <2>3, <2>5 DEF ReaderMove
<1>2. CASE LookupRootSnapshotCache(r)
  <2>1. \/ reader' = [reader EXCEPT ![r] = IdleReader]
        \/ reader' = [reader EXCEPT ![r] = ReaderAt(r, "read")]
    BY <1>2 DEF LookupRootSnapshotCache
  <2> QED BY <1>a, <1>i, <2>1 DEF ReaderMove
<1>3. CASE ReadDirectory(r)
  <2> DEFINE a == ReaderAt(r, "filter")
             c == ReadAs(a, root, parentGeneration)
  <2>1. reader' = [reader EXCEPT ![r] = c]
    BY <1>3 DEF ReadDirectory, ReadAs
  <2>2. a \in ReaderState /\ a.pc = "filter" /\ a.since = reader[r].since
    BY <1>a
  <2> HIDE DEF a
  <2>3. /\ c \in ReaderState /\ c.pc = a.pc /\ c.since = a.since
        /\ c.listing.root = root /\ c.seen = parentGeneration
    BY <1>t, <2>2, ReadFields
  <2> HIDE DEF c
  <2> QED BY <2>1, <2>2, <2>3 DEF ReaderMove
<1>4. CASE FilterHiddenDirectoryEntries(r)
  <2>1. PICK v \in Effective :
           /\ reader[r].pc = "filter"
           /\ reader' = [reader EXCEPT ![r] = [ReaderAt(r, "load") EXCEPT !.listing.filter = v]]
    BY <1>4 DEF FilterHiddenDirectoryEntries
  <2> DEFINE a == ReaderAt(r, "load")
             c == [a EXCEPT !.listing.filter = v]
  <2>2. /\ a \in ReaderState /\ a.pc = "load" /\ a.since = reader[r].since
        /\ a.seen = reader[r].seen /\ a.listing = reader[r].listing
    BY <1>a
  <2>3. reader' = [reader EXCEPT ![r] = c]
    BY <2>1
  <2> HIDE DEF a
  <2>4. /\ c \in ReaderState /\ c.pc = a.pc /\ c.since = a.since /\ c.seen = a.seen
        /\ c.listing.root = a.listing.root /\ c.listing.filter = v
    BY <1>t, <2>2, FilterFields
  <2> HIDE DEF c
  <2> QED BY <2>1, <2>2, <2>3, <2>4 DEF ReaderMove
<1>5. CASE LoadGenerations(r)
  <2> DEFINE a == ReaderAt(r, "store")
             b == [a EXCEPT !.cg = configGeneration]
             c == [b EXCEPT !.pg = parentGeneration]
  <2>1. /\ a \in ReaderState /\ a.pc = "store" /\ a.since = reader[r].since
        /\ a.seen = reader[r].seen /\ a.listing = reader[r].listing
    BY <1>a
  <2>2. /\ reader[r].pc = "load"
        /\ \/ reader' = [reader EXCEPT ![r] = c]
           \/ reader' = [reader EXCEPT ![r] = IdleReader]
    BY <1>5, <2>1 DEF LoadGenerations, ReaderState
  <2> HIDE DEF a
  <2>3. /\ b \in ReaderState /\ b.pc = "store" /\ b.since = a.since
        /\ b.seen = a.seen /\ b.listing = a.listing
    BY <1>t, <2>1 DEF ReaderState
  <2> HIDE DEF b
  <2>4. /\ c \in ReaderState /\ c.pc = "store" /\ c.since = a.since
        /\ c.seen = a.seen /\ c.listing = a.listing
    BY <1>t, <2>3 DEF ReaderState
  <2> HIDE DEF c
  <2> QED BY <1>i, <2>1, <2>2, <2>4 DEF ReaderMove
<1>6. CASE MaybeStoreRootSnapshotCache(r)
  BY <1>6, <1>i DEF MaybeStoreRootSnapshotCache, ReaderMove
<1> QED BY <1>1, <1>2, <1>3, <1>4, <1>5, <1>6 DEF ReaderStep

\* What a hold of the mutex leaves in the cache: what was there, nothing, or the
\* reader's own listing when it is current.
LEMMA ReaderCaches ==
    ASSUME Typed, NEW r \in Reader, ReaderStep(r)
    PROVE  \E rule \in Rule : \E S \in {cache[rule], {}, {EntryOf(r)}} :
              /\ cache' = [cache EXCEPT ![rule] = S]
              /\ S = {EntryOf(r)} => S = cache[rule] \/ reader[r].pc = "store"
<1>t. cache \in [Rule -> SUBSET Entry] /\ reader[r].rule \in Rule
  BY DEF Typed, TypeOK, ReaderState
<1>1. ASSUME cache' = cache
      PROVE  cache' = [cache EXCEPT ![reader[r].rule] = cache[reader[r].rule]]
  BY <1>t, <1>1
<1>2. CASE cache' = cache
  BY <1>t, <1>1, <1>2
<1>3. CASE LookupRootSnapshotCache(r)
  BY <1>t, <1>2, <1>3 DEF LookupRootSnapshotCache
<1>4. CASE MaybeStoreRootSnapshotCache(r)
  BY <1>t, <1>4 DEF MaybeStoreRootSnapshotCache, ReaderGoes
<1> QED BY <1>2, <1>3, <1>4
        DEF ReaderStep, ResolveRule, ReadDirectory, FilterHiddenDirectoryEntries, LoadGenerations

\* What a mutator brings about: only the bump settles anything, and it makes every
\* listing read before it old and empties the cache.
LEMMA MutatorMoves ==
    ASSUME Typed, SettledIsDone, NEW m \in Mutator, MutatorStep(m)
    PROVE  /\ UNCHANGED <<publication, reader>>
           /\ mutator' \in [Mutator -> MutatorState] /\ root' \subseteq Mutation
           /\ root \subseteq root' /\ SettledIsDone'
           /\ \/ Settled' \subseteq Settled /\ UNCHANGED <<parentGeneration, cache>>
              \/ /\ parentGeneration' = parentGeneration + 1
                 /\ cache' = [rule \in Rule |-> {}]
<1>t. /\ mutator \in [Mutator -> MutatorState] /\ root \subseteq Mutation
      /\ MaxMutation \in Nat
  BY SnapshotAssumption DEF Typed, TypeOK
<1> USE DEF Settled, SettledIsDone, MutatorGoes
<1>1. CASE TrackPendingRootSnapshotMutation(m) \/ BeginCreate(m)
  <2>1. /\ UNCHANGED <<publication, root, parentGeneration, cache, reader, acknowledged>>
        /\ \E pc \in {"tracked", "created"} : mutator' = [mutator EXCEPT ![m].pc = pc]
        /\ mutator[m].pc = "idle"
    BY <1>1 DEF TrackPendingRootSnapshotMutation, BeginCreate
  <2>2. /\ mutator' \in [Mutator -> MutatorState]
        /\ \A n \in Mutator : mutator'[n].pc \in {"done", "bumped"} =>
              mutator'[n] = mutator[n]
    BY <1>t, <2>1 DEF MutatorState
  <2> QED BY <1>t, <2>1, <2>2
<1>2. CASE Perform(m)
  <2>1. UNCHANGED <<publication, parentGeneration, cache, reader, acknowledged>>
    BY <1>2 DEF Perform
  <2>2. CASE mutator' = [mutator EXCEPT ![m].pc = "failed"] /\ root' = root
    <3>1. /\ mutator' \in [Mutator -> MutatorState]
          /\ \A n \in Mutator : mutator'[n].pc \in {"done", "bumped"} =>
                mutator'[n] = mutator[n]
      BY <1>t, <2>2 DEF MutatorState
    <3> QED BY <1>t, <2>1, <2>2, <3>1
  <2>3. CASE /\ Cardinality(root) < MaxMutation
             /\ root' = root \cup {Cardinality(root) + 1}
             /\ mutator' = [mutator EXCEPT ![m] = [pc |-> "done", id |-> Cardinality(root) + 1]]
    <3> DEFINE id == Cardinality(root) + 1
    <3>1. id \in Mutation /\ id \in Nat
      <4>1. IsFiniteSet(Mutation)
        BY <1>t, FS_Interval DEF Mutation
      <4>2. Cardinality(root) \in Nat
        BY <1>t, <4>1, FS_Subset, FS_CardinalityType
      <4> QED BY <1>t, <2>3, <4>2 DEF Mutation
    <3>2. root' = root \cup {id} /\ mutator' = [mutator EXCEPT ![m] = [pc |-> "done", id |-> id]]
      BY <2>3
    <3> HIDE DEF id
    <3>3. /\ mutator' \in [Mutator -> MutatorState] /\ root' \subseteq Mutation
          /\ mutator'[m].pc = "done" /\ mutator'[m].id = id
          /\ \A n \in Mutator \ {m} : mutator'[n] = mutator[n]
      BY <1>t, <3>1, <3>2 DEF MutatorState
    <3> QED BY <1>t, <2>1, <3>2, <3>3
  <2> QED BY <1>2, <2>2, <2>3 DEF Perform
<1>3. CASE BumpRootSnapshotParentGeneration(m)
  <2>1. /\ UNCHANGED <<publication, root, reader, acknowledged>>
        /\ mutator[m].pc = "done" /\ mutator' = [mutator EXCEPT ![m].pc = "bumped"]
        /\ parentGeneration' = parentGeneration + 1
        /\ cache' = [rule \in Rule |-> {}]
    BY <1>3 DEF BumpRootSnapshotParentGeneration
  <2>2. /\ mutator' \in [Mutator -> MutatorState]
        /\ mutator'[m].id = mutator[m].id
        /\ \A n \in Mutator \ {m} : mutator'[n] = mutator[n]
    BY <1>t, <2>1 DEF MutatorState
  <2> QED BY <1>t, <2>1, <2>2
<1>4. CASE Reply(m)
  <2>1. /\ UNCHANGED <<publication, root, parentGeneration, cache, reader>>
        /\ acknowledged' = IF mutator[m].pc = "bumped"
                           THEN acknowledged \cup {mutator[m].id} ELSE acknowledged
        /\ mutator' = [mutator EXCEPT ![m] = [pc |-> "idle", id |-> 0]]
    BY <1>4 DEF Reply
  <2>2. /\ mutator' \in [Mutator -> MutatorState]
        /\ mutator'[m].pc = "idle"
        /\ \A n \in Mutator \ {m} : mutator'[n] = mutator[n]
    BY <1>t, <2>1 DEF MutatorState
  <2>3. acknowledged' \subseteq Settled /\ acknowledged' \subseteq root
    BY <2>1
  <2>4. Settled' \subseteq Settled
    BY <2>2, <2>3
  <2>5. SettledIsDone'
    BY <1>t, <2>1, <2>2, <2>3
  <2> QED BY <1>t, <2>1, <2>2, <2>4, <2>5
<1> QED BY <1>1, <1>2, <1>3, <1>4 DEF MutatorStep

\* One entry per key, and never more: what is stored is a listing or nothing.
LEMMA CacheIsTyped ==
    ASSUME Typed, NEW r \in Reader, ReaderStep(r)
    PROVE  /\ cache' \in [Rule -> SUBSET Entry]
           /\ \A rule \in Rule : Cardinality(cache'[rule]) <= 1
           /\ \A rule \in Rule : \A e \in cache'[rule] :
                 \/ e \in cache[rule]
                 \/ e = EntryOf(r) /\ reader[r].pc = "store"
<1>1. PICK k \in Rule : \E S \in {cache[k], {}, {EntryOf(r)}} :
              /\ cache' = [cache EXCEPT ![k] = S]
              /\ S = {EntryOf(r)} => S = cache[k] \/ reader[r].pc = "store"
  BY ReaderCaches
<1>2. PICK S \in {cache[k], {}, {EntryOf(r)}} :
              /\ cache' = [cache EXCEPT ![k] = S]
              /\ S = {EntryOf(r)} => S = cache[k] \/ reader[r].pc = "store"
  BY <1>1
<1>3. /\ cache \in [Rule -> SUBSET Entry] /\ EntryOf(r) \in Entry
      /\ \A rule \in Rule : Cardinality(cache[rule]) <= 1
  BY EntryOfReader DEF Typed, TypeOK
<1>4. S \subseteq Entry /\ Cardinality(S) <= 1
  <2>1. Cardinality({}) <= 1 /\ Cardinality({EntryOf(r)}) <= 1
    BY FS_EmptySet, FS_Singleton
  <2> QED BY <1>3, <2>1
<1>5. \A rule \in Rule : cache'[rule] = IF rule = k THEN S ELSE cache[rule]
  BY <1>2, <1>3
<1> QED BY <1>2, <1>3, <1>4, <1>5

-----------------------------------------------------------------------------
LEMMA InvInit == Init => Inv
<1> SUFFICES ASSUME Init PROVE Inv
  OBVIOUS
<1> USE DEF Init
<1>1. Typed
  <2>1. IdleReader \in ReaderState
    BY RulesOfVersions DEF IdleReader, Unread, ReaderState, Listing
  <2>2. reader \in [Reader -> ReaderState]
    BY <2>1
  <2>3. Cardinality({}) <= 1
    BY FS_EmptySet
  <2> QED BY <2>2, <2>3, RulesOfVersions DEF Typed, TypeOK, MutatorState
<1>2. AnnouncedIsStored /\ SettledIsDone /\ ReadersKeepUp /\ EntriesKeepUp
  BY DEF AnnouncedIsStored, SettledIsDone, ReadersKeepUp, EntriesKeepUp, IdleReader
<1> QED BY <1>1, <1>2 DEF Inv

\* A step of a reader: the others' listings and the generations stay.
LEMMA InvReader ==
    ASSUME Inv, NEW r \in Reader, ReaderStep(r)
    PROVE  Inv'
<1>t. /\ Typed /\ AnnouncedIsStored /\ SettledIsDone /\ ReadersKeepUp /\ EntriesKeepUp
      /\ reader \in [Reader -> ReaderState] /\ configGeneration \in Nat
      /\ parentGeneration \in Nat /\ config \in Nat
  BY RulesOfVersions DEF Inv, Typed, TypeOK
<1>1. UNCHANGED <<publication, root, parentGeneration, mutator, acknowledged>>
  BY DEF ReaderStep, ResolveRule, LookupRootSnapshotCache, ReadDirectory,
         FilterHiddenDirectoryEntries, LoadGenerations, MaybeStoreRootSnapshotCache
<1>2. Settled' = Settled
  BY <1>1 DEF Settled
<1>3. PICK s \in ReaderState : ReaderMove(r, s) /\ reader' = [reader EXCEPT ![r] = s]
  BY <1>t, ReaderMoves
<1>4. Typed'
  <2>1. reader' \in [Reader -> ReaderState]
    BY <1>t, <1>3
  <2> QED BY <1>t, <1>1, <2>1, CacheIsTyped DEF Typed, TypeOK, publication
<1>5. AnnouncedIsStored' /\ SettledIsDone'
  BY <1>t, <1>1 DEF AnnouncedIsStored, SettledIsDone, publication
<1>6. Settled \subseteq root
  BY <1>t DEF SettledIsDone, Settled
<1>7. \A x : /\ Whole(x)' <=> Whole(x)
             /\ Lawful(x)' <=> Lawful(x)
  BY <1>1, <1>2 DEF Whole, Lawful, publication
<1>8. ReadersKeepUp'
  <2>1. s.since <= configGeneration
    BY <1>t, <1>3 DEF ReaderMove, ReadersKeepUp, IdleReader
  <2>2. s.pc \in {"filter", "load", "store"} => Whole(s)
    BY <1>t, <1>3, <1>6 DEF ReaderMove, ReadersKeepUp, IdleReader, Whole
  <2>3. s.pc \in {"load", "store"} => Lawful(s)
    <3>1. \A v \in Effective : configGeneration <= v /\ v <= config
      BY <1>t, EffectiveVersions
    <3> QED BY <1>t, <1>3, <2>1, <3>1 DEF ReaderMove, ReadersKeepUp, IdleReader, Lawful
  <2>4. ASSUME NEW q \in Reader
        PROVE  /\ reader'[q].since <= configGeneration
               /\ reader'[q].pc \in {"filter", "load", "store"} => Whole(reader'[q])
               /\ reader'[q].pc \in {"load", "store"} => Lawful(reader'[q])
    <3>1. CASE q = r
      BY <1>t, <1>3, <2>1, <2>2, <2>3, <3>1
    <3>2. CASE q # r
      <4>1. reader'[q] = reader[q]
        BY <1>t, <1>3, <3>2
      <4> QED BY <1>t, <4>1 DEF ReadersKeepUp
    <3> QED BY <3>1, <3>2
  <2> QED BY <1>1, <1>2, <2>4 DEF ReadersKeepUp, Whole, Lawful, publication
<1>9. EntriesKeepUp'
  <2>1. reader[r].pc = "store" => Whole(EntryOf(r)) /\ Lawful(EntryOf(r))
    BY <1>t, EntryOfReader DEF ReadersKeepUp
  <2>2. \A rule \in Rule : \A e \in cache'[rule] : Whole(e) /\ Lawful(e)
    BY <1>t, <2>1, CacheIsTyped DEF EntriesKeepUp
  <2> QED BY <1>1, <1>2, <2>2 DEF EntriesKeepUp, Whole, Lawful, publication
<1> QED BY <1>4, <1>5, <1>8, <1>9 DEF Inv

LEMMA InvMutator ==
    ASSUME Inv, NEW m \in Mutator, MutatorStep(m)
    PROVE  Inv'
<1>t. /\ Typed /\ AnnouncedIsStored /\ SettledIsDone /\ ReadersKeepUp /\ EntriesKeepUp
      /\ reader \in [Reader -> ReaderState] /\ configGeneration \in Nat
      /\ parentGeneration \in Nat /\ config \in Nat /\ cache \in [Rule -> SUBSET Entry]
  BY RulesOfVersions DEF Inv, Typed, TypeOK
<1>1. /\ UNCHANGED <<publication, reader>>
      /\ mutator' \in [Mutator -> MutatorState] /\ root' \subseteq Mutation
      /\ SettledIsDone'
      /\ \/ Settled' \subseteq Settled /\ UNCHANGED <<parentGeneration, cache>>
         \/ /\ parentGeneration' = parentGeneration + 1
            /\ cache' = [rule \in Rule |-> {}]
  BY <1>t, MutatorMoves
<1>2. Typed'
  <2>1. acknowledged' \subseteq Mutation
    BY <1>1 DEF SettledIsDone
  <2>2. Cardinality({}) <= 1
    BY FS_EmptySet
  <2>3. /\ parentGeneration' \in Nat /\ cache' \in [Rule -> SUBSET Entry]
        /\ \A rule \in Rule : Cardinality(cache'[rule]) <= 1
    <3>1. CASE UNCHANGED <<parentGeneration, cache>>
      BY <1>t, <3>1 DEF Typed, TypeOK
    <3>2. CASE /\ parentGeneration' = parentGeneration + 1
               /\ cache' = [rule \in Rule |-> {}]
      BY <1>t, <2>2, <3>2
    <3> QED BY <1>1, <3>1, <3>2
  <2> QED BY <1>t, <1>1, <2>1, <2>3 DEF Typed, TypeOK, publication
<1>3. AnnouncedIsStored'
  BY <1>t, <1>1 DEF AnnouncedIsStored, publication
<1>4. /\ \A q \in Reader : reader[q].seen \in Nat
      /\ \A rule \in Rule : \A e \in cache[rule] : e.seen \in Nat
  BY <1>t DEF ReaderState, Entry
<1>5. \A x : x.seen \in Nat /\ Whole(x) =>
          /\ x.seen <= parentGeneration'
          /\ x.seen = parentGeneration' => Settled' \subseteq x.listing.root
  BY <1>t, <1>1 DEF Whole
<1>6. ReadersKeepUp'
  BY <1>t, <1>1, <1>4, <1>5 DEF ReadersKeepUp, Whole, Lawful, publication
<1>7. EntriesKeepUp'
  BY <1>t, <1>1, <1>4, <1>5 DEF EntriesKeepUp, Whole, Lawful, publication
<1> QED BY <1>1, <1>2, <1>3, <1>6, <1>7 DEF Inv

LEMMA InvPublication ==
    ASSUME Inv, ApplyHideConfig
    PROVE  Inv'
<1>t. /\ Typed /\ AnnouncedIsStored /\ SettledIsDone /\ ReadersKeepUp /\ EntriesKeepUp
      /\ reader \in [Reader -> ReaderState] /\ configGeneration \in Version
      /\ parentGeneration \in Nat /\ config \in Version /\ cache \in [Rule -> SUBSET Entry]
      /\ \A v \in Version : v \in Nat /\ v >= 1 /\ v <= Len(RuleOf)
      /\ Len(RuleOf) \in Nat
  BY RulesOfVersions DEF Inv, Typed, TypeOK
<1>1. /\ UNCHANGED <<root, parentGeneration, reader, mutator, acknowledged>>
      /\ \/ /\ applying = "idle" /\ config < Len(RuleOf) /\ applying' = "stored"
            /\ config' = config + 1 /\ UNCHANGED <<configGeneration, cache>>
         \/ /\ applying = "stored" /\ applying' = "bumped"
            /\ configGeneration' = configGeneration + 1 /\ UNCHANGED <<config, cache>>
         \/ /\ applying = "bumped" /\ applying' = "idle"
            /\ cache' = [rule \in Rule |-> {}] /\ UNCHANGED <<config, configGeneration>>
  BY DEF ApplyHideConfig, StoreConfig, BumpConfigGeneration, ClearRootSnapshotCache
<1>2. AnnouncedIsStored' /\ config' \in Version /\ configGeneration' \in Version
  BY <1>t, <1>1 DEF AnnouncedIsStored, Version
<1>3. Typed'
  <2>1. Cardinality({}) <= 1
    BY FS_EmptySet
  <2> QED BY <1>t, <1>1, <1>2, <2>1 DEF Typed, TypeOK
<1>4. SettledIsDone' /\ Settled' = Settled
  BY <1>t, <1>1 DEF SettledIsDone, Settled
<1>5. /\ \A q \in Reader : reader[q].since \in Nat /\ reader[q].listing.filter \in Nat
      /\ \A rule \in Rule : \A e \in cache[rule] : e.since \in Nat /\ e.listing.filter \in Nat
  BY <1>t DEF ReaderState, Entry, Listing
<1>6. /\ \A n \in Nat : n <= configGeneration => n <= configGeneration'
      /\ \A x : x.since \in Nat /\ x.listing.filter \in Nat /\ Lawful(x) =>
          /\ x.since <= configGeneration'
          /\ x.listing.filter <= config'
          /\ x.since = configGeneration' => configGeneration' <= x.listing.filter
  BY <1>t, <1>1 DEF Lawful
<1>7. ReadersKeepUp'
  BY <1>t, <1>1, <1>4, <1>5, <1>6 DEF ReadersKeepUp, Whole, Lawful
<1>8. EntriesKeepUp'
  BY <1>t, <1>1, <1>4, <1>5, <1>6 DEF EntriesKeepUp, Whole, Lawful
<1> QED BY <1>2, <1>3, <1>4, <1>7, <1>8 DEF Inv

LEMMA InvNext ==
    ASSUME Inv, [Next]_vars
    PROVE  Inv'
<1>1. CASE UNCHANGED vars
  BY <1>1 DEF vars, publication, Inv, Typed, TypeOK, AnnouncedIsStored, SettledIsDone,
              ReadersKeepUp, EntriesKeepUp, Whole, Lawful, Settled
<1> QED BY <1>1, InvPublication, InvReader, InvMutator DEF Next, ReaderStep, MutatorStep

-----------------------------------------------------------------------------
\* The caches' types: at most one listing per rule, and one of its kind.
THEOREM SnapshotTyped == Spec => []TypeOK
<1>1. Inv => TypeOK
  BY DEF Inv, Typed
<1> QED BY <1>1, InvInit, InvNext, PTL DEF Spec

\* A listing a reader may be given misses no mutation of the root that was answered,
\* when the root was read under the parent generation it was stored under: for any
\* number of readers and mutators, of mutations that fail or succeed, in any order.
THEOREM ListingsAreCompleteUndisturbed == Spec => []UndisturbedListingsAreComplete
<1>1. Inv => UndisturbedListingsAreComplete
  BY DEF Inv, UndisturbedListingsAreComplete, EntriesKeepUp, Whole, Cached, Current, Settled
<1> QED BY <1>1, InvInit, InvNext, PTL DEF Spec

\* A listing made under one configuration generation was filtered by a rule that is
\* in force: for any sequence of rules, however their publication is interleaved with
\* the readers.
THEOREM ListingsObeyTheRuleUndisturbed == Spec => []UndisturbedListingsObeyTheRule
<1>1. Inv => UndisturbedListingsObeyTheRule
  <2> SUFFICES ASSUME Inv, NEW e \in Cached, Current(e), e.since = e.cg
               PROVE  RuleOf[e.listing.filter] \in InForce(e)
    BY DEF UndisturbedListingsObeyTheRule
  <2>1. PICK rule \in Rule : e \in cache[rule]
    BY DEF Cached
  <2>2. e \in Entry /\ Lawful(e)
    BY <2>1 DEF Inv, EntriesKeepUp, Typed
  <2>3. e.listing.filter \in Nat /\ e.cg \in Nat /\ config \in Nat
    BY <2>2, RulesOfVersions DEF Entry, Listing, Inv, Typed, TypeOK
  <2>4. e.listing.filter \in e.cg..config
    BY <2>2, <2>3 DEF Lawful, Current
  <2> QED BY <2>4 DEF InForce
<1> QED BY <1>1, InvInit, InvNext, PTL DEF Spec
=============================================================================

--------------------------- MODULE HiddenRequests ---------------------------
(***************************************************************************)
(* Requests on the children of the visible root while configurations are   *)
(* published (hooks/fuse_wrappers.cpp, core/runtime_state.cpp): LOOKUP,    *)
(* GETATTR, MKDIR, RMDIR and READDIRPLUS as the hooks change them, the     *)
(* cache of path classifications, the positive dentries the kernel shares  *)
(* between uids and the sweep that takes them back.                        *)
(*                                                                         *)
(* Version v of the configuration is Configs[v].  A borrowed rule of a uid *)
(* is of any version in generation..published (RuleIsFresh of              *)
(* UidRuleCache).  The kernel holds the directory's lock shared over       *)
(* LOOKUP and READDIRPLUS, exclusively over MKDIR and RMDIR with the       *)
(* LOOKUP before them, and exclusively to drop a dentry.                   *)
(***************************************************************************)
EXTENDS HidePolicy, FiniteSets

CONSTANTS
    Thread,                  \* FUSE request threads
    Uid, PackagesOf,         \* getPackagesForUid
    Configs,                 \* what is published, in order
    RequestName,             \* names of root children requests are made for
    InitialFiles,            \* the root's children
    Order,                   \* the order a directory is read in, a place for each name
    Full,                    \* directories among them that are not empty
    PageSize,                \* entries in a READDIRPLUS reply
    MaxCached,               \* kMaxHiddenPathClassificationCacheEntries (4096)
    RemapMax,                \* pendingCount's limit (8)
    Continues,               \* x86_64: fully filtered pages are continued
    MaxRemovals,             \* a bound of the instance
    Workloads                \* operations that are mixed: likewise

ASSUME RequestAssumption ==
    /\ PackagesOf \in [Uid -> SUBSET Package]
    /\ Configs \in Seq(HideConfig) /\ Configs # <<>>
    /\ Uid # {} /\ RequestName # {} /\ RequestName \subseteq Name
    /\ InitialFiles \subseteq RequestName
    /\ Order \in Seq(RequestName) /\ \A n \in RequestName : \E i \in DOMAIN Order : Order[i] = n
    /\ Full \subseteq RequestName
    /\ PageSize \in Nat \ {0} /\ RemapMax \in Nat \ {0} /\ MaxCached \in Nat \ {0}
    /\ Continues \in BOOLEAN
    /\ MaxRemovals \in Nat /\ Workloads # {}

VARIABLES
    published,               \* the version whose rules are stored
    generation,              \* gHideConfigGeneration
    applying,                \* where ApplyHideConfig is
    sweep, toNotify,         \* the root's invalidation task
    dentries,                \* names with a positive dentry whose timeout is not zero
    outlived,                \* spellings no sweep names, cached before the rules (history)
    rootIno, rootPath,       \* what is known of the visible root
    files,                   \* the root's children
    removals,                \* how often one was removed
    classCache,              \* gHiddenPathClassificationCache
    uidErrRemap,             \* pendingCount of each uid
    listHook,                \* GetDirectoryEntries is hooked
    workload,
    request, listing

publication == <<published, generation, applying, sweep, toNotify>>
root == <<rootIno, rootPath>>
directory == <<files, removals>>
fixed == <<listHook, workload>>
vars == <<publication, dentries, outlived, root, files, removals, classCache, uidErrRemap, fixed, request, listing>>

-----------------------------------------------------------------------------
(***************************************************************************)
(* What each version hides under the root.                                 *)
(***************************************************************************)
Version == 1..Len(Configs)
Child(n) == JoinPathComponent([root |-> Primary, rel |-> <<>>], n)

AnyRule == [v \in Version |-> RuleForAnyPackage(Configs[v])]
UidRule == [v \in Version |-> [u \in Uid |-> RuleForUid(Configs[v], PackagesOf[u])]]

Restricted(v, u) == UidRule[v][u] # {}

ExactFor == [v \in Version |-> [u \in Uid |-> {n \in RequestName :
                \E rule \in UidRule[v][u] : IsExactHiddenTargetPath(rule, Child(n))}]]
EntryFor == [v \in Version |-> [u \in Uid |-> {n \in RequestName :
                \E rule \in UidRule[v][u] : IsHiddenRootEntryName(rule, n, Primary)}]]
WildcardFor == [v \in Version |-> {u \in Uid : \E rule \in UidRule[v][u] : Primary \in rule.hideAll}]
ExactForAny == [v \in Version |-> {n \in RequestName :
                \E rule \in AnyRule[v] : IsAnyHiddenSubtreePath(rule, Child(n))}]
EntryForAny == [v \in Version |-> {n \in RequestName :
                \E rule \in AnyRule[v] : IsHiddenRootEntryName(rule, n, Primary)}]

\* The names WrappedShouldNotCache holds for.
ShouldNotCacheName == [v \in Version |-> {n \in ExactForAny[v] :
                MayParticipateInHidePolicy(AnyRule[v], Child(n))}]

\* The precheck keeps no hidden name of a request out of the comparison.
PrecheckMissesNothing == \A v \in Version : ShouldNotCacheName[v] = ExactForAny[v]

Configured == [v \in Version |-> UNION {rule.hiddenRootEntryNames : rule \in AnyRule[v]}]

\* The lower file system takes names for the same as the policy does.
SameName(n, m) == CanonicalizeHiddenEntryNameForMatch(n) = CanonicalizeHiddenEntryNameForMatch(m)
OnDisk(n) == \E m \in files : SameName(m, n)

Borrowed == generation..published
RootTracked == rootIno /\ rootPath

-----------------------------------------------------------------------------
Operation == {"stat", "getattr", "mkdir", "rmdir"}
Answer == {"none", "found", "created", "removed", "ENOENT", "EACCES", "EPERM", "EEXIST", "ENOTEMPTY"}
Request == [pc: {"idle", "original", "reply", "named", "look", "compute", "store",
                 "perform", "created", "done"},
            op: Operation, uid: Uid, name: RequestName,
            hide: BOOLEAN,         \* gTrackRootHiddenLookup
            uncached: BOOLEAN,     \* gCrossUidSensitiveLookup, or a zero entry_timeout
            class: Nat,            \* the rules a classification was made with, or 0
            seen: Nat,             \* the generation it was made in
            answer: Answer,
            truth: Answer,         \* what the lower file system said (history)
            began: Nat,            \* generation at the start (history)
            steady: BOOLEAN,       \* the rules were the same throughout (history)
            rooted: BOOLEAN]       \* the root was tracked at the start (history)

NoRequest == [pc |-> "idle", op |-> "stat", uid |-> CHOOSE u \in Uid : TRUE,
              name |-> CHOOSE n \in RequestName : TRUE,
              hide |-> FALSE, uncached |-> FALSE, class |-> 0, seen |-> 0,
              answer |-> "none", truth |-> "none",
              began |-> 0, steady |-> FALSE, rooted |-> FALSE]

NoListing == [pc |-> "closed", uid |-> CHOOSE u \in Uid : TRUE, entries |-> {}, offset |-> 0,
              cacheable |-> {}, continuing |-> FALSE, got |-> {},
              steady |-> FALSE, filtered |-> FALSE, whole |-> FALSE]

Init ==
    /\ published = 1 /\ generation = 1 /\ applying = "idle"
    /\ sweep = "done" /\ toNotify = {}
    /\ dentries = {} /\ outlived = {}
    /\ rootIno = FALSE /\ rootPath \in BOOLEAN
    /\ files = InitialFiles /\ removals = 0
    /\ classCache = {}
    /\ uidErrRemap = [u \in Uid |-> 0]
    /\ listHook \in BOOLEAN /\ workload \in Workloads
    /\ request = [t \in Thread |-> NoRequest]
    /\ listing = NoListing

-----------------------------------------------------------------------------
(***************************************************************************)
(* The directory's lock (external).                                        *)
(***************************************************************************)
HoldsDirectory(t) == request[t].pc \notin {"idle", "done"} /\ request[t].op # "getattr"
HoldsExclusively(t) == HoldsDirectory(t) /\ request[t].op \in {"mkdir", "rmdir"}
Unlocked == listing.pc # "page" /\ \A t \in Thread : ~HoldsDirectory(t)
Shareable == \A t \in Thread : ~HoldsExclusively(t)

\* Look-ups of one name wait for each other, and a dentry spares the look-up.
MayBegin(t, op, n) ==
    op \in workload /\
    CASE op = "stat" -> /\ Shareable /\ n \notin dentries
                        /\ \A s \in Thread : ~(HoldsDirectory(s) /\ request[s].name = n)
      [] op = "getattr" -> OnDisk(n)
      [] op = "mkdir" -> Unlocked /\ n \notin dentries
      [] op = "rmdir" -> Unlocked /\ removals < MaxRemovals

\* The page of a listing, whose entries are in the order of the directory.  Each
\* is looked up, and one that is gone leaves its place to the next.
Present(from, to) == {i \in (from + 1)..to : Order[i] \in listing.entries /\ OnDisk(Order[i])}
Fits(end) == Cardinality(Present(listing.offset, end)) <= PageSize
PageEnd == CHOOSE end \in listing.offset..Len(Order) :
              Fits(end) /\ (end < Len(Order) => ~Fits(end + 1))
Page == {Order[i] : i \in Present(listing.offset, PageEnd)}

\* Names that a look-up under way may make a dentry of.
InFlight == {request[t].name : t \in {s \in Thread : HoldsDirectory(s)}}
               \cup (IF listing.pc = "page" THEN Page ELSE {})

-----------------------------------------------------------------------------
(***************************************************************************)
(* ApplyHideConfig and the sweep of the root.                              *)
(***************************************************************************)

\* The histories of a request or a listing that new rules or a new child overtake.
Overtaken(r) == [r EXCEPT !.steady = FALSE]
Disturbed(l) == [l EXCEPT !.steady = FALSE, !.got = {}]

StoreRules ==
    /\ applying = "idle" /\ published < Len(Configs)
    /\ published' = published + 1 /\ applying' = "stored"
    /\ outlived' = (dentries \cup InFlight) \ (files \cup Configured[published'])
    /\ request' = [t \in Thread |-> Overtaken(request[t])]
    /\ listing' = Disturbed(listing)
    /\ UNCHANGED <<generation, sweep, toNotify, dentries, root, directory, classCache, uidErrRemap, fixed>>

BumpGeneration ==
    /\ applying = "stored"
    /\ generation' = generation + 1 /\ applying' = "bumped"
    /\ UNCHANGED <<published, sweep, toNotify, dentries, outlived, root, directory, classCache,
                   uidErrRemap, fixed, request, listing>>

ClearHiddenPathClassificationCache ==
    /\ applying = "bumped"
    /\ classCache' = {} /\ applying' = "cleared"
    /\ UNCHANGED <<published, generation, sweep, toNotify, dentries, outlived, root, directory,
                   uidErrRemap, fixed, request, listing>>

\* InvalidateTrackedHideTargets and ResetSessionRuleTracking: a running sweep starts over.
RequestSweep ==
    /\ applying = "cleared"
    /\ sweep' = "owed" /\ toNotify' = {} /\ applying' = "idle"
    /\ uidErrRemap' = [u \in Uid |-> 0]
    /\ UNCHANGED <<published, generation, dentries, outlived, root, directory, classCache,
                   fixed, request, listing>>

BeginSweep ==
    /\ sweep = "owed" /\ RootTracked
    /\ sweep' = "configured" /\ toNotify' = Configured[published]
    /\ UNCHANGED <<published, generation, applying, dentries, outlived, root, directory, classCache,
                   uidErrRemap, fixed, request, listing>>

\* Defect: names are taken back, and what else the directory holds is not.
ScanNothing ==
    /\ sweep = "configured" /\ toNotify = {}
    /\ sweep' = "scanned"
    /\ UNCHANGED <<published, generation, applying, toNotify, dentries, outlived, root, directory,
                   classCache, uidErrRemap, fixed, request, listing>>

ScanDirectory ==
    /\ sweep = "configured" /\ toNotify = {}
    /\ sweep' = "scanned" /\ toNotify' = files
    /\ UNCHANGED <<published, generation, applying, dentries, outlived, root, directory, classCache,
                   uidErrRemap, fixed, request, listing>>

EndSweep ==
    /\ sweep = "scanned" /\ toNotify = {}
    /\ sweep' = "done"
    /\ UNCHANGED <<published, generation, applying, toNotify, dentries, outlived, root, directory,
                   classCache, uidErrRemap, fixed, request, listing>>

NotifyInvalEntry ==
    /\ Unlocked
    /\ \E n \in toNotify :
          toNotify' = toNotify \ {n} /\ dentries' = dentries \ {n}
    /\ UNCHANGED <<published, generation, applying, sweep, outlived, root, directory, classCache,
                   uidErrRemap, fixed, request, listing>>

-----------------------------------------------------------------------------
(***************************************************************************)
(* LOOKUP                                                                  *)
(***************************************************************************)
Become(t, r) == request' = [request EXCEPT ![t] = r]

Begun(op, u, n) ==
    [NoRequest EXCEPT !.op = op, !.uid = u, !.name = n, !.began = generation,
                      !.steady = (generation = published), !.rooted = RootTracked]

\* IsHiddenLookupCacheTarget
TracksRootHiddenLookup(v, u, n) == rootIno /\ n \in EntryFor[v][u]

IsCrossUidSensitiveLookup(n) ==
    IF RootTracked THEN n \in ExactForAny[published]
    ELSE rootIno /\ n \in EntryForAny[published]

\* WrappedPfLookup, up to the call of the original.
PfLookup(t) ==
    /\ request[t].pc = "idle"
    /\ \E op \in {"stat", "mkdir", "rmdir"}, u \in Uid, n \in RequestName \ dentries, v \in Borrowed :
          /\ MayBegin(t, op, n)
          /\ Become(t, [Begun(op, u, n) EXCEPT !.pc = "original",
                            !.hide = TracksRootHiddenLookup(v, u, n),
                            !.uncached = IsCrossUidSensitiveLookup(n)])
    /\ UNCHANGED <<publication, dentries, outlived, root, directory, classCache, uidErrRemap, fixed, listing>>

\* The request is answered; what it carried is gone.
Answered(r, answer) ==
    [r EXCEPT !.pc = "done", !.answer = answer, !.hide = FALSE, !.uncached = FALSE, !.seen = 0]

\* What the kernel makes of a look-up that found nothing.
NotFound(r) ==
    IF r.op = "mkdir" THEN [r EXCEPT !.pc = "named", !.hide = FALSE, !.uncached = FALSE]
    ELSE Answered(r, "ENOENT")

\* The lower look-up; a node is made with WrappedShouldNotCache.
OriginalLookup(t) ==
    LET r == request[t] IN
    /\ r.pc = "original"
    /\ \/ /\ ~OnDisk(r.name)
          /\ Become(t, NotFound([r EXCEPT !.truth = "ENOENT"]))
          /\ UNCHANGED rootIno
       \/ /\ OnDisk(r.name)
          /\ rootIno' = TRUE
          /\ \E v \in Borrowed :
                Become(t, [r EXCEPT !.pc = "reply", !.truth = "found",
                              !.hide = @ \/ r.name \in ExactFor[v][r.uid],
                              !.uncached = @ \/ r.name \in ShouldNotCacheName[published]])
    /\ UNCHANGED <<publication, dentries, outlived, rootPath, directory, classCache, uidErrRemap, fixed, listing>>

\* Defect: one counter for every uid.
ArmEveryUid(u) ==
    uidErrRemap' = [w \in Uid |-> IF uidErrRemap[w] < RemapMax THEN uidErrRemap[w] + 1 ELSE RemapMax]

ArmHiddenCreateLeakRemap(u) ==
    uidErrRemap' = [uidErrRemap EXCEPT ![u] = IF @ < RemapMax THEN @ + 1 ELSE @]

\* What the kernel makes of a positive entry; it answers mkdir itself.
Found(r) ==
    CASE r.op = "stat" -> Answered(r, "found")
      [] r.op = "mkdir" -> NoRequest
      [] r.op = "rmdir" -> [r EXCEPT !.pc = "named", !.hide = FALSE, !.uncached = FALSE]

ReplyEntry(t) ==
    LET r == request[t] IN
    /\ r.pc = "reply"
    /\ \E v \in Borrowed :
          \/ /\ r.hide /\ Restricted(v, r.uid)
             /\ ArmHiddenCreateLeakRemap(r.uid)
             /\ Become(t, NotFound(r))
             /\ UNCHANGED dentries
          \/ /\ ~(r.hide /\ Restricted(v, r.uid))
             /\ dentries' = IF r.hide \/ r.uncached \/ (RootTracked /\ r.name \in ExactFor[v][r.uid])
                            THEN dentries ELSE dentries \cup {r.name}
             /\ Become(t, Found(r))
             /\ UNCHANGED uidErrRemap
    /\ UNCHANGED <<publication, outlived, root, directory, classCache, fixed, listing>>

-----------------------------------------------------------------------------
(***************************************************************************)
(* GETATTR, MKDIR and RMDIR                                                *)
(***************************************************************************)
\* A name with a dentry is removed without a look-up.
PfRmdir(t) ==
    /\ request[t].pc = "idle"
    /\ \E u \in Uid, n \in dentries :
          /\ MayBegin(t, "rmdir", n)
          /\ Become(t, [Begun("rmdir", u, n) EXCEPT !.pc = "named"])
    /\ UNCHANGED <<publication, dentries, outlived, root, directory, classCache, uidErrRemap, fixed, listing>>

\* WrappedPfMkdir, WrappedPfRmdir
NamedTargetError(op) == IF op = "mkdir" THEN "EACCES" ELSE "ENOENT"

\* Defect: configured names only, not those hide-all covers.
ClassifyConfiguredTarget(v, u, n) ==
    IF rootIno /\ Restricted(v, u) /\ n \in Configured[v] THEN "root" ELSE "none"

ClassifyHiddenNamedTarget(v, u, n) ==
    IF (rootIno /\ n \in EntryFor[v][u]) \/ (RootTracked /\ n \in ExactFor[v][u])
    THEN "root" ELSE "none"

PerformNamed(t) ==
    LET r == request[t] IN
    /\ r.pc = "named"
    /\ \E v \in Borrowed :
          Become(t, IF ClassifyHiddenNamedTarget(v, r.uid, r.name) = "root"
                    THEN Answered(r, NamedTargetError(r.op))
                    ELSE [r EXCEPT !.pc = IF r.op = "mkdir" THEN "look" ELSE "perform"])
    /\ UNCHANGED <<publication, dentries, outlived, root, directory, classCache, uidErrRemap, fixed, listing>>

PfGetattr(t) ==
    /\ request[t].pc = "idle"
    /\ \E u \in Uid, n \in RequestName :
          /\ MayBegin(t, "getattr", n)
          /\ Become(t, [Begun("getattr", u, n) EXCEPT !.pc = "look"])
    /\ UNCHANGED <<publication, dentries, outlived, root, directory, classCache, uidErrRemap, fixed, listing>>

\* How lstat and mkdir of the lower file system go on once the path is classified.
Classified(r, hidden) ==
    CASE r.op = "mkdir" /\ hidden -> Answered(r, "EACCES")
      [] r.op = "mkdir" /\ ~hidden -> [r EXCEPT !.pc = "perform"]
      [] r.op = "getattr" /\ hidden -> Answered(r, "ENOENT")
      [] r.op = "getattr" /\ ~hidden ->
            LET result == IF OnDisk(r.name) THEN "found" ELSE "ENOENT"
            IN Answered([r EXCEPT !.truth = result], result)

ClassifiedBy(r, v) == Classified([r EXCEPT !.class = v], r.name \in ExactFor[v][r.uid])

Cached(u, n) == {e \in classCache : e.uid = u /\ e.name = n}

\* The first hold of the cache's mutex in ClassifyHiddenPath.
LookForClass(t) ==
    LET r == request[t]
        current == {e \in Cached(r.uid, r.name) : e.seen = generation} IN
    /\ r.pc = "look"
    /\ \E v \in Borrowed :
          \/ /\ ~Restricted(v, r.uid)
             /\ Become(t, Classified([r EXCEPT !.class = v], FALSE))
             /\ UNCHANGED classCache
          \/ /\ Restricted(v, r.uid)
             /\ \E e \in current : Become(t, ClassifiedBy(r, e.class))
             /\ UNCHANGED classCache
          \/ /\ Restricted(v, r.uid) /\ current = {}
             /\ classCache' = classCache \ Cached(r.uid, r.name)
             /\ Become(t, [r EXCEPT !.pc = "compute", !.seen = generation])
    /\ UNCHANGED <<publication, dentries, outlived, root, directory, uidErrRemap, fixed, listing>>

ComputeClass(t) ==
    /\ request[t].pc = "compute"
    /\ \E v \in Borrowed : Become(t, [request[t] EXCEPT !.pc = "store", !.class = v])
    /\ UNCHANGED <<publication, dentries, outlived, root, directory, classCache, uidErrRemap, fixed, listing>>

\* The entries that make room for one of r: its own, or any when there is none.
Recycled(r) ==
    IF Cached(r.uid, r.name) # {} \/ Cardinality(classCache) < MaxCached
    THEN {Cached(r.uid, r.name)} ELSE {{e} : e \in classCache}

\* Defect: the result is stored under the generation of now.
StoreClassUnchecked(t) ==
    LET r == request[t] IN
    /\ r.pc = "store"
    /\ \E old \in Recycled(r) :
          classCache' = (classCache \ old) \cup
              {[uid |-> r.uid, name |-> r.name, seen |-> generation, class |-> r.class]}
    /\ Become(t, ClassifiedBy(r, r.class))
    /\ UNCHANGED <<publication, dentries, outlived, root, directory, uidErrRemap, fixed, listing>>

\* The second hold: nothing is stored once the generation has moved.
StoreClass(t) ==
    LET r == request[t] IN
    /\ r.pc = "store"
    /\ \/ /\ r.seen # generation
          /\ UNCHANGED classCache
       \/ /\ r.seen = generation
          /\ \E old \in Recycled(r) :
                classCache' = (classCache \ old) \cup
                    {[uid |-> r.uid, name |-> r.name, seen |-> generation, class |-> r.class]}
    /\ Become(t, ClassifiedBy(r, r.class))
    /\ UNCHANGED <<publication, dentries, outlived, root, directory, uidErrRemap, fixed, listing>>

\* WrappedReplyErr with a code that tells a hidden name from an absent one.
MaybeRewriteHiddenLeakErrno(t, err) ==
    LET r == [request[t] EXCEPT !.truth = err]
        armed == uidErrRemap[r.uid] > 0 IN
    /\ Become(t, Answered(r, IF armed THEN "EPERM" ELSE err))
    /\ uidErrRemap' = [uidErrRemap EXCEPT ![r.uid] = IF armed THEN @ - 1 ELSE @]

\* The lower file system, and the entry made for a new directory.
Mkdir(t) ==
    LET r == request[t] IN
    /\ r.pc = "perform" /\ r.op = "mkdir"
    /\ \/ /\ OnDisk(r.name)
          /\ MaybeRewriteHiddenLeakErrno(t, "EEXIST")
          /\ UNCHANGED <<directory, listing>>
       \/ /\ ~OnDisk(r.name)
          /\ files' = files \cup {r.name} /\ UNCHANGED removals
          /\ listing' = Disturbed(listing)
          /\ Become(t, [r EXCEPT !.pc = "created", !.truth = "created",
                            !.uncached = r.name \in ShouldNotCacheName[published]])
          /\ UNCHANGED uidErrRemap
    /\ UNCHANGED <<publication, dentries, outlived, root, classCache, fixed>>

ReplyCreated(t) ==
    LET r == request[t] IN
    /\ r.pc = "created"
    /\ dentries' = IF r.uncached THEN dentries ELSE dentries \cup {r.name}
    /\ Become(t, Answered(r, "created"))
    /\ UNCHANGED <<publication, outlived, root, directory, classCache, uidErrRemap, fixed, listing>>

Rmdir(t) ==
    LET r == request[t]
        Other(m) == ~SameName(m, r.name) IN
    /\ r.pc = "perform" /\ r.op = "rmdir"
    /\ \/ /\ \E m \in Full \cap files : SameName(m, r.name)
          /\ MaybeRewriteHiddenLeakErrno(t, "ENOTEMPTY")
          /\ UNCHANGED <<directory, dentries, listing>>
       \/ /\ \E m \in files \ Full : SameName(m, r.name)
          /\ files' = {m \in files : Other(m)} /\ removals' = removals + 1
          /\ dentries' = {m \in dentries : Other(m)}
          /\ listing' = Disturbed(listing)
          /\ Become(t, Answered([r EXCEPT !.truth = "removed"], "removed"))
          /\ UNCHANGED uidErrRemap
    /\ UNCHANGED <<publication, outlived, root, classCache, fixed>>

Return(t) ==
    /\ request[t].pc = "done"
    /\ Become(t, NoRequest)
    /\ UNCHANGED <<publication, dentries, outlived, root, directory, classCache, uidErrRemap, fixed, listing>>

-----------------------------------------------------------------------------
(***************************************************************************)
(* READDIRPLUS                                                             *)
(***************************************************************************)
\* The entries of the page get their timeouts from WrappedShouldNotCache.
Cacheable == RequestName \ ShouldNotCacheName[published]

\* The first page reads the directory; WrappedGetDirectoryEntries, where it is
\* hooked, filters it and learns the root.
OpenListing ==
    /\ listing.pc = "closed" /\ Shareable /\ "list" \in workload
    /\ \E u \in Uid, v \in Borrowed :
          LET continuing == Continues /\ RootTracked /\ u \in WildcardFor[v] IN
          listing' = [pc |-> "page", uid |-> u,
                      entries |-> files \ (IF listHook THEN ExactFor[v][u] ELSE {}),
                      offset |-> 0, cacheable |-> Cacheable, continuing |-> continuing, got |-> {},
                      steady |-> (generation = published),
                      filtered |-> listHook \/ RootTracked,
                      whole |-> listHook \/ continuing]
    /\ rootIno' = (rootIno \/ listHook) /\ rootPath' = (rootPath \/ listHook)
    /\ UNCHANGED <<publication, dentries, outlived, directory, classCache, uidErrRemap, fixed, request>>

NextPage ==
    /\ listing.pc = "open" /\ Shareable
    /\ \E v \in Borrowed :
          LET continuing == Continues /\ RootTracked /\ listing.uid \in WildcardFor[v] IN
          listing' = [listing EXCEPT !.pc = "page", !.cacheable = Cacheable,
                                     !.continuing = continuing,
                                     !.whole = @ /\ (listHook \/ continuing)]
    /\ UNCHANGED <<publication, dentries, outlived, root, directory, classCache, uidErrRemap, fixed, request>>

\* Defect: names are asked for, and relative paths are not.
EntriesFilteredFrom(v, u) == IF RootTracked THEN EntryFor[v][u] ELSE {}

\* ShouldFilterHiddenRootDirent
FilteredFrom(v, u) == IF RootTracked THEN ExactFor[v][u] ELSE {}

\* BuildUncachedSensitiveDirentplusPayload
Uncached == IF RootTracked THEN ExactForAny[published] ELSE {}

\* WrappedReplyBuf.  A page without entries is the end of the directory to the
\* kernel; one that the filter emptied is skipped where pages are continued,
\* up to a number of pages and a time.
ReplyBuf ==
    /\ listing.pc = "page"
    /\ \E v \in Borrowed :
          LET kept == Page \ FilteredFrom(v, listing.uid)
              emptied == kept = {} /\ Page # {} IN
          /\ dentries' = dentries \cup ((kept \cap listing.cacheable) \ Uncached)
          /\ \/ /\ emptied /\ listing.continuing
                /\ listing' = [listing EXCEPT !.offset = PageEnd, !.cacheable = Cacheable]
             \/ /\ emptied /\ listing.continuing
                /\ listing' = [listing EXCEPT !.pc = "failed"]
             \/ /\ ~(emptied /\ listing.continuing)
                /\ listing' = [listing EXCEPT !.pc = IF kept = {} THEN "end" ELSE "open",
                                              !.offset = PageEnd,
                                              !.got = IF listing.steady THEN @ \cup kept ELSE @]
    /\ UNCHANGED <<publication, outlived, root, directory, classCache, uidErrRemap, fixed, request>>

CloseListing ==
    /\ listing.pc \in {"open", "end", "failed"}
    /\ listing' = NoListing
    /\ UNCHANGED <<publication, dentries, outlived, root, directory, classCache, uidErrRemap, fixed, request>>

-----------------------------------------------------------------------------
(***************************************************************************)
(* The environment.                                                        *)
(***************************************************************************)
\* A GETATTR of the root shows its path to WrappedLstat.
GetattrRoot ==
    /\ ~RootTracked
    /\ rootIno' = TRUE /\ rootPath' = TRUE
    /\ UNCHANGED <<publication, dentries, outlived, directory, classCache, uidErrRemap, fixed, request, listing>>

KernelForgets ==
    /\ Unlocked
    /\ \E n \in dentries : dentries' = dentries \ {n}
    /\ UNCHANGED <<publication, outlived, root, directory, classCache, uidErrRemap, fixed, request, listing>>

\* The two seconds of expiresAt pass.
RemapExpires ==
    /\ \E u \in Uid : uidErrRemap[u] > 0 /\ uidErrRemap' = [uidErrRemap EXCEPT ![u] = 0]
    /\ UNCHANGED <<publication, dentries, outlived, root, directory, classCache, fixed, request, listing>>

Next ==
    \/ StoreRules \/ BumpGeneration \/ ClearHiddenPathClassificationCache \/ RequestSweep
    \/ BeginSweep \/ ScanDirectory \/ EndSweep \/ NotifyInvalEntry
    \/ \E t \in Thread :
          \/ PfLookup(t) \/ OriginalLookup(t) \/ ReplyEntry(t) \/ PfRmdir(t) \/ PerformNamed(t)
          \/ PfGetattr(t) \/ LookForClass(t) \/ ComputeClass(t) \/ StoreClass(t)
          \/ Mkdir(t) \/ ReplyCreated(t) \/ Rmdir(t) \/ Return(t)
    \/ OpenListing \/ NextPage \/ ReplyBuf \/ CloseListing
    \/ GetattrRoot \/ KernelForgets \/ RemapExpires

Spec == Init /\ [][Next]_vars

-----------------------------------------------------------------------------
\* Once a publication is over and the root is swept, the kernel shares no
\* dentry of a name that any package's rule hides, but under a spelling that is
\* neither on disk nor configured and was cached before the rules.
SharedDentriesAreSafe ==
    applying = "idle" /\ sweep = "done" =>
        dentries \cap ExactForAny[published] \subseteq outlived

HiddenAnswer(op) == IF op = "mkdir" THEN "EACCES" ELSE "ENOENT"

\* A hidden name answers the same whether it exists or not, in every operation
\* that reaches the daemon under one set of rules; rmdir needs a known root.
HiddenNamesAnswerAlike ==
    \A t \in Thread :
        LET r == request[t] IN
        r.pc = "done" /\ r.steady /\ r.name \in ExactFor[published][r.uid]
            /\ (r.op = "rmdir" => r.rooted)
            => r.answer = HiddenAnswer(r.op)

\* A name the uid may see answers as the lower file system does, but for the
\* rewriting of what the next existence error may give away to a uid that rules
\* so far restrict.
VisibleNamesAnswerTruly ==
    \A t \in Thread :
        LET r == request[t] IN
        r.pc = "done" /\ r.steady /\ r.name \notin ExactFor[published][r.uid] =>
            \/ r.answer = r.truth
            \/ /\ \E v \in 1..published : Restricted(v, r.uid)
               /\ r.answer = "EPERM" /\ r.truth \in {"EEXIST", "ENOTEMPTY"}

\* A listing under one set of rules of a directory at rest shows no hidden name,
\* and every visible one unless a page could be emptied without being continued.
ListingIsWholeAndClean ==
    LET hidden == ExactFor[published][listing.uid] IN
    listing.pc = "end" /\ listing.steady /\ listing.filtered =>
        /\ listing.got \cap hidden = {}
        /\ listing.whole \/ ~Restricted(published, listing.uid) => files \ hidden \subseteq listing.got

\* A classification is never made with rules older than the generation its
\* request began in, whether it is computed or found in the cache.
ClassIsFresh ==
    \A t \in Thread : request[t].class # 0 => request[t].class >= request[t].began
=============================================================================

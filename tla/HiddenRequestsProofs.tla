------------------------ MODULE HiddenRequestsProofs ------------------------
(***************************************************************************)
(* From a saved configuration to what a request sees, for every number of  *)
(* saves, configuration, name, uid and number of threads: the rule of a    *)
(* uid hides no more than the rule of all, classifications are fresh, a    *)
(* request under one set of rules answers by them, the sweep leaves no     *)
(* shared dentry of a hidden name, a listing is whole and clean, and the   *)
(* configuration that is shown as applied is the one in force.             *)
(***************************************************************************)
EXTENDS HiddenRequests, ConfigSync, FiniteSetTheorems, WellFoundedInduction, TLAPS

-----------------------------------------------------------------------------
(***************************************************************************)
(* The policy: what the rules have in common, for every configuration.     *)
(***************************************************************************)
\* One builder asks for no more than another: the same hide-all comes with the
\* same exemptions.
Within(b, c) ==
    /\ b.names \subseteq c.names
    /\ b.paths \subseteq c.paths
    /\ b.hideAll \subseteq c.hideAll
    /\ b.hideAll # {} => b.exemptions = c.exemptions

\* What a builder's rule hides, the rule of a builder that asks for more hides too.
LEMMA WithinHides ==
    ASSUME NEW b, NEW c, Within(b, c), NEW path,
           IsAnyHiddenSubtreePath(CompiledRule(b), path)
    PROVE  IsAnyHiddenSubtreePath(CompiledRule(c), path)
<1> DEFINE lesser == CompiledRule(b)
           greater == CompiledRule(c)
<1>1. /\ lesser.exact \subseteq greater.exact
      /\ lesser.entrySet \subseteq greater.entrySet
      /\ lesser.hideAll \subseteq greater.hideAll
  BY DEF CompiledRule, Within
<1>2. lesser.hideAll # {} => lesser.exemptions = greater.exemptions
  BY DEF CompiledRule, Within
<1> HIDE DEF lesser, greater
<1>3. MatchesRelativeHiddenPathList(lesser, path.rel, FALSE)
        => MatchesRelativeHiddenPathList(greater, path.rel, FALSE)
  BY <1>1 DEF MatchesRelativeHiddenPathList
<1>4. IsHiddenRootEntryName(lesser, path.rel[1], path.root)
        => IsHiddenRootEntryName(greater, path.rel[1], path.root)
  BY <1>1, <1>2 DEF IsHiddenRootEntryName, IsWildcardRootEntryCandidate
<1>5. IsAnyHiddenSubtreePath(lesser, path)
  BY DEF lesser
<1>6. IsAnyHiddenSubtreePath(greater, path)
  BY <1>3, <1>4, <1>5 DEF IsAnyHiddenSubtreePath
<1> QED BY <1>6 DEF greater

\* The packages of one uid, global fragment included, ask for no more than all
\* packages do.
LEMMA UidIsWithinAny ==
    ASSUME NEW config \in HideConfig, NEW packages \in SUBSET Package
    PROVE  Within(UidBuilder(config, packages),
                  MergePackageRules(config.packageRules, Package, config.global))
<1>1. config.global \in Builder
  BY DEF HideConfig
<1>2. ASSUME NEW b \in {config.global, NoTargets}
      PROVE  Within(MergePackageRules(config.packageRules, packages, b),
                    MergePackageRules(config.packageRules, Package, config.global))
  <2>1. b \in [hideAll : {b.hideAll}, exemptions : {b.exemptions},
               names : {b.names}, paths : {b.paths}]
    BY <1>1, <1>2 DEF Builder, NoTargets
  <2>2. /\ b.names \subseteq config.global.names /\ b.paths \subseteq config.global.paths
        /\ b.hideAll \subseteq config.global.hideAll
        /\ b.hideAll # {} => b.exemptions = config.global.exemptions
    BY <1>2 DEF NoTargets
  <2>3. ASSUME NEW d \in {b, config.global}, NEW some \in SUBSET Package
        PROVE  LET m == MergePackageRules(config.packageRules, some, d)
               IN /\ m.names = d.names \cup UNION {config.packageRules[q].names : q \in some}
                  /\ m.paths = d.paths \cup UNION {config.packageRules[q].paths : q \in some}
                  /\ m.hideAll = d.hideAll /\ m.exemptions = d.exemptions
    BY <1>1, <2>1 DEF MergePackageRules, Builder
  <2> QED BY <2>2, <2>3 DEF Within
<1> QED BY <1>2 DEF UidBuilder

\* A path that the rule of any uid hides is hidden by the rule of all packages:
\* the checks that ask for all packages, those that keep dentries out of the
\* kernel's shared cache, miss nothing that a uid would be refused.
THEOREM UidHiddenIsAnyHidden ==
    ASSUME NEW config \in HideConfig, NEW packages \in SUBSET Package,
           NEW rule \in RuleForUid(config, packages),
           NEW path \in Path, IsAnyHiddenSubtreePath(rule, path)
    PROVE  \E any \in RuleForAnyPackage(config) : IsAnyHiddenSubtreePath(any, path)
<1> DEFINE u == UidBuilder(config, packages)
           a == MergePackageRules(config.packageRules, Package, config.global)
<1>1. RuleHasTargets(u) /\ rule = CompiledRule(u)
  BY DEF RuleForUid, BuildCompiledHideRule
<1>2. Within(u, a)
  BY UidIsWithinAny
<1>3. RuleHasTargets(a)
  BY <1>1, <1>2 DEF Within, RuleHasTargets
<1>4. CompiledRule(a) \in RuleForAnyPackage(config)
  BY <1>3 DEF RuleForAnyPackage, BuildCompiledHideRule
<1>5. IsAnyHiddenSubtreePath(CompiledRule(a), path)
  <2> HIDE DEF u, a
  <2> QED BY <1>1, <1>2, WithinHides
<1> QED BY <1>4, <1>5

-----------------------------------------------------------------------------
(***************************************************************************)
(* The rules.                                                              *)
(***************************************************************************)

\* Who has something to hide is restricted.
LEMMA HidingRestricts ==
    ASSUME NEW v \in Version, NEW u \in Uid, NEW n \in ExactFor[v][u]
    PROVE  Restricted(v, u)
BY DEF ExactFor, Restricted

\* A hidden entry of the root is a hidden path.
LEMMA EntriesAreExact ==
    ASSUME NEW v \in Version, NEW u \in Uid
    PROVE  EntryFor[v][u] \subseteq ExactFor[v][u]
<1> SUFFICES ASSUME NEW n \in RequestName, NEW rule \in UidRule[v][u],
                    IsHiddenRootEntryName(rule, n, Primary)
             PROVE  IsExactHiddenTargetPath(rule, Child(n))
  BY DEF EntryFor, ExactFor
<1>1. Child(n) = [root |-> Primary, rel |-> <<n>>]
  BY DEF Child, JoinPathComponent
<1> QED BY <1>1, RootAssumption DEF IsExactHiddenTargetPath, IsUnderVisibleRoot

-----------------------------------------------------------------------------
(***************************************************************************)
(* The invariant of the requests.                                          *)
(***************************************************************************)

\* Where a request of each operation can be.
Placed(r) ==
    /\ r.pc \in {"original", "reply"} => r.op # "getattr"
    /\ r.pc = "reply" => r.truth = "found"
    /\ r.pc \in {"named", "perform"} => r.op \in {"mkdir", "rmdir"}
    /\ r.pc \in {"look", "compute", "store"} => r.op \in {"getattr", "mkdir"}
    /\ r.pc = "created" => r.op = "mkdir"

\* The generations a request has seen.
Timed(r) ==
    /\ r.began <= generation
    /\ r.class # 0 => r.class \in r.began..published
    /\ r.pc = "compute" => r.seen <= generation
    /\ r.pc = "store" => r.class # 0 /\ r.seen <= r.class
    /\ r.steady => r.began = generation /\ generation = published
    /\ r.rooted => RootTracked

\* A request for a hidden name is on its way to the answer of an absent one.
Hiding(r) ==
    r.steady /\ r.name \in ExactFor[published][r.uid] =>
        /\ r.pc = "reply" => r.hide
        /\ r.pc # "created"
        /\ r.pc = "perform" => r.op = "rmdir" /\ ~r.rooted
        /\ r.pc = "done" /\ (r.op = "rmdir" => r.rooted) => r.answer = HiddenAnswer(r.op)

\* A request for a visible name is on its way to the answer of the lower file system.
Showing(r) ==
    r.steady /\ r.name \notin ExactFor[published][r.uid] =>
        /\ r.pc \in {"original", "reply"} => ~r.hide
        /\ r.pc = "created" => r.truth = "created"
        /\ r.pc = "done" => \/ r.answer = r.truth
                            \/ /\ \E v \in 1..published : Restricted(v, r.uid)
                               /\ r.answer = "EPERM" /\ r.truth \in {"EEXIST", "ENOTEMPTY"}

RequestInv(r) == r \in Request /\ Placed(r) /\ Timed(r) /\ Hiding(r) /\ Showing(r)

PublicationInv ==
    /\ generation \in Nat \ {0} /\ published \in Version
    /\ applying \in {"idle", "stored", "bumped", "cleared"}
    /\ published = IF applying = "stored" THEN generation + 1 ELSE generation
    /\ rootIno \in BOOLEAN /\ rootPath \in BOOLEAN

CacheInv ==
    /\ classCache \subseteq [uid: Uid, name: RequestName, seen: Nat, class: Nat]
    /\ \A e \in classCache : e.class \in e.seen..published

\* A rewrite is pending only for a uid that some rules so far restrict.
RemapInv ==
    /\ uidErrRemap \in [Uid -> Nat]
    /\ \A u \in Uid : uidErrRemap[u] > 0 => \E v \in 1..published : Restricted(v, u)

RequestsInv ==
    /\ request \in [Thread -> Request]
    /\ \A t \in Thread : RequestInv(request[t])

\* A dentry is of a name, and so is what a page may make one of.
ListingShape(l) ==
    l \in [pc: {"closed", "page", "open", "end", "failed"}, uid: Uid, entries: {l.entries},
           offset: {l.offset}, cacheable: SUBSET RequestName, continuing: BOOLEAN, got: {l.got},
           steady: BOOLEAN, filtered: {l.filtered}, whole: {l.whole}]

SharedTyped == dentries \subseteq RequestName /\ ListingShape(listing)

AnswerInv == PublicationInv /\ CacheInv /\ RemapInv /\ RequestsInv /\ SharedTyped

LEMMA BorrowedIsVersion ==
    ASSUME PublicationInv
    PROVE  /\ Borrowed \subseteq Version /\ Borrowed \subseteq 1..published
           /\ generation = published => Borrowed = {published}
BY RequestAssumption DEF PublicationInv, Borrowed, Version

LEMMA IdleIsRequest == NoRequest \in Request
<1> DEFINE someone == CHOOSE u \in Uid : TRUE
           something == CHOOSE n \in RequestName : TRUE
<1>1. someone \in Uid /\ something \in RequestName
  BY RequestAssumption
<1>2. NoRequest = [pc |-> "idle", op |-> "stat", uid |-> someone, name |-> something,
                   hide |-> FALSE, uncached |-> FALSE, class |-> 0, seen |-> 0,
                   answer |-> "none", truth |-> "none",
                   began |-> 0, steady |-> FALSE, rooted |-> FALSE]
  BY DEF NoRequest
<1> HIDE DEF someone, something
<1> QED BY <1>1, <1>2 DEF Request, Operation, Answer

LEMMA StartUp == Init => AnswerInv
<1> SUFFICES ASSUME Init PROVE AnswerInv
  OBVIOUS
<1>1. 1 \in Version
  BY RequestAssumption DEF Version
<1>2. PublicationInv
  <2>1. rootIno \in BOOLEAN /\ rootPath \in BOOLEAN
    BY DEF Init
  <2>2. published = 1 /\ generation = 1 /\ applying = "idle"
    BY DEF Init
  <2> QED BY <1>1, <2>1, <2>2 DEF PublicationInv
<1>3. CacheInv /\ RemapInv
  BY DEF Init, CacheInv, RemapInv
<1>4. RequestInv(NoRequest)
  BY IdleIsRequest DEF Init, RequestInv, NoRequest, Placed, Timed, Hiding, Showing
<1>5. request = [t \in Thread |-> NoRequest]
  BY DEF Init
<1>6. SharedTyped
  <2> DEFINE someone == CHOOSE u \in Uid : TRUE
  <2>1. someone \in Uid
    BY RequestAssumption
  <2>2. NoListing = [pc |-> "closed", uid |-> someone, entries |-> {}, offset |-> 0,
                     cacheable |-> {}, continuing |-> FALSE, got |-> {},
                     steady |-> FALSE, filtered |-> FALSE, whole |-> FALSE]
    BY DEF NoListing
  <2> HIDE DEF someone
  <2>3. ListingShape(NoListing)
    BY <2>1, <2>2 DEF ListingShape
  <2> QED BY <2>3 DEF Init, SharedTyped
<1> QED BY <1>2, <1>3, <1>4, <1>5, <1>6, IdleIsRequest DEF RequestsInv, AnswerInv

\* One request moves and the others stay as they are.
LEMMA OneRequest ==
    ASSUME RequestsInv, NEW t \in Thread, NEW q, Become(t, q), RequestInv(q),
           published' = published, generation' = generation,
           rootIno => rootIno', rootPath => rootPath'
    PROVE  RequestsInv'
<1>1. request' \in [Thread -> Request]
  BY DEF RequestsInv, Become, RequestInv
<1>2. ASSUME NEW s \in Thread
      PROVE  RequestInv(request[s])'
  <2>1. PICK next \in Request : next = request'[s] /\ RequestInv(next)
    BY DEF RequestsInv, Become, RequestInv
  <2>2. Placed(next)' /\ Timed(next)'
    BY <2>1 DEF RequestInv, Placed, Timed, RootTracked
  <2>3. Hiding(next)' /\ Showing(next)'
    BY <2>1 DEF RequestInv, Hiding, Showing
  <2> QED BY <2>1, <2>2, <2>3 DEF RequestInv, Placed, Timed, Hiding, Showing, RootTracked
<1> QED BY <1>1, <1>2 DEF RequestsInv

\* A step that leaves the rules, the cache and the pending rewrites alone.
LEMMA OtherwiseSame ==
    ASSUME AnswerInv, published' = published, generation' = generation, applying' = applying,
           rootIno' \in {rootIno, TRUE}, rootPath' \in {rootPath, TRUE}
    PROVE  /\ PublicationInv'
           /\ classCache' = classCache => CacheInv'
           /\ uidErrRemap' = uidErrRemap => RemapInv'
BY DEF AnswerInv, PublicationInv, CacheInv, RemapInv

LEMMA QuietStep ==
    ASSUME AnswerInv, NEW t \in Thread, NEW q, Become(t, q), RequestInv(q),
           UNCHANGED <<publication, classCache, uidErrRemap, dentries, listing>>,
           rootIno' \in {rootIno, TRUE}, rootPath' \in {rootPath, TRUE}
    PROVE  AnswerInv'
<1>0. (rootIno => rootIno') /\ (rootPath => rootPath')
  BY DEF AnswerInv, PublicationInv
<1>1. RequestsInv'
  BY <1>0, OneRequest DEF AnswerInv, publication
<1>2. SharedTyped'
  BY DEF AnswerInv, SharedTyped, ListingShape
<1> QED BY <1>1, <1>2, OtherwiseSame DEF AnswerInv, publication

-----------------------------------------------------------------------------
(***************************************************************************)
(* What the records of a request become.                                   *)
(***************************************************************************)
AnswersBy(r, answer, truth) ==
    /\ r.steady /\ r.name \in ExactFor[published][r.uid] /\ (r.op = "rmdir" => r.rooted)
           => answer = HiddenAnswer(r.op)
    /\ r.steady /\ r.name \notin ExactFor[published][r.uid] =>
           \/ answer = truth
           \/ /\ \E v \in 1..published : Restricted(v, r.uid)
              /\ answer = "EPERM" /\ truth \in {"EEXIST", "ENOTEMPTY"}

\* An answered request keeps what it knew of the generations.
LEMMA AnsweredKeeps ==
    ASSUME NEW r \in Request, Timed(r), NEW a \in Answer, AnswersBy(r, a, r.truth)
    PROVE  RequestInv(Answered(r, a))
<1> DEFINE q == Answered(r, a)
<1>1. /\ q \in Request
      /\ q.pc = "done" /\ q.answer = a /\ q.op = r.op /\ q.uid = r.uid /\ q.name = r.name
      /\ q.class = r.class /\ q.truth = r.truth /\ q.began = r.began
      /\ q.steady = r.steady /\ q.rooted = r.rooted
  BY DEF Answered, Request
<1> HIDE DEF q
<1>2. Placed(q) /\ Timed(q)
  BY <1>1 DEF Placed, Timed
<1>3. Hiding(q)
  BY <1>1 DEF Hiding, AnswersBy
<1>4. Showing(q)
  BY <1>1 DEF Showing, AnswersBy
<1> QED BY <1>1, <1>2, <1>3, <1>4 DEF RequestInv, q

\* A request that has not been answered yet, at a place where nothing is known
\* of its answer.
LEMMA OnTheWay ==
    ASSUME NEW r \in Request, Timed(r), NEW q \in Request,
           q.pc \in {"named", "look", "compute"}, q.op = r.op,
           q.began = r.began, q.class = r.class, q.steady = r.steady, q.rooted = r.rooted,
           q.pc = "compute" => q.seen <= generation,
           q.pc = "named" => q.op \in {"mkdir", "rmdir"},
           q.pc \in {"look", "compute"} => q.op \in {"getattr", "mkdir"}
    PROVE  RequestInv(q)
BY DEF RequestInv, Placed, Timed, Hiding, Showing

\* A request that begins: what it has seen of the generations is of now.
LEMMA BegunIs ==
    ASSUME PublicationInv, NEW op \in Operation, NEW u \in Uid, NEW n \in RequestName
    PROVE  LET b == Begun(op, u, n) IN
           /\ b \in Request /\ Timed(b)
           /\ b.op = op /\ b.uid = u /\ b.name = n /\ b.class = 0 /\ b.rooted = RootTracked
           /\ b.began = generation /\ b.steady = (generation = published)
<1> DEFINE b == Begun(op, u, n)
<1> DEFINE steady == generation = published
<1>1. steady \in BOOLEAN /\ RootTracked \in BOOLEAN /\ generation \in Nat
  BY DEF PublicationInv, RootTracked
<1> HIDE DEF steady
<1>2. /\ b \in Request
      /\ b.op = op /\ b.uid = u /\ b.name = n /\ b.class = 0 /\ b.rooted = RootTracked
      /\ b.pc = "idle" /\ b.began = generation /\ b.steady = steady
  BY <1>1, IdleIsRequest DEF Begun, NoRequest, Request, steady
<1> HIDE DEF b
<1>3. Timed(b)
  <2>1. b.rooted => RootTracked
    BY <1>2
  <2>2. b.steady => b.began = generation /\ generation = published
    BY <1>2 DEF steady
  <2>3. b.began <= generation
    BY <1>1, <1>2
  <2> QED BY <1>2, <2>1, <2>2, <2>3 DEF Timed
<1> QED BY <1>2, <1>3 DEF b, steady

-----------------------------------------------------------------------------
(***************************************************************************)
(* The steps of a request.                                                 *)
(***************************************************************************)
LEMMA PfLookupKeeps ==
    ASSUME AnswerInv, NEW t \in Thread, PfLookup(t)
    PROVE  AnswerInv'
<1>1. PICK op \in {"stat", "mkdir", "rmdir"}, u \in Uid, n \in RequestName \ dentries, v \in Borrowed :
          Become(t, [Begun(op, u, n) EXCEPT !.pc = "original",
                         !.hide = TracksRootHiddenLookup(v, u, n),
                         !.uncached = IsCrossUidSensitiveLookup(n)])
  BY DEF PfLookup
<1> DEFINE b == Begun(op, u, n)
           hide == TracksRootHiddenLookup(v, u, n)
           uncached == IsCrossUidSensitiveLookup(n)
           q == [b EXCEPT !.pc = "original", !.hide = hide, !.uncached = uncached]
<1>2. PublicationInv /\ op \in Operation
  BY DEF AnswerInv, Operation
<1>3. /\ b \in Request /\ Timed(b) /\ b.op = op /\ b.uid = u /\ b.name = n
      /\ b.began = generation /\ b.class = 0
  BY <1>2, BegunIs
<1>4. hide \in BOOLEAN /\ uncached \in BOOLEAN
  <2>1. rootIno \in BOOLEAN
    BY <1>2 DEF PublicationInv
  <2>2. CASE RootTracked
    BY <2>1, <2>2 DEF TracksRootHiddenLookup, IsCrossUidSensitiveLookup
  <2>3. CASE ~RootTracked
    BY <2>1, <2>3 DEF TracksRootHiddenLookup, IsCrossUidSensitiveLookup
  <2> QED BY <2>2, <2>3
<1>5. hide /\ generation = published => n \in ExactFor[published][u]
  BY <1>2, BorrowedIsVersion, EntriesAreExact DEF TracksRootHiddenLookup
<1> HIDE DEF b, hide, uncached
<1>6. /\ q \in Request
      /\ q.pc = "original" /\ q.op = op /\ q.uid = u /\ q.name = n /\ q.hide = hide
      /\ q.class = 0 /\ q.began = b.began /\ q.steady = b.steady /\ q.rooted = b.rooted
  BY <1>3, <1>4 DEF Request
<1> HIDE DEF q
<1>7. Placed(q) /\ Timed(q)
  BY <1>3, <1>6 DEF Placed, Timed
<1>8. Hiding(q) /\ Showing(q)
  BY <1>3, <1>5, <1>6, <1>7 DEF Hiding, Showing, Timed
<1>9. Become(t, q)
  BY <1>1 DEF q, b, hide, uncached
<1> QED BY <1>6, <1>7, <1>8, <1>9, QuietStep DEF RequestInv, PfLookup, root

LEMMA PfRmdirKeeps ==
    ASSUME AnswerInv, NEW t \in Thread, PfRmdir(t)
    PROVE  AnswerInv'
<1>1. PICK u \in Uid, n \in dentries : Become(t, [Begun("rmdir", u, n) EXCEPT !.pc = "named"])
  BY DEF PfRmdir
<1> DEFINE b == Begun("rmdir", u, n)
           q == [b EXCEPT !.pc = "named"]
<1>3. b \in Request /\ Timed(b) /\ b.op = "rmdir"
  BY BegunIs DEF AnswerInv, SharedTyped, Operation
<1> HIDE DEF b
<1>6. /\ q \in Request /\ q.pc = "named" /\ q.op = b.op
      /\ q.class = b.class /\ q.began = b.began /\ q.steady = b.steady /\ q.rooted = b.rooted
  BY <1>3 DEF Request
<1> HIDE DEF q
<1>7. RequestInv(q)
  BY <1>3, <1>6, OnTheWay
<1>8. Become(t, q)
  BY <1>1 DEF q, b
<1> QED BY <1>7, <1>8, QuietStep DEF PfRmdir, root

LEMMA PfGetattrKeeps ==
    ASSUME AnswerInv, NEW t \in Thread, PfGetattr(t)
    PROVE  AnswerInv'
<1>1. PICK u \in Uid, n \in RequestName : Become(t, [Begun("getattr", u, n) EXCEPT !.pc = "look"])
  BY DEF PfGetattr
<1> DEFINE b == Begun("getattr", u, n)
           q == [b EXCEPT !.pc = "look"]
<1>3. b \in Request /\ Timed(b) /\ b.op = "getattr"
  BY BegunIs DEF AnswerInv, Operation
<1> HIDE DEF b
<1>6. /\ q \in Request /\ q.pc = "look" /\ q.op = b.op
      /\ q.class = b.class /\ q.began = b.began /\ q.steady = b.steady /\ q.rooted = b.rooted
  BY <1>3 DEF Request
<1> HIDE DEF q
<1>7. RequestInv(q)
  BY <1>3, <1>6, OnTheWay
<1>8. Become(t, q)
  BY <1>1 DEF q, b
<1> QED BY <1>7, <1>8, QuietStep DEF PfGetattr, root

\* A look-up that found nothing, of a name that is hidden or absent.
LEMMA NotFoundKeeps ==
    ASSUME NEW r \in Request, Timed(r), r.op # "getattr", AnswersBy(r, "ENOENT", r.truth) \/ r.op = "mkdir"
    PROVE  RequestInv(NotFound(r))
<1>1. CASE r.op = "mkdir"
  <2> DEFINE q == NotFound(r)
  <2>1. /\ q \in Request /\ q.pc = "named" /\ q.op = r.op
        /\ q.class = r.class /\ q.began = r.began /\ q.steady = r.steady /\ q.rooted = r.rooted
    BY <1>1 DEF NotFound, Request
  <2> HIDE DEF q
  <2>2. RequestInv(q)
    BY <1>1, <2>1, OnTheWay
  <2> QED BY <2>2 DEF q
<1>2. CASE r.op # "mkdir"
  <2>1. NotFound(r) = Answered(r, "ENOENT") /\ "ENOENT" \in Answer
    BY <1>2 DEF NotFound, Answer
  <2> QED BY <1>2, <2>1, AnsweredKeeps
<1> QED BY <1>1, <1>2

\* A positive entry for a name that is not hidden.
LEMMA FoundKeeps ==
    ASSUME PublicationInv, NEW r \in Request, Timed(r), r.op # "getattr", r.truth = "found",
           r.steady => r.name \notin ExactFor[published][r.uid]
    PROVE  RequestInv(Found(r))
<1>1. CASE r.op = "stat"
  <2>1. Found(r) = Answered(r, "found") /\ "found" \in Answer /\ AnswersBy(r, "found", r.truth)
    BY <1>1 DEF Found, Answer, AnswersBy
  <2> QED BY <2>1, AnsweredKeeps
<1>2. CASE r.op = "mkdir"
  <2>1. Found(r) = NoRequest
    BY <1>2 DEF Found
  <2>2. NoRequest.pc = "idle" /\ NoRequest.class = 0 /\ NoRequest.began = 0
        /\ ~NoRequest.steady /\ ~NoRequest.rooted
    BY DEF NoRequest
  <2> QED BY <2>1, <2>2, IdleIsRequest DEF RequestInv, Placed, Timed, Hiding, Showing, PublicationInv
<1>3. CASE r.op = "rmdir"
  <2> DEFINE q == Found(r)
  <2>1. /\ q \in Request /\ q.pc = "named" /\ q.op = r.op
        /\ q.class = r.class /\ q.began = r.began /\ q.steady = r.steady /\ q.rooted = r.rooted
    BY <1>3 DEF Found, Request
  <2> HIDE DEF q
  <2>2. RequestInv(q)
    BY <1>3, <2>1, OnTheWay
  <2> QED BY <2>2 DEF q
<1> QED BY <1>1, <1>2, <1>3 DEF Request, Operation

LEMMA OriginalLookupKeeps ==
    ASSUME AnswerInv, NEW t \in Thread, OriginalLookup(t)
    PROVE  AnswerInv'
<1> DEFINE r == request[t]
<1>1. RequestInv(r) /\ r \in Request /\ r.pc = "original" /\ PublicationInv
  BY DEF OriginalLookup, AnswerInv, RequestsInv
<1>2. Timed(r) /\ Showing(r) /\ r.op # "getattr"
  BY <1>1 DEF RequestInv, Placed
<1>3. CASE /\ Become(t, NotFound([r EXCEPT !.truth = "ENOENT"]))
           /\ rootIno' = rootIno
  <2> DEFINE p == [r EXCEPT !.truth = "ENOENT"]
  <2>1. /\ p \in Request /\ p.op = r.op /\ p.truth = "ENOENT"
        /\ p.class = r.class /\ p.began = r.began /\ p.steady = r.steady /\ p.rooted = r.rooted
        /\ p.pc = "original"
    BY <1>1 DEF Request, Answer
  <2>2. Become(t, NotFound(p))
    BY <1>3
  <2> HIDE DEF p, r
  <2>3. Timed(p)
    BY <1>1, <1>2, <2>1 DEF Timed
  <2>4. AnswersBy(p, "ENOENT", p.truth) \/ p.op = "mkdir"
    BY <2>1 DEF AnswersBy, HiddenAnswer
  <2>5. RequestInv(NotFound(p))
    BY <1>2, <2>1, <2>3, <2>4, NotFoundKeeps
  <2> QED BY <1>3, <2>2, <2>5, QuietStep DEF OriginalLookup
<1>4. ASSUME NEW v \in Borrowed, rootIno' = TRUE,
             Become(t, [r EXCEPT !.pc = "reply", !.truth = "found",
                              !.hide = @ \/ r.name \in ExactFor[v][r.uid],
                              !.uncached = @ \/ r.name \in ShouldNotCacheName[published]])
      PROVE  AnswerInv'
  <2> DEFINE hide == r.hide \/ r.name \in ExactFor[v][r.uid]
             uncached == r.uncached \/ r.name \in ShouldNotCacheName[published]
             q == [r EXCEPT !.pc = "reply", !.truth = "found", !.hide = hide, !.uncached = uncached]
  <2>1. hide \in BOOLEAN /\ uncached \in BOOLEAN
    BY <1>1 DEF Request
  <2>2. r.steady => (hide <=> r.hide \/ r.name \in ExactFor[published][r.uid])
    BY <1>1, <1>2, BorrowedIsVersion DEF Timed
  <2>3. Become(t, q)
    BY <1>4
  <2> HIDE DEF r, hide, uncached
  <2>4. /\ q \in Request /\ q.pc = "reply" /\ q.truth = "found" /\ q.hide = hide
        /\ q.op = r.op /\ q.uid = r.uid /\ q.name = r.name
        /\ q.class = r.class /\ q.began = r.began /\ q.steady = r.steady /\ q.rooted = r.rooted
    BY <1>1, <2>1 DEF Request, Answer
  <2> HIDE DEF q
  <2>5. Placed(q) /\ Timed(q)
    BY <1>1, <1>2, <2>4 DEF Placed, Timed
  <2>6. Hiding(q) /\ Showing(q)
    BY <1>1, <1>2, <2>2, <2>4 DEF Hiding, Showing
  <2> QED BY <1>4, <2>3, <2>4, <2>5, <2>6, QuietStep DEF RequestInv, OriginalLookup
<1> QED BY <1>3, <1>4 DEF OriginalLookup

LEMMA ReplyEntryKeeps ==
    ASSUME AnswerInv, NEW t \in Thread, ReplyEntry(t)
    PROVE  AnswerInv'
<1> DEFINE r == request[t]
<1>1. RequestInv(r) /\ r \in Request /\ r.pc = "reply" /\ PublicationInv
  BY DEF ReplyEntry, AnswerInv, RequestsInv
<1>2. Timed(r) /\ Hiding(r) /\ Showing(r) /\ r.op # "getattr"
  BY <1>1 DEF RequestInv, Placed
<1>3. UNCHANGED <<publication, root, classCache, listing>>
  BY DEF ReplyEntry
<1>4. ASSUME NEW v \in Borrowed, r.hide, Restricted(v, r.uid),
             ArmHiddenCreateLeakRemap(r.uid), Become(t, NotFound(r)), UNCHANGED dentries
      PROVE  AnswerInv'
  <2>1. AnswersBy(r, "ENOENT", r.truth) \/ r.op = "mkdir"
    BY <1>1, <1>2, <1>4 DEF AnswersBy, HiddenAnswer, Showing
  <2>2. RequestInv(NotFound(r))
    BY <1>1, <1>2, <2>1, NotFoundKeeps
  <2>3. RequestsInv'
    BY <1>3, <1>4, <2>2, OneRequest DEF AnswerInv, publication, root
  <2>4. r.uid \in Uid /\ v \in 1..published
    BY <1>1, BorrowedIsVersion DEF Request
  <2>5. RemapInv'
    <3> HIDE DEF r
    <3>0. uidErrRemap \in [Uid -> Nat] /\ RemapMax \in Nat
      BY RequestAssumption DEF AnswerInv, RemapInv
    <3>1. uidErrRemap' \in [Uid -> Nat]
      <4> DEFINE k == IF uidErrRemap[r.uid] < RemapMax THEN uidErrRemap[r.uid] + 1
                      ELSE uidErrRemap[r.uid]
      <4>1. k \in Nat /\ uidErrRemap' = [uidErrRemap EXCEPT ![r.uid] = k]
        BY <1>4, <2>4, <3>0 DEF ArmHiddenCreateLeakRemap
      <4> HIDE DEF k
      <4> QED BY <3>0, <4>1
    <3>2. \A u \in Uid \ {r.uid} : uidErrRemap'[u] = uidErrRemap[u]
      BY <1>4 DEF ArmHiddenCreateLeakRemap, AnswerInv, RemapInv
    <3> QED BY <1>3, <1>4, <2>4, <3>1, <3>2 DEF AnswerInv, RemapInv, Restricted, publication
  <2>6. SharedTyped'
    BY <1>3, <1>4 DEF AnswerInv, SharedTyped, ListingShape
  <2> QED BY <1>3, <2>3, <2>5, <2>6, OtherwiseSame DEF AnswerInv, publication, root
<1>5. ASSUME NEW v \in Borrowed, ~(r.hide /\ Restricted(v, r.uid)),
             dentries' \subseteq dentries \cup {r.name}, Become(t, Found(r)), UNCHANGED uidErrRemap
      PROVE  AnswerInv'
  <2>1. ASSUME r.steady PROVE r.name \notin ExactFor[published][r.uid]
    <3>1. v = published /\ published \in Version /\ r.uid \in Uid
      BY <1>1, <1>2, <2>1, BorrowedIsVersion DEF Timed, PublicationInv, Request
    <3> QED BY <1>2, <1>5, <1>1, <2>1, <3>1, HidingRestricts DEF Hiding
  <2>2. r.truth = "found"
    BY <1>1 DEF RequestInv, Placed
  <2>3. RequestInv(Found(r))
    BY <1>1, <1>2, <2>1, <2>2, FoundKeeps
  <2>4. RequestsInv'
    BY <1>3, <1>5, <2>3, OneRequest DEF AnswerInv, publication, root
  <2>5. SharedTyped'
    BY <1>1, <1>3, <1>5 DEF AnswerInv, SharedTyped, ListingShape, Request
  <2> QED BY <1>3, <1>5, <2>4, <2>5, OtherwiseSame DEF AnswerInv, publication, root
<1> QED BY <1>4, <1>5 DEF ReplyEntry

LEMMA PerformNamedKeeps ==
    ASSUME AnswerInv, NEW t \in Thread, PerformNamed(t)
    PROVE  AnswerInv'
<1> DEFINE r == request[t]
<1>1. RequestInv(r) /\ r \in Request /\ r.pc = "named" /\ PublicationInv
  BY DEF PerformNamed, AnswerInv, RequestsInv
<1>2. Timed(r) /\ r.op \in {"mkdir", "rmdir"}
  BY <1>1 DEF RequestInv, Placed
<1>3. PICK v \in Borrowed :
          Become(t, IF ClassifyHiddenNamedTarget(v, r.uid, r.name) = "root"
                    THEN Answered(r, NamedTargetError(r.op))
                    ELSE [r EXCEPT !.pc = IF r.op = "mkdir" THEN "look" ELSE "perform"])
  BY DEF PerformNamed
<1>4. /\ v \in Version /\ r.uid \in Uid /\ EntryFor[v][r.uid] \subseteq ExactFor[v][r.uid]
      /\ r.steady => v = published
  BY <1>1, <1>2, BorrowedIsVersion, EntriesAreExact DEF Timed, Request
<1>5. CASE ClassifyHiddenNamedTarget(v, r.uid, r.name) = "root"
  <2>1. r.steady => r.name \in ExactFor[published][r.uid]
    BY <1>4, <1>5 DEF ClassifyHiddenNamedTarget
  <2>2. NamedTargetError(r.op) \in Answer /\ NamedTargetError(r.op) = HiddenAnswer(r.op)
    BY <1>2 DEF NamedTargetError, Answer, HiddenAnswer
  <2>3. RequestInv(Answered(r, NamedTargetError(r.op)))
    BY <1>1, <1>2, <2>1, <2>2, AnsweredKeeps DEF AnswersBy
  <2> QED BY <1>3, <1>5, <2>3, QuietStep DEF PerformNamed, root
<1>6. CASE ClassifyHiddenNamedTarget(v, r.uid, r.name) # "root"
  <2>1. r.steady /\ r.rooted => r.name \notin ExactFor[published][r.uid]
    BY <1>2, <1>4, <1>6 DEF ClassifyHiddenNamedTarget, Timed
  <2> DEFINE place == IF r.op = "mkdir" THEN "look" ELSE "perform"
             q == [r EXCEPT !.pc = place]
  <2>2. Become(t, q)
    BY <1>3, <1>6
  <2> HIDE DEF r
  <2>3. /\ q \in Request /\ q.pc = place /\ q.op = r.op /\ q.uid = r.uid /\ q.name = r.name
        /\ q.class = r.class /\ q.began = r.began /\ q.steady = r.steady /\ q.rooted = r.rooted
    BY <1>1 DEF Request
  <2> HIDE DEF q
  <2>4. Placed(q) /\ Timed(q)
    BY <1>2, <2>3 DEF Placed, Timed
  <2>5. Hiding(q) /\ Showing(q)
    BY <1>2, <2>1, <2>3 DEF Hiding, Showing, Request
  <2> QED BY <2>2, <2>3, <2>4, <2>5, QuietStep DEF RequestInv, PerformNamed, root
<1> QED BY <1>5, <1>6

\* A classified request, by rules no older than itself.
LEMMA ClassifiedKeeps ==
    ASSUME NEW r \in Request, Timed(r), r.op \in {"getattr", "mkdir"}, NEW hidden \in BOOLEAN,
           r.steady => (hidden <=> r.name \in ExactFor[published][r.uid])
    PROVE  RequestInv(Classified(r, hidden))
<1>1. CASE hidden
  <2>1. Classified(r, hidden) = Answered(r, HiddenAnswer(r.op)) /\ HiddenAnswer(r.op) \in Answer
    BY <1>1 DEF Classified, HiddenAnswer, Answer
  <2>2. AnswersBy(r, HiddenAnswer(r.op), r.truth)
    BY <1>1 DEF AnswersBy
  <2> QED BY <2>1, <2>2, AnsweredKeeps
<1>2. CASE ~hidden /\ r.op = "mkdir"
  <2> DEFINE q == [r EXCEPT !.pc = "perform"]
  <2>1. Classified(r, hidden) = q
    BY <1>2 DEF Classified
  <2>2. /\ q \in Request /\ q.pc = "perform" /\ q.op = r.op /\ q.uid = r.uid /\ q.name = r.name
        /\ q.class = r.class /\ q.began = r.began /\ q.steady = r.steady /\ q.rooted = r.rooted
    BY DEF Request
  <2> HIDE DEF q
  <2>3. Placed(q) /\ Timed(q)
    BY <1>2, <2>2 DEF Placed, Timed
  <2>4. Hiding(q) /\ Showing(q)
    BY <1>2, <2>2 DEF Hiding, Showing
  <2> QED BY <2>1, <2>2, <2>3, <2>4 DEF RequestInv
<1>3. CASE ~hidden /\ r.op = "getattr"
  <2> DEFINE result == IF OnDisk(r.name) THEN "found" ELSE "ENOENT"
             p == [r EXCEPT !.truth = result]
  <2>1. Classified(r, hidden) = Answered(p, result)
    BY <1>3 DEF Classified
  <2>2. result \in Answer
    BY DEF Answer
  <2> HIDE DEF result
  <2>3. /\ p \in Request /\ p.op = r.op /\ p.uid = r.uid /\ p.name = r.name /\ p.truth = result
        /\ p.class = r.class /\ p.began = r.began /\ p.steady = r.steady /\ p.rooted = r.rooted
        /\ p.pc = r.pc /\ p.seen = r.seen
    BY <2>2 DEF Request
  <2> HIDE DEF p
  <2>4. Timed(p) /\ AnswersBy(p, result, p.truth)
    BY <1>3, <2>3 DEF Timed, AnswersBy
  <2> QED BY <2>1, <2>2, <2>3, <2>4, AnsweredKeeps
<1> QED BY <1>1, <1>2, <1>3

\* The same where the classification is by version v.
LEMMA ClassifiedByKeeps ==
    ASSUME NEW r \in Request, Timed(r), r.op \in {"getattr", "mkdir"},
           NEW v \in Nat, v \in r.began..published, v # 0,
           r.pc = "store" => v >= r.seen
    PROVE  RequestInv(ClassifiedBy(r, v))
<1> DEFINE p == [r EXCEPT !.class = v]
           hidden == r.name \in ExactFor[v][r.uid]
<1>1. ClassifiedBy(r, v) = Classified(p, hidden)
  BY DEF ClassifiedBy
<1>2. /\ p \in Request /\ p.op = r.op /\ p.uid = r.uid /\ p.name = r.name /\ p.class = v
      /\ p.began = r.began /\ p.steady = r.steady /\ p.rooted = r.rooted
      /\ p.pc = r.pc /\ p.seen = r.seen
  BY DEF Request
<1> HIDE DEF p
<1>3. Timed(p)
  BY <1>2 DEF Timed
<1>4. r.steady => v = published
  BY DEF Timed, Request
<1>5. hidden \in BOOLEAN /\ (p.steady => (hidden <=> p.name \in ExactFor[published][p.uid]))
  BY <1>2, <1>4
<1> HIDE DEF hidden
<1> QED BY <1>1, <1>2, <1>3, <1>5, ClassifiedKeeps

LEMMA LookForClassKeeps ==
    ASSUME AnswerInv, NEW t \in Thread, LookForClass(t)
    PROVE  AnswerInv'
<1> DEFINE r == request[t]
<1>1. /\ RequestInv(r) /\ r \in Request /\ r.pc = "look" /\ PublicationInv
      /\ UNCHANGED <<publication, root, uidErrRemap, dentries, listing>>
      /\ classCache' \subseteq classCache
  BY DEF LookForClass, AnswerInv, RequestsInv
<1>2. Timed(r) /\ r.op \in {"getattr", "mkdir"} /\ r.began \in Nat
  BY <1>1 DEF RequestInv, Placed, Request
<1>3. ASSUME NEW q, RequestInv(q), Become(t, q)
      PROVE  AnswerInv'
  <2>1. RequestsInv'
    BY <1>1, <1>3, OneRequest DEF AnswerInv, publication, root
  <2>2. CacheInv'
    BY <1>1 DEF AnswerInv, CacheInv, publication
  <2>3. SharedTyped'
    BY <1>1 DEF AnswerInv, SharedTyped, ListingShape
  <2> QED BY <1>1, <2>1, <2>2, <2>3, OtherwiseSame DEF AnswerInv, publication, root
<1>4. ASSUME NEW v \in Borrowed, ~Restricted(v, r.uid),
             Become(t, Classified([r EXCEPT !.class = v], FALSE))
      PROVE  AnswerInv'
  <2> DEFINE p == [r EXCEPT !.class = v]
  <2>1. v \in Nat /\ v \in Version /\ v >= generation /\ v <= published /\ r.uid \in Uid
        /\ (generation = published => v = published)
    BY <1>1, BorrowedIsVersion DEF Borrowed, PublicationInv, Request, Version
  <2>2. Become(t, Classified(p, FALSE))
    BY <1>4
  <2>3. r.name \notin ExactFor[v][r.uid]
    BY <1>4, <2>1, HidingRestricts
  <2> HIDE DEF r
  <2>4. /\ p \in Request /\ p.op = r.op /\ p.uid = r.uid /\ p.name = r.name /\ p.class = v
        /\ p.began = r.began /\ p.steady = r.steady /\ p.rooted = r.rooted
        /\ p.pc = r.pc /\ p.seen = r.seen
    BY <1>1, <2>1 DEF Request
  <2> HIDE DEF p
  <2>5. Timed(p)
    BY <1>1, <1>2, <2>1, <2>4 DEF Timed, PublicationInv, Version
  <2>6. p.steady => (FALSE <=> p.name \in ExactFor[published][p.uid])
    BY <1>2, <2>1, <2>3, <2>4 DEF Timed
  <2>7. RequestInv(Classified(p, FALSE))
    BY <1>2, <2>4, <2>5, <2>6, ClassifiedKeeps
  <2> QED BY <1>3, <2>2, <2>7
<1>5. ASSUME NEW e \in Cached(r.uid, r.name), e.seen = generation,
             Become(t, ClassifiedBy(r, e.class))
      PROVE  AnswerInv'
  <2>1. e.class \in Nat /\ e.class >= generation /\ e.class <= published
    BY <1>5 DEF Cached, AnswerInv, CacheInv
  <2>2. e.class \in r.began..published /\ e.class # 0
    BY <1>1, <1>2, <2>1 DEF Timed, PublicationInv, Version
  <2> QED BY <1>1, <1>2, <1>3, <1>5, <2>1, <2>2, ClassifiedByKeeps
<1>6. ASSUME Become(t, [r EXCEPT !.pc = "compute", !.seen = generation])
      PROVE  AnswerInv'
  <2> DEFINE q == [r EXCEPT !.pc = "compute", !.seen = generation]
  <2>1. Become(t, q)
    BY <1>6
  <2> HIDE DEF r
  <2>2. /\ q \in Request /\ q.pc = "compute" /\ q.op = r.op /\ q.seen = generation
        /\ q.class = r.class /\ q.began = r.began /\ q.steady = r.steady /\ q.rooted = r.rooted
    BY <1>1 DEF Request, PublicationInv
  <2> HIDE DEF q
  <2>3. RequestInv(q)
    BY <1>1, <1>2, <2>2, OnTheWay DEF PublicationInv
  <2> QED BY <1>3, <2>1, <2>3
<1> QED BY <1>4, <1>5, <1>6 DEF LookForClass

LEMMA ComputeClassKeeps ==
    ASSUME AnswerInv, NEW t \in Thread, ComputeClass(t)
    PROVE  AnswerInv'
<1> DEFINE r == request[t]
<1>1. RequestInv(r) /\ r \in Request /\ r.pc = "compute" /\ PublicationInv
  BY DEF ComputeClass, AnswerInv, RequestsInv
<1>2. Timed(r) /\ r.op \in {"getattr", "mkdir"} /\ r.began \in Nat /\ r.seen \in Nat
  BY <1>1 DEF RequestInv, Placed, Request
<1>3. PICK v \in Borrowed : Become(t, [r EXCEPT !.pc = "store", !.class = v])
  BY DEF ComputeClass
<1> DEFINE q == [r EXCEPT !.pc = "store", !.class = v]
<1>4. v \in Nat /\ v >= generation /\ v <= published /\ v # 0
  BY <1>1 DEF Borrowed, PublicationInv, Version
<1>5. Become(t, q)
  BY <1>3
<1> HIDE DEF r
<1>6. /\ q \in Request /\ q.pc = "store" /\ q.op = r.op /\ q.seen = r.seen /\ q.class = v
      /\ q.began = r.began /\ q.steady = r.steady /\ q.rooted = r.rooted
  BY <1>1, <1>4 DEF Request
<1> HIDE DEF q
<1>7. Placed(q) /\ Timed(q) /\ Hiding(q) /\ Showing(q)
  BY <1>1, <1>2, <1>4, <1>6 DEF Placed, Timed, Hiding, Showing, PublicationInv
<1> QED BY <1>5, <1>6, <1>7, QuietStep DEF RequestInv, ComputeClass, root

LEMMA StoreClassKeeps ==
    ASSUME AnswerInv, NEW t \in Thread, StoreClass(t)
    PROVE  AnswerInv'
<1> DEFINE r == request[t]
           entry == [uid |-> r.uid, name |-> r.name, seen |-> generation, class |-> r.class]
<1>1. /\ RequestInv(r) /\ r \in Request /\ r.pc = "store" /\ PublicationInv
      /\ UNCHANGED <<publication, root, uidErrRemap, dentries, listing>>
      /\ Become(t, ClassifiedBy(r, r.class))
      /\ classCache' \subseteq classCache \/ (r.seen = generation /\ classCache' \subseteq classCache \cup {entry})
  BY DEF StoreClass, AnswerInv, RequestsInv
<1>2. Timed(r) /\ r.op \in {"getattr", "mkdir"} /\ r.began \in Nat /\ r.seen \in Nat /\ r.class \in Nat
  BY <1>1 DEF RequestInv, Placed, Request
<1>3. r.class # 0 /\ r.class >= r.seen /\ r.class \in r.began..published
  BY <1>1, <1>2 DEF Timed
<1>4. RequestInv(ClassifiedBy(r, r.class))
  BY <1>1, <1>2, <1>3, ClassifiedByKeeps
<1>5. RequestsInv'
  BY <1>1, <1>4, OneRequest DEF AnswerInv, publication, root
<1>6. CacheInv'
  <2>1. /\ entry \in [uid: Uid, name: RequestName, seen: Nat, class: Nat]
        /\ r.seen = generation => entry.class \in entry.seen..published
    BY <1>1, <1>2, <1>3 DEF Request, PublicationInv
  <2> HIDE DEF entry, r
  <2> QED BY <1>1, <2>1 DEF AnswerInv, CacheInv, publication
<1>7. SharedTyped'
  BY <1>1 DEF AnswerInv, SharedTyped, ListingShape
<1> QED BY <1>1, <1>5, <1>6, <1>7, OtherwiseSame DEF AnswerInv, publication, root

\* A listing that is disturbed keeps its shape.
LEMMA DisturbedShape ==
    ASSUME NEW l, ListingShape(l)
    PROVE  ListingShape(Disturbed(l)) /\ Disturbed(l).pc = l.pc /\ Disturbed(l).offset = l.offset
           /\ Disturbed(l).entries = l.entries /\ Disturbed(l).cacheable = l.cacheable
BY DEF ListingShape, Disturbed

\* An existence error that may be rewritten.
LEMMA RewriteKeeps ==
    ASSUME AnswerInv, NEW t \in Thread, request[t].pc = "perform",
           NEW err \in {"EEXIST", "ENOTEMPTY"}, MaybeRewriteHiddenLeakErrno(t, err),
           UNCHANGED <<publication, root, classCache, dentries, listing>>
    PROVE  AnswerInv'
<1> DEFINE q == [request[t] EXCEPT !.truth = err]
           armed == uidErrRemap[q.uid] > 0
           answer == IF armed THEN "EPERM" ELSE err
<1>1. RequestInv(request[t]) /\ request[t] \in Request
  BY DEF AnswerInv, RequestsInv
<1>2. /\ q \in Request /\ q.pc = "perform" /\ q.op = request[t].op /\ q.uid = request[t].uid
      /\ q.name = request[t].name /\ q.truth = err /\ q.class = request[t].class
      /\ q.began = request[t].began /\ q.steady = request[t].steady /\ q.rooted = request[t].rooted
  BY <1>1 DEF Request, Answer
<1>3. /\ Become(t, Answered(q, answer))
      /\ uidErrRemap' = [uidErrRemap EXCEPT ![q.uid] = IF armed THEN @ - 1 ELSE @]
  BY DEF MaybeRewriteHiddenLeakErrno
<1>4. uidErrRemap \in [Uid -> Nat] /\ q.uid \in Uid
  BY <1>2 DEF AnswerInv, RemapInv, Request
<1> HIDE DEF q
<1>5. Timed(q)
  BY <1>1, <1>2 DEF RequestInv, Timed
<1>6. answer \in Answer
  BY DEF Answer
<1>7. armed => \E v \in 1..published : Restricted(v, q.uid)
  BY <1>4 DEF AnswerInv, RemapInv
<1>8. AnswersBy(q, answer, q.truth)
  BY <1>1, <1>2, <1>7 DEF RequestInv, Hiding, AnswersBy
<1>9. RequestsInv'
  <2> HIDE DEF answer
  <2> QED BY <1>2, <1>3, <1>5, <1>6, <1>8, AnsweredKeeps, OneRequest DEF AnswerInv, publication, root
<1>10. RemapInv'
  <2> DEFINE k == IF armed THEN uidErrRemap[q.uid] - 1 ELSE uidErrRemap[q.uid]
  <2>1. k \in Nat /\ uidErrRemap' = [uidErrRemap EXCEPT ![q.uid] = k] /\ k <= uidErrRemap[q.uid]
    BY <1>3, <1>4
  <2> HIDE DEF k, armed
  <2>2. uidErrRemap' \in [Uid -> Nat] /\ \A u \in Uid : uidErrRemap'[u] <= uidErrRemap[u]
    BY <1>4, <2>1
  <2>3. \A u \in Uid : uidErrRemap'[u] > 0 => uidErrRemap[u] > 0
    BY <1>4, <2>2
  <2> QED BY <2>2, <2>3 DEF AnswerInv, RemapInv, publication, Restricted
<1>11. SharedTyped'
  BY DEF AnswerInv, SharedTyped, ListingShape
<1> QED BY <1>9, <1>10, <1>11, OtherwiseSame DEF AnswerInv, publication, root

LEMMA MkdirKeeps ==
    ASSUME AnswerInv, NEW t \in Thread, Mkdir(t)
    PROVE  AnswerInv'
<1> DEFINE r == request[t]
<1>1. /\ RequestInv(r) /\ r \in Request /\ r.pc = "perform" /\ r.op = "mkdir"
      /\ UNCHANGED <<publication, root, classCache, dentries>>
  BY DEF Mkdir, AnswerInv, RequestsInv
<1>2. CASE MaybeRewriteHiddenLeakErrno(t, "EEXIST") /\ UNCHANGED listing
  BY <1>1, <1>2, RewriteKeeps
<1>3. CASE /\ listing' = Disturbed(listing) /\ UNCHANGED uidErrRemap
           /\ Become(t, [r EXCEPT !.pc = "created", !.truth = "created",
                            !.uncached = r.name \in ShouldNotCacheName[published]])
  <2> DEFINE uncached == r.name \in ShouldNotCacheName[published]
             q == [r EXCEPT !.pc = "created", !.truth = "created", !.uncached = uncached]
  <2>1. uncached \in BOOLEAN /\ Become(t, q)
    BY <1>3
  <2> HIDE DEF uncached, r
  <2>2. /\ q \in Request /\ q.pc = "created" /\ q.op = r.op /\ q.truth = "created"
        /\ q.uid = r.uid /\ q.name = r.name
        /\ q.class = r.class /\ q.began = r.began /\ q.steady = r.steady /\ q.rooted = r.rooted
    BY <1>1, <2>1 DEF Request, Answer
  <2> HIDE DEF q
  <2>3. Placed(q) /\ Timed(q)
    BY <1>1, <2>2 DEF RequestInv, Placed, Timed
  <2>4. Hiding(q) /\ Showing(q)
    BY <1>1, <2>2 DEF RequestInv, Hiding, Showing
  <2>5. RequestsInv'
    BY <1>1, <2>1, <2>2, <2>3, <2>4, OneRequest DEF AnswerInv, RequestInv, publication, root
  <2>6. SharedTyped'
    BY <1>1, <1>3, DisturbedShape DEF AnswerInv, SharedTyped
  <2> QED BY <1>1, <1>3, <2>5, <2>6, OtherwiseSame DEF AnswerInv, publication, root
<1> QED BY <1>2, <1>3 DEF Mkdir

LEMMA ReplyCreatedKeeps ==
    ASSUME AnswerInv, NEW t \in Thread, ReplyCreated(t)
    PROVE  AnswerInv'
<1> DEFINE r == request[t]
<1>1. /\ RequestInv(r) /\ r \in Request /\ r.pc = "created"
      /\ UNCHANGED <<publication, root, classCache, uidErrRemap, listing>>
      /\ Become(t, Answered(r, "created")) /\ dentries' \subseteq dentries \cup {r.name}
  BY DEF ReplyCreated, AnswerInv, RequestsInv
<1>2. Timed(r) /\ AnswersBy(r, "created", r.truth) /\ "created" \in Answer
  BY <1>1 DEF RequestInv, Hiding, Showing, AnswersBy, Answer
<1>3. RequestInv(Answered(r, "created"))
  BY <1>1, <1>2, AnsweredKeeps
<1>4. RequestsInv'
  BY <1>1, <1>3, OneRequest DEF AnswerInv, publication, root
<1>5. SharedTyped'
  BY <1>1 DEF AnswerInv, SharedTyped, ListingShape, Request
<1> QED BY <1>1, <1>4, <1>5, OtherwiseSame DEF AnswerInv, publication, root

LEMMA RmdirKeeps ==
    ASSUME AnswerInv, NEW t \in Thread, Rmdir(t)
    PROVE  AnswerInv'
<1> DEFINE r == request[t]
<1>1. /\ RequestInv(r) /\ r \in Request /\ r.pc = "perform" /\ r.op = "rmdir"
      /\ UNCHANGED <<publication, root, classCache>>
  BY DEF Rmdir, AnswerInv, RequestsInv
<1>2. CASE MaybeRewriteHiddenLeakErrno(t, "ENOTEMPTY") /\ UNCHANGED <<dentries, listing>>
  BY <1>1, <1>2, RewriteKeeps
<1>3. CASE /\ listing' = Disturbed(listing) /\ UNCHANGED uidErrRemap /\ dentries' \subseteq dentries
           /\ Become(t, Answered([r EXCEPT !.truth = "removed"], "removed"))
  <2> DEFINE p == [r EXCEPT !.truth = "removed"]
  <2>1. Become(t, Answered(p, "removed"))
    BY <1>3
  <2> HIDE DEF r
  <2>2. /\ p \in Request /\ p.pc = r.pc /\ p.op = r.op /\ p.truth = "removed"
        /\ p.uid = r.uid /\ p.name = r.name /\ p.seen = r.seen
        /\ p.class = r.class /\ p.began = r.began /\ p.steady = r.steady /\ p.rooted = r.rooted
        /\ "removed" \in Answer
    BY <1>1 DEF Request, Answer
  <2> HIDE DEF p
  <2>3. Timed(p)
    BY <1>1, <2>2 DEF RequestInv, Timed
  <2>4. AnswersBy(p, "removed", p.truth)
    BY <1>1, <2>2 DEF RequestInv, Hiding, AnswersBy
  <2>5. RequestsInv'
    BY <1>1, <2>1, <2>2, <2>3, <2>4, AnsweredKeeps, OneRequest DEF AnswerInv, publication, root
  <2>6. SharedTyped'
    BY <1>3, DisturbedShape DEF AnswerInv, SharedTyped
  <2> QED BY <1>1, <1>3, <2>5, <2>6, OtherwiseSame DEF AnswerInv, publication, root
<1> QED BY <1>2, <1>3 DEF Rmdir

\* A request that is over leaves nothing.
LEMMA IdleKeeps ==
    ASSUME PublicationInv
    PROVE  RequestInv(NoRequest)
<1>1. NoRequest.pc = "idle" /\ NoRequest.class = 0 /\ NoRequest.began = 0
      /\ ~NoRequest.steady /\ ~NoRequest.rooted
  BY DEF NoRequest
<1> QED BY <1>1, IdleIsRequest
        DEF RequestInv, Placed, Timed, Hiding, Showing, PublicationInv

LEMMA ReturnKeeps ==
    ASSUME AnswerInv, NEW t \in Thread, Return(t)
    PROVE  AnswerInv'
BY IdleKeeps, QuietStep DEF AnswerInv, Return, root

-----------------------------------------------------------------------------
(***************************************************************************)
(* The other steps.                                                        *)
(***************************************************************************)

\* The requests do not look at what changes.
LEMMA RequestsSame ==
    ASSUME RequestsInv, UNCHANGED <<request, published, generation>>,
           rootIno => rootIno', rootPath => rootPath'
    PROVE  RequestsInv'
<1>1. ASSUME NEW s \in Thread PROVE RequestInv(request[s])'
  <2>1. PICK r \in Request : r = request[s] /\ request'[s] = r /\ RequestInv(r)
    BY DEF RequestsInv
  <2>2. Placed(r)' /\ Timed(r)'
    BY <2>1 DEF RequestInv, Placed, Timed, RootTracked
  <2>3. Hiding(r)' /\ Showing(r)'
    BY <2>1 DEF RequestInv, Hiding, Showing
  <2> QED BY <2>1, <2>2, <2>3 DEF RequestInv, Placed, Timed, Hiding, Showing, RootTracked
<1> QED BY <1>1 DEF RequestsInv

LEMMA PublicationKeeps ==
    ASSUME AnswerInv, StoreRules \/ BumpGeneration \/ ClearHiddenPathClassificationCache \/ RequestSweep
    PROVE  AnswerInv'
<1>1. /\ PublicationInv /\ CacheInv /\ RemapInv /\ RequestsInv /\ SharedTyped
      /\ generation \in Nat /\ published \in Nat /\ Len(Configs) \in Nat
  BY RequestAssumption DEF AnswerInv, PublicationInv, Version
<1>2. CASE StoreRules
  <2>1. /\ published' = published + 1 /\ published' \in Version /\ generation' = generation
        /\ published = generation /\ applying' = "stored"
        /\ UNCHANGED <<rootIno, rootPath, classCache, uidErrRemap, dentries>>
    BY <1>1, <1>2 DEF StoreRules, PublicationInv, Version, root
  <2>2. PublicationInv'
    BY <1>1, <2>1 DEF PublicationInv
  <2>3. CacheInv'
    BY <1>1, <2>1 DEF CacheInv
  <2>4. RemapInv'
    BY <1>1, <2>1 DEF RemapInv, Restricted
  <2>5. RequestsInv'
    <3>1. request' = [t \in Thread |-> Overtaken(request[t])]
      BY <1>2 DEF StoreRules
    <3>2. ASSUME NEW s \in Thread
          PROVE  request'[s] \in Request /\ RequestInv(request[s])'
      <4>1. PICK r \in Request : r = request[s] /\ RequestInv(r)
        BY <1>1 DEF RequestsInv
      <4>2. PICK q \in Request : q = Overtaken(r) /\ request'[s] = q
        BY <3>1, <4>1 DEF Overtaken, Request
      <4>3. /\ ~q.steady /\ q.pc = r.pc /\ q.op = r.op /\ q.truth = r.truth
            /\ q.class = r.class /\ q.began = r.began /\ q.seen = r.seen /\ q.rooted = r.rooted
        BY <4>2 DEF Overtaken, Request
      <4>4. Placed(q)' /\ Timed(q)'
        BY <1>1, <2>1, <4>1, <4>3 DEF RequestInv, Placed, Timed, RootTracked, Request
      <4>5. Hiding(q)' /\ Showing(q)'
        BY <4>3 DEF Hiding, Showing
      <4> QED BY <4>2, <4>4, <4>5 DEF RequestInv, Placed, Timed, Hiding, Showing, RootTracked
    <3> QED BY <3>1, <3>2 DEF RequestsInv
  <2>6. SharedTyped'
    BY <1>1, <1>2, <2>1, DisturbedShape DEF StoreRules, SharedTyped
  <2> QED BY <2>2, <2>3, <2>4, <2>5, <2>6 DEF AnswerInv
<1>3. CASE BumpGeneration
  <2>1. /\ generation' = generation + 1 /\ generation' = published /\ published' = published
        /\ applying' = "bumped" /\ generation # published
        /\ UNCHANGED <<rootIno, rootPath, classCache, uidErrRemap, dentries, listing, request>>
    BY <1>1, <1>3 DEF BumpGeneration, PublicationInv, root
  <2>2. PublicationInv'
    BY <1>1, <2>1 DEF PublicationInv
  <2>3. CacheInv' /\ RemapInv' /\ SharedTyped'
    BY <1>1, <2>1 DEF CacheInv, RemapInv, SharedTyped, ListingShape, Restricted
  <2>4. RequestsInv'
    <3>1. ASSUME NEW s \in Thread PROVE RequestInv(request[s])'
      <4>1. PICK r \in Request : r = request[s] /\ request'[s] = r /\ RequestInv(r)
        BY <1>1, <2>1 DEF RequestsInv
      <4>2. ~r.steady
        BY <2>1, <4>1 DEF RequestInv, Timed
      <4>3. Placed(r)' /\ Timed(r)'
        BY <1>1, <2>1, <4>1, <4>2 DEF RequestInv, Placed, Timed, RootTracked, Request
      <4>4. Hiding(r)' /\ Showing(r)'
        BY <4>2 DEF Hiding, Showing
      <4> QED BY <4>1, <4>3, <4>4 DEF RequestInv, Placed, Timed, Hiding, Showing, RootTracked
    <3> QED BY <1>1, <2>1, <3>1 DEF RequestsInv
  <2> QED BY <2>2, <2>3, <2>4 DEF AnswerInv
<1>4. CASE ClearHiddenPathClassificationCache \/ RequestSweep
  <2>1. /\ applying \in {"bumped", "cleared"} /\ applying' \in {"cleared", "idle"}
        /\ UNCHANGED <<generation, published, rootIno, rootPath, dentries, listing, request>>
        /\ classCache' \subseteq classCache
        /\ uidErrRemap' = uidErrRemap \/ uidErrRemap' = [u \in Uid |-> 0]
    BY <1>4 DEF ClearHiddenPathClassificationCache, RequestSweep, root
  <2>2. PublicationInv'
    BY <1>1, <2>1 DEF PublicationInv
  <2>3. CacheInv' /\ SharedTyped'
    BY <1>1, <2>1 DEF CacheInv, SharedTyped, ListingShape
  <2>4. RemapInv'
    BY <1>1, <2>1 DEF RemapInv, Restricted
  <2>5. RequestsInv'
    BY <1>1, <2>1, RequestsSame
  <2> QED BY <2>2, <2>3, <2>4, <2>5 DEF AnswerInv
<1> QED BY <1>2, <1>3, <1>4

LEMMA AsideKeeps ==
    ASSUME AnswerInv, UNCHANGED <<published, generation, applying, request, classCache>>,
           rootIno' \in BOOLEAN /\ (rootIno => rootIno'),
           rootPath' \in BOOLEAN /\ (rootPath => rootPath'),
           \/ UNCHANGED uidErrRemap
           \/ \E u \in Uid : uidErrRemap' = [uidErrRemap EXCEPT ![u] = 0],
           dentries' \subseteq RequestName, ListingShape(listing')
    PROVE  AnswerInv'
<1>1. PublicationInv' /\ CacheInv'
  BY DEF AnswerInv, PublicationInv, CacheInv
<1>2. RemapInv'
  BY DEF AnswerInv, RemapInv, Restricted
<1>3. RequestsInv'
  BY RequestsSame DEF AnswerInv
<1>4. SharedTyped'
  BY DEF SharedTyped, ListingShape
<1> QED BY <1>1, <1>2, <1>3, <1>4 DEF AnswerInv

\* A page offers timeouts for names only.
LEMMA CacheableIsNames == Cacheable \subseteq RequestName
BY DEF Cacheable

LEMMA ListingKeeps ==
    ASSUME AnswerInv, OpenListing \/ NextPage \/ ReplyBuf \/ CloseListing
    PROVE  AnswerInv'
<1>1. /\ UNCHANGED <<publication, classCache, uidErrRemap, request>>
      /\ dentries \subseteq RequestName /\ ListingShape(listing)
      /\ rootIno \in BOOLEAN /\ rootPath \in BOOLEAN
  BY DEF OpenListing, NextPage, ReplyBuf, CloseListing, AnswerInv, SharedTyped, PublicationInv
<1>2. CASE OpenListing
  <2>1. PICK u \in Uid, v \in Borrowed :
          LET continuing == Continues /\ RootTracked /\ u \in WildcardFor[v] IN
          listing' = [pc |-> "page", uid |-> u,
                      entries |-> files \ (IF listHook THEN ExactFor[v][u] ELSE {}),
                      offset |-> 0, cacheable |-> Cacheable, continuing |-> continuing, got |-> {},
                      steady |-> (generation = published),
                      filtered |-> listHook \/ RootTracked,
                      whole |-> listHook \/ continuing]
    BY <1>2 DEF OpenListing
  <2> DEFINE continuing == Continues /\ RootTracked /\ u \in WildcardFor[v]
             steady == generation = published
  <2>2. PICK entries, filtered, whole :
          listing' = [pc |-> "page", uid |-> u, entries |-> entries, offset |-> 0,
                      cacheable |-> Cacheable, continuing |-> continuing, got |-> {},
                      steady |-> steady, filtered |-> filtered, whole |-> whole]
    BY <2>1
  <2>3. continuing \in BOOLEAN /\ steady \in BOOLEAN
    BY RequestAssumption DEF RootTracked
  <2> HIDE DEF continuing, steady
  <2>4. ListingShape(listing')
    BY <2>2, <2>3, CacheableIsNames DEF ListingShape
  <2>5. /\ rootIno' \in BOOLEAN /\ (rootIno => rootIno')
        /\ rootPath' \in BOOLEAN /\ (rootPath => rootPath') /\ UNCHANGED dentries
    BY <1>1, <1>2 DEF OpenListing
  <2> QED BY <1>1, <2>4, <2>5, AsideKeeps DEF publication
<1>3. CASE NextPage
  <2>1. PICK v \in Borrowed :
          LET continuing == Continues /\ RootTracked /\ listing.uid \in WildcardFor[v] IN
          listing' = [listing EXCEPT !.pc = "page", !.cacheable = Cacheable,
                                     !.continuing = continuing,
                                     !.whole = @ /\ (listHook \/ continuing)]
    BY <1>3 DEF NextPage
  <2> DEFINE continuing == Continues /\ RootTracked /\ listing.uid \in WildcardFor[v]
  <2>2. PICK whole : listing' = [listing EXCEPT !.pc = "page", !.cacheable = Cacheable,
                                     !.continuing = continuing, !.whole = whole]
    BY <2>1
  <2>3. continuing \in BOOLEAN
    BY RequestAssumption DEF RootTracked
  <2> HIDE DEF continuing
  <2>4. ListingShape(listing')
    BY <1>1, <2>2, <2>3, CacheableIsNames DEF ListingShape
  <2> QED BY <1>1, <1>3, <2>4, AsideKeeps DEF NextPage, publication, root
<1>4. CASE ReplyBuf
  <2>1. PICK v \in Borrowed :
          LET kept == Page \ FilteredFrom(v, listing.uid)
              emptied == kept = {} /\ Page # {} IN
          \/ /\ emptied /\ listing.continuing
             /\ listing' = [listing EXCEPT !.offset = PageEnd, !.cacheable = Cacheable]
          \/ /\ emptied /\ listing.continuing
             /\ listing' = [listing EXCEPT !.pc = "failed"]
          \/ /\ ~(emptied /\ listing.continuing)
             /\ listing' = [listing EXCEPT !.pc = IF kept = {} THEN "end" ELSE "open",
                                           !.offset = PageEnd,
                                           !.got = IF listing.steady THEN @ \cup kept ELSE @]
    BY <1>4 DEF ReplyBuf
  <2>2. ListingShape(listing')
    <3>1. CASE \E offset : listing' = [listing EXCEPT !.offset = offset, !.cacheable = Cacheable]
      BY <1>1, <3>1, CacheableIsNames DEF ListingShape
    <3>2. CASE listing' = [listing EXCEPT !.pc = "failed"]
      BY <1>1, <3>2 DEF ListingShape
    <3>3. CASE \E pc \in {"end", "open"} : \E offset, got :
                  listing' = [listing EXCEPT !.pc = pc, !.offset = offset, !.got = got]
      BY <1>1, <3>3 DEF ListingShape
    <3> QED BY <2>1, <3>1, <3>2, <3>3
  <2>3. dentries' \subseteq dentries \cup listing.cacheable
    BY <1>4 DEF ReplyBuf
  <2>4. dentries' \subseteq RequestName
    BY <1>1, <2>3 DEF ListingShape
  <2> QED BY <1>1, <1>4, <2>2, <2>4, AsideKeeps DEF ReplyBuf, publication, root
<1>5. CASE CloseListing
  <2>1. ListingShape(NoListing)
    <3> DEFINE someone == CHOOSE u \in Uid : TRUE
    <3>1. someone \in Uid
      BY RequestAssumption
    <3>2. NoListing = [pc |-> "closed", uid |-> someone, entries |-> {}, offset |-> 0,
                       cacheable |-> {}, continuing |-> FALSE, got |-> {},
                       steady |-> FALSE, filtered |-> FALSE, whole |-> FALSE]
      BY DEF NoListing
    <3> HIDE DEF someone
    <3> QED BY <3>1, <3>2 DEF ListingShape
  <2> QED BY <1>1, <1>5, <2>1, AsideKeeps DEF CloseListing, publication, root
<1> QED BY <1>2, <1>3, <1>4, <1>5

LEMMA EnvironmentKeeps ==
    ASSUME AnswerInv,
           \/ BeginSweep \/ ScanDirectory \/ EndSweep \/ NotifyInvalEntry
           \/ GetattrRoot \/ KernelForgets \/ RemapExpires
    PROVE  AnswerInv'
<1>1. /\ UNCHANGED <<published, generation, applying, request, classCache, listing>>
      /\ dentries' \subseteq dentries
  BY DEF BeginSweep, ScanDirectory, EndSweep, NotifyInvalEntry, GetattrRoot, KernelForgets,
         RemapExpires, publication
<1>2. /\ rootIno' \in {rootIno, TRUE} /\ rootPath' \in {rootPath, TRUE}
      /\ \/ UNCHANGED uidErrRemap
         \/ \E u \in Uid : uidErrRemap' = [uidErrRemap EXCEPT ![u] = 0]
  BY DEF BeginSweep, ScanDirectory, EndSweep, NotifyInvalEntry, GetattrRoot, KernelForgets,
         RemapExpires, root
<1>3. /\ rootIno' \in BOOLEAN /\ (rootIno => rootIno')
      /\ rootPath' \in BOOLEAN /\ (rootPath => rootPath')
  <2>1. rootIno \in BOOLEAN /\ rootPath \in BOOLEAN
    BY DEF AnswerInv, PublicationInv
  <2> QED BY <1>2, <2>1
<1>4. dentries' \subseteq RequestName /\ ListingShape(listing')
  BY <1>1 DEF AnswerInv, SharedTyped
<1> QED BY <1>1, <1>2, <1>3, <1>4, AsideKeeps

LEMMA StepKeepsAnswerInv == AnswerInv /\ [Next]_vars => AnswerInv'
<1> SUFFICES ASSUME AnswerInv, [Next]_vars PROVE AnswerInv'
  OBVIOUS
<1>1. CASE UNCHANGED vars
  <2>1. /\ UNCHANGED <<published, generation, applying, request, classCache, listing>>
        /\ UNCHANGED <<rootIno, rootPath, uidErrRemap, dentries>>
    BY <1>1 DEF vars, publication, root
  <2> QED BY <2>1, AsideKeeps DEF AnswerInv, PublicationInv, SharedTyped
<1>2. ASSUME NEW t \in Thread,
             \/ PfLookup(t) \/ OriginalLookup(t) \/ ReplyEntry(t) \/ PfRmdir(t) \/ PerformNamed(t)
             \/ PfGetattr(t) \/ LookForClass(t) \/ ComputeClass(t) \/ StoreClass(t)
             \/ Mkdir(t) \/ ReplyCreated(t) \/ Rmdir(t) \/ Return(t)
      PROVE  AnswerInv'
  BY <1>2, PfLookupKeeps, OriginalLookupKeeps, ReplyEntryKeeps, PfRmdirKeeps, PerformNamedKeeps,
     PfGetattrKeeps, LookForClassKeeps, ComputeClassKeeps, StoreClassKeeps, MkdirKeeps,
     ReplyCreatedKeeps, RmdirKeeps, ReturnKeeps
<1> QED BY <1>1, <1>2, PublicationKeeps, ListingKeeps, EnvironmentKeeps DEF Next

\* A classification is never made with rules older than the generation its
\* request began in, whatever is published between the two holds of the cache's
\* mutex.
THEOREM ClassificationsAreFresh == Spec => []ClassIsFresh
<1>1. AnswerInv => ClassIsFresh
  <2> SUFFICES ASSUME AnswerInv, NEW t \in Thread, request[t].class # 0
               PROVE  request[t].class >= request[t].began
    BY DEF ClassIsFresh
  <2>1. Timed(request[t]) /\ request[t] \in Request
    BY DEF AnswerInv, RequestsInv, RequestInv
  <2> QED BY <2>1 DEF Timed, Request
<1> QED BY <1>1, StartUp, StepKeepsAnswerInv, PTL DEF Spec

\* A hidden name answers the same whether it exists or not, under one set of
\* rules, for every configuration and with any number of requests beside it.
THEOREM HiddenNamesAreAlike == Spec => []HiddenNamesAnswerAlike
<1>1. AnswerInv => HiddenNamesAnswerAlike
  BY DEF AnswerInv, RequestsInv, RequestInv, Hiding, HiddenNamesAnswerAlike
<1> QED BY <1>1, StartUp, StepKeepsAnswerInv, PTL DEF Spec

\* A visible name answers as the lower file system does, but for the errors a
\* pending rewrite may take.
THEOREM VisibleNamesAreTrue == Spec => []VisibleNamesAnswerTruly
<1>1. AnswerInv => VisibleNamesAnswerTruly
  BY DEF AnswerInv, RequestsInv, RequestInv, Showing, VisibleNamesAnswerTruly
<1> QED BY <1>1, StartUp, StepKeepsAnswerInv, PTL DEF Spec

-----------------------------------------------------------------------------
(***************************************************************************)
(* The dentries the kernel shares.                                         *)
(***************************************************************************)

\* Who creates or removes is alone in the directory.
LockInv ==
    \A t \in Thread : HoldsExclusively(t) =>
        /\ listing.pc # "page"
        /\ \A s \in Thread \ {t} : ~HoldsDirectory(s)

\* Names that become dentries with what is decided of them already.
Forthcoming(n) ==
    \/ \E t \in Thread : request[t].pc \in {"reply", "created"} /\ ~request[t].uncached
                         /\ request[t].name = n
    \/ listing.pc = "page" /\ n \in Page \cap listing.cacheable

\* The sweep under way, or one that is due, takes a dentry of the name back.
Owed(n) ==
    \/ applying # "idle" \/ sweep = "owed"
    \/ sweep = "configured" /\ n \in toNotify \cup files
    \/ sweep = "scanned" /\ n \in toNotify

Outdated(n) == n \in dentries \/ Forthcoming(n)

DentryInv ==
    \A n \in ExactForAny[published] \ outlived :
        Outdated(n) => Owed(n) /\ n \in files \cup Configured[published]

SharedInv == LockInv /\ DentryInv

LEMMA ForthcomingHolds ==
    ASSUME AnswerInv, NEW t \in Thread, request[t].pc \in {"reply", "created"}
    PROVE  HoldsDirectory(t)
BY DEF AnswerInv, RequestsInv, RequestInv, Placed, HoldsDirectory

LEMMA PageSame ==
    ASSUME UNCHANGED files, listing'.entries = listing.entries, listing'.offset = listing.offset
    PROVE  Page' = Page
BY DEF Page, PageEnd, Fits, Present, OnDisk

\* A request that goes on takes no lock it did not have.
LEMMA GoingOnKeepsLocks ==
    ASSUME LockInv, RequestsInv, NEW t \in Thread, NEW q, Become(t, q), listing'.pc = listing.pc,
           \/ q.pc \in {"idle", "done"}
           \/ request[t].pc \notin {"idle", "done"} /\ q.op = request[t].op
    PROVE  LockInv'
<1>1. /\ request'[t] = q
      /\ \A s \in Thread \ {t} : request'[s] = request[s]
  BY DEF RequestsInv, Become
<1>2. HoldsDirectory(t)' => HoldsDirectory(t)
  BY <1>1 DEF HoldsDirectory
<1>3. HoldsExclusively(t)' => HoldsExclusively(t)
  BY <1>1, <1>2 DEF HoldsDirectory, HoldsExclusively
<1>4. \A s \in Thread \ {t} : HoldsDirectory(s)' = HoldsDirectory(s)
                              /\ HoldsExclusively(s)' = HoldsExclusively(s)
  BY <1>1 DEF HoldsDirectory, HoldsExclusively
<1> QED BY <1>2, <1>3, <1>4 DEF LockInv

\* A step that changes neither the rules nor the sweep nor the directory keeps
\* the dentries as long as what it makes forthcoming is not hidden.
LEMMA DentriesKeep ==
    ASSUME DentryInv,
           UNCHANGED <<published, applying, sweep, toNotify, outlived>>, files \subseteq files',
           \A n \in ExactForAny[published] : Outdated(n)' => Outdated(n)
    PROVE  DentryInv'
BY DEF DentryInv, Owed

\* A request moves and makes nothing forthcoming.
LEMMA NotForthcoming ==
    ASSUME RequestsInv, NEW t \in Thread, NEW q, Become(t, q),
           q.pc \in {"reply", "created"} /\ ~q.uncached => q.name \notin ExactForAny[published],
           UNCHANGED <<listing, files>> \/ listing'.pc # "page"
    PROVE  \A n \in ExactForAny[published] : Forthcoming(n)' => Forthcoming(n)
<1>1. UNCHANGED <<listing, files>> => Page' = Page
  BY PageSame
<1>2. \A s \in Thread : request'[s] = IF s = t THEN q ELSE request[s]
  BY DEF RequestsInv, Become
<1> QED BY <1>1, <1>2 DEF Forthcoming

\* A request that begins takes the lock its operation needs.
LEMMA BeginningKeepsLocks ==
    ASSUME AnswerInv, LockInv, NEW t \in Thread, NEW q, Become(t, q), listing' = listing,
           request[t].pc = "idle", NEW op, NEW n, MayBegin(t, op, n), q.op = op, op \in Operation
    PROVE  LockInv'
<1>1. request'[t] = q /\ \A s \in Thread \ {t} : request'[s] = request[s]
  BY DEF AnswerInv, RequestsInv, Become
<1>2. /\ op \in {"mkdir", "rmdir"} => Unlocked
      /\ op = "stat" => Shareable
  BY DEF MayBegin
<1>3. CASE op = "getattr"
  <2>1. ~HoldsDirectory(t)'
    BY <1>1, <1>3 DEF HoldsDirectory
  <2> QED BY <1>1, <2>1 DEF LockInv, HoldsExclusively, HoldsDirectory
<1>4. CASE op = "stat"
  <2>1. ~HoldsExclusively(t)'
    BY <1>1, <1>4 DEF HoldsExclusively
  <2>2. \A s \in Thread : ~HoldsExclusively(s)
    BY <1>2, <1>4 DEF Shareable
  <2>3. \A s \in Thread : ~HoldsExclusively(s)'
    BY <1>1, <2>1, <2>2 DEF HoldsExclusively, HoldsDirectory
  <2> QED BY <2>3 DEF LockInv
<1>5. CASE op \in {"mkdir", "rmdir"}
  <2>1. listing.pc # "page" /\ \A s \in Thread : ~HoldsDirectory(s)
    BY <1>2, <1>5 DEF Unlocked
  <2>2. \A s \in Thread \ {t} : ~HoldsDirectory(s)'
    BY <1>1, <2>1 DEF HoldsDirectory
  <2> QED BY <2>1, <2>2 DEF LockInv, HoldsExclusively
<1> QED BY <1>3, <1>4, <1>5 DEF Operation

\* The steps before and after the reply: nothing becomes forthcoming.
LEMMA PlainStep ==
    ASSUME AnswerInv, SharedInv, NEW t \in Thread, NEW q, Become(t, q), LockInv',
           q.pc \notin {"reply", "created"},
           UNCHANGED <<publication, outlived, dentries, files, listing>>
    PROVE  SharedInv'
<1>1. \A n \in ExactForAny[published] : Forthcoming(n)' => Forthcoming(n)
  BY NotForthcoming DEF AnswerInv
<1> QED BY <1>1, DentriesKeep DEF SharedInv, Outdated, publication

LEMMA BeginningKeepsShared ==
    ASSUME AnswerInv, SharedInv, NEW t \in Thread, PfLookup(t) \/ PfRmdir(t) \/ PfGetattr(t)
    PROVE  SharedInv'
<1>1. PICK op, u, n, pc, hide, uncached :
         /\ op \in Operation /\ u \in Uid /\ n \in RequestName
         /\ pc \in {"original", "named", "look"}
         /\ request[t].pc = "idle" /\ MayBegin(t, op, n)
         /\ \/ Become(t, [Begun(op, u, n) EXCEPT !.pc = pc, !.hide = hide, !.uncached = uncached])
            \/ Become(t, [Begun(op, u, n) EXCEPT !.pc = pc])
  <2>1. CASE PfLookup(t)
    <3>1. PICK op \in {"stat", "mkdir", "rmdir"}, u \in Uid, n \in RequestName, v \in Borrowed :
            /\ request[t].pc = "idle" /\ MayBegin(t, op, n)
            /\ Become(t, [Begun(op, u, n) EXCEPT !.pc = "original",
                              !.hide = TracksRootHiddenLookup(v, u, n),
                              !.uncached = IsCrossUidSensitiveLookup(n)])
      BY <2>1 DEF PfLookup
    <3>2. op \in Operation
      BY DEF Operation
    <3> QED BY <3>1, <3>2
  <2>2. CASE PfRmdir(t)
    BY <2>2 DEF PfRmdir, Operation, AnswerInv, SharedTyped
  <2>3. CASE PfGetattr(t)
    BY <2>3 DEF PfGetattr, Operation
  <2> QED BY <2>1, <2>2, <2>3
<1>2. PICK q : Become(t, q) /\ q.pc = pc /\ q.op = op
  <2> DEFINE b == Begun(op, u, n)
  <2>1. b \in Request /\ b.op = op
    BY <1>1, BegunIs DEF AnswerInv
  <2>2. Become(t, [b EXCEPT !.pc = pc, !.hide = hide, !.uncached = uncached])
        \/ Become(t, [b EXCEPT !.pc = pc])
    BY <1>1
  <2> HIDE DEF b
  <2>3. CASE Become(t, [b EXCEPT !.pc = pc, !.hide = hide, !.uncached = uncached])
    <3> DEFINE q == [b EXCEPT !.pc = pc, !.hide = hide, !.uncached = uncached]
    <3>1. q.pc = pc /\ q.op = op
      BY <2>1 DEF Request
    <3> QED BY <2>3, <3>1
  <2>4. CASE Become(t, [b EXCEPT !.pc = pc])
    <3> DEFINE q == [b EXCEPT !.pc = pc]
    <3>1. q.pc = pc /\ q.op = op
      BY <2>1 DEF Request
    <3> QED BY <2>4, <3>1
  <2> QED BY <2>2, <2>3, <2>4
<1>3. UNCHANGED <<publication, outlived, dentries, files, listing>>
  BY DEF PfLookup, PfRmdir, PfGetattr, directory
<1>4. LockInv'
  BY <1>1, <1>2, <1>3, BeginningKeepsLocks DEF SharedInv
<1> QED BY <1>1, <1>2, <1>3, <1>4, PlainStep

\* A request on its way, at a place where it makes no dentry.
Onward(r, q) == q.pc \notin {"reply", "created"} /\ (q.pc \in {"idle", "done"} \/ q.op = r.op)

LEMMA OnwardStep ==
    ASSUME AnswerInv, SharedInv, NEW t \in Thread, NEW q, Become(t, q),
           Onward(request[t], q), request[t].pc \notin {"idle", "done"} \/ q.pc \in {"idle", "done"},
           UNCHANGED <<publication, outlived, dentries, files, listing>>
    PROVE  SharedInv'
<1>1. LockInv'
  BY GoingOnKeepsLocks DEF Onward, AnswerInv, SharedInv
<1> QED BY <1>1, PlainStep DEF Onward

LEMMA AnsweredOnward ==
    ASSUME NEW r \in Request, NEW a
    PROVE  Onward(r, Answered(r, a)) /\ Answered(r, a).pc = "done"
BY DEF Request, Answered, Onward

LEMMA ClassifiedOnward ==
    ASSUME NEW r \in Request, r.op \in {"getattr", "mkdir"}, NEW v, NEW hidden \in BOOLEAN
    PROVE  Onward(r, Classified([r EXCEPT !.class = v], hidden))
<1> DEFINE p == [r EXCEPT !.class = v]
<1>1. p.op = r.op /\ p.uid = r.uid /\ p.name = r.name
  BY DEF Request
<1>2. \A a : Answered(p, a).pc = "done"
  BY DEF Request, Answered
<1>3. \A a, b : Answered([p EXCEPT !.truth = b], a).pc = "done"
  BY DEF Request, Answered
<1>4. [p EXCEPT !.pc = "perform"].pc = "perform" /\ [p EXCEPT !.pc = "perform"].op = r.op
  BY DEF Request
<1> HIDE DEF p
<1> QED BY <1>1, <1>2, <1>3, <1>4 DEF Onward, Classified, p

LEMMA ClassifyingKeepsShared ==
    ASSUME AnswerInv, SharedInv, NEW t \in Thread,
           LookForClass(t) \/ ComputeClass(t) \/ StoreClass(t) \/ PerformNamed(t) \/ Return(t)
    PROVE  SharedInv'
<1> DEFINE r == request[t]
<1>1. /\ r \in Request /\ Placed(r)
      /\ UNCHANGED <<publication, outlived, dentries, files, listing>>
  BY DEF AnswerInv, RequestsInv, RequestInv, LookForClass, ComputeClass, StoreClass, PerformNamed,
         Return, directory
<1>2. ASSUME NEW v, NEW hidden \in BOOLEAN,
             r.pc \in {"look", "store"}, Become(t, Classified([r EXCEPT !.class = v], hidden))
      PROVE  SharedInv'
  <2>1. Onward(r, Classified([r EXCEPT !.class = v], hidden))
    BY <1>1, <1>2, ClassifiedOnward DEF Placed
  <2> QED BY <1>1, <1>2, <2>1, OnwardStep
<1>3. ASSUME NEW v, r.pc \in {"look", "store"}, Become(t, ClassifiedBy(r, v))
      PROVE  SharedInv'
  <2> DEFINE hidden == r.name \in ExactFor[v][r.uid]
  <2>1. hidden \in BOOLEAN
    OBVIOUS
  <2>2. Become(t, Classified([r EXCEPT !.class = v], hidden))
    BY <1>3 DEF ClassifiedBy
  <2> HIDE DEF hidden
  <2> QED BY <1>2, <1>3, <2>1, <2>2
<1>4. CASE LookForClass(t)
  <2>1. CASE \E v \in Borrowed : Become(t, Classified([r EXCEPT !.class = v], FALSE))
    BY <1>2, <1>4, <2>1 DEF LookForClass
  <2>2. CASE \E v : Become(t, ClassifiedBy(r, v))
    BY <1>3, <1>4, <2>2 DEF LookForClass
  <2>3. CASE Become(t, [r EXCEPT !.pc = "compute", !.seen = generation])
    <3>1. Onward(r, [r EXCEPT !.pc = "compute", !.seen = generation])
      BY <1>1 DEF Onward, Request
    <3> QED BY <1>1, <1>4, <2>3, <3>1, OnwardStep DEF LookForClass
  <2> QED BY <1>4, <2>1, <2>2, <2>3 DEF LookForClass
<1>5. CASE ComputeClass(t)
  <2>1. PICK v : Become(t, [r EXCEPT !.pc = "store", !.class = v]) /\ r.pc = "compute"
    BY <1>5 DEF ComputeClass
  <2>2. Onward(r, [r EXCEPT !.pc = "store", !.class = v])
    BY <1>1 DEF Onward, Request
  <2> QED BY <1>1, <2>1, <2>2, OnwardStep
<1>6. CASE StoreClass(t)
  BY <1>3, <1>6 DEF StoreClass
<1>7. CASE PerformNamed(t)
  <2>1. CASE Become(t, Answered(r, NamedTargetError(r.op)))
    BY <1>1, <1>7, <2>1, AnsweredOnward, OnwardStep DEF PerformNamed
  <2>2. CASE \E pc \in {"look", "perform"} : Become(t, [r EXCEPT !.pc = pc])
    <3>1. \A pc \in {"look", "perform"} : Onward(r, [r EXCEPT !.pc = pc])
      BY <1>1 DEF Onward, Request
    <3> QED BY <1>1, <1>7, <2>2, <3>1, OnwardStep DEF PerformNamed
  <2> QED BY <1>7, <2>1, <2>2 DEF PerformNamed
<1>8. CASE Return(t)
  <2>1. NoRequest.pc = "idle"
    BY DEF NoRequest
  <2> QED BY <1>1, <1>8, <2>1, OnwardStep DEF Return, Onward
<1> QED BY <1>4, <1>5, <1>6, <1>7, <1>8

\* The precheck keeps no hidden name out of what must not be cached.
LEMMA UncachedIsHidden ==
    ASSUME PublicationInv, PrecheckMissesNothing
    PROVE  ShouldNotCacheName[published] = ExactForAny[published]
BY DEF PublicationInv, PrecheckMissesNothing

LEMMA OriginalLookupKeepsShared ==
    ASSUME AnswerInv, SharedInv, PrecheckMissesNothing, NEW t \in Thread, OriginalLookup(t)
    PROVE  SharedInv'
<1> DEFINE r == request[t]
<1>1. /\ r \in Request /\ r.pc = "original"
      /\ UNCHANGED <<publication, outlived, dentries, files, listing>>
  BY DEF AnswerInv, RequestsInv, OriginalLookup, directory
<1>2. CASE Become(t, NotFound([r EXCEPT !.truth = "ENOENT"]))
  <2> DEFINE p == [r EXCEPT !.truth = "ENOENT"]
  <2>1. p \in Request /\ p.op = r.op
    BY <1>1 DEF Request, Answer
  <2> HIDE DEF p
  <2>2. Onward(r, NotFound(p))
    <3>1. CASE p.op = "mkdir"
      BY <2>1, <3>1 DEF Onward, NotFound, Request
    <3>2. CASE p.op # "mkdir"
      BY <2>1, <3>2, AnsweredOnward DEF Onward, NotFound
    <3> QED BY <3>1, <3>2
  <2>3. Become(t, NotFound(p))
    BY <1>2 DEF p
  <2> HIDE DEF r
  <2> QED BY <1>1, <2>2, <2>3, OnwardStep DEF r
<1>3. ASSUME NEW v,
             Become(t, [r EXCEPT !.pc = "reply", !.truth = "found",
                              !.hide = @ \/ r.name \in ExactFor[v][r.uid],
                              !.uncached = @ \/ r.name \in ShouldNotCacheName[published]])
      PROVE  SharedInv'
  <2> DEFINE hide == r.hide \/ r.name \in ExactFor[v][r.uid]
             uncached == r.uncached \/ r.name \in ShouldNotCacheName[published]
             q == [r EXCEPT !.pc = "reply", !.truth = "found", !.hide = hide, !.uncached = uncached]
  <2>1. Become(t, q)
    BY <1>3
  <2>2. ~uncached => r.name \notin ExactForAny[published]
    BY UncachedIsHidden DEF AnswerInv
  <2> HIDE DEF hide, uncached
  <2>3. q.pc = "reply" /\ q.op = r.op /\ q.name = r.name /\ q.uncached = uncached
    BY <1>1 DEF Request
  <2> HIDE DEF q
  <2>4. LockInv'
    BY <1>1, <2>1, <2>3, GoingOnKeepsLocks DEF AnswerInv, SharedInv
  <2>5. \A n \in ExactForAny[published] : Forthcoming(n)' => Forthcoming(n)
    BY <1>1, <2>1, <2>2, <2>3, NotForthcoming DEF AnswerInv
  <2> QED BY <1>1, <2>4, <2>5, DentriesKeep DEF SharedInv, Outdated, publication
<1> QED BY <1>2, <1>3 DEF OriginalLookup

\* A reply makes a dentry of what was forthcoming.
LEMMA ReplyStep ==
    ASSUME AnswerInv, SharedInv, NEW t \in Thread, request[t].pc \in {"reply", "created"},
           NEW q, Become(t, q), Onward(request[t], q),
           dentries' = dentries \/ (dentries' = dentries \cup {request[t].name} /\ ~request[t].uncached),
           UNCHANGED <<publication, outlived, files, listing>>
    PROVE  SharedInv'
<1>1. LockInv'
  BY GoingOnKeepsLocks DEF Onward, AnswerInv, SharedInv
<1>2. \A n \in ExactForAny[published] : Forthcoming(n)' => Forthcoming(n)
  BY NotForthcoming DEF Onward, AnswerInv
<1>3. \A n \in dentries' : Outdated(n)
  BY DEF Outdated, Forthcoming
<1>4. \A n \in ExactForAny[published] : Outdated(n)' => Outdated(n)
  BY <1>2, <1>3 DEF Outdated
<1> QED BY <1>1, <1>4, DentriesKeep DEF SharedInv, publication

LEMMA ReplyKeepsShared ==
    ASSUME AnswerInv, SharedInv, NEW t \in Thread, ReplyEntry(t) \/ ReplyCreated(t)
    PROVE  SharedInv'
<1> DEFINE r == request[t]
<1>1. /\ r \in Request /\ Placed(r)
      /\ UNCHANGED <<publication, outlived, files, listing>>
  BY DEF AnswerInv, RequestsInv, RequestInv, ReplyEntry, ReplyCreated, directory
<1>2. CASE ReplyCreated(t)
  BY <1>1, <1>2, AnsweredOnward, ReplyStep DEF ReplyCreated
<1>3. CASE ReplyEntry(t)
  <2>1. /\ r.pc = "reply" /\ r.op \in {"stat", "mkdir", "rmdir"}
        /\ dentries' = dentries \/ (dentries' = dentries \cup {r.name} /\ ~r.uncached)
        /\ Become(t, NotFound(r)) \/ Become(t, Found(r))
    BY <1>1, <1>3 DEF ReplyEntry, Placed, Request, Operation
  <2>2. Onward(r, [r EXCEPT !.pc = "named", !.hide = FALSE, !.uncached = FALSE])
    BY <1>1 DEF Onward, Request
  <2>3. Onward(r, NotFound(r))
    BY <1>1, <2>2, AnsweredOnward DEF NotFound
  <2>4. Onward(r, Found(r))
    <3>1. Onward(r, NoRequest)
      BY DEF Onward, NoRequest
    <3> QED BY <1>1, <2>1, <2>2, <3>1, AnsweredOnward DEF Found
  <2> HIDE DEF r
  <2> QED BY <1>1, <2>1, <2>3, <2>4, ReplyStep DEF r
<1> QED BY <1>2, <1>3

\* Errors that may be rewritten.
LEMMA ErrorKeepsShared ==
    ASSUME AnswerInv, SharedInv, NEW t \in Thread, NEW err \in {"EEXIST", "ENOTEMPTY"},
           request[t].pc = "perform", MaybeRewriteHiddenLeakErrno(t, err),
           UNCHANGED <<publication, outlived, dentries, files, listing>>
    PROVE  SharedInv'
<1> DEFINE r == request[t]
           p == [r EXCEPT !.truth = err]
<1>1. r \in Request /\ p \in Request /\ p.op = r.op
  BY DEF AnswerInv, RequestsInv, Request, Answer
<1>2. PICK a : Become(t, Answered(p, a))
  BY DEF MaybeRewriteHiddenLeakErrno
<1> HIDE DEF p, r
<1>3. Onward(r, Answered(p, a)) /\ Answered(p, a).pc = "done"
  BY <1>1, AnsweredOnward DEF Onward
<1> QED BY <1>2, <1>3, OnwardStep DEF r

\* The thread that is alone in the directory.
LEMMA Alone ==
    ASSUME AnswerInv, LockInv, NEW t \in Thread, request[t].pc = "perform"
    PROVE  /\ listing.pc # "page" /\ Disturbed(listing).pc # "page"
           /\ \A s \in Thread \ {t} : request[s].pc \notin {"reply", "created"}
<1>1. HoldsExclusively(t)
  BY DEF AnswerInv, RequestsInv, RequestInv, Placed, HoldsExclusively, HoldsDirectory
<1>2. Disturbed(listing).pc = listing.pc
  BY DisturbedShape DEF AnswerInv, SharedTyped
<1> QED BY <1>1, <1>2, ForthcomingHolds DEF LockInv

LEMMA MkdirKeepsShared ==
    ASSUME AnswerInv, SharedInv, PrecheckMissesNothing, NEW t \in Thread, Mkdir(t)
    PROVE  SharedInv'
<1> DEFINE r == request[t]
<1>1. /\ r \in Request /\ r.pc = "perform"
      /\ UNCHANGED <<publication, outlived, dentries>>
  BY DEF AnswerInv, RequestsInv, Mkdir
<1>2. CASE MaybeRewriteHiddenLeakErrno(t, "EEXIST") /\ UNCHANGED <<directory, listing>>
  BY <1>1, <1>2, ErrorKeepsShared DEF directory
<1>3. CASE /\ files' = files \cup {r.name} /\ listing' = Disturbed(listing)
           /\ Become(t, [r EXCEPT !.pc = "created", !.truth = "created",
                            !.uncached = r.name \in ShouldNotCacheName[published]])
  <2> DEFINE uncached == r.name \in ShouldNotCacheName[published]
             q == [r EXCEPT !.pc = "created", !.truth = "created", !.uncached = uncached]
  <2>1. Become(t, q) /\ (~uncached => r.name \notin ExactForAny[published])
    BY <1>3, UncachedIsHidden DEF AnswerInv
  <2> HIDE DEF uncached
  <2>2. q.pc = "created" /\ q.op = r.op /\ q.name = r.name /\ q.uncached = uncached
    BY <1>1 DEF Request
  <2> HIDE DEF q
  <2>3. listing'.pc = listing.pc /\ listing'.pc # "page"
    BY <1>1, <1>3, Alone, DisturbedShape DEF AnswerInv, SharedTyped, SharedInv
  <2>4. LockInv'
    BY <1>1, <2>1, <2>2, <2>3, GoingOnKeepsLocks DEF AnswerInv, SharedInv
  <2>5. \A n \in ExactForAny[published] : Forthcoming(n)' => Forthcoming(n)
    BY <1>1, <2>1, <2>2, <2>3, NotForthcoming DEF AnswerInv
  <2> QED BY <1>1, <1>3, <2>4, <2>5, DentriesKeep DEF SharedInv, Outdated, publication
<1> QED BY <1>2, <1>3 DEF Mkdir

LEMMA RmdirKeepsShared ==
    ASSUME AnswerInv, SharedInv, NEW t \in Thread, Rmdir(t)
    PROVE  SharedInv'
<1> DEFINE r == request[t]
           p == [r EXCEPT !.truth = "removed"]
<1>1. /\ r \in Request /\ r.pc = "perform"
      /\ UNCHANGED <<publication, outlived>>
  BY DEF AnswerInv, RequestsInv, Rmdir
<1>2. CASE MaybeRewriteHiddenLeakErrno(t, "ENOTEMPTY") /\ UNCHANGED <<directory, dentries, listing>>
  BY <1>1, <1>2, ErrorKeepsShared DEF directory
<1>3. CASE /\ files' = {m \in files : ~SameName(m, r.name)}
           /\ dentries' = {m \in dentries : ~SameName(m, r.name)}
           /\ listing' = Disturbed(listing)
           /\ Become(t, Answered(p, "removed"))
  <2>1. p \in Request
    BY <1>1 DEF Request, Answer
  <2> HIDE DEF p
  <2>2. Answered(p, "removed").pc = "done"
    BY <2>1, AnsweredOnward
  <2>3. listing'.pc = listing.pc /\ listing'.pc # "page"
    BY <1>1, <1>3, Alone, DisturbedShape DEF AnswerInv, SharedTyped, SharedInv
  <2>4. LockInv'
    BY <1>3, <2>2, <2>3, GoingOnKeepsLocks DEF AnswerInv, SharedInv
  <2>5. \A s \in Thread : request'[s].pc \notin {"reply", "created"}
    BY <1>1, <1>3, <2>2, Alone DEF AnswerInv, SharedInv, RequestsInv, Become
  <2>6. \A n : ~Forthcoming(n)'
    BY <2>3, <2>5 DEF Forthcoming
  <2>7. ASSUME NEW n \in ExactForAny[published] \ outlived, n \in dentries'
        PROVE  Owed(n)' /\ n \in files' \cup Configured[published]
    <3>1. n \in dentries /\ ~SameName(n, r.name)
      BY <1>3, <2>7
    <3>2. Owed(n) /\ n \in files \cup Configured[published]
      BY <2>7, <3>1 DEF SharedInv, DentryInv, Outdated
    <3>3. n \in files => n \in files'
      BY <1>3, <3>1
    <3> QED BY <1>1, <3>2, <3>3 DEF Owed, publication
  <2>8. DentryInv'
    BY <1>1, <2>6, <2>7 DEF DentryInv, Outdated, publication
  <2> QED BY <2>4, <2>8 DEF SharedInv
<1> QED BY <1>2, <1>3 DEF Rmdir

\* The requests rest, and the locks with them.
LEMMA RestingKeepsLocks ==
    ASSUME LockInv, UNCHANGED request, listing'.pc # "page" \/ listing'.pc = listing.pc \/ Shareable
    PROVE  LockInv'
BY DEF LockInv, HoldsExclusively, HoldsDirectory, Shareable

LEMMA ListingKeepsShared ==
    ASSUME AnswerInv, SharedInv, PrecheckMissesNothing,
           OpenListing \/ NextPage \/ ReplyBuf \/ CloseListing
    PROVE  SharedInv'
<1>1. UNCHANGED <<publication, outlived, request, files>>
  BY DEF OpenListing, NextPage, ReplyBuf, CloseListing, directory
<1>2. /\ ListingShape(listing)
      /\ Cacheable \cap ExactForAny[published] = {}
  BY UncachedIsHidden DEF AnswerInv, SharedTyped, Cacheable
<1>3. /\ listing'.pc # "page" \/ listing'.cacheable = Cacheable
      /\ listing'.pc # "page" \/ listing'.pc = listing.pc \/ Shareable
  <2>1. CASE OpenListing
    BY <2>1 DEF OpenListing
  <2>2. CASE NextPage
    BY <1>2, <2>2 DEF NextPage, ListingShape
  <2>3. CASE ReplyBuf
    <3>1. \/ \E offset : listing' = [listing EXCEPT !.offset = offset, !.cacheable = Cacheable]
          \/ listing' = [listing EXCEPT !.pc = "failed"]
          \/ \E pc \in {"end", "open"} : \E offset, got :
                  listing' = [listing EXCEPT !.pc = pc, !.offset = offset, !.got = got]
      BY <2>3 DEF ReplyBuf
    <3> QED BY <1>2, <3>1 DEF ListingShape
  <2>4. CASE CloseListing
    BY <2>4 DEF CloseListing, NoListing
  <2> QED BY <2>1, <2>2, <2>3, <2>4
<1>4. LockInv'
  BY <1>1, <1>3, RestingKeepsLocks DEF SharedInv
<1>5. \A n \in ExactForAny[published] : Forthcoming(n)' => Forthcoming(n)
  BY <1>1, <1>2, <1>3 DEF Forthcoming
<1>6. \A n \in dentries' : Outdated(n)
  BY DEF OpenListing, NextPage, ReplyBuf, CloseListing, Outdated, Forthcoming
<1>7. \A n \in ExactForAny[published] : Outdated(n)' => Outdated(n)
  BY <1>5, <1>6 DEF Outdated
<1> QED BY <1>1, <1>4, <1>7, DentriesKeep DEF SharedInv, publication

LEMMA StoreRulesKeepsShared ==
    ASSUME AnswerInv, SharedInv, StoreRules
    PROVE  SharedInv'
<1>1. /\ UNCHANGED <<files, dentries>> /\ applying' = "stored"
      /\ outlived' = (dentries \cup InFlight) \ (files \cup Configured[published'])
  BY DEF StoreRules, directory
<1>2. /\ listing'.pc = listing.pc /\ listing'.cacheable = listing.cacheable
      /\ listing'.entries = listing.entries /\ listing'.offset = listing.offset
  BY DisturbedShape DEF StoreRules, AnswerInv, SharedTyped
<1>3. \A t \in Thread : /\ request'[t].pc = request[t].pc /\ request'[t].op = request[t].op
                         /\ request'[t].name = request[t].name
                         /\ request'[t].uncached = request[t].uncached
  BY DEF StoreRules, Overtaken, AnswerInv, RequestsInv, Request
<1>4. LockInv'
  BY <1>2, <1>3 DEF SharedInv, LockInv, HoldsExclusively, HoldsDirectory
<1>5. ASSUME NEW n, Outdated(n)' PROVE n \in dentries \cup InFlight
  <2>1. Page' = Page
    BY <1>1, <1>2, PageSame
  <2>2. Outdated(n)
    BY <1>1, <1>2, <1>3, <1>5, <2>1 DEF Outdated, Forthcoming
  <2>3. ASSUME NEW t \in Thread, request[t].pc \in {"reply", "created"}
        PROVE  request[t].name \in InFlight
    BY <2>3, ForthcomingHolds DEF InFlight
  <2> QED BY <2>2, <2>3 DEF Outdated, Forthcoming, InFlight
<1>6. DentryInv'
  BY <1>1, <1>5 DEF DentryInv, Owed
<1> QED BY <1>4, <1>6 DEF SharedInv

\* The requests and the listing rest.
LEMMA RestingStep ==
    ASSUME SharedInv, UNCHANGED <<published, outlived, request, files, listing>>,
           dentries' \subseteq dentries,
           \A n \in files \cup Configured[published] : Owed(n) /\ Outdated(n) /\ Outdated(n)' => Owed(n)'
    PROVE  SharedInv'
<1>1. LockInv'
  BY RestingKeepsLocks DEF SharedInv
<1>2. Page' = Page
  BY PageSame
<1>3. \A n : Forthcoming(n)' => Forthcoming(n)
  BY <1>2 DEF Forthcoming
<1>4. \A n : Outdated(n)' => Outdated(n)
  BY <1>3 DEF Outdated
<1> QED BY <1>1, <1>4 DEF SharedInv, DentryInv

LEMMA SweepKeepsShared ==
    ASSUME AnswerInv, SharedInv,
           \/ BumpGeneration \/ ClearHiddenPathClassificationCache \/ RequestSweep
           \/ BeginSweep \/ ScanDirectory \/ EndSweep
           \/ GetattrRoot \/ KernelForgets \/ RemapExpires
    PROVE  SharedInv'
<1>1. /\ UNCHANGED <<published, outlived, request, files, listing>> /\ dentries' \subseteq dentries
  BY DEF BumpGeneration, ClearHiddenPathClassificationCache, RequestSweep, BeginSweep,
         ScanDirectory, EndSweep, GetattrRoot, KernelForgets, RemapExpires, publication, directory
<1>2. ASSUME NEW n \in files \cup Configured[published], Owed(n) PROVE Owed(n)'
  <2>1. CASE BumpGeneration \/ ClearHiddenPathClassificationCache \/ RequestSweep
    BY <2>1 DEF BumpGeneration, ClearHiddenPathClassificationCache, RequestSweep, Owed
  <2>2. CASE BeginSweep
    BY <1>2, <2>2 DEF BeginSweep, Owed, directory
  <2>3. CASE ScanDirectory
    BY <1>2, <2>3 DEF ScanDirectory, Owed, directory
  <2>4. CASE EndSweep
    BY <1>2, <2>4 DEF EndSweep, Owed
  <2>5. CASE GetattrRoot \/ KernelForgets \/ RemapExpires
    BY <1>2, <2>5 DEF GetattrRoot, KernelForgets, RemapExpires, Owed, publication, directory
  <2> QED BY <2>1, <2>2, <2>3, <2>4, <2>5
<1> QED BY <1>1, <1>2, RestingStep

\* A name that is taken back is gone: nobody is about to make a dentry of it.
LEMMA NotifyKeepsShared ==
    ASSUME AnswerInv, SharedInv, NotifyInvalEntry
    PROVE  SharedInv'
<1>1. /\ UNCHANGED <<published, outlived, request, files, listing, applying, sweep>> /\ Unlocked
      /\ dentries' \subseteq dentries
  BY DEF NotifyInvalEntry, directory
<1>2. PICK n \in toNotify : toNotify' = toNotify \ {n} /\ dentries' = dentries \ {n}
  BY DEF NotifyInvalEntry
<1>3. \A m : ~Forthcoming(m)'
  BY <1>1, ForthcomingHolds DEF Unlocked, Forthcoming
<1>4. ASSUME NEW m, Owed(m), Outdated(m)' PROVE Owed(m)'
  <2>1. m # n
    BY <1>2, <1>3, <1>4 DEF Outdated
  <2> QED BY <1>1, <1>2, <1>4, <2>1 DEF Owed
<1> QED BY <1>1, <1>4, RestingStep

LEMMA StepKeepsSharedInv ==
    ASSUME PrecheckMissesNothing, AnswerInv, SharedInv, [Next]_vars
    PROVE  SharedInv'
<1>1. CASE UNCHANGED vars
  <2>1. /\ UNCHANGED <<published, outlived, request, files, listing, applying, sweep, toNotify>>
        /\ UNCHANGED dentries
    BY <1>1 DEF vars, publication
  <2>2. \A n : Owed(n) => Owed(n)'
    BY <2>1 DEF Owed
  <2> QED BY <2>1, <2>2, RestingStep
<1>2. ASSUME NEW t \in Thread,
             \/ PfLookup(t) \/ OriginalLookup(t) \/ ReplyEntry(t) \/ PfRmdir(t) \/ PerformNamed(t)
             \/ PfGetattr(t) \/ LookForClass(t) \/ ComputeClass(t) \/ StoreClass(t)
             \/ Mkdir(t) \/ ReplyCreated(t) \/ Rmdir(t) \/ Return(t)
      PROVE  SharedInv'
  BY <1>2, BeginningKeepsShared, OriginalLookupKeepsShared, ReplyKeepsShared,
     ClassifyingKeepsShared, MkdirKeepsShared, RmdirKeepsShared
<1> QED BY <1>1, <1>2, StoreRulesKeepsShared, ListingKeepsShared, SweepKeepsShared,
           NotifyKeepsShared DEF Next

\* Once a publication is over and the root is swept, the kernel shares no dentry
\* of a hidden name, whatever raced with the publication, as long as the
\* precheck of the comparison refuses no hidden name.
THEOREM DentriesAreSafe ==
    ASSUME PrecheckMissesNothing
    PROVE  Spec => []SharedDentriesAreSafe
<1>1. Init => SharedInv
  <2> SUFFICES ASSUME Init PROVE SharedInv
    OBVIOUS
  <2>1. \A t \in Thread : request[t].pc = "idle"
    BY DEF Init, NoRequest
  <2>2. listing.pc = "closed" /\ dentries = {}
    BY DEF Init, NoListing
  <2>3. LockInv
    BY <2>1 DEF LockInv, HoldsExclusively, HoldsDirectory
  <2>4. \A n : ~Outdated(n)
    BY <2>1, <2>2 DEF Outdated, Forthcoming
  <2> QED BY <2>3, <2>4 DEF SharedInv, DentryInv
<1>2. AnswerInv /\ SharedInv /\ [Next]_vars => SharedInv'
  BY StepKeepsSharedInv
<1>3. SharedInv => SharedDentriesAreSafe
  BY DEF SharedInv, DentryInv, Outdated, Owed, SharedDentriesAreSafe
<1> QED BY <1>1, <1>2, <1>3, StartUp, StepKeepsAnswerInv, PTL DEF Spec

-----------------------------------------------------------------------------
(***************************************************************************)
(* Listings: what a reader has been given of the directory's entries.      *)
(***************************************************************************)
\* A set of natural numbers has a least one.
LEMMA LeastNumber ==
    ASSUME NEW T \in SUBSET Nat, T # {}
    PROVE  \E m \in T : \A k \in T : m <= k
<1>1. PICK m \in T : \A k \in T : <<k, m>> \notin OpToRel(<, Nat)
  BY NatLessThanWellFounded, WFMin
<1>2. \A k \in T : ~(k < m)
  BY <1>1 DEF OpToRel
<1> QED BY <1>2

\* A page is as long as it may be.
LEMMA PageEnds ==
    ASSUME listing.offset \in 0..Len(Order)
    PROVE  /\ PageEnd \in listing.offset..Len(Order) /\ Fits(PageEnd)
           /\ PageEnd < Len(Order) => ~Fits(PageEnd + 1)
<1> DEFINE from == listing.offset
           last == Len(Order)
           Stops == {e \in from..last : e = last \/ ~Fits(e + 1)}
<1>0. last \in Nat /\ from \in Nat /\ from <= last /\ PageSize \in Nat
  BY RequestAssumption
<1>1. Fits(from)
  <2>1. Present(from, from) = {}
    BY <1>0 DEF Present
  <2> QED BY <1>0, <2>1, FS_EmptySet DEF Fits
<1>2. Stops \in SUBSET Nat /\ last \in Stops
  BY <1>0
<1>3. PICK m \in Stops : \A k \in Stops : m <= k
  BY <1>2, LeastNumber
<1>4. Fits(m)
  <2>1. CASE m = from
    BY <1>1, <2>1
  <2>2. CASE m # from
    <3>0. m \in from..last /\ m \in Nat
      BY <1>0, <1>3
    <3>1. m - 1 \in from..last /\ m - 1 \notin Stops
      <4> HIDE DEF from, last, Stops
      <4>1. m - 1 \in from..last /\ ~(m <= m - 1)
        BY <1>0, <2>2, <3>0
      <4> QED BY <1>3, <4>1
    <3>2. Fits((m - 1) + 1)
      BY <1>0, <1>3, <3>1
    <3>3. (m - 1) + 1 = m
      BY <1>0, <1>3
    <3> QED BY <3>2, <3>3
  <2> QED BY <2>1, <2>2
<1>5. \E e \in from..last : Fits(e) /\ (e < last => ~Fits(e + 1))
  BY <1>0, <1>3, <1>4
<1> QED BY <1>5 DEF PageEnd

\* An empty page is the last one.
LEMMA EmptyPageIsLast ==
    ASSUME listing.offset \in 0..Len(Order), Page = {}
    PROVE  PageEnd = Len(Order)
<1>0. /\ Len(Order) \in Nat /\ PageSize \in Nat \ {0} /\ listing.offset \in Nat
      /\ PageEnd \in listing.offset..Len(Order)
      /\ PageEnd < Len(Order) => ~Fits(PageEnd + 1)
  BY RequestAssumption, PageEnds
<1>1. Present(listing.offset, PageEnd) = {}
  BY DEF Page
<1>2. Present(listing.offset, PageEnd + 1) \subseteq {PageEnd + 1}
  <2> SUFFICES ASSUME NEW i \in Present(listing.offset, PageEnd + 1), i # PageEnd + 1
               PROVE  i \in Present(listing.offset, PageEnd)
    BY <1>1
  <2> QED BY <1>0 DEF Present
<1>3. Cardinality(Present(listing.offset, PageEnd + 1)) <= 1
  <2>1. IsFiniteSet({PageEnd + 1}) /\ Cardinality({PageEnd + 1}) = 1
    BY FS_Singleton
  <2>2. Cardinality(Present(listing.offset, PageEnd + 1)) <= Cardinality({PageEnd + 1})
    BY <1>2, <2>1, FS_Subset
  <2> QED BY <2>1, <2>2
<1>4. Cardinality(Present(listing.offset, PageEnd + 1)) \in Nat
  BY <1>2, FS_Singleton, FS_Subset, FS_CardinalityType
<1>5. Fits(PageEnd + 1)
  BY <1>0, <1>3, <1>4 DEF Fits
<1> QED BY <1>0, <1>5

\* What the rules in force hide from the reader.
HiddenFromReader == ExactFor[published][listing.uid]

\* Under one set of rules and at rest, whatever visible name the reader has
\* passed was given to it, and nothing hidden was.
GivenSoFar ==
    /\ listing.filtered = TRUE => listing.got \cap HiddenFromReader = {}
    /\ files \ HiddenFromReader \subseteq listing.entries
    /\ listHook = TRUE => listing.entries \cap HiddenFromReader = {}
    /\ listing.pc \in {"page", "open"} =>
          \A i \in 1..listing.offset :
             Order[i] \in files \ HiddenFromReader => Order[i] \in listing.got
    /\ listing.pc = "end" /\ (listing.whole = TRUE \/ ~Restricted(published, listing.uid)) =>
          files \ HiddenFromReader \subseteq listing.got

ListingInv ==
    /\ files \subseteq RequestName
    /\ listing.offset \in 0..Len(Order)
    /\ listing.filtered \in BOOLEAN /\ listing.whole \in BOOLEAN
    /\ listing.filtered = TRUE => RootTracked
    /\ listing.pc = "page" /\ listing.whole = TRUE => listHook = TRUE \/ listing.continuing = TRUE
    /\ listing.steady = TRUE => generation = published /\ GivenSoFar

\* Steps of others: they leave the listing, or take it for disturbed.
LEMMA ListingAside ==
    ASSUME ListingInv, ListingShape(listing), files' \subseteq RequestName,
           RootTracked => RootTracked', listHook' = listHook,
           \/ listing' = Disturbed(listing)
           \/ /\ UNCHANGED <<listing, files, published>>
              /\ listing.steady = TRUE => generation' = generation
    PROVE  ListingInv'
<1>1. CASE listing' = Disturbed(listing)
  <2>1. /\ listing'.offset = listing.offset /\ listing'.filtered = listing.filtered
        /\ listing'.whole = listing.whole /\ listing'.pc = listing.pc
        /\ listing'.continuing = listing.continuing /\ listing'.steady = FALSE
    BY <1>1 DEF Disturbed, ListingShape
  <2> QED BY <2>1 DEF ListingInv
<1>2. CASE /\ UNCHANGED <<listing, files, published>>
           /\ listing.steady = TRUE => generation' = generation
  BY <1>2 DEF ListingInv, GivenSoFar, HiddenFromReader, Restricted
<1> QED BY <1>1, <1>2

\* What a page holds: the names at its positions that are there to be given.
LEMMA PageHolds ==
    ASSUME ListingInv, NEW n \in files \cap listing.entries, NEW i \in 1..Len(Order),
           Order[i] = n, listing.offset < i
    PROVE  /\ i <= PageEnd => n \in Page
           /\ Page = {} => FALSE
<1>0. /\ Len(Order) \in Nat /\ listing.offset \in Nat /\ PageEnd \in listing.offset..Len(Order)
  BY RequestAssumption, PageEnds DEF ListingInv
<1>1. OnDisk(n)
  BY DEF OnDisk, SameName
<1>2. ASSUME i <= PageEnd
      PROVE  n \in Page
  <2>1. i \in Present(listing.offset, PageEnd)
    BY <1>0, <1>1, <1>2 DEF Present
  <2> QED BY <2>1 DEF Page
<1>3. ASSUME Page = {}
      PROVE  FALSE
  BY <1>2, <1>3, EmptyPageIsLast DEF ListingInv
<1> QED BY <1>2, <1>3

LEMMA ReplyBufKeeps ==
    ASSUME AnswerInv, ListingInv, ReplyBuf
    PROVE  ListingInv'
<1>1. PICK v \in Borrowed :
        LET kept == Page \ FilteredFrom(v, listing.uid)
            emptied == kept = {} /\ Page # {} IN
        \/ /\ emptied /\ listing.continuing
           /\ listing' = [listing EXCEPT !.offset = PageEnd, !.cacheable = Cacheable]
        \/ /\ emptied /\ listing.continuing
           /\ listing' = [listing EXCEPT !.pc = "failed"]
        \/ /\ ~(emptied /\ listing.continuing)
           /\ listing' = [listing EXCEPT !.pc = IF kept = {} THEN "end" ELSE "open",
                                         !.offset = PageEnd,
                                         !.got = IF listing.steady THEN @ \cup kept ELSE @]
  BY DEF ReplyBuf
<1> DEFINE kept == Page \ FilteredFrom(v, listing.uid)
           emptied == kept = {} /\ Page # {}
<1>2. /\ UNCHANGED <<files, published, generation, listHook, rootIno, rootPath>>
      /\ listing.pc = "page" /\ ListingShape(listing) /\ listing.uid \in Uid
      /\ listing.steady \in BOOLEAN /\ listing.continuing \in BOOLEAN
  BY DEF ReplyBuf, publication, root, directory, fixed, AnswerInv, SharedTyped, ListingShape
<1>3. /\ Len(Order) \in Nat /\ listing.offset \in Nat /\ listing.offset \in 0..Len(Order)
      /\ PageEnd \in Nat /\ PageEnd \in 0..Len(Order) /\ listing.offset <= PageEnd
  BY RequestAssumption, PageEnds DEF ListingInv
<1>4. ASSUME listing.steady = TRUE
      PROVE  /\ generation = published /\ GivenSoFar
             /\ FilteredFrom(v, listing.uid) = IF RootTracked THEN HiddenFromReader ELSE {}
  <2>1. generation = published /\ GivenSoFar
    BY <1>4 DEF ListingInv
  <2>2. v = published
    BY <2>1, BorrowedIsVersion DEF AnswerInv
  <2> QED BY <2>1, <2>2 DEF FilteredFrom, HiddenFromReader
<1>5. ASSUME listing.steady = TRUE, NEW i \in 1..PageEnd, Order[i] \in files \ HiddenFromReader
      PROVE  Order[i] \in listing.got \cup kept
  <2>1. CASE i <= listing.offset
    <3>1. i \in 1..listing.offset
      BY <1>3, <2>1
    <3> QED BY <1>2, <1>4, <1>5, <3>1 DEF GivenSoFar
  <2>2. CASE listing.offset < i
    <3>1. Order[i] \in files \cap listing.entries
      BY <1>4, <1>5 DEF GivenSoFar
    <3>3. i \in 1..Len(Order) /\ i <= PageEnd
      BY <1>3
    <3>2. Order[i] \in Page
      BY <2>2, <3>1, <3>3, PageHolds
    <3> QED BY <1>4, <1>5, <3>2
  <2> QED BY <1>3, <2>1, <2>2
<1>6. listing.steady = TRUE /\ listing.filtered = TRUE => kept \cap HiddenFromReader = {}
  BY <1>4 DEF ListingInv
<1> HIDE DEF kept
<1>7. CASE /\ emptied /\ listing.continuing
           /\ listing' = [listing EXCEPT !.offset = PageEnd, !.cacheable = Cacheable]
  <2>1. /\ listing'.offset = PageEnd /\ listing'.filtered = listing.filtered
        /\ listing'.whole = listing.whole /\ listing'.pc = "page" /\ listing'.uid = listing.uid
        /\ listing'.continuing = listing.continuing /\ listing'.steady = listing.steady
        /\ listing'.got = listing.got /\ listing'.entries = listing.entries
    BY <1>2, <1>7 DEF ListingShape
  <2>2. listing.steady = TRUE => GivenSoFar'
    <3> SUFFICES ASSUME listing.steady = TRUE
                 PROVE  GivenSoFar'
      OBVIOUS
    <3>1. HiddenFromReader' = HiddenFromReader
      BY <1>2, <2>1 DEF HiddenFromReader
    <3>2. \A i \in 1..listing'.offset :
             Order[i] \in files' \ HiddenFromReader' => Order[i] \in listing'.got
      BY <1>2, <1>5, <1>7, <2>1, <3>1
    <3> QED BY <1>2, <1>4, <2>1, <3>1, <3>2 DEF GivenSoFar
  <2> QED BY <1>2, <1>3, <2>1, <2>2 DEF ListingInv, RootTracked
<1>8. CASE listing' = [listing EXCEPT !.pc = "failed"]
  <2>1. /\ listing'.offset = listing.offset /\ listing'.filtered = listing.filtered
        /\ listing'.whole = listing.whole /\ listing'.pc = "failed" /\ listing'.uid = listing.uid
        /\ listing'.steady = listing.steady
        /\ listing'.got = listing.got /\ listing'.entries = listing.entries
    BY <1>2, <1>8 DEF ListingShape
  <2>2. GivenSoFar => GivenSoFar'
    BY <1>2, <2>1 DEF GivenSoFar, HiddenFromReader
  <2> QED BY <1>2, <2>1, <2>2 DEF ListingInv, RootTracked
<1>9. CASE /\ ~(emptied /\ listing.continuing)
           /\ listing' = [listing EXCEPT !.pc = IF kept = {} THEN "end" ELSE "open",
                                         !.offset = PageEnd,
                                         !.got = IF listing.steady THEN @ \cup kept ELSE @]
  <2>1. /\ listing'.offset = PageEnd /\ listing'.filtered = listing.filtered
        /\ listing'.whole = listing.whole /\ listing'.pc = IF kept = {} THEN "end" ELSE "open"
        /\ listing'.steady = listing.steady /\ listing'.uid = listing.uid
        /\ listing'.entries = listing.entries
        /\ listing.steady = TRUE => listing'.got = listing.got \cup kept
    BY <1>2, <1>9 DEF ListingShape
  <2>2. ASSUME listing.steady = TRUE
        PROVE  GivenSoFar'
    <3>1. /\ HiddenFromReader' = HiddenFromReader /\ files' = files /\ listHook' = listHook
          /\ listing'.got = listing.got \cup kept /\ listing'.uid = listing.uid
          /\ published' = published
      BY <1>2, <2>1, <2>2 DEF HiddenFromReader
    <3>2. listing'.filtered = TRUE => listing'.got \cap HiddenFromReader' = {}
      BY <1>4, <1>6, <2>1, <2>2, <3>1 DEF GivenSoFar
    <3>3. \A i \in 1..listing'.offset :
             Order[i] \in files' \ HiddenFromReader' => Order[i] \in listing'.got
      BY <1>5, <2>1, <2>2, <3>1
    <3>4. ASSUME listing'.pc = "end", listing.whole = TRUE \/ ~Restricted(published, listing.uid)
          PROVE  files \ HiddenFromReader \subseteq listing.got \cup kept
      <4>1. kept = {}
        BY <2>1, <3>4
      <4>2. Page = {}
        <5> SUFFICES ASSUME Page # {}
                     PROVE  FALSE
          OBVIOUS
        <5>1. ~(listing.continuing = TRUE)
          BY <1>9, <4>1
        <5>2. FilteredFrom(v, listing.uid) \cap Page = {}
          <6>1. CASE ~Restricted(published, listing.uid)
            <7>1. HiddenFromReader = {}
              BY <1>2, <6>1, HidingRestricts DEF HiddenFromReader, AnswerInv, PublicationInv
            <7> QED BY <1>4, <2>2, <7>1
          <6>2. CASE listing.whole = TRUE
            <7>1. listHook = TRUE
              BY <1>2, <5>1, <6>2 DEF ListingInv
            <7>2. Page \subseteq listing.entries
              BY DEF Page, Present
            <7> QED BY <1>4, <2>2, <7>1, <7>2 DEF GivenSoFar
          <6> QED BY <3>4, <6>1, <6>2
        <5> QED BY <4>1, <5>2 DEF kept
      <4>3. ASSUME NEW n \in files \ HiddenFromReader
            PROVE  n \in listing.got
        <5>1. PICK i \in 1..Len(Order) : Order[i] = n
          BY RequestAssumption DEF ListingInv
        <5>2. n \in listing.entries
          BY <1>4, <2>2 DEF GivenSoFar
        <5>3. ~(listing.offset < i)
          BY <4>2, <5>1, <5>2, PageHolds
        <5>4. i \in 1..listing.offset
          BY <1>3, <5>3
        <5> QED BY <1>2, <1>4, <2>2, <5>1, <5>4 DEF GivenSoFar
      <4> QED BY <4>3
    <3> QED BY <1>4, <2>1, <2>2, <3>1, <3>2, <3>3, <3>4 DEF GivenSoFar, Restricted
  <2> QED BY <1>2, <1>3, <2>1, <2>2 DEF ListingInv, RootTracked
<1> QED BY <1>1, <1>7, <1>8, <1>9 DEF kept

LEMMA ListingInvNext == AnswerInv /\ ListingInv /\ [Next]_vars => ListingInv'
<1> SUFFICES ASSUME AnswerInv, ListingInv, [Next]_vars PROVE ListingInv'
  OBVIOUS
<1>0. /\ ListingShape(listing) /\ files \subseteq RequestName
      /\ rootIno \in BOOLEAN /\ rootPath \in BOOLEAN /\ PublicationInv
  BY DEF AnswerInv, SharedTyped, PublicationInv, ListingInv
<1>1. ASSUME UNCHANGED <<listing, files, published, generation, listHook, rootIno, rootPath>>
      PROVE  ListingInv'
  <2>1. RootTracked => RootTracked'
    BY <1>1 DEF RootTracked
  <2> QED BY <1>0, <1>1, <2>1, ListingAside
<1>2. CASE StoreRules
  <2>1. /\ listing' = Disturbed(listing)
        /\ UNCHANGED <<files, listHook, rootIno, rootPath>>
    BY <1>2 DEF StoreRules, root, directory, fixed
  <2>2. RootTracked => RootTracked'
    BY <2>1 DEF RootTracked
  <2> QED BY <1>0, <2>1, <2>2, ListingAside
<1>3. CASE BumpGeneration
  <2>1. /\ UNCHANGED <<listing, files, published, listHook, rootIno, rootPath>>
        /\ generation # published
    BY <1>0, <1>3 DEF BumpGeneration, root, directory, fixed, PublicationInv
  <2>2. RootTracked => RootTracked'
    BY <2>1 DEF RootTracked
  <2>3. ~(listing.steady = TRUE)
    BY <2>1 DEF ListingInv
  <2> QED BY <1>0, <2>1, <2>2, <2>3, ListingAside
<1>4. CASE \/ ClearHiddenPathClassificationCache \/ RequestSweep \/ BeginSweep \/ ScanDirectory
           \/ EndSweep \/ NotifyInvalEntry \/ KernelForgets \/ RemapExpires
  <2>1. UNCHANGED <<listing, files, published, generation, listHook, rootIno, rootPath>>
    BY <1>4 DEF ClearHiddenPathClassificationCache, RequestSweep, BeginSweep, ScanDirectory,
                EndSweep, NotifyInvalEntry, KernelForgets, RemapExpires,
                publication, root, directory, fixed
  <2> QED BY <1>1, <2>1
<1>5. ASSUME NEW t \in Thread,
             \/ PfLookup(t) \/ OriginalLookup(t) \/ ReplyEntry(t) \/ PfRmdir(t) \/ PerformNamed(t)
             \/ PfGetattr(t) \/ LookForClass(t) \/ ComputeClass(t) \/ StoreClass(t)
             \/ ReplyCreated(t) \/ Return(t)
      PROVE  ListingInv'
  <2>1. /\ UNCHANGED <<listing, files, published, generation, listHook>>
        /\ rootIno' \in {rootIno, TRUE} /\ rootPath' \in {rootPath, TRUE}
    BY <1>5 DEF PfLookup, OriginalLookup, ReplyEntry, PfRmdir, PerformNamed, PfGetattr,
                LookForClass, ComputeClass, StoreClass, ReplyCreated, Return,
                publication, root, directory, fixed
  <2>2. RootTracked => RootTracked'
    BY <2>1 DEF RootTracked
  <2> QED BY <1>0, <2>1, <2>2, ListingAside
<1>6. ASSUME NEW t \in Thread, Mkdir(t) \/ Rmdir(t)
      PROVE  ListingInv'
  <2>1. /\ UNCHANGED <<published, generation, listHook, rootIno, rootPath>>
        /\ request[t] \in Request
        /\ \/ listing' = Disturbed(listing)
           \/ UNCHANGED <<listing, files>>
        /\ files' \subseteq files \cup {request[t].name}
    BY <1>6 DEF Mkdir, Rmdir, publication, root, directory, fixed, AnswerInv, RequestsInv
  <2>2. files' \subseteq RequestName /\ (RootTracked => RootTracked')
    BY <1>0, <2>1 DEF RootTracked, Request
  <2> QED BY <1>0, <2>1, <2>2, ListingAside
<1>7. CASE GetattrRoot
  <2>1. /\ UNCHANGED <<listing, files, published, generation, listHook>> /\ RootTracked'
    BY <1>7 DEF GetattrRoot, publication, directory, fixed, RootTracked
  <2> QED BY <1>0, <2>1, ListingAside
<1>8. CASE OpenListing
  <2>1. PICK u \in Uid, v \in Borrowed :
          LET continuing == Continues /\ RootTracked /\ u \in WildcardFor[v] IN
          listing' = [pc |-> "page", uid |-> u,
                      entries |-> files \ (IF listHook THEN ExactFor[v][u] ELSE {}),
                      offset |-> 0, cacheable |-> Cacheable, continuing |-> continuing, got |-> {},
                      steady |-> (generation = published),
                      filtered |-> listHook \/ RootTracked,
                      whole |-> listHook \/ continuing]
    BY <1>8 DEF OpenListing
  <2>2. /\ UNCHANGED <<files, published, generation, listHook>>
        /\ rootIno' = (rootIno \/ listHook) /\ rootPath' = (rootPath \/ listHook)
    BY <1>8 DEF OpenListing, publication, directory, fixed
  <2>3. /\ listing'.pc = "page" /\ listing'.uid = u /\ listing'.offset = 0 /\ listing'.got = {}
        /\ listing'.entries = files \ (IF listHook THEN ExactFor[v][u] ELSE {})
        /\ listing'.steady = (generation = published)
        /\ listing'.filtered = (listHook \/ RootTracked)
        /\ listing'.whole = (listHook \/ listing'.continuing)
    BY <2>1
  <2>4. listing'.filtered \in BOOLEAN /\ listing'.whole \in BOOLEAN
    BY <2>3
  <2>5. listing'.filtered = TRUE => RootTracked'
    BY <2>2, <2>3 DEF RootTracked
  <2>6. ASSUME listing'.steady = TRUE
        PROVE  generation' = published' /\ GivenSoFar'
    <3>1. generation = published /\ v = published
      BY <1>0, <2>3, <2>6, BorrowedIsVersion
    <3>2. HiddenFromReader' = ExactFor[published][u]
      BY <2>2, <2>3 DEF HiddenFromReader
    <3>3. \A i : i \notin 1..listing'.offset
      BY <2>3
    <3> QED BY <2>2, <2>3, <3>1, <3>2, <3>3 DEF GivenSoFar
  <2>7. listing'.offset \in 0..Len(Order)
    BY <2>3, RequestAssumption
  <2>8. listing'.whole = TRUE => listHook' = TRUE \/ listing'.continuing = TRUE
    BY <2>2, <2>3
  <2> QED BY <1>0, <2>2, <2>4, <2>5, <2>6, <2>7, <2>8 DEF ListingInv
<1>9. CASE NextPage
  <2>1. PICK continuing \in BOOLEAN :
          listing' = [listing EXCEPT !.pc = "page", !.cacheable = Cacheable,
                                     !.continuing = continuing,
                                     !.whole = @ /\ (listHook \/ continuing)]
    BY <1>9, RequestAssumption DEF NextPage, RootTracked
  <2>2. /\ UNCHANGED <<files, published, generation, listHook, rootIno, rootPath>>
        /\ listing.pc = "open"
    BY <1>9 DEF NextPage, publication, root, directory, fixed
  <2>3. /\ listing'.pc = "page" /\ listing'.uid = listing.uid /\ listing'.offset = listing.offset
        /\ listing'.got = listing.got /\ listing'.entries = listing.entries
        /\ listing'.steady = listing.steady /\ listing'.filtered = listing.filtered
        /\ listing'.continuing = continuing
        /\ listing'.whole = (listing.whole /\ (listHook \/ continuing))
    BY <1>0, <2>1 DEF ListingShape
  <2>4. listing'.whole \in BOOLEAN /\ (listing'.whole = TRUE => listHook = TRUE \/ continuing = TRUE)
    BY <2>3
  <2>5. GivenSoFar => GivenSoFar'
    BY <2>2, <2>3 DEF GivenSoFar, HiddenFromReader
  <2> QED BY <2>2, <2>3, <2>4, <2>5 DEF ListingInv, RootTracked
<1>10. CASE CloseListing
  <2>1. /\ UNCHANGED <<files, published, generation, listHook, rootIno, rootPath>>
        /\ listing'.pc = "closed" /\ listing'.offset = 0 /\ listing'.filtered = FALSE
        /\ listing'.whole = FALSE /\ listing'.steady = FALSE
    BY <1>10 DEF CloseListing, NoListing, publication, root, directory, fixed
  <2>2. listing'.offset \in 0..Len(Order)
    BY <2>1, RequestAssumption
  <2> QED BY <1>0, <2>1, <2>2 DEF ListingInv
<1>11. CASE UNCHANGED vars
  BY <1>1, <1>11 DEF vars, publication, root, directory, fixed
<1> QED BY <1>2, <1>3, <1>4, <1>5, <1>6, <1>7, <1>8, <1>9, <1>10, <1>11, ReplyBufKeeps DEF Next

\* A listing under one set of rules of a directory at rest shows no hidden name,
\* and every visible one unless a page could be emptied without being continued:
\* for every directory, page size, uid and configuration, whichever hooks filter.
THEOREM ListingsAreWholeAndClean == Spec => []ListingIsWholeAndClean
<1>1. Init => ListingInv
  <2> SUFFICES ASSUME Init PROVE ListingInv
    OBVIOUS
  <2>1. /\ listing.offset = 0 /\ listing.filtered = FALSE /\ listing.whole = FALSE
        /\ listing.steady = FALSE /\ listing.pc = "closed" /\ files = InitialFiles
    BY DEF Init, NoListing
  <2>2. listing.offset \in 0..Len(Order) /\ files \subseteq RequestName
    BY <2>1, RequestAssumption
  <2> QED BY <2>1, <2>2 DEF ListingInv
<1>2. AnswerInv /\ ListingInv => ListingIsWholeAndClean
  <2> SUFFICES ASSUME AnswerInv, ListingInv PROVE ListingIsWholeAndClean
    OBVIOUS
  <2>1. listing.steady \in BOOLEAN /\ listing.filtered \in BOOLEAN /\ listing.whole \in BOOLEAN
    BY DEF AnswerInv, SharedTyped, ListingShape, ListingInv
  <2>2. listing.steady = TRUE => GivenSoFar
    BY DEF ListingInv
  <2> QED BY <2>1, <2>2 DEF ListingIsWholeAndClean, GivenSoFar, HiddenFromReader
<1> QED BY <1>1, <1>2, ListingInvNext, StartUp, StepKeepsAnswerInv, PTL DEF Spec

-----------------------------------------------------------------------------
(***************************************************************************)
(* ConfigSync.  A token and the configuration saved with it stay together  *)
(* in whatever a reload applies; and once the newest configuration is      *)
(* settled, nothing that is still under way can put an older one in force. *)
(***************************************************************************)
\* Which tokens are on their way, and which are not yet given out.
TokensInOrder ==
    /\ shown <= saved
    /\ \A s \in statuses : s.token <= saved
    /\ \A t \in Token : job[t].pc # "idle" => t <= saved
    /\ \A t \in broadcasts :
          /\ t <= saved /\ job[t].pc = "idle" /\ shown # t
          /\ \A s \in statuses : s.token # t

\* What the provider and the replies give a reload, until it is applied, and what
\* the load has not yet been given.
BundlesFit ==
    /\ \A j \in Job : reply[j].state = "answered" => reply[j].bundle.config = reply[j].bundle.token
    /\ \A t \in Token : job[t].pc = "token" =>
          t <= job[t].bundle.config /\ job[t].bundle.config <= saved
    /\ job[Loader].pc \in {"snapshot", "recover", "provider", "waiting"} =>
          job[Loader].bundle = NoBundle
    /\ ReloadsOwnConfig

JobsAlone == ~overlap => \A i, j \in Job : job[i].pc # "idle" /\ job[j].pc # "idle" => i = j

AppliedIsNative ==
    ~overlap => \A t \in Token : job[t].pc \in {"save", "wait"} => native = t

Latest == [config |-> saved, token |-> saved]

\* The newest configuration was applied and stored by its reload.
Settled ==
    /\ saved # 0 /\ ~overlap
    /\ \/ shown = saved
       \/ \E s \in statuses : s.token = saved /\ s.applied = TRUE
       \/ job[saved].pc = "wait"

\* A load that runs afterwards reads nothing else.
LoadKeeps(l, inForce) ==
    l.pc # "idle" =>
        /\ l.local \in {NoBundle, Latest}
        /\ l.pc = "recover" => l.local = Latest
        /\ l.pc = "token" => l.bundle.config = saved
        /\ l.pc \in {"decide", "check"} => l.bundle \in {NoBundle, Latest}
        /\ l.pc = "save" => l.bundle = Latest /\ inForce = saved
        /\ l.recovered = TRUE \/ l.applied = TRUE => inForce = saved

\* Nor does a late reload of an older configuration get that far.
BeforeApply == {"idle", "provider", "token", "request", "waiting", "refuse"}

LatestIsKept ==
    Settled =>
        /\ snapshot = Latest
        /\ native = saved \/ (native = 0 /\ load.completed = FALSE)
        /\ job[saved].pc \in {"idle", "wait"}
        /\ \A j \in Job \ {saved} : job[j].pc # "idle" /\ reply[j].state = "answered" =>
              reply[j].bundle = Latest
        /\ \A t \in Token \ {saved} : job[t].pc \in BeforeApply
        /\ LoadKeeps(job[Loader], native)

SyncInv ==
    /\ SyncTypeOK /\ TokensInOrder /\ BundlesFit
    /\ JobsAlone /\ AppliedIsNative /\ LatestIsKept

-----------------------------------------------------------------------------
LEMMA Numbers ==
    /\ MaxSaves \in Nat /\ MaxRetries \in Nat
    /\ Job = 0..MaxSaves /\ Numbered = Job /\ Token = Job \ {Loader} /\ Loader \in Job
    /\ \A n \in Job : n \in Nat
    /\ NoJob \notin Job
    /\ NoBundle \in Bundle
  BY SyncAssumption DEF Job, Numbered, Token, Loader, NoJob, NoBundle, Bundle

\* A job under way changes its own state.
LEMMA JobGoes ==
    ASSUME SyncInv, NEW j \in Job, NEW s \in JobState, job[j].pc # "idle",
           job' = [job EXCEPT ![j] = s],
           UNCHANGED <<saved, shown, broadcasts, statuses, overlap>>
    PROVE  TokensInOrder' /\ JobsAlone'
<1>t. job \in [Job -> JobState]
  BY DEF SyncInv, SyncTypeOK
<1>1. \A i \in Job : job'[i].pc # "idle" => job[i].pc # "idle"
  BY <1>t
<1>2. \A t \in broadcasts : t \in Job /\ t # j /\ job'[t] = job[t]
  BY <1>t, Numbers DEF SyncInv, SyncTypeOK, TokensInOrder
<1>3. TokensInOrder'
  BY <1>1, <1>2, Numbers DEF SyncInv, TokensInOrder
<1>4. JobsAlone'
  BY <1>1 DEF SyncInv, JobsAlone
<1> QED BY <1>3, <1>4

\* A job that is not yet applied, and leaves the configuration as it is, keeps what
\* is settled, when it has not read anything older.
LEMMA KeepsLatest ==
    ASSUME SyncInv, NEW j \in Job, NEW s \in JobState, job[j].pc \notin {"idle", "wait"},
           job' = [job EXCEPT ![j] = s], s.pc # "wait",
           UNCHANGED <<saved, shown, statuses, overlap>>,
           snapshot' = snapshot \/ (Settled => snapshot' = Latest),
           load'.completed = load.completed \/ (Settled => native' = saved),
           \A i \in Job \ {j} : reply'[i] = reply[i],
           Settled => native' = native \/ native' = saved,
           Settled => (reply'[j].state = "answered" => reply'[j].bundle = Latest),
           Settled /\ j # Loader => s.pc \in BeforeApply /\ native' = native,
           Settled /\ j = Loader => LoadKeeps(s, native')
    PROVE  LatestIsKept'
<1>t. job \in [Job -> JobState]
  BY DEF SyncInv, SyncTypeOK
<1>0. saved \in Job /\ (saved # 0 => saved \in Token)
  BY Numbers DEF SyncInv, SyncTypeOK, Loader
<1>1. ASSUME Settled'
      PROVE  Settled
  BY <1>t, <1>0, <1>1 DEF Settled
<1>2. ASSUME Settled
      PROVE  /\ snapshot' = Latest' /\ Latest' = Latest
             /\ native' = saved' \/ (native' = 0 /\ load'.completed = FALSE)
             /\ job'[saved'].pc \in {"idle", "wait"}
             /\ saved # j
    BY <1>t, <1>0, <1>2 DEF SyncInv, LatestIsKept, Latest
<1>3. ASSUME Settled, NEW i \in Job \ {saved}, job'[i].pc # "idle", reply'[i].state = "answered"
      PROVE  reply'[i].bundle = Latest
    BY <1>t, <1>3 DEF SyncInv, LatestIsKept
<1>4. ASSUME Settled, NEW t \in Token \ {saved}
      PROVE  job'[t].pc \in BeforeApply
    BY <1>t, <1>4, Numbers DEF SyncInv, LatestIsKept
<1>5. ASSUME Settled
      PROVE  LoadKeeps(job[Loader], native)'
  <2>1. CASE j = Loader
    BY <1>t, <1>5, <2>1 DEF LoadKeeps, Latest
  <2>2. CASE j # Loader
    <3>1. job'[Loader] = job[Loader] /\ LoadKeeps(job[Loader], native) /\ native' = native
      BY <1>t, <1>5, <2>2 DEF SyncInv, LatestIsKept
    <3> QED BY <3>1 DEF LoadKeeps, Latest
  <2> QED BY <2>1, <2>2
<1> QED BY <1>1, <1>2, <1>3, <1>4, <1>5 DEF LatestIsKept

\* What it may hand to itself.
LEMMA JobFits ==
    ASSUME SyncInv, NEW j \in Job, NEW s \in JobState, job[j].pc # "idle",
           job' = [job EXCEPT ![j] = s], UNCHANGED <<saved, overlap>>,
           \A i \in Job : reply'[i].state = "answered" =>
              reply'[i].bundle.config = reply'[i].bundle.token,
           j # Loader /\ s.pc = "token" => j <= s.bundle.config /\ s.bundle.config <= saved,
           j = Loader /\ s.pc \in {"snapshot", "recover", "provider", "waiting"} =>
              s.bundle = NoBundle,
           j # Loader /\ s.pc \in {"apply", "save", "wait"} =>
              s.bundle = [config |-> j, token |-> j],
           j # Loader /\ s.pc \in {"save", "wait"} => native' = j
    PROVE  BundlesFit' /\ AppliedIsNative'
<1>t. job \in [Job -> JobState]
  BY DEF SyncInv, SyncTypeOK
<1>1. \A t \in Token : t # Loader /\ t \in Job
  BY Numbers
<1>2. job'[j] = s /\ \A i \in Job \ {j} : job'[i] = job[i]
  BY <1>t
<1>3. BundlesFit'
  <2>1. \A t \in Token : job'[t].pc = "token" =>
           t <= job'[t].bundle.config /\ job'[t].bundle.config <= saved
    BY <1>1, <1>2 DEF SyncInv, BundlesFit
  <2>2. job'[Loader].pc \in {"snapshot", "recover", "provider", "waiting"} =>
           job'[Loader].bundle = NoBundle
    BY <1>2, Numbers DEF SyncInv, BundlesFit
  <2>3. ReloadsOwnConfig'
    BY <1>1, <1>2 DEF SyncInv, BundlesFit, ReloadsOwnConfig
  <2> QED BY <2>1, <2>2, <2>3 DEF BundlesFit
<1>4. AppliedIsNative'
  <2> SUFFICES ASSUME ~overlap, NEW t \in Token, job'[t].pc \in {"save", "wait"}
               PROVE  native' = t
    BY DEF AppliedIsNative
  <2>1. t = j
    BY <1>1, <1>2 DEF SyncInv, JobsAlone
  <2> QED BY <1>1, <1>2, <2>1
<1> QED BY <1>3, <1>4

Steps == {"idle", "snapshot", "recover", "provider", "token", "decide", "request",
          "waiting", "check", "apply", "save", "wait", "refuse", "finish"}

LEMMA AtFields ==
    ASSUME SyncInv, NEW j \in Job, NEW pc \in Steps
    PROVE  /\ At(j, pc) \in JobState /\ At(j, pc).pc = pc
           /\ At(j, pc).bundle = job[j].bundle /\ At(j, pc).local = job[j].local
           /\ At(j, pc).recovered = job[j].recovered /\ At(j, pc).applied = job[j].applied
<1>1. job[j] \in JobState
  BY DEF SyncInv, SyncTypeOK
<1> QED BY <1>1 DEF At, JobState, Steps

\* The job's state with another bundle.
With(s, bundle) == [s EXCEPT !.bundle = bundle]

LEMMA WithFields ==
    ASSUME NEW s \in JobState, NEW bundle \in Bundle
    PROVE  /\ With(s, bundle) \in JobState /\ With(s, bundle).bundle = bundle
           /\ With(s, bundle).pc = s.pc /\ With(s, bundle).local = s.local
           /\ With(s, bundle).recovered = s.recovered /\ With(s, bundle).applied = s.applied
  BY DEF With, JobState

-----------------------------------------------------------------------------
LEMMA ProviderKeeps ==
    ASSUME SyncInv, NEW j \in Job, CallProvider(j)
    PROVE  SyncInv'
<1>t. /\ job \in [Job -> JobState] /\ saved \in Numbered /\ job[j].bundle \in Bundle
  BY DEF SyncInv, SyncTypeOK, JobState
<1>0. /\ UNCHANGED <<app, broadcasts, statuses, native, snapshot, reply, main, load,
                     environment, history>>
      /\ job[j].pc = "provider"
  BY DEF CallProvider, Go
<1>1. CASE /\ saved # 0
           /\ job' = [job EXCEPT ![j] = [At(j, "token") EXCEPT !.bundle.config = saved]]
  <2> DEFINE b == [job[j].bundle EXCEPT !.config = saved]
             s == With(At(j, "token"), b)
  <2>1. b \in Bundle /\ b.config = saved
    BY <1>t DEF Bundle
  <2>2. job' = [job EXCEPT ![j] = s]
    BY <1>1, AtFields DEF With, Steps, JobState
  <2> HIDE DEF b
  <2>3. /\ s \in JobState /\ s.pc = "token" /\ s.bundle = b /\ s.local = job[j].local
        /\ s.recovered = job[j].recovered /\ s.applied = job[j].applied
    BY <2>1, AtFields, WithFields DEF Steps
  <2> HIDE DEF s
  <2>4. SyncTypeOK'
    BY <1>t, <1>0, <2>2, <2>3 DEF SyncInv, SyncTypeOK, app, environment, history
  <2>5. TokensInOrder' /\ JobsAlone'
    BY <1>0, <2>2, <2>3, JobGoes DEF app, history
  <2>6. j # Loader => j <= s.bundle.config /\ s.bundle.config <= saved
    <3>1. saved \in Nat /\ (j # Loader => j <= saved)
      BY <1>t, <1>0, Numbers DEF SyncInv, TokensInOrder
    <3> QED BY <2>1, <2>3, <3>1
  <2>7. BundlesFit' /\ AppliedIsNative'
    BY <1>0, <2>2, <2>3, <2>6, JobFits DEF SyncInv, BundlesFit, app, history
  <2>8. LatestIsKept'
    <3>1. Settled => (reply[j].state = "answered" => reply[j].bundle = Latest)
      BY <1>t, <1>0 DEF SyncInv, LatestIsKept
    <3>2. Settled /\ j = Loader => LoadKeeps(s, native')
      BY <1>0, <2>1, <2>3 DEF SyncInv, LatestIsKept, LoadKeeps, Latest, app
    <3>3. Settled /\ j # Loader => s.pc \in BeforeApply
      BY <2>3 DEF BeforeApply
    <3> QED BY <1>0, <2>2, <2>3, <3>1, <3>2, <3>3, KeepsLatest DEF app, history
  <2> QED BY <2>4, <2>5, <2>7, <2>8 DEF SyncInv
<1>2. CASE job' = [job EXCEPT ![j] = At(j, AfterProvider(j, NoBundle))]
  <2> DEFINE s == At(j, AfterProvider(j, NoBundle))
  <2>1. AfterProvider(j, NoBundle) = IF j = Loader THEN "decide" ELSE "request"
    BY DEF AfterProvider, Wanted
  <2>2. job' = [job EXCEPT ![j] = s]
    BY <1>2
  <2>3. /\ s \in JobState /\ s.pc = IF j = Loader THEN "decide" ELSE "request"
        /\ s.bundle = job[j].bundle /\ s.local = job[j].local
        /\ s.recovered = job[j].recovered /\ s.applied = job[j].applied
    BY <2>1, AtFields DEF Steps
  <2> HIDE DEF s
  <2>4. SyncTypeOK'
    BY <1>t, <1>0, <2>2, <2>3 DEF SyncInv, SyncTypeOK, app, environment, history
  <2>5. TokensInOrder' /\ JobsAlone'
    BY <1>0, <2>2, <2>3, JobGoes DEF app, history
  <2>7. BundlesFit' /\ AppliedIsNative'
    BY <1>t, <1>0, <2>2, <2>3, JobFits DEF SyncInv, BundlesFit, app, history
  <2>8. LatestIsKept'
    <3>1. Settled => (reply[j].state = "answered" => reply[j].bundle = Latest)
      BY <1>t, <1>0 DEF SyncInv, LatestIsKept
    <3>2. Settled /\ j = Loader => LoadKeeps(s, native')
      BY <1>0, <2>3 DEF SyncInv, LatestIsKept, LoadKeeps, Latest, BundlesFit, app
    <3>3. Settled /\ j # Loader => s.pc \in BeforeApply
      BY <2>3 DEF BeforeApply
    <3> QED BY <1>0, <2>2, <2>3, <3>1, <3>2, <3>3, KeepsLatest DEF app, history
  <2> QED BY <2>4, <2>5, <2>7, <2>8 DEF SyncInv
<1> QED BY <1>1, <1>2 DEF CallProvider, Go

LEMMA TokenKeeps ==
    ASSUME SyncInv, NEW j \in Job, ReadToken(j)
    PROVE  SyncInv'
<1> DEFINE b == [job[j].bundle EXCEPT !.token = saved]
           s == With(At(j, AfterProvider(j, b)), b)
<1>t. /\ job \in [Job -> JobState] /\ saved \in Numbered /\ job[j].bundle \in Bundle
  BY DEF SyncInv, SyncTypeOK, JobState
<1>0. /\ UNCHANGED <<app, broadcasts, statuses, native, snapshot, reply, main, load,
                     environment, history>>
      /\ job[j].pc = "token" /\ job' = [job EXCEPT ![j] = s]
  BY DEF ReadToken, Go, With
<1>1. b \in Bundle /\ b.token = saved /\ b.config = job[j].bundle.config
  BY <1>t DEF Bundle
<1> HIDE DEF b
<1>2. AfterProvider(j, b) \in {"decide", "apply", "request"}
  BY DEF AfterProvider
<1>3. /\ s \in JobState /\ s.pc = AfterProvider(j, b) /\ s.bundle = b /\ s.local = job[j].local
      /\ s.recovered = job[j].recovered /\ s.applied = job[j].applied
  BY <1>1, <1>2, AtFields, WithFields DEF Steps
<1> HIDE DEF s
<1>4. SyncTypeOK'
  BY <1>t, <1>0, <1>3 DEF SyncInv, SyncTypeOK, app, environment, history
<1>5. TokensInOrder' /\ JobsAlone'
  BY <1>0, <1>3, JobGoes DEF app, history
<1>6. j # Loader /\ s.pc = "apply" => b = [config |-> j, token |-> j] /\ j = saved
  <2> SUFFICES ASSUME j # Loader, s.pc = "apply"
               PROVE  b = [config |-> j, token |-> j] /\ j = saved
    OBVIOUS
  <2>1. b.token = j
    BY <1>3 DEF AfterProvider, Wanted
  <2>2. j <= b.config /\ b.config <= saved
    BY <1>0, <1>1, Numbers DEF SyncInv, BundlesFit
  <2>3. b.config = j
    BY <1>1, <2>1, <2>2, Numbers DEF Bundle
  <2> QED BY <1>1, <2>1, <2>3 DEF Bundle
<1>7. BundlesFit' /\ AppliedIsNative'
  BY <1>0, <1>2, <1>3, <1>6, JobFits DEF SyncInv, BundlesFit, app, history
<1>8. LatestIsKept'
  <2>1. Settled => (reply[j].state = "answered" => reply[j].bundle = Latest)
    BY <1>t, <1>0 DEF SyncInv, LatestIsKept
  <2>2. Settled /\ j = Loader => LoadKeeps(s, native')
    <3> SUFFICES ASSUME Settled, j = Loader
                 PROVE  LoadKeeps(s, native')
      OBVIOUS
    <3>1. LoadKeeps(job[Loader], native)
      BY DEF SyncInv, LatestIsKept
    <3>2. b = Latest
      BY <1>0, <1>1, <3>1 DEF LoadKeeps, Latest, Bundle
    <3>3. s.pc = "decide"
      BY <1>3 DEF AfterProvider
    <3> QED BY <1>0, <1>3, <3>1, <3>2, <3>3 DEF LoadKeeps, Latest, app
  <2>3. Settled /\ j # Loader => s.pc \in BeforeApply
    <3>1. Settled => j # saved
      BY <1>0 DEF SyncInv, LatestIsKept
    <3> QED BY <1>2, <1>3, <1>6, <3>1 DEF BeforeApply, AfterProvider
  <2> QED BY <1>0, <1>2, <1>3, <2>1, <2>2, <2>3, KeepsLatest DEF app, history
<1> QED BY <1>4, <1>5, <1>7, <1>8 DEF SyncInv

LEMMA RequestKeeps ==
    ASSUME SyncInv, NEW j \in Job, RequestConfig(j)
    PROVE  SyncInv'
<1> DEFINE s == With(At(j, "waiting"), NoBundle)
           asked == [NoReply EXCEPT !.state = "asked"]
<1>t. /\ job \in [Job -> JobState] /\ reply \in [Job -> ReplyState] /\ NoBundle \in Bundle
      /\ main \in Job \cup {NoJob}
  BY Numbers DEF SyncInv, SyncTypeOK
<1>0. /\ UNCHANGED <<app, broadcasts, statuses, native, snapshot, load, environment, history>>
      /\ job[j].pc = "request" /\ job' = [job EXCEPT ![j] = s]
      /\ reply' = [reply EXCEPT ![j] = asked] /\ main' = Released(j)
  BY DEF RequestConfig, Go, With
<1>1. asked \in ReplyState /\ asked.state = "asked"
  BY <1>t DEF NoReply, ReplyState
<1> HIDE DEF asked
<1>2. /\ s \in JobState /\ s.pc = "waiting" /\ s.bundle = NoBundle /\ s.local = job[j].local
      /\ s.recovered = job[j].recovered /\ s.applied = job[j].applied
  <2> DEFINE a == At(j, "waiting")
  <2>1. /\ a \in JobState /\ a.pc = "waiting" /\ a.local = job[j].local
        /\ a.recovered = job[j].recovered /\ a.applied = job[j].applied
    BY AtFields DEF Steps
  <2> HIDE DEF a
  <2> QED BY <1>t, <2>1, WithFields DEF a
<1> HIDE DEF s
<1>3. SyncTypeOK'
  <2>1. main' \in Job \cup {NoJob}
    BY <1>t, <1>0 DEF Released
  <2> QED BY <1>t, <1>0, <1>1, <1>2, <2>1 DEF SyncInv, SyncTypeOK, app, environment, history
<1>4. TokensInOrder' /\ JobsAlone'
  BY <1>0, <1>2, JobGoes DEF app, history
<1>5. /\ reply'[j].state = "asked" /\ \A i \in Job \ {j} : reply'[i] = reply[i]
  BY <1>t, <1>0, <1>1
<1>6. BundlesFit' /\ AppliedIsNative'
  <2>1. \A i \in Job : reply'[i].state = "answered" =>
           reply'[i].bundle.config = reply'[i].bundle.token
    BY <1>5 DEF SyncInv, BundlesFit
  <2> QED BY <1>0, <1>2, <2>1, JobFits DEF app, history
<1>7. LatestIsKept'
  <2>1. Settled /\ j = Loader => LoadKeeps(s, native')
    BY <1>0, <1>2 DEF SyncInv, LatestIsKept, LoadKeeps, app
  <2>2. Settled /\ j # Loader => s.pc \in BeforeApply
    BY <1>2 DEF BeforeApply
  <2> QED BY <1>0, <1>2, <1>5, <2>1, <2>2, KeepsLatest DEF app, history
<1> QED BY <1>3, <1>4, <1>6, <1>7 DEF SyncInv

LEMMA ReplyKeeps ==
    ASSUME SyncInv, NEW j \in Job, DeliverReply(j)
    PROVE  SyncInv'
<1> DEFINE b == reply[j].bundle
           s == With(At(j, AfterReply(j, b)), b)
<1>t. /\ job \in [Job -> JobState] /\ reply \in [Job -> ReplyState] /\ b \in Bundle
      /\ saved \in Numbered
  BY DEF SyncInv, SyncTypeOK, ReplyState
<1>0. /\ UNCHANGED <<app, broadcasts, statuses, native, snapshot, load, environment, history>>
      /\ job[j].pc = "waiting" /\ job' = [job EXCEPT ![j] = s]
      /\ reply[j].state = "answered" /\ reply' = [reply EXCEPT ![j] = NoReply] /\ main' = j
  BY DEF DeliverReply, Go, With
<1>1. b.config = b.token
  BY <1>0 DEF SyncInv, BundlesFit
<1>l. Settled /\ j # saved => b = Latest
  BY <1>0 DEF SyncInv, LatestIsKept
<1> HIDE DEF b
<1>2. AfterReply(j, b) \in {"check", "apply", "refuse"}
  BY DEF AfterReply
<1>3. /\ s \in JobState /\ s.pc = AfterReply(j, b) /\ s.bundle = b /\ s.local = job[j].local
      /\ s.recovered = job[j].recovered /\ s.applied = job[j].applied
  <2> DEFINE a == At(j, AfterReply(j, b))
  <2>1. /\ a \in JobState /\ a.pc = AfterReply(j, b) /\ a.local = job[j].local
        /\ a.recovered = job[j].recovered /\ a.applied = job[j].applied
    BY <1>2, AtFields DEF Steps
  <2> HIDE DEF a
  <2> QED BY <1>t, <2>1, WithFields DEF a
<1> HIDE DEF s
<1>4. NoReply \in ReplyState /\ NoReply.state = "none"
  BY Numbers DEF NoReply, ReplyState
<1>5. SyncTypeOK'
  BY <1>t, <1>0, <1>3, <1>4 DEF SyncInv, SyncTypeOK, app, environment, history
<1>6. TokensInOrder' /\ JobsAlone'
  BY <1>0, <1>3, JobGoes DEF app, history
<1>7. reply'[j].state = "none" /\ \A i \in Job \ {j} : reply'[i] = reply[i]
  BY <1>t, <1>0, <1>4
<1>8. j # Loader /\ s.pc = "apply" => b = [config |-> j, token |-> j]
  BY <1>t, <1>1, <1>3 DEF AfterReply, Wanted, Bundle
<1>9. BundlesFit' /\ AppliedIsNative'
  <2>1. \A i \in Job : reply'[i].state = "answered" =>
           reply'[i].bundle.config = reply'[i].bundle.token
    BY <1>7 DEF SyncInv, BundlesFit
  <2> QED BY <1>0, <1>2, <1>3, <1>8, <2>1, JobFits DEF app, history
<1>10. LatestIsKept'
  <2>1. Settled => j # saved
    BY <1>0 DEF SyncInv, LatestIsKept
  <2>2. Settled /\ j = Loader => LoadKeeps(s, native')
    BY <1>0, <1>3, <1>l, <2>1 DEF SyncInv, LatestIsKept, LoadKeeps, AfterReply, app
  <2>3. Settled /\ j # Loader => s.pc \in BeforeApply
    BY <1>3, <1>l, <2>1 DEF BeforeApply, AfterReply, Wanted, Latest
  <2> QED BY <1>0, <1>2, <1>3, <1>7, <2>2, <2>3, KeepsLatest DEF app, history
<1> QED BY <1>5, <1>6, <1>9, <1>10 DEF SyncInv

LEMMA TimeoutKeeps ==
    ASSUME SyncInv, NEW j \in Job, Timeout(j)
    PROVE  SyncInv'
<1> DEFINE s == At(j, AfterReply(j, NoBundle))
<1>t. job \in [Job -> JobState] /\ reply \in [Job -> ReplyState]
  BY DEF SyncInv, SyncTypeOK
<1>0. /\ UNCHANGED <<app, broadcasts, statuses, native, snapshot, reply, load, environment,
                     history>>
      /\ job[j].pc = "waiting" /\ job' = [job EXCEPT ![j] = s] /\ main' = j
  BY DEF Timeout, Go
<1>1. AfterReply(j, NoBundle) = IF j = Loader THEN "check" ELSE "refuse"
  BY DEF AfterReply, Wanted
<1>2. /\ s \in JobState /\ s.pc = IF j = Loader THEN "check" ELSE "refuse"
      /\ s.bundle = job[j].bundle /\ s.local = job[j].local
      /\ s.recovered = job[j].recovered /\ s.applied = job[j].applied
  BY <1>1, AtFields DEF Steps
<1> HIDE DEF s
<1>3. SyncTypeOK'
  BY <1>t, <1>0, <1>2 DEF SyncInv, SyncTypeOK, app, environment, history
<1>4. TokensInOrder' /\ JobsAlone'
  BY <1>0, <1>2, JobGoes DEF app, history
<1>5. BundlesFit' /\ AppliedIsNative'
  BY <1>0, <1>2, JobFits DEF SyncInv, BundlesFit, app, history
<1>6. LatestIsKept'
  <2>1. Settled => (reply[j].state = "answered" => reply[j].bundle = Latest)
    BY <1>0 DEF SyncInv, LatestIsKept
  <2>2. Settled /\ j = Loader => LoadKeeps(s, native')
    BY <1>0, <1>2 DEF SyncInv, LatestIsKept, LoadKeeps, BundlesFit, app
  <2>3. Settled /\ j # Loader => s.pc \in BeforeApply
    BY <1>2 DEF BeforeApply
  <2> QED BY <1>0, <1>2, <2>1, <2>2, <2>3, KeepsLatest DEF app, history
<1> QED BY <1>3, <1>4, <1>5, <1>6 DEF SyncInv

-----------------------------------------------------------------------------
LEMMA ReceiveKeeps ==
    ASSUME SyncInv, NEW t \in Token, ReceiveReload(t)
    PROVE  SyncInv'
<1> DEFINE s == At(t, "provider")
<1>t. /\ job \in [Job -> JobState] /\ reply \in [Job -> ReplyState] /\ t \in Job
      /\ overlap \in BOOLEAN
  BY Numbers DEF SyncInv, SyncTypeOK
<1>n. t # Loader /\ NoReply \in ReplyState /\ NoReply.state = "none"
  BY Numbers DEF NoReply, ReplyState
<1>0. /\ UNCHANGED <<app, statuses, native, snapshot, main, load, environment>>
      /\ t \in broadcasts /\ broadcasts' = broadcasts \ {t}
      /\ job[t].pc = "idle" /\ job' = [job EXCEPT ![t] = s]
      /\ reply' = [reply EXCEPT ![t] = NoReply]
      /\ overlap' = (overlap \/ Active # {})
  BY DEF ReceiveReload, Go
<1>1. s \in JobState /\ s.pc = "provider"
  BY <1>t, AtFields DEF Steps
<1> HIDE DEF s
<1>2. /\ job'[t] = s /\ \A i \in Job \ {t} : job'[i] = job[i]
      /\ reply'[t] = NoReply /\ \A i \in Job \ {t} : reply'[i] = reply[i]
  BY <1>t, <1>0
<1>3. SyncTypeOK'
  <2>1. overlap' \in BOOLEAN
    BY <1>0
  <2> QED BY <1>t, <1>n, <1>0, <1>1, <2>1 DEF SyncInv, SyncTypeOK, app, environment
<1>4. TokensInOrder'
  BY <1>0, <1>1, <1>2, Numbers DEF SyncInv, SyncTypeOK, TokensInOrder, app
<1>5. ~overlap' => ~overlap /\ \A i \in Job : job[i].pc = "idle"
  BY <1>0 DEF Active
<1>6. JobsAlone' /\ AppliedIsNative'
  BY <1>1, <1>2, <1>5, Numbers DEF JobsAlone, AppliedIsNative
<1>7. BundlesFit'
  <2>1. ReloadsOwnConfig'
    BY <1>1, <1>2, Numbers DEF SyncInv, BundlesFit, ReloadsOwnConfig
  <2>2. \A i \in Token : job'[i].pc = "token" =>
           i <= job'[i].bundle.config /\ job'[i].bundle.config <= saved
    BY <1>1, <1>2, Numbers DEF SyncInv, BundlesFit
  <2>3. \A i \in Job : reply'[i].state = "answered" =>
           reply'[i].bundle.config = reply'[i].bundle.token
    BY <1>n, <1>2 DEF SyncInv, BundlesFit
  <2>4. job'[Loader].pc \in {"snapshot", "recover", "provider", "waiting"} =>
           job'[Loader].bundle = NoBundle
    BY <1>n, <1>2, Numbers DEF SyncInv, BundlesFit
  <2> QED BY <1>0, <2>1, <2>2, <2>3, <2>4 DEF BundlesFit, app
<1>8. LatestIsKept'
  <2> SUFFICES ASSUME Settled'
               PROVE  LatestIsKept'
    BY DEF LatestIsKept
  <2>0. saved' = saved /\ saved \in Job
    BY <1>0, Numbers DEF SyncInv, SyncTypeOK, app
  <2>1. Settled
    BY <1>0, <1>1, <1>2, <1>5, <2>0 DEF Settled, app
  <2>2. t # saved
    BY <1>0, <2>1 DEF SyncInv, TokensInOrder, Settled
  <2>3. LoadKeeps(job[Loader], native)'
    BY <1>0, <1>n, <1>2, <2>1, Numbers DEF SyncInv, LatestIsKept, LoadKeeps, Latest, app
  <2> QED BY <1>0, <1>n, <1>1, <1>2, <2>0, <2>1, <2>2, <2>3, Numbers
          DEF SyncInv, LatestIsKept, Latest, BeforeApply, app
<1> QED BY <1>3, <1>4, <1>6, <1>7, <1>8 DEF SyncInv

\* A reload that is applied, or stored, is alone and nothing is settled yet.
LEMMA NothingSettled ==
    ASSUME SyncInv, NEW t \in Token, job[t].pc \in {"apply", "save"}
    PROVE  ~Settled
  BY DEF SyncInv, LatestIsKept, BeforeApply

LEMMA ApplyKeeps ==
    ASSUME SyncInv, NEW t \in Token, ApplyReload(t)
    PROVE  SyncInv'
<1>t. /\ job \in [Job -> JobState] /\ t \in Job /\ t # Loader /\ t \in Numbered
  BY Numbers DEF SyncInv, SyncTypeOK
<1>0. /\ UNCHANGED <<app, broadcasts, statuses, snapshot, reply, main, load, environment,
                     history>>
      /\ job[t].pc = "apply"
  BY DEF ApplyReload, Go
<1>1. PICK pc \in {"save", "refuse"} :
         /\ job' = [job EXCEPT ![t] = At(t, pc)]
         /\ native' = IF pc = "save" THEN job[t].bundle.config ELSE native
  BY DEF ApplyReload, Go
<1>2. job[t].bundle = [config |-> t, token |-> t]
  BY <1>0 DEF SyncInv, BundlesFit, ReloadsOwnConfig
<1> DEFINE s == At(t, pc)
<1>3. s \in JobState /\ s.pc = pc /\ s.bundle = [config |-> t, token |-> t]
  BY <1>t, <1>2, AtFields DEF Steps
<1>4. job' = [job EXCEPT ![t] = s] /\ (pc = "save" => native' = t) /\ native' \in Numbered
  BY <1>t, <1>1, <1>2 DEF SyncInv, SyncTypeOK
<1> HIDE DEF s
<1>5. SyncTypeOK'
  BY <1>t, <1>0, <1>3, <1>4 DEF SyncInv, SyncTypeOK, app, environment, history
<1>6. TokensInOrder' /\ JobsAlone'
  BY <1>t, <1>0, <1>3, <1>4, JobGoes DEF app, history
<1>7. BundlesFit' /\ AppliedIsNative'
  BY <1>t, <1>0, <1>3, <1>4, JobFits DEF SyncInv, BundlesFit, app, history
<1>8. LatestIsKept'
  BY <1>t, <1>0, <1>3, <1>4, NothingSettled, KeepsLatest DEF app, history
<1> QED BY <1>5, <1>6, <1>7, <1>8 DEF SyncInv

LEMMA SaveKeeps ==
    ASSUME SyncInv, NEW t \in Token, SaveReload(t)
    PROVE  SyncInv'
<1>t. /\ job \in [Job -> JobState] /\ t \in Job /\ t # Loader /\ t \in Numbered
      /\ snapshot \in Bundle
  BY Numbers DEF SyncInv, SyncTypeOK
<1>0. /\ UNCHANGED <<app, broadcasts, statuses, native, reply, main, load, environment, history>>
      /\ job[t].pc = "save"
  BY DEF SaveReload, Go
<1>1. PICK pc \in {"wait", "refuse"} :
         /\ job' = [job EXCEPT ![t] = At(t, pc)]
         /\ snapshot' = IF pc = "wait" THEN job[t].bundle ELSE snapshot
  BY DEF SaveReload, Go
<1>2. job[t].bundle = [config |-> t, token |-> t] /\ job[t].bundle \in Bundle
  BY <1>t, <1>0 DEF SyncInv, BundlesFit, ReloadsOwnConfig, JobState
<1> DEFINE s == At(t, pc)
<1>3. s \in JobState /\ s.pc = pc /\ s.bundle = [config |-> t, token |-> t]
  BY <1>t, <1>2, AtFields DEF Steps
<1>4. job' = [job EXCEPT ![t] = s] /\ snapshot' \in Bundle
  BY <1>t, <1>1, <1>2
<1> HIDE DEF s
<1>5. SyncTypeOK'
  BY <1>t, <1>0, <1>3, <1>4 DEF SyncInv, SyncTypeOK, app, environment, history
<1>6. TokensInOrder' /\ JobsAlone'
  BY <1>t, <1>0, <1>3, <1>4, JobGoes DEF app, history
<1>7. ~overlap => native = t
  BY <1>0 DEF SyncInv, AppliedIsNative
<1>8. BundlesFit'
  <2>1. job'[t] = s /\ \A i \in Job \ {t} : job'[i] = job[i]
    BY <1>t, <1>4
  <2>2. ReloadsOwnConfig'
    BY <1>3, <2>1, Numbers DEF SyncInv, BundlesFit, ReloadsOwnConfig
  <2> QED BY <1>t, <1>0, <1>3, <2>1, <2>2, Numbers DEF SyncInv, BundlesFit, app
<1>9. AppliedIsNative'
  <2> SUFFICES ASSUME ~overlap, NEW u \in Token, job'[u].pc \in {"save", "wait"}
               PROVE  native' = u
    BY <1>0 DEF AppliedIsNative, history
  <2>1. u = t
    BY <1>t, <1>0, <1>4, Numbers DEF SyncInv, JobsAlone
  <2> QED BY <1>0, <1>7, <2>1
<1>10. LatestIsKept'
  <2> SUFFICES ASSUME Settled'
               PROVE  LatestIsKept'
    BY DEF LatestIsKept
  <2>0. saved' = saved /\ saved \in Job
    BY <1>0, Numbers DEF SyncInv, SyncTypeOK, app
  <2>1. job'[t] = s /\ \A i \in Job \ {t} : job'[i] = job[i]
    BY <1>t, <1>4
  <2>2. t = saved /\ pc = "wait" /\ ~overlap
    BY <1>0, <1>3, <2>0, <2>1, NothingSettled DEF Settled, app, history
  <2>3. \A i \in Job \ {t} : job'[i].pc = "idle"
    BY <1>t, <1>0, <2>1, <2>2 DEF SyncInv, JobsAlone
  <2>4. snapshot' = Latest' /\ native' = saved'
    BY <1>0, <1>1, <1>2, <1>7, <2>0, <2>2 DEF Latest
  <2>5. LoadKeeps(job[Loader], native)'
    BY <1>t, <2>3, Numbers DEF LoadKeeps
  <2> QED BY <1>3, <2>0, <2>1, <2>2, <2>3, <2>4, <2>5, Numbers DEF LatestIsKept, BeforeApply
<1> QED BY <1>5, <1>6, <1>8, <1>9, <1>10 DEF SyncInv

LEMMA FinishKeeps ==
    ASSUME SyncInv, NEW t \in Token, FinishConfigReload(t)
    PROVE  SyncInv'
<1>t. /\ job \in [Job -> JobState] /\ t \in Job /\ t # Loader /\ main \in Job \cup {NoJob}
      /\ saved \in Job
  BY Numbers DEF SyncInv, SyncTypeOK
<1>0. /\ UNCHANGED <<app, broadcasts, native, snapshot, reply, load, environment, overlap>>
      /\ job[t].pc \in {"wait", "refuse"} /\ job' = [job EXCEPT ![t] = Idle]
      /\ main' = Released(t)
  BY DEF FinishConfigReload
<1>1. PICK ok \in BOOLEAN : /\ statuses' = statuses \cup {[token |-> t, applied |-> ok]}
                            /\ ok = TRUE => job[t].pc = "wait"
  BY <1>0 DEF FinishConfigReload
<1>2. Idle \in JobState /\ Idle.pc = "idle"
  BY Numbers DEF Idle, JobState
<1>3. /\ job'[t].pc = "idle" /\ \A i \in Job \ {t} : job'[i] = job[i]
  BY <1>t, <1>0, <1>2
<1>4. SyncTypeOK'
  <2>1. main' \in Job \cup {NoJob}
    BY <1>t, <1>0 DEF Released
  <2> QED BY <1>t, <1>0, <1>1, <1>2, <2>1 DEF SyncInv, SyncTypeOK, app, environment
<1>5. TokensInOrder'
  <2>1. t <= saved /\ t \notin broadcasts
    BY <1>0 DEF SyncInv, TokensInOrder
  <2>2. \A s \in statuses' : s \in statuses \/ s.token = t
    BY <1>1
  <2>3. \A u \in Token : job'[u].pc = job[u].pc \/ job'[u].pc = "idle"
    BY <1>3, Numbers
  <2>4. broadcasts \subseteq Token
    BY DEF SyncInv, SyncTypeOK
  <2> QED BY <1>0, <2>1, <2>2, <2>3, <2>4 DEF SyncInv, TokensInOrder, app
<1>6. JobsAlone' /\ AppliedIsNative'
  BY <1>0, <1>3, Numbers DEF SyncInv, JobsAlone, AppliedIsNative
<1>7. BundlesFit'
  <2>1. ReloadsOwnConfig'
    BY <1>3, Numbers DEF SyncInv, BundlesFit, ReloadsOwnConfig
  <2> QED BY <1>t, <1>0, <1>3, <2>1, Numbers DEF SyncInv, BundlesFit, app
<1>8. LatestIsKept'
  <2> SUFFICES ASSUME Settled'
               PROVE  LatestIsKept'
    BY DEF LatestIsKept
  <2>1. Settled
    BY <1>t, <1>0, <1>1, <1>3 DEF Settled, app
  <2>2. LoadKeeps(job[Loader], native)'
    BY <1>t, <1>0, <1>3, <2>1, Numbers DEF SyncInv, LatestIsKept, LoadKeeps, Latest, app
  <2>3. job'[saved].pc \in {"idle", "wait"}
    BY <1>t, <1>3, <2>1 DEF SyncInv, LatestIsKept
  <2>4. \A u \in Token \ {saved} : job'[u].pc \in BeforeApply
    BY <1>3, <2>1, Numbers DEF SyncInv, LatestIsKept, BeforeApply
  <2> QED BY <1>0, <1>3, <2>1, <2>2, <2>3, <2>4 DEF SyncInv, LatestIsKept, Latest, app
<1> QED BY <1>4, <1>5, <1>6, <1>7, <1>8 DEF SyncInv

-----------------------------------------------------------------------------
LEMMA StartKeeps ==
    ASSUME SyncInv, StartConfigReload
    PROVE  SyncInv'
<1>t. /\ job \in [Job -> JobState] /\ reply \in [Job -> ReplyState] /\ Loader \in Job
      /\ \A t \in Token : t \in Job /\ t # Loader
      /\ load \in [due: BOOLEAN, inFlight: BOOLEAN, completed: BOOLEAN, retries: 0..MaxRetries]
      /\ saved \in Job
  BY Numbers DEF SyncInv, SyncTypeOK
<1>0. UNCHANGED <<app, broadcasts, statuses, native, snapshot, environment>>
  BY DEF StartConfigReload
<1>1. CASE load' = [load EXCEPT !.due = FALSE] /\ UNCHANGED <<job, reply, main, overlap>>
  <2>1. /\ load'.completed = load.completed
        /\ load' \in [due: BOOLEAN, inFlight: BOOLEAN, completed: BOOLEAN, retries: 0..MaxRetries]
    BY <1>t, <1>1
  <2>2. SyncTypeOK'
    BY <1>0, <1>1, <2>1 DEF SyncInv, SyncTypeOK, app, environment
  <2>3. TokensInOrder' /\ BundlesFit' /\ JobsAlone' /\ AppliedIsNative'
    BY <1>0, <1>1 DEF SyncInv, TokensInOrder, BundlesFit, ReloadsOwnConfig, JobsAlone,
                      AppliedIsNative, app
  <2>4. LatestIsKept'
    BY <1>0, <1>1, <2>1 DEF SyncInv, LatestIsKept, Settled, LoadKeeps, Latest, app
  <2> QED BY <2>2, <2>3, <2>4 DEF SyncInv
<1>2. CASE /\ load' = [load EXCEPT !.due = FALSE, !.inFlight = TRUE]
           /\ job' = [job EXCEPT ![Loader] = [Idle EXCEPT !.pc = "snapshot"]]
           /\ reply' = [reply EXCEPT ![Loader] = NoReply] /\ main' = Loader
           /\ overlap' = (overlap \/ Active # {})
  <2> DEFINE s == [Idle EXCEPT !.pc = "snapshot"]
  <2>1. /\ load'.completed = load.completed
        /\ load' \in [due: BOOLEAN, inFlight: BOOLEAN, completed: BOOLEAN, retries: 0..MaxRetries]
    BY <1>t, <1>2
  <2>2. /\ s \in JobState /\ s.pc = "snapshot" /\ s.bundle = NoBundle /\ s.local = NoBundle
        /\ s.recovered = FALSE /\ s.applied = FALSE
    BY Numbers DEF Idle, JobState
  <2> HIDE DEF s
  <2>3. /\ job' \in [Job -> JobState] /\ job'[Loader] = s
        /\ \A i \in Job \ {Loader} : job'[i] = job[i]
        /\ \A t \in Token : job'[t] = job[t]
    BY <1>t, <1>2, <2>2 DEF s
  <2>4. NoReply \in ReplyState /\ NoReply.state = "none"
    BY Numbers DEF NoReply, ReplyState
  <2>5. /\ reply' \in [Job -> ReplyState] /\ reply'[Loader].state = "none"
        /\ \A i \in Job \ {Loader} : reply'[i] = reply[i]
    BY <1>t, <1>2, <2>4
  <2>6. overlap' \in BOOLEAN /\ (~overlap' => ~overlap /\ \A i \in Job : job[i].pc = "idle")
    BY <1>2 DEF Active, SyncInv, SyncTypeOK
  <2>7. SyncTypeOK'
    BY <1>t, <1>0, <1>2, <2>1, <2>3, <2>5, <2>6 DEF SyncInv, SyncTypeOK, app, environment
  <2>8. TokensInOrder'
    <3>1. broadcasts \subseteq Token
      BY DEF SyncInv, SyncTypeOK
    <3> QED BY <1>0, <2>3, <3>1 DEF SyncInv, TokensInOrder, app
  <2>9. BundlesFit'
    BY <1>0, <2>2, <2>3, <2>5 DEF SyncInv, BundlesFit, ReloadsOwnConfig, app
  <2>10. JobsAlone' /\ AppliedIsNative'
    BY <1>t, <2>3, <2>6 DEF JobsAlone, AppliedIsNative
  <2>11. LatestIsKept'
    <3> SUFFICES ASSUME Settled'
                 PROVE  LatestIsKept'
      BY DEF LatestIsKept
    <3>1. Settled /\ saved # Loader
      BY <1>t, <1>0, <2>2, <2>3, <2>6 DEF Settled, app, Loader
    <3>2. LoadKeeps(job[Loader], native)'
      BY <2>2, <2>3 DEF LoadKeeps
    <3> QED BY <1>t, <1>0, <2>1, <2>3, <2>5, <3>1, <3>2 DEF SyncInv, LatestIsKept, Latest, app
  <2> QED BY <2>7, <2>8, <2>9, <2>10, <2>11 DEF SyncInv
<1> QED BY <1>1, <1>2 DEF StartConfigReload

LEMMA LoadSnapshotKeeps ==
    ASSUME SyncInv, LoadSnapshot
    PROVE  SyncInv'
<1>t. /\ job \in [Job -> JobState] /\ Loader \in Job /\ snapshot \in Bundle
  BY Numbers DEF SyncInv, SyncTypeOK
<1> DEFINE pc == IF snapshot = NoBundle THEN "provider" ELSE "recover"
           a == At(Loader, pc)
           s == [a EXCEPT !.local = snapshot]
<1>0. /\ UNCHANGED <<app, broadcasts, statuses, native, snapshot, reply, main, load,
                     environment, history>>
      /\ job[Loader].pc = "snapshot" /\ job' = [job EXCEPT ![Loader] = s]
  BY DEF LoadSnapshot, Go
<1>1. /\ a \in JobState /\ a.pc = pc /\ a.bundle = job[Loader].bundle
      /\ a.recovered = job[Loader].recovered /\ a.applied = job[Loader].applied
  BY <1>t, AtFields DEF Steps
<1> HIDE DEF a
<1>2. /\ s \in JobState /\ s.pc = pc /\ s.bundle = job[Loader].bundle /\ s.local = snapshot
      /\ s.recovered = job[Loader].recovered /\ s.applied = job[Loader].applied
  BY <1>t, <1>1 DEF JobState
<1> HIDE DEF s
<1>3. SyncTypeOK'
  BY <1>t, <1>0, <1>2 DEF SyncInv, SyncTypeOK, app, environment, history
<1>4. TokensInOrder' /\ JobsAlone'
  BY <1>t, <1>0, <1>2, JobGoes DEF app, history
<1>5. BundlesFit' /\ AppliedIsNative'
  BY <1>t, <1>0, <1>2, JobFits DEF SyncInv, BundlesFit, app, history
<1>6. LatestIsKept'
  <2>1. Settled => (reply[Loader].state = "answered" => reply[Loader].bundle = Latest)
    BY <1>t, <1>0 DEF SyncInv, LatestIsKept
  <2>2. Settled => LoadKeeps(s, native')
    BY <1>0, <1>2 DEF SyncInv, LatestIsKept, LoadKeeps
  <2> QED BY <1>t, <1>0, <1>2, <2>1, <2>2, KeepsLatest DEF app, history
<1> QED BY <1>3, <1>4, <1>5, <1>6 DEF SyncInv

LEMMA ApplySnapshotKeeps ==
    ASSUME SyncInv, ApplySnapshot
    PROVE  SyncInv'
<1>t. /\ job \in [Job -> JobState] /\ Loader \in Job /\ native \in Numbered
      /\ job[Loader].local.config \in Numbered
  BY Numbers DEF SyncInv, SyncTypeOK, JobState, Bundle
<1>0. /\ UNCHANGED <<app, broadcasts, statuses, snapshot, reply, main, load, environment,
                     history>>
      /\ job[Loader].pc = "recover"
  BY DEF ApplySnapshot, Go
<1> DEFINE a == At(Loader, "provider")
           b == [a EXCEPT !.recovered = TRUE]
<1>1. /\ a \in JobState /\ a.pc = "provider" /\ a.bundle = job[Loader].bundle
      /\ a.local = job[Loader].local
      /\ a.recovered = job[Loader].recovered /\ a.applied = job[Loader].applied
  BY <1>t, AtFields DEF Steps
<1>2. \/ job' = [job EXCEPT ![Loader] = b] /\ native' = job[Loader].local.config
      \/ job' = [job EXCEPT ![Loader] = a] /\ native' = native
  BY DEF ApplySnapshot, Go
<1> HIDE DEF a
<1>3. /\ b \in JobState /\ b.pc = "provider" /\ b.bundle = job[Loader].bundle
      /\ b.local = job[Loader].local /\ b.applied = job[Loader].applied
  BY <1>1 DEF JobState
<1> HIDE DEF b
<1>4. PICK s \in JobState :
         /\ job' = [job EXCEPT ![Loader] = s]
         /\ s.pc = "provider" /\ s.bundle = job[Loader].bundle /\ s.local = job[Loader].local
         /\ s.applied = job[Loader].applied
         /\ \/ native' = job[Loader].local.config
            \/ native' = native /\ s.recovered = job[Loader].recovered
  BY <1>1, <1>2, <1>3
<1>5. SyncTypeOK'
  BY <1>t, <1>0, <1>4 DEF SyncInv, SyncTypeOK, app, environment, history
<1>6. TokensInOrder' /\ JobsAlone'
  BY <1>t, <1>0, <1>4, JobGoes DEF app, history
<1>7. BundlesFit' /\ AppliedIsNative'
  BY <1>t, <1>0, <1>4, JobFits DEF SyncInv, BundlesFit, app, history
<1>8. LatestIsKept'
  <2>1. Settled => (reply[Loader].state = "answered" => reply[Loader].bundle = Latest)
    BY <1>t, <1>0 DEF SyncInv, LatestIsKept
  <2>2. Settled => job[Loader].local = Latest /\ Latest.config = saved
    BY <1>0 DEF SyncInv, LatestIsKept, LoadKeeps, Latest
  <2>3. Settled => LoadKeeps(s, native')
    BY <1>0, <1>4, <2>2 DEF SyncInv, LatestIsKept, LoadKeeps
  <2> QED BY <1>t, <1>0, <1>4, <2>1, <2>2, <2>3, KeepsLatest DEF app, history
<1> QED BY <1>5, <1>6, <1>7, <1>8 DEF SyncInv

LEMMA DecideKeeps ==
    ASSUME SyncInv, DecideLoad
    PROVE  SyncInv'
<1> DEFINE l == job[Loader]
           failed == IF l.pc = "decide" THEN "request" ELSE "finish"
<1>t. /\ job \in [Job -> JobState] /\ Loader \in Job /\ native \in Numbered
      /\ l.bundle.config \in Numbered /\ l \in JobState
  BY Numbers DEF SyncInv, SyncTypeOK, JobState, Bundle
<1>0. /\ UNCHANGED <<app, broadcasts, statuses, snapshot, reply, main, load, environment,
                     history>>
      /\ l.pc \in {"decide", "check"}
  BY DEF DecideLoad
<1>1. PICK pc \in {"request", "finish", "save"} :
         /\ job' = [job EXCEPT ![Loader] = At(Loader, pc)]
         /\ \/ pc = failed /\ native' = native
            \/ /\ pc = "save" /\ l.bundle # NoBundle
               /\ \/ Matching /\ native' = native
                  \/ native' = l.bundle.config
  <2>1. failed \in {"request", "finish", "save"}
    OBVIOUS
  <2> QED BY <2>1 DEF DecideLoad, Go
<1> DEFINE s == At(Loader, pc)
<1>2. /\ s \in JobState /\ s.pc = pc /\ s.bundle = l.bundle /\ s.local = l.local
      /\ s.recovered = l.recovered /\ s.applied = l.applied
  BY <1>t, AtFields DEF Steps
<1>3. job' = [job EXCEPT ![Loader] = s]
  BY <1>1
<1> HIDE DEF s
<1>4. SyncTypeOK'
  BY <1>t, <1>0, <1>1, <1>2, <1>3 DEF SyncInv, SyncTypeOK, app, environment, history
<1>5. TokensInOrder' /\ JobsAlone'
  BY <1>t, <1>0, <1>2, <1>3, JobGoes DEF app, history
<1>6. BundlesFit' /\ AppliedIsNative'
  <2>1. /\ s.pc \notin {"snapshot", "recover", "provider", "waiting"}
        /\ job[Loader].pc # "idle" /\ UNCHANGED <<saved, overlap, reply>>
    BY <1>0, <1>2 DEF app, history
  <2>2. \A i \in Job : reply'[i].state = "answered" =>
           reply'[i].bundle.config = reply'[i].bundle.token
    BY <2>1 DEF SyncInv, BundlesFit
  <2> QED BY <1>t, <1>2, <1>3, <2>1, <2>2, JobFits
<1>7. LatestIsKept'
  <2>1. Settled => (reply[Loader].state = "answered" => reply[Loader].bundle = Latest)
    BY <1>t, <1>0 DEF SyncInv, LatestIsKept
  <2>2. Settled => LoadKeeps(l, native) /\ Latest.config = saved
    BY DEF SyncInv, LatestIsKept, Latest
  <2>3. Settled /\ pc = "save" => l.bundle = Latest /\ native' = saved
    BY <1>0, <1>1, <2>2 DEF LoadKeeps, Matching
  <2>4. Settled /\ pc # "save" => native' = native
    BY <1>1
  <2>5. Settled => LoadKeeps(s, native')
    BY <1>0, <1>1, <1>2, <2>2, <2>3, <2>4 DEF LoadKeeps
  <2> QED BY <1>t, <1>0, <1>2, <1>3, <2>1, <2>3, <2>4, <2>5, KeepsLatest DEF app, history
<1> QED BY <1>4, <1>5, <1>6, <1>7 DEF SyncInv

LEMMA SaveLoadedKeeps ==
    ASSUME SyncInv, SaveLoaded
    PROVE  SyncInv'
<1>t. /\ job \in [Job -> JobState] /\ Loader \in Job /\ snapshot \in Bundle
      /\ job[Loader].bundle \in Bundle
  BY Numbers DEF SyncInv, SyncTypeOK, JobState
<1> DEFINE a == At(Loader, "finish")
           s == [a EXCEPT !.applied = TRUE]
<1>0. /\ UNCHANGED <<app, broadcasts, statuses, native, reply, main, load, environment, history>>
      /\ job[Loader].pc = "save" /\ job' = [job EXCEPT ![Loader] = s]
      /\ snapshot' \in {snapshot, job[Loader].bundle}
  BY DEF SaveLoaded, Go
<1>1. /\ a \in JobState /\ a.pc = "finish" /\ a.bundle = job[Loader].bundle
      /\ a.local = job[Loader].local /\ a.recovered = job[Loader].recovered
  BY <1>t, AtFields DEF Steps
<1> HIDE DEF a
<1>2. /\ s \in JobState /\ s.pc = "finish" /\ s.bundle = job[Loader].bundle
      /\ s.local = job[Loader].local /\ s.recovered = job[Loader].recovered
  BY <1>1 DEF JobState
<1> HIDE DEF s
<1>3. SyncTypeOK'
  BY <1>t, <1>0, <1>2 DEF SyncInv, SyncTypeOK, app, environment, history
<1>4. TokensInOrder' /\ JobsAlone'
  BY <1>t, <1>0, <1>2, JobGoes DEF app, history
<1>5. BundlesFit' /\ AppliedIsNative'
  BY <1>t, <1>0, <1>2, JobFits DEF SyncInv, BundlesFit, app, history
<1>6. LatestIsKept'
  <2>1. Settled => (reply[Loader].state = "answered" => reply[Loader].bundle = Latest)
    BY <1>t, <1>0 DEF SyncInv, LatestIsKept
  <2>2. Settled => job[Loader].bundle = Latest /\ native = saved /\ snapshot = Latest
    BY <1>0 DEF SyncInv, LatestIsKept, LoadKeeps
  <2>3. Settled => LoadKeeps(s, native')
    BY <1>0, <1>2, <2>2 DEF SyncInv, LatestIsKept, LoadKeeps
  <2>4. Settled => snapshot' = Latest
    BY <1>0, <2>2
  <2> QED BY <1>t, <1>0, <1>2, <2>1, <2>3, <2>4, KeepsLatest DEF app, history
<1> QED BY <1>3, <1>4, <1>5, <1>6 DEF SyncInv

LEMMA FinishLoadKeeps ==
    ASSUME SyncInv, FinishLoad
    PROVE  SyncInv'
<1> DEFINE States == [due: BOOLEAN, inFlight: BOOLEAN, completed: BOOLEAN, retries: 0..MaxRetries]
<1>t. /\ job \in [Job -> JobState] /\ Loader \in Job /\ main \in Job \cup {NoJob}
      /\ load \in States
  BY Numbers DEF SyncInv, SyncTypeOK
<1>0. /\ UNCHANGED <<app, broadcasts, statuses, native, snapshot, reply, environment, history>>
      /\ job[Loader].pc = "finish" /\ job' = [job EXCEPT ![Loader] = Idle]
      /\ load' = Finished /\ main' = Released(Loader)
  BY DEF FinishLoad, Go
<1>1. Idle \in JobState /\ Idle.pc = "idle"
  BY Numbers DEF Idle, JobState
<1>2. /\ Finished \in States
      /\ \/ job[Loader].applied = TRUE \/ job[Loader].recovered = TRUE
         \/ Finished.completed = load.completed
  <2> DEFINE s == [load EXCEPT !.inFlight = FALSE]
  <2>1. s \in States /\ s.completed = load.completed
    BY <1>t
  <2> HIDE DEF s
  <2>2. AfterRetry(s) \in States /\ AfterRetry(s).completed = s.completed
    <3>1. CASE s.retries < MaxRetries
      <4> DEFINE r == [s EXCEPT !.retries = @ + 1]
      <4>1. s.retries + 1 \in 0..MaxRetries
        BY <2>1, <3>1, Numbers
      <4>2. r \in States /\ r.completed = s.completed
        BY <2>1, <4>1
      <4>3. AfterRetry(s) = [r EXCEPT !.due = TRUE]
        BY <2>1, <3>1 DEF AfterRetry
      <4> HIDE DEF r
      <4> QED BY <4>2, <4>3
    <3>2. CASE ~(s.retries < MaxRetries)
      BY <2>1, <3>2 DEF AfterRetry
    <3> QED BY <3>1, <3>2
  <2>3. [due |-> FALSE, inFlight |-> FALSE, completed |-> TRUE, retries |-> 0] \in States
    BY Numbers
  <2>4. CASE job[Loader].applied \/ job[Loader].recovered
    <3>1. job[Loader].applied \in BOOLEAN /\ job[Loader].recovered \in BOOLEAN
      BY <1>t DEF JobState
    <3>2. Finished = [due |-> FALSE, inFlight |-> FALSE, completed |-> TRUE, retries |-> 0]
      BY <2>4 DEF Finished
    <3> QED BY <2>3, <2>4, <3>1, <3>2
  <2>5. CASE ~(job[Loader].applied \/ job[Loader].recovered)
    <3>1. Finished = AfterRetry(s)
      BY <2>5 DEF Finished, s
    <3> QED BY <2>1, <2>2, <3>1
  <2> QED BY <2>4, <2>5
<1>3. SyncTypeOK'
  <2>1. main' \in Job \cup {NoJob}
    BY <1>t, <1>0 DEF Released
  <2> QED BY <1>t, <1>0, <1>1, <1>2, <2>1 DEF SyncInv, SyncTypeOK, app, environment, history
<1>4. TokensInOrder' /\ JobsAlone'
  BY <1>t, <1>0, <1>1, JobGoes DEF app, history
<1>5. BundlesFit' /\ AppliedIsNative'
  BY <1>t, <1>0, <1>1, JobFits DEF SyncInv, BundlesFit, app, history
<1>6. LatestIsKept'
  <2>1. Settled => (reply[Loader].state = "answered" => reply[Loader].bundle = Latest)
    BY <1>t, <1>0 DEF SyncInv, LatestIsKept
  <2>2. Settled => LoadKeeps(Idle, native')
    BY <1>1 DEF LoadKeeps
  <2>3. load'.completed = load.completed \/ (Settled => native' = saved)
    BY <1>0, <1>2 DEF SyncInv, LatestIsKept, LoadKeeps
  <2> QED BY <1>t, <1>0, <1>1, <2>1, <2>2, <2>3, KeepsLatest DEF app, history
<1> QED BY <1>3, <1>4, <1>5, <1>6 DEF SyncInv

-----------------------------------------------------------------------------
LEMMA TriggerKeeps ==
    ASSUME SyncInv, SystemTrigger
    PROVE  SyncInv'
<1> DEFINE States == [due: BOOLEAN, inFlight: BOOLEAN, completed: BOOLEAN, retries: 0..MaxRetries]
<1>0. /\ UNCHANGED <<app, broadcasts, statuses, native, snapshot, job, reply, main, history>>
      /\ load' = [load EXCEPT !.retries = 0, !.due = ~load.inFlight]
  BY DEF SystemTrigger
<1>1. load' \in States /\ load'.completed = load.completed
  <2> DEFINE r == [load EXCEPT !.retries = 0]
  <2>1. load \in States /\ 0 \in 0..MaxRetries
    BY Numbers DEF SyncInv, SyncTypeOK
  <2>2. r \in States /\ r.completed = load.completed /\ (~load.inFlight) \in BOOLEAN
    BY <2>1
  <2>3. load' = [r EXCEPT !.due = ~load.inFlight]
    BY <1>0, <2>1
  <2> HIDE DEF r
  <2> QED BY <2>2, <2>3
<1>2. SyncTypeOK'
  BY <1>0, <1>1 DEF SyncInv, SyncTypeOK, app, history
<1> QED BY <1>0, <1>1, <1>2
        DEF SyncInv, TokensInOrder, BundlesFit, ReloadsOwnConfig, JobsAlone, AppliedIsNative,
            LatestIsKept, Settled, LoadKeeps, Latest, app, history

LEMMA CrashKeeps ==
    ASSUME SyncInv, Crash
    PROVE  SyncInv'
<1>0. /\ UNCHANGED <<app, statuses, snapshot, history>>
      /\ native' = 0 /\ broadcasts' = {} /\ main' = NoJob /\ load' = Started
      /\ job' = [j \in Job |-> Idle] /\ reply' = [j \in Job |-> NoReply]
  BY DEF Crash
<1>1. /\ Idle \in JobState /\ Idle.pc = "idle"
      /\ NoReply \in ReplyState /\ NoReply.state = "none"
  BY Numbers DEF Idle, JobState, NoReply, ReplyState
<1>2. /\ \A i \in Job : job'[i].pc = "idle" /\ reply'[i].state = "none"
      /\ job' \in [Job -> JobState] /\ reply' \in [Job -> ReplyState]
  BY <1>0, <1>1
<1>a. /\ 0 \in Numbered /\ 0 \in 0..MaxRetries /\ {} \subseteq Token
  BY Numbers, SyncAssumption DEF Numbered
<1>b. load' \in [due: BOOLEAN, inFlight: BOOLEAN, completed: BOOLEAN, retries: 0..MaxRetries]
  BY <1>0, <1>a DEF Started
<1>c. /\ saved' \in Numbered /\ pendingReloadToken' \in Numbered /\ shown' \in Numbered
      /\ statuses' \subseteq [token: Token, applied: BOOLEAN]
      /\ snapshot' \in Bundle /\ overlap' \in BOOLEAN
  BY <1>0 DEF SyncInv, SyncTypeOK, app, history
<1>3. SyncTypeOK'
  BY <1>0, <1>a, <1>b, <1>c, <1>2 DEF SyncTypeOK
<1>4. TokensInOrder' /\ JobsAlone' /\ AppliedIsNative'
  BY <1>0, <1>2, Numbers DEF SyncInv, TokensInOrder, JobsAlone, AppliedIsNative, app
<1>5. BundlesFit'
  BY <1>2, Numbers DEF BundlesFit, ReloadsOwnConfig
<1>6. LatestIsKept'
  <2> SUFFICES ASSUME Settled'
               PROVE  LatestIsKept'
    BY DEF LatestIsKept
  <2>1. saved' = saved /\ saved \in Job /\ Latest' = Latest
    BY <1>0, Numbers DEF SyncInv, SyncTypeOK, app, Latest
  <2>2. Settled
    BY <1>0, <1>2, <2>1 DEF Settled, app, history
  <2>3. snapshot' = Latest'
    BY <1>0, <2>1, <2>2 DEF SyncInv, LatestIsKept
  <2>4. LoadKeeps(job[Loader], native)'
    BY <1>2, Numbers DEF LoadKeeps
  <2> QED BY <1>0, <1>2, <2>1, <2>3, <2>4, Numbers DEF LatestIsKept, BeforeApply, Started
<1> QED BY <1>3, <1>4, <1>5, <1>6 DEF SyncInv

LEMMA AppKeeps ==
    ASSUME SyncInv, SaveConfig \/ ReceiveStatus
    PROVE  SyncInv'
<1>t. /\ saved \in Job /\ shown \in Job /\ broadcasts \subseteq Token
      /\ statuses \subseteq [token: Token, applied: BOOLEAN]
  BY Numbers DEF SyncInv, SyncTypeOK
<1>1. CASE SaveConfig
  <2>0. /\ UNCHANGED <<shown, statuses, native, snapshot, job, reply, main, load, environment,
                       history>>
        /\ saved < MaxSaves /\ saved' = saved + 1 /\ pendingReloadToken' = saved + 1
        /\ broadcasts' = broadcasts \cup {saved + 1}
    BY <1>1 DEF SaveConfig
  <2>1. saved + 1 \in Token /\ saved \in Nat /\ saved + 1 \in Numbered
    BY <1>t, <2>0, SyncAssumption DEF Token, Job, Numbered
  <2>2. SyncTypeOK'
    BY <2>0, <2>1 DEF SyncInv, SyncTypeOK, environment, history
  <2>3. \A t \in Token : job[t].pc # "idle" => t <= saved /\ t # saved + 1
    BY <2>1, Numbers DEF SyncInv, TokensInOrder
  <2>4. \A s \in statuses : s.token <= saved /\ s.token # saved + 1
    BY <1>t, <2>1, Numbers DEF SyncInv, TokensInOrder
  <2>5. shown <= saved /\ shown # saved + 1
    BY <1>t, <2>1, Numbers DEF SyncInv, TokensInOrder
  <2>6. \A n \in Nat : n <= saved => n <= saved + 1
    BY <2>1
  <2>7. TokensInOrder'
    <3>1. \A t \in Token : t \in Nat
      BY Numbers
    <3>2. \A t \in broadcasts' : t \in broadcasts \/ t = saved + 1
      BY <2>0
    <3> QED BY <1>t, <2>0, <2>1, <2>3, <2>4, <2>5, <2>6, <3>1, <3>2, Numbers
            DEF SyncInv, TokensInOrder
  <2>8. BundlesFit'
    <3>1. \A t \in Token : t \in Job
      BY Numbers
    <3>2. \A t \in Token : job[t].bundle.config \in Nat
      BY <3>1, Numbers DEF SyncInv, SyncTypeOK, JobState, Bundle
    <3> QED BY <2>0, <2>6, <3>2 DEF SyncInv, BundlesFit, ReloadsOwnConfig
  <2>9. ~Settled'
    BY <2>0, <2>1, <2>3, <2>4, <2>5 DEF Settled
  <2> QED BY <2>0, <2>2, <2>7, <2>8, <2>9
          DEF SyncInv, JobsAlone, AppliedIsNative, LatestIsKept, history
<1>2. CASE ReceiveStatus
  <2>0. UNCHANGED <<saved, broadcasts, native, snapshot, job, reply, main, load, environment,
                    history>>
    BY <1>2 DEF ReceiveStatus
  <2>1. PICK s \in statuses :
          /\ statuses' = statuses \ {s}
          /\ \/ pendingReloadToken' = 0 /\ shown' = s.token /\ s.applied = TRUE
             \/ pendingReloadToken' \in {0, pendingReloadToken} /\ shown' = shown
    <3>1. PICK s \in statuses :
          /\ statuses' = statuses \ {s}
          /\ IF s.token = pendingReloadToken
             THEN /\ pendingReloadToken' = 0
                  /\ shown' = IF s.applied THEN s.token ELSE shown
             ELSE UNCHANGED <<pendingReloadToken, shown>>
      BY <1>2 DEF ReceiveStatus
    <3>2. s.applied \in BOOLEAN
      BY <1>t
    <3> QED BY <3>1, <3>2
  <2>2. s.token \in Token /\ s.token \in Numbered
    BY <1>t, <2>1, Numbers
  <2>3. SyncTypeOK'
    <3>1. pendingReloadToken' \in Numbered /\ shown' \in Numbered
      BY <2>1, <2>2, Numbers DEF SyncInv, SyncTypeOK, Loader
    <3> QED BY <1>t, <2>0, <2>1, <3>1 DEF SyncInv, SyncTypeOK, environment, history
  <2>4. TokensInOrder'
    BY <1>t, <2>0, <2>1, <2>2 DEF SyncInv, TokensInOrder
  <2>5. Settled' => Settled
    BY <2>0, <2>1 DEF Settled, history
  <2> QED BY <2>0, <2>3, <2>4, <2>5
          DEF SyncInv, BundlesFit, ReloadsOwnConfig, JobsAlone, AppliedIsNative, LatestIsKept,
              LoadKeeps, Latest, history
<1> QED BY <1>1, <1>2

LEMMA AnswerKeeps ==
    ASSUME SyncInv, NEW j \in Job, AnswerRequest(j)
    PROVE  SyncInv'
<1> DEFINE r == [state |-> "answered", bundle |-> Latest]
<1>t. reply \in [Job -> ReplyState] /\ saved \in Numbered
  BY DEF SyncInv, SyncTypeOK
<1>0. /\ UNCHANGED <<app, broadcasts, statuses, native, snapshot, job, main, load, environment,
                     history>>
      /\ reply' = [reply EXCEPT ![j] = r]
  BY DEF AnswerRequest, Latest
<1>1. /\ r \in ReplyState /\ r.bundle = Latest /\ Latest.config = Latest.token
  BY <1>t DEF ReplyState, Latest, Bundle
<1> HIDE DEF r
<1>2. /\ reply' \in [Job -> ReplyState] /\ reply'[j] = r
      /\ \A i \in Job \ {j} : reply'[i] = reply[i]
  BY <1>t, <1>0, <1>1
<1>3. SyncTypeOK'
  BY <1>0, <1>2 DEF SyncInv, SyncTypeOK, app, environment, history
<1>4. TokensInOrder' /\ JobsAlone' /\ AppliedIsNative'
  BY <1>0 DEF SyncInv, TokensInOrder, JobsAlone, AppliedIsNative, app, history
<1>5. BundlesFit'
  <2>1. \A i \in Job : reply'[i].state = "answered" =>
           reply'[i].bundle.config = reply'[i].bundle.token
    BY <1>1, <1>2 DEF SyncInv, BundlesFit
  <2> QED BY <1>0, <2>1 DEF SyncInv, BundlesFit, ReloadsOwnConfig, app
<1>6. LatestIsKept'
  <2> SUFFICES ASSUME Settled'
               PROVE  LatestIsKept'
    BY DEF LatestIsKept
  <2>1. Settled /\ saved' = saved /\ Latest' = Latest
    BY <1>0 DEF Settled, Latest, app, history
  <2>2. \A i \in Job \ {saved} : job[i].pc # "idle" /\ reply'[i].state = "answered" =>
           reply'[i].bundle = Latest
    BY <1>1, <1>2, <2>1 DEF SyncInv, LatestIsKept
  <2>3. LoadKeeps(job[Loader], native)'
    BY <1>0, <2>1 DEF SyncInv, LatestIsKept, LoadKeeps
  <2> QED BY <1>0, <2>1, <2>2, <2>3 DEF SyncInv, LatestIsKept
<1> QED BY <1>3, <1>4, <1>5, <1>6 DEF SyncInv

-----------------------------------------------------------------------------
LEMMA SyncInvInit == SyncInit => SyncInv
<1> SUFFICES ASSUME SyncInit PROVE SyncInv
  OBVIOUS
<1> USE DEF SyncInit
<1>1. /\ Idle \in JobState /\ Idle.pc = "idle"
      /\ NoReply \in ReplyState /\ NoReply.state = "none"
  BY Numbers DEF Idle, JobState, NoReply, ReplyState
<1>2. \A i \in Job : job[i].pc = "idle" /\ reply[i].state = "none"
  BY <1>1
<1>a. /\ 0 \in Numbered /\ 0 \in 0..MaxRetries /\ {} \subseteq Token
      /\ {} \subseteq [token: Token, applied: BOOLEAN]
  BY Numbers, SyncAssumption DEF Numbered
<1>b. load \in [due: BOOLEAN, inFlight: BOOLEAN, completed: BOOLEAN, retries: 0..MaxRetries]
  BY <1>a DEF Started
<1>c. job \in [Job -> JobState] /\ reply \in [Job -> ReplyState]
  BY <1>1
<1>3. SyncTypeOK
  BY <1>a, <1>b, <1>c, Numbers DEF SyncTypeOK
<1> QED BY <1>2, <1>3, Numbers
        DEF SyncInv, TokensInOrder, BundlesFit, ReloadsOwnConfig, JobsAlone, AppliedIsNative,
            LatestIsKept, Settled

LEMMA SyncInvNext ==
    ASSUME SyncInv, [SyncNext]_syncVars
    PROVE  SyncInv'
<1>1. CASE UNCHANGED syncVars
  BY <1>1 DEF syncVars, app, environment, history, SyncInv, SyncTypeOK, TokensInOrder, BundlesFit,
              ReloadsOwnConfig, JobsAlone, AppliedIsNative, LatestIsKept, Settled, LoadKeeps,
              Latest
<1>2. CASE \E j \in Job : AnswerRequest(j) \/ JobStep(j)
  BY <1>2, AnswerKeeps, ProviderKeeps, TokenKeeps, RequestKeeps, ReplyKeeps, TimeoutKeeps
     DEF JobStep
<1>3. CASE \E t \in Token : ReceiveReload(t) \/ ReloadStep(t)
  BY <1>3, ReceiveKeeps, ApplyKeeps, SaveKeeps, FinishKeeps DEF ReloadStep
<1>4. CASE SaveConfig \/ ReceiveStatus \/ StartConfigReload \/ LoaderStep \/ SystemTrigger \/ Crash
  BY <1>4, AppKeeps, StartKeeps, LoadSnapshotKeeps, ApplySnapshotKeeps, DecideKeeps,
     SaveLoadedKeeps, FinishLoadKeeps, TriggerKeeps, CrashKeeps
     DEF LoaderStep
<1> QED BY <1>1, <1>2, <1>3, <1>4 DEF SyncNext

LEMMA SyncInvAlways == SyncSpec => []SyncInv
<1>1. SyncInv /\ [SyncNext]_syncVars => SyncInv'
  BY SyncInvNext
<1> QED BY SyncInvInit, <1>1, PTL DEF SyncSpec

\* Every variable of the exchange keeps its type, the retries of the load their limit.
THEOREM SyncTyped == SyncSpec => []SyncTypeOK
<1>1. SyncInv => SyncTypeOK
  BY DEF SyncInv
<1> QED BY SyncInvAlways, <1>1, PTL

\* A reload (ConfigReload in Entry.java) applies the configuration that was saved with
\* its token, although the provider reads the two one after the other and a reply
\* carries whatever is newest: what was read first is not older than the token of the
\* broadcast, so it is the same when the token read last is.
THEOREM ReloadsApplyOwnConfig == SyncSpec => []ReloadsOwnConfig
<1>1. SyncInv => ReloadsOwnConfig
  BY DEF SyncInv, BundlesFit
<1> QED BY SyncInvAlways, <1>1, PTL

\* The configuration that the app shows as applied is the one in force, also after a
\* restart of MediaProvider: unless two reloads ran at a time, it stays in force until
\* the next save, or none is in force because no load has completed.
THEOREM AppliedStaysInForce == SyncSpec => []AppliedAloneIsInForce
<1>1. ASSUME SyncInv
      PROVE  AppliedAloneIsInForce
  <2> SUFFICES ASSUME ~overlap, shown # 0, shown = saved
               PROVE  native = saved \/ (native = 0 /\ ~load.completed)
    BY DEF AppliedAloneIsInForce, InForce
  <2>1. Settled
    BY DEF Settled
  <2> QED BY <1>1, <2>1 DEF SyncInv, LatestIsKept
<1> QED BY SyncInvAlways, <1>1, PTL
=============================================================================

----------------------------- MODULE HidePolicy -----------------------------
(***************************************************************************)
(* Which paths a configuration hides (policy/path_policy.cpp, the rule     *)
(* compiler of fusehide.cpp and the prechecks of core/runtime_state.cpp).  *)
(* A path is a storage root and the components behind it as the slashes    *)
(* separate them, so that a doubled or a trailing slash makes an empty     *)
(* component.  A rule that may be null is a set with at most one element.  *)
(***************************************************************************)
EXTENDS HideUnicode

CONSTANTS
    Root,                    \* visible storage roots
    Primary,                 \* kVisibleStorageRoots[0]; the others are public
    OtherRoot,               \* stands for paths under no visible root
    Package

ASSUME RootAssumption == Primary \in Root /\ OtherRoot \notin Root

Path == [root: Root \cup {OtherRoot}, rel: Seq(Name)]

IsUnderVisibleRoot(path) == path.root \in Root
IsVisibleRootPath(path) == path.root \in Root /\ path.rel = <<>>

JoinPathComponent(parent, name) ==
    LET n == Len(parent.rel)
    IN IF n > 0 /\ parent.rel[n] = <<>>
       THEN [parent EXCEPT !.rel[n] = name]
       ELSE [parent EXCEPT !.rel = Append(@, name)]

NonEmpty(s) == s # <<>>
NormalizeRelativeHiddenPath(rel) == SelectSeq(rel, NonEmpty)

CanonicalizeRelativeHiddenPathForMatch(rel) ==
    NormalizeRelativeHiddenPath(
        [i \in DOMAIN rel |-> CanonicalizeHiddenEntryNameForMatch(rel[i])])

-----------------------------------------------------------------------------
(***************************************************************************)
(* Compiled rules.                                                         *)
(***************************************************************************)
Targets == [names: SUBSET Name, paths: SUBSET Seq(Name)]
Builder == [hideAll: SUBSET Root, exemptions: [Root -> SUBSET Name],
            names: SUBSET Name, paths: SUBSET Seq(Name)]
HideConfig == [global: Builder, hiddenPackages: SUBSET Package,
               packageRules: [Package -> Targets]]

RuleHasTargets(b) == b.hideAll # {} \/ b.names # {} \/ b.paths # {}

Prefixes(path) == {SubSeq(path, 1, k) : k \in 1..(Len(path) - 1)}

CompiledRule(b) ==
    LET exact == {CanonicalizeRelativeHiddenPathForMatch(p) : p \in b.paths} \ {<<>>}
    IN [hideAll |-> b.hideAll,
        exemptions |-> [r \in Root |->
            {CanonicalizeHiddenEntryNameForMatch(n) : n \in b.exemptions[r]} \ {<<>>}],
        hiddenRootEntryNames |-> b.names,
        entrySet |-> {CanonicalizeHiddenEntryNameForMatch(n) : n \in b.names} \ {<<>>},
        exact |-> exact,
        firstComponents |-> {p[1] : p \in exact},
        parents |-> {SubSeq(p, 1, Len(p) - 1) : p \in {q \in exact : Len(q) > 1}}]

BuildCompiledHideRule(b) == IF RuleHasTargets(b) THEN {CompiledRule(b)} ELSE {}

NoTargets == [hideAll |-> {}, exemptions |-> [r \in Root |-> {}],
              names |-> {}, paths |-> {}]

MergePackageRules(rules, packages, b) ==
    [b EXCEPT !.names = @ \cup UNION {rules[p].names : p \in packages},
              !.paths = @ \cup UNION {rules[p].paths : p \in packages}]

RuleForAnyPackage(config) ==
    BuildCompiledHideRule(MergePackageRules(config.packageRules, Package, config.global))

\* QueryHideRuleForUid: the global fragment is for hidden packages only.
UidBuilder(config, packages) ==
    MergePackageRules(config.packageRules, packages,
        IF packages \cap config.hiddenPackages # {} /\ RuleHasTargets(config.global)
        THEN config.global ELSE NoTargets)

RuleForUid(config, packages) == BuildCompiledHideRule(UidBuilder(config, packages))

-----------------------------------------------------------------------------
(***************************************************************************)
(* What a rule says of a path.                                             *)
(***************************************************************************)
MatchesRelativeHiddenPathList(rule, rel, exactOnly) ==
    LET normalized == CanonicalizeRelativeHiddenPathForMatch(rel)
    IN /\ normalized # <<>>
       /\ \/ normalized \in rule.exact
          \/ ~exactOnly /\ Prefixes(normalized) \cap rule.exact # {}

IsWildcardRootEntryCandidate(rule, name, root) ==
    /\ name # <<>>
    /\ CanonicalizeHiddenEntryNameForMatch(name) \notin rule.exemptions[root]

IsHiddenRootEntryName(rule, name, root) ==
    \/ CanonicalizeHiddenEntryNameForMatch(name) \in rule.entrySet
    \/ root \in rule.hideAll /\ IsWildcardRootEntryCandidate(rule, name, root)

IsAnyHiddenSubtreePath(rule, path) ==
    /\ IsUnderVisibleRoot(path)
    /\ \/ MatchesRelativeHiddenPathList(rule, path.rel, FALSE)
       \/ /\ path.rel # <<>>
          /\ path.rel[1] # <<>>
          /\ IsHiddenRootEntryName(rule, path.rel[1], path.root)

IsExactHiddenTargetPath(rule, path) ==
    /\ IsUnderVisibleRoot(path)
    /\ \/ MatchesRelativeHiddenPathList(rule, path.rel, TRUE)
       \/ Len(path.rel) = 1 /\ IsHiddenRootEntryName(rule, path.rel[1], path.root)

IsParentOfExactHiddenTargetPath(rule, path) ==
    IF IsVisibleRootPath(path)
    THEN rule.hiddenRootEntryNames # {} \/ path.root \in rule.hideAll
    ELSE /\ IsUnderVisibleRoot(path)
         /\ CanonicalizeRelativeHiddenPathForMatch(path.rel) \in rule.parents

MatchesCanonicalCandidate(name, canonicalNames) ==
    \E c \in canonicalNames : EqualIgnoringCaseAndIgnorables(name, c)

\* The precheck of ShouldNotCache and of the path table.
MayParticipateInHidePolicy(rules, path) ==
    \/ IsVisibleRootPath(path)
    \/ \E rule \in rules :
          \/ ~IsUnderVisibleRoot(path)
          \/ path.root \in rule.hideAll
          \/ path.rel[1] = <<>>
          \/ MatchesCanonicalCandidate(path.rel[1], rule.entrySet \cup rule.firstComponents)

\* Paths whose inodes are worth a place in the table, by the rule of all packages.
IsProtectedTrackedPath(rules, path) ==
    \E rule \in rules :
        LET rel == CanonicalizeRelativeHiddenPathForMatch(path.rel)
        IN \/ IsAnyHiddenSubtreePath(rule, path)
           \/ IsParentOfExactHiddenTargetPath(rule, path)
           \/ IsVisibleRootPath(path) /\ rule.exact # {}
           \/ /\ IsUnderVisibleRoot(path)
              /\ rel # <<>>
              /\ \E target \in rule.exact : rel \in Prefixes(target)

ComputeHiddenPathClassification(rules, path) ==
    IF IsVisibleRootPath(path) \/ rules = {} THEN "none"
    ELSE IF \E rule \in rules : IsExactHiddenTargetPath(rule, path) THEN "hidden_root"
    ELSE IF \E rule \in rules : IsAnyHiddenSubtreePath(rule, path) THEN "hidden_descendant"
    ELSE "none"
=============================================================================

------------------------- MODULE MCHiddenRequests -------------------------
(* HiddenRequests on small instances: a package with rules of its own and  *)
(* an app without, one name on disk under two spellings, one hidden as a   *)
(* relative path, one visible and one that is hidden and absent.           *)
EXTENDS HiddenRequests

CONSTANTS S, s, z, b, d, v, Emulated, Elsewhere, App, Restrained, Free

Symbols == {S, s, z, b, d, v}
Lower == [c \in Symbols |-> IF c = S THEN s ELSE c]
Packages == [u \in Uid |-> IF u = Restrained THEN {App} ELSE {}]

Nothing == [names |-> {}, paths |-> {}]
Base == [global |-> NoTargets, hiddenPackages |-> {}, packageRules |-> [p \in Package |-> Nothing]]
ByName == [Base EXCEPT !.packageRules = [p \in Package |->
                [names |-> {<<S>>}, paths |-> {<< <<d>> >>}]]]
WholeRoot == [Base EXCEPT !.hiddenPackages = {App},
                !.global = [NoTargets EXCEPT !.hideAll = {Emulated},
                                             !.exemptions = [r \in Root |-> {<<d>>}]]]
Published == <<ByName, WholeRoot>>

Names == {<<S>>, <<s, z>>, <<d>>, <<v>>}
OnDiskFirst == {<<S>>, <<d>>, <<v>>}
DirectoryOrder == << <<S>>, <<d>>, <<v>>, <<s, z>> >>
NonEmptyDirectories == {<<d>>}

-----------------------------------------------------------------------------
(***************************************************************************)
(* The policy's algorithms against what they stand for, over every name of *)
(* at most two symbols and every path of at most two components.           *)
(***************************************************************************)
ShortName == {<<>>} \cup {<<c>> : c \in Symbol} \cup {<<c, e>> : c \in Symbol, e \in Symbol}
Decodable(n) == \A i \in DOMAIN n : n[i] \notin Undecodable
DecodableName == {n \in ShortName : Decodable(n)}
Readable(rel) == \A i \in DOMAIN rel : rel[i] # <<>> => RewriteString(rel[i]) # <<>>
ShortPath == {[root |-> r, rel |-> rel] : r \in {Emulated, Elsewhere},
              rel \in {<<>>} \cup {<<n>> : n \in DecodableName}
                          \cup {<<n, m>> : n \in DecodableName, m \in {<<>>, <<d>>, <<S, z>>}}}

\* The comparison of names is equality of what the rules store.
ASSUME ComparisonIsCanonicalEquality ==
    \A n \in DecodableName, m \in DecodableName :
        EqualIgnoringCaseAndIgnorables(n, m) <=> SameName(n, m)

\* A name is rewritten exactly when it needs to be.
ASSUME SanitizationIsNeeded ==
    \A n \in DecodableName : NeedsSanitization(n) <=> RewriteString(n) # n

\* The prechecks of the hot paths let no hidden path through, and a path
\* that is hidden has a place in the table of inodes.  A component that is
\* nothing but ignorables is excepted: a relative path is matched without it,
\* and the precheck compares it.
ASSUME PrechecksAreSound ==
    \A w \in Version, path \in {p \in ShortPath : Readable(p.rel)} : \A rule \in AnyRule[w] :
        IsAnyHiddenSubtreePath(rule, path) =>
            MayParticipateInHidePolicy(AnyRule[w], path) /\ IsProtectedTrackedPath(AnyRule[w], path)

\* None of the names of the requests is such a component.
ASSUME PrecheckAssumption == PrecheckMissesNothing

\* Classification splits the hidden paths in targets and what lies below them.
ASSUME ClassificationIsExact ==
    \A w \in Version, path \in ShortPath : \A rule \in AnyRule[w] :
        /\ (ComputeHiddenPathClassification({rule}, path) # "none") <=>
               (IsAnyHiddenSubtreePath(rule, path) /\ ~IsVisibleRootPath(path))
        /\ ComputeHiddenPathClassification({rule}, path) = "hidden_descendant" =>
               ~IsExactHiddenTargetPath(rule, path)
=============================================================================

------------------------- MODULE UidRuleCacheProofs -------------------------
(***************************************************************************)
(* UidRuleCache for any number of threads, uids and publications: what the *)
(* generations let through is current, and no call hands out a rule older  *)
(* than itself.                                                            *)
(***************************************************************************)
EXTENDS UidRuleCache, TLAPS

\* Where a call has loaded the generation of the configuration, and of the packages.
HasConfig == {"packages", "shared", "query", "compile", "store", "recheck2"}
HasPackages == {"shared", "query", "compile", "store"}

\* Packages q are as new as the generation g they are tagged with, as far as
\* anybody can tell: today's calls, and those that loaded g.
Fresh(q, g) ==
    /\ g <= packageGeneration
    /\ g = packageGeneration => q >= announced
    /\ \A t \in Thread : call[t].pc \in HasPackages /\ call[t].pg = g => q >= call[t].since.packages

Sound(e) == e \in Entry /\ e.rule.config >= e.cg /\ Fresh(e.rule.packages, e.pg)

\* The store of the rules precedes their generation, and packages are announced
\* after they were installed.
GenerationsInv ==
    /\ config \in Nat /\ configGeneration \in Nat /\ config >= configGeneration
    /\ applying = "stored" => config > configGeneration
    /\ installed \in Nat /\ announced \in Nat /\ installed >= announced
    /\ packageGeneration \in Nat

CacheInv ==
    /\ shared \in [Uid -> SUBSET Entry]
    /\ \A uid \in Uid : \A e \in shared[uid] : Sound(e)
    /\ slot \in [Thread -> SUBSET [uid: Uid, entry: Entry]]
    /\ \A t \in Thread : \A s \in slot[t] : Sound(s.entry) /\ \A r \in slot[t] : r = s

Calling(c) ==
    /\ c.since.config <= configGeneration /\ c.since.packages <= announced
    /\ c.pc \in HasConfig => c.since.config <= c.cg /\ c.cg <= configGeneration
    /\ c.pc \in HasPackages => c.pg <= packageGeneration
    /\ c.pc \in {"compile", "store"} => Fresh(c.rule.packages, c.pg)
    /\ c.pc = "store" => c.rule.config >= c.cg
    /\ c.pc = "resolved" => AtLeast(c.rule, c.since)
    /\ c.pc = "failed" => c.failed
    /\ c.pc = "idle" => AtLeast(c.rule, c.since) \/ (c.failed /\ c.rule = NoRule)

CallsInv ==
    /\ call \in [Thread -> CallState]
    /\ \A t \in Thread : Calling(call[t])

RuleInv == GenerationsInv /\ CacheInv /\ CallsInv

LEMMA IdleIsCall ==
    ASSUME NEW u \in Uid
    PROVE  IdleCall(u) \in CallState /\ IdleCall(u).pc = "idle"
BY DEF IdleCall, CallState, NoRule, Version

LEMMA StartUp == Init => RuleInv
<1> SUFFICES ASSUME Init PROVE RuleInv
  OBVIOUS
<1>1. GenerationsInv
  BY DEF Init, GenerationsInv
<1>2. CacheInv
  BY DEF Init, CacheInv
<1>3. PICK u \in Uid : call = [t \in Thread |-> IdleCall(u)]
  BY DEF Init
<1>4. CallsInv
  <2>1. IdleCall(u) \in CallState
    BY IdleIsCall
  <2>2. Calling(IdleCall(u))
    BY <1>1 DEF Calling, IdleCall, NoRule, AtLeast, GenerationsInv, HasConfig, HasPackages
  <2> HIDE DEF IdleCall
  <2> QED BY <1>3, <2>1, <2>2 DEF CallsInv
<1> QED BY <1>1, <1>2, <1>4 DEF RuleInv

-----------------------------------------------------------------------------
(***************************************************************************)
(* One thread moves.                                                       *)
(***************************************************************************)

\* The thread knows no more of a package generation than it did, or has loaded
\* the one of now.
Aware(c, d) ==
    d.pc \in HasPackages =>
        \/ c.pc \in HasPackages /\ d.pg = c.pg /\ d.since = c.since
        \/ d.pg = packageGeneration /\ d.since.packages <= announced

LEMMA FreshStays ==
    ASSUME RuleInv, NEW t \in Thread, NEW d, call' = [call EXCEPT ![t] = d],
           UNCHANGED packages, Aware(call[t], d), d \in CallState,
           NEW q \in Nat, NEW g \in Nat, Fresh(q, g)
    PROVE  Fresh(q, g)'
<1>1. /\ \A s \in Thread : call'[s] = IF s = t THEN d ELSE call[s]
      /\ announced \in Nat /\ packageGeneration \in Nat
  BY DEF RuleInv, CallsInv, GenerationsInv
<1>2. d.pc \in HasPackages /\ d.pg = g => q >= d.since.packages
  BY <1>1 DEF Fresh, Aware, CallState, Version
<1> QED BY <1>1, <1>2 DEF Fresh, packages

\* A step of a thread keeps the invariant if its new record and whatever it
\* caches are sound.
LEMMA ThreadStep ==
    ASSUME RuleInv, NEW t \in Thread, NEW d \in CallState, call' = [call EXCEPT ![t] = d],
           UNCHANGED <<publication, packages>>, Aware(call[t], d), Calling(d),
           NEW e \in Entry, Sound(e),
           \/ shared' = shared
           \/ \E u \in Uid, new \in {{}, {e}} : shared' = [shared EXCEPT ![u] = new],
           \/ slot' = slot
           \/ \E u \in Uid : slot' = [slot EXCEPT ![t] = {[uid |-> u, entry |-> e]}]
    PROVE  RuleInv'
<1>1. GenerationsInv'
  BY DEF RuleInv, GenerationsInv, publication, packages
<1>2. \A q \in Nat, g \in Nat : Fresh(q, g) => Fresh(q, g)'
  BY FreshStays
<1>3. \A f \in Entry : Sound(f) => Sound(f)'
  BY <1>2 DEF Sound, Entry, Version
<1>4. CacheInv'
  <2>1. shared' \in [Uid -> SUBSET Entry] /\ \A u \in Uid : \A f \in shared'[u] : Sound(f)
    BY DEF RuleInv, CacheInv
  <2>2. /\ slot' \in [Thread -> SUBSET [uid: Uid, entry: Entry]]
        /\ \A s \in Thread : \A r \in slot'[s] : Sound(r.entry) /\ \A p \in slot'[s] : p = r
    BY DEF RuleInv, CacheInv
  <2>3. \A u \in Uid : \A f \in shared'[u] : Sound(f)'
    BY <1>3, <2>1
  <2>4. \A s \in Thread : \A r \in slot'[s] : Sound(r.entry)'
    <3> SUFFICES ASSUME NEW s \in Thread, NEW r \in slot'[s] PROVE Sound(r.entry)'
      OBVIOUS
    <3>1. PICK f \in Entry : f = r.entry /\ Sound(f)
      BY <2>2
    <3>2. r' = r /\ f' = f
      OBVIOUS
    <3> QED BY <1>3, <3>1
  <2> QED BY <2>1, <2>2, <2>3, <2>4 DEF CacheInv
<1>5. CallsInv'
  <2>1. call' \in [Thread -> CallState]
    BY DEF RuleInv, CallsInv
  <2>2. ASSUME NEW s \in Thread PROVE Calling(call[s])'
    <3>1. PICK c \in CallState : c = call'[s] /\ Calling(c)
      BY DEF RuleInv, CallsInv
    <3>2. c.pc \in {"compile", "store"} => Fresh(c.rule.packages, c.pg)'
      BY <1>2, <3>1 DEF Calling, CallState, Version
    <3> QED BY <3>1, <3>2 DEF Calling, AtLeast, publication, packages
  <2> QED BY <2>1, <2>2 DEF CallsInv
<1> QED BY <1>1, <1>4, <1>5 DEF RuleInv

\* A step that caches nothing.
LEMMA QuietStep ==
    ASSUME RuleInv, NEW t \in Thread, NEW d \in CallState, call' = [call EXCEPT ![t] = d],
           UNCHANGED <<publication, packages, slot>>, Aware(call[t], d), Calling(d),
           shared' = shared \/ \E u \in Uid : shared' = [shared EXCEPT ![u] = {}]
    PROVE  RuleInv'
<1> DEFINE e == [cg |-> 0, pg |-> packageGeneration,
                 rule |-> [config |-> 0, packages |-> announced]]
<1>1. /\ e \in Entry /\ e.cg = 0 /\ e.pg = packageGeneration
      /\ e.rule.config = 0 /\ e.rule.packages = announced
  BY DEF RuleInv, GenerationsInv, Entry, Version
<1>2. \A s \in Thread : call[s].since.packages <= announced
  BY DEF RuleInv, CallsInv, Calling
<1>3. announced >= announced /\ packageGeneration <= packageGeneration
  BY DEF RuleInv, GenerationsInv
<1>4. Fresh(announced, packageGeneration)
  BY <1>2, <1>3 DEF Fresh, RuleInv, GenerationsInv, CallsInv, CallState, Version
<1>5. Sound(e)
  <2> HIDE DEF e
  <2> QED BY <1>1, <1>4 DEF Sound
<1> HIDE DEF e
<1> QED BY <1>1, <1>5, ThreadStep

\* What is known of the record of a thread.
LEMMA OneCall ==
    ASSUME RuleInv, NEW t \in Thread
    PROVE  /\ call[t] \in CallState /\ Calling(call[t])
           /\ config \in Nat /\ configGeneration \in Nat /\ installed \in Nat
           /\ announced \in Nat /\ packageGeneration \in Nat
           /\ configGeneration <= config /\ announced <= installed
BY DEF RuleInv, GenerationsInv, CallsInv

LEMMA ReturnIsCall ==
    ASSUME NEW t \in Thread, call[t] \in CallState, NEW r \in Version
    PROVE  /\ Return(t, r) \in CallState
           /\ Return(t, r).pc = "idle" /\ Return(t, r).rule = r
           /\ Return(t, r).since = call[t].since /\ Return(t, r).failed = call[t].failed
BY DEF Return, IdleCall, CallState, NoRule, Version

\* A call may return a rule no older than itself.
LEMMA ReturnStep ==
    ASSUME RuleInv, NEW t \in Thread, NEW r \in Version,
           call' = [call EXCEPT ![t] = Return(t, r)],
           UNCHANGED <<publication, packages, shared, slot>>,
           AtLeast(r, call[t].since) \/ (call[t].failed /\ r = NoRule)
    PROVE  RuleInv'
<1> DEFINE d == Return(t, r)
<1>1. call[t] \in CallState /\ Calling(call[t])
  BY OneCall
<1>2. /\ d \in CallState /\ d.pc = "idle" /\ d.rule = r
      /\ d.since = call[t].since /\ d.failed = call[t].failed
  BY <1>1, ReturnIsCall
<1> HIDE DEF d
<1>3. Aware(call[t], d) /\ Calling(d)
  BY <1>1, <1>2 DEF Aware, Calling, HasPackages, HasConfig
<1>4. call' = [call EXCEPT ![t] = d]
  BY DEF d
<1> QED BY <1>2, <1>3, <1>4, QuietStep

\* A thread moves on without an answer yet.
LEMMA MoveStep ==
    ASSUME RuleInv, NEW t \in Thread, NEW pc \in {"recheck", "query"},
           call' = [call EXCEPT ![t] = At(t, pc)],
           UNCHANGED <<publication, packages, slot>>,
           shared' = shared \/ \E u \in Uid : shared' = [shared EXCEPT ![u] = {}],
           pc = "query" => call[t].pc = "shared"
    PROVE  RuleInv'
<1> DEFINE d == At(t, pc)
<1>1. call[t] \in CallState /\ Calling(call[t])
  BY OneCall
<1>2. d \in CallState /\ d = [call[t] EXCEPT !.pc = pc]
  BY <1>1 DEF At, CallState
<1> HIDE DEF d
<1>3. Aware(call[t], d) /\ Calling(d)
  BY <1>1, <1>2 DEF Aware, Calling, HasPackages, HasConfig, CallState
<1>4. call' = [call EXCEPT ![t] = d]
  BY DEF d
<1> QED BY <1>2, <1>3, <1>4, QuietStep

LEMMA CallKeeps ==
    ASSUME RuleInv, NEW t \in Thread, Call(t) PROVE RuleInv'
<1>1. PICK uid \in Uid, borrow \in BOOLEAN :
         Step(t, "idle", [IdleCall(uid) EXCEPT !.pc = "config", !.borrow = borrow, !.since = Now])
  BY DEF Call
<1> DEFINE d == [IdleCall(uid) EXCEPT !.pc = "config", !.borrow = borrow, !.since = Now]
<1>2. d \in CallState /\ d.pc = "config" /\ d.since = Now
  BY OneCall DEF IdleCall, CallState, Version, Now, NoRule
<1> HIDE DEF d
<1>3. call' = [call EXCEPT ![t] = d]
  BY <1>1 DEF Step, d
<1>4. Aware(call[t], d) /\ Calling(d)
  BY <1>2, OneCall DEF Aware, Calling, HasPackages, HasConfig, Now
<1> QED BY <1>2, <1>3, <1>4, QuietStep DEF Call

LEMMA LoadConfigGenerationKeeps ==
    ASSUME RuleInv, NEW t \in Thread, LoadConfigGeneration(t) PROVE RuleInv'
<1> DEFINE d == [At(t, "packages") EXCEPT !.cg = configGeneration]
<1>1. call[t] \in CallState /\ Calling(call[t]) /\ configGeneration \in Nat
  BY OneCall
<1>2. /\ d \in CallState /\ d.pc = "packages" /\ d.cg = configGeneration
      /\ d.since = call[t].since
  BY <1>1 DEF At, CallState
<1> HIDE DEF d
<1>3. call' = [call EXCEPT ![t] = d]
  BY DEF LoadConfigGeneration, Step, d
<1>4. Aware(call[t], d) /\ Calling(d)
  BY <1>1, <1>2 DEF Aware, Calling, HasPackages, HasConfig
<1> QED BY <1>2, <1>3, <1>4, QuietStep DEF LoadConfigGeneration

LEMMA RecheckConfigGenerationKeeps ==
    ASSUME RuleInv, NEW t \in Thread, RecheckConfigGeneration(t) PROVE RuleInv'
<1> DEFINE d == [At(t, "recheck2") EXCEPT !.cg = configGeneration]
<1>1. call[t] \in CallState /\ Calling(call[t]) /\ configGeneration \in Nat
  BY OneCall
<1>2. /\ d \in CallState /\ d.pc = "recheck2" /\ d.cg = configGeneration
      /\ d.since = call[t].since
  BY <1>1 DEF At, CallState
<1> HIDE DEF d
<1>3. call' = [call EXCEPT ![t] = d]
  BY DEF RecheckConfigGeneration, Step, d
<1>4. Aware(call[t], d) /\ Calling(d)
  BY <1>1, <1>2 DEF Aware, Calling, HasPackages, HasConfig
<1> QED BY <1>2, <1>3, <1>4, QuietStep DEF RecheckConfigGeneration

\* A slot whose generations match holds a rule the caller may have.
LEMMA MatchingSlot ==
    ASSUME RuleInv, NEW t \in Thread, call[t].pc \in {"packages", "recheck2"},
           SlotMatches(t, call[t].cg, packageGeneration)
    PROVE  SlotRule(t) \in Version /\ AtLeast(SlotRule(t), call[t].since)
<1>1. call[t] \in CallState /\ Calling(call[t])
  BY OneCall
<1>2. PICK s \in slot[t] : s.entry.cg = call[t].cg /\ s.entry.pg = packageGeneration
  BY DEF SlotMatches
<1>3. Sound(s.entry) /\ \A r \in slot[t] : r = s
  BY DEF RuleInv, CacheInv
<1>4. SlotRule(t) = s.entry.rule
  BY <1>3 DEF SlotRule
<1>5. /\ s.entry.rule \in Version /\ s.entry.rule.config >= call[t].cg
      /\ s.entry.rule.packages >= announced
  BY <1>2, <1>3, OneCall DEF Sound, Fresh, Entry
<1>6. call[t].since.config <= call[t].cg /\ call[t].since.packages <= announced
  BY <1>1 DEF Calling, HasConfig
<1> QED BY <1>1, <1>4, <1>5, <1>6, OneCall DEF AtLeast, Version, CallState

LEMMA LoadPackageGenerationKeeps ==
    ASSUME RuleInv, NEW t \in Thread, LoadPackageGeneration(t) PROVE RuleInv'
<1>1. call[t] \in CallState /\ Calling(call[t]) /\ call[t].pc = "packages"
  BY OneCall DEF LoadPackageGeneration, Step
<1>2. CASE SlotMatches(t, call[t].cg, packageGeneration)
  <2>1. call' = [call EXCEPT ![t] = Return(t, SlotRule(t))]
    BY <1>2 DEF LoadPackageGeneration, Step
  <2>2. SlotRule(t) \in Version /\ AtLeast(SlotRule(t), call[t].since)
    BY <1>1, <1>2, MatchingSlot
  <2> QED BY <2>1, <2>2, ReturnStep DEF LoadPackageGeneration
<1>3. CASE ~SlotMatches(t, call[t].cg, packageGeneration)
  <2> DEFINE d == [At(t, "shared") EXCEPT !.pg = packageGeneration]
  <2>1. /\ d \in CallState /\ d.pc = "shared" /\ d.pg = packageGeneration
        /\ d.since = call[t].since /\ d.cg = call[t].cg
    BY <1>1, OneCall DEF At, CallState
  <2> HIDE DEF d
  <2>2. call' = [call EXCEPT ![t] = d]
    BY <1>3 DEF LoadPackageGeneration, Step, d
  <2>3. Aware(call[t], d) /\ Calling(d)
    BY <1>1, <2>1, OneCall DEF Aware, Calling, HasPackages, HasConfig
  <2> QED BY <2>1, <2>2, <2>3, QuietStep DEF LoadPackageGeneration
<1> QED BY <1>2, <1>3

LEMMA RecheckPackageGenerationKeeps ==
    ASSUME RuleInv, NEW t \in Thread, RecheckPackageGeneration(t) PROVE RuleInv'
<1>1. call[t] \in CallState /\ Calling(call[t]) /\ call[t].pc = "recheck2"
  BY OneCall DEF RecheckPackageGeneration, Step
<1>2. CASE SlotMatches(t, call[t].cg, packageGeneration)
  <2>1. call' = [call EXCEPT ![t] = Return(t, SlotRule(t))]
    BY <1>2 DEF RecheckPackageGeneration, Step
  <2>2. SlotRule(t) \in Version /\ AtLeast(SlotRule(t), call[t].since)
    BY <1>1, <1>2, MatchingSlot
  <2> QED BY <2>1, <2>2, ReturnStep DEF RecheckPackageGeneration
<1>3. CASE ~SlotMatches(t, call[t].cg, packageGeneration)
  <2> DEFINE d == At(t, "config")
  <2>1. d \in CallState /\ d.pc = "config" /\ d.since = call[t].since
    BY <1>1 DEF At, CallState
  <2> HIDE DEF d
  <2>2. call' = [call EXCEPT ![t] = d]
    BY <1>3 DEF RecheckPackageGeneration, Step, d
  <2>3. Aware(call[t], d) /\ Calling(d)
    BY <1>1, <2>1 DEF Aware, Calling, HasPackages, HasConfig
  <2> QED BY <2>1, <2>2, <2>3, QuietStep DEF RecheckPackageGeneration
<1> QED BY <1>2, <1>3

LEMMA FailedKeeps ==
    ASSUME RuleInv, NEW t \in Thread, Failed(t) PROVE RuleInv'
<1>1. Calling(call[t]) /\ call[t].pc = "failed"
  BY OneCall DEF Failed, Step
<1>2. CASE call[t].borrow /\ \E s \in slot[t] : s.uid = call[t].uid
  BY <1>2, MoveStep DEF Failed, Step
<1>3. CASE ~(call[t].borrow /\ \E s \in slot[t] : s.uid = call[t].uid)
  <2>1. call' = [call EXCEPT ![t] = Return(t, NoRule)]
    BY <1>3 DEF Failed, Step
  <2>2. NoRule \in Version /\ call[t].failed
    BY <1>1 DEF NoRule, Version, Calling
  <2> QED BY <2>1, <2>2, ReturnStep DEF Failed
<1> QED BY <1>2, <1>3

LEMMA ResolvedKeeps ==
    ASSUME RuleInv, NEW t \in Thread, Resolved(t) PROVE RuleInv'
<1>1. Calling(call[t]) /\ call[t].pc = "resolved" /\ call[t].rule \in Version
  BY OneCall DEF Resolved, Step, CallState
<1>2. CASE call[t].borrow
  BY <1>2, MoveStep DEF Resolved, Step
<1>3. CASE ~call[t].borrow
  <2>1. call' = [call EXCEPT ![t] = Return(t, call[t].rule)]
    BY <1>3 DEF Resolved, Step
  <2>2. AtLeast(call[t].rule, call[t].since)
    BY <1>1 DEF Calling
  <2> QED BY <1>1, <2>1, <2>2, ReturnStep DEF Resolved
<1> QED BY <1>2, <1>3

LEMMA QueryPackageManagerKeeps ==
    ASSUME RuleInv, NEW t \in Thread, QueryPackageManager(t) PROVE RuleInv'
<1>1. call[t] \in CallState /\ Calling(call[t]) /\ call[t].pc = "query"
  BY OneCall DEF QueryPackageManager, Step
<1>2. CASE Step(t, "query", [At(t, "compile") EXCEPT !.rule.packages = installed])
  <2> DEFINE d == [At(t, "compile") EXCEPT !.rule.packages = installed]
  <2>1. /\ d \in CallState /\ d.pc = "compile" /\ d.since = call[t].since
        /\ d.cg = call[t].cg /\ d.pg = call[t].pg /\ d.rule.packages = installed
    BY <1>1, OneCall DEF At, CallState, Version
  <2> HIDE DEF d
  <2>2. call' = [call EXCEPT ![t] = d]
    BY <1>2 DEF Step, d
  <2>3. \A s \in Thread : call[s].since.packages <= installed
    <3> SUFFICES ASSUME NEW s \in Thread PROVE call[s].since.packages <= installed
      OBVIOUS
    <3> QED BY OneCall DEF Calling, CallState, Version
  <2>4. Fresh(installed, call[t].pg)
    BY <1>1, <2>3, OneCall DEF Fresh, Calling, HasPackages, CallState, Version
  <2>5. Aware(call[t], d) /\ Calling(d)
    BY <1>1, <2>1, <2>4 DEF Aware, Calling, HasPackages, HasConfig
  <2> QED BY <2>1, <2>2, <2>5, QuietStep DEF QueryPackageManager
<1>3. CASE Step(t, "query", [At(t, "failed") EXCEPT !.rule = NoRule, !.failed = TRUE])
  <2> DEFINE d == [At(t, "failed") EXCEPT !.rule = NoRule, !.failed = TRUE]
  <2>1. d \in CallState /\ d.pc = "failed" /\ d.since = call[t].since /\ d.failed
    BY <1>1 DEF At, CallState, NoRule, Version
  <2> HIDE DEF d
  <2>2. call' = [call EXCEPT ![t] = d]
    BY <1>3 DEF Step, d
  <2>3. Aware(call[t], d) /\ Calling(d)
    BY <1>1, <2>1 DEF Aware, Calling, HasPackages, HasConfig
  <2> QED BY <2>1, <2>2, <2>3, QuietStep DEF QueryPackageManager
<1> QED BY <1>2, <1>3 DEF QueryPackageManager

\* The rules of now are no older than the generation the call has loaded.
LEMMA CompileRuleKeeps ==
    ASSUME RuleInv, NEW t \in Thread, CompileRule(t) PROVE RuleInv'
<1> DEFINE d == [At(t, "store") EXCEPT !.rule.config = config]
<1>1. call[t] \in CallState /\ Calling(call[t]) /\ call[t].pc = "compile"
  BY OneCall DEF CompileRule, Step
<1>2. /\ d \in CallState /\ d.pc = "store" /\ d.since = call[t].since
      /\ d.cg = call[t].cg /\ d.pg = call[t].pg
      /\ d.rule.config = config /\ d.rule.packages = call[t].rule.packages
  BY <1>1, OneCall DEF At, CallState, Version
<1> HIDE DEF d
<1>3. call' = [call EXCEPT ![t] = d]
  BY DEF CompileRule, Step, d
<1>4. call[t].cg <= config
  BY <1>1, OneCall DEF Calling, HasConfig, CallState
<1>5. Aware(call[t], d) /\ Calling(d)
  BY <1>1, <1>2, <1>4, OneCall DEF Aware, Calling, HasPackages, HasConfig, CallState
<1> QED BY <1>2, <1>3, <1>5, QuietStep DEF CompileRule

\* A rule a call has found, under the generations it has loaded.
LEMMA FoundStep ==
    ASSUME RuleInv, NEW t \in Thread, NEW r \in Version,
           call[t].pc \in {"shared", "store"}, Sound(Tagged(t, r)),
           call' = [call EXCEPT ![t] = [At(t, "resolved") EXCEPT !.rule = r]],
           slot' = [slot EXCEPT ![t] = SlotOf(t, r)],
           \/ shared' = shared
           \/ \E u \in Uid : shared' = [shared EXCEPT ![u] = {Tagged(t, r)}],
           UNCHANGED <<publication, packages>>
    PROVE  RuleInv'
<1> DEFINE d == [At(t, "resolved") EXCEPT !.rule = r]
           e == Tagged(t, r)
<1>1. call[t] \in CallState /\ Calling(call[t])
  BY OneCall
<1>2. d \in CallState /\ d.pc = "resolved" /\ d.since = call[t].since /\ d.rule = r
  BY <1>1 DEF At, CallState
<1>3. e \in Entry /\ e.cg = call[t].cg /\ e.pg = call[t].pg /\ e.rule = r
  BY <1>1 DEF Tagged, Entry, CallState
<1>4. Sound(e) /\ slot' = [slot EXCEPT ![t] = {[uid |-> call[t].uid, entry |-> e]}]
  BY DEF SlotOf
<1>5. \/ shared' = shared
      \/ \E u \in Uid, new \in {{}, {e}} : shared' = [shared EXCEPT ![u] = new]
  OBVIOUS
<1> HIDE DEF d, e
<1>6. call' = [call EXCEPT ![t] = d]
  BY DEF d
<1>7. r.config >= call[t].cg /\ r.packages >= call[t].since.packages
  BY <1>1, <1>3, <1>4 DEF Sound, Fresh, HasPackages
<1>8. AtLeast(r, call[t].since)
  BY <1>1, <1>7, OneCall DEF AtLeast, Calling, HasConfig, CallState, Version
<1>9. Aware(call[t], d) /\ Calling(d)
  BY <1>1, <1>2, <1>8 DEF Aware, Calling, HasPackages, HasConfig
<1>10. call[t].uid \in Uid
  BY <1>1 DEF CallState
<1> QED BY <1>2, <1>3, <1>4, <1>5, <1>6, <1>9, <1>10, ThreadStep

LEMMA LookupSharedKeeps ==
    ASSUME RuleInv, NEW t \in Thread, LookupShared(t) PROVE RuleInv'
<1> DEFINE uid == call[t].uid
           hit == {e \in shared[uid] : e.cg = call[t].cg /\ e.pg = call[t].pg}
<1>1. uid \in Uid /\ UNCHANGED <<publication, packages>> /\ call[t].pc = "shared"
  BY OneCall DEF LookupShared, Step, CallState
<1>2. CASE \E e \in hit : /\ Step(t, "shared", [At(t, "resolved") EXCEPT !.rule = e.rule])
                          /\ slot' = [slot EXCEPT ![t] = SlotOf(t, e.rule)]
                          /\ UNCHANGED shared
  <2>1. PICK e \in hit : /\ Step(t, "shared", [At(t, "resolved") EXCEPT !.rule = e.rule])
                         /\ slot' = [slot EXCEPT ![t] = SlotOf(t, e.rule)]
                         /\ UNCHANGED shared
    BY <1>2
  <2>2. Sound(e) /\ e.cg = call[t].cg /\ e.pg = call[t].pg
    BY <1>1, <2>1 DEF RuleInv, CacheInv
  <2>3. e.rule \in Version /\ Tagged(t, e.rule) = e
    BY <2>2 DEF Sound, Entry, Tagged
  <2>4. call' = [call EXCEPT ![t] = [At(t, "resolved") EXCEPT !.rule = e.rule]]
    BY <2>1 DEF Step
  <2> QED BY <1>1, <2>1, <2>2, <2>3, <2>4, FoundStep
<1>3. CASE /\ hit = {} /\ Step(t, "shared", At(t, "query"))
           /\ shared' = [shared EXCEPT ![uid] = {}] /\ UNCHANGED slot
  BY <1>1, <1>3, MoveStep DEF Step
<1> QED BY <1>2, <1>3 DEF LookupShared

LEMMA StoreResolvedKeeps ==
    ASSUME RuleInv, NEW t \in Thread, StoreResolved(t) PROVE RuleInv'
<1> DEFINE r == call[t].rule
<1>1. /\ call[t] \in CallState /\ Calling(call[t]) /\ call[t].pc = "store"
      /\ r \in Version /\ call[t].uid \in Uid
  BY OneCall DEF StoreResolved, Step, CallState
<1>2. call' = [call EXCEPT ![t] = At(t, "resolved")]
  BY DEF StoreResolved, Step
<1>3. At(t, "resolved") = [At(t, "resolved") EXCEPT !.rule = r]
  BY <1>1 DEF At, CallState
<1>4. Sound(Tagged(t, r))
  BY <1>1 DEF Sound, Tagged, Entry, CallState, Calling
<1>5. \/ shared' = shared
      \/ shared' = [shared EXCEPT ![call[t].uid] = {Tagged(t, r)}]
  BY DEF StoreResolved
<1> QED BY <1>1, <1>2, <1>3, <1>4, <1>5, FoundStep DEF StoreResolved

-----------------------------------------------------------------------------
(***************************************************************************)
(* Something is published.                                                 *)
(***************************************************************************)

\* Generations only grow; nothing becomes stale that was fresh; caches are
\* dropped or left alone.
LEMMA PublicationStep ==
    ASSUME RuleInv, GenerationsInv', UNCHANGED <<slot, call>>,
           configGeneration' >= configGeneration, announced' >= announced,
           packageGeneration' >= packageGeneration,
           ASSUME NEW q \in Nat, NEW g \in Nat, Fresh(q, g) PROVE Fresh(q, g)',
           shared' = shared \/ shared' = [uid \in Uid |-> {}]
    PROVE  RuleInv'
<1>1. \A f \in Entry : Sound(f) => Sound(f)'
  BY DEF Sound, Entry, Version
<1>2. CacheInv'
  <2>1. /\ shared' \in [Uid -> SUBSET Entry]
        /\ \A uid \in Uid : \A f \in shared'[uid] : f \in Entry /\ Sound(f)
    BY DEF RuleInv, CacheInv, Sound
  <2>2. \A uid \in Uid : \A f \in shared'[uid] : Sound(f)'
    BY <1>1, <2>1
  <2>3. ASSUME NEW t \in Thread, NEW r \in slot'[t] PROVE Sound(r.entry)'
    <3>1. PICK f \in Entry : f = r.entry /\ Sound(f)
      BY DEF RuleInv, CacheInv, Sound
    <3> QED BY <1>1, <3>1
  <2> QED BY <2>1, <2>2, <2>3 DEF RuleInv, CacheInv
<1>3. CallsInv'
  <2>1. call' \in [Thread -> CallState]
    BY DEF RuleInv, CallsInv
  <2>2. ASSUME NEW t \in Thread PROVE Calling(call[t])'
    <3>1. PICK c \in CallState : c = call'[t] /\ Calling(c)
      BY DEF RuleInv, CallsInv
    <3>2. c.pc \in {"compile", "store"} => Fresh(c.rule.packages, c.pg)'
      BY <3>1 DEF Calling, CallState, Version
    <3>3. /\ c.since.config <= configGeneration' /\ c.since.packages <= announced'
          /\ c.pc \in HasConfig => c.since.config <= c.cg /\ c.cg <= configGeneration'
          /\ c.pc \in HasPackages => c.pg <= packageGeneration'
      BY <3>1 DEF Calling, CallState, Version, RuleInv, GenerationsInv
    <3> QED BY <3>1, <3>2, <3>3 DEF Calling, AtLeast
  <2> QED BY <2>1, <2>2 DEF CallsInv
<1> QED BY <1>2, <1>3 DEF RuleInv

LEMMA ApplyHideConfigKeeps ==
    ASSUME RuleInv, ApplyHideConfig PROVE RuleInv'
<1>1. UNCHANGED <<packages, slot, call>>
  BY DEF ApplyHideConfig, StoreConfig, BumpConfigGeneration, ClearAfterConfig
<1>2. GenerationsInv' /\ configGeneration' >= configGeneration
  BY DEF ApplyHideConfig, StoreConfig, BumpConfigGeneration, ClearAfterConfig,
         RuleInv, GenerationsInv, packages
<1>3. shared' = shared \/ shared' = [uid \in Uid |-> {}]
  BY DEF ApplyHideConfig, StoreConfig, BumpConfigGeneration, ClearAfterConfig
<1>4. ASSUME NEW q \in Nat, NEW g \in Nat, Fresh(q, g) PROVE Fresh(q, g)'
  BY <1>1, <1>4 DEF Fresh, packages
<1>5. announced' >= announced /\ packageGeneration' >= packageGeneration
  BY <1>1, OneCall DEF packages, RuleInv, GenerationsInv
<1> QED BY <1>1, <1>2, <1>3, <1>4, <1>5, PublicationStep

LEMMA PackageSetChangesKeeps ==
    ASSUME RuleInv, PackageSetChanges PROVE RuleInv'
<1>1. GenerationsInv'
  BY DEF PackageSetChanges, RuleInv, GenerationsInv, publication
<1>2. ASSUME NEW q \in Nat, NEW g \in Nat, Fresh(q, g) PROVE Fresh(q, g)'
  BY <1>2 DEF Fresh, PackageSetChanges
<1>3. configGeneration' >= configGeneration /\ announced' >= announced
      /\ packageGeneration' >= packageGeneration
  BY DEF PackageSetChanges, RuleInv, GenerationsInv, publication
<1> QED BY <1>1, <1>2, <1>3, PublicationStep DEF PackageSetChanges

\* No entry carries the new generation yet.
LEMMA NotifyKeeps ==
    ASSUME RuleInv, NotifyUidRulePackageSetChanged PROVE RuleInv'
<1>1. /\ UNCHANGED <<publication, installed, slot, call>>
      /\ shared' = shared \/ shared' = [uid \in Uid |-> {}]
      /\ \/ packageGeneration' = packageGeneration + 1 /\ announced' = installed
         \/ UNCHANGED <<packageGeneration, announced>>
  BY DEF NotifyUidRulePackageSetChanged, BumpPackageGeneration, ClearAfterPackages
<1>2. GenerationsInv'
  BY <1>1 DEF RuleInv, GenerationsInv, publication
<1>3. ASSUME NEW q \in Nat, NEW g \in Nat, Fresh(q, g) PROVE Fresh(q, g)'
  BY <1>1, <1>3 DEF Fresh, RuleInv, GenerationsInv
<1>4. configGeneration' >= configGeneration /\ announced' >= announced
      /\ packageGeneration' >= packageGeneration
  BY <1>1 DEF RuleInv, GenerationsInv, publication
<1> QED BY <1>1, <1>2, <1>3, <1>4, PublicationStep

-----------------------------------------------------------------------------
LEMMA StepKeepsRuleInv == RuleInv /\ [Next]_vars => RuleInv'
<1> SUFFICES ASSUME RuleInv, [Next]_vars PROVE RuleInv'
  OBVIOUS
<1>1. CASE UNCHANGED vars
  BY <1>1 DEF vars, publication, packages, RuleInv, GenerationsInv, CacheInv, CallsInv,
              Calling, Sound, Fresh
<1>2. CASE ApplyHideConfig
  BY <1>2, ApplyHideConfigKeeps
<1>3. CASE PackageSetChanges
  BY <1>3, PackageSetChangesKeeps
<1>4. CASE NotifyUidRulePackageSetChanged
  BY <1>4, NotifyKeeps
<1>5. ASSUME NEW t \in Thread, Call(t) \/ Continue(t) PROVE RuleInv'
  BY <1>5, CallKeeps, LoadConfigGenerationKeeps, LoadPackageGenerationKeeps,
     LookupSharedKeeps, QueryPackageManagerKeeps, CompileRuleKeeps, StoreResolvedKeeps,
     ResolvedKeeps, FailedKeeps, RecheckConfigGenerationKeeps, RecheckPackageGenerationKeeps
  DEF Continue
<1> QED BY <1>1, <1>2, <1>3, <1>4, <1>5 DEF Next

LEMMA RuleInvHolds == Spec => []RuleInv
BY StartUp, StepKeepsRuleInv, PTL DEF Spec

\* Whatever either cache holds, an entry the generations of now let through was
\* made from the rules and the packages they announce, or later ones
\* (ResolveHideRuleForUid stores before it compares, ApplyHideConfig stores
\* before it announces).
THEOREM CurrentIsCurrent == Spec => []CurrentEntriesAreCurrent
<1>1. RuleInv => CurrentEntriesAreCurrent
  <2> SUFFICES ASSUME RuleInv, NEW e \in Cached
               PROVE  /\ e.rule.config >= e.cg
                      /\ e.pg = packageGeneration => e.rule.packages >= announced
    BY DEF CurrentEntriesAreCurrent
  <2>1. CASE \E uid \in Uid : e \in shared[uid]
    <3>1. Sound(e)
      BY <2>1 DEF RuleInv, CacheInv
    <3> QED BY <3>1 DEF Sound, Fresh
  <2>2. CASE \E t \in Thread : \E s \in slot[t] : e = s.entry
    <3>1. Sound(e)
      BY <2>2 DEF RuleInv, CacheInv
    <3> QED BY <3>1 DEF Sound, Fresh
  <2> QED BY <2>1, <2>2 DEF Cached
<1> QED BY <1>1, RuleInvHolds, PTL

\* A call of ResolveHideRuleForUid or BorrowHideRuleForUid hands out no rule
\* older than what was published and announced when it was made, and none at
\* all only after PackageManager failed it.
THEOREM RulesAreFresh == Spec => []RuleIsFresh
<1>1. RuleInv => RuleIsFresh
  BY DEF RuleInv, CallsInv, Calling, RuleIsFresh
<1> QED BY <1>1, RuleInvHolds, PTL
=============================================================================

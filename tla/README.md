# FuseHide: TLA+ models, checks and proofs

FuseHide runs inside Android's MediaProvider. It hooks `libfuse_jni.so` so that chosen apps
do not see chosen files, and it tells the kernel to forget what it has cached whenever the
rules change. This directory models what hides a file (the policy and the requests that apply
it) and the parts whose correctness depends on the order in which threads, callbacks and
messages meet. Every definition is translated from the code
that `PROJECT.json` names for it ("map").

Paths below are relative to `src/app/src/main/`: `core/…`, `hooks/…` and `fusehide.cpp` are
under `cpp/fusehide/`, `config/…` and `xposed/…` under
`java/io/github/xiaotong6666/fusehide/`.

## 1. Inventory

| component | state | operations | hard because |
|---|---|---|---|
| Invalidation scheduler (`core/runtime_state.cpp` 187–626, 780–922, 1145–1385; `core/invalidation_admission.hpp`) | `InvalidationQueue`: `queued`, `running`, two overflow tables, session registry, epoch and `InvalidationBatchCounters` | `QueueInvalidation`, `InvalidationWorker`, `BeginHideInvalidationBatch`, `WaitForHideInvalidation`, `RegisterSession`, `RetireFuseSession`, `FinishFuseSessionDestroy`, `ResolveUnknownPrimaryRootNodes` | worker notifies without the mutex, session addresses are reused, four waits share a condition variable, tables are bounded |
| Configuration publication (`fusehide.cpp` 254–377, 647–665) | the rules, their generation | `ApplyHideConfig`, `InvalidateTrackedHideTargetsForCurrentConfig`, `NotifyUidRulePackageSetChanged` | reload threads and package broadcasts at once; FUSE threads fill the kernel cache meanwhile |
| Per-session tracking (`core/runtime_state.cpp` 168–186, 829–910, 925–968, 1243–1275, 1387–1462, 1763–1969) | inode/path maps, deferred inodes and entries, `rootRefreshNeeded` | `Schedule…Invalidation`, `RememberTrackedPathForInode`, `RememberRootParentInode`, `RegisterSessionRootPath`, `ResolveUnknownPrimaryRootNodes` | two mutexes held one after the other; the node tree is asked between two holds; bounded tables |
| Uid rule cache (`fusehide.cpp` 379–653) | shared table, a slot per thread, two generations | `ResolveHideRuleForUid`, `BorrowHideRuleForUid` | PackageManager is asked outside every lock |
| Root snapshot cache (`hooks/fuse_wrappers.cpp` 521–708, 867–983, 1131–1274, 1839–1896) | cached listings, the parent generation | look-up, read, filter, store; root mutations | read-compute-store beside mutations |
| Native hook adapter (`cpp/zygisk/native_hook_adapter.cpp`; `hooks/hook_install.cpp` 1222–1308, 2409–2434) | slot table, installation flag, hook state of each target | `InstallNativeHookInternal`, `UninstallNativeHook`, `InstallFuseHooks` | every step of a Dobby transaction may fail; two loader callbacks |
| Host binding and callback gate (`jni/jni_entry.cpp`, `native_callback_gate.hpp`) | `NativeModuleInitState`, owner pointers, the gate's word | `native_init`, `native_init_v3`, `PostNativeInit`, `TryEnter`, `Exit`, `CloseAdmission`, `FinishDrain` | LSPosed and Zygisk may both bind |
| Configuration exchange (`config/HideConfigStore.kt`, `config/HideConfigProvider.kt`, `config/HideConfigRequestReceiver.kt`, `xposed/Entry.java`, `ui/app/MainActivity.kt`) | preferences and token, the injected process's snapshot, `configLoad*` flags | save, reload broadcast, provider call, fallback request and its timeout, start-up load and its retries | two processes, a thread per broadcast, crashes, late answers |
| Loader monitor and arbitration (`cpp/zygisk/dlopen_monitor.cpp`, `module.cpp`, `lsposed_scope*.cpp`; `jni/jni_entry.cpp` 190–330) | initialisation state, loader entries, observer, answer about LSPosed's scope, start of the injected dex | `preAppSpecialize`, `postAppSpecialize`, `InstallDlopenMonitor`, the two loader hooks, `FuseJniObserver`, `InitFuseHideOnFuseLoaded`, `JNI_OnLoad` | loader threads, observer and a second framework race to start one runtime; a failure is final or not depending on where it happens |
| Path and Unicode policy (`policy/`, rule compiler of `fusehide.cpp`, prechecks of `core/runtime_state.cpp`) | compiled rules | matching of root entries, paths and subtrees, comparison and sanitization of names, prechecks | several algorithms must agree: one compares, one canonicalizes, one only looks whether it is worth it |
| Requests (`hooks/fuse_wrappers.cpp`, `filters/`, `core/runtime_state.cpp` 1530–1760) | per-thread request state, the classification cache, pending rewrites of a uid, stream continuation; the kernel's shared dentries | LOOKUP, GETATTR, MKDIR, RMDIR, READDIRPLUS | the kernel shares a dentry between uids; rules change between a handler and its reply; a cache is filled outside its lock |
| Target resolution, ELF reader, UI, build | – | – | data, I/O, or no protocol |

How they meet:

- A save in the app (`MainActivity`) sends a broadcast; `Entry.configReceiver` reads the
  configuration from the app and calls into the library, which is **ApplyHideConfig**.
- `ApplyHideConfig`, under its mutex, stores the rules, moves the generation that both
  **caches** compare, opens an epoch of the **scheduler** and schedules an invalidation for
  every target it finds through the **tracking** state. Then the reload thread waits for the
  epoch, and its success is what the user is shown.
- FUSE threads resolve a **uid rule**, ask the **policy** about a path through the
  **classification cache**, rewrite the answer of a **request** or a page of a listing, list the
  root through the **snapshot cache**, teach the **tracking** state what they see and schedule
  invalidations of their own.
- All of it runs only after the **loader monitor**, or LSPosed, has brought the library in, a
  **host** has bound it and the **hook adapter** has put the hooks in place.

What makes each of them correct:

- Scheduler: nobody uses a freed session; a batch is complete only when its tasks
  are done; a request folded into a running one is not lost; everybody who waits is woken.
- Publication: an acknowledged configuration has left nothing stale in the kernel.
- Tracking: a request whose path is unknown is kept until it is known.
- Caches: what is served is as new as the request; what was overtaken does not stay.
- Adapter: a replacement that runs can call its original; no ticket of Dobby is forgotten.
- Host: the hook pointers in use belong to one host; the gate's count is exact.
- Loader: the runtime starts once, the loader never loses its original, one framework serves
  the process where that can be known, a library that was loaded is handled.
- Policy: what compares, what canonicalizes and what prechecks agree.
- Requests: an absent and a hidden name answer alike, a visible one answers truly, and the
  kernel is left no shared dentry of a hidden name.
- Exchange: a reload applies the configuration it was sent for, is answered once, and ends.

## 2. Modules

```
InvalidationAdmission ── InvalidationScheduler ── ConfigPublication ──implements── KernelCachePromise
                                                        └─ InvalidationSchedulerProofs
QueueWakeups ── QueueWakeupsProofs        (the condition variable of the same queue)
NativeHost ── LoaderMonitor ──implements── NativeHost
                   └─ LoaderMonitorProofs
HideUnicode ── HidePolicy ── HiddenRequests ──┐
                                 ConfigSync ──┴─ HiddenRequestsProofs
SessionTracking ── SessionTrackingProofs        UidRuleCache ── UidRuleCacheProofs
RootSnapshotCache ── RootSnapshotCacheProofs    NativeHookAdapter ── NativeHookAdapterProofs
```

A module of proofs holds the theorems of everything above it in this picture.
Modules whose names begin with `MC` only give an instance its orderings, owners and symmetry.
Operators commented "Defect:" are deliberately wrong variants of the definition after them;
no next-state relation uses them. Each property is paired with one that breaks it.

**InvalidationAdmission** – `DecideInvalidationAdmission`, `CanEvictInodeIntoCompensation` and
`InvalidationBatchCounters` as operators without state.

**InvalidationScheduler** – the queue. A hold of the queue mutex is one step:
`QueueInvalidation` with all its outcomes (duplicate, absorbed root, admitted, evicting,
compensated, swept, rejected, waiting for room); `Take` and `CompleteTask` around the
notification, which runs unlocked; `Retire`, `Drained` and `FinishFuseSessionDestroy` around
the original `fuse_session_destroy`; `BeginProbes`/`EndProbe` for readers of a node tree. A
session is its address and a generation, so that an address can return. Time is left out:
due times and deadlines are a choice of "now or later", and a queued task is taken in any
order among those that may be due.

**ConfigPublication** – extends the scheduler by reload threads (`BeginApply` … `Acknowledge`),
a package watcher, and `stale`: what the kernel still holds from before the last publication.
Publishing makes every target of every live session stale; a successful notification that
started after it makes its object forgotten (`fresh`: the one under way when the rules change
may have come too early); the original destroy takes a session's cache with it. `overlap` is
history: a publication or package change began while another was at work.

**KernelCachePromise** – what publication promises, without queue or epochs: what is stale grows
when a configuration is published, is forgotten piece by piece, and an acknowledgement comes
only when none is left. `ConfigPublication!PromiseKept` is the refinement, through the mapping
`ServedStale`.

**QueueWakeups** – the same queue seen from its one condition variable: who sleeps, who has been
signalled, and which step notifies one or all. The data is reduced to what the four
conditions read. It is apart from InvalidationScheduler because there a waiting step is
simply enabled when its condition holds; here it must be woken.

**SessionTracking** – one session's maps and deferred work, with each hold of its mutex a step
and each later `QueueInvalidation` another, and the three looks of `WaitForHideInvalidation`.
`ResolveUnknownPrimaryRootNodes` is three steps: `BeginProbe` chooses the session in one hold,
`LookUpRootNode` asks the node tree without the mutex, `SkipAbsentRoot` or `LearnRootNode` uses
the answer in a later hold, whatever happened in between. Three histories serve the properties:
`owed` (a root without a node is owed nothing, since the kernel has nothing of it), `crossed` (the
root request came behind the look-up of a probe that found no node) and `refused`. A path is
seen only after the root's node exists (`instantiated`).

**UidRuleCache**, **RootSnapshotCache** – the two read-compute-store caches with their
generations; a step is a lock hold or an atomic access.

**NativeHookAdapter** – slots, transactions and the installation flag. `strict` chooses at the
start between the publisher of `native_init_v3` and the older one.

**NativeHost** – binding and the packed word of the gate (`state` and `count` change together).

**LoaderMonitor** – extends NativeHost by everything that happens before a host binds. A *device*
(architecture, framework, LSPosed's flag and scope) is chosen at the start; then the main thread
specializes the process, preloads the runtime and hooks the loader's entries; `Watch` is the
observer of Zygisk and `WatchXposed` that of LSPosed on x86_64; `ClaimInit` … `Reported` is
`InitFuseHideOnFuseLoaded` on any thread, with each call into the library a step of NativeHost.
Failures are choices: the scope query, the dex files, `JNI_OnLoad`, a thread's JNIEnv, each
step of a Dobby transaction. `StartupImplementsHost` shows that the composition refines the
host it extends.

**HideUnicode** – the comparison and sanitization of names over symbols: case folding and the set
of ignorables are constants, an undecodable byte is a symbol of its own.

**HidePolicy** – rules compiled from a configuration, for one package or for any, and what they
hide: root entries, paths, subtrees, with hide-all and its exemptions; the prechecks
(`MayParticipateInHidePolicy`, `IsProtectedTrackedPath`) and the named targets. A path is its
root and its components.

**HiddenRequests** – extends HidePolicy by requests on children of the root. A request is a record
with its place in the handler (`pc`), what the hooks noted for the reply (`hide`, `uncached`),
its classification, its answer and, as history, what the lower file system said (`truth`) and
whether the rules stood still (`steady`). `LookForClass`, `ComputeClass` and `StoreClass` are the
two holds of the classification cache and what lies between; `StoreRules` …
`RequestSweep` is the order in which `ApplyHideConfig` publishes; `BeginSweep` …
`NotifyInvalEntry` is the root's invalidation as the scheduler carries it out. A listing walks the directory in its
`Order`: `offset` is its place there, `entries` what was there when it was opened, a page the
next of them. The kernel is
external: positive dentries that spare the next look-up whatever its uid, a directory lock that
look-ups and listings share and creations, removals and invalidations take alone.
A borrowed rule is of any version in `generation..published`, which is what `RuleIsFresh` of
UidRuleCache guarantees (`UidRuleCacheProofs`) and no more. `outlived` is history: spellings cached before a
publication that are neither on disk nor configured (section 6).

**ConfigSync** – app and MediaProvider: preferences, broadcasts, jobs (one per token, one for
the start-up load), the reply of a request, the main thread as a token that one job holds.
Configuration *n* and its token are both *n*, which `saveAndReloadHideConfig` makes true;
reading them is two steps where the code reads them with two calls.

## 3. Runs

Twelve runs; each names the question it answers. "States" are distinct states.

| run | states | question |
|---|---|---|
| `Scheduler` | 751 k | Do the batch counters and the lifetime of sessions hold under eviction, compensation, sweeps, replay and retirement? |
| `SchedulerLiveness` | 130 k | With two publishers in back-pressure, also for one inode: does every destroy end, are the tasks of every batch finished, is none forgotten by the count? |
| `Publication` | 1.05 M | Two reload threads and a package change: does each schedule under its own epoch, and is an acknowledgement that met no other true? Refinement of KernelCachePromise. |
| `UidRules` | 3.4 M | Two FUSE threads, two configurations, two package sets, a PackageManager that may fail: is a rule ever older than the call that gets it? |
| `RootSnapshot` | 1.0 M | Two readers, a mutator, a new configuration: what is guaranteed of a listing that was not overtaken? |
| `RootSnapshotMutation` | violation | …and of one that was (section 6). |
| `Tracking` | 2.1 M | Is a request ever lost between look-up, deferral, probe and queue, and what does a successful wait leave? |
| `Startup` | 136 k | Zygisk or LSPosed, on both architectures: does the runtime start once, the loader keep its originals, one backend serve the process, the gate count exactly, a binding stay one host's, and is a loaded library handled? |
| `Hook` | 14 k | What holds when each step of a transaction may fail? |
| `Sync` | 433 k | Does a reload apply its own configuration, answer once, end; does the start-up load settle? |
| `Wakeups` | 62 k | Does anybody sleep beside a true condition; is a worker that missed its signal woken? |
| `Requests` | 2.4 M | While a second configuration is published and swept: does a hidden name answer like an absent one, a visible one truly, a listing show all that is visible and nothing else, and the kernel keep no shared dentry of a hidden name? |

Bounds, and why they are enough:

- `Scheduler`: one address used twice (`MaxGeneration = 2`) is a session that dies and a new one
  at its place; two epochs are a batch and the one that supersedes it; two inodes, two entries
  in two directories and a queue of two with one critical slot reach every answer of
  `DecideInvalidationAdmission`, and the overflow tables of one reach their limits. Two FUSE
  requests are enough to fill what the publisher has left. A single publisher: two leak the
  count (section 6, item 3), so that the runs with two check the weaker `OutstandingCoversTasks`.
- `SchedulerLiveness`: two publishers, a queue of one and a compensation
  table of two. Two is the least limit at which both publishers can be given a place for the same
  inode before the worker takes the first of them, hence the case behind
  `core/runtime_state.cpp:590` is reached: `OutstandingIsNotLeaked` is violated with these
  constants (section 6, item 3). With it `outstanding` may stay above zero for ever, and `CountedTasksDrain` speaks of the
  tasks; for one publisher `OutstandingIsExactAlone` makes that the same. No FUSE requests. `InvalidationWorker` takes what is due before it looks
  at the overflow tables, so a stream of requests that never pauses keeps compensation waiting;
  the comment at `core/runtime_state.cpp:418` accepts that. What is shown is that publishers,
  destroys and the worker do not block each other.
- `Publication`: one session with a root and one inode, two epochs, one package change. A queue
  of two makes back-pressure happen.
- `UidRules`: one uid is enough since slots and table entries of others are never read;
  generations to 2 let a reader be overtaken twice, once in each direction.
- `RootSnapshot`: two rules, two mutations; the listing is a set of names of which one is hidden
  by one of the rules.
- `Tracking`: the root and one other inode, three paths, a path table of two (full with both)
  and deferred tables of one. `PublicVolume = FALSE`, `HideAll = TRUE`: a private root whose node
  is learned late, the case with the owed refresh. Two threads: while one probes, the other
  instantiates, requests and learns, or both probe.
- `Startup`: the main thread, the observer and one more, both hosts, a counter of two so that its
  limit is met, one thread that fails to get a JNIEnv. A second thread that loads libraries adds
  nothing the main thread does not do too; the proofs take any number.
- `Requests`: one FUSE thread, one listing and the publisher beside each other; a uid whose package
  is restricted and one that is free; two configurations, one that hides by name and by path and
  one that hides all but an exemption. Of the four names two are the same to the policy
  and only one of them is on disk, one is a configured path, one visible. A page of two entries is
  emptied by the second configuration; a cache of one is recycled; a counter of one is full. Each
  of the three workloads mixes the operations that meet in a property, since all at once exceed
  what TLC can explore; `DentriesAreSafe` and the other theorems of `HiddenRequestsProofs` are for
  all operations and any number of threads. One removal is enough to bring a name back under its
  other spelling. `Continues = TRUE` is x86_64; off it an emptied page ends the listing, which
  `whole` keeps out of the property (section 6).
  Beside its invariants the run evaluates the assumptions of `MCHiddenRequests`: over all names of
  at most two symbols and paths of at most two components, comparison is equality of the canonical
  forms, a name is rewritten exactly when it needs to be, the prechecks refuse no hidden path.
- `Hook`: three targets for two slots, so that the table is full.
- `Sync`: two saves, one retry, one death of MediaProvider, one system broadcast. The second save
  overtakes the first; the death may come between any two steps of either.
- `Wakeups`: three tasks of two sessions, one publisher, one wait, two destroys, a reader.

No run spends itself on a type invariant. Those of the scheduler, of publication, tracking, the
snapshot cache, the exchange, the host and the wake-ups are theorems; those of the requests, the
uid rule cache and the adapter are conjuncts of the invariants their theorems rest on.

Symmetry is used for publishers, threads, readers and inodes, and only where no property is a
liveness property and no definition picks one of them.

`CHECK_DEADLOCK FALSE` stands where the instance may stop for its bounds: no generation,
request, save or restart is left. The others return to idle for ever.

## 4. Fairness

- `InvalidationScheduler!FairSpec`: the worker thread loops (`Take`, `CompleteTask`), a reader of
  a node tree returns, a destroy whose condition is true leaves its wait and the original destroy
  returns. Publishers and FUSE requests owe nothing.
- `QueueWakeups!FairSpec`: only `EndProbe`. That is the point of `SleepingWorkerIsWoken`: the
  wake-up comes from the reader alone.
- `ConfigSync!FairSync`: threads run, timers fire, the main thread takes its messages. The app
  need not answer a request, and saves are finite.
- `LoaderMonitor!StartupFairness`: threads that run go on and the observers keep looking (both loop
  with a sleep), and the main thread finishes specialization. Nobody has to load a library, no
  host has to call and nothing has to fail.
- `UidRuleCache!FairSpec` belongs to `CallsReturn`, see section 6.

## 5. Proofs

Checked for every value of the constants:

`InvalidationSchedulerProofs`, the scheduler – `SchedulerTyped`, `WorkerUsesOnlyLiveSessions`,
`RootRequestsAreServed`, `OutstandingIsNeverShort`, `AcknowledgementWaitsForTasks`. The inductive
invariant has three layers, each proved from the one below. *Typed*: the queues hold their own
kinds and are finite. *Lifecycle*: a session is retiring exactly while its destroy is under way,
retiring sessions have no root flags, running tasks and readers belong to registered generations;
from it `UsesOnlyLiveSession` and `RootAbsorbedOnlyBehindSweep` follow. *Owing*: no task is of a
future epoch and `CountedTasks <= batch.outstanding`. `CompleteMeansNotified` alone is not
inductive: a step that takes one of two counted tasks needs to know that two are outstanding,
which is `OutstandingCoversTasks`; and that an old task never becomes counted needs the epochs.
`OutstandingIsExactAlone` makes the `<=` an `=` under the hypothesis `OnePublisher`, without which
it is false (section 6, item 3). Its invariant *Exact* adds that a session has one root sweep at
most, that no task is of a generation not handed out, and that no task is counted twice, in one
queue or in two; each admission, eviction, retirement and replay is then an equation between the
cardinalities before and after.

`InvalidationSchedulerProofs`, publication – `PublicationIsTyped`, `PublishersScheduleOwnEpoch`,
`AcknowledgedMeansForgottenAlone` and the refinement `PublicationKeepsPromise`. Every step of the
queue on behalf of publication is one of the scheduler's, so *Scheduled* (the three layers) comes
from the lemmas above. *PublishersApart*: one reload is under the configuration mutex at a time,
only who schedules has a plan, and while nothing overlapped a publisher is alone. The heart is
*StaleIsCarried*: while nothing overlapped, whatever a live session still holds from before is in
the publisher's plan, is the request it is blocked with, is queued or running in the epoch, is in
a root replay that is promised, or the batch has recorded a failure. *RunsFresh* says when a
running notification is too early to count, *GoneHoldNothing* that a destroyed session holds
nothing, *CheckedIsForgotten* what the successful look of the wait leaves. All are conjuncts of
*Promised*. The refinement then needs that an acknowledging step finds nothing stale unless it
was overlapped, that only a publication makes anything stale, and that initial states map to
initial states.

`LoaderMonitorProofs`, the host – `HostTyped`, `GateCountsEntrants`, `ClosedGateIsEmpty`,
`BindingIsWhole`, `CallbackIsHandedOutOnce`. The count equals the cardinality of the threads
inside (*Counted*, for a finite set of threads); at most one thread is in the section that stores
a binding (*OneBinder*); what that thread has stored so far is its host's (*Stored*); and the
callback is handed out by it alone (*Handed*).

`QueueWakeupsProofs` – `WakeupsTyped`, `SleepersHaveReasons`, `MissedWakeupIsOwed`: the type
invariant and the two properties are inductive only together, since a sleeper that was taken
for somebody else's wake-up is found again through the reader that owes one.

`LoaderMonitorProofs`, the start – `StartupImplementsHost` first: every step of the composition is a step of
the host or leaves it alone, so `StartupKeepsGateExact` and `StartupBindsWhole` follow from
the theorems of the host. `LoaderNeverLosesOriginal` needs only that the entry about to be committed has
its original (*LoaderInv*). `RuntimeIsStartedOnce` rests on *OnceInv*: whoever claimed the
initialization is alone with it until it is over, and whoever may still call `JNI_OnLoad` is the
first to, which is what the reset after a failed JNIEnv must not break. `BackendsExclude` adds that
a closed module starts nothing and that an open one has not learned that LSPosed has the process.

`SessionTrackingProofs` – `TrackingTyped`, `MapsAgreeAlways`, `RequestsKept`, `RootRequestKept`,
`AcknowledgedIsSettledOrCarried`. *MapsAgree* adds to `ReverseAgrees` that the root's inode has
the root's path or none, because the one step that overwrites a path relies on it. *Kept*: a
request is queued, deferred, refused, or carried by a thread that will put it into one of these;
the root's may also be owed as a refresh, as long as the path table has room for it (section 6,
item 8) and unless it is `crossed`. A probe that finds no node clears the refresh in a later hold,
so *Kept* rests on *Probing*: a thread that probes carries no task that its return would lose, a
root is owed only if it has a node, and whatever root request is owed while some thread knows the
node to be absent is `crossed`, because nothing was owed when that thread looked
(`ObligationSteps`, `ThreadSteps`). *WaitCovers*: when the wait finds the tracking state complete, what it waits for and
nobody carries is in the queue, and its last look finds that it is there no more.

`RootSnapshotCacheProofs` – `SnapshotTyped`, `ListingsAreCompleteUndisturbed`,
`ListingsObeyTheRuleUndisturbed`. A listing, in a reader's hands or stored, is *Whole* when it has
everything the kernel was told of before the parent generation it carries moved last; a mutator
that has moved the generation but not answered yet counts as having told (*Settled*), since its
listing may be read in between. It is *Lawful* when its filter is no older than the configuration
generation its call began with; *AnnouncedIsStored* keeps the generation one step behind at most.

`NativeHookAdapterProofs` – `ReplacementsReachOriginals`, `TargetsHaveOneSlot`, `TicketsHeld` and the
action property `ReportedWasInstalled`. One thread installs at a time, by the flag (*OneInstaller*),
but any thread may unhook beside it, so the invariant says what each knows at each step of its
transaction about the slot in its hands (*InstallerKnows*, *UnhookerKnows*), that slots and
unhookings do not meet (*SlotsApart*, *UnhooksApart*), and why a published original is
callable (*OriginalsExplained*).

`UidRuleCacheProofs` – `CurrentIsCurrent`, `RulesAreFresh`. An entry is *Sound* when its rules are at
least those of its generation of the configuration and its packages are *Fresh*: as new as what is
announced, if it carries the package generation of now, and as new as what was announced when any
thread began that has loaded that generation. The second half is needed because a thread may hold a
generation that has moved on since, and find an entry that matches it. Packages are asked after the
generation was loaded and rules are stored before theirs moves, which is all the induction uses.

`HiddenRequestsProofs`, the policy – `UidHiddenIsAnyHidden`: what the rule of a uid hides, the rule
for any package hides too, so marks that are made for any uid miss nothing.

`HiddenRequestsProofs`, the requests – `ClassificationsAreFresh`, `HiddenNamesAreAlike`,
`VisibleNamesAreTrue`, `DentriesAreSafe`, `ListingsAreWholeAndClean`. The first three follow from *AnswerInv*: while a publication is under way the
rules are at most one version ahead of the generation; a classification was made with rules at
least as new as the generation under which it is stored, which holds because the second hold
compares the generation again; a request under steady rules for a hidden name never reaches the
lower file system, or is marked before its reply (*Hiding*), and one for a visible name is never
marked (*Showing*); and a rewrite is pending only for a uid that some rules restricted.
`DentriesAreSafe` follows from *SharedInv*: who creates or removes is alone in the directory, and every dentry of a
hidden name, also one that a request or a page is about to make, is owed a notification by
the sweep under way or due (`Owed`), and has a name the sweep can name. That decisions are made
before the lock is released is what carries it over a publication in between. Its hypothesis
`PrecheckMissesNothing` says that the precheck refuses no hidden name; it compares the recursive
comparison of names with the canonical forms, out of the prover's reach, and every run of
`Requests` evaluates it.

`ListingsAreWholeAndClean` follows from *ListingInv*: as long as nothing disturbed the listing, every
visible name at a position the listing has passed was given (*GivenSoFar*), and at the end it
has passed all of them, or a page was empty because nothing was left. That there is a page at
all, and that it ends at the full page or at the directory's end, is `PageEnds`, from
`LeastNumber`: a set of natural numbers that is not empty has a least one.

`HiddenRequestsProofs`, the exchange – `SyncTyped`, `ReloadsApplyOwnConfig`, `AppliedStaysInForce`.
*SyncInv* says that no broadcast, job or status is of a save to come and that each token is in one
of these (*TokensInOrder*), that what a reload has been given fits its token (*BundlesFit*), that jobs that did not overlap were alone (*JobsAlone*), and, once the
last reload has succeeded alone, that every copy of the configuration still about is the latest
or cannot be applied any more (*LatestIsKept*): the start-up load, stored replies and late jobs
are each a way an older one could come back.

Assumptions are those named in the modules (`…Assumption`): finite sets where a cardinality is
taken, positive limits, disjoint threads. Two theorems have a hypothesis of their own,
`OnePublisher` and `PrecheckMissesNothing`, discussed above.

With these every safety invariant and every action property of a passing run is a theorem, and
both refinements are. What is model-checked only: liveness under fairness, which needs ENABLED
(`DestroyTerminates`, `CountedTasksDrain`, `SleepingWorkerIsWoken`, `LoadedIsHandled`, `ReloadsEnd`,
`LoadSettles`), and what the recursive functions of HideUnicode and HidePolicy compute
(the assumptions of `MCHiddenRequests`, among them `PrecheckMissesNothing`), which would need
induction over data.

## 6. Deviations

The first is a run that ends in a violation and is listed as a finding; the others were met while
the models were written and checked. Where a property of the modules shows one, it is named: no run
checks it, put it into the named configuration with the constants given to see the behaviour. What
does hold is stated beside each.

1. *Root listings* (run `RootSnapshotMutation`, `hooks/fuse_wrappers.cpp:635`).
   `MaybeStoreRootSnapshotCache` loads the generations it will compare after the directory was
   read and filtered, so its recheck spans the copy only, not "the expensive directory
   read/filter work" (line 648). A child created in between is missing from a listing that is
   stored as current. The same goes for a new rule.
   Holds: `UndisturbedListingsAreComplete`, `UndisturbedListingsObeyTheRule`.
2. *Overlapping reloads* (`xposed/Entry.java:137`). Each broadcast has a thread
   and the start-up load is one more; a reload that read configuration 1 may apply and store it
   after the reload of save 2 was acknowledged: `InForce` in `Sync.cfg`. Holds:
   `AppliedAloneIsInForce`.
3. *Two publishers, one inode* (`core/runtime_state.cpp:590`). After waiting for room a task is
   placed without another look for a duplicate and counted. Two threads that wait for the same
   inode leave one task and two outstanding, and the batch never completes. The publishers are a
   configuration and a package change, which is not under the configuration mutex.
   `OutstandingIsNotLeaked` in `SchedulerLiveness.cfg`.
   Holds: `OutstandingIsExact` for one publisher; `OutstandingCoversTasks` for any number, so no
   acknowledgement is false for it; `CountedTasksDrain`, so the tasks are carried out.
4. *Epoch read late* (`core/runtime_state.cpp:1295`). The wait takes the epoch that is current when
   it is called; if another reload has just opened one, its batch is still empty, hence
   complete. `AcknowledgedMeansForgotten` with `Publication.cfg`. Holds:
   `AcknowledgedAloneMeansForgotten`.
5. *Package change between epoch and rules* (`core/runtime_state.cpp:503`). A task scheduled by a
   package change under the new epoch, before the rules are stored, makes the publication's own
   request for that inode a duplicate. Same property, with one reloader and one watcher.
6. *A deferred task in hand* (`core/runtime_state.cpp:1953`). Deferred work leaves the tracking state
   under one mutex and enters the queue under another; a wait in between sees neither.
   `AcknowledgedIsSettled` in `Tracking.cfg`. Holds: `AcknowledgedIsSettledOrInHand`.
7. *Two holds* (`core/runtime_state.cpp:1431`). The path is looked up in one hold and the request
   deferred in another: it may be deferred although the path is known by now, until the inode is
   seen again. `DeferredMeansUnknown` in `Tracking.cfg`. Holds: `RequestsAreKept`.
8. *Full path table* (`core/runtime_state.cpp:1936`). The owed root refresh is taken (line 1928)
   before the table is found full, and the return drops it. `RootRequestSurvivesFullTable` in
   `Tracking.cfg`. Holds: `RootRequestIsKept`.
9. *Configuration and token* (`config/HideConfigProvider.kt:41`). They are read by two calls; a save
   in between gives the old configuration under the new token, which the start-up load stores and
   later takes for the current one (`config/HideConfigStore.kt:436`). Holds: `ReloadsOwnConfig`, for the reloads of a broadcast.
10. *Snapshot as completion* (`config/HideConfigStore.kt:466`). The load counts as completed when the
    snapshot was applied, though neither provider nor fallback was heard; retries and system
    broadcasts are then skipped.
11. *Borrower's loop* (`fusehide.cpp:473`). A query that fails leaves the thread's older slot in
    place, and the loop repeats although nothing changed. `CallsReturn`, under `UidRuleCache!FairSpec` and without symmetry, holds for
    `PackageManagerFails = FALSE`.
12. *Spellings a sweep does not name* (`core/runtime_state.cpp:356`). The sweep names the configured
    names and what the directory lists. A dentry under another spelling of a hidden name, cached
    before the rules were published, stays shared until the kernel forgets it. The history
    `outlived` holds exactly those; drop it from `SharedDentriesAreSafe` to see it. The second
    defence is `WrappedLstat`, which refuses the GETATTR whatever the dentry: `HiddenNamesAnswerAlike`.
13. *Rewrites belong to a uid* (`core/runtime_state.cpp:1661`). A restricted uid whose look-up was
    hidden has its next EEXIST or ENOTEMPTY within two seconds rewritten to EPERM, also of a
    visible name and also when new rules have freed the uid, until the publication resets the
    counters. `VisibleNamesAnswerTruly` says just that.
14. *Emptied pages* (`hooks/fuse_wrappers.cpp:1802`). A page from which everything was filtered is
    continued only on x86_64 and only for a uid with hide-all. Elsewhere it is the end of the
    directory to the kernel, and what follows is not listed. `ListingIsWholeAndClean` without `whole`.
15. *Unknown root*. As long as the root's inode and path are not both known, RMDIR of a hidden name that has a
    dentry is not recognized: the property needs `rooted`.
16. *Names of nothing but ignorables* (`core/runtime_state.cpp:680`). A relative path is matched
    without them and the precheck compares them, so that such a component makes the precheck refuse a
    hidden path, although "this filter is only a performance precheck". The assumption
    `PrechecksAreSound` excepts them.
17. *Undecodable bytes* (`policy/unicode_policy.cpp:310`). The comparison takes an undecodable byte
    as it is, the canonical form drops it: two names may differ to one and not to the other.
    `ComparisonIsCanonicalEquality` is stated for decodable names.
18. *A late host* (`jni/jni_entry.cpp:235`). On x86_64 the observer leaves to a host that has begun to
    bind, which may do so after `libfuse_jni.so` was mapped; hooks then wait for that host's report.
    `LoadedIsHandled` claims nothing for it.
19. *Two copies* (`cpp/zygisk/dlopen_monitor.cpp:202`). With an unknown scope, LSPosed may load its copy
    after Zygisk looked: `OneBackend` excepts it by `lookedEarly`.
20. *A part of the dex files* (`cpp/zygisk/dex_loader.cpp:144`). A dex file that cannot be mapped is skipped
    and one is enough; without the one that holds `ZygiskEntry` the native hooks run without a
    configuration exchange.
21. *A probe's old answer* (`core/runtime_state.cpp:884`).
    `ResolveUnknownPrimaryRootNodes` finds no node for the root and clears the owed refresh in a
    later hold that looks at the session's tables only. If the node appears and another
    publication asks for the refresh in between, that request is dropped, though the comment at
    line 881 says "never one with a real child". The wait may then succeed. The window is small:
    `WrappedReplyEntry` teaches the session the root before the kernel has the reply, and from
    then on the later hold finds a root inode and drops nothing. `RealRootIsRefreshed` in `Tracking.cfg`.
    Holds: `RootRequestIsKept` and `AcknowledgedIsSettledOrInHand`, which except such a request.

## 7. Not modelled

- Of the scheduler: time, and which due task is taken first. `x86`'s `RequireSessionRootRefresh`.
- Of publication: which paths change visibility (`core/invalidation_plan.hpp`): the plan is every
  target of the active sessions. A FUSE reply under way while the rules change may fill the
  kernel's cache after the notification; the code reports "not atomic" for it.
- Of tracking: the table of hidden subtrees, which only makes `CanSkipVerifiedEmptyPrimaryRoot`
  fail more often; reuse of an inode number, protected mount targets, hooks whose symbol is missing;
  the public volume (a constant, without a run).
- Of the snapshot cache: several paths and uids; clearing for one session.
- Of the adapter: how targets are found; the entry points between two versions of the loader
  API. `UninstallNativeHook` has no caller in the repository and is modelled as callable.
- Of the loader: the SQL and the socket of the scope query (their answer is a choice), registering
  native methods, a recovered Dobby ticket (`InstallDlopenMonitor` runs once in a process).
- Of the policy: the tables of folding and ignorables, the bytes of UTF-8.
- Of the requests: the other handlers (open, unlink, rename, create, access), which take the same
  helpers; paths below the root's children; the sweeps that replies schedule on their own and the
  marks on inodes, both of which only take more back; failed queries of PackageManager (UidRuleCache
  has them); the root snapshot cache (a module of its own); uid 0 and the fallback to a recently
  seen parent; `ArmHiddenErrorRemap`, the fallback for a
  reply function that was not found; a sweep that fails, which the wait reports (ConfigPublication has
  it), and the children it leaves out because something is mounted on them.
- Target resolution, ABI probes and the ELF reader: data of one image, read once by one thread.
- Of the exchange: the query of the applied configuration, an exception that leaves
  `configLoadInFlight` set, preferences read one by one.
- Vendored code, build scripts, screens: no behaviour of their own. Dobby, the package manager
  and Android's process lifecycle appear as external actions, as the code uses them.

## 8. Plan

Done: all components that have a protocol, and the proofs of section 5. What is left, in this order:

1. Requests: unlink, rename and create with the same record; a path below the root, for
   `IsAnyHiddenSubtreePath` beyond a root's child; two threads in `Requests` with one operation each.
2. The promise of publication extended by the request side: `stale` of ConfigPublication and the
   dentries of HiddenRequests are two views of one kernel cache.
3. Proofs: more of what the policy promises for all rules, as far as it does not need what a
   recursive function computes (exemptions, subtrees); for two publishers, by how much
   `outstanding` may exceed the tasks.

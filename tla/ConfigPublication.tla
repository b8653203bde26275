------------------------- MODULE ConfigPublication -------------------------
(***************************************************************************)
(* The publication of a hide configuration, on top of the scheduler:       *)
(* ApplyHideConfig and the wait for its invalidations (fusehide.cpp and    *)
(* WaitForHideInvalidation) as the reload threads of xposed/Entry.java run *)
(* them, beside NotifyUidRulePackageSetChanged.  Each reload broadcast has *)
(* a thread of its own; only ApplyHideConfig excludes the others.          *)
(*                                                                         *)
(* The kernel is modelled by what it still holds from before the last      *)
(* publication: "stale".                                                   *)
(***************************************************************************)
EXTENDS InvalidationScheduler

CONSTANTS
    Reloader,            \* threads of the configuration receiver
    Watcher,             \* the thread of the package receiver
    MaxPackageChanges    \* bound of the instance

ASSUME PublicationAssumption ==
    /\ Producer = Reloader \cup Watcher
    /\ Reloader \cap Watcher = {}
    /\ MaxPackageChanges \in Nat

VARIABLES
    pc,                  \* where each publisher thread is
    plan,                \* the requests it has still to make
    awaited,             \* awaitedEpoch of a waiting reloader
    packageChanges,
    stale,               \* per session: what the kernel cached under older rules
    fresh,               \* the running notification started after the last publication
    acknowledged,        \* the epoch of the last wait that returned true
    overlap              \* a publication met another at work (history)

local == <<pc, plan, awaited, packageChanges, stale, fresh, acknowledged, overlap>>
allVars == <<vars, local>>

Target == {"root"} \cup Inode
Step == {"idle", "begun", "published", "scheduling", "applied", "waiting", "checking"}

PublicationInit ==
    /\ Init
    /\ pc = [p \in Producer |-> "idle"]
    /\ plan = [p \in Producer |-> {}]
    /\ awaited = [p \in Reloader |-> 0]
    /\ packageChanges = 0
    /\ stale = [se \in Session |-> {}]
    /\ fresh = FALSE
    /\ acknowledged = 0
    /\ overlap = FALSE

Goto(p, from, to) ==
    /\ pc[p] = from
    /\ pc' = [pc EXCEPT ![p] = to]

ActiveSessions == {se \in Session : Registered(se) /\ ~sessions[se].retiring}

\* SnapshotActiveSessions and, per session, its root and its tracked inodes.
PlanOfActiveSessions ==
    {[kind |-> IF obj = "root" THEN "Root" ELSE "Inode",
      token |-> CurrentToken(se), obj |-> obj] : se \in ActiveSessions, obj \in Target}

-----------------------------------------------------------------------------
(***************************************************************************)
(* ApplyHideConfig                                                         *)
(***************************************************************************)
\* applyMutex is held from here until the last request has been made.
Applying(p) == pc[p] \in {"begun", "published", "scheduling"}

MeetsOthers(p) == overlap' = (overlap \/ \E q \in Producer \ {p} : pc[q] # "idle")

\* Defect: a second publication does not wait for the first.
BeginApplyUnlocked(p) ==
    /\ Goto(p, "idle", "begun")
    /\ BeginHideInvalidationBatch
    /\ MeetsOthers(p)
    /\ UNCHANGED <<plan, awaited, packageChanges, stale, fresh, acknowledged>>

BeginApply(p) ==
    /\ \A q \in Reloader : ~Applying(q)
    /\ Goto(p, "idle", "begun")
    /\ BeginHideInvalidationBatch
    /\ MeetsOthers(p)
    /\ UNCHANGED <<plan, awaited, packageChanges, stale, fresh, acknowledged>>

\* The new rules become visible.  Whatever the kernel holds was looked up under
\* older ones, and a notification already under way may have come too early.
PublishConfig(p) ==
    /\ Goto(p, "begun", "published")
    /\ stale' = [se \in Session |->
                   IF Registered(se) /\ destroy[se] # "destroying" THEN Target ELSE {}]
    /\ fresh' = FALSE
    /\ UNCHANGED <<vars, plan, awaited, packageChanges, acknowledged, overlap>>

SnapshotForConfig(p) ==
    /\ Goto(p, "published", "scheduling")
    /\ plan' = [plan EXCEPT ![p] = PlanOfActiveSessions]
    /\ UNCHANGED <<vars, awaited, packageChanges, stale, fresh, acknowledged, overlap>>

\* NotifyUidRulePackageSetChanged opens no batch and takes no mutex.
PackageSetChanged(p) ==
    /\ packageChanges < MaxPackageChanges
    /\ packageChanges' = packageChanges + 1
    /\ Goto(p, "idle", "scheduling")
    /\ plan' = [plan EXCEPT ![p] = PlanOfActiveSessions]
    /\ MeetsOthers(p)
    /\ UNCHANGED <<vars, awaited, stale, fresh, acknowledged>>

\* InvalidateTrackedHideTargetsForCurrentConfig makes one request.
ScheduleOne(p) ==
    /\ pc[p] = "scheduling"
    /\ blocked[p] = {}
    /\ \E r \in plan[p] :
          /\ \/ /\ QueueInvalidation(r.kind, r.token, r.obj, TRUE)
             \/ /\ r.kind = "Inode"
                /\ Backpressured(p, r.token, r.obj)
          /\ plan' = [plan EXCEPT ![p] = @ \ {r}]
    /\ UNCHANGED <<pc, awaited, packageChanges, stale, fresh, acknowledged, overlap>>

LeaveBackpressure(p) ==
    /\ Admit(p) \/ GiveUp(p)
    /\ UNCHANGED local

DoneScheduling(p) ==
    /\ plan[p] = {}
    /\ blocked[p] = {}
    /\ Goto(p, "scheduling", IF p \in Reloader THEN "applied" ELSE "idle")
    /\ UNCHANGED <<vars, plan, awaited, packageChanges, stale, fresh, acknowledged, overlap>>

-----------------------------------------------------------------------------
(***************************************************************************)
(* WaitForHideInvalidation                                                 *)
(***************************************************************************)
BeginWait(p) ==
    /\ Goto(p, "applied", "waiting")
    /\ awaited' = [awaited EXCEPT ![p] = currentConfigEpoch]
    /\ UNCHANGED <<vars, plan, packageChanges, stale, fresh, acknowledged, overlap>>

SchedulerIdle ==
    /\ Idle
    /\ \A se \in ActiveSessions :
          ~sessions[se].rootPending /\ ~sessions[se].rootNeedsReplay

WaitFindsIdle(p) ==
    /\ SchedulerIdle
    /\ batch.epoch = awaited[p]
    /\ Complete(batch)
    /\ \E se \in Session : Registered(se)
    /\ Goto(p, "waiting", "checking")
    /\ UNCHANGED <<vars, plan, awaited, packageChanges, stale, fresh, acknowledged, overlap>>

\* The last look, after the per-session tracking was found settled.
Acknowledge(p) ==
    /\ currentConfigEpoch = awaited[p]
    /\ Complete(batch)
    /\ Idle
    /\ Goto(p, "checking", "idle")
    /\ acknowledged' = awaited[p]
    /\ UNCHANGED <<vars, plan, awaited, packageChanges, stale, fresh, overlap>>

\* Timeout, a batch with failures, another epoch, uncovered callbacks or
\* unsettled tracking: the reload reports "pending or failed".
WaitFails(p) ==
    /\ \/ Goto(p, "waiting", "idle")
       \/ Goto(p, "checking", "idle")
    /\ UNCHANGED <<vars, plan, awaited, packageChanges, stale, fresh, acknowledged, overlap>>

-----------------------------------------------------------------------------
(***************************************************************************)
(* The worker, the sessions and FUSE requests, with what they mean for the *)
(* kernel's cache.                                                         *)
(***************************************************************************)
WorkerTakes ==
    /\ Take
    /\ fresh' = TRUE
    /\ UNCHANGED <<pc, plan, awaited, packageChanges, stale, acknowledged, overlap>>

WorkerCompletes(success) ==
    /\ CompleteTask(success)
    /\ stale' = IF success /\ fresh
                THEN [se \in Session |->
                        stale[se] \ {t.obj : t \in Of(se, running)}]
                ELSE stale
    /\ UNCHANGED <<pc, plan, awaited, packageChanges, fresh, acknowledged, overlap>>

SessionStep(se) ==
    /\ RegisterSession(se) \/ Retire(se) \/ FinishFuseSessionDestroy(se)
    /\ UNCHANGED local

\* The kernel's cache goes with the connection the original destroy closes.
SessionDrained(se) ==
    /\ Drained(se)
    /\ stale' = [stale EXCEPT ![se] = {}]
    /\ UNCHANGED <<pc, plan, awaited, packageChanges, fresh, acknowledged, overlap>>

RequestStep(kind, se) ==
    /\ FuseRequest(kind, se)
    /\ UNCHANGED local

PublicationNext ==
    \/ \E p \in Reloader :
          \/ BeginApply(p) \/ PublishConfig(p) \/ SnapshotForConfig(p)
          \/ BeginWait(p) \/ WaitFindsIdle(p) \/ Acknowledge(p) \/ WaitFails(p)
    \/ \E p \in Watcher : PackageSetChanged(p)
    \/ \E p \in Producer : ScheduleOne(p) \/ LeaveBackpressure(p) \/ DoneScheduling(p)
    \/ WorkerTakes
    \/ \E success \in BOOLEAN : WorkerCompletes(success)
    \/ \E se \in Session :
          \/ SessionStep(se) \/ SessionDrained(se)
          \/ \E kind \in FuseKinds : RequestStep(kind, se)

PublicationSpec == PublicationInit /\ [][PublicationNext]_allVars

-----------------------------------------------------------------------------
PublicationTypeOK ==
    /\ TypeOK
    /\ pc \in [Producer -> Step]
    /\ plan \in [Producer -> SUBSET [kind: {"Root", "Inode"}, obj: Target,
                                     token: [se: Session, gen: Nat \ {0}]]]
    /\ awaited \in [Reloader -> Nat]
    /\ packageChanges \in Nat
    /\ stale \in [Session -> SUBSET Target]
    /\ fresh \in BOOLEAN
    /\ acknowledged \in Nat
    /\ overlap \in BOOLEAN

Forgotten == \A se \in ActiveSessions : stale[se] = {}

\* While no two publications overlap, a reload is answered "invalidation
\* notifications finished" only when no session that is still served holds
\* anything cached before it.
AcknowledgedAloneMeansForgotten ==
    [][acknowledged' # acknowledged => overlap \/ Forgotten]_allVars

\* The same as an abstract specification of publish / forget / acknowledge.
ServedStale ==
    [se \in Session |-> IF se \in ActiveSessions /\ ~overlap THEN stale[se] ELSE {}]

Promise == INSTANCE KernelCachePromise WITH stale <- ServedStale
PromiseKept == Promise!Spec

\* "config applied; invalidation notifications finished (not atomic)" (Entry.java):
\* also when publications overlap.
AcknowledgedMeansForgotten == [][acknowledged' # acknowledged => Forgotten]_allVars

\* Two ApplyHideConfig calls never schedule at the same time, so no publication
\* is still queueing work for an epoch that is no longer the current one.
SchedulesOwnEpochOnly ==
    \A p \in Reloader : Applying(p) =>
        /\ batch.epoch = currentConfigEpoch
        /\ \A t \in blocked[p] : t.epoch = currentConfigEpoch
=============================================================================

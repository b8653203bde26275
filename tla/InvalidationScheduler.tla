----------------------- MODULE InvalidationScheduler -----------------------
(***************************************************************************)
(* The kernel-cache invalidation queue of core/runtime_state.cpp: one      *)
(* process-wide InvalidationQueue, its detached worker, the registry of    *)
(* FUSE sessions and the retirement of a session while the worker may be   *)
(* notifying it.                                                           *)
(*                                                                         *)
(* Every action is one hold of queue.mutex.  The places where the code     *)
(* gives the mutex up are the gaps between actions: the worker while it    *)
(* calls RunInvalidation (Take .. Complete), a configuration publisher in  *)
(* back-pressure (Backpressured .. Admit or GiveUp), a thread that reads   *)
(* node trees (BeginProbes .. EndProbe) and a session destroy that waits   *)
(* for the worker and the readers (Retire .. Drained .. FinishDestroy).    *)
(*                                                                         *)
(* A task is its key: the paths and names a task carries are functions of  *)
(* it.  "pending" and "pendingKeys" hold the same keys and are one set.    *)
(***************************************************************************)
EXTENDS InvalidationAdmission, FiniteSets

CONSTANTS
    Session,          \* addresses of fuse_session objects; an address may be reused
    Dir, Entry, Inode,\* parent inodes, (parent, name) pairs and cached inodes
    ParentOf,         \* the parent inode of an entry
    Producer,         \* threads that queue work for a configuration change
    Prober,           \* threads in ResolveUnknownPrimaryRootNodes
    FuseKinds,        \* kinds of work that FUSE request threads queue
    MaxGeneration, MaxEpoch, MaxRequests   \* bounds of the instance

ASSUME SchedulerAssumption ==
    /\ ParentOf \in [Entry -> Dir]
    /\ FuseKinds \subseteq {"Root", "Entry", "Inode"}
    /\ MaxGeneration \in Nat
    /\ MaxEpoch \in Nat
    /\ MaxRequests \in Nat

VARIABLES
    sessions,            \* queue.sessions; generation 0 stands for "no entry"
    nextGeneration,
    destroy,             \* how far WrappedFuseSessionDestroy is with an address
    pending,             \* tasks in the timed queue
    overflowParents, overflowInodes,
    running,             \* the task the worker notifies, an optional
    currentConfigEpoch,
    batch,
    blocked,             \* the task a publisher waits to admit, an optional
    probes               \* the sessions whose node tree a thread is reading

vars == <<sessions, nextGeneration, destroy, pending, overflowParents,
          overflowInodes, running, currentConfigEpoch, batch, blocked, probes>>

Object == Dir \cup Entry \cup Inode \cup {"root"}
Kind == {"Root", "Parent", "Entry", "Inode"}
Task == [kind: Kind, se: Session, gen: Nat, obj: Object, epoch: Nat]
TasksOfKind(kind) == {t \in Task : t.kind = kind}

Probe == [reader: Prober, se: Session, gen: Nat]

SessionState == [generation: Nat, retiring: BOOLEAN, rootPending: BOOLEAN,
                 rootNeedsReplay: BOOLEAN, rootReplayEpoch: Nat]

NewSession(g) == [generation |-> g, retiring |-> FALSE, rootPending |-> FALSE,
                  rootNeedsReplay |-> FALSE, rootReplayEpoch |-> 0]
NoSession == NewSession(0)

\* Defect: a retired session keeps the flags of the sweeps it lost.
RetiredKeepingFlags(s) == [s EXCEPT !.retiring = TRUE]

Retired(s) == [NewSession(s.generation) EXCEPT !.retiring = TRUE]

Registered(se) == sessions[se].generation # 0

\* The test every producer and the worker make before they trust a token.
Alive(se, gen) ==
    /\ Registered(se)
    /\ ~sessions[se].retiring
    /\ sessions[se].generation = gen

Counted(t) == t.epoch # 0 /\ t.epoch = batch.epoch
CountedIn(tasks) == {t \in tasks : Counted(t)}

Queued == pending \cup overflowParents \cup overflowInodes
Idle == Queued = {} /\ running = {}

-----------------------------------------------------------------------------
Init ==
    /\ sessions = [se \in Session |-> NoSession]
    /\ nextGeneration = 0
    /\ destroy = [se \in Session |-> "none"]
    /\ pending = {}
    /\ overflowParents = {}
    /\ overflowInodes = {}
    /\ running = {}
    /\ currentConfigEpoch = 0
    /\ batch = NewBatch(0)
    /\ blocked = [p \in Producer |-> {}]
    /\ probes = {}

\* A FUSE request or a session creation meets an unknown address.
RegisterSession(se) ==
    /\ ~Registered(se)
    /\ nextGeneration < MaxGeneration
    /\ nextGeneration' = nextGeneration + 1
    /\ sessions' = [sessions EXCEPT ![se] = NewSession(nextGeneration + 1)]
    /\ UNCHANGED <<destroy, pending, overflowParents, overflowInodes, running,
                   currentConfigEpoch, batch, blocked, probes>>

\* Defect: the counters start again under the epoch that is already current.
BeginUnderSameEpoch ==
    /\ currentConfigEpoch < MaxEpoch
    /\ currentConfigEpoch' = IF currentConfigEpoch = 0 THEN 1 ELSE currentConfigEpoch
    /\ batch' = NewBatch(currentConfigEpoch')
    /\ UNCHANGED <<sessions, nextGeneration, destroy, pending, overflowParents,
                   overflowInodes, running, blocked, probes>>

\* ApplyHideConfig opens the batch of the configuration it is to publish.
BeginHideInvalidationBatch ==
    /\ currentConfigEpoch < MaxEpoch
    /\ currentConfigEpoch' = currentConfigEpoch + 1
    /\ batch' = NewBatch(currentConfigEpoch + 1)
    /\ UNCHANGED <<sessions, nextGeneration, destroy, pending, overflowParents,
                   overflowInodes, running, blocked, probes>>

-----------------------------------------------------------------------------
(***************************************************************************)
(* QueueInvalidation                                                       *)
(***************************************************************************)
TaskFor(kind, token, obj, configReload) ==
    [kind |-> kind, se |-> token.se, gen |-> token.gen, obj |-> obj,
     epoch |-> IF configReload THEN currentConfigEpoch ELSE 0]

SweepOf(t) == [t EXCEPT !.kind = "Parent", !.obj = ParentOf[t.obj]]

Duplicate(t) == t \in pending \/ t \in overflowInodes \/ t \in running

Evictable(t) ==
    IF /\ t.kind # "Inode"
       /\ Cardinality(pending) >= QueueLimit
       /\ CanEvictInodeIntoCompensation(Cardinality(overflowInodes))
    THEN {u \in pending : u.se = t.se /\ u.kind = "Inode"}
    ELSE {}

AdmissionOf(t, configReload) ==
    DecideInvalidationAdmission(
        Cardinality(pending), Cardinality(overflowParents), t.kind # "Inode",
        t.kind = "Entry", t.kind = "Entry" /\ SweepOf(t) \in overflowParents,
        Evictable(t) # {}, configReload, Cardinality(overflowInodes))

\* Defect: a refused task is settled as if it had been accepted.
RejectAsFinished(t) == batch' = IF Counted(t) THEN Finish(batch, FALSE) ELSE batch

AcceptTask(t) == batch' = IF Counted(t) THEN Accept(batch) ELSE batch
RejectTask(t) == batch' = IF Counted(t) THEN RejectOne(batch) ELSE batch

\* Defect: an absorbed configuration request asks for nothing.
AbsorbRootForgetting(se, configReload) ==
    UNCHANGED <<sessions, pending, overflowParents, overflowInodes, batch>>

\* A root sweep of the session is queued or running: the request is absorbed,
\* and a configuration change asks for one more sweep after it.
AbsorbRoot(se, configReload) ==
    /\ sessions' = IF configReload
                   THEN [sessions EXCEPT ![se].rootNeedsReplay = TRUE,
                                         ![se].rootReplayEpoch = currentConfigEpoch]
                   ELSE sessions
    /\ UNCHANGED <<pending, overflowParents, overflowInodes, batch>>

AdmitToQueue(t, evicted) ==
    /\ pending' = (pending \ evicted) \cup {t}
    /\ overflowInodes' = overflowInodes \cup evicted
    /\ AcceptTask(t)
    /\ sessions' = IF t.kind = "Root"
                   THEN [sessions EXCEPT ![t.se].rootPending = TRUE]
                   ELSE sessions
    /\ UNCHANGED overflowParents

AdmitNewTask(t, configReload) ==
    LET admission == AdmissionOf(t, configReload)
    IN  \/ /\ admission = "Queue"
           /\ AdmitToQueue(t, {})
        \/ /\ admission = "EvictInodeThenQueue"
           /\ \E u \in Evictable(t) : AdmitToQueue(t, {u})
        \/ /\ admission = "CoalescedParent"
           /\ UNCHANGED <<sessions, pending, overflowParents, overflowInodes, batch>>
        \/ /\ admission = "NewParentSweep"
           /\ overflowParents' = overflowParents \cup {SweepOf(t)}
           /\ AcceptTask(SweepOf(t))
           /\ UNCHANGED <<sessions, pending, overflowInodes>>
        \/ /\ admission = "ExactInodeCompensation"
           /\ overflowInodes' = overflowInodes \cup {t}
           /\ AcceptTask(t)
           /\ UNCHANGED <<sessions, pending, overflowParents>>
        \/ /\ admission = "Reject"
           /\ ~(t.kind = "Inode" /\ configReload)
           /\ RejectTask(t)
           /\ UNCHANGED <<sessions, pending, overflowParents, overflowInodes>>

\* The part of QueueInvalidation a caller runs to its return.
QueueInvalidation(kind, token, obj, configReload) ==
    LET t == TaskFor(kind, token, obj, configReload)
        absorbed == kind = "Root" /\ sessions[token.se].rootPending
    IN  /\ \/ /\ Alive(token.se, token.gen) /\ absorbed
              /\ AbsorbRoot(token.se, configReload)
           \/ /\ Alive(token.se, token.gen) /\ ~absorbed /\ ~Duplicate(t)
              /\ AdmitNewTask(t, configReload)
           \/ /\ ~Alive(token.se, token.gen) \/ (~absorbed /\ Duplicate(t))
              /\ UNCHANGED <<sessions, pending, overflowParents, overflowInodes, batch>>
        /\ UNCHANGED <<nextGeneration, destroy, running, currentConfigEpoch, blocked, probes>>

\* The other part: there is no place for an exact inode of a configuration, so
\* the publisher gives up the mutex and waits.
Backpressured(p, token, obj) ==
    LET t == TaskFor("Inode", token, obj, TRUE)
    IN  /\ Alive(token.se, token.gen)
        /\ ~Duplicate(t)
        /\ AdmissionOf(t, TRUE) = "Reject"
        /\ blocked' = [blocked EXCEPT ![p] = {t}]
        /\ UNCHANGED <<sessions, nextGeneration, destroy, pending, overflowParents,
                       overflowInodes, running, currentConfigEpoch, batch, probes>>

ObjectsOf(kind) ==
    CASE kind = "Root" -> {"root"} [] kind = "Entry" -> Entry [] OTHER -> Inode

CurrentToken(se) == [se |-> se, gen |-> sessions[se].generation]

\* A FUSE request thread: never for a configuration, never waits.
FuseRequest(kind, se) ==
    \E obj \in ObjectsOf(kind) : QueueInvalidation(kind, CurrentToken(se), obj, FALSE)

\* A configuration publisher queues a root sweep or an exact inode.
ConfigRequest(p, kind, se) ==
    /\ blocked[p] = {}
    /\ batch.submitted + batch.rejected < MaxRequests
    /\ \E obj \in ObjectsOf(kind) :
          \/ QueueInvalidation(kind, CurrentToken(se), obj, TRUE)
          \/ kind = "Inode" /\ Backpressured(p, CurrentToken(se), obj)

\* Defect: the wait is not repeated when another publisher took the place.
AdmitUnchecked(p) ==
    \E t \in blocked[p] :
        /\ overflowInodes' = overflowInodes \cup {t}
        /\ AcceptTask(t)
        /\ blocked' = [blocked EXCEPT ![p] = {}]
        /\ UNCHANGED <<sessions, nextGeneration, destroy, pending,
                       overflowParents, running, currentConfigEpoch, probes>>

\* The publisher finds room, woken by the worker or by its own deadline.  A
\* wake-up looks at the session again, the deadline does not: so the session
\* may be gone, and the task it admits is dropped by the worker.
Admit(p) ==
    \E t \in blocked[p] :
        /\ Cardinality(overflowInodes) < InodeCompensationLimit
        /\ overflowInodes' = overflowInodes \cup {t}
        /\ AcceptTask(t)
        /\ blocked' = [blocked EXCEPT ![p] = {}]
        /\ UNCHANGED <<sessions, nextGeneration, destroy, pending,
                       overflowParents, running, currentConfigEpoch, probes>>

\* The deadline passes with the overflow still full, or a wake-up finds the
\* session gone.
GiveUp(p) ==
    \E t \in blocked[p] :
        /\ \/ Cardinality(overflowInodes) >= InodeCompensationLimit
           \/ ~Alive(t.se, t.gen)
        /\ RejectTask(t)
        /\ blocked' = [blocked EXCEPT ![p] = {}]
        /\ UNCHANGED <<sessions, nextGeneration, destroy, pending, overflowParents,
                       overflowInodes, running, currentConfigEpoch, probes>>

-----------------------------------------------------------------------------
(***************************************************************************)
(* InvalidationWorker                                                      *)
(***************************************************************************)
FinishTask(t, success) ==
    batch' = IF Counted(t) THEN Finish(batch, success) ELSE batch

\* Defect: a stale task is dropped without being settled.
StartLosingStale(t) ==
    /\ running' = IF Alive(t.se, t.gen) THEN {t} ELSE running
    /\ UNCHANGED batch

\* The worker leaves the mutex only for the task of a live session.
Start(t) ==
    IF Alive(t.se, t.gen)
    THEN running' = {t} /\ UNCHANGED batch
    ELSE FinishTask(t, TRUE) /\ UNCHANGED running

\* A task whose deadline has passed.
TakePending(t) ==
    /\ running = {}
    /\ t \in pending
    /\ pending' = pending \ {t}
    /\ Start(t)
    /\ UNCHANGED <<sessions, nextGeneration, destroy, overflowParents,
                   overflowInodes, currentConfigEpoch, blocked, probes>>

\* Nothing is due: inode compensation first, parent sweeps last.
TakeOverflowInode(t) ==
    /\ running = {}
    /\ t \in overflowInodes
    /\ overflowInodes' = overflowInodes \ {t}
    /\ Start(t)
    /\ UNCHANGED <<sessions, nextGeneration, destroy, pending, overflowParents,
                   currentConfigEpoch, blocked, probes>>

TakeOverflowParent(t) ==
    /\ running = {}
    /\ overflowInodes = {}
    /\ t \in overflowParents
    /\ overflowParents' = overflowParents \ {t}
    /\ Start(t)
    /\ UNCHANGED <<sessions, nextGeneration, destroy, pending, overflowInodes,
                   currentConfigEpoch, blocked, probes>>

\* Defect: the worker looks at the timed queue only.
TakeQueuedOnly == \E t \in pending : TakePending(t)

Take ==
    \/ \E t \in pending : TakePending(t)
    \/ \E t \in overflowInodes : TakeOverflowInode(t)
    \/ \E t \in overflowParents : TakeOverflowParent(t)

\* Defect: the replay is still a task of the sweep's own epoch.
ReplayOfOldEpoch(t) == t

ReplayOf(t) == [t EXCEPT !.epoch = sessions[t.se].rootReplayEpoch]

NeedsReplay(t) ==
    /\ t.kind = "Root"
    /\ sessions[t.se].generation = t.gen
    /\ sessions[t.se].rootNeedsReplay
    /\ ~sessions[t.se].retiring

\* RunInvalidation has returned.  A finished root sweep clears the session's
\* flag or, when a configuration asked for one more, queues it in the same hold.
CompleteTask(success) ==
    \E t \in running :
        LET finished == IF Counted(t) THEN Finish(batch, success) ELSE batch
            se == t.se
        IN  /\ running' = {}
            /\ IF NeedsReplay(t)
               THEN /\ pending' = pending \cup {ReplayOf(t)}
                    /\ sessions' = [sessions EXCEPT ![se].rootNeedsReplay = FALSE,
                                                    ![se].rootReplayEpoch = 0]
                    /\ batch' = IF Counted(ReplayOf(t)) THEN Accept(finished)
                                                        ELSE finished
               ELSE /\ sessions' = IF t.kind = "Root" /\ sessions[se].generation = t.gen
                                   THEN [sessions EXCEPT ![se].rootPending = FALSE]
                                   ELSE sessions
                    /\ batch' = finished
                    /\ UNCHANGED pending
            /\ UNCHANGED <<nextGeneration, destroy, overflowParents, overflowInodes,
                           currentConfigEpoch, blocked, probes>>

-----------------------------------------------------------------------------
(***************************************************************************)
(* WrappedFuseSessionDestroy                                               *)
(***************************************************************************)
Of(se, tasks) == {t \in tasks : t.se = se}

\* RetireFuseSession closes the session and completes everything queued for it.
Retire(se) ==
    LET owed == Cardinality(CountedIn(Of(se, pending)))
                + Cardinality(CountedIn(Of(se, overflowParents)))
                + Cardinality(CountedIn(Of(se, overflowInodes)))
    IN  /\ Registered(se)
        /\ destroy[se] = "none"
        /\ destroy' = [destroy EXCEPT ![se] = "draining"]
        /\ sessions' = [sessions EXCEPT ![se] = Retired(@)]
        /\ pending' = pending \ Of(se, pending)
        /\ overflowParents' = overflowParents \ Of(se, overflowParents)
        /\ overflowInodes' = overflowInodes \ Of(se, overflowInodes)
        /\ batch' = FinishMany(batch, owed)
        /\ UNCHANGED <<nextGeneration, running, currentConfigEpoch, blocked, probes>>

\* Defect: the session is freed without waiting for the worker.
DrainedAtOnce(se) ==
    /\ destroy[se] = "draining"
    /\ destroy' = [destroy EXCEPT ![se] = "destroying"]
    /\ UNCHANGED <<sessions, nextGeneration, pending, overflowParents,
                   overflowInodes, running, currentConfigEpoch, batch, blocked, probes>>

\* Defect: it waits for the publishers too.
DrainedAfterPublishers(se) ==
    /\ destroy[se] = "draining"
    /\ Of(se, running) = {} /\ Of(se, probes) = {}
    /\ \A p \in Producer : Of(se, blocked[p]) = {}
    /\ destroy' = [destroy EXCEPT ![se] = "destroying"]
    /\ UNCHANGED <<sessions, nextGeneration, pending, overflowParents,
                   overflowInodes, running, currentConfigEpoch, batch, blocked, probes>>

\* The wait for the worker and the readers ends; the original destroy then frees the session.
Drained(se) ==
    /\ destroy[se] = "draining"
    /\ Of(se, running) = {} /\ Of(se, probes) = {}
    /\ destroy' = [destroy EXCEPT ![se] = "destroying"]
    /\ UNCHANGED <<sessions, nextGeneration, pending, overflowParents,
                   overflowInodes, running, currentConfigEpoch, batch, blocked, probes>>

FinishFuseSessionDestroy(se) ==
    /\ destroy[se] = "destroying"
    /\ destroy' = [destroy EXCEPT ![se] = "none"]
    /\ sessions' = [sessions EXCEPT ![se] = NoSession]
    /\ UNCHANGED <<nextGeneration, pending, overflowParents, overflowInodes,
                   running, currentConfigEpoch, batch, blocked, probes>>

-----------------------------------------------------------------------------
(***************************************************************************)
(* ResolveUnknownPrimaryRootNodes reads the node tree of several sessions  *)
(* outside the mutex; a count of readers keeps each of them alive.         *)
(***************************************************************************)
\* Which active sessions have no root yet is the tracking's business.
BeginProbes(r) ==
    /\ \A q \in probes : q.reader # r
    /\ \E chosen \in SUBSET {se \in Session : Registered(se) /\ ~sessions[se].retiring} :
          probes' = probes \cup {[reader |-> r, se |-> se, gen |-> sessions[se].generation] :
                                   se \in chosen}
    /\ UNCHANGED <<sessions, nextGeneration, destroy, pending, overflowParents,
                   overflowInodes, running, currentConfigEpoch, batch, blocked>>

EndProbe(r) ==
    \E q \in probes :
        /\ q.reader = r
        /\ probes' = probes \ {q}
        /\ UNCHANGED <<sessions, nextGeneration, destroy, pending, overflowParents,
                       overflowInodes, running, currentConfigEpoch, batch, blocked>>

-----------------------------------------------------------------------------
ConfigKinds == {"Root", "Inode"}

Next ==
    \/ \E se \in Session :
          \/ RegisterSession(se)
          \/ Retire(se)
          \/ Drained(se)
          \/ FinishFuseSessionDestroy(se)
          \/ \E kind \in FuseKinds : FuseRequest(kind, se)
          \/ \E p \in Producer, kind \in ConfigKinds : ConfigRequest(p, kind, se)
    \/ \E p \in Producer : Admit(p) \/ GiveUp(p)
    \/ \E r \in Prober : BeginProbes(r) \/ EndProbe(r)
    \/ BeginHideInvalidationBatch
    \/ Take
    \/ \E success \in BOOLEAN : CompleteTask(success)

Spec == Init /\ [][Next]_vars

\* The worker thread runs for ever and every call into libfuse or the node tree
\* returns; a destroy that finds its condition true leaves its wait.  Publishers
\* and FUSE requests owe nothing.
Fairness ==
    /\ WF_vars(Take)
    /\ WF_vars(\E success \in BOOLEAN : CompleteTask(success))
    /\ \A r \in Prober : WF_vars(EndProbe(r))
    /\ \A se \in Session : WF_vars(Drained(se)) /\ WF_vars(FinishFuseSessionDestroy(se))

FairSpec == Spec /\ Fairness

-----------------------------------------------------------------------------
\* Each queue holds its own kind of work: an evicted or compensated task is an
\* inode notification, a coalesced one a parent sweep.
TypeOK ==
    /\ sessions \in [Session -> SessionState]
    /\ nextGeneration \in Nat
    /\ destroy \in [Session -> {"none", "draining", "destroying"}]
    /\ pending \subseteq Task
    /\ overflowParents \subseteq TasksOfKind("Parent")
    /\ overflowInodes \subseteq TasksOfKind("Inode")
    /\ running \subseteq Task
    /\ \A t, u \in running : t = u
    /\ currentConfigEpoch \in Nat
    /\ batch \in Batch
    /\ blocked \in [Producer -> SUBSET TasksOfKind("Inode")]
    /\ probes \subseteq Probe

\* What makes the properties below inductive: finite queues, a session closed
\* exactly while its destroy is under way, no task of a future configuration,
\* and never fewer outstanding tasks than there are.
FiniteQueues ==
    /\ IsFiniteSet(pending)
    /\ IsFiniteSet(overflowParents)
    /\ IsFiniteSet(overflowInodes)
    /\ IsFiniteSet(running)

SessionLifecycle ==
    \A se \in Session :
        /\ sessions[se].retiring <=> destroy[se] # "none"
        /\ sessions[se].retiring =>
              /\ Registered(se)
              /\ ~sessions[se].rootPending
              /\ ~sessions[se].rootNeedsReplay

EpochsAreKnown ==
    /\ batch.epoch = currentConfigEpoch
    /\ \A t \in Queued \cup running : t.epoch <= currentConfigEpoch
    /\ \A p \in Producer : \A t \in blocked[p] : t.epoch <= currentConfigEpoch
    /\ \A se \in Session : sessions[se].rootReplayEpoch <= currentConfigEpoch

CountedTasks ==
    Cardinality(CountedIn(pending)) + Cardinality(CountedIn(overflowParents))
    + Cardinality(CountedIn(overflowInodes)) + Cardinality(CountedIn(running))

OutstandingCoversTasks == CountedTasks <= batch.outstanding

\* An acknowledgement can be given (WaitForHideInvalidation reads complete())
\* only when no task of the active configuration is queued or being notified,
\* whichever way the task came in: queued, evicted, compensated or replayed.
CompleteMeansNotified ==
    Complete(batch) => \A t \in Queued \cup running : ~Counted(t)

\* Every accepted task of the active configuration is in exactly one place,
\* so "outstanding" neither loses nor leaks one (RetireFuseSession, eviction,
\* replay and back-pressure each move tasks and settle the counters).
OutstandingIsExact ==
    /\ batch.submitted = batch.completed + batch.failed + batch.outstanding
    /\ batch.outstanding = CountedTasks

\* While rootPending is set, QueueInvalidation absorbs every root request: a
\* sweep that will still run must exist, or the session's root could never be
\* invalidated again.  A promised replay has a sweep to follow.
RootSweepsOf(se) ==
    {t \in pending \cup running :
        t.kind = "Root" /\ t.se = se /\ t.gen = sessions[se].generation}

RootAbsorbedOnlyBehindSweep ==
    \A se \in Session :
        /\ sessions[se].rootPending => RootSweepsOf(se) # {}
        /\ sessions[se].rootNeedsReplay => sessions[se].rootPending

\* The worker calls libfuse outside the mutex, and a probe reads the node tree:
\* the session they use is never one whose original fuse_session_destroy has
\* been entered, nor a later session at the same address.
UsesOnlyLiveSession ==
    \A t \in running \cup probes :
        /\ sessions[t.se].generation = t.gen
        /\ destroy[t.se] # "destroying"

\* A destroy always comes to its end: nothing queued or replayed keeps the
\* worker on a retiring session.
DestroyTerminates ==
    \A se \in Session : destroy[se] = "draining" ~> destroy[se] = "none"

\* A batch drains: its queued and running tasks are finished (or superseded by a
\* new configuration), whichever queue they are in and however many publishers
\* wait for room.
CountedTasksDrain == CountedTasks > 0 ~> CountedTasks = 0

\* "Complete the exact batch task so outstanding is not leaked" (RetireFuseSession):
\* with nothing queued and nothing running, nothing is outstanding.
OutstandingIsNotLeaked == Idle => batch.outstanding = 0
=============================================================================

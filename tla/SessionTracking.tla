-------------------------- MODULE SessionTracking --------------------------
(***************************************************************************)
(* What one FUSE session knows of its inodes (SessionTracking in           *)
(* core/runtime_state.cpp), and how it keeps a requested invalidation      *)
(* whose inode has no known path yet: a root request waits in              *)
(* rootRefreshNeeded, an inode or an entry in the deferred sets, and the   *)
(* reply that teaches the path queues it.                                  *)
(*                                                                         *)
(* A hold of the tracking mutex is one step, and so is a call of           *)
(* QueueInvalidation, which is made without it.  The queue is a set: the   *)
(* limits of the scheduler are the subject of InvalidationScheduler.       *)
(***************************************************************************)
EXTENDS Naturals, FiniteSets

CONSTANTS
    Thread,              \* FUSE request threads and reload threads
    Ino, Root,           \* inodes; the visible root's is one of them
    Name, NoName,
    Path, RootPath,      \* protected paths; the visible root's is one of them
    Unknown,             \* no inode, no path
    PublicVolume,        \* the root is FUSE_ROOT_ID, known with its path
    HideAll,             \* the rules hide every child of the root
    MaxTracked, MaxDeferred,
    EntryIno,            \* where names are hidden: a bound of the instance
    Waits                \* whether publications are waited for: likewise

ASSUME TrackingAssumption ==
    /\ Root \in Ino /\ RootPath \in Path
    /\ Unknown \notin Ino \cup Path /\ NoName \notin Name
    /\ PublicVolume \in BOOLEAN /\ HideAll \in BOOLEAN
    /\ MaxTracked \in Nat /\ MaxDeferred \in Nat
    /\ EntryIno \subseteq Ino /\ Waits \in BOOLEAN

VARIABLES
    rootIno, rootPath, rootRefreshNeeded,
    deferredEntries, deferredInodes,
    inodeToPath, pathToInode,
    instantiated,        \* the node tree has the visible root's node
    queue,               \* tasks that are queued
    thread,              \* what each thread is about to do
    owed,                \* requests the kernel was not yet notified of (history)
    crossed,             \* the root's came behind a probe's look-up (history)
    refused,             \* requests for which a table had no room (history)
    wait,                \* where WaitForHideInvalidation is
    awaited,             \* what was put aside or queued when it began and is still owed (history)
    held                 \* what threads carried when the tracking was checked (history)

root == <<rootIno, rootPath, rootRefreshNeeded>>
deferred == <<deferredEntries, deferredInodes>>
maps == <<inodeToPath, pathToInode>>
tracking == <<root, deferred, maps>>
obligations == <<owed, crossed>>
acknowledgement == <<wait, awaited, held>>
vars == <<tracking, instantiated, queue, thread, obligations, refused, acknowledgement>>

RootTask == [kind |-> "root", ino |-> Root, name |-> NoName]
InodeTask(i) == [kind |-> "inode", ino |-> i, name |-> NoName]
EntryTask(i, n) == [kind |-> "entry", ino |-> i, name |-> n]
Task == {RootTask} \cup {InodeTask(i) : i \in Ino} \cup {EntryTask(i, n) : i \in Ino, n \in Name}

\* A thread has tasks to queue, requests to defer and perhaps a root to schedule,
\* or it probes the node tree for the root: it has begun, or knows what is there.
ThreadState == [queueing: SUBSET Task, deferring: SUBSET Task, rooting: BOOLEAN,
                probe: {"none", "begun", "absent", "found"}]
Idle == [queueing |-> {}, deferring |-> {}, rooting |-> FALSE, probe |-> "none"]
Carried(t) ==
    thread[t].queueing \cup thread[t].deferring \cup (IF thread[t].rooting THEN {RootTask} ELSE {})

InHand == UNION {Carried(t) : t \in Thread}

Init ==
    /\ rootIno = Unknown /\ rootPath = Unknown /\ rootRefreshNeeded = FALSE
    /\ deferredEntries = {} /\ deferredInodes = {}
    /\ inodeToPath = [i \in Ino |-> Unknown]
    /\ pathToInode = [p \in Path |-> Unknown]
    /\ instantiated = PublicVolume
    /\ queue = {} /\ owed = {} /\ crossed = FALSE /\ refused = {}
    /\ thread = [t \in Thread |-> Idle]
    /\ wait = "idle" /\ awaited = {} /\ held = {}

Tracked == {i \in Ino : inodeToPath[i] # Unknown}

LookupTrackedPathForInode(i) ==
    IF i = rootIno /\ rootPath # Unknown THEN rootPath ELSE inodeToPath[i]

\* A thread that has found no node for the root and will say so to the session.
ProbedAbsent == \E t \in Thread : thread[t].probe = "absent"

\* The obligations become those of tasks.
Owes(tasks) ==
    /\ owed' = tasks
    /\ crossed' = (RootTask \in tasks /\ (crossed \/ (RootTask \notin owed /\ ProbedAbsent)))

\* A root without a node has nothing in the kernel's cache.
Obligation(task) == IF task = RootTask /\ ~instantiated THEN {} ELSE {task}

-----------------------------------------------------------------------------
(***************************************************************************)
(* Requests                                                                *)
(***************************************************************************)
\* A session without root, paths and deferred work has nothing to invalidate.
CanSkipUntrackedSession ==
    rootPath = Unknown /\ Tracked = {} /\ deferredEntries = {} /\ deferredInodes = {}

\* The hold of ScheduleHiddenEntryInvalidation: what it leaves for thread t.
\* unowed says that the session owes no root sweep any more.
ScheduleRoot(t, unowed) ==
    LET after == [thread[t] EXCEPT !.rooting = FALSE] IN
    \/ /\ rootIno # Unknown /\ rootPath # Unknown
       /\ thread' = [thread EXCEPT ![t] = [after EXCEPT !.queueing = @ \cup {RootTask}]]
       /\ ~unowed
       /\ UNCHANGED rootRefreshNeeded
    \/ /\ rootIno = Unknown \/ rootPath = Unknown
       /\ rootRefreshNeeded' = ~CanSkipUntrackedSession
       /\ unowed = CanSkipUntrackedSession
       /\ thread' = [thread EXCEPT ![t] = after]

\* A request handler or a publication asks for the root sweep.
ScheduleHiddenEntryInvalidation(t) ==
    /\ thread[t] = Idle
    /\ \E unowed \in BOOLEAN :
          /\ ScheduleRoot(t, unowed)
          /\ Owes(IF unowed THEN owed \ {RootTask} ELSE owed \cup Obligation(RootTask))
          /\ awaited' = IF unowed THEN awaited \ {RootTask} ELSE awaited
    /\ UNCHANGED <<rootIno, rootPath, deferred, maps, instantiated, queue, refused, wait, held>>

\* A root schedule that a call owes since it released the mutex.
ScheduleOwedRoot(t) ==
    /\ thread[t].rooting /\ thread[t].queueing = {}
    /\ \E unowed \in BOOLEAN :
          /\ ScheduleRoot(t, unowed)
          /\ Owes(IF unowed THEN owed \ {RootTask} ELSE owed)
          /\ awaited' = IF unowed THEN awaited \ {RootTask} ELSE awaited
    /\ UNCHANGED <<rootIno, rootPath, deferred, maps, instantiated, queue, refused, wait, held>>

\* The look-up of the path, in a hold of its own.  With HideAll a first-level
\* target is left to the sweep of the root.
Request(t, task, sweeps) ==
    /\ thread[t] = Idle
    /\ thread' = [thread EXCEPT ![t] =
         IF LookupTrackedPathForInode(task.ino) = Unknown THEN [Idle EXCEPT !.deferring = {task}]
         ELSE IF sweeps THEN [Idle EXCEPT !.rooting = TRUE]
         ELSE [Idle EXCEPT !.queueing = {task}]]
    /\ Owes(owed \cup Obligation(
            IF LookupTrackedPathForInode(task.ino) # Unknown /\ sweeps THEN RootTask ELSE task))
    /\ UNCHANGED <<tracking, instantiated, queue, refused, acknowledgement>>

ScheduleSpecificEntryInvalidation(t) ==
    \E i \in EntryIno, n \in Name :
        Request(t, EntryTask(i, n), HideAll /\ LookupTrackedPathForInode(i) = RootPath)

ScheduleHiddenInodeInvalidation(t) ==
    \E i \in Ino \ {Root} : Request(t, InodeTask(i), HideAll)

Entry(task) == <<task.ino, task.name>>
HasRoom(task) ==
    IF task.kind = "entry"
    THEN Entry(task) \in deferredEntries \/ Cardinality(deferredEntries) < MaxDeferred
    ELSE task.ino \in deferredInodes \/ Cardinality(deferredInodes) < MaxDeferred

PutAside(task) ==
    /\ deferredEntries' = IF task.kind = "entry" /\ HasRoom(task)
                          THEN deferredEntries \cup {Entry(task)} ELSE deferredEntries
    /\ deferredInodes' = IF task.kind = "inode" /\ HasRoom(task)
                         THEN deferredInodes \cup {task.ino} ELSE deferredInodes
    /\ refused' = IF HasRoom(task) THEN refused ELSE refused \cup {task}

\* The second hold: the request is put aside, or the table has no room for it.
Defer(t) ==
    \E task \in thread[t].deferring :
        /\ PutAside(task)
        /\ rootRefreshNeeded' = TRUE
        /\ thread' = [thread EXCEPT ![t].deferring = @ \ {task}]
        /\ UNCHANGED <<rootIno, rootPath, maps, instantiated, queue, obligations, acknowledgement>>

-----------------------------------------------------------------------------
(***************************************************************************)
(* What replies, directory data and the node tree teach                    *)
(***************************************************************************)
\* The node tree gets the root's node when the root is first looked up.
Instantiate ==
    /\ ~instantiated
    /\ instantiated' = TRUE
    /\ UNCHANGED <<tracking, queue, thread, obligations, refused, acknowledgement>>

\* Defect: the old path of a renamed inode stays in the reverse map.
ReverseMapKeepingOld(i, p) == [pathToInode EXCEPT ![p] = i]

\* The reverse map after inode i has been seen at path p.
ReverseMap(i, p) ==
    [[q \in Path |-> IF q = inodeToPath[i] /\ q # p /\ pathToInode[q] = i
                     THEN Unknown ELSE pathToInode[q]] EXCEPT ![p] = i]

Waiting(i) ==
    {EntryTask(i, n) : n \in {m \in Name : <<i, m>> \in deferredEntries}} \cup
    (IF i \in deferredInodes THEN {InodeTask(i)} ELSE {})

\* Defect: what waited for the inode is dropped.
LearnForgetting(t, i, p, refresh) ==
    /\ inodeToPath' = [inodeToPath EXCEPT ![i] = p]
    /\ pathToInode' = ReverseMap(i, p)
    /\ deferredEntries' = {e \in deferredEntries : e[1] # i}
    /\ deferredInodes' = deferredInodes \ {i}
    /\ thread' = [thread EXCEPT ![t].rooting = refresh]

\* The hold of RememberTrackedPathForInode when it finds room for the inode:
\* what waited for it goes to thread t.
Learn(t, i, p, refresh) ==
    /\ inodeToPath' = [inodeToPath EXCEPT ![i] = p]
    /\ pathToInode' = ReverseMap(i, p)
    /\ deferredEntries' = {e \in deferredEntries : e[1] # i}
    /\ deferredInodes' = deferredInodes \ {i}
    /\ thread' = [thread EXCEPT ![t] = [Idle EXCEPT !.queueing = Waiting(i), !.rooting = refresh]]

RememberTrackedPathForInode(t, i, p) ==
    LET takesRoot == p = RootPath /\ rootIno \in {Unknown, i}
        refresh == takesRoot /\ rootRefreshNeeded
    IN
    /\ IF takesRoot
       THEN rootIno' = i /\ rootPath' = RootPath /\ rootRefreshNeeded' = FALSE
       ELSE UNCHANGED root
    /\ \/ /\ inodeToPath[i] # Unknown \/ Cardinality(Tracked) < MaxTracked
          /\ Learn(t, i, p, refresh)
       \/ /\ inodeToPath[i] = Unknown /\ Cardinality(Tracked) >= MaxTracked
          /\ thread' = [thread EXCEPT ![t] = Idle]
          /\ UNCHANGED <<deferred, maps>>
    /\ UNCHANGED <<instantiated, queue, obligations, refused, acknowledgement>>

\* A reply, a directory entry or a getattr shows an inode at a path.  Every
\* protected path is the root's or lies below it.
SeePath(t) ==
    /\ thread[t] = Idle /\ instantiated
    /\ \/ RememberTrackedPathForInode(t, Root, RootPath)
       \/ \E i \in Ino \ {Root}, p \in Path \ {RootPath} : RememberTrackedPathForInode(t, i, p)

\* A hidden name was looked up under the root.
RememberRootParentInode(t) ==
    /\ thread[t] = Idle /\ instantiated
    /\ rootIno' = IF rootIno = Unknown THEN Root ELSE rootIno
    /\ LET flush == rootIno' = Root /\ rootPath # Unknown /\ rootRefreshNeeded IN
       /\ rootRefreshNeeded' = (rootRefreshNeeded /\ ~flush)
       /\ thread' = [thread EXCEPT ![t].rooting = flush]
    /\ UNCHANGED <<rootPath, deferred, maps, instantiated, queue, obligations, refused, acknowledgement>>

\* Defect: the refresh is taken and its schedule forgotten.
RegisterForgettingRefresh(t) ==
    /\ thread[t] = Idle
    /\ rootPath' = RootPath
    /\ rootRefreshNeeded' = FALSE
    /\ UNCHANGED <<rootIno, maps, deferred, instantiated, queue, thread, obligations, refused, acknowledgement>>

\* The session's source directory names its root.
RegisterSessionRootPath(t) ==
    /\ thread[t] = Idle
    /\ rootPath' = RootPath
    /\ IF PublicVolume /\ rootIno = Unknown
       THEN /\ rootIno' = Root
            /\ inodeToPath' = [inodeToPath EXCEPT ![Root] = IF @ = Unknown THEN RootPath ELSE @]
            /\ pathToInode' = [pathToInode EXCEPT ![RootPath] = IF @ = Unknown THEN Root ELSE @]
       ELSE UNCHANGED <<rootIno, maps>>
    /\ rootRefreshNeeded' = FALSE
    /\ thread' = [thread EXCEPT ![t].rooting = rootRefreshNeeded]
    /\ UNCHANGED <<deferred, instantiated, queue, obligations, refused, acknowledgement>>

\* ResolveUnknownPrimaryRootNodes: a session whose root path is known and whose
\* root inode is not is chosen in one hold,
BeginProbe(t) ==
    /\ thread[t] = Idle /\ rootPath = RootPath /\ rootIno = Unknown
    /\ thread' = [thread EXCEPT ![t].probe = "begun"]
    /\ UNCHANGED <<tracking, instantiated, queue, obligations, refused, acknowledgement>>

\* the node tree is asked without the mutex,
LookUpRootNode(t) ==
    /\ thread[t].probe = "begun"
    /\ thread' = [thread EXCEPT ![t].probe = IF instantiated THEN "found" ELSE "absent"]
    /\ UNCHANGED <<tracking, instantiated, queue, obligations, refused, acknowledgement>>

CanSkipVerifiedEmptyPrimaryRoot ==
    /\ rootPath = RootPath /\ rootIno = Unknown
    /\ Tracked = {} /\ \A p \in Path : pathToInode[p] = Unknown
    /\ deferredEntries = {} /\ deferredInodes = {}

\* and what was found is used in a later hold: without a node there is nothing
\* to refresh,
SkipAbsentRoot(t) ==
    /\ thread[t].probe = "absent"
    /\ rootRefreshNeeded' = (rootRefreshNeeded /\ ~CanSkipVerifiedEmptyPrimaryRoot)
    /\ thread' = [thread EXCEPT ![t] = Idle]
    /\ UNCHANGED <<rootIno, rootPath, deferred, maps, instantiated, queue, obligations, refused, acknowledgement>>

\* and a node is the root's.
LearnRootNode(t) ==
    /\ thread[t].probe = "found"
    /\ RememberTrackedPathForInode(t, Root, RootPath)

\* A thread queues one of the tasks it carries.
QueueInvalidation(t) ==
    \E task \in thread[t].queueing :
        /\ queue' = queue \cup {task}
        /\ thread' = [thread EXCEPT ![t].queueing = @ \ {task}]
        /\ UNCHANGED <<tracking, instantiated, obligations, refused, acknowledgement>>

\* The worker notifies the kernel.
Notify ==
    \E task \in queue :
        /\ queue' = queue \ {task}
        /\ Owes(owed \ {task}) /\ awaited' = awaited \ {task}
        /\ refused' = refused \ {task}
        /\ UNCHANGED <<tracking, instantiated, thread, wait, held>>

-----------------------------------------------------------------------------
(***************************************************************************)
(* WaitForHideInvalidation: the queue, the tracking state, the queue again *)
(***************************************************************************)
BeginWait ==
    /\ Waits /\ wait = "idle"
    /\ wait' = "draining" /\ awaited' = owed \ InHand
    /\ UNCHANGED <<tracking, instantiated, queue, thread, obligations, refused, held>>

FindIdle ==
    /\ wait = "draining" /\ queue = {}
    /\ wait' = "idle queue"
    /\ UNCHANGED <<tracking, instantiated, queue, thread, obligations, refused, awaited, held>>

TrackingComplete == ~rootRefreshNeeded /\ deferredEntries = {} /\ deferredInodes = {}

\* Defect: only the root is asked for.
CheckRootOnly ==
    /\ wait = "idle queue"
    /\ wait' = IF rootRefreshNeeded THEN "failed" ELSE "tracking complete"
    /\ held' = InHand
    /\ UNCHANGED <<tracking, instantiated, queue, thread, obligations, refused, awaited>>

CheckTracking ==
    /\ wait = "idle queue"
    /\ wait' = IF TrackingComplete THEN "tracking complete" ELSE "failed"
    /\ held' = InHand
    /\ UNCHANGED <<tracking, instantiated, queue, thread, obligations, refused, awaited>>

Conclude ==
    /\ wait = "tracking complete"
    /\ wait' = IF queue = {} THEN "acknowledged" ELSE "failed"
    /\ UNCHANGED <<tracking, instantiated, queue, thread, obligations, refused, awaited, held>>

EndWait ==
    /\ wait \in {"acknowledged", "failed"}
    /\ wait' = "idle" /\ awaited' = {} /\ held' = {}
    /\ UNCHANGED <<tracking, instantiated, queue, thread, obligations, refused>>

-----------------------------------------------------------------------------
Next ==
    \/ \E t \in Thread :
          \/ ScheduleHiddenEntryInvalidation(t) \/ ScheduleOwedRoot(t)
          \/ ScheduleSpecificEntryInvalidation(t) \/ ScheduleHiddenInodeInvalidation(t)
          \/ Defer(t) \/ SeePath(t) \/ RememberRootParentInode(t)
          \/ RegisterSessionRootPath(t) \/ QueueInvalidation(t)
          \/ BeginProbe(t) \/ LookUpRootNode(t) \/ SkipAbsentRoot(t) \/ LearnRootNode(t)
    \/ Instantiate \/ Notify
    \/ BeginWait \/ FindIdle \/ CheckTracking \/ Conclude \/ EndWait

Spec == Init /\ [][Next]_vars

-----------------------------------------------------------------------------
\* Types; the deferred tables and the path table stay within their limits.
TypeOK ==
    /\ rootIno \in {Unknown, Root} /\ rootPath \in {Unknown, RootPath}
    /\ rootRefreshNeeded \in BOOLEAN /\ instantiated \in BOOLEAN
    /\ deferredEntries \subseteq Ino \X Name /\ Cardinality(deferredEntries) <= MaxDeferred
    /\ deferredInodes \subseteq Ino /\ Cardinality(deferredInodes) <= MaxDeferred
    /\ inodeToPath \in [Ino -> Path \cup {Unknown}]
    /\ Cardinality(Tracked \ {Root}) <= MaxTracked
    /\ pathToInode \in [Path -> Ino \cup {Unknown}]
    /\ queue \subseteq Task /\ owed \subseteq Task /\ refused \subseteq Task /\ awaited \subseteq owed
    /\ crossed \in BOOLEAN
    /\ thread \in [Thread -> ThreadState]
    /\ wait \in {"idle", "draining", "idle queue", "tracking complete", "acknowledged", "failed"}

\* The reverse map agrees with the map it reverses.
ReverseAgrees ==
    \A p \in Path : pathToInode[p] # Unknown => inodeToPath[pathToInode[p]] = p

DeferredTasks == {InodeTask(i) : i \in deferredInodes} \cup {EntryTask(e[1], e[2]) : e \in deferredEntries}

\* No request for an inode or an entry is lost between the look-up of a path,
\* the deferral and the reply that teaches the path: it is queued, put aside,
\* refused or in the hands of a thread.
RequestsAreKept ==
    owed \ {RootTask} \subseteq queue \cup InHand \cup DeferredTasks \cup refused

\* No root request is lost while the path table has room for the root, but one
\* that came behind the look-up of a probe that found no node.
RootRequestIsKept ==
    RootTask \in owed /\ ~crossed /\ Cardinality(Tracked) < MaxTracked =>
        RootTask \in queue \cup InHand \/ rootRefreshNeeded

\* "Skip only this Session's impossible root refresh, never one with a real child"
\* (ResolveUnknownPrimaryRootNodes): the request of a root that has a node is not lost.
RealRootIsRefreshed ==
    RootTask \in owed /\ Cardinality(Tracked) < MaxTracked =>
        RootTask \in queue \cup InHand \/ rootRefreshNeeded

\* A publication whose wait succeeds has left nothing behind of what was put
\* aside or queued before, but what a thread carried when the tracking state was
\* checked, a full table refused, or a root request that RootRequestIsKept leaves out.
AcknowledgedIsSettledOrInHand ==
    wait = "acknowledged" =>
        \A task \in awaited \ (refused \cup held) :
            task = RootTask /\ (crossed \/ Cardinality(Tracked) >= MaxTracked)

\* "The notification is deferred forever (and a later config reload correctly
\* remains ready=false)" (fuse_wrappers.cpp): while a request of before is
\* put aside or queued but not delivered, the wait does not succeed.
AcknowledgedIsSettled ==
    wait = "acknowledged" => awaited \subseteq refused

\* A request is deferred only while its inode has no path: the comment of
\* fuse_wrappers.cpp has the path remembered first so that it is not "deferred
\* forever".
DeferredMeansUnknown ==
    \A task \in DeferredTasks : LookupTrackedPathForInode(task.ino) = Unknown

\* A root request is given up for sessions that own no visible child, "never one
\* with a real child" (ResolveUnknownPrimaryRootNodes).
RootRequestSurvivesFullTable ==
    RootTask \in owed => RootTask \in queue \cup InHand \/ rootRefreshNeeded
=============================================================================

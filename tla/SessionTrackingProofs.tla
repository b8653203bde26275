------------------------ MODULE SessionTrackingProofs ------------------------
(***************************************************************************)
(* SessionTracking for any number of threads, inodes and names, and every  *)
(* limit of its tables: the two maps agree, no request is lost between     *)
(* them and the queue, and a wait that succeeds says what it seems to say. *)
(***************************************************************************)
EXTENDS SessionTracking, FiniteSetTheorems, TLAPS

FiniteTables == IsFiniteSet(deferredEntries) /\ IsFiniteSet(deferredInodes) /\ IsFiniteSet(Tracked)

Typed == TypeOK /\ FiniteTables

-----------------------------------------------------------------------------
(***************************************************************************)
(* Tasks and threads.                                                      *)
(***************************************************************************)
LEMMA Tasks ==
    /\ RootTask \in Task
    /\ \A i \in Ino : InodeTask(i) \in Task
    /\ \A i \in Ino, n \in Name : EntryTask(i, n) \in Task
    /\ \A task \in Task :
          /\ task.ino \in Ino
          /\ task.kind = "entry" => task.name \in Name /\ task = EntryTask(task.ino, task.name)
          /\ task.kind = "inode" => task = InodeTask(task.ino)
          /\ task.kind \notin {"entry", "inode"} => task = RootTask
<1>1. Root \in Ino
  BY TrackingAssumption
<1>2. /\ RootTask \in Task
      /\ \A i \in Ino : InodeTask(i) \in Task
      /\ \A i \in Ino, n \in Name : EntryTask(i, n) \in Task
  BY DEF Task
<1>3. ASSUME NEW task \in Task
      PROVE  /\ task.ino \in Ino
             /\ task.kind = "entry" => task.name \in Name /\ task = EntryTask(task.ino, task.name)
             /\ task.kind = "inode" => task = InodeTask(task.ino)
             /\ task.kind \notin {"entry", "inode"} => task = RootTask
  <2>1. CASE task = RootTask
    BY <1>1, <2>1 DEF RootTask
  <2>2. CASE \E i \in Ino : task = InodeTask(i)
    BY <2>2 DEF InodeTask
  <2>3. CASE \E i \in Ino, n \in Name : task = EntryTask(i, n)
    BY <2>3 DEF EntryTask
  <2> QED BY <2>1, <2>2, <2>3 DEF Task
<1> QED BY <1>2, <1>3

LEMMA IdleThread ==
    /\ Idle \in ThreadState /\ ~Idle.rooting /\ Idle.queueing = {} /\ Idle.deferring = {}
    /\ Idle.probe = "none"
BY DEF Idle, ThreadState

\* What a thread may become.
LEMMA ThreadStates ==
    ASSUME NEW s \in ThreadState
    PROVE  /\ \A b \in BOOLEAN : [s EXCEPT !.rooting = b] \in ThreadState
           /\ \A b \in BOOLEAN, Q \in SUBSET Task :
                 [s EXCEPT !.rooting = b, !.queueing = Q] \in ThreadState
           /\ \A task \in s.queueing :
                 task \in Task /\ [s EXCEPT !.queueing = @ \ {task}] \in ThreadState
           /\ \A task \in s.deferring :
                 task \in Task /\ [s EXCEPT !.deferring = @ \ {task}] \in ThreadState
           /\ \A b \in {"none", "begun", "absent", "found"} : [s EXCEPT !.probe = b] \in ThreadState
BY DEF ThreadState

\* The look-ups of Learn and of the public volume's root.
LEMMA TrackedSeen ==
    ASSUME Typed, NEW i \in Ino, NEW p \in Path, inodeToPath' = [inodeToPath EXCEPT ![i] = p]
    PROVE  Tracked' = Tracked \cup {i} /\ IsFiniteSet(Tracked')
<1>1. Tracked' = Tracked \cup {i}
  BY TrackingAssumption DEF Tracked, Typed, TypeOK
<1> QED BY <1>1, FS_AddElement DEF Typed, FiniteTables

LEMMA RememberTyped ==
    ASSUME Typed, NEW t \in Thread, NEW i \in Ino, NEW p \in Path,
           p = RootPath => i = Root,
           RememberTrackedPathForInode(t, i, p)
    PROVE  Typed'
<1>1. /\ rootIno' \in {Unknown, Root} /\ rootPath' \in {Unknown, RootPath} /\ rootRefreshNeeded' \in BOOLEAN
      /\ UNCHANGED <<instantiated, queue, obligations, refused, acknowledgement>>
  BY DEF RememberTrackedPathForInode, Typed, TypeOK, root
<1>2. CASE UNCHANGED <<deferred, maps>> /\ thread' = [thread EXCEPT ![t] = Idle]
  BY <1>1, <1>2, IdleThread
     DEF Typed, TypeOK, FiniteTables, Tracked, deferred, maps, obligations, acknowledgement
<1>3. CASE /\ inodeToPath[i] # Unknown \/ Cardinality(Tracked) < MaxTracked
           /\ Learn(t, i, p, p = RootPath /\ rootIno \in {Unknown, i} /\ rootRefreshNeeded)
  <2>1. deferredEntries' \subseteq deferredEntries /\ deferredInodes' \subseteq deferredInodes
    BY <1>3 DEF Learn
  <2>2. /\ IsFiniteSet(deferredEntries') /\ Cardinality(deferredEntries') <= MaxDeferred
        /\ IsFiniteSet(deferredInodes') /\ Cardinality(deferredInodes') <= MaxDeferred
    <3>1. /\ IsFiniteSet(deferredEntries) /\ Cardinality(deferredEntries) <= MaxDeferred
          /\ IsFiniteSet(deferredInodes) /\ Cardinality(deferredInodes) <= MaxDeferred
      BY DEF Typed, TypeOK, FiniteTables
    <3>2. /\ IsFiniteSet(deferredEntries') /\ Cardinality(deferredEntries') <= Cardinality(deferredEntries)
          /\ IsFiniteSet(deferredInodes') /\ Cardinality(deferredInodes') <= Cardinality(deferredInodes)
      BY <2>1, <3>1, FS_Subset
    <3>3. /\ Cardinality(deferredEntries) \in Nat /\ Cardinality(deferredEntries') \in Nat
          /\ Cardinality(deferredInodes) \in Nat /\ Cardinality(deferredInodes') \in Nat
      BY <3>1, <3>2, FS_CardinalityType
    <3> QED BY <3>1, <3>2, <3>3, TrackingAssumption
  <2>3. Tracked' = Tracked \cup {i} /\ IsFiniteSet(Tracked')
    BY <1>3, TrackedSeen DEF Learn
  <2>4. Cardinality(Tracked' \ {Root}) <= MaxTracked
    <3>1. CASE i = Root \/ i \in Tracked
      <4>1. Tracked' \ {Root} = Tracked \ {Root}
        BY <2>3, <3>1
      <4> QED BY <4>1 DEF Typed, TypeOK
    <3>2. CASE i # Root /\ i \notin Tracked
      <4>1. Cardinality(Tracked) < MaxTracked
        BY <1>3, <3>2 DEF Tracked
      <4>2. Cardinality(Tracked') = Cardinality(Tracked) + 1 /\ Cardinality(Tracked) \in Nat
        BY <2>3, <3>2, FS_AddElement, FS_CardinalityType DEF Typed, FiniteTables
      <4>3. /\ Cardinality(Tracked' \ {Root}) <= Cardinality(Tracked')
            /\ Cardinality(Tracked' \ {Root}) \in Nat
        BY <2>3, FS_RemoveElement, FS_Subset, FS_CardinalityType
      <4> QED BY <4>1, <4>2, <4>3, TrackingAssumption
    <3> QED BY <3>1, <3>2
  <2>5. inodeToPath' \in [Ino -> Path \cup {Unknown}]
    BY <1>3 DEF Learn, Typed, TypeOK
  <2>6. pathToInode' \in [Path -> Ino \cup {Unknown}]
    BY <1>3 DEF Learn, ReverseMap, Typed, TypeOK
  <2>7. thread' \in [Thread -> ThreadState]
    <3>1. Waiting(i) \in SUBSET Task
      BY Tasks DEF Waiting
    <3> DEFINE refresh == p = RootPath /\ rootIno \in {Unknown, i} /\ rootRefreshNeeded
    <3>2. refresh \in BOOLEAN
      OBVIOUS
    <3> HIDE DEF refresh
    <3>3. [Idle EXCEPT !.queueing = Waiting(i), !.rooting = refresh] \in ThreadState
      BY <3>1, <3>2 DEF Idle, ThreadState
    <3>4. thread' = [thread EXCEPT ![t] = [Idle EXCEPT !.queueing = Waiting(i), !.rooting = refresh]]
      BY <1>3 DEF Learn, refresh
    <3> QED BY <3>3, <3>4 DEF Typed, TypeOK
  <2> QED BY <1>1, <2>1, <2>2, <2>3, <2>4, <2>5, <2>6, <2>7
          DEF Typed, TypeOK, FiniteTables, obligations, acknowledgement
<1> QED BY <1>2, <1>3 DEF RememberTrackedPathForInode

LEMMA ScheduleRootThread ==
    ASSUME Typed, NEW t \in Thread, NEW unowed \in BOOLEAN, ScheduleRoot(t, unowed)
    PROVE  /\ thread' \in [Thread -> ThreadState]
           /\ rootRefreshNeeded' \in BOOLEAN
<1>1. thread[t] \in ThreadState
  BY DEF Typed, TypeOK
<1> DEFINE after == [thread[t] EXCEPT !.rooting = FALSE]
<1>2. after \in ThreadState /\ [after EXCEPT !.queueing = @ \cup {RootTask}] \in ThreadState
  BY <1>1, Tasks DEF ThreadState
<1>3. \/ thread' = [thread EXCEPT ![t] = after]
      \/ thread' = [thread EXCEPT ![t] = [after EXCEPT !.queueing = @ \cup {RootTask}]]
  BY DEF ScheduleRoot
<1>4. rootRefreshNeeded' \in BOOLEAN
  BY DEF ScheduleRoot, Typed, TypeOK
<1> HIDE DEF after
<1> QED BY <1>2, <1>3, <1>4 DEF Typed, TypeOK

LEMMA DeferTyped ==
    ASSUME Typed, NEW t \in Thread, Defer(t)
    PROVE  Typed'
<1>1. PICK task \in thread[t].deferring :
         /\ PutAside(task)
         /\ rootRefreshNeeded' = TRUE
         /\ thread' = [thread EXCEPT ![t].deferring = @ \ {task}]
         /\ UNCHANGED <<rootIno, rootPath, maps, instantiated, queue, obligations, acknowledgement>>
  BY DEF Defer
<1>2. /\ thread[t] \in ThreadState /\ task \in Task /\ task.ino \in Ino
      /\ task.kind = "entry" => task.name \in Name
  <2>1. thread[t] \in ThreadState
    BY DEF Typed, TypeOK
  <2>2. task \in Task
    BY <2>1 DEF ThreadState
  <2> QED BY <2>1, <2>2, Tasks
<1>3. /\ deferredEntries' \subseteq Ino \X Name /\ IsFiniteSet(deferredEntries')
      /\ Cardinality(deferredEntries') <= MaxDeferred
  <2>1. CASE deferredEntries' = deferredEntries
    BY <2>1 DEF Typed, TypeOK, FiniteTables
  <2>2. CASE /\ task.kind = "entry" /\ HasRoom(task)
             /\ deferredEntries' = deferredEntries \cup {Entry(task)}
    <3>1. Entry(task) \in Ino \X Name
      BY <1>2, <2>2 DEF Entry
    <3>2. Entry(task) \in deferredEntries \/ Cardinality(deferredEntries) < MaxDeferred
      BY <2>2 DEF HasRoom
    <3>3. /\ IsFiniteSet(deferredEntries') /\ Cardinality(deferredEntries) \in Nat
          /\ Cardinality(deferredEntries')
               = IF Entry(task) \in deferredEntries THEN Cardinality(deferredEntries)
                 ELSE Cardinality(deferredEntries) + 1
      BY <2>2, FS_AddElement, FS_CardinalityType DEF Typed, FiniteTables
    <3>4. deferredEntries' = deferredEntries \cup {Entry(task)}
      BY <2>2
    <3>5. deferredEntries \subseteq Ino \X Name /\ Cardinality(deferredEntries) <= MaxDeferred
      BY DEF Typed, TypeOK
    <3>6. deferredEntries' \subseteq Ino \X Name
      BY <3>1, <3>4, <3>5
    <3>7. Cardinality(deferredEntries') <= MaxDeferred
      BY <3>2, <3>3, <3>5, TrackingAssumption
    <3> QED BY <3>3, <3>6, <3>7
  <2>3. \/ deferredEntries' = deferredEntries
        \/ /\ task.kind = "entry" /\ HasRoom(task)
           /\ deferredEntries' = deferredEntries \cup {Entry(task)}
    BY <1>1, Zenon DEF PutAside
  <2> QED BY <2>1, <2>2, <2>3
<1>4. /\ deferredInodes' \subseteq Ino /\ IsFiniteSet(deferredInodes')
      /\ Cardinality(deferredInodes') <= MaxDeferred
  <2>1. CASE deferredInodes' = deferredInodes
    BY <2>1 DEF Typed, TypeOK, FiniteTables
  <2>2. CASE /\ task.kind = "inode" /\ HasRoom(task)
             /\ deferredInodes' = deferredInodes \cup {task.ino}
    <3>1. task.ino \in deferredInodes \/ Cardinality(deferredInodes) < MaxDeferred
      BY <2>2 DEF HasRoom
    <3>2. /\ IsFiniteSet(deferredInodes') /\ Cardinality(deferredInodes) \in Nat
          /\ Cardinality(deferredInodes')
               = IF task.ino \in deferredInodes THEN Cardinality(deferredInodes)
                 ELSE Cardinality(deferredInodes) + 1
      BY <2>2, FS_AddElement, FS_CardinalityType DEF Typed, FiniteTables
    <3>3. deferredInodes' = deferredInodes \cup {task.ino}
      BY <2>2
    <3>4. deferredInodes \subseteq Ino /\ Cardinality(deferredInodes) <= MaxDeferred
      BY DEF Typed, TypeOK
    <3>5. deferredInodes' \subseteq Ino
      BY <1>2, <3>3, <3>4
    <3>6. Cardinality(deferredInodes') <= MaxDeferred
      BY <3>1, <3>2, <3>4, TrackingAssumption
    <3> QED BY <3>2, <3>5, <3>6
  <2>3. \/ deferredInodes' = deferredInodes
        \/ /\ task.kind = "inode" /\ HasRoom(task)
           /\ deferredInodes' = deferredInodes \cup {task.ino}
    BY <1>1, Zenon DEF PutAside
  <2> QED BY <2>1, <2>2, <2>3
<1>5. refused' \subseteq Task
  BY <1>1, <1>2 DEF PutAside, Typed, TypeOK
<1>6. thread' \in [Thread -> ThreadState]
  <2>1. [thread[t] EXCEPT !.deferring = @ \ {task}] \in ThreadState
    BY <1>2, ThreadStates
  <2>2. thread' = [thread EXCEPT ![t] = [thread[t] EXCEPT !.deferring = @ \ {task}]]
    BY <1>1
  <2> QED BY <2>1, <2>2 DEF Typed, TypeOK
<1>7. /\ rootRefreshNeeded' = TRUE
      /\ UNCHANGED <<rootIno, rootPath, maps, instantiated, queue, obligations, acknowledgement>>
  BY <1>1
<1> QED BY <1>3, <1>4, <1>5, <1>6, <1>7
        DEF Typed, TypeOK, FiniteTables, Tracked, maps, obligations, acknowledgement

\* A step that leaves the maps and the deferred tables alone.
LEMMA TablesStay ==
    ASSUME Typed, UNCHANGED <<deferred, maps>>,
           rootIno' \in {Unknown, Root}, rootPath' \in {Unknown, RootPath},
           rootRefreshNeeded' \in BOOLEAN, instantiated' \in BOOLEAN,
           queue' \subseteq Task, owed' \subseteq Task, crossed' \in BOOLEAN,
           refused' \subseteq Task, awaited' \subseteq owed', thread' \in [Thread -> ThreadState],
           wait' \in {"idle", "draining", "idle queue", "tracking complete", "acknowledged", "failed"}
    PROVE  Typed'
BY DEF Typed, TypeOK, FiniteTables, Tracked, deferred, maps

LEMMA RequestTyped ==
    ASSUME Typed, NEW t \in Thread, NEW task \in Task, NEW sweeps \in BOOLEAN,
           Request(t, task, sweeps)
    PROVE  Typed'
<1>1. /\ [Idle EXCEPT !.deferring = {task}] \in ThreadState
      /\ [Idle EXCEPT !.rooting = TRUE] \in ThreadState
      /\ [Idle EXCEPT !.queueing = {task}] \in ThreadState
  BY DEF Idle, ThreadState
<1>2. thread' \in [Thread -> ThreadState]
  <2>1. \E d \in ThreadState : thread' = [thread EXCEPT ![t] = d]
    BY <1>1 DEF Request
  <2> QED BY <2>1 DEF Typed, TypeOK
<1>3. owed' \subseteq Task /\ owed \subseteq owed' /\ crossed' \in BOOLEAN
  BY Tasks DEF Request, Owes, Obligation, Typed, TypeOK
<1> QED BY <1>2, <1>3, TablesStay
        DEF Request, Typed, TypeOK, tracking, root, acknowledgement

LEMMA RegisterTyped ==
    ASSUME Typed, NEW t \in Thread, RegisterSessionRootPath(t)
    PROVE  Typed'
<1>1. thread' \in [Thread -> ThreadState]
  <2>1. [thread[t] EXCEPT !.rooting = rootRefreshNeeded] \in ThreadState
    BY ThreadStates DEF Typed, TypeOK
  <2> QED BY <2>1 DEF RegisterSessionRootPath, Typed, TypeOK
<1>2. /\ rootPath' = RootPath /\ rootRefreshNeeded' = FALSE
      /\ UNCHANGED <<deferredEntries, deferredInodes, instantiated, queue, owed, crossed, refused,
                    awaited, wait>>
  BY DEF RegisterSessionRootPath, deferred, obligations, acknowledgement
<1>3. CASE PublicVolume /\ rootIno = Unknown
  <2>1. Root \in Ino /\ RootPath \in Path
    BY TrackingAssumption
  <2>2. /\ inodeToPath' = [inodeToPath EXCEPT ![Root] = IF @ = Unknown THEN RootPath ELSE @]
        /\ pathToInode' = [pathToInode EXCEPT ![RootPath] = IF @ = Unknown THEN Root ELSE @]
        /\ rootIno' = Root
    BY <1>3 DEF RegisterSessionRootPath
  <2>3. /\ inodeToPath' \in [Ino -> Path \cup {Unknown}]
        /\ pathToInode' \in [Path -> Ino \cup {Unknown}]
    BY <2>1, <2>2 DEF Typed, TypeOK
  <2>4. Tracked' = Tracked \cup {Root}
    BY <2>1, <2>2, TrackingAssumption DEF Typed, TypeOK, Tracked
  <2>5. IsFiniteSet(Tracked') /\ Tracked' \ {Root} = Tracked \ {Root}
    BY <2>4, FS_AddElement DEF Typed, FiniteTables
  <2> QED BY <1>1, <1>2, <2>2, <2>3, <2>5 DEF Typed, TypeOK, FiniteTables
<1>4. CASE ~(PublicVolume /\ rootIno = Unknown)
  <2>1. UNCHANGED <<rootIno, deferred, maps>>
    BY <1>4 DEF RegisterSessionRootPath
  <2>2. rootIno' \in {Unknown, Root} /\ instantiated' \in BOOLEAN /\ queue' \subseteq Task
        /\ owed' \subseteq Task /\ crossed' \in BOOLEAN /\ refused' \subseteq Task
        /\ awaited' \subseteq owed'
        /\ wait' \in {"idle", "draining", "idle queue", "tracking complete", "acknowledged", "failed"}
    BY <1>2, <2>1 DEF Typed, TypeOK
  <2> QED BY <1>1, <1>2, <2>1, <2>2, TablesStay
<1> QED BY <1>3, <1>4


LEMMA ScheduleTyped ==
    ASSUME Typed, NEW t \in Thread,
           ScheduleHiddenEntryInvalidation(t) \/ ScheduleOwedRoot(t)
    PROVE  Typed'
<1>1. PICK unowed \in BOOLEAN :
         /\ ScheduleRoot(t, unowed)
         /\ \/ Owes(IF unowed THEN owed \ {RootTask} ELSE owed \cup Obligation(RootTask))
            \/ Owes(IF unowed THEN owed \ {RootTask} ELSE owed)
         /\ awaited' = IF unowed THEN awaited \ {RootTask} ELSE awaited
         /\ UNCHANGED <<rootIno, rootPath, deferred, maps, instantiated, queue, refused, wait, held>>
  BY DEF ScheduleHiddenEntryInvalidation, ScheduleOwedRoot
<1>2. thread' \in [Thread -> ThreadState] /\ rootRefreshNeeded' \in BOOLEAN
  BY <1>1, ScheduleRootThread
<1>3. owed' \subseteq Task /\ awaited' \subseteq owed' /\ crossed' \in BOOLEAN
  BY <1>1, Tasks DEF Owes, Obligation, Typed, TypeOK
<1>4. UNCHANGED <<rootIno, rootPath, deferred, maps, instantiated, queue, refused, wait>>
  BY <1>1
<1> QED BY <1>2, <1>3, <1>4, TablesStay DEF Typed, TypeOK

LEMMA TypedNext ==
    ASSUME Typed, [Next]_vars
    PROVE  Typed'
<1>1. ASSUME NEW t \in Thread, ScheduleSpecificEntryInvalidation(t)
      PROVE  Typed'
  <2>1. PICK i \in EntryIno, n \in Name :
           Request(t, EntryTask(i, n), HideAll /\ LookupTrackedPathForInode(i) = RootPath)
    BY <1>1 DEF ScheduleSpecificEntryInvalidation
  <2>2. EntryTask(i, n) \in Task
    BY Tasks, TrackingAssumption
  <2>3. (HideAll /\ LookupTrackedPathForInode(i) = RootPath) \in BOOLEAN
    OBVIOUS
  <2> QED BY <2>1, <2>2, <2>3, RequestTyped
<1>2. ASSUME NEW t \in Thread, ScheduleHiddenInodeInvalidation(t)
      PROVE  Typed'
  BY <1>2, Tasks, RequestTyped, TrackingAssumption DEF ScheduleHiddenInodeInvalidation
<1>3. ASSUME NEW t \in Thread, SeePath(t)
      PROVE  Typed'
  BY <1>3, RememberTyped, TrackingAssumption DEF SeePath
<1>4. ASSUME NEW t \in Thread, RememberRootParentInode(t)
      PROVE  Typed'
  <2> DEFINE flush == rootIno' = Root /\ rootPath # Unknown /\ rootRefreshNeeded
  <2>1. thread' = [thread EXCEPT ![t] = [thread[t] EXCEPT !.rooting = flush]]
        /\ rootRefreshNeeded' = (rootRefreshNeeded /\ ~flush)
    BY <1>4 DEF RememberRootParentInode
  <2>2. flush \in BOOLEAN
    OBVIOUS
  <2> HIDE DEF flush
  <2>3. [thread[t] EXCEPT !.rooting = flush] \in ThreadState
    BY <2>2, ThreadStates DEF Typed, TypeOK
  <2>4. thread' \in [Thread -> ThreadState] /\ rootRefreshNeeded' \in BOOLEAN
    BY <2>1, <2>3 DEF Typed, TypeOK
  <2> QED BY <1>4, <2>4, TablesStay DEF RememberRootParentInode, Typed, TypeOK, obligations, acknowledgement
<1>5. ASSUME NEW t \in Thread, BeginProbe(t) \/ LookUpRootNode(t) \/ SkipAbsentRoot(t)
      PROVE  Typed'
  <2>1. \E d \in ThreadState : thread' = [thread EXCEPT ![t] = d]
    <3>1. thread[t] \in ThreadState
      BY DEF Typed, TypeOK
    <3> QED BY <1>5, <3>1, ThreadStates, IdleThread DEF BeginProbe, LookUpRootNode, SkipAbsentRoot
  <2>2. thread' \in [Thread -> ThreadState]
    BY <2>1 DEF Typed, TypeOK
  <2>3. /\ rootRefreshNeeded' \in BOOLEAN
        /\ UNCHANGED <<rootIno, rootPath, deferred, maps, instantiated, queue, obligations, refused, acknowledgement>>
    BY <1>5 DEF BeginProbe, LookUpRootNode, SkipAbsentRoot, Typed, TypeOK, tracking, root
  <2> QED BY <2>2, <2>3, TablesStay DEF Typed, TypeOK, obligations, acknowledgement
<1>11. ASSUME NEW t \in Thread, LearnRootNode(t)
       PROVE  Typed'
  BY <1>11, RememberTyped, TrackingAssumption DEF LearnRootNode
<1>6. ASSUME NEW t \in Thread, QueueInvalidation(t)
      PROVE  Typed'
  <2>1. PICK task \in thread[t].queueing :
           /\ queue' = queue \cup {task}
           /\ thread' = [thread EXCEPT ![t].queueing = @ \ {task}]
           /\ UNCHANGED <<tracking, instantiated, obligations, refused, acknowledgement>>
    BY <1>6 DEF QueueInvalidation
  <2>2. task \in Task /\ [thread[t] EXCEPT !.queueing = @ \ {task}] \in ThreadState
    BY ThreadStates DEF Typed, TypeOK
  <2>3. thread' \in [Thread -> ThreadState]
    BY <2>1, <2>2 DEF Typed, TypeOK
  <2> QED BY <2>1, <2>2, <2>3, TablesStay DEF Typed, TypeOK, tracking, root, obligations, acknowledgement
<1>7. CASE Instantiate
  BY <1>7, TablesStay DEF Instantiate, Typed, TypeOK, tracking, root, obligations, acknowledgement
<1>8. CASE Notify
  BY <1>8, TablesStay DEF Notify, Owes, Typed, TypeOK, tracking, root
<1>9. CASE BeginWait \/ FindIdle \/ CheckTracking \/ Conclude \/ EndWait
  <2>1. UNCHANGED <<tracking, instantiated, queue, thread, obligations, refused>>
    BY <1>9 DEF BeginWait, FindIdle, CheckTracking, Conclude, EndWait
  <2>2. awaited' \subseteq owed /\ wait' \in {"idle", "draining", "idle queue", "tracking complete", "acknowledged", "failed"}
    BY <1>9 DEF BeginWait, FindIdle, CheckTracking, Conclude, EndWait, Typed, TypeOK
  <2> QED BY <2>1, <2>2, TablesStay DEF Typed, TypeOK, tracking, root, obligations
<1>10. CASE UNCHANGED vars
  BY <1>10, TablesStay DEF vars, Typed, TypeOK, tracking, root, obligations, acknowledgement
<1> QED BY <1>1, <1>2, <1>3, <1>4, <1>5, <1>6, <1>7, <1>8, <1>9, <1>10, <1>11,
           ScheduleTyped, DeferTyped, RegisterTyped DEF Next

LEMMA TypedInit == Init => Typed
<1> SUFFICES ASSUME Init PROVE Typed
  OBVIOUS
<1>1. Tracked = {} /\ deferredEntries = {} /\ deferredInodes = {}
  BY DEF Init, Tracked
<1>2. FiniteTables /\ Cardinality({}) = 0 /\ Tracked \ {Root} = {}
  BY <1>1, FS_EmptySet DEF FiniteTables
<1>3. thread \in [Thread -> ThreadState]
  BY IdleThread DEF Init
<1>4. /\ Cardinality(deferredEntries) <= MaxDeferred /\ Cardinality(deferredInodes) <= MaxDeferred
      /\ Cardinality(Tracked \ {Root}) <= MaxTracked
  BY <1>1, <1>2, TrackingAssumption
<1>5. /\ inodeToPath \in [Ino -> Path \cup {Unknown}] /\ pathToInode \in [Path -> Ino \cup {Unknown}]
      /\ instantiated \in BOOLEAN
  BY TrackingAssumption DEF Init
<1> QED BY <1>1, <1>2, <1>3, <1>4, <1>5 DEF Init, Typed, TypeOK

\* Types, and the limits of the tables: the deferred sets never hold more than
\* MaxDeferred members and the path table no more than MaxTracked besides the
\* root, whatever the threads do between two holds of the mutex.
THEOREM TrackingTyped == Spec => []TypeOK
<1>1. Typed /\ [Next]_vars => Typed'
  BY TypedNext
<1>2. Typed => TypeOK
  BY DEF Typed
<1> QED BY <1>1, <1>2, TypedInit, PTL DEF Spec

-----------------------------------------------------------------------------
(***************************************************************************)
(* The two maps.  The visible root is only ever seen at its own path, so   *)
(* no other inode takes that path and no entry of the reverse map is left  *)
(* behind by it.                                                           *)
(***************************************************************************)
RootAtItsPath == inodeToPath[Root] \in {Unknown, RootPath}

MapsAgree == ReverseAgrees /\ RootAtItsPath

LEMMA LearnKeepsMaps ==
    ASSUME Typed, MapsAgree, NEW i \in Ino, NEW p \in Path,
           i = Root => p = RootPath,
           inodeToPath' = [inodeToPath EXCEPT ![i] = p],
           pathToInode' = ReverseMap(i, p)
    PROVE  MapsAgree'
<1>1. /\ inodeToPath'[i] = p
      /\ \A j \in Ino \ {i} : inodeToPath'[j] = inodeToPath[j]
      /\ Unknown \notin Ino
  BY TrackingAssumption DEF Typed, TypeOK
<1>2. /\ pathToInode'[p] = i
      /\ \A q \in Path \ {p} :
            pathToInode'[q] = IF q = inodeToPath[i] /\ pathToInode[q] = i THEN Unknown ELSE pathToInode[q]
  BY DEF Typed, TypeOK, ReverseMap
<1>3. ASSUME NEW q \in Path, pathToInode'[q] # Unknown
      PROVE  inodeToPath'[pathToInode'[q]] = q
  <2>1. CASE q = p
    BY <1>1, <1>2, <2>1
  <2>2. CASE q # p
    <3>1. pathToInode'[q] = pathToInode[q] /\ pathToInode[q] \in Ino
      BY <1>2, <1>3, <2>2 DEF Typed, TypeOK
    <3>2. inodeToPath[pathToInode[q]] = q
      BY <1>3, <3>1 DEF MapsAgree, ReverseAgrees
    <3>3. pathToInode[q] # i
      BY <1>2, <1>3, <2>2, <3>2
    <3> QED BY <1>1, <3>1, <3>2, <3>3
  <2> QED BY <2>1, <2>2
<1>4. RootAtItsPath'
  BY <1>1, TrackingAssumption DEF MapsAgree, RootAtItsPath
<1> QED BY <1>3, <1>4 DEF MapsAgree, ReverseAgrees

LEMMA MapsStay ==
    ASSUME MapsAgree, UNCHANGED maps
    PROVE  MapsAgree'
BY DEF MapsAgree, ReverseAgrees, RootAtItsPath, maps

LEMMA RememberKeepsMaps ==
    ASSUME Typed, MapsAgree, NEW t \in Thread, NEW i \in Ino, NEW p \in Path,
           i = Root => p = RootPath,
           RememberTrackedPathForInode(t, i, p)
    PROVE  MapsAgree'
<1>1. CASE UNCHANGED maps
  BY <1>1, MapsStay
<1>2. CASE /\ inodeToPath' = [inodeToPath EXCEPT ![i] = p]
           /\ pathToInode' = ReverseMap(i, p)
  BY <1>2, LearnKeepsMaps
<1> QED BY <1>1, <1>2 DEF RememberTrackedPathForInode, Learn

LEMMA RegisterKeepsMaps ==
    ASSUME Typed, MapsAgree, NEW t \in Thread, RegisterSessionRootPath(t)
    PROVE  MapsAgree'
<1>1. CASE UNCHANGED maps
  BY <1>1, MapsStay
<1>2. CASE /\ inodeToPath' = [inodeToPath EXCEPT ![Root] = IF @ = Unknown THEN RootPath ELSE @]
           /\ pathToInode' = [pathToInode EXCEPT ![RootPath] = IF @ = Unknown THEN Root ELSE @]
  <2>1. /\ inodeToPath'[Root] = RootPath
        /\ \A j \in Ino \ {Root} : inodeToPath'[j] = inodeToPath[j]
        /\ Unknown \notin Ino
    BY <1>2, TrackingAssumption DEF Typed, TypeOK, MapsAgree, RootAtItsPath
  <2>2. /\ pathToInode'[RootPath] = IF pathToInode[RootPath] = Unknown THEN Root ELSE pathToInode[RootPath]
        /\ \A q \in Path \ {RootPath} : pathToInode'[q] = pathToInode[q]
    BY <1>2, TrackingAssumption DEF Typed, TypeOK
  <2>3. ASSUME NEW q \in Path, pathToInode'[q] # Unknown
        PROVE  inodeToPath'[pathToInode'[q]] = q
    <3>1. CASE q = RootPath /\ pathToInode[RootPath] = Unknown
      BY <2>1, <2>2, <3>1
    <3>2. CASE ~(q = RootPath /\ pathToInode[RootPath] = Unknown)
      <4>1. pathToInode'[q] = pathToInode[q] /\ pathToInode[q] \in Ino
        BY <2>2, <2>3, <3>2 DEF Typed, TypeOK
      <4>2. inodeToPath[pathToInode[q]] = q
        BY <2>3, <4>1 DEF MapsAgree, ReverseAgrees
      <4>3. pathToInode[q] = Root => q = RootPath
        BY <4>2, TrackingAssumption DEF MapsAgree, RootAtItsPath
      <4> QED BY <2>1, <4>1, <4>2, <4>3
    <3> QED BY <3>1, <3>2
  <2> QED BY <2>1, <2>3 DEF MapsAgree, ReverseAgrees, RootAtItsPath
<1> QED BY <1>1, <1>2 DEF RegisterSessionRootPath, maps

\* The steps that change a map.
LEMMA MapSteps ==
    ASSUME [Next]_vars
    PROVE  \/ UNCHANGED maps
           \/ \E t \in Thread : RegisterSessionRootPath(t)
           \/ \E t \in Thread, i \in Ino, p \in Path :
                 (i = Root <=> p = RootPath) /\ RememberTrackedPathForInode(t, i, p)
<1>1. ASSUME NEW t \in Thread, SeePath(t)
      PROVE  \E i \in Ino, p \in Path :
                 (i = Root <=> p = RootPath) /\ RememberTrackedPathForInode(t, i, p)
  BY <1>1, TrackingAssumption DEF SeePath
<1>2. ASSUME NEW t \in Thread, LearnRootNode(t)
      PROVE  RememberTrackedPathForInode(t, Root, RootPath)
  BY <1>2 DEF LearnRootNode
<1>3. ASSUME NEW t \in Thread,
             \/ ScheduleHiddenEntryInvalidation(t) \/ ScheduleOwedRoot(t)
             \/ ScheduleSpecificEntryInvalidation(t) \/ ScheduleHiddenInodeInvalidation(t)
             \/ Defer(t) \/ RememberRootParentInode(t) \/ QueueInvalidation(t)
             \/ BeginProbe(t) \/ LookUpRootNode(t) \/ SkipAbsentRoot(t)
      PROVE  UNCHANGED maps
  BY <1>3 DEF ScheduleHiddenEntryInvalidation, ScheduleOwedRoot, ScheduleSpecificEntryInvalidation,
              ScheduleHiddenInodeInvalidation, Request, Defer, RememberRootParentInode,
              QueueInvalidation, BeginProbe, LookUpRootNode, SkipAbsentRoot, tracking
<1>4. CASE Instantiate \/ Notify \/ BeginWait \/ FindIdle \/ CheckTracking \/ Conclude \/ EndWait \/ UNCHANGED vars
  BY <1>4 DEF Instantiate, Notify, BeginWait, FindIdle, CheckTracking, Conclude, EndWait, vars, tracking
<1> QED BY <1>1, <1>2, <1>3, <1>4, TrackingAssumption DEF Next

LEMMA MapsNext ==
    ASSUME Typed, MapsAgree, [Next]_vars
    PROVE  MapsAgree'
BY MapSteps, MapsStay, RememberKeepsMaps, RegisterKeepsMaps

\* The path that names an inode in the reverse map is the path of that inode,
\* however often inodes are renamed, take each other's paths or are refused a
\* place in a full table.
THEOREM MapsAgreeAlways == Spec => []ReverseAgrees
<1>1. Init => MapsAgree
  BY TrackingAssumption DEF Init, MapsAgree, ReverseAgrees, RootAtItsPath
<1>2. (Typed /\ MapsAgree) /\ [Next]_vars => (Typed /\ MapsAgree)'
  BY TypedNext, MapsNext
<1>3. Typed /\ MapsAgree => ReverseAgrees
  BY DEF MapsAgree
<1> QED BY <1>1, <1>2, <1>3, TypedInit, PTL DEF Spec

-----------------------------------------------------------------------------
(***************************************************************************)
(* Probes.  A thread that asks the node tree for the root carries nothing, *)
(* and one that found no node knows that no root was owed when it looked:  *)
(* what is owed now came behind its look-up.                               *)
(***************************************************************************)
TasksOf(s) == s.queueing \cup s.deferring \cup (IF s.rooting THEN {RootTask} ELSE {})

ProbersCarryNothing == \A t \in Thread : thread[t].probe # "none" => TasksOf(thread[t]) = {}

AbsentOwesNothing ==
    /\ RootTask \in owed => instantiated
    /\ RootTask \in owed /\ ProbedAbsent => crossed

Probing == ProbersCarryNothing /\ AbsentOwesNothing

LEMMA OwesCrosses ==
    ASSUME Typed, NEW tasks, Owes(tasks)
    PROVE  /\ RootTask \in owed \cap owed' => (crossed' <=> crossed)
           /\ RootTask \in owed' \ owed /\ ProbedAbsent => crossed'
<1>1. owed' = tasks /\ crossed \in BOOLEAN
  BY DEF Owes, Typed, TypeOK
<1>2. crossed' = (RootTask \in tasks /\ (crossed \/ (RootTask \notin owed /\ ProbedAbsent)))
  BY DEF Owes
<1>3. ASSUME RootTask \in owed, RootTask \in tasks
      PROVE  crossed' <=> crossed
  BY <1>2, <1>3, Zenon
<1>4. ASSUME RootTask \notin owed, RootTask \in tasks, ProbedAbsent
      PROVE  crossed'
  BY <1>2, <1>4, Zenon
<1>5. (RootTask \in owed \cap owed' <=> RootTask \in owed /\ RootTask \in tasks)
      /\ (RootTask \in owed' \ owed <=> RootTask \notin owed /\ RootTask \in tasks)
  BY <1>1
<1> QED BY <1>3, <1>4, <1>5, Zenon

\* What a step does to the obligation of the root.
LEMMA ObligationSteps ==
    ASSUME Typed, [Next]_vars
    PROVE  /\ RootTask \in owed \cap owed' => (crossed' <=> crossed)
           /\ RootTask \in owed' \ owed => instantiated /\ (ProbedAbsent => crossed')
           /\ instantiated => instantiated'
<1>1. ASSUME NEW tasks, Owes(tasks), RootTask \in tasks => RootTask \in owed \/ instantiated,
             UNCHANGED instantiated
      PROVE  /\ RootTask \in owed \cap owed' => (crossed' <=> crossed)
             /\ RootTask \in owed' \ owed => instantiated /\ (ProbedAbsent => crossed')
             /\ instantiated => instantiated'
  BY <1>1, OwesCrosses DEF Owes
<1>2. ASSUME NEW t \in Thread, ScheduleHiddenEntryInvalidation(t) \/ ScheduleOwedRoot(t)
      PROVE  \E tasks : /\ Owes(tasks) /\ UNCHANGED instantiated
                        /\ RootTask \in tasks => RootTask \in owed \/ instantiated
  <2>1. PICK unowed \in BOOLEAN :
           /\ \/ Owes(IF unowed THEN owed \ {RootTask} ELSE owed \cup Obligation(RootTask))
              \/ Owes(IF unowed THEN owed \ {RootTask} ELSE owed)
           /\ UNCHANGED instantiated
    BY <1>2 DEF ScheduleHiddenEntryInvalidation, ScheduleOwedRoot
  <2> QED BY <2>1 DEF Obligation
<1>3. ASSUME NEW t \in Thread, NEW task, NEW sweeps, Request(t, task, sweeps)
      PROVE  \E tasks : /\ Owes(tasks) /\ UNCHANGED instantiated
                        /\ RootTask \in tasks => RootTask \in owed \/ instantiated
  BY <1>3 DEF Request, Obligation
<1>4. CASE Notify
  BY <1>1, <1>4 DEF Notify
<1>5. ASSUME UNCHANGED obligations, instantiated => instantiated'
      PROVE  /\ RootTask \in owed \cap owed' => (crossed' <=> crossed)
             /\ RootTask \in owed' \ owed => instantiated /\ (ProbedAbsent => crossed')
             /\ instantiated => instantiated'
  BY <1>5 DEF obligations
<1>6. ASSUME NEW t \in Thread,
             \/ Defer(t) \/ SeePath(t) \/ RememberRootParentInode(t)
             \/ RegisterSessionRootPath(t) \/ QueueInvalidation(t)
             \/ BeginProbe(t) \/ LookUpRootNode(t) \/ SkipAbsentRoot(t) \/ LearnRootNode(t)
      PROVE  UNCHANGED obligations /\ UNCHANGED instantiated
  BY <1>6 DEF Defer, SeePath, RememberTrackedPathForInode, RememberRootParentInode,
              RegisterSessionRootPath, QueueInvalidation, BeginProbe, LookUpRootNode,
              SkipAbsentRoot, LearnRootNode
<1>7. CASE Instantiate \/ BeginWait \/ FindIdle \/ CheckTracking \/ Conclude \/ EndWait \/ UNCHANGED vars
  <2>1. UNCHANGED obligations
    BY <1>7 DEF Instantiate, BeginWait, FindIdle, CheckTracking, Conclude, EndWait, vars
  <2>2. instantiated' = instantiated \/ instantiated' = TRUE
    BY <1>7 DEF Instantiate, BeginWait, FindIdle, CheckTracking, Conclude, EndWait, vars
  <2>3. instantiated => instantiated'
    BY <2>2, Zenon
  <2> QED BY <1>5, <2>1, <2>3
<1>8. ASSUME NEW t \in Thread, ScheduleSpecificEntryInvalidation(t) \/ ScheduleHiddenInodeInvalidation(t)
      PROVE  \E tasks : /\ Owes(tasks) /\ UNCHANGED instantiated
                        /\ RootTask \in tasks => RootTask \in owed \/ instantiated
  BY <1>3, <1>8 DEF ScheduleSpecificEntryInvalidation, ScheduleHiddenInodeInvalidation
<1> QED BY <1>1, <1>2, <1>4, <1>5, <1>6, <1>7, <1>8 DEF Next

\* What a step does to a thread.
LEMMA ThreadSteps ==
    ASSUME Typed, ProbersCarryNothing, [Next]_vars
    PROVE  \/ UNCHANGED thread
           \/ \E t \in Thread, d \in ThreadState :
                 /\ thread' = [thread EXCEPT ![t] = d]
                 /\ d.probe # "none" => TasksOf(d) = {}
                 /\ d.probe = "absent" => thread[t].probe = "absent" \/ (~instantiated /\ UNCHANGED obligations)
<1> DEFINE Allowed(t, d) ==
             /\ d \in ThreadState
             /\ thread' = [thread EXCEPT ![t] = d]
             /\ d.probe # "none" => TasksOf(d) = {}
             /\ d.probe = "absent" => thread[t].probe = "absent" \/ (~instantiated /\ UNCHANGED obligations)
<1>1. \A t \in Thread : thread[t] \in ThreadState
  BY DEF Typed, TypeOK
<1>2. ASSUME NEW t \in Thread, ScheduleHiddenEntryInvalidation(t) \/ ScheduleOwedRoot(t)
      PROVE  \E d : Allowed(t, d)
  <2>1. thread[t].probe = "none"
    <3>1. CASE thread[t] = Idle
      BY <3>1, IdleThread
    <3>2. CASE thread[t].rooting
      BY <3>2 DEF ProbersCarryNothing, TasksOf
    <3> QED BY <1>2, <3>1, <3>2 DEF ScheduleHiddenEntryInvalidation, ScheduleOwedRoot
  <2>2. \E unowed \in BOOLEAN : ScheduleRoot(t, unowed)
    BY <1>2 DEF ScheduleHiddenEntryInvalidation, ScheduleOwedRoot
  <2> DEFINE a == [thread[t] EXCEPT !.rooting = FALSE]
             b == [a EXCEPT !.queueing = @ \cup {RootTask}]
  <2>3. thread' = [thread EXCEPT ![t] = a] \/ thread' = [thread EXCEPT ![t] = b]
    BY <2>2 DEF ScheduleRoot
  <2>4. /\ a \in ThreadState /\ a.probe = "none"
        /\ b \in ThreadState /\ b.probe = "none"
    BY <1>1, <2>1, Tasks DEF ThreadState
  <2> HIDE DEF a, b
  <2>5. Allowed(t, a) \/ Allowed(t, b)
    BY <2>3, <2>4
  <2> QED BY <2>5
<1>3. ASSUME NEW t \in Thread, NEW task \in Task, NEW sweeps \in BOOLEAN, Request(t, task, sweeps)
      PROVE  \E d : Allowed(t, d)
  <2>1. \E d \in {[Idle EXCEPT !.deferring = {task}], [Idle EXCEPT !.queueing = {task}],
                  [Idle EXCEPT !.rooting = TRUE]} : thread' = [thread EXCEPT ![t] = d]
    BY <1>3 DEF Request
  <2>2. \A d \in {[Idle EXCEPT !.deferring = {task}], [Idle EXCEPT !.queueing = {task}],
                  [Idle EXCEPT !.rooting = TRUE]} : d \in ThreadState /\ d.probe = "none"
    BY DEF Idle, ThreadState
  <2> QED BY <2>1, <2>2
<1>4. ASSUME NEW t \in Thread, ScheduleSpecificEntryInvalidation(t) \/ ScheduleHiddenInodeInvalidation(t)
      PROVE  \E d : Allowed(t, d)
  <2>1. \E task \in Task, sweeps \in BOOLEAN : Request(t, task, sweeps)
    <3>1. CASE ScheduleSpecificEntryInvalidation(t)
      <4>1. PICK i \in EntryIno, n \in Name :
               Request(t, EntryTask(i, n), HideAll /\ LookupTrackedPathForInode(i) = RootPath)
        BY <3>1 DEF ScheduleSpecificEntryInvalidation
      <4>2. EntryTask(i, n) \in Task
        BY Tasks, TrackingAssumption
      <4>3. (HideAll /\ LookupTrackedPathForInode(i) = RootPath) \in BOOLEAN
        OBVIOUS
      <4> QED BY <4>1, <4>2, <4>3
    <3>2. CASE ScheduleHiddenInodeInvalidation(t)
      BY <3>2, Tasks, TrackingAssumption DEF ScheduleHiddenInodeInvalidation
    <3> QED BY <1>4, <3>1, <3>2
  <2> QED BY <1>3, <2>1
<1>5. ASSUME NEW t \in Thread, Defer(t) \/ QueueInvalidation(t)
      PROVE  \E d : Allowed(t, d)
  <2>1. PICK d \in ThreadState : thread' = [thread EXCEPT ![t] = d] /\ d.probe = thread[t].probe
    <3>1. \/ \E task \in thread[t].deferring : thread' = [thread EXCEPT ![t].deferring = @ \ {task}]
          \/ \E task \in thread[t].queueing : thread' = [thread EXCEPT ![t].queueing = @ \ {task}]
      BY <1>5 DEF Defer, QueueInvalidation
    <3>2. \A task : /\ [thread[t] EXCEPT !.deferring = @ \ {task}] \in ThreadState
                    /\ [thread[t] EXCEPT !.deferring = @ \ {task}].probe = thread[t].probe
                    /\ [thread[t] EXCEPT !.queueing = @ \ {task}] \in ThreadState
                    /\ [thread[t] EXCEPT !.queueing = @ \ {task}].probe = thread[t].probe
      BY <1>1 DEF ThreadState
    <3> QED BY <3>1, <3>2
  <2>2. TasksOf(thread[t]) # {}
    BY <1>5 DEF Defer, QueueInvalidation, TasksOf
  <2>3. thread[t].probe = "none"
    BY <2>2 DEF ProbersCarryNothing
  <2> QED BY <2>1, <2>3
<1>6. ASSUME NEW t \in Thread, NEW i \in Ino, NEW p \in Path, RememberTrackedPathForInode(t, i, p)
      PROVE  \E d : Allowed(t, d)
  <2> DEFINE refresh == p = RootPath /\ rootIno \in {Unknown, i} /\ rootRefreshNeeded
  <2>1. \/ thread' = [thread EXCEPT ![t] = Idle]
        \/ thread' = [thread EXCEPT ![t] = [Idle EXCEPT !.queueing = Waiting(i), !.rooting = refresh]]
    BY <1>6 DEF RememberTrackedPathForInode, Learn
  <2>2. refresh \in BOOLEAN /\ Waiting(i) \in SUBSET Task
    BY Tasks DEF Waiting
  <2> HIDE DEF refresh
  <2>3. /\ [Idle EXCEPT !.queueing = Waiting(i), !.rooting = refresh] \in ThreadState
        /\ [Idle EXCEPT !.queueing = Waiting(i), !.rooting = refresh].probe = "none"
    BY <2>2 DEF Idle, ThreadState
  <2> QED BY <2>1, <2>3, IdleThread
<1>7. ASSUME NEW t \in Thread, SeePath(t) \/ LearnRootNode(t)
      PROVE  \E d : Allowed(t, d)
  <2>1. \E i \in Ino, p \in Path : RememberTrackedPathForInode(t, i, p)
    BY <1>7, TrackingAssumption DEF SeePath, LearnRootNode
  <2> QED BY <1>6, <2>1
<1>8. ASSUME NEW t \in Thread, RememberRootParentInode(t) \/ RegisterSessionRootPath(t)
      PROVE  \E d : Allowed(t, d)
  <2>1. thread[t] = Idle
    BY <1>8 DEF RememberRootParentInode, RegisterSessionRootPath
  <2>2. \E flush \in BOOLEAN : thread' = [thread EXCEPT ![t] = [thread[t] EXCEPT !.rooting = flush]]
    <3> DEFINE flush == rootIno' = Root /\ rootPath # Unknown /\ rootRefreshNeeded
    <3>1. flush \in BOOLEAN /\ rootRefreshNeeded \in BOOLEAN
      BY DEF Typed, TypeOK
    <3>2. \/ thread' = [thread EXCEPT ![t] = [thread[t] EXCEPT !.rooting = flush]]
          \/ thread' = [thread EXCEPT ![t] = [thread[t] EXCEPT !.rooting = rootRefreshNeeded]]
      BY <1>8 DEF RememberRootParentInode, RegisterSessionRootPath
    <3> HIDE DEF flush
    <3> QED BY <3>1, <3>2
  <2>3. \A b \in BOOLEAN : [thread[t] EXCEPT !.rooting = b] \in ThreadState
                           /\ [thread[t] EXCEPT !.rooting = b].probe = "none"
    BY <2>1 DEF Idle, ThreadState
  <2> QED BY <2>2, <2>3
<1>9. ASSUME NEW t \in Thread, BeginProbe(t) \/ LookUpRootNode(t) \/ SkipAbsentRoot(t)
      PROVE  \E d : Allowed(t, d)
  <2>1. CASE SkipAbsentRoot(t)
    BY <2>1, IdleThread DEF SkipAbsentRoot
  <2>2. CASE BeginProbe(t) \/ LookUpRootNode(t)
    <3>1. TasksOf(thread[t]) = {}
      <4>1. CASE thread[t] = Idle
        BY <4>1, IdleThread DEF TasksOf
      <4>2. CASE thread[t].probe = "begun"
        BY <4>2 DEF ProbersCarryNothing
      <4> QED BY <2>2, <4>1, <4>2 DEF BeginProbe, LookUpRootNode
    <3>2. PICK b \in {"begun", "absent", "found"} :
             /\ thread' = [thread EXCEPT ![t] = [thread[t] EXCEPT !.probe = b]]
             /\ b = "absent" => ~instantiated /\ UNCHANGED obligations
      BY <2>2 DEF BeginProbe, LookUpRootNode
    <3> DEFINE d == [thread[t] EXCEPT !.probe = b]
    <3>3. d \in ThreadState /\ d.probe = b /\ TasksOf(d) = TasksOf(thread[t])
      BY <1>1 DEF ThreadState, TasksOf
    <3>4. thread' = [thread EXCEPT ![t] = d]
      BY <3>2
    <3> HIDE DEF d
    <3>5. Allowed(t, d)
      BY <3>1, <3>2, <3>3, <3>4
    <3> QED BY <3>5
  <2> QED BY <1>9, <2>1, <2>2
<1>10. ASSUME \/ Instantiate \/ Notify \/ BeginWait \/ FindIdle \/ CheckTracking \/ Conclude \/ EndWait
              \/ UNCHANGED vars
       PROVE  UNCHANGED thread
  BY <1>10 DEF Instantiate, Notify, BeginWait, FindIdle, CheckTracking, Conclude, EndWait, vars
<1> DEFINE Turns(t) == \E d : Allowed(t, d)
<1>11. UNCHANGED thread \/ \E t \in Thread : Turns(t)
  <2> HIDE DEF Turns
  <2>1. ASSUME NEW t \in Thread,
               \/ ScheduleHiddenEntryInvalidation(t) \/ ScheduleOwedRoot(t)
               \/ ScheduleSpecificEntryInvalidation(t) \/ ScheduleHiddenInodeInvalidation(t)
               \/ Defer(t) \/ SeePath(t) \/ RememberRootParentInode(t)
               \/ RegisterSessionRootPath(t) \/ QueueInvalidation(t)
               \/ BeginProbe(t) \/ LookUpRootNode(t) \/ SkipAbsentRoot(t) \/ LearnRootNode(t)
        PROVE  Turns(t)
    BY <1>2, <1>4, <1>5, <1>7, <1>8, <1>9, <2>1 DEF Turns
  <2> QED BY <1>10, <2>1 DEF Next
<1> QED BY <1>11

LEMMA ProbingNext ==
    ASSUME Typed, Probing, [Next]_vars
    PROVE  Probing'
<1>1. CASE UNCHANGED thread
  <2>1. ProbersCarryNothing' /\ (ProbedAbsent' <=> ProbedAbsent)
    BY <1>1 DEF Probing, ProbersCarryNothing, TasksOf, ProbedAbsent
  <2> QED BY <2>1, ObligationSteps DEF Probing, AbsentOwesNothing
<1>2. ASSUME NEW t \in Thread, NEW d \in ThreadState,
             thread' = [thread EXCEPT ![t] = d],
             d.probe # "none" => TasksOf(d) = {},
             d.probe = "absent" => thread[t].probe = "absent" \/ (~instantiated /\ UNCHANGED obligations)
      PROVE  Probing'
  <2>1. thread'[t] = d /\ \A u \in Thread \ {t} : thread'[u] = thread[u]
    BY <1>2 DEF Typed, TypeOK
  <2>2. ProbersCarryNothing'
    BY <1>2, <2>1 DEF Probing, ProbersCarryNothing, TasksOf
  <2>3. ProbedAbsent' => ProbedAbsent \/ (~instantiated /\ UNCHANGED obligations)
    BY <1>2, <2>1 DEF ProbedAbsent
  <2> QED BY <2>2, <2>3, ObligationSteps DEF Probing, AbsentOwesNothing, obligations
<1> QED BY <1>1, <1>2, ThreadSteps DEF Probing

LEMMA ProbingInit == Init => Probing
<1> SUFFICES ASSUME Init PROVE Probing
  OBVIOUS
<1>1. \A t \in Thread : thread[t].probe = "none"
  BY IdleThread DEF Init
<1> QED BY <1>1 DEF Init, Probing, ProbersCarryNothing, AbsentOwesNothing

-----------------------------------------------------------------------------
(***************************************************************************)
(* Where a request is.  A step moves what one thread carries; the requests *)
(* of the other threads stay in their hands.                               *)
(***************************************************************************)
Settling == queue \cup DeferredTasks \cup refused

Kept == RequestsAreKept /\ RootRequestIsKept

LEMMA ThreadStep ==
    ASSUME Typed, NEW t \in Thread, NEW d \in ThreadState, thread' = [thread EXCEPT ![t] = d]
    PROVE  /\ InHand \subseteq TasksOf(thread[t]) \cup InHand'
           /\ TasksOf(d) \subseteq InHand'
<1>1. thread'[t] = d /\ \A u \in Thread \ {t} : thread'[u] = thread[u]
  BY DEF Typed, TypeOK
<1>2. Carried(t)' = TasksOf(d) /\ \A u \in Thread \ {t} : Carried(u)' = Carried(u)
  BY <1>1 DEF Carried, TasksOf
<1>3. Carried(t) = TasksOf(thread[t])
  BY DEF Carried, TasksOf
<1> QED BY <1>2, <1>3 DEF InHand

\* A step in which thread t turns to d.
LEMMA RequestsMove ==
    ASSUME Typed, Kept, Typed', Tracked \subseteq Tracked',
           NEW t \in Thread, NEW d \in ThreadState, thread' = [thread EXCEPT ![t] = d],
           owed' \subseteq owed \cup TasksOf(d) \cup (IF rootRefreshNeeded' THEN {RootTask} ELSE {}),
           RootTask \in owed \cap owed' => (crossed' <=> crossed),
           \A task \in (Settling \cup TasksOf(thread[t])) \ {RootTask} :
               task \in owed' => task \in Settling' \cup TasksOf(d),
           /\ RootTask \in owed' /\ ~crossed'
           /\ RootTask \in queue \cup TasksOf(thread[t]) \/ rootRefreshNeeded
           /\ Cardinality(Tracked') < MaxTracked
           => RootTask \in queue' \cup TasksOf(d) \/ rootRefreshNeeded'
    PROVE  Kept'
<1>1. InHand \subseteq TasksOf(thread[t]) \cup InHand' /\ TasksOf(d) \subseteq InHand'
  BY ThreadStep
<1>2. ASSUME NEW task \in owed' \ {RootTask}
      PROVE  task \in Settling' \cup InHand'
  <2>1. CASE task \in TasksOf(d)
    BY <1>1, <2>1
  <2>2. CASE task \in owed
    <3>1. task \in Settling \cup InHand
      BY <1>2, <2>2 DEF Kept, RequestsAreKept, Settling
    <3> QED BY <1>1, <1>2, <3>1
  <2> QED BY <1>2, <2>1, <2>2
<1>3. ASSUME RootTask \in owed', ~crossed', Cardinality(Tracked') < MaxTracked
      PROVE  RootTask \in queue' \cup InHand' \/ rootRefreshNeeded'
  <2>1. CASE RootTask \in TasksOf(d) \/ rootRefreshNeeded'
    BY <1>1, <2>1
  <2>2. CASE RootTask \in owed
    <3>1. Cardinality(Tracked) <= Cardinality(Tracked')
          /\ Cardinality(Tracked) \in Nat /\ Cardinality(Tracked') \in Nat
      BY FS_Subset, FS_CardinalityType DEF Typed, FiniteTables
    <3>2. RootTask \in queue \cup InHand \/ rootRefreshNeeded
      BY <1>3, <2>2, <3>1, TrackingAssumption DEF Kept, RootRequestIsKept
    <3> QED BY <1>1, <1>3, <3>2
  <2> QED BY <1>3, <2>1, <2>2
<1>4. RequestsAreKept'
  BY <1>2 DEF RequestsAreKept, Settling
<1>5. RootRequestIsKept'
  BY <1>3 DEF RootRequestIsKept
<1> QED BY <1>4, <1>5 DEF Kept

\* A step in which no thread turns to anything else.
LEMMA RequestsRest ==
    ASSUME Typed, Kept, Typed', Tracked \subseteq Tracked', UNCHANGED thread, owed' \subseteq owed,
           RootTask \in owed \cap owed' => (crossed' <=> crossed),
           \A task \in Settling \ {RootTask} : task \in owed' => task \in Settling',
           RootTask \in owed' /\ (RootTask \in queue \/ rootRefreshNeeded) /\ Cardinality(Tracked') < MaxTracked
           => RootTask \in queue' \/ rootRefreshNeeded'
    PROVE  Kept'
<1>1. InHand' = InHand
  BY DEF InHand, Carried
<1>2. RequestsAreKept'
  BY <1>1 DEF Kept, RequestsAreKept, Settling
<1>3. Cardinality(Tracked) <= Cardinality(Tracked')
      /\ Cardinality(Tracked) \in Nat /\ Cardinality(Tracked') \in Nat
  BY FS_Subset, FS_CardinalityType DEF Typed, FiniteTables
<1>4. ASSUME RootTask \in owed', ~crossed', Cardinality(Tracked') < MaxTracked
      PROVE  RootTask \in queue' \cup InHand' \/ rootRefreshNeeded'
  <2>1. RootTask \in queue \cup InHand \/ rootRefreshNeeded
    BY <1>3, <1>4, TrackingAssumption DEF Kept, RootRequestIsKept
  <2> QED BY <1>1, <1>4, <2>1
<1> QED BY <1>2, <1>4 DEF Kept, RootRequestIsKept

LEMMA TrackedStays == UNCHANGED maps => Tracked' = Tracked
BY DEF Tracked, maps

LEMMA TrackedGrows ==
    ASSUME Typed, [Next]_vars
    PROVE  Tracked \subseteq Tracked'
<1>1. ASSUME NEW t \in Thread, NEW i \in Ino, NEW p \in Path, RememberTrackedPathForInode(t, i, p)
      PROVE  Tracked \subseteq Tracked'
  BY <1>1, TrackingAssumption DEF RememberTrackedPathForInode, Learn, maps, Tracked, Typed, TypeOK
<1>2. ASSUME NEW t \in Thread, RegisterSessionRootPath(t)
      PROVE  Tracked \subseteq Tracked'
  BY <1>2, TrackingAssumption DEF RegisterSessionRootPath, maps, Tracked, Typed, TypeOK
<1> QED BY <1>1, <1>2, MapSteps, TrackedStays

LEMMA DeferredStay == UNCHANGED deferred => DeferredTasks' = DeferredTasks
BY DEF DeferredTasks, deferred

LEMMA ScheduleKeeps ==
    ASSUME Typed, Kept, Typed', Tracked \subseteq Tracked',
           RootTask \in owed \cap owed' => (crossed' <=> crossed),
           NEW t \in Thread,
           ScheduleHiddenEntryInvalidation(t) \/ ScheduleOwedRoot(t)
    PROVE  Kept'
<1>1. PICK unowed \in BOOLEAN :
         /\ ScheduleRoot(t, unowed)
         /\ owed' \subseteq owed \cup {RootTask}
         /\ unowed => RootTask \notin owed'
         /\ thread[t] = Idle \/ owed' \subseteq owed
         /\ UNCHANGED <<rootIno, rootPath, deferred, maps, instantiated, queue, refused, wait, held>>
  BY DEF ScheduleHiddenEntryInvalidation, ScheduleOwedRoot, Owes, Obligation
<1>2. thread[t] \in ThreadState
  BY DEF Typed, TypeOK
<1>3. Settling' = Settling
  BY <1>1, DeferredStay DEF Settling
<1>4. CASE /\ rootIno # Unknown /\ rootPath # Unknown
           /\ thread' = [thread EXCEPT ![t] =
                 [[thread[t] EXCEPT !.rooting = FALSE] EXCEPT !.queueing = @ \cup {RootTask}]]
  <2> DEFINE d == [[thread[t] EXCEPT !.rooting = FALSE] EXCEPT !.queueing = @ \cup {RootTask}]
  <2>1. d \in ThreadState /\ RootTask \in TasksOf(d) /\ TasksOf(thread[t]) \subseteq TasksOf(d)
    BY <1>2, Tasks DEF ThreadState, TasksOf
  <2>2. thread' = [thread EXCEPT ![t] = d]
    BY <1>4
  <2> HIDE DEF d
  <2> QED BY <1>1, <1>3, <2>1, <2>2, RequestsMove
<1>5. CASE /\ rootRefreshNeeded' = ~CanSkipUntrackedSession
           /\ unowed = CanSkipUntrackedSession
           /\ thread' = [thread EXCEPT ![t] = [thread[t] EXCEPT !.rooting = FALSE]]
  <2> DEFINE d == [thread[t] EXCEPT !.rooting = FALSE]
  <2>1. d \in ThreadState /\ TasksOf(thread[t]) \ {RootTask} \subseteq TasksOf(d)
    BY <1>2 DEF ThreadState, TasksOf
  <2>2. thread' = [thread EXCEPT ![t] = d]
    BY <1>5
  <2>3. rootRefreshNeeded' \/ RootTask \notin owed'
    BY <1>1, <1>5
  <2> HIDE DEF d
  <2>4. owed' \subseteq owed \cup TasksOf(d) \cup (IF rootRefreshNeeded' THEN {RootTask} ELSE {})
    BY <1>1, <2>3
  <2> QED BY <1>1, <1>3, <2>1, <2>2, <2>3, <2>4, RequestsMove
<1> QED BY <1>1, <1>4, <1>5 DEF ScheduleRoot

LEMMA RequestKeeps ==
    ASSUME Typed, Kept, Typed', Tracked \subseteq Tracked',
           RootTask \in owed \cap owed' => (crossed' <=> crossed),
           NEW t \in Thread, NEW task \in Task, NEW sweeps \in BOOLEAN,
           Request(t, task, sweeps)
    PROVE  Kept'
<1>1. PICK d : /\ d \in {[Idle EXCEPT !.deferring = {task}], [Idle EXCEPT !.queueing = {task}],
                         [Idle EXCEPT !.rooting = TRUE]}
               /\ thread' = [thread EXCEPT ![t] = d]
               /\ owed' \subseteq owed \cup TasksOf(d)
  <2>1. CASE LookupTrackedPathForInode(task.ino) = Unknown
    <3>1. task \in TasksOf([Idle EXCEPT !.deferring = {task}])
      BY DEF TasksOf, Idle
    <3> QED BY <2>1, <3>1 DEF Request, Owes, Obligation
  <2>2. CASE LookupTrackedPathForInode(task.ino) # Unknown /\ sweeps
    <3>1. RootTask \in TasksOf([Idle EXCEPT !.rooting = TRUE])
      BY DEF TasksOf, Idle
    <3> QED BY <2>2, <3>1 DEF Request, Owes, Obligation
  <2>3. CASE LookupTrackedPathForInode(task.ino) # Unknown /\ ~sweeps
    <3>1. task \in TasksOf([Idle EXCEPT !.queueing = {task}])
      BY DEF TasksOf, Idle
    <3> QED BY <2>3, <3>1 DEF Request, Owes, Obligation
  <2> QED BY <2>1, <2>2, <2>3
<1>2. d \in ThreadState
  BY <1>1 DEF Idle, ThreadState
<1>3. TasksOf(thread[t]) = {}
  BY IdleThread DEF Request, TasksOf
<1>4. UNCHANGED <<rootRefreshNeeded, queue>> /\ Settling' = Settling
  BY DeferredStay DEF Request, tracking, root, Settling
<1> QED BY <1>1, <1>2, <1>3, <1>4, RequestsMove

\* A task of a session is the root's, or waits under its inode and name.
LEMMA PutAsideKeeps ==
    ASSUME NEW task \in Task, PutAside(task)
    PROVE  /\ DeferredTasks \subseteq DeferredTasks' /\ refused \subseteq refused'
           /\ task # RootTask => task \in DeferredTasks' \cup refused'
<1>1. deferredEntries \subseteq deferredEntries' /\ deferredInodes \subseteq deferredInodes'
      /\ refused \subseteq refused'
  BY DEF PutAside
<1>2. DeferredTasks \subseteq DeferredTasks'
  BY <1>1 DEF DeferredTasks
<1>3. ASSUME task # RootTask
      PROVE  task \in DeferredTasks' \cup refused'
  <2>1. CASE task.kind = "entry"
    <3>1. task = EntryTask(task.ino, task.name)
      BY <2>1, Tasks
    <3>2. Entry(task) \in deferredEntries' \/ task \in refused'
      BY <2>1 DEF PutAside
    <3>3. Entry(task)[1] = task.ino /\ Entry(task)[2] = task.name
      BY DEF Entry
    <3> QED BY <3>1, <3>2, <3>3 DEF DeferredTasks
  <2>2. CASE task.kind = "inode"
    <3>1. task = InodeTask(task.ino)
      BY <2>2, Tasks
    <3>2. task.ino \in deferredInodes' \/ task \in refused'
      BY <2>2 DEF PutAside
    <3> QED BY <3>1, <3>2 DEF DeferredTasks
  <2> QED BY <1>3, <2>1, <2>2, Tasks
<1> QED BY <1>1, <1>2, <1>3

LEMMA DeferKeeps ==
    ASSUME Typed, Kept, Typed', Tracked \subseteq Tracked',
           RootTask \in owed \cap owed' => (crossed' <=> crossed),
           NEW t \in Thread, Defer(t)
    PROVE  Kept'
<1>1. PICK task \in thread[t].deferring :
         /\ PutAside(task)
         /\ rootRefreshNeeded' = TRUE
         /\ thread' = [thread EXCEPT ![t].deferring = @ \ {task}]
         /\ UNCHANGED <<rootIno, rootPath, maps, instantiated, queue, obligations, acknowledgement>>
  BY DEF Defer
<1> DEFINE d == [thread[t] EXCEPT !.deferring = @ \ {task}]
<1>2. task \in Task /\ d \in ThreadState
  BY ThreadStates DEF Typed, TypeOK
<1>3. TasksOf(thread[t]) \subseteq TasksOf(d) \cup {task}
  <2>1. thread[t] \in ThreadState
    BY DEF Typed, TypeOK
  <2>2. d.queueing = thread[t].queueing /\ d.deferring = thread[t].deferring \ {task}
        /\ d.rooting = thread[t].rooting
    BY <2>1 DEF ThreadState
  <2> HIDE DEF d
  <2> QED BY <2>2 DEF TasksOf
<1>4. thread' = [thread EXCEPT ![t] = d]
  BY <1>1
<1>5. Settling \subseteq Settling' /\ (task # RootTask => task \in Settling')
  BY <1>1, <1>2, PutAsideKeeps DEF Settling
<1>6. UNCHANGED <<queue, owed>> /\ rootRefreshNeeded'
  BY <1>1 DEF obligations
<1> HIDE DEF d
<1> QED BY <1>2, <1>3, <1>4, <1>5, <1>6, RequestsMove

\* What waited for an inode is in the hands of the thread that learned its path.
LEMMA LearnedRequests ==
    ASSUME Typed, NEW i \in Ino,
           deferredEntries' = {e \in deferredEntries : e[1] # i},
           deferredInodes' = deferredInodes \ {i}
    PROVE  DeferredTasks \subseteq DeferredTasks' \cup Waiting(i)
<1>1. ASSUME NEW e \in deferredEntries
      PROVE  EntryTask(e[1], e[2]) \in DeferredTasks' \cup Waiting(i)
  <2>1. e[2] \in Name /\ e = <<e[1], e[2]>>
    <3>1. e \in Ino \X Name
      BY DEF Typed, TypeOK
    <3> QED BY <3>1
  <2>2. CASE e[1] = i
    BY <1>1, <2>1, <2>2 DEF Waiting
  <2>3. CASE e[1] # i
    BY <1>1, <2>3 DEF DeferredTasks
  <2> QED BY <2>2, <2>3
<1>2. ASSUME NEW j \in deferredInodes
      PROVE  InodeTask(j) \in DeferredTasks' \cup Waiting(i)
  BY DEF Waiting, DeferredTasks
<1> QED BY <1>1, <1>2 DEF DeferredTasks

LEMMA RememberKeeps ==
    ASSUME Typed, Kept, Typed', Tracked \subseteq Tracked',
           RootTask \in owed \cap owed' => (crossed' <=> crossed),
           NEW t \in Thread, NEW i \in Ino, NEW p \in Path,
           TasksOf(thread[t]) = {}, i = Root <=> p = RootPath,
           RememberTrackedPathForInode(t, i, p)
    PROVE  Kept'
<1> DEFINE refresh == p = RootPath /\ rootIno \in {Unknown, i} /\ rootRefreshNeeded
<1>1. UNCHANGED <<queue, owed, refused>> /\ rootRefreshNeeded' \in BOOLEAN
  BY DEF RememberTrackedPathForInode, Typed, TypeOK, obligations
<1>2. rootRefreshNeeded => rootRefreshNeeded' \/ refresh
  BY DEF RememberTrackedPathForInode, root
<1>4. CASE Learn(t, i, p, refresh)
  <2> DEFINE d == [Idle EXCEPT !.queueing = Waiting(i), !.rooting = refresh]
  <2>1. Waiting(i) \in SUBSET Task /\ refresh \in BOOLEAN
    BY Tasks DEF Waiting
  <2>2. thread' = [thread EXCEPT ![t] = d]
    BY <1>4 DEF Learn
  <2> HIDE DEF refresh
  <2>3. d \in ThreadState /\ Waiting(i) \subseteq TasksOf(d) /\ (refresh => RootTask \in TasksOf(d))
    BY <2>1 DEF Idle, ThreadState, TasksOf
  <2>4. Settling \subseteq Settling' \cup Waiting(i)
    BY <1>1, <1>4, LearnedRequests DEF Learn, Settling
  <2> HIDE DEF d
  <2> QED BY <1>1, <1>2, <2>2, <2>3, <2>4, RequestsMove
<1>5. CASE /\ inodeToPath[i] = Unknown /\ Cardinality(Tracked) >= MaxTracked
           /\ thread' = [thread EXCEPT ![t] = Idle] /\ UNCHANGED <<deferred, maps>>
  <2>1. Settling' = Settling /\ Tracked' = Tracked
    BY <1>1, <1>5, DeferredStay, TrackedStays DEF Settling
  <2>2. ~(Cardinality(Tracked') < MaxTracked)
    BY <1>5, <2>1, TrackingAssumption, FS_CardinalityType DEF Typed, FiniteTables
  <2>3. Idle \in ThreadState
    BY IdleThread
  <2> QED BY <1>1, <1>5, <2>1, <2>2, <2>3, RequestsMove
<1> QED BY <1>4, <1>5 DEF RememberTrackedPathForInode

LEMMA KeptNext ==
    ASSUME Typed, Probing, Kept, [Next]_vars
    PROVE  Kept'
<1>1. /\ Typed' /\ Tracked \subseteq Tracked'
      /\ RootTask \in owed \cap owed' => (crossed' <=> crossed)
  BY TypedNext, TrackedGrows, ObligationSteps
<1>2. ASSUME NEW t \in Thread, ScheduleSpecificEntryInvalidation(t)
      PROVE  Kept'
  <2>1. PICK i \in EntryIno, n \in Name :
           Request(t, EntryTask(i, n), HideAll /\ LookupTrackedPathForInode(i) = RootPath)
    BY <1>2 DEF ScheduleSpecificEntryInvalidation
  <2>2. EntryTask(i, n) \in Task
    BY Tasks, TrackingAssumption
  <2>3. (HideAll /\ LookupTrackedPathForInode(i) = RootPath) \in BOOLEAN
    OBVIOUS
  <2> QED BY <1>1, <2>1, <2>2, <2>3, RequestKeeps
<1>3. ASSUME NEW t \in Thread, ScheduleHiddenInodeInvalidation(t)
      PROVE  Kept'
  BY <1>1, <1>3, Tasks, RequestKeeps, TrackingAssumption DEF ScheduleHiddenInodeInvalidation
<1>4. ASSUME NEW t \in Thread, SeePath(t)
      PROVE  Kept'
  <2>1. TasksOf(thread[t]) = {}
    BY <1>4, IdleThread DEF SeePath, TasksOf
  <2> QED BY <1>1, <1>4, <2>1, RememberKeeps, TrackingAssumption DEF SeePath
<1>5. ASSUME NEW t \in Thread, RememberRootParentInode(t)
      PROVE  Kept'
  <2> DEFINE flush == rootIno' = Root /\ rootPath # Unknown /\ rootRefreshNeeded
             d == [thread[t] EXCEPT !.rooting = flush]
  <2>1. thread' = [thread EXCEPT ![t] = d] /\ rootRefreshNeeded' = (rootRefreshNeeded /\ ~flush)
    BY <1>5 DEF RememberRootParentInode
  <2>2. flush \in BOOLEAN
    OBVIOUS
  <2> HIDE DEF flush
  <2>3. d \in ThreadState /\ (flush => RootTask \in TasksOf(d)) /\ TasksOf(thread[t]) = {}
    BY <1>5, <2>2, ThreadStates, IdleThread DEF Typed, TypeOK, RememberRootParentInode, TasksOf, Idle
  <2>4. UNCHANGED <<queue, owed>> /\ Settling' = Settling
    BY <1>5, DeferredStay DEF RememberRootParentInode, Settling, obligations
  <2> HIDE DEF d
  <2> QED BY <1>1, <2>1, <2>2, <2>3, <2>4, RequestsMove
<1>6. ASSUME NEW t \in Thread, RegisterSessionRootPath(t)
      PROVE  Kept'
  <2> DEFINE d == [thread[t] EXCEPT !.rooting = rootRefreshNeeded]
  <2>1. thread' = [thread EXCEPT ![t] = d] /\ rootRefreshNeeded' = FALSE
    BY <1>6 DEF RegisterSessionRootPath
  <2>2. d \in ThreadState /\ (rootRefreshNeeded => RootTask \in TasksOf(d)) /\ TasksOf(thread[t]) = {}
    BY <1>6, ThreadStates, IdleThread DEF Typed, TypeOK, RegisterSessionRootPath, TasksOf, Idle
  <2>3. UNCHANGED <<queue, owed>> /\ Settling' = Settling
    BY <1>6, DeferredStay DEF RegisterSessionRootPath, Settling, obligations
  <2> HIDE DEF d
  <2> QED BY <1>1, <2>1, <2>2, <2>3, RequestsMove
<1>7. ASSUME NEW t \in Thread, BeginProbe(t) \/ LookUpRootNode(t) \/ SkipAbsentRoot(t)
      PROVE  Kept'
  <2>1. UNCHANGED <<queue, owed>> /\ Settling' = Settling
    BY <1>7, DeferredStay
       DEF BeginProbe, LookUpRootNode, SkipAbsentRoot, Settling, obligations, tracking
  <2>2. PICK d \in ThreadState : thread' = [thread EXCEPT ![t] = d]
    <3>1. thread[t] \in ThreadState
      BY DEF Typed, TypeOK
    <3> QED BY <1>7, <3>1, ThreadStates, IdleThread DEF BeginProbe, LookUpRootNode, SkipAbsentRoot
  <2>3. TasksOf(thread[t]) = {}
    <3>1. CASE thread[t] = Idle
      BY <3>1, IdleThread DEF TasksOf
    <3>2. CASE thread[t].probe \in {"begun", "absent"}
      BY <3>2 DEF Probing, ProbersCarryNothing
    <3> QED BY <1>7, <3>1, <3>2 DEF BeginProbe, LookUpRootNode, SkipAbsentRoot
  <2>4. CASE SkipAbsentRoot(t)
    <3>1. ProbedAbsent
      BY <2>4 DEF SkipAbsentRoot, ProbedAbsent
    <3>2. RootTask \in owed' => crossed'
      BY <1>1, <2>1, <3>1 DEF Probing, AbsentOwesNothing
    <3> QED BY <1>1, <2>1, <2>2, <2>3, <3>2, RequestsMove
  <2>5. CASE BeginProbe(t) \/ LookUpRootNode(t)
    <3>1. UNCHANGED rootRefreshNeeded
      BY <2>5 DEF BeginProbe, LookUpRootNode, tracking, root
    <3> QED BY <1>1, <2>1, <2>2, <2>3, <3>1, RequestsMove
  <2> QED BY <1>7, <2>4, <2>5
<1>11. ASSUME NEW t \in Thread, LearnRootNode(t)
       PROVE  Kept'
  <2>1. TasksOf(thread[t]) = {}
    BY <1>11 DEF LearnRootNode, Probing, ProbersCarryNothing
  <2> QED BY <1>1, <1>11, <2>1, RememberKeeps, TrackingAssumption DEF LearnRootNode
<1>8. ASSUME NEW t \in Thread, QueueInvalidation(t)
      PROVE  Kept'
  <2>1. PICK task \in thread[t].queueing :
           /\ queue' = queue \cup {task}
           /\ thread' = [thread EXCEPT ![t].queueing = @ \ {task}]
           /\ UNCHANGED <<tracking, instantiated, obligations, refused, acknowledgement>>
    BY <1>8 DEF QueueInvalidation
  <2> DEFINE d == [thread[t] EXCEPT !.queueing = @ \ {task}]
  <2>2. d \in ThreadState /\ TasksOf(thread[t]) \subseteq TasksOf(d) \cup {task}
    <3>1. thread[t] \in ThreadState
      BY DEF Typed, TypeOK
    <3>2. d \in ThreadState
      BY <3>1, ThreadStates
    <3>3. d.queueing = thread[t].queueing \ {task} /\ d.deferring = thread[t].deferring
          /\ d.rooting = thread[t].rooting
      BY <3>1 DEF ThreadState
    <3> HIDE DEF d
    <3> QED BY <3>2, <3>3 DEF TasksOf
  <2>3. thread' = [thread EXCEPT ![t] = d]
    BY <2>1
  <2>4. Settling' = Settling \cup {task} /\ UNCHANGED <<owed, rootRefreshNeeded>>
    BY <2>1, DeferredStay DEF Settling, tracking, root, obligations
  <2> HIDE DEF d
  <2> QED BY <1>1, <2>1, <2>2, <2>3, <2>4, RequestsMove
<1>9. CASE Notify
  <2>1. PICK task \in queue :
           /\ queue' = queue \ {task}
           /\ owed' = owed \ {task} /\ refused' = refused \ {task}
           /\ UNCHANGED <<tracking, instantiated, thread>>
    BY <1>9 DEF Notify, Owes
  <2>2. UNCHANGED <<deferred, rootRefreshNeeded>> /\ DeferredTasks' = DeferredTasks
    BY <2>1, DeferredStay DEF tracking, root
  <2>3. \A o \in Settling \ {RootTask} : o \in owed' => o \in Settling'
    BY <2>1, <2>2 DEF Settling
  <2> QED BY <1>1, <2>1, <2>2, <2>3, RequestsRest
<1>10. CASE Instantiate \/ BeginWait \/ FindIdle \/ CheckTracking \/ Conclude \/ EndWait \/ UNCHANGED vars
  <2>1. UNCHANGED <<tracking, queue, thread, owed, refused>>
    BY <1>10 DEF Instantiate, BeginWait, FindIdle, CheckTracking, Conclude, EndWait, vars, obligations
  <2>2. UNCHANGED rootRefreshNeeded /\ Settling' = Settling
    BY <2>1, DeferredStay DEF tracking, root, Settling
  <2> QED BY <1>1, <2>1, <2>2, RequestsRest
<1> QED BY <1>1, <1>2, <1>3, <1>4, <1>5, <1>6, <1>7, <1>8, <1>9, <1>10, <1>11,
           ScheduleKeeps, DeferKeeps DEF Next

LEMMA KeptInit == Init => Kept
BY DEF Init, Kept, RequestsAreKept, RootRequestIsKept

\* A request for an inode or an entry that the kernel was not notified of is
\* queued, put aside, refused for want of room or in the hands of a thread,
\* whichever holds of the mutex the reply that teaches its path came between.
THEOREM RequestsKept == Spec => []RequestsAreKept
<1>1. (Typed /\ Probing /\ Kept) /\ [Next]_vars => (Typed /\ Probing /\ Kept)'
  BY TypedNext, ProbingNext, KeptNext
<1>2. Typed /\ Probing /\ Kept => RequestsAreKept
  BY DEF Kept
<1> QED BY <1>1, <1>2, TypedInit, ProbingInit, KeptInit, PTL DEF Spec

\* A root request is queued, in the hands of a thread or remembered by the
\* session, as long as the path table has room for the root; but one that was
\* made behind the look-up of a probe that found no node, and before that
\* probe told the session so.
THEOREM RootRequestKept == Spec => []RootRequestIsKept
<1>1. (Typed /\ Probing /\ Kept) /\ [Next]_vars => (Typed /\ Probing /\ Kept)'
  BY TypedNext, ProbingNext, KeptNext
<1>2. Typed /\ Probing /\ Kept => RootRequestIsKept
  BY DEF Kept
<1> QED BY <1>1, <1>2, TypedInit, ProbingInit, KeptInit, PTL DEF Spec

-----------------------------------------------------------------------------
(***************************************************************************)
(* What a successful wait says.  The tracking state was complete between   *)
(* two looks at the queue: what was owed and in no thread's hands was in   *)
(* the queue, and the second look finds that it is no longer.              *)
(***************************************************************************)
Excused(task) == task = RootTask /\ (crossed \/ Cardinality(Tracked) >= MaxTracked)

WaitCovers ==
    wait \in {"tracking complete", "acknowledged"} =>
        \A task \in awaited \ (refused \cup held) :
            (wait = "tracking complete" /\ task \in queue) \/ Excused(task)

\* Steps outside the wait: what they settle is no longer awaited.
LEMMA WaitUndisturbed ==
    ASSUME Typed, Typed', Tracked \subseteq Tracked', WaitCovers, UNCHANGED <<wait, held>>,
           RootTask \in owed \cap owed' => (crossed' <=> crossed),
           awaited' \subseteq awaited,
           awaited' \ refused' \subseteq awaited \ refused,
           queue \cap awaited' \subseteq queue'
    PROVE  WaitCovers'
<1>1. Cardinality(Tracked) <= Cardinality(Tracked')
      /\ Cardinality(Tracked) \in Nat /\ Cardinality(Tracked') \in Nat
  BY FS_Subset, FS_CardinalityType DEF Typed, FiniteTables
<1>2. ASSUME NEW task \in awaited', Excused(task)
      PROVE  Excused(task)'
  <2>1. task \in owed \cap owed'
    BY <1>2 DEF Typed, TypeOK
  <2>2. task = RootTask /\ (crossed => crossed')
    BY <1>2, <2>1 DEF Excused
  <2>3. Cardinality(Tracked) >= MaxTracked => Cardinality(Tracked') >= MaxTracked
    BY <1>1, TrackingAssumption
  <2> QED BY <1>2, <2>2, <2>3 DEF Excused
<1>3. ASSUME wait' \in {"tracking complete", "acknowledged"}, NEW task \in awaited' \ (refused' \cup held')
      PROVE  (wait' = "tracking complete" /\ task \in queue') \/ Excused(task)'
  <2>1. (wait = "tracking complete" /\ task \in queue) \/ Excused(task)
    BY <1>3 DEF WaitCovers
  <2> QED BY <1>2, <1>3, <2>1
<1> QED BY <1>3 DEF WaitCovers

LEMMA WaitNext ==
    ASSUME Typed, Kept, WaitCovers, [Next]_vars
    PROVE  WaitCovers'
<1>1. /\ Typed' /\ Tracked \subseteq Tracked'
      /\ RootTask \in owed \cap owed' => (crossed' <=> crossed)
  BY TypedNext, TrackedGrows, ObligationSteps
<1>2. ASSUME NEW t \in Thread, ScheduleHiddenEntryInvalidation(t) \/ ScheduleOwedRoot(t)
      PROVE  UNCHANGED <<wait, held, queue, refused>> /\ awaited' \subseteq awaited
  BY <1>2 DEF ScheduleHiddenEntryInvalidation, ScheduleOwedRoot
<1>3. ASSUME NEW t \in Thread,
             \/ ScheduleSpecificEntryInvalidation(t) \/ ScheduleHiddenInodeInvalidation(t)
             \/ Defer(t) \/ SeePath(t) \/ RememberRootParentInode(t)
             \/ RegisterSessionRootPath(t) \/ QueueInvalidation(t)
             \/ BeginProbe(t) \/ LookUpRootNode(t) \/ SkipAbsentRoot(t) \/ LearnRootNode(t)
      PROVE  UNCHANGED <<wait, held, awaited>> /\ queue \subseteq queue' /\ refused \subseteq refused'
  BY <1>3 DEF ScheduleSpecificEntryInvalidation, ScheduleHiddenInodeInvalidation, Request, Defer,
              PutAside, SeePath, RememberTrackedPathForInode, RememberRootParentInode,
              RegisterSessionRootPath, QueueInvalidation, BeginProbe, LookUpRootNode,
              SkipAbsentRoot, LearnRootNode, acknowledgement
<1>4. CASE Notify
  <2>1. PICK task \in queue :
           /\ queue' = queue \ {task}
           /\ awaited' = awaited \ {task} /\ refused' = refused \ {task}
           /\ UNCHANGED <<wait, held>>
    BY <1>4 DEF Notify
  <2> QED BY <1>1, <2>1, WaitUndisturbed
<1>5. CASE Instantiate \/ UNCHANGED vars
  BY <1>1, <1>5, WaitUndisturbed DEF Instantiate, vars, acknowledgement
<1>6. CASE BeginWait \/ FindIdle \/ EndWait
  BY <1>6 DEF BeginWait, FindIdle, EndWait, WaitCovers
<1>7. CASE CheckTracking
  <2>1. /\ wait' = IF TrackingComplete THEN "tracking complete" ELSE "failed"
        /\ held' = InHand
        /\ UNCHANGED <<tracking, queue, obligations, refused, awaited>>
    BY <1>7 DEF CheckTracking
  <2>2. ASSUME TrackingComplete, NEW task \in awaited \ (refused \cup InHand)
        PROVE  task \in queue \/ Excused(task)
    <3>1. task \in owed /\ DeferredTasks = {} /\ ~rootRefreshNeeded
      BY <2>2 DEF Typed, TypeOK, TrackingComplete, DeferredTasks
    <3>2. CASE task # RootTask
      BY <2>2, <3>1, <3>2 DEF Kept, RequestsAreKept
    <3>3. CASE task = RootTask
      <4>1. CASE Cardinality(Tracked) < MaxTracked
        BY <2>2, <3>1, <3>3, <4>1 DEF Kept, RootRequestIsKept, Excused
      <4>2. CASE ~(Cardinality(Tracked) < MaxTracked)
        BY <3>3, <4>2, FS_CardinalityType, TrackingAssumption DEF Excused, Typed, FiniteTables
      <4> QED BY <4>1, <4>2
    <3> QED BY <3>2, <3>3
  <2>3. \A task : Excused(task)' <=> Excused(task)
    BY <2>1, TrackedStays DEF Excused, tracking, obligations
  <2> QED BY <2>1, <2>2, <2>3 DEF WaitCovers
<1>8. CASE Conclude
  <2>1. /\ wait = "tracking complete"
        /\ wait' = IF queue = {} THEN "acknowledged" ELSE "failed"
        /\ UNCHANGED <<tracking, queue, obligations, refused, awaited, held>>
    BY <1>8 DEF Conclude
  <2>2. \A task : Excused(task)' <=> Excused(task)
    BY <2>1, TrackedStays DEF Excused, tracking, obligations
  <2> QED BY <2>1, <2>2 DEF WaitCovers
<1> QED BY <1>1, <1>2, <1>3, <1>4, <1>5, <1>6, <1>7, <1>8, WaitUndisturbed DEF Next

\* A publication whose wait succeeds has left nothing of what was put aside or
\* queued when it began, but what a full table refused, what a thread carried
\* while the tracking was checked, a root that the path table has no room for, or
\* one that was asked for behind the look-up of a probe that found no node.
THEOREM AcknowledgedIsSettledOrCarried == Spec => []AcknowledgedIsSettledOrInHand
<1> DEFINE Inv == Typed /\ Probing /\ Kept /\ WaitCovers
<1>1. Init => Inv
  BY TypedInit, ProbingInit, KeptInit DEF Init, WaitCovers
<1>2. Inv /\ [Next]_vars => Inv'
  BY TypedNext, ProbingNext, KeptNext, WaitNext
<1>3. Inv => AcknowledgedIsSettledOrInHand
  BY DEF WaitCovers, Excused, AcknowledgedIsSettledOrInHand
<1> QED BY <1>1, <1>2, <1>3, PTL DEF Spec
=============================================================================

-------------------- MODULE InvalidationSchedulerProofs --------------------
(***************************************************************************)
(* Theorems about InvalidationScheduler and about ConfigPublication on top *)
(* of it, for every number of sessions, inodes, entries, publishers and    *)
(* package changes and for every capacity of the queues.                   *)
(***************************************************************************)
EXTENDS ConfigPublication, FiniteSetTheorems, TLAPS

USE DEF TasksOfKind

-----------------------------------------------------------------------------
(***************************************************************************)
(* The counters of a batch.                                                *)
(***************************************************************************)
\* Every operation on the counters yields counters of the same batch.
LEMMA BatchOperations ==
    ASSUME NEW b \in Batch, NEW n \in Nat, NEW success \in BOOLEAN
    PROVE  /\ Accept(b) \in Batch /\ Accept(b).epoch = b.epoch
           /\ Accept(b).outstanding = b.outstanding + 1
           /\ RejectOne(b) \in Batch /\ RejectOne(b).epoch = b.epoch
           /\ RejectOne(b).outstanding = b.outstanding
           /\ FinishMany(b, n) \in Batch /\ FinishMany(b, n).epoch = b.epoch
           /\ FinishMany(b, n).outstanding
                 = IF n <= b.outstanding THEN b.outstanding - n ELSE 0
           /\ Finish(b, success) \in Batch /\ Finish(b, success).epoch = b.epoch
           /\ Finish(b, success).outstanding
                 = IF b.outstanding = 0 THEN 0 ELSE b.outstanding - 1
<1>1. /\ Accept(b) \in Batch /\ Accept(b).epoch = b.epoch
      /\ Accept(b).outstanding = b.outstanding + 1
  <2> DEFINE c == [b EXCEPT !.submitted = @ + 1]
  <2>1. c \in Batch /\ c.epoch = b.epoch /\ c.outstanding = b.outstanding
    BY DEF Batch
  <2>2. Accept(b) = [c EXCEPT !.outstanding = @ + 1]
    BY DEF Accept, Batch
  <2> HIDE DEF c
  <2> QED BY <2>1, <2>2 DEF Batch
<1>2. /\ RejectOne(b) \in Batch /\ RejectOne(b).epoch = b.epoch
      /\ RejectOne(b).outstanding = b.outstanding
  BY DEF RejectOne, Batch
<1>3. ASSUME NEW k \in Nat
      PROVE  /\ FinishMany(b, k) \in Batch /\ FinishMany(b, k).epoch = b.epoch
             /\ FinishMany(b, k).outstanding
                   = IF k <= b.outstanding THEN b.outstanding - k ELSE 0
  <2> DEFINE done == IF k <= b.outstanding THEN k ELSE b.outstanding
             c == [b EXCEPT !.outstanding = @ - done]
             d == [c EXCEPT !.completed = @ + done]
  <2>1. done \in Nat /\ b.outstanding - done \in Nat /\ k - done \in Nat
    BY DEF Batch
  <2>2. FinishMany(b, k) = [d EXCEPT !.failed = @ + (k - done)]
    BY DEF FinishMany, Batch
  <2>3. b.outstanding - done = IF k <= b.outstanding THEN b.outstanding - k ELSE 0
    BY DEF Batch
  <2> HIDE DEF done
  <2>4. c \in Batch /\ c.epoch = b.epoch /\ c.outstanding = b.outstanding - done
    BY <2>1 DEF Batch
  <2> HIDE DEF c
  <2>5. d \in Batch /\ d.epoch = c.epoch /\ d.outstanding = c.outstanding
    BY <2>1, <2>4 DEF Batch
  <2> HIDE DEF d
  <2> QED BY <2>1, <2>2, <2>3, <2>4, <2>5 DEF Batch
<1>4. /\ Finish(b, success) \in Batch /\ Finish(b, success).epoch = b.epoch
      /\ Finish(b, success).outstanding
            = IF b.outstanding = 0 THEN 0 ELSE b.outstanding - 1
  <2>1. CASE success \/ b.outstanding = 0
    <3>1. Finish(b, success) = FinishMany(b, 1)
      BY <2>1 DEF Finish
    <3>2. b.outstanding \in Nat
      BY DEF Batch
    <3> QED BY <1>3, <3>1, <3>2
  <2>2. CASE ~(success \/ b.outstanding = 0)
    <3> DEFINE c == [b EXCEPT !.outstanding = @ - 1]
    <3>1. c \in Batch /\ c.epoch = b.epoch /\ c.outstanding = b.outstanding - 1
      BY <2>2 DEF Batch
    <3>2. Finish(b, success) = [c EXCEPT !.failed = @ + 1]
      BY <2>2 DEF Finish, Batch
    <3> HIDE DEF c
    <3> QED BY <2>2, <3>1, <3>2 DEF Batch
  <2> QED BY <2>1, <2>2
<1> QED BY <1>1, <1>2, <1>3, <1>4

-----------------------------------------------------------------------------
(***************************************************************************)
(* One request: its place and what it may change.                          *)
(***************************************************************************)
\* The admission names a place; only an entry is folded into a parent sweep.
LEMMA AdmissionFacts ==
    ASSUME NEW t \in Task, NEW configReload \in BOOLEAN
    PROVE  /\ AdmissionOf(t, configReload) \in Admissions
           /\ AdmissionOf(t, configReload) = "NewParentSweep" => t.kind = "Entry"
           /\ AdmissionOf(t, configReload) = "ExactInodeCompensation" => t.kind = "Inode"
  BY DEF AdmissionOf, DecideInvalidationAdmission, Admissions

-----------------------------------------------------------------------------
(***************************************************************************)
(* The steps of the scheduler without the bound an instance puts on the    *)
(* requests of its publishers: what is kept here is kept by Next, and by   *)
(* the publishers of ConfigPublication too.                                *)
(***************************************************************************)
PublisherRequest(p, kind, se) ==
    /\ blocked[p] = {}
    /\ \E obj \in ObjectsOf(kind) :
          \/ QueueInvalidation(kind, CurrentToken(se), obj, TRUE)
          \/ /\ kind = "Inode"
             /\ Backpressured(p, CurrentToken(se), obj)

SchedulerNext ==
    \/ \E se \in Session :
          \/ RegisterSession(se) \/ Retire(se) \/ Drained(se) \/ FinishFuseSessionDestroy(se)
          \/ \E kind \in FuseKinds : FuseRequest(kind, se)
          \/ \E p \in Producer, kind \in ConfigKinds : PublisherRequest(p, kind, se)
    \/ \E p \in Producer : Admit(p) \/ GiveUp(p)
    \/ \E r \in Prober : BeginProbes(r) \/ EndProbe(r)
    \/ BeginHideInvalidationBatch
    \/ Take
    \/ \E success \in BOOLEAN : CompleteTask(success)

LEMMA NextIsScheduler == [Next]_vars => [SchedulerNext]_vars
<1>1. ASSUME NEW p \in Producer, NEW kind \in ConfigKinds, NEW se \in Session,
             ConfigRequest(p, kind, se)
      PROVE  PublisherRequest(p, kind, se)
  BY <1>1 DEF ConfigRequest, PublisherRequest
<1> QED BY <1>1 DEF Next, SchedulerNext

-----------------------------------------------------------------------------
(***************************************************************************)
(* The state stays typed and its queues finite.                            *)
(***************************************************************************)
Typed == TypeOK /\ FiniteQueues

\* What the four ways of settling a task do to the batch.
LEMMA BatchSteps ==
    ASSUME batch \in Batch, NEW t, NEW success \in BOOLEAN
    PROVE  /\ AcceptTask(t) => batch' \in Batch /\ batch'.epoch = batch.epoch
           /\ RejectTask(t) => batch' \in Batch /\ batch'.epoch = batch.epoch
           /\ FinishTask(t, success) => batch' \in Batch /\ batch'.epoch = batch.epoch
  BY BatchOperations DEF AcceptTask, RejectTask, FinishTask

\* A finite set stays finite when tasks leave it or one joins it.
LEMMA FiniteMoves ==
    ASSUME NEW S, IsFiniteSet(S), NEW T, NEW x
    PROVE  IsFiniteSet(S \ T) /\ IsFiniteSet(S \cup {x}) /\ IsFiniteSet((S \ T) \cup {x})
<1>1. IsFiniteSet(S \ T)
  BY FS_Subset
<1> QED BY <1>1, FS_AddElement

\* The task of a request, and the sweep an entry is folded into, are tasks.
LEMMA TaskForType ==
    ASSUME TypeOK, NEW kind \in {"Root", "Entry", "Inode"}, NEW se \in Session,
           NEW obj \in ObjectsOf(kind), NEW configReload \in BOOLEAN
    PROVE  LET t == TaskFor(kind, CurrentToken(se), obj, configReload)
           IN  /\ t \in Task /\ t.kind = kind /\ t.se = se
               /\ t.gen = sessions[se].generation
               /\ t.epoch = IF configReload THEN currentConfigEpoch ELSE 0
               /\ kind = "Entry" => /\ SweepOf(t) \in Task
                                    /\ SweepOf(t).kind = "Parent"
                                    /\ SweepOf(t).epoch = t.epoch
<1> DEFINE t == TaskFor(kind, CurrentToken(se), obj, configReload)
<1>1. obj \in Object /\ (kind = "Entry" => obj \in Entry)
  BY DEF ObjectsOf, Object
<1>2. sessions[se].generation \in Nat /\ currentConfigEpoch \in Nat
  BY DEF TypeOK, SessionState
<1>3. t = [kind |-> kind, se |-> se, gen |-> sessions[se].generation, obj |-> obj,
           epoch |-> IF configReload THEN currentConfigEpoch ELSE 0]
  BY DEF TaskFor, CurrentToken
<1>4. t \in Task
  BY <1>1, <1>2, <1>3 DEF Task, Kind
<1>5. ASSUME kind = "Entry"
      PROVE  SweepOf(t) \in Task /\ SweepOf(t).kind = "Parent" /\ SweepOf(t).epoch = t.epoch
  <2>1. ParentOf[obj] \in Object
    BY <1>1, <1>5, SchedulerAssumption DEF Object
  <2>2. SweepOf(t) = [kind |-> "Parent", se |-> se, gen |-> sessions[se].generation,
                      obj |-> ParentOf[obj], epoch |-> t.epoch]
    <3>1. t.obj = obj
      BY <1>3
    <3> DEFINE c == [t EXCEPT !.kind = "Parent"]
    <3>2. c = [kind |-> "Parent", se |-> se, gen |-> sessions[se].generation,
               obj |-> obj, epoch |-> t.epoch]
      BY <1>3
    <3>3. SweepOf(t) = [c EXCEPT !.obj = ParentOf[obj]]
      BY <1>3, <3>1 DEF SweepOf
    <3> HIDE DEF c
    <3> QED BY <3>2, <3>3
  <2>3. t.epoch \in Nat
    BY <1>2, <1>3
  <2> HIDE DEF t
  <2> QED BY <1>2, <2>1, <2>2, <2>3 DEF Task, Kind
<1> QED BY <1>3, <1>4, <1>5

\* Setting a flag of one session keeps the registry typed.
LEMMA SessionFlags ==
    ASSUME NEW registry \in [Session -> SessionState], NEW se \in Session, NEW flag \in BOOLEAN
    PROVE  /\ [registry EXCEPT ![se].rootPending = flag] \in [Session -> SessionState]
           /\ [registry EXCEPT ![se].rootNeedsReplay = flag] \in [Session -> SessionState]
  BY DEF SessionState

\* Whatever QueueInvalidation decides keeps the state typed.
LEMMA QueueInvalidationTyped ==
    ASSUME Typed, NEW kind \in {"Root", "Entry", "Inode"}, NEW se \in Session,
           NEW obj \in ObjectsOf(kind), NEW configReload \in BOOLEAN,
           QueueInvalidation(kind, CurrentToken(se), obj, configReload)
    PROVE  Typed'
<1> DEFINE t == TaskFor(kind, CurrentToken(se), obj, configReload)
<1> USE DEF Typed
<1>1. t \in Task /\ t.kind = kind /\ t.se = se
  BY TaskForType
<1>s. kind = "Entry" => SweepOf(t) \in Task /\ SweepOf(t).kind = "Parent"
  BY TaskForType
<1>2. CurrentToken(se).se = se
  BY DEF CurrentToken
<1>3. UNCHANGED <<nextGeneration, destroy, running, currentConfigEpoch, blocked, probes>>
  BY DEF QueueInvalidation
<1> HIDE DEF t
<1>4. CASE AbsorbRoot(se, configReload)
  <2>1. sessions' \in [Session -> SessionState]
    <3> DEFINE asked == [sessions EXCEPT ![se].rootNeedsReplay = TRUE]
    <3>1. sessions \in [Session -> SessionState] /\ currentConfigEpoch \in Nat
      BY DEF TypeOK
    <3>2. asked \in [Session -> SessionState]
      BY <3>1, SessionFlags
    <3>3. sessions' = IF configReload
                      THEN [asked EXCEPT ![se].rootReplayEpoch = currentConfigEpoch]
                      ELSE sessions
      BY <1>4 DEF AbsorbRoot
    <3> HIDE DEF asked
    <3> QED BY <3>1, <3>2, <3>3 DEF SessionState
  <2>2. UNCHANGED <<pending, overflowParents, overflowInodes, batch>>
    BY <1>4 DEF AbsorbRoot
  <2> QED BY <1>3, <2>1, <2>2 DEF TypeOK, FiniteQueues
<1>5. CASE AdmitNewTask(t, configReload)
  <2>1. ASSUME NEW u \in Evictable(t), AdmitToQueue(t, {u})
        PROVE  Typed'
    <3>1. {u} \subseteq TasksOfKind("Inode")
      BY DEF Evictable, TypeOK
    <3>2. batch' \in Batch
      BY <2>1, BatchSteps DEF AdmitToQueue, TypeOK
    <3>3. IsFiniteSet(pending') /\ IsFiniteSet(overflowInodes')
      BY <2>1, FiniteMoves DEF AdmitToQueue, FiniteQueues
    <3>4. sessions' \in [Session -> SessionState]
      BY <2>1, <1>1, SessionFlags DEF AdmitToQueue, TypeOK
    <3> QED BY <1>1, <1>3, <2>1, <3>1, <3>2, <3>3, <3>4 DEF AdmitToQueue, TypeOK, FiniteQueues
  <2>2. ASSUME AdmitToQueue(t, {})
        PROVE  Typed'
    <3>2. batch' \in Batch
      BY <2>2, BatchSteps DEF AdmitToQueue, TypeOK
    <3>3. IsFiniteSet(pending')
      BY <2>2, FiniteMoves DEF AdmitToQueue, FiniteQueues
    <3>4. sessions' \in [Session -> SessionState]
      BY <2>2, <1>1, SessionFlags DEF AdmitToQueue, TypeOK
    <3> QED BY <1>1, <1>3, <2>2, <3>2, <3>3, <3>4 DEF AdmitToQueue, TypeOK, FiniteQueues
  <2>3. CASE UNCHANGED <<sessions, pending, overflowParents, overflowInodes, batch>>
    BY <1>3, <2>3 DEF TypeOK, FiniteQueues
  <2>4. CASE /\ AdmissionOf(t, configReload) = "NewParentSweep"
             /\ overflowParents' = overflowParents \cup {SweepOf(t)}
             /\ AcceptTask(SweepOf(t))
             /\ UNCHANGED <<sessions, pending, overflowInodes>>
    <3>1. SweepOf(t) \in TasksOfKind("Parent")
      BY <1>1, <1>s, <2>4, AdmissionFacts
    <3>2. batch' \in Batch
      BY <2>4, BatchSteps DEF TypeOK
    <3>3. IsFiniteSet(overflowParents')
      BY <2>4, FiniteMoves DEF FiniteQueues
    <3> QED BY <1>3, <2>4, <3>1, <3>2, <3>3 DEF TypeOK, FiniteQueues
  <2>5. CASE /\ AdmissionOf(t, configReload) = "ExactInodeCompensation"
             /\ overflowInodes' = overflowInodes \cup {t}
             /\ AcceptTask(t)
             /\ UNCHANGED <<sessions, pending, overflowParents>>
    <3>1. t \in TasksOfKind("Inode")
      BY <1>1, <2>5, AdmissionFacts
    <3>2. batch' \in Batch
      BY <2>5, BatchSteps DEF TypeOK
    <3>3. IsFiniteSet(overflowInodes')
      BY <2>5, FiniteMoves DEF FiniteQueues
    <3> QED BY <1>3, <2>5, <3>1, <3>2, <3>3 DEF TypeOK, FiniteQueues
  <2>6. CASE /\ RejectTask(t)
             /\ UNCHANGED <<sessions, pending, overflowParents, overflowInodes>>
    <3>2. batch' \in Batch
      BY <2>6, BatchSteps DEF TypeOK
    <3> QED BY <1>3, <2>6, <3>2 DEF TypeOK, FiniteQueues
  <2> QED BY <1>5, <2>1, <2>2, <2>3, <2>4, <2>5, <2>6 DEF AdmitNewTask
<1>6. CASE UNCHANGED <<sessions, pending, overflowParents, overflowInodes, batch>>
  BY <1>3, <1>6 DEF TypeOK, FiniteQueues
<1> QED BY <1>2, <1>4, <1>5, <1>6 DEF QueueInvalidation, t

\* A publisher that waits remembers a task of the configuration it publishes.
LEMMA BackpressuredTyped ==
    ASSUME Typed, NEW p \in Producer, NEW se \in Session, NEW obj \in ObjectsOf("Inode"),
           Backpressured(p, CurrentToken(se), obj)
    PROVE  Typed'
<1> DEFINE t == TaskFor("Inode", CurrentToken(se), obj, TRUE)
<1>1. t \in Task
  BY TaskForType DEF Typed
<1>2. t.kind = "Inode"
  BY DEF TaskFor
<1>3. blocked' = [blocked EXCEPT ![p] = {t}]
  BY DEF Backpressured
<1>4. blocked' \in [Producer -> SUBSET TasksOfKind("Inode")]
  <2> HIDE DEF t
  <2> QED BY <1>1, <1>2, <1>3 DEF Typed, TypeOK
<1> QED BY <1>4 DEF Typed, TypeOK, FiniteQueues, Backpressured

\* The task the worker takes starts or, when its session is gone, is finished.
LEMMA StartTyped ==
    ASSUME Typed, NEW t \in Task, running = {}, Start(t)
    PROVE  /\ running' \subseteq Task /\ IsFiniteSet(running')
           /\ \A u, v \in running' : u = v
           /\ batch' \in Batch
<1>1. IsFiniteSet({t}) /\ IsFiniteSet({})
  BY FS_Singleton, FS_EmptySet
<1>2. batch \in Batch
  BY DEF Typed, TypeOK
<1> QED BY <1>1, <1>2, BatchSteps DEF Start

LEMMA WorkerTyped ==
    ASSUME Typed, Take \/ \E success \in BOOLEAN : CompleteTask(success)
    PROVE  Typed'
<1> USE DEF Typed
<1>1. ASSUME NEW t \in pending, TakePending(t)
      PROVE  Typed'
  <2>1. t \in Task /\ IsFiniteSet(pending \ {t})
    BY FiniteMoves DEF TypeOK, FiniteQueues
  <2> QED BY <1>1, <2>1, StartTyped DEF TakePending, TypeOK, FiniteQueues
<1>2. ASSUME NEW t \in overflowInodes, TakeOverflowInode(t)
      PROVE  Typed'
  <2>1. t \in Task /\ IsFiniteSet(overflowInodes \ {t})
    BY FiniteMoves DEF TypeOK, FiniteQueues
  <2> QED BY <1>2, <2>1, StartTyped DEF TakeOverflowInode, TypeOK, FiniteQueues
<1>3. ASSUME NEW t \in overflowParents, TakeOverflowParent(t)
      PROVE  Typed'
  <2>1. t \in Task /\ IsFiniteSet(overflowParents \ {t})
    BY FiniteMoves DEF TypeOK, FiniteQueues
  <2> QED BY <1>3, <2>1, StartTyped DEF TakeOverflowParent, TypeOK, FiniteQueues
<1>4. ASSUME NEW success \in BOOLEAN, CompleteTask(success)
      PROVE  Typed'
  <2> DEFINE finished(t) == IF Counted(t) THEN Finish(batch, success) ELSE batch
  <2>1. PICK t \in running : CompleteTask(success)!(t)
    BY <1>4 DEF CompleteTask
  <2>2. t \in Task /\ t.se \in Session /\ IsFiniteSet({})
    BY FS_EmptySet DEF TypeOK, Task
  <2>3. finished(t) \in Batch /\ Accept(finished(t)) \in Batch
    BY BatchOperations DEF TypeOK
  <2>4. CASE NeedsReplay(t)
    <3>1. ReplayOf(t) \in Task
      BY <2>2 DEF ReplayOf, Task, TypeOK, SessionState
    <3>2. IsFiniteSet(pending \cup {ReplayOf(t)})
      BY FiniteMoves DEF FiniteQueues
    <3> DEFINE half == [sessions EXCEPT ![t.se].rootNeedsReplay = FALSE]
    <3>5. half \in [Session -> SessionState]
      BY <2>2, SessionFlags DEF TypeOK
    <3>6. sessions' = [half EXCEPT ![t.se].rootReplayEpoch = 0]
      BY <2>1, <2>2, <2>4 DEF TypeOK, SessionState
    <3> HIDE DEF half
    <3>3. sessions' \in [Session -> SessionState]
      BY <2>2, <3>5, <3>6 DEF SessionState
    <3>4. batch' \in Batch
      BY <2>1, <2>3, <2>4
    <3> QED BY <2>1, <2>2, <2>4, <3>1, <3>2, <3>3, <3>4 DEF TypeOK, FiniteQueues
  <2>5. CASE ~NeedsReplay(t)
    <3>1. \/ sessions' = [sessions EXCEPT ![t.se].rootPending = FALSE]
          \/ sessions' = sessions
      BY <2>1, <2>5
    <3>3. sessions' \in [Session -> SessionState]
      <4>1. sessions \in [Session -> SessionState]
        BY DEF TypeOK
      <4>2. [sessions EXCEPT ![t.se].rootPending = FALSE] \in [Session -> SessionState]
        BY <2>2, <4>1 DEF SessionState
      <4> QED BY <3>1, <4>1, <4>2
    <3>4. batch' \in Batch
      BY <2>1, <2>3, <2>5
    <3> QED BY <2>1, <2>2, <2>5, <3>3, <3>4 DEF TypeOK, FiniteQueues
  <2> QED BY <2>4, <2>5
<1> QED BY <1>1, <1>2, <1>3, <1>4 DEF Take

\* A retiring session's tasks are finite in number, so they can be settled.
LEMMA RetireTyped ==
    ASSUME Typed, NEW se \in Session, Retire(se)
    PROVE  Typed'
<1> USE DEF Typed
<1>1. ASSUME NEW S, IsFiniteSet(S)
      PROVE  Cardinality(CountedIn(Of(se, S))) \in Nat
  <2>1. CountedIn(Of(se, S)) \subseteq S
    BY DEF CountedIn, Of
  <2> QED BY <1>1, <2>1, FS_Subset, FS_CardinalityType
<1>2. batch' \in Batch
  <2> DEFINE owed == Cardinality(CountedIn(Of(se, pending)))
                     + Cardinality(CountedIn(Of(se, overflowParents)))
                     + Cardinality(CountedIn(Of(se, overflowInodes)))
  <2>1. owed \in Nat
    BY <1>1 DEF FiniteQueues
  <2>2. batch' = FinishMany(batch, owed) /\ batch \in Batch
    BY DEF Retire, TypeOK
  <2> HIDE DEF owed
  <2> QED BY <2>1, <2>2, BatchOperations
<1>3. sessions' \in [Session -> SessionState]
  <2>1. Retired(sessions[se]) \in SessionState
    BY DEF Retired, NewSession, TypeOK, SessionState
  <2> QED BY <2>1 DEF Retire, TypeOK
<1>4. IsFiniteSet(pending') /\ IsFiniteSet(overflowParents') /\ IsFiniteSet(overflowInodes')
  BY FiniteMoves DEF Retire, FiniteQueues
<1> QED BY <1>2, <1>3, <1>4 DEF Retire, TypeOK, FiniteQueues

LEMMA TypedNext ==
    ASSUME Typed, [SchedulerNext]_vars
    PROVE  Typed'
<1> USE DEF Typed
<1>1. ASSUME NEW se \in Session, RegisterSession(se)
      PROVE  Typed'
  <2>1. sessions' \in [Session -> SessionState]
    BY <1>1 DEF RegisterSession, NewSession, TypeOK, SessionState
  <2> QED BY <1>1, <2>1 DEF RegisterSession, TypeOK, FiniteQueues
<1>2. ASSUME NEW se \in Session, Retire(se)
      PROVE  Typed'
  BY <1>2, RetireTyped
<1>3. ASSUME NEW se \in Session, Drained(se)
      PROVE  Typed'
  BY <1>3 DEF Drained, TypeOK, FiniteQueues
<1>4. ASSUME NEW se \in Session, FinishFuseSessionDestroy(se)
      PROVE  Typed'
  <2>1. sessions' \in [Session -> SessionState]
    BY <1>4 DEF FinishFuseSessionDestroy, NoSession, NewSession, TypeOK, SessionState
  <2> QED BY <1>4, <2>1 DEF FinishFuseSessionDestroy, TypeOK, FiniteQueues
<1>5. ASSUME NEW se \in Session, NEW kind \in FuseKinds, FuseRequest(kind, se)
      PROVE  Typed'
  <2>1. kind \in {"Root", "Entry", "Inode"}
    BY SchedulerAssumption
  <2> QED BY <1>5, <2>1, QueueInvalidationTyped DEF FuseRequest
<1>6. ASSUME NEW se \in Session, NEW p \in Producer, NEW kind \in ConfigKinds,
             PublisherRequest(p, kind, se)
      PROVE  Typed'
  BY <1>6, QueueInvalidationTyped, BackpressuredTyped DEF PublisherRequest, ConfigKinds
<1>7. ASSUME NEW p \in Producer, Admit(p)
      PROVE  Typed'
  <2>1. PICK t \in blocked[p] : Admit(p)!(t)
    BY <1>7 DEF Admit
  <2>2. t \in Task /\ batch' \in Batch /\ IsFiniteSet(overflowInodes')
    BY <2>1, BatchSteps, FiniteMoves DEF TypeOK, FiniteQueues
  <2> QED BY <2>1, <2>2 DEF TypeOK, FiniteQueues
<1>8. ASSUME NEW p \in Producer, GiveUp(p)
      PROVE  Typed'
  <2>1. PICK t \in blocked[p] : GiveUp(p)!(t)
    BY <1>8 DEF GiveUp
  <2>2. t \in Task /\ batch' \in Batch
    BY <2>1, BatchSteps DEF TypeOK
  <2> QED BY <2>1, <2>2 DEF TypeOK, FiniteQueues
<1>9. CASE BeginHideInvalidationBatch
  BY <1>9 DEF BeginHideInvalidationBatch, NewBatch, Batch, TypeOK, FiniteQueues
<1>10. CASE Take \/ \E success \in BOOLEAN : CompleteTask(success)
  BY <1>10, WorkerTyped
<1>11. CASE UNCHANGED vars
  BY <1>11 DEF vars, TypeOK, FiniteQueues
<1>12. ASSUME NEW r \in Prober, BeginProbes(r) \/ EndProbe(r)
       PROVE  Typed'
  <2>1. probes' \subseteq Probe
    BY <1>12 DEF BeginProbes, EndProbe, TypeOK, SessionState, Probe
  <2> QED BY <1>12, <2>1 DEF BeginProbes, EndProbe, TypeOK, FiniteQueues
<1> QED BY <1>1, <1>2, <1>3, <1>4, <1>5, <1>6, <1>7, <1>8, <1>9, <1>10, <1>11, <1>12
        DEF SchedulerNext

LEMMA TypedInit == Init => Typed
<1>1. IsFiniteSet({})
  BY FS_EmptySet
<1> QED BY <1>1 DEF Init, Typed, TypeOK, FiniteQueues, NoSession, NewSession, SessionState,
                    NewBatch, Batch

\* Every reachable state of the scheduler is typed: the queues hold tasks, the
\* worker runs at most one, and the unsigned counters never fall below zero.
THEOREM SchedulerTyped == Spec => []TypeOK
<1>1. Typed => TypeOK
  BY DEF Typed
<1>2. Typed /\ [Next]_vars => Typed'
  BY TypedNext, NextIsScheduler
<1> QED BY <1>1, <1>2, TypedInit, PTL DEF Spec

-----------------------------------------------------------------------------
(***************************************************************************)
(* The life of a session.  UsesOnlyLiveSession is not inductive alone: *)
(* it needs that a session is closed exactly while it is being destroyed,  *)
(* that what is running was admitted for a registered session, and that an *)
(* address without a session carries no flags.                             *)
(***************************************************************************)
Lifecycle ==
    /\ SessionLifecycle
    /\ UsesOnlyLiveSession
    /\ \A t \in running \cup probes : Registered(t.se)
    /\ \A se \in Session :
          ~Registered(se) => ~sessions[se].rootPending /\ ~sessions[se].rootNeedsReplay

\* A request changes the flags of an open session and nothing else about any.
LEMMA QueueInvalidationSessions ==
    ASSUME Typed, NEW kind \in {"Root", "Entry", "Inode"}, NEW se \in Session,
           NEW obj \in ObjectsOf(kind), NEW configReload \in BOOLEAN,
           QueueInvalidation(kind, CurrentToken(se), obj, configReload)
    PROVE  /\ UNCHANGED <<destroy, running, probes>>
           /\ \/ sessions' = sessions
              \/ /\ Registered(se) /\ ~sessions[se].retiring
                 /\ sessions'[se].generation = sessions[se].generation
                 /\ ~sessions'[se].retiring
                 /\ \A s \in Session \ {se} : sessions'[s] = sessions[s]
<1> DEFINE t == TaskFor(kind, CurrentToken(se), obj, configReload)
<1>1. t \in Task /\ t.kind = kind /\ t.se = se
  BY TaskForType DEF Typed
<1>2. CurrentToken(se).se = se /\ sessions \in [Session -> SessionState]
  BY DEF CurrentToken, Typed, TypeOK
<1>3. CASE /\ Alive(se, CurrentToken(se).gen)
           /\ AbsorbRoot(se, configReload)
  <2> DEFINE half == [sessions EXCEPT ![se].rootNeedsReplay = TRUE]
  <2>1. /\ half \in [Session -> SessionState]
        /\ half[se].generation = sessions[se].generation
        /\ half[se].retiring = sessions[se].retiring
        /\ \A s \in Session \ {se} : half[s] = sessions[s]
    BY <1>2 DEF SessionState
  <2>2. \/ sessions' = sessions
        \/ sessions' = [half EXCEPT ![se].rootReplayEpoch = currentConfigEpoch]
    BY <1>2, <1>3 DEF AbsorbRoot, SessionState
  <2> HIDE DEF half
  <2>3. CASE sessions' = [half EXCEPT ![se].rootReplayEpoch = currentConfigEpoch]
    BY <1>2, <1>3, <2>1, <2>3 DEF Alive, SessionState, QueueInvalidation
  <2> QED BY <2>2, <2>3 DEF QueueInvalidation
<1>4. ASSUME Alive(se, CurrentToken(se).gen), NEW evicted, AdmitToQueue(t, evicted)
      PROVE  \/ sessions' = sessions
             \/ /\ Registered(se) /\ ~sessions[se].retiring
                /\ sessions'[se].generation = sessions[se].generation
                /\ ~sessions'[se].retiring
                /\ \A s \in Session \ {se} : sessions'[s] = sessions[s]
  <2> HIDE DEF t
  <2>1. CASE sessions' = [sessions EXCEPT ![t.se].rootPending = TRUE]
    BY <1>1, <1>2, <1>4, <2>1 DEF Alive, SessionState
  <2> QED BY <1>4, <2>1 DEF AdmitToQueue
<1>5. CASE Alive(se, CurrentToken(se).gen) /\ AdmitNewTask(t, configReload)
  BY <1>4, <1>5 DEF AdmitNewTask, QueueInvalidation
<1> QED BY <1>2, <1>3, <1>5 DEF QueueInvalidation

LEMMA LifecycleQueueInvalidation ==
    ASSUME Typed, Lifecycle,
           NEW kind \in {"Root", "Entry", "Inode"}, NEW se \in Session,
           NEW obj \in ObjectsOf(kind), NEW configReload \in BOOLEAN,
           QueueInvalidation(kind, CurrentToken(se), obj, configReload)
    PROVE  Lifecycle'
<1>1. \A t \in running \cup probes : t.se \in Session
  BY DEF Typed, TypeOK, Task, Probe
<1>2. CASE sessions' = sessions
  BY <1>2, QueueInvalidationSessions
     DEF Lifecycle, SessionLifecycle, UsesOnlyLiveSession, Registered
<1>3. CASE sessions' # sessions
  BY <1>1, <1>3, QueueInvalidationSessions
     DEF Lifecycle, SessionLifecycle, UsesOnlyLiveSession, Registered
<1> QED BY <1>2, <1>3

\* The worker starts only what it has just found alive.
LEMMA LifecycleWorker ==
    ASSUME Typed, Lifecycle, Take \/ \E success \in BOOLEAN : CompleteTask(success)
    PROVE  Lifecycle'
<1>1. sessions \in [Session -> SessionState]
  BY DEF Typed, TypeOK
<1>2. ASSUME NEW t \in Task, Start(t), UNCHANGED <<sessions, destroy, probes>>
      PROVE  Lifecycle'
  <2>1. t.se \in Session
    BY DEF Task
  <2>2. CASE Alive(t.se, t.gen)
    BY <1>2, <2>1, <2>2
       DEF Start, Alive, Lifecycle, SessionLifecycle, UsesOnlyLiveSession, Registered
  <2>3. CASE ~Alive(t.se, t.gen)
    BY <1>2, <2>3
       DEF Start, Lifecycle, SessionLifecycle, UsesOnlyLiveSession, Registered
  <2> QED BY <2>2, <2>3
<1>3. CASE Take
  <2>1. pending \subseteq Task /\ overflowInodes \subseteq Task /\ overflowParents \subseteq Task
    BY DEF Typed, TypeOK
  <2> QED BY <1>2, <1>3, <2>1 DEF Take, TakePending, TakeOverflowInode, TakeOverflowParent
<1>4. ASSUME NEW success \in BOOLEAN, CompleteTask(success)
      PROVE  Lifecycle'
  <2>1. PICK t \in running : CompleteTask(success)!(t)
    BY <1>4 DEF CompleteTask
  <2>2. /\ t.se \in Session /\ running' = {}
        /\ UNCHANGED <<destroy, probes>> /\ \A q \in probes : q.se \in Session
    BY <2>1 DEF Typed, TypeOK, Task, Probe
  <2>3. CASE NeedsReplay(t)
    <3> DEFINE half == [sessions EXCEPT ![t.se].rootNeedsReplay = FALSE]
    <3>1. /\ half \in [Session -> SessionState]
          /\ half[t.se].generation = sessions[t.se].generation
          /\ half[t.se].retiring = sessions[t.se].retiring
          /\ \A s \in Session \ {t.se} : half[s] = sessions[s]
      BY <1>1, <2>2 DEF SessionState
    <3>2. sessions' = [half EXCEPT ![t.se].rootReplayEpoch = 0]
      BY <1>1, <2>1, <2>2, <2>3 DEF SessionState
    <3> HIDE DEF half
    <3>3. /\ sessions'[t.se].generation = sessions[t.se].generation
          /\ sessions'[t.se].retiring = sessions[t.se].retiring
          /\ \A s \in Session \ {t.se} : sessions'[s] = sessions[s]
      BY <2>2, <3>1, <3>2 DEF SessionState
    <3>4. ~sessions[t.se].retiring /\ Registered(t.se)
      BY <2>3 DEF NeedsReplay, Lifecycle
    <3> QED BY <2>2, <3>3, <3>4
            DEF Lifecycle, SessionLifecycle, UsesOnlyLiveSession, Registered
  <2>4. CASE ~NeedsReplay(t)
    <3>1. \/ sessions' = [sessions EXCEPT ![t.se].rootPending = FALSE]
          \/ sessions' = sessions
      BY <2>1, <2>4
    <3>2. CASE sessions' = [sessions EXCEPT ![t.se].rootPending = FALSE]
      <4>1. /\ sessions'[t.se].generation = sessions[t.se].generation
            /\ sessions'[t.se].retiring = sessions[t.se].retiring
            /\ sessions'[t.se].rootPending = FALSE
            /\ sessions'[t.se].rootNeedsReplay = sessions[t.se].rootNeedsReplay
            /\ \A s \in Session \ {t.se} : sessions'[s] = sessions[s]
        BY <1>1, <2>2, <3>2 DEF SessionState
      <4> QED BY <2>2, <4>1
              DEF Lifecycle, SessionLifecycle, UsesOnlyLiveSession, Registered
    <3>3. CASE sessions' = sessions
      BY <2>2, <3>3 DEF Lifecycle, SessionLifecycle, UsesOnlyLiveSession, Registered
    <3> QED BY <3>1, <3>2, <3>3
  <2> QED BY <2>3, <2>4
<1> QED BY <1>3, <1>4

LEMMA LifecycleNext ==
    ASSUME Typed, Lifecycle, [SchedulerNext]_vars
    PROVE  Lifecycle'
<1> USE DEF Lifecycle, SessionLifecycle, UsesOnlyLiveSession, Registered
<1>t. sessions \in [Session -> SessionState] /\ \A t \in running \cup probes : t.se \in Session
  BY DEF Typed, TypeOK, Task, Probe
<1>d. destroy \in [Session -> {"none", "draining", "destroying"}] /\ nextGeneration \in Nat
  BY DEF Typed, TypeOK
<1>1. ASSUME NEW se \in Session, RegisterSession(se)
      PROVE  Lifecycle'
  BY <1>t, <1>d, <1>1 DEF RegisterSession, NewSession
<1>2. ASSUME NEW se \in Session, Retire(se)
      PROVE  Lifecycle'
  <2>1. /\ Retired(sessions[se]).generation = sessions[se].generation
        /\ Retired(sessions[se]).retiring
        /\ ~Retired(sessions[se]).rootPending
        /\ ~Retired(sessions[se]).rootNeedsReplay
    BY DEF Retired, NewSession
  <2> QED BY <1>t, <1>d, <1>2, <2>1 DEF Retire
<1>3. ASSUME NEW se \in Session, Drained(se)
      PROVE  Lifecycle'
  BY <1>t, <1>d, <1>3 DEF Drained, Of
<1>4. ASSUME NEW se \in Session, FinishFuseSessionDestroy(se)
      PROVE  Lifecycle'
  BY <1>t, <1>d, <1>4 DEF FinishFuseSessionDestroy, NoSession, NewSession
<1>5. ASSUME NEW se \in Session, NEW kind \in FuseKinds, FuseRequest(kind, se)
      PROVE  Lifecycle'
  BY <1>5, SchedulerAssumption, LifecycleQueueInvalidation DEF FuseRequest
<1>6. ASSUME NEW se \in Session, NEW p \in Producer, NEW kind \in ConfigKinds,
             PublisherRequest(p, kind, se)
      PROVE  Lifecycle'
  <2>1. CASE \E obj \in ObjectsOf(kind) : QueueInvalidation(kind, CurrentToken(se), obj, TRUE)
    BY <2>1, LifecycleQueueInvalidation DEF ConfigKinds
  <2> QED BY <1>6, <2>1 DEF PublisherRequest, Backpressured
<1>7. ASSUME NEW p \in Producer, Admit(p) \/ GiveUp(p)
      PROVE  Lifecycle'
  BY <1>7 DEF Admit, GiveUp
<1>8. CASE Take \/ \E success \in BOOLEAN : CompleteTask(success)
  BY <1>8, LifecycleWorker
<1>9. CASE BeginHideInvalidationBatch \/ UNCHANGED vars
  BY <1>9 DEF BeginHideInvalidationBatch, vars
<1>10. ASSUME NEW r \in Prober, BeginProbes(r) \/ EndProbe(r)
       PROVE  Lifecycle'
  BY <1>t, <1>d, <1>10 DEF BeginProbes, EndProbe
<1> QED BY <1>1, <1>2, <1>3, <1>4, <1>5, <1>6, <1>7, <1>8, <1>9, <1>10 DEF SchedulerNext

LEMMA LifecycleInit == Init => Lifecycle
  BY DEF Init, NoSession, NewSession, Lifecycle, SessionLifecycle, UsesOnlyLiveSession,
         Registered

\* While the worker is inside libfuse, or a probe inside the node tree, without
\* the mutex, the session is the one the work was meant for and its original
\* destroy has not begun: for any number of sessions and reuse of addresses.
THEOREM WorkerUsesOnlyLiveSessions == Spec => []UsesOnlyLiveSession
<1>1. Lifecycle => UsesOnlyLiveSession
  BY DEF Lifecycle
<1>2. Typed /\ Lifecycle /\ [Next]_vars => (Typed /\ Lifecycle)'
  BY TypedNext, LifecycleNext, NextIsScheduler
<1>3. Init => Typed /\ Lifecycle
  BY TypedInit, LifecycleInit
<1> QED BY <1>1, <1>2, <1>3, PTL DEF Spec

-----------------------------------------------------------------------------
(***************************************************************************)
(* Root sweeps: a session that absorbs root requests has a sweep coming.   *)
(***************************************************************************)
\* A request is absorbed only behind a sweep, and takes no sweep away.
LEMMA RootQueueInvalidation ==
    ASSUME Typed, RootAbsorbedOnlyBehindSweep,
           NEW kind \in {"Root", "Entry", "Inode"}, NEW se \in Session,
           NEW obj \in ObjectsOf(kind), NEW configReload \in BOOLEAN,
           QueueInvalidation(kind, CurrentToken(se), obj, configReload)
    PROVE  RootAbsorbedOnlyBehindSweep'
<1> DEFINE t == TaskFor(kind, CurrentToken(se), obj, configReload)
<1>1. /\ t \in Task /\ t.kind = kind /\ t.se = se /\ t.gen = sessions[se].generation
  BY TaskForType DEF Typed
<1>2. /\ CurrentToken(se).se = se /\ sessions \in [Session -> SessionState]
      /\ running' = running
  BY DEF CurrentToken, Typed, TypeOK, QueueInvalidation
<1> HIDE DEF t
<1>3. CASE UNCHANGED <<sessions, pending>>
  BY <1>2, <1>3 DEF RootAbsorbedOnlyBehindSweep, RootSweepsOf
<1>4. CASE sessions[se].rootPending /\ AbsorbRoot(se, configReload)
  <2> DEFINE half == [sessions EXCEPT ![se].rootNeedsReplay = TRUE]
  <2>1. CASE sessions' = [half EXCEPT ![se].rootReplayEpoch = currentConfigEpoch]
    <3>1. /\ half \in [Session -> SessionState]
          /\ half[se].generation = sessions[se].generation
          /\ half[se].rootPending = sessions[se].rootPending
          /\ \A s \in Session \ {se} : half[s] = sessions[s]
      BY <1>2 DEF SessionState
    <3> HIDE DEF half
    <3>2. /\ sessions'[se].generation = sessions[se].generation
          /\ sessions'[se].rootPending
          /\ \A s \in Session \ {se} : sessions'[s] = sessions[s]
      BY <1>4, <2>1, <3>1 DEF SessionState
    <3>3. pending' = pending
      BY <1>4 DEF AbsorbRoot
    <3> QED BY <1>2, <1>4, <3>2, <3>3 DEF RootAbsorbedOnlyBehindSweep, RootSweepsOf
  <2>2. CASE sessions' = sessions
    BY <1>3, <1>4, <2>2 DEF AbsorbRoot
  <2>3. \/ sessions' = [half EXCEPT ![se].rootReplayEpoch = currentConfigEpoch]
        \/ sessions' = sessions
    BY <1>2, <1>4 DEF AbsorbRoot, SessionState
  <2> QED BY <2>1, <2>2, <2>3
<1>5. ASSUME NEW evicted \in SUBSET {u \in pending : u.kind = "Inode"},
             AdmitToQueue(t, evicted)
      PROVE  RootAbsorbedOnlyBehindSweep'
  <2>1. CASE kind = "Root"
    <3>1. sessions' = [sessions EXCEPT ![se].rootPending = TRUE]
      BY <1>1, <1>5, <2>1 DEF AdmitToQueue
    <3>2. /\ sessions'[se].generation = sessions[se].generation
          /\ \A s \in Session \ {se} : sessions'[s] = sessions[s]
          /\ sessions'[se].rootPending
      BY <1>2, <3>1 DEF SessionState
    <3>3. t \in RootSweepsOf(se)'
      BY <1>1, <1>5, <2>1, <3>2 DEF AdmitToQueue, RootSweepsOf
    <3>4. \A s \in Session \ {se} : RootSweepsOf(s) \subseteq RootSweepsOf(s)'
      BY <1>2, <1>5, <3>2 DEF AdmitToQueue, RootSweepsOf
    <3> QED BY <3>2, <3>3, <3>4 DEF RootAbsorbedOnlyBehindSweep
  <2>2. CASE kind # "Root"
    <3>1. sessions' = sessions
      BY <1>1, <1>5, <2>2 DEF AdmitToQueue
    <3>2. \A s \in Session : RootSweepsOf(s) \subseteq RootSweepsOf(s)'
      BY <1>2, <1>5, <3>1 DEF AdmitToQueue, RootSweepsOf
    <3> QED BY <3>1, <3>2 DEF RootAbsorbedOnlyBehindSweep
  <2> QED BY <2>1, <2>2
<1>6. CASE AdmitNewTask(t, configReload)
  <2>1. \A u \in Evictable(t) : {u} \in SUBSET {v \in pending : v.kind = "Inode"}
    BY DEF Evictable
  <2> QED BY <1>3, <1>5, <1>6, <2>1 DEF AdmitNewTask
<1> QED BY <1>2, <1>3, <1>4, <1>6 DEF QueueInvalidation, t

LEMMA RootWorker ==
    ASSUME Typed, Lifecycle, RootAbsorbedOnlyBehindSweep,
           Take \/ \E success \in BOOLEAN : CompleteTask(success)
    PROVE  RootAbsorbedOnlyBehindSweep'
<1>1. /\ sessions \in [Session -> SessionState]
      /\ \A u \in pending \cup running : u \in Task /\ u.se \in Session
      /\ \A u, v \in running : u = v
  BY DEF Typed, TypeOK, Task
<1>2. ASSUME NEW t \in pending, TakePending(t)
      PROVE  RootAbsorbedOnlyBehindSweep'
  <2>1. sessions' = sessions /\ pending' = pending \ {t}
    BY <1>2 DEF TakePending
  <2>2. CASE Alive(t.se, t.gen)
    <3>1. \A s \in Session : RootSweepsOf(s) \subseteq RootSweepsOf(s)'
      BY <1>2, <2>1, <2>2 DEF TakePending, Start, RootSweepsOf
    <3> QED BY <2>1, <3>1 DEF RootAbsorbedOnlyBehindSweep
  <2>3. CASE ~Alive(t.se, t.gen)
    <3>1. \A s \in Session : sessions[s].rootPending => t \notin RootSweepsOf(s)
      BY <1>1, <2>3 DEF RootSweepsOf, Alive, Lifecycle, SessionLifecycle, Registered
    <3>2. \A s \in Session : RootSweepsOf(s) \ {t} \subseteq RootSweepsOf(s)'
      BY <1>2, <2>1, <2>3 DEF TakePending, Start, RootSweepsOf
    <3> QED BY <2>1, <3>1, <3>2 DEF RootAbsorbedOnlyBehindSweep
  <2> QED BY <2>2, <2>3
<1>3. ASSUME UNCHANGED <<sessions, pending>>, NEW t, running = {}, Start(t)
      PROVE  RootAbsorbedOnlyBehindSweep'
  <2>1. \A s \in Session : RootSweepsOf(s) \subseteq RootSweepsOf(s)'
    BY <1>3 DEF RootSweepsOf, Start
  <2> QED BY <1>3, <2>1 DEF RootAbsorbedOnlyBehindSweep
<1>4. ASSUME NEW success \in BOOLEAN, CompleteTask(success)
      PROVE  RootAbsorbedOnlyBehindSweep'
  <2>1. PICK t \in running : CompleteTask(success)!(t)
    BY <1>4 DEF CompleteTask
  <2>2. t \in Task /\ t.se \in Session /\ running = {t} /\ running' = {}
    BY <1>1, <2>1
  <2>3. CASE NeedsReplay(t)
    <3> DEFINE half == [sessions EXCEPT ![t.se].rootNeedsReplay = FALSE]
    <3>1. /\ half \in [Session -> SessionState]
          /\ half[t.se].generation = sessions[t.se].generation
          /\ ~half[t.se].rootNeedsReplay
          /\ \A s \in Session \ {t.se} : half[s] = sessions[s]
      BY <1>1, <2>2 DEF SessionState
    <3>2. sessions' = [half EXCEPT ![t.se].rootReplayEpoch = 0]
      BY <1>1, <2>1, <2>2, <2>3 DEF SessionState
    <3> HIDE DEF half
    <3>3. /\ sessions'[t.se].generation = sessions[t.se].generation
          /\ ~sessions'[t.se].rootNeedsReplay
          /\ \A s \in Session \ {t.se} : sessions'[s] = sessions[s]
      BY <2>2, <3>1, <3>2 DEF SessionState
    <3>4. pending' = pending \cup {ReplayOf(t)}
      BY <2>1, <2>3
    <3>5. /\ ReplayOf(t).kind = "Root" /\ ReplayOf(t).se = t.se
          /\ ReplayOf(t).gen = sessions[t.se].generation
      BY <2>2, <2>3 DEF ReplayOf, NeedsReplay, Task
    <3>6. ReplayOf(t) \in RootSweepsOf(t.se)'
      BY <3>3, <3>4, <3>5 DEF RootSweepsOf
    <3>7. \A s \in Session \ {t.se} : RootSweepsOf(s) \subseteq RootSweepsOf(s)'
      BY <2>2, <3>3, <3>4 DEF RootSweepsOf
    <3> QED BY <3>3, <3>6, <3>7 DEF RootAbsorbedOnlyBehindSweep
  <2>4. CASE ~NeedsReplay(t)
    <3>1. pending' = pending
      BY <2>1, <2>4
    <3>2. CASE t.kind = "Root" /\ sessions[t.se].generation = t.gen
      <4>1. sessions' = [sessions EXCEPT ![t.se].rootPending = FALSE]
        BY <2>1, <2>4, <3>2
      <4>2. /\ ~sessions'[t.se].rootPending
            /\ sessions'[t.se].rootNeedsReplay = sessions[t.se].rootNeedsReplay
            /\ \A s \in Session \ {t.se} : sessions'[s] = sessions[s]
        BY <1>1, <2>2, <4>1 DEF SessionState
      <4>3. ~sessions[t.se].rootNeedsReplay
        BY <2>2, <2>4, <3>2 DEF NeedsReplay, Lifecycle, SessionLifecycle
      <4>4. \A s \in Session \ {t.se} : RootSweepsOf(s) \subseteq RootSweepsOf(s)'
        BY <2>2, <3>1, <4>2 DEF RootSweepsOf
      <4> QED BY <4>2, <4>3, <4>4 DEF RootAbsorbedOnlyBehindSweep
    <3>3. CASE ~(t.kind = "Root" /\ sessions[t.se].generation = t.gen)
      <4>1. sessions' = sessions
        BY <2>1, <2>4, <3>3
      <4>2. \A s \in Session : RootSweepsOf(s) \subseteq RootSweepsOf(s)'
        BY <2>2, <3>1, <3>3, <4>1 DEF RootSweepsOf
      <4> QED BY <4>1, <4>2 DEF RootAbsorbedOnlyBehindSweep
    <3> QED BY <3>2, <3>3
  <2> QED BY <2>3, <2>4
<1> QED BY <1>2, <1>3, <1>4 DEF Take, TakeOverflowInode, TakeOverflowParent

LEMMA RootNext ==
    ASSUME Typed, Lifecycle, RootAbsorbedOnlyBehindSweep, [SchedulerNext]_vars
    PROVE  RootAbsorbedOnlyBehindSweep'
<1>t. sessions \in [Session -> SessionState]
  BY DEF Typed, TypeOK
<1>1. ASSUME NEW se \in Session, RegisterSession(se)
      PROVE  RootAbsorbedOnlyBehindSweep'
  BY <1>t, <1>1 DEF RegisterSession, NewSession, RootAbsorbedOnlyBehindSweep, RootSweepsOf
<1>2. ASSUME NEW se \in Session, Retire(se)
      PROVE  RootAbsorbedOnlyBehindSweep'
  <2>1. ~Retired(sessions[se]).rootPending /\ ~Retired(sessions[se]).rootNeedsReplay
    BY DEF Retired, NewSession
  <2>2. sessions'[se] = Retired(sessions[se]) /\ \A s \in Session \ {se} : sessions'[s] = sessions[s]
    BY <1>t, <1>2 DEF Retire
  <2>3. \A s \in Session \ {se} : RootSweepsOf(s) \subseteq RootSweepsOf(s)'
    BY <1>2, <2>2 DEF Retire, Of, RootSweepsOf
  <2> QED BY <2>1, <2>2, <2>3 DEF RootAbsorbedOnlyBehindSweep
<1>3. ASSUME NEW se \in Session, FinishFuseSessionDestroy(se)
      PROVE  RootAbsorbedOnlyBehindSweep'
  BY <1>t, <1>3 DEF FinishFuseSessionDestroy, NoSession, NewSession,
                    RootAbsorbedOnlyBehindSweep, RootSweepsOf
<1>4. ASSUME NEW se \in Session, NEW kind \in FuseKinds, FuseRequest(kind, se)
      PROVE  RootAbsorbedOnlyBehindSweep'
  BY <1>4, SchedulerAssumption, RootQueueInvalidation DEF FuseRequest
<1>5. CASE UNCHANGED <<sessions, pending, running>>
  BY <1>5 DEF RootAbsorbedOnlyBehindSweep, RootSweepsOf
<1>6. ASSUME NEW se \in Session, NEW p \in Producer, NEW kind \in ConfigKinds,
             PublisherRequest(p, kind, se)
      PROVE  RootAbsorbedOnlyBehindSweep'
  <2>1. CASE \E obj \in ObjectsOf(kind) : QueueInvalidation(kind, CurrentToken(se), obj, TRUE)
    BY <2>1, RootQueueInvalidation DEF ConfigKinds
  <2> QED BY <1>5, <1>6, <2>1 DEF PublisherRequest, Backpressured
<1>7. CASE Take \/ \E success \in BOOLEAN : CompleteTask(success)
  BY <1>7, RootWorker
<1> QED BY <1>1, <1>2, <1>3, <1>4, <1>5, <1>6, <1>7
        DEF SchedulerNext, Drained, Admit, GiveUp, BeginProbes, EndProbe, BeginHideInvalidationBatch, vars

\* However requests, sweeps, replays and session destroys interleave, a session
\* whose root requests are absorbed has a root sweep queued or running: no
\* request for a root invalidation is absorbed into nothing.
THEOREM RootRequestsAreServed == Spec => []RootAbsorbedOnlyBehindSweep
<1> DEFINE Inv == Typed /\ Lifecycle /\ RootAbsorbedOnlyBehindSweep
<1>1. Init => Inv
  BY TypedInit, LifecycleInit
     DEF Init, RootAbsorbedOnlyBehindSweep, NoSession, NewSession
<1>2. Inv /\ [Next]_vars => Inv'
  BY TypedNext, LifecycleNext, RootNext, NextIsScheduler
<1>3. Inv => RootAbsorbedOnlyBehindSweep
  OBVIOUS
<1> QED BY <1>1, <1>2, <1>3, PTL DEF Spec

-----------------------------------------------------------------------------
(***************************************************************************)
(* Counting: CompleteMeansNotified follows from there never being fewer    *)
(* outstanding tasks than counted ones, and that is kept only because no   *)
(* task is of a configuration that is still to come.                       *)
(***************************************************************************)
InEpoch(tasks, e) == {t \in tasks : t.epoch # 0 /\ t.epoch = e}
Load(tasks, e) == Cardinality(InEpoch(tasks, e))
One(t, e) == IF t.epoch # 0 /\ t.epoch = e THEN 1 ELSE 0

Owing == EpochsAreKnown /\ OutstandingCoversTasks

\* How the load of a queue changes when a task joins or leaves it.
LEMMA LoadMoves ==
    ASSUME NEW S, IsFiniteSet(S), NEW t, NEW e
    PROVE  /\ Load(S, e) \in Nat
           /\ One(t, e) \in {0, 1}
           /\ Load(S \cup {t}, e) \in Nat
           /\ Load(S \cup {t}, e) <= Load(S, e) + One(t, e)
           /\ Load(S \ {t}, e) \in Nat
           /\ t \in S => Load(S \ {t}, e) = Load(S, e) - One(t, e)
<1>1. IsFiniteSet(InEpoch(S, e))
  BY FS_Subset DEF InEpoch
<1>2. Load(S, e) \in Nat
  BY <1>1, FS_CardinalityType DEF Load
<1>3. CASE t.epoch # 0 /\ t.epoch = e
  <2>1. InEpoch(S \cup {t}, e) = InEpoch(S, e) \cup {t}
    BY <1>3 DEF InEpoch
  <2>2. InEpoch(S \ {t}, e) = InEpoch(S, e) \ {t}
    BY <1>3 DEF InEpoch
  <2>3. t \in S => t \in InEpoch(S, e)
    BY <1>3 DEF InEpoch
  <2>4. /\ Cardinality(InEpoch(S, e) \cup {t})
             = IF t \in InEpoch(S, e) THEN Load(S, e) ELSE Load(S, e) + 1
        /\ Cardinality(InEpoch(S, e) \ {t})
             = IF t \in InEpoch(S, e) THEN Load(S, e) - 1 ELSE Load(S, e)
    BY <1>1, FS_AddElement, FS_RemoveElement DEF Load
  <2>5. Cardinality(InEpoch(S, e) \ {t}) \in Nat
    BY <1>1, FS_RemoveElement, FS_CardinalityType
  <2>6. /\ Load(S \cup {t}, e) = IF t \in InEpoch(S, e) THEN Load(S, e) ELSE Load(S, e) + 1
        /\ Load(S \ {t}, e) = IF t \in InEpoch(S, e) THEN Load(S, e) - 1 ELSE Load(S, e)
        /\ Load(S \ {t}, e) \in Nat
    BY <2>1, <2>2, <2>4, <2>5 DEF Load
  <2>7. One(t, e) = 1
    BY <1>3 DEF One
  <2> QED BY <1>2, <2>3, <2>6, <2>7
<1>4. CASE ~(t.epoch # 0 /\ t.epoch = e)
  <2>1. InEpoch(S \cup {t}, e) = InEpoch(S, e) /\ InEpoch(S \ {t}, e) = InEpoch(S, e)
    BY <1>4 DEF InEpoch
  <2> QED BY <1>2, <1>4, <2>1 DEF Load, One
<1> QED BY <1>3, <1>4

\* What leaves a queue with a retired session is what was settled for it.
LEMMA LoadOfRetired ==
    ASSUME NEW S, IsFiniteSet(S), NEW se, NEW e
    PROVE  /\ Load(S, e) \in Nat /\ Load(Of(se, S), e) \in Nat
           /\ Load(S \ Of(se, S), e) = Load(S, e) - Load(Of(se, S), e)
<1>1. IsFiniteSet(InEpoch(S, e)) /\ IsFiniteSet(InEpoch(Of(se, S), e))
  <2>1. InEpoch(S, e) \subseteq S /\ InEpoch(Of(se, S), e) \subseteq S
    BY DEF InEpoch, Of
  <2> QED BY <2>1, FS_Subset
<1>2. InEpoch(S \ Of(se, S), e) = InEpoch(S, e) \ InEpoch(Of(se, S), e)
  BY DEF InEpoch, Of
<1>3. InEpoch(S, e) \cap InEpoch(Of(se, S), e) = InEpoch(Of(se, S), e)
  BY DEF InEpoch, Of
<1>4. /\ Cardinality(InEpoch(S, e)) \in Nat /\ Cardinality(InEpoch(Of(se, S), e)) \in Nat
      /\ Cardinality(InEpoch(S, e) \ InEpoch(Of(se, S), e))
            = Cardinality(InEpoch(S, e)) - Cardinality(InEpoch(S, e) \cap InEpoch(Of(se, S), e))
  BY <1>1, FS_Difference, FS_CardinalityType
<1> QED BY <1>2, <1>3, <1>4 DEF Load

LEMMA CountedIsLoad ==
    /\ CountedTasks = Load(pending, batch.epoch) + Load(overflowParents, batch.epoch)
                      + Load(overflowInodes, batch.epoch) + Load(running, batch.epoch)
    /\ CountedTasks' = Load(pending', batch'.epoch) + Load(overflowParents', batch'.epoch)
                       + Load(overflowInodes', batch'.epoch) + Load(running', batch'.epoch)
  BY DEF CountedTasks, CountedIn, Counted, Load, InEpoch

LEMMA BatchOutstanding ==
    ASSUME batch \in Batch, NEW t, NEW success \in BOOLEAN
    PROVE  /\ batch.outstanding \in Nat
           /\ AcceptTask(t) => batch'.outstanding = batch.outstanding + One(t, batch.epoch)
           /\ RejectTask(t) => batch'.outstanding = batch.outstanding
           /\ FinishTask(t, success) =>
                 batch'.outstanding = IF batch.outstanding = 0 THEN 0
                                      ELSE batch.outstanding - One(t, batch.epoch)
<1>1. batch.outstanding \in Nat
  BY DEF Batch
<1> QED BY <1>1, BatchOperations DEF AcceptTask, RejectTask, FinishTask, Counted, One

\* Every task in a place the scheduler knows is of the current or an older epoch.
LEMMA EpochsQueueInvalidation ==
    ASSUME Typed, EpochsAreKnown,
           NEW kind \in {"Root", "Entry", "Inode"}, NEW se \in Session,
           NEW obj \in ObjectsOf(kind), NEW configReload \in BOOLEAN,
           QueueInvalidation(kind, CurrentToken(se), obj, configReload)
    PROVE  EpochsAreKnown'
<1> DEFINE t == TaskFor(kind, CurrentToken(se), obj, configReload)
<1>1. /\ t.kind = kind /\ t.se = se
      /\ t.epoch <= currentConfigEpoch
      /\ kind = "Entry" => SweepOf(t).epoch <= currentConfigEpoch
  BY TaskForType DEF Typed, TypeOK
<1>2. /\ CurrentToken(se).se = se /\ sessions \in [Session -> SessionState]
      /\ batch \in Batch /\ currentConfigEpoch \in Nat
      /\ UNCHANGED <<running, currentConfigEpoch, blocked>>
  BY DEF CurrentToken, Typed, TypeOK, QueueInvalidation
<1> HIDE DEF t
<1>3. ASSUME \A s \in Session : sessions'[s].rootReplayEpoch <= currentConfigEpoch,
             Queued' \subseteq Queued \cup {u \in {t, SweepOf(t)} : u.epoch <= currentConfigEpoch},
             batch'.epoch = batch.epoch
      PROVE  EpochsAreKnown'
  BY <1>2, <1>3 DEF EpochsAreKnown
<1>4. CASE AbsorbRoot(se, configReload)
  <2> DEFINE half == [sessions EXCEPT ![se].rootNeedsReplay = TRUE]
  <2>1. /\ half \in [Session -> SessionState]
        /\ \A s \in Session : half[s].rootReplayEpoch = sessions[s].rootReplayEpoch
    BY <1>2 DEF SessionState
  <2>2. \/ sessions' = [half EXCEPT ![se].rootReplayEpoch = currentConfigEpoch]
        \/ sessions' = sessions
    BY <1>2, <1>4 DEF AbsorbRoot, SessionState
  <2> HIDE DEF half
  <2>3. \A s \in Session : \/ sessions'[s].rootReplayEpoch = sessions[s].rootReplayEpoch
                           \/ sessions'[s].rootReplayEpoch = currentConfigEpoch
    BY <2>1, <2>2 DEF SessionState
  <2>4. Queued' = Queued /\ batch' = batch
    BY <1>4 DEF AbsorbRoot, Queued
  <2> QED BY <1>2, <1>3, <2>3, <2>4 DEF EpochsAreKnown
<1>5. ASSUME NEW evicted \in SUBSET pending, AdmitToQueue(t, evicted)
      PROVE  EpochsAreKnown'
  <2>1. \A s \in Session : sessions'[s].rootReplayEpoch = sessions[s].rootReplayEpoch
    BY <1>2, <1>5 DEF AdmitToQueue, SessionState
  <2>2. Queued' \subseteq Queued \cup {t}
    BY <1>5 DEF AdmitToQueue, Queued
  <2>3. batch'.epoch = batch.epoch
    BY <1>2, <1>5, BatchSteps DEF AdmitToQueue
  <2> QED BY <1>1, <1>2, <1>3, <2>1, <2>2, <2>3 DEF EpochsAreKnown
<1>6. CASE UNCHANGED <<sessions, pending, overflowParents, overflowInodes, batch>>
  BY <1>3, <1>6 DEF Queued, EpochsAreKnown
<1>7. CASE AdmitNewTask(t, configReload)
  <2>1. \A u \in Evictable(t) : {u} \in SUBSET pending
    BY DEF Evictable
  <2>2. CASE /\ AdmissionOf(t, configReload) = "NewParentSweep"
             /\ overflowParents' = overflowParents \cup {SweepOf(t)}
             /\ AcceptTask(SweepOf(t))
             /\ UNCHANGED <<sessions, pending, overflowInodes>>
    <3>1. t.kind = "Entry"
      BY <1>2, <2>2, TaskForType, AdmissionFacts DEF t, Typed
    <3>2. batch'.epoch = batch.epoch
      BY <1>2, <2>2, BatchSteps
    <3>3. Queued' = Queued \cup {SweepOf(t)}
      BY <2>2 DEF Queued
    <3> QED BY <1>1, <1>3, <2>2, <3>1, <3>2, <3>3 DEF EpochsAreKnown
  <2>3. CASE /\ overflowInodes' = overflowInodes \cup {t}
             /\ AcceptTask(t)
             /\ UNCHANGED <<sessions, pending, overflowParents>>
    <3>2. batch'.epoch = batch.epoch
      BY <1>2, <2>3, BatchSteps
    <3>3. Queued' = Queued \cup {t}
      BY <2>3 DEF Queued
    <3> QED BY <1>1, <1>3, <2>3, <3>2, <3>3 DEF EpochsAreKnown
  <2>4. CASE /\ RejectTask(t)
             /\ UNCHANGED <<sessions, pending, overflowParents, overflowInodes>>
    <3>2. batch'.epoch = batch.epoch
      BY <1>2, <2>4, BatchSteps
    <3> QED BY <1>3, <2>4, <3>2 DEF Queued, EpochsAreKnown
  <2> QED BY <1>5, <1>6, <1>7, <2>1, <2>2, <2>3, <2>4 DEF AdmitNewTask
<1> QED BY <1>2, <1>4, <1>6, <1>7 DEF QueueInvalidation, t

\* Each way into a queue is accounted for once.
LEMMA LoadQueueInvalidation ==
    ASSUME Typed, OutstandingCoversTasks,
           NEW kind \in {"Root", "Entry", "Inode"}, NEW se \in Session,
           NEW obj \in ObjectsOf(kind), NEW configReload \in BOOLEAN,
           QueueInvalidation(kind, CurrentToken(se), obj, configReload)
    PROVE  OutstandingCoversTasks'
<1> DEFINE t == TaskFor(kind, CurrentToken(se), obj, configReload)
           e == batch.epoch
<1>1. /\ batch \in Batch /\ running' = running
      /\ Load(pending, e) \in Nat /\ Load(overflowParents, e) \in Nat
      /\ Load(overflowInodes, e) \in Nat /\ Load(running, e) \in Nat
  BY LoadMoves DEF Typed, TypeOK, FiniteQueues, QueueInvalidation
<1> HIDE DEF t
<1>2. CASE UNCHANGED <<pending, overflowParents, overflowInodes, batch>>
  BY <1>1, <1>2, CountedIsLoad DEF OutstandingCoversTasks
<1>3. ASSUME AdmitToQueue(t, {})
      PROVE  OutstandingCoversTasks'
  <2>1. Load(pending', e) <= Load(pending, e) + One(t, e) /\ Load(pending', e) \in Nat
    BY <1>3, LoadMoves DEF AdmitToQueue, Typed, FiniteQueues
  <2>2. batch'.outstanding = batch.outstanding + One(t, e) /\ batch'.epoch = e
    BY <1>1, <1>3, BatchOutstanding, BatchSteps DEF AdmitToQueue
  <2>3. One(t, e) \in Nat /\ batch.outstanding \in Nat
    BY <1>1, BatchOutstanding DEF One
  <2>4. overflowParents' = overflowParents /\ overflowInodes' = overflowInodes
    BY <1>3 DEF AdmitToQueue
  <2> HIDE DEF e
  <2> QED BY <1>1, <2>1, <2>2, <2>3, <2>4, CountedIsLoad DEF OutstandingCoversTasks, e
<1>4. ASSUME NEW u \in Evictable(t), AdmitToQueue(t, {u})
      PROVE  OutstandingCoversTasks'
  <2>0. u \in pending
    BY DEF Evictable
  <2>1. /\ Load(pending \ {u}, e) = Load(pending, e) - One(u, e)
        /\ Load(pending \ {u}, e) \in Nat
        /\ IsFiniteSet(pending \ {u})
    BY <2>0, LoadMoves, FiniteMoves DEF Typed, FiniteQueues
  <2>2. /\ Load(pending', e) <= Load(pending \ {u}, e) + One(t, e)
        /\ Load(pending', e) \in Nat
    BY <1>4, <2>1, LoadMoves DEF AdmitToQueue
  <2>3. /\ Load(overflowInodes', e) <= Load(overflowInodes, e) + One(u, e)
        /\ Load(overflowInodes', e) \in Nat
    BY <1>4, LoadMoves DEF AdmitToQueue, Typed, FiniteQueues
  <2>4. batch'.outstanding = batch.outstanding + One(t, e) /\ batch'.epoch = e
    BY <1>1, <1>4, BatchOutstanding, BatchSteps DEF AdmitToQueue
  <2>5. One(t, e) \in Nat /\ One(u, e) \in Nat /\ batch.outstanding \in Nat
    BY <1>1, BatchOutstanding DEF One
  <2>6. overflowParents' = overflowParents
    BY <1>4 DEF AdmitToQueue
  <2> HIDE DEF e
  <2> QED BY <1>1, <2>1, <2>2, <2>3, <2>4, <2>5, <2>6, CountedIsLoad
          DEF OutstandingCoversTasks, e
<1>5. CASE /\ overflowParents' = overflowParents \cup {SweepOf(t)}
           /\ AcceptTask(SweepOf(t))
           /\ UNCHANGED <<sessions, pending, overflowInodes>>
  <2>1. /\ Load(overflowParents', e) <= Load(overflowParents, e) + One(SweepOf(t), e)
        /\ Load(overflowParents', e) \in Nat
    BY <1>5, LoadMoves DEF Typed, FiniteQueues
  <2>2. batch'.outstanding = batch.outstanding + One(SweepOf(t), e) /\ batch'.epoch = e
    BY <1>1, <1>5, BatchOutstanding, BatchSteps
  <2>3. One(SweepOf(t), e) \in Nat /\ batch.outstanding \in Nat
    BY <1>1, BatchOutstanding DEF One
  <2> HIDE DEF e
  <2> QED BY <1>1, <1>5, <2>1, <2>2, <2>3, CountedIsLoad DEF OutstandingCoversTasks, e
<1>6. CASE /\ overflowInodes' = overflowInodes \cup {t}
           /\ AcceptTask(t)
           /\ UNCHANGED <<sessions, pending, overflowParents>>
  <2>1. /\ Load(overflowInodes', e) <= Load(overflowInodes, e) + One(t, e)
        /\ Load(overflowInodes', e) \in Nat
    BY <1>6, LoadMoves DEF Typed, FiniteQueues
  <2>2. batch'.outstanding = batch.outstanding + One(t, e) /\ batch'.epoch = e
    BY <1>1, <1>6, BatchOutstanding, BatchSteps
  <2>3. One(t, e) \in Nat /\ batch.outstanding \in Nat
    BY <1>1, BatchOutstanding DEF One
  <2> HIDE DEF e
  <2> QED BY <1>1, <1>6, <2>1, <2>2, <2>3, CountedIsLoad DEF OutstandingCoversTasks, e
<1>7. CASE /\ RejectTask(t)
           /\ UNCHANGED <<sessions, pending, overflowParents, overflowInodes>>
  <2>1. batch'.outstanding = batch.outstanding /\ batch'.epoch = e
    BY <1>1, <1>7, BatchOutstanding, BatchSteps
  <2> QED BY <1>1, <1>7, <2>1, CountedIsLoad DEF OutstandingCoversTasks
<1> QED BY <1>2, <1>3, <1>4, <1>5, <1>6, <1>7
        DEF QueueInvalidation, AbsorbRoot, AdmitNewTask, t

\* A task the worker takes is still counted while it runs, or is finished.
LEMMA LoadStart ==
    ASSUME Typed, NEW t \in Task, running = {}, Start(t),
           One(t, batch.epoch) <= batch.outstanding
    PROVE  /\ Load(running', batch.epoch) + batch.outstanding
                 <= batch'.outstanding + One(t, batch.epoch)
           /\ Load(running', batch.epoch) \in Nat
           /\ batch'.epoch = batch.epoch /\ batch'.outstanding \in Nat
<1> DEFINE e == batch.epoch
<1>1. /\ batch \in Batch /\ IsFiniteSet({})
      /\ batch.outstanding \in Nat /\ One(t, e) \in {0, 1}
  BY FS_EmptySet, BatchOutstanding DEF Typed, TypeOK, One
<1>2. Load({}, e) = 0
  <2>1. InEpoch({}, e) = {}
    BY DEF InEpoch
  <2> QED BY <2>1, FS_EmptySet DEF Load
<1>3. CASE Alive(t.se, t.gen)
  <2>1. running' = {} \cup {t} /\ batch' = batch
    BY <1>3 DEF Start
  <2>2. Load(running', e) <= Load({}, e) + One(t, e) /\ Load(running', e) \in Nat
    BY <1>1, <2>1, LoadMoves
  <2> QED BY <1>1, <1>2, <2>1, <2>2
<1>4. CASE ~Alive(t.se, t.gen)
  <2>1. running' = {} /\ FinishTask(t, TRUE)
    BY <1>4 DEF Start
  <2>2. batch'.outstanding = IF batch.outstanding = 0 THEN 0
                             ELSE batch.outstanding - One(t, e)
    BY <1>1, <2>1, BatchOutstanding
  <2>3. batch'.epoch = e
    BY <1>1, <2>1, BatchSteps
  <2> QED BY <1>1, <1>2, <2>1, <2>2, <2>3
<1> QED BY <1>3, <1>4

LEMMA OwingTake ==
    ASSUME Typed, Owing, Take
    PROVE  Owing'
<1> DEFINE e == batch.epoch
<1>1. /\ batch \in Batch /\ batch.outstanding \in Nat
      /\ Load(pending, e) \in Nat /\ Load(overflowParents, e) \in Nat
      /\ Load(overflowInodes, e) \in Nat /\ Load(running, e) \in Nat
      /\ pending \subseteq Task /\ overflowInodes \subseteq Task /\ overflowParents \subseteq Task
  BY LoadMoves, BatchOutstanding DEF Typed, TypeOK, FiniteQueues
<1>2. Load(pending, e) + Load(overflowParents, e) + Load(overflowInodes, e)
         + Load(running, e) <= batch.outstanding
  BY CountedIsLoad DEF Owing, OutstandingCoversTasks
<1>3. ASSUME NEW t \in Queued, Start(t), running = {},
             UNCHANGED <<sessions, currentConfigEpoch, blocked>>,
             Queued' \subseteq Queued, batch'.epoch = batch.epoch
      PROVE  EpochsAreKnown'
  BY <1>3 DEF Owing, EpochsAreKnown, Start
<1>4. ASSUME NEW t \in pending, TakePending(t)
      PROVE  Owing'
  <2>1. /\ Load(pending', e) = Load(pending, e) - One(t, e)
        /\ Load(pending', e) \in Nat /\ One(t, e) \in {0, 1}
    BY <1>4, LoadMoves DEF TakePending, Typed, FiniteQueues
  <2>2. /\ Load(running', e) + batch.outstanding <= batch'.outstanding + One(t, e)
        /\ Load(running', e) \in Nat
        /\ batch'.epoch = e /\ batch'.outstanding \in Nat
    BY <1>1, <1>2, <1>4, <2>1, LoadStart DEF TakePending
  <2>3. overflowParents' = overflowParents /\ overflowInodes' = overflowInodes
    BY <1>4 DEF TakePending
  <2>4. EpochsAreKnown'
    BY <1>3, <1>4, <2>2 DEF TakePending, Queued
  <2> HIDE DEF e
  <2>5. OutstandingCoversTasks'
    BY <1>1, <1>2, <2>1, <2>2, <2>3, CountedIsLoad DEF OutstandingCoversTasks
  <2> QED BY <2>4, <2>5 DEF Owing
<1>5. ASSUME NEW t \in overflowInodes, TakeOverflowInode(t)
      PROVE  Owing'
  <2>1. /\ Load(overflowInodes', e) = Load(overflowInodes, e) - One(t, e)
        /\ Load(overflowInodes', e) \in Nat /\ One(t, e) \in {0, 1}
    BY <1>5, LoadMoves DEF TakeOverflowInode, Typed, FiniteQueues
  <2>2. /\ Load(running', e) + batch.outstanding <= batch'.outstanding + One(t, e)
        /\ Load(running', e) \in Nat
        /\ batch'.epoch = e /\ batch'.outstanding \in Nat
    BY <1>1, <1>2, <1>5, <2>1, LoadStart DEF TakeOverflowInode
  <2>3. overflowParents' = overflowParents /\ pending' = pending
    BY <1>5 DEF TakeOverflowInode
  <2>4. EpochsAreKnown'
    BY <1>3, <1>5, <2>2 DEF TakeOverflowInode, Queued
  <2> HIDE DEF e
  <2>5. OutstandingCoversTasks'
    BY <1>1, <1>2, <2>1, <2>2, <2>3, CountedIsLoad DEF OutstandingCoversTasks
  <2> QED BY <2>4, <2>5 DEF Owing
<1>6. ASSUME NEW t \in overflowParents, TakeOverflowParent(t)
      PROVE  Owing'
  <2>1. /\ Load(overflowParents', e) = Load(overflowParents, e) - One(t, e)
        /\ Load(overflowParents', e) \in Nat /\ One(t, e) \in {0, 1}
    BY <1>6, LoadMoves DEF TakeOverflowParent, Typed, FiniteQueues
  <2>2. /\ Load(running', e) + batch.outstanding <= batch'.outstanding + One(t, e)
        /\ Load(running', e) \in Nat
        /\ batch'.epoch = e /\ batch'.outstanding \in Nat
    BY <1>1, <1>2, <1>6, <2>1, LoadStart DEF TakeOverflowParent
  <2>3. overflowInodes' = overflowInodes /\ pending' = pending
    BY <1>6 DEF TakeOverflowParent
  <2>4. EpochsAreKnown'
    BY <1>3, <1>6, <2>2 DEF TakeOverflowParent, Queued
  <2> HIDE DEF e
  <2>5. OutstandingCoversTasks'
    BY <1>1, <1>2, <2>1, <2>2, <2>3, CountedIsLoad DEF OutstandingCoversTasks
  <2> QED BY <2>4, <2>5 DEF Owing
<1> QED BY <1>4, <1>5, <1>6 DEF Take

\* A replay is accepted in the same step that finishes the sweep it follows.
LEMMA OwingComplete ==
    ASSUME Typed, Owing, NEW success \in BOOLEAN, CompleteTask(success)
    PROVE  Owing'
<1> DEFINE e == batch.epoch
           finished(t) == IF Counted(t) THEN Finish(batch, success) ELSE batch
<1>1. PICK t \in running : CompleteTask(success)!(t)
  BY DEF CompleteTask
<1>2. /\ batch \in Batch /\ batch.outstanding \in Nat
      /\ sessions \in [Session -> SessionState]
      /\ t \in Task /\ t.se \in Session /\ running' = {} /\ running = {t}
      /\ UNCHANGED <<overflowParents, overflowInodes, currentConfigEpoch, blocked>>
  BY <1>1, BatchOutstanding DEF Typed, TypeOK, Task
<1>3. /\ Load(pending, e) \in Nat /\ Load(overflowParents, e) \in Nat
      /\ Load(overflowInodes, e) \in Nat /\ Load(running, e) \in Nat
      /\ One(t, e) \in {0, 1} /\ Load(running', e) = 0 /\ Load(running, e) = One(t, e)
  <2>1. InEpoch({}, e) = {} /\ Load({}, e) = 0
    BY FS_EmptySet DEF InEpoch, Load
  <2>2. running \ {t} = {}
    BY <1>2
  <2>3. Load(running, e) \in Nat /\ Load(running \ {t}, e) = Load(running, e) - One(t, e)
    BY <1>2, LoadMoves DEF Typed, FiniteQueues
  <2>4. One(t, e) \in {0, 1}
    BY DEF One
  <2>5. Load(running', e) = 0 /\ Load(running \ {t}, e) = 0
    BY <1>2, <2>1, <2>2
  <2>6. /\ Load(pending, e) \in Nat /\ Load(overflowParents, e) \in Nat
        /\ Load(overflowInodes, e) \in Nat
    BY LoadMoves DEF Typed, FiniteQueues
  <2> HIDE DEF e
  <2> QED BY <2>3, <2>4, <2>5, <2>6
<1>4. Load(pending, e) + Load(overflowParents, e) + Load(overflowInodes, e)
         + Load(running, e) <= batch.outstanding
  BY CountedIsLoad DEF Owing, OutstandingCoversTasks
<1>5. /\ finished(t) \in Batch /\ finished(t).epoch = e /\ finished(t).outstanding \in Nat
      /\ finished(t).outstanding = batch.outstanding - One(t, e)
  <2>1. finished(t) \in Batch /\ finished(t).epoch = e
    BY <1>2, BatchOperations
  <2>2. finished(t).outstanding \in Nat
    BY <2>1 DEF Batch
  <2>3. finished(t).outstanding = batch.outstanding - One(t, e)
    BY <1>2, <1>3, <1>4, BatchOperations DEF Counted, One
  <2> QED BY <2>1, <2>2, <2>3
<1> HIDE DEF finished
<1>6. CASE NeedsReplay(t)
  <2>1. /\ pending' = pending \cup {ReplayOf(t)}
        /\ batch' = IF Counted(ReplayOf(t)) THEN Accept(finished(t)) ELSE finished(t)
    BY <1>1, <1>6 DEF finished
  <2>2. /\ Load(pending', e) <= Load(pending, e) + One(ReplayOf(t), e)
        /\ Load(pending', e) \in Nat /\ One(ReplayOf(t), e) \in {0, 1}
    BY <2>1, LoadMoves DEF Typed, FiniteQueues
  <2>3. /\ batch'.outstanding = finished(t).outstanding + One(ReplayOf(t), e)
        /\ batch'.epoch = e
    BY <1>5, <2>1, BatchOperations DEF Counted, One
  <2>4. OutstandingCoversTasks'
    <3> HIDE DEF e
    <3> QED BY <1>2, <1>3, <1>4, <1>5, <2>2, <2>3, CountedIsLoad DEF OutstandingCoversTasks
  <2>5. EpochsAreKnown'
    <3>1. ReplayOf(t).epoch <= currentConfigEpoch
      BY <1>2 DEF ReplayOf, Task, Owing, EpochsAreKnown
    <3> DEFINE half == [sessions EXCEPT ![t.se].rootNeedsReplay = FALSE]
    <3>2. /\ half \in [Session -> SessionState]
          /\ \A s \in Session : half[s].rootReplayEpoch = sessions[s].rootReplayEpoch
      BY <1>2 DEF SessionState
    <3>3. sessions' = [half EXCEPT ![t.se].rootReplayEpoch = 0]
      BY <1>1, <1>2, <1>6 DEF SessionState
    <3> HIDE DEF half
    <3>4. \A s \in Session : \/ sessions'[s].rootReplayEpoch = sessions[s].rootReplayEpoch
                             \/ sessions'[s].rootReplayEpoch = 0
      BY <3>2, <3>3 DEF SessionState
    <3>5. Queued' = Queued \cup {ReplayOf(t)} /\ currentConfigEpoch \in Nat
      BY <1>2, <2>1 DEF Queued, Typed, TypeOK
    <3> QED BY <1>2, <2>3, <3>1, <3>4, <3>5 DEF Owing, EpochsAreKnown
  <2> QED BY <2>4, <2>5 DEF Owing
<1>7. CASE ~NeedsReplay(t)
  <2>1. /\ pending' = pending
        /\ batch' = finished(t)
        /\ \/ sessions' = [sessions EXCEPT ![t.se].rootPending = FALSE]
           \/ sessions' = sessions
    BY <1>1, <1>7 DEF finished
  <2>2. OutstandingCoversTasks'
    <3>1. batch'.epoch = e /\ batch'.outstanding = batch.outstanding - One(t, e)
      BY <1>5, <2>1
    <3> HIDE DEF e
    <3> QED BY <1>2, <1>3, <1>4, <2>1, <3>1, CountedIsLoad DEF OutstandingCoversTasks
  <2>3. \A s \in Session : sessions'[s].rootReplayEpoch = sessions[s].rootReplayEpoch
    BY <1>2, <2>1 DEF SessionState
  <2>4. EpochsAreKnown'
    BY <1>2, <1>5, <2>1, <2>3 DEF Owing, EpochsAreKnown, Queued
  <2> QED BY <2>2, <2>4 DEF Owing
<1> QED BY <1>6, <1>7

\* Retiring a session settles exactly what it takes out of the queues.
LEMMA OwingRetire ==
    ASSUME Typed, Owing, NEW se \in Session, Retire(se)
    PROVE  Owing'
<1> DEFINE e == batch.epoch
           owed == Load(Of(se, pending), e) + Load(Of(se, overflowParents), e)
                   + Load(Of(se, overflowInodes), e)
<1>1. /\ batch \in Batch /\ batch.outstanding \in Nat
      /\ Load(pending, e) \in Nat /\ Load(overflowParents, e) \in Nat
      /\ Load(overflowInodes, e) \in Nat /\ Load(running, e) \in Nat
      /\ Load(Of(se, pending), e) \in Nat /\ Load(Of(se, overflowParents), e) \in Nat
      /\ Load(Of(se, overflowInodes), e) \in Nat
  BY LoadMoves, LoadOfRetired, BatchOutstanding DEF Typed, TypeOK, FiniteQueues
<1>2. /\ Load(pending', e) = Load(pending, e) - Load(Of(se, pending), e)
      /\ Load(overflowParents', e) = Load(overflowParents, e) - Load(Of(se, overflowParents), e)
      /\ Load(overflowInodes', e) = Load(overflowInodes, e) - Load(Of(se, overflowInodes), e)
      /\ running' = running
  BY LoadOfRetired DEF Retire, Typed, FiniteQueues
<1>3. Load(pending, e) + Load(overflowParents, e) + Load(overflowInodes, e)
         + Load(running, e) <= batch.outstanding
  BY CountedIsLoad DEF Owing, OutstandingCoversTasks
<1>4. /\ Load(pending', e) \in Nat /\ Load(overflowParents', e) \in Nat
      /\ Load(overflowInodes', e) \in Nat
  BY LoadMoves, FiniteMoves DEF Retire, Typed, FiniteQueues
<1>5. batch' = FinishMany(batch, owed)
  BY DEF Retire, CountedIn, Counted, Load, InEpoch
<1>6. owed \in Nat /\ owed <= batch.outstanding
  <2> HIDE DEF e
  <2> QED BY <1>1, <1>2, <1>3, <1>4
<1>7. batch'.epoch = e /\ batch'.outstanding = batch.outstanding - owed
  <2> HIDE DEF owed
  <2> QED BY <1>1, <1>5, <1>6, BatchOperations
<1>8. OutstandingCoversTasks'
  <2> HIDE DEF e
  <2> QED BY <1>1, <1>2, <1>3, <1>4, <1>7, CountedIsLoad DEF OutstandingCoversTasks
<1>9. EpochsAreKnown'
  <2>1. Retired(sessions[se]).rootReplayEpoch = 0
    BY DEF Retired, NewSession
  <2>2. \A s \in Session : \/ sessions'[s].rootReplayEpoch = sessions[s].rootReplayEpoch
                           \/ sessions'[s].rootReplayEpoch = 0
    BY <2>1 DEF Retire, Typed, TypeOK
  <2>3. Queued' \subseteq Queued /\ currentConfigEpoch \in Nat
    BY DEF Retire, Queued, Typed, TypeOK
  <2> QED BY <1>7, <2>2, <2>3 DEF Retire, Owing, EpochsAreKnown
<1> QED BY <1>8, <1>9 DEF Owing

LEMMA OwingNext ==
    ASSUME Typed, Owing, [SchedulerNext]_vars
    PROVE  Owing'
<1>t. /\ batch \in Batch /\ sessions \in [Session -> SessionState]
      /\ currentConfigEpoch \in Nat /\ Load(overflowInodes, batch.epoch) \in Nat
      /\ Load(pending, batch.epoch) \in Nat /\ Load(overflowParents, batch.epoch) \in Nat
      /\ Load(running, batch.epoch) \in Nat
  BY LoadMoves DEF Typed, TypeOK, FiniteQueues
<1>1. ASSUME UNCHANGED <<pending, overflowParents, overflowInodes, running, batch,
                         currentConfigEpoch, blocked>>,
             \A s \in Session : \/ sessions'[s].rootReplayEpoch = sessions[s].rootReplayEpoch
                                \/ sessions'[s].rootReplayEpoch = 0
      PROVE  Owing'
  BY <1>t, <1>1, CountedIsLoad DEF Owing, EpochsAreKnown, OutstandingCoversTasks, Queued
<1>2. ASSUME NEW se \in Session, RegisterSession(se)
      PROVE  Owing'
  BY <1>t, <1>1, <1>2 DEF RegisterSession, NewSession
<1>3. ASSUME NEW se \in Session, Drained(se)
      PROVE  Owing'
  BY <1>1, <1>3 DEF Drained
<1>4. ASSUME NEW se \in Session, FinishFuseSessionDestroy(se)
      PROVE  Owing'
  BY <1>t, <1>1, <1>4 DEF FinishFuseSessionDestroy, NoSession, NewSession
<1>5. ASSUME NEW kind \in {"Root", "Entry", "Inode"}, NEW se \in Session,
             NEW obj \in ObjectsOf(kind), NEW configReload \in BOOLEAN,
             QueueInvalidation(kind, CurrentToken(se), obj, configReload)
      PROVE  Owing'
  BY <1>5, EpochsQueueInvalidation, LoadQueueInvalidation DEF Owing
<1>6. ASSUME NEW p \in Producer, NEW se \in Session, NEW obj \in ObjectsOf("Inode"),
             Backpressured(p, CurrentToken(se), obj)
      PROVE  Owing'
  <2>1. TaskFor("Inode", CurrentToken(se), obj, TRUE).epoch = currentConfigEpoch
    BY DEF TaskFor
  <2>2. \A q \in Producer : \A t \in blocked'[q] : t.epoch <= currentConfigEpoch
    <3> DEFINE u == TaskFor("Inode", CurrentToken(se), obj, TRUE)
    <3>1. blocked' = [blocked EXCEPT ![p] = {u}]
      BY <1>6 DEF Backpressured
    <3>2. u.epoch = currentConfigEpoch
      BY <2>1
    <3>3. blocked \in [Producer -> SUBSET Task]
      BY DEF Typed, TypeOK
    <3> HIDE DEF u
    <3> QED BY <1>t, <3>1, <3>2, <3>3 DEF Owing, EpochsAreKnown
  <2>3. UNCHANGED <<sessions, pending, overflowParents, overflowInodes, running,
                    currentConfigEpoch, batch>>
    BY <1>6 DEF Backpressured
  <2> QED BY <2>2, <2>3, CountedIsLoad
          DEF Owing, EpochsAreKnown, OutstandingCoversTasks, Queued
<1>7. ASSUME NEW p \in Producer, Admit(p) \/ GiveUp(p)
      PROVE  Owing'
  <2>1. PICK t \in blocked[p] : Admit(p)!(t) \/ GiveUp(p)!(t)
    BY <1>7 DEF Admit, GiveUp
  <2>2. /\ UNCHANGED <<sessions, pending, overflowParents, running, currentConfigEpoch>>
        /\ blocked' = [blocked EXCEPT ![p] = {}]
        /\ t.epoch <= currentConfigEpoch
    BY <2>1 DEF Owing, EpochsAreKnown
  <2>3. \A q \in Producer : \A u \in blocked'[q] : u.epoch <= currentConfigEpoch
    BY <2>2 DEF Typed, TypeOK, Owing, EpochsAreKnown
  <2>4. CASE overflowInodes' = overflowInodes \cup {t} /\ AcceptTask(t)
    <3>1. /\ batch'.outstanding = batch.outstanding + One(t, batch.epoch)
          /\ batch'.epoch = batch.epoch
          /\ batch.outstanding \in Nat /\ One(t, batch.epoch) \in {0, 1}
      BY <1>t, <2>4, BatchOutstanding, BatchSteps DEF One
    <3>2. /\ Load(overflowInodes', batch.epoch)
                <= Load(overflowInodes, batch.epoch) + One(t, batch.epoch)
          /\ Load(overflowInodes', batch.epoch) \in Nat
      BY <2>4, LoadMoves DEF Typed, FiniteQueues
    <3>3. OutstandingCoversTasks'
      <4> DEFINE e == batch.epoch
      <4>1. CountedTasks <= batch.outstanding
        BY DEF Owing, OutstandingCoversTasks
      <4>2. /\ CountedTasks = Load(pending, e) + Load(overflowParents, e)
                              + Load(overflowInodes, e) + Load(running, e)
            /\ CountedTasks' = Load(pending, e) + Load(overflowParents, e)
                               + Load(overflowInodes', e) + Load(running, e)
        BY <2>2, <3>1, CountedIsLoad
      <4> HIDE DEF e
      <4> QED BY <1>t, <3>1, <3>2, <4>1, <4>2 DEF OutstandingCoversTasks, e
    <3>4. Queued' = Queued \cup {t}
      BY <2>2, <2>4 DEF Queued
    <3> QED BY <2>2, <2>3, <3>1, <3>3, <3>4 DEF Owing, EpochsAreKnown
  <2>5. CASE overflowInodes' = overflowInodes /\ RejectTask(t)
    <3>1. batch'.outstanding = batch.outstanding /\ batch'.epoch = batch.epoch
      BY <1>t, <2>5, BatchOutstanding, BatchSteps
    <3> QED BY <2>2, <2>3, <2>5, <3>1, CountedIsLoad
            DEF Owing, EpochsAreKnown, OutstandingCoversTasks, Queued
  <2> QED BY <2>1, <2>4, <2>5
<1>8. CASE BeginHideInvalidationBatch
  <2>1. /\ batch'.epoch = currentConfigEpoch + 1 /\ batch'.outstanding = 0
        /\ currentConfigEpoch' = currentConfigEpoch + 1
        /\ UNCHANGED <<sessions, pending, overflowParents, overflowInodes, running, blocked>>
    BY <1>8 DEF BeginHideInvalidationBatch, NewBatch
  <2>2. \A t \in Queued \cup running : t.epoch \in Nat /\ t.epoch <= currentConfigEpoch
    BY DEF Owing, EpochsAreKnown, Typed, TypeOK, Queued, Task
  <2>3. /\ InEpoch(pending, currentConfigEpoch + 1) = {}
        /\ InEpoch(overflowParents, currentConfigEpoch + 1) = {}
        /\ InEpoch(overflowInodes, currentConfigEpoch + 1) = {}
        /\ InEpoch(running, currentConfigEpoch + 1) = {}
    BY <1>t, <2>2 DEF InEpoch, Queued
  <2>4. OutstandingCoversTasks'
    BY <2>1, <2>3, CountedIsLoad, FS_EmptySet DEF OutstandingCoversTasks, Load
  <2>5. EpochsAreKnown'
    <3>1. \A p \in Producer : \A t \in blocked[p] : t.epoch \in Nat /\ t.epoch <= currentConfigEpoch
      BY DEF Owing, EpochsAreKnown, Typed, TypeOK, Task
    <3>2. \A s \in Session : sessions[s].rootReplayEpoch \in Nat
                             /\ sessions[s].rootReplayEpoch <= currentConfigEpoch
      BY <1>t DEF Owing, EpochsAreKnown, SessionState
    <3> QED BY <1>t, <2>1, <2>2, <3>1, <3>2 DEF EpochsAreKnown, Queued
  <2> QED BY <2>4, <2>5 DEF Owing
<1>9. ASSUME UNCHANGED vars \/ \E r \in Prober : BeginProbes(r) \/ EndProbe(r)
      PROVE  Owing'
  BY <1>1, <1>9 DEF BeginProbes, EndProbe, vars
<1> QED
  BY <1>2, <1>3, <1>4, <1>5, <1>6, <1>7, <1>8, <1>9, OwingRetire, OwingTake, OwingComplete,
     SchedulerAssumption
     DEF SchedulerNext, FuseRequest, PublisherRequest, ConfigKinds

\* With nothing outstanding, no counted task is left in any of the four places.
LEMMA NothingOwed ==
    ASSUME Typed, Owing
    PROVE  CompleteMeansNotified
<1> SUFFICES ASSUME Complete(batch), NEW t \in Queued \cup running, Counted(t)
             PROVE  FALSE
  BY DEF CompleteMeansNotified
<1> DEFINE e == batch.epoch
<1>1. \A S \in {pending, overflowParents, overflowInodes, running} :
         IsFiniteSet(S) /\ IsFiniteSet(InEpoch(S, e)) /\ Load(S, e) \in Nat
  BY FS_Subset, LoadMoves DEF Typed, FiniteQueues, InEpoch
<1>2. Load(pending, e) + Load(overflowParents, e) + Load(overflowInodes, e)
         + Load(running, e) <= 0
  BY CountedIsLoad DEF Owing, OutstandingCoversTasks, Complete
<1>3. \A S \in {pending, overflowParents, overflowInodes, running} : Load(S, e) = 0
  <2> HIDE DEF e
  <2>1. /\ Load(pending, e) \in Nat /\ Load(overflowParents, e) \in Nat
        /\ Load(overflowInodes, e) \in Nat /\ Load(running, e) \in Nat
    BY <1>1
  <2>2. /\ Load(pending, e) = 0 /\ Load(overflowParents, e) = 0
        /\ Load(overflowInodes, e) = 0 /\ Load(running, e) = 0
    BY <1>2, <2>1
  <2> QED BY <2>2
<1>4. \A S \in {pending, overflowParents, overflowInodes, running} : InEpoch(S, e) = {}
  BY <1>1, <1>3, FS_EmptySet DEF Load
<1> QED BY <1>4 DEF Queued, Counted, InEpoch

\* What the scheduler keeps under any steps it is asked to make.
Scheduled == Typed /\ Lifecycle /\ RootAbsorbedOnlyBehindSweep /\ Owing

LEMMA ScheduledInit == Init => Scheduled
<1>1. Init => Owing
  BY FS_EmptySet DEF Init, Owing, EpochsAreKnown, OutstandingCoversTasks, CountedTasks,
                     CountedIn, NewBatch, NoSession, NewSession, Queued
<1>2. Init => RootAbsorbedOnlyBehindSweep
  BY DEF Init, RootAbsorbedOnlyBehindSweep, NoSession, NewSession
<1> QED BY <1>1, <1>2, TypedInit, LifecycleInit DEF Scheduled

LEMMA ScheduledNext ==
    ASSUME Scheduled, [SchedulerNext]_vars
    PROVE  Scheduled'
  BY TypedNext, LifecycleNext, RootNext, OwingNext DEF Scheduled

\* The counters never run short: every queued, evicted, compensated, replayed
\* or running task of the active configuration is among its outstanding ones.
THEOREM OutstandingIsNeverShort == Spec => []OutstandingCoversTasks
<1>1. Scheduled => OutstandingCoversTasks
  BY DEF Scheduled, Owing
<1>2. Scheduled /\ [Next]_vars => Scheduled'
  BY ScheduledNext, NextIsScheduler
<1> QED BY <1>1, <1>2, ScheduledInit, PTL DEF Spec

\* No publication can be acknowledged while a task of it is queued or running,
\* for any capacity of the queues and any number of publishers, evictions,
\* replays and retirements: complete() is false as long as one is left.
THEOREM AcknowledgementWaitsForTasks == Spec => []CompleteMeansNotified
<1>1. Scheduled => CompleteMeansNotified
  BY NothingOwed DEF Scheduled
<1>2. Scheduled /\ [Next]_vars => Scheduled'
  BY ScheduledNext, NextIsScheduler
<1> QED BY <1>1, <1>2, ScheduledInit, PTL DEF Spec

-----------------------------------------------------------------------------
(***************************************************************************)
(* The counters are exact as long as there is one publisher: no counted    *)
(* task then joins a place that holds it already, and a sweep is one of a  *)
(* kind.  With two publishers that wait for room it is not so.             *)
(***************************************************************************)
OnePublisher == \A p, q \in Producer : p = q

\* A session has one root sweep at most, and it absorbs or is given up.
SweepsApart ==
    /\ \A se \in Session :
          /\ \A t, u \in RootSweepsOf(se) : t = u
          /\ RootSweepsOf(se) # {} => sessions[se].rootPending = TRUE \/ sessions[se].retiring = TRUE
    /\ \A t \in running : t.kind = "Root" => t \notin pending

\* No task is of a session that is still to come, or of none.
GenerationsAreKnown ==
    /\ \A se \in Session : sessions[se].generation <= nextGeneration
    /\ \A t \in pending \cup running : t.gen # 0 /\ t.gen <= nextGeneration

NotTwice ==
    /\ \A t \in pending \cap overflowInodes : t.epoch = 0
    /\ \A p \in Producer : \A t \in blocked[p] :
          t.epoch # 0 => t \notin pending \cup overflowInodes

Balanced(b) == b.submitted = b.completed + b.failed + b.outstanding

-----------------------------------------------------------------------------
LEMMA BatchBalance ==
    ASSUME NEW b \in Batch, Balanced(b), NEW n \in Nat, NEW success \in BOOLEAN
    PROVE  /\ Balanced(Accept(b)) /\ Balanced(RejectOne(b))
           /\ n <= b.outstanding => Balanced(FinishMany(b, n))
           /\ b.outstanding # 0 => Balanced(Finish(b, success))
<1>1. Balanced(Accept(b))
  <2> DEFINE c == [b EXCEPT !.submitted = @ + 1]
  <2>1. /\ c \in Batch /\ c.submitted = b.submitted + 1 /\ c.completed = b.completed
        /\ c.failed = b.failed /\ c.outstanding = b.outstanding
    BY DEF Batch
  <2>2. Accept(b) = [c EXCEPT !.outstanding = @ + 1]
    BY DEF Accept, Batch
  <2> HIDE DEF c
  <2> QED BY <2>1, <2>2 DEF Batch, Balanced
<1>2. Balanced(RejectOne(b))
  BY DEF RejectOne, Batch, Balanced
<1>3. ASSUME NEW k \in Nat, k <= b.outstanding
      PROVE  Balanced(FinishMany(b, k))
  <2> DEFINE c == [b EXCEPT !.outstanding = @ - k]
             d == [c EXCEPT !.completed = @ + k]
  <2>0. b.outstanding \in Nat /\ b.outstanding - k \in Nat
    BY <1>3 DEF Batch
  <2>1. /\ c \in Batch /\ c.submitted = b.submitted /\ c.completed = b.completed
        /\ c.failed = b.failed /\ c.outstanding = b.outstanding - k
    BY <2>0 DEF Batch
  <2>2. FinishMany(b, k) = [d EXCEPT !.failed = @ + (k - k)]
    BY <1>3, <2>0 DEF FinishMany, Batch
  <2> HIDE DEF c
  <2>3. /\ d \in Batch /\ d.submitted = c.submitted /\ d.completed = c.completed + k
        /\ d.failed = c.failed /\ d.outstanding = c.outstanding
    BY <2>1 DEF Batch
  <2> HIDE DEF d
  <2>4. k - k = 0 /\ d.failed + 0 = d.failed
    BY <2>3 DEF Batch
  <2>5. FinishMany(b, k) = d
    BY <2>2, <2>3, <2>4 DEF Batch
  <2> QED BY <1>3, <2>0, <2>1, <2>3, <2>5 DEF Batch, Balanced
<1>4. ASSUME b.outstanding # 0
      PROVE  Balanced(Finish(b, success))
  <2>0. b.outstanding \in Nat /\ b.outstanding - 1 \in Nat /\ 1 <= b.outstanding
    BY <1>4 DEF Batch
  <2>1. CASE success
    BY <1>3, <1>4, <2>0, <2>1 DEF Finish
  <2>2. CASE ~success
    <3> DEFINE c == [b EXCEPT !.outstanding = @ - 1]
    <3>1. /\ c \in Batch /\ c.submitted = b.submitted /\ c.completed = b.completed
          /\ c.failed = b.failed /\ c.outstanding = b.outstanding - 1
      BY <2>0 DEF Batch
    <3>2. Finish(b, success) = [c EXCEPT !.failed = @ + 1]
      BY <1>4, <2>2 DEF Finish, Batch
    <3> HIDE DEF c
    <3> QED BY <2>0, <3>1, <3>2 DEF Batch, Balanced
  <2> QED BY <2>1, <2>2
<1> QED BY <1>1, <1>2, <1>3, <1>4

\* A task that is counted joins the load when it was not there.
LEMMA LoadGrows ==
    ASSUME NEW S, IsFiniteSet(S), NEW t, NEW e, t.epoch = e /\ t.epoch # 0 => t \notin S
    PROVE  Load(S \cup {t}, e) = Load(S, e) + One(t, e)
<1>1. IsFiniteSet(InEpoch(S, e)) /\ Load(S, e) \in Nat
  BY FS_Subset, FS_CardinalityType DEF InEpoch, Load
<1>2. CASE t.epoch # 0 /\ t.epoch = e
  <2>1. InEpoch(S \cup {t}, e) = InEpoch(S, e) \cup {t} /\ t \notin InEpoch(S, e)
    BY <1>2 DEF InEpoch
  <2>2. Cardinality(InEpoch(S, e) \cup {t}) = Cardinality(InEpoch(S, e)) + 1
    BY <1>1, <2>1, FS_AddElement
  <2> QED BY <1>2, <2>1, <2>2 DEF Load, One
<1>3. CASE ~(t.epoch # 0 /\ t.epoch = e)
  <2>1. InEpoch(S \cup {t}, e) = InEpoch(S, e) /\ One(t, e) = 0
    BY <1>3 DEF InEpoch, One
  <2> QED BY <1>1, <2>1 DEF Load
<1> QED BY <1>2, <1>3

\* What settles a task keeps the books and the count of what is outstanding.
LEMMA Settling ==
    ASSUME batch \in Batch, Balanced(batch), NEW t, NEW success \in BOOLEAN
    PROVE  /\ AcceptTask(t) \/ RejectTask(t) => Balanced(batch')
           /\ FinishTask(t, success) /\ One(t, batch.epoch) <= batch.outstanding =>
                 /\ Balanced(batch')
                 /\ batch'.outstanding = batch.outstanding - One(t, batch.epoch)
<1>1. AcceptTask(t) \/ RejectTask(t) => Balanced(batch')
  BY BatchBalance DEF AcceptTask, RejectTask
<1>2. ASSUME FinishTask(t, success), One(t, batch.epoch) <= batch.outstanding
      PROVE  /\ Balanced(batch')
             /\ batch'.outstanding = batch.outstanding - One(t, batch.epoch)
  <2>0. batch.outstanding \in Nat
    BY DEF Batch
  <2>1. CASE Counted(t)
    <3>1. One(t, batch.epoch) = 1 /\ batch.outstanding # 0 /\ batch' = Finish(batch, success)
      BY <1>2, <2>0, <2>1 DEF Counted, One, FinishTask
    <3> QED BY <2>0, <3>1, BatchBalance, BatchOperations
  <2>2. CASE ~Counted(t)
    <3>1. One(t, batch.epoch) = 0 /\ batch' = batch
      BY <1>2, <2>2 DEF Counted, One, FinishTask
    <3> QED BY <2>0, <3>1
  <2> QED BY <2>1, <2>2
<1> QED BY <1>1, <1>2

\* What the counters are when they are exact.
LEMMA ExactSum ==
    ASSUME Typed, OutstandingIsExact
    PROVE  /\ batch \in Batch /\ batch.outstanding \in Nat /\ Balanced(batch)
           /\ Load(pending, batch.epoch) \in Nat /\ Load(overflowParents, batch.epoch) \in Nat
           /\ Load(overflowInodes, batch.epoch) \in Nat /\ Load(running, batch.epoch) \in Nat
           /\ batch.outstanding = Load(pending, batch.epoch) + Load(overflowParents, batch.epoch)
                                  + Load(overflowInodes, batch.epoch) + Load(running, batch.epoch)
<1>1. batch \in Batch /\ batch.outstanding \in Nat /\ Balanced(batch)
  BY DEF Typed, TypeOK, OutstandingIsExact, Balanced, Batch
<1>2. /\ Load(pending, batch.epoch) \in Nat /\ Load(overflowParents, batch.epoch) \in Nat
      /\ Load(overflowInodes, batch.epoch) \in Nat /\ Load(running, batch.epoch) \in Nat
  BY LoadMoves DEF Typed, FiniteQueues
<1> QED BY <1>1, <1>2, CountedIsLoad DEF OutstandingIsExact

LEMMA ExactAgain ==
    ASSUME Balanced(batch'), batch'.epoch = batch.epoch,
           batch'.outstanding = Load(pending', batch.epoch) + Load(overflowParents', batch.epoch)
                                + Load(overflowInodes', batch.epoch) + Load(running', batch.epoch)
    PROVE  OutstandingIsExact'
  BY CountedIsLoad DEF OutstandingIsExact, Balanced

\* Each way into a queue adds to the load what it adds to the counters.
LEMMA ExactQueueInvalidation ==
    ASSUME Typed, OutstandingIsExact, \A u \in pending \cap overflowInodes : u.epoch = 0,
           NEW kind \in {"Root", "Entry", "Inode"}, NEW se \in Session,
           NEW obj \in ObjectsOf(kind), NEW configReload \in BOOLEAN,
           QueueInvalidation(kind, CurrentToken(se), obj, configReload)
    PROVE  /\ OutstandingIsExact'
           /\ \A u \in pending' \cap overflowInodes' : u.epoch = 0
           /\ \A u \in pending' \cup overflowInodes' :
                 \/ u \in pending \cup overflowInodes
                 \/ u = TaskFor(kind, CurrentToken(se), obj, configReload)
<1> DEFINE t == TaskFor(kind, CurrentToken(se), obj, configReload)
           e == batch.epoch
           Goal == /\ OutstandingIsExact'
                   /\ \A u \in pending' \cap overflowInodes' : u.epoch = 0
                   /\ \A u \in pending' \cup overflowInodes' :
                         u \in pending \cup overflowInodes \/ u = t
<1>1. /\ batch \in Batch /\ batch.outstanding \in Nat /\ Balanced(batch)
      /\ Load(pending, e) \in Nat /\ Load(overflowParents, e) \in Nat
      /\ Load(overflowInodes, e) \in Nat /\ Load(running, e) \in Nat
      /\ IsFiniteSet(pending) /\ IsFiniteSet(overflowParents) /\ IsFiniteSet(overflowInodes)
      /\ running' = running
  BY ExactSum DEF Typed, FiniteQueues, QueueInvalidation
<1>2. batch.outstanding = Load(pending, e) + Load(overflowParents, e)
                          + Load(overflowInodes, e) + Load(running, e)
  BY ExactSum
<1>k. t.kind = kind /\ t \in Task
  BY TaskForType DEF Typed
<1> HIDE DEF t
<1>3. CASE UNCHANGED <<pending, overflowParents, overflowInodes, batch>>
  <2>1. OutstandingIsExact'
    BY <1>1, <1>2, <1>3, ExactAgain
  <2> QED BY <1>3, <2>1
<1>4. ASSUME AdmitToQueue(t, {}), ~Duplicate(t)
      PROVE  Goal
  <2>1. /\ pending' = pending \cup {t} /\ overflowInodes' = overflowInodes
        /\ overflowParents' = overflowParents /\ AcceptTask(t)
        /\ t \notin pending /\ t \notin overflowInodes
    BY <1>4 DEF AdmitToQueue, Duplicate
  <2>2. Load(pending', e) = Load(pending, e) + One(t, e)
    BY <1>1, <2>1, LoadGrows
  <2>3. /\ batch'.outstanding = batch.outstanding + One(t, e) /\ batch'.epoch = e
        /\ Balanced(batch')
    BY <1>1, <2>1, BatchOutstanding, BatchSteps, Settling
  <2>4. One(t, e) \in Nat
    BY DEF One
  <2>5. batch'.outstanding = Load(pending', e) + Load(overflowParents', e)
                             + Load(overflowInodes', e) + Load(running', e)
    <3> HIDE DEF e
    <3> QED BY <1>1, <1>2, <2>1, <2>2, <2>3, <2>4
  <2> QED BY ExactAgain, <2>1, <2>3, <2>5
<1>5. ASSUME NEW v \in Evictable(t), AdmitToQueue(t, {v}), ~Duplicate(t)
      PROVE  Goal
  <2>1. /\ pending' = (pending \ {v}) \cup {t} /\ overflowInodes' = overflowInodes \cup {v}
        /\ overflowParents' = overflowParents /\ AcceptTask(t)
        /\ t \notin pending /\ t \notin overflowInodes /\ v \in pending /\ v # t
        /\ v \in overflowInodes => v.epoch = 0
    BY <1>5 DEF AdmitToQueue, Duplicate, Evictable
  <2>2. Load(pending \ {v}, e) = Load(pending, e) - One(v, e) /\ IsFiniteSet(pending \ {v})
    <3>1. IsFiniteSet(pending \ {v})
      BY <1>1, FiniteMoves
    <3>2. v \in pending => Load(pending \ {v}, e) = Load(pending, e) - One(v, e)
      <4> HIDE DEF e
      <4> QED BY <1>1, LoadMoves
    <3> QED BY <2>1, <3>1, <3>2
  <2>3. Load(pending', e) = Load(pending \ {v}, e) + One(t, e)
    BY <2>1, <2>2, LoadGrows
  <2>4. Load(overflowInodes', e) = Load(overflowInodes, e) + One(v, e)
    BY <1>1, <2>1, LoadGrows
  <2>5. /\ batch'.outstanding = batch.outstanding + One(t, e) /\ batch'.epoch = e
        /\ Balanced(batch')
    BY <1>1, <2>1, BatchOutstanding, BatchSteps, Settling
  <2>6. One(t, e) \in Nat /\ One(v, e) \in Nat
    BY DEF One
  <2>7. batch'.outstanding = Load(pending', e) + Load(overflowParents', e)
                             + Load(overflowInodes', e) + Load(running', e)
    <3> HIDE DEF e
    <3> QED BY <1>1, <1>2, <2>1, <2>2, <2>3, <2>4, <2>5, <2>6
  <2> QED BY ExactAgain, <2>1, <2>5, <2>7
<1>6. ASSUME overflowParents' = overflowParents \cup {SweepOf(t)}, AcceptTask(SweepOf(t)),
             SweepOf(t) \notin overflowParents, UNCHANGED <<sessions, pending, overflowInodes>>
      PROVE  Goal
  <2>1. Load(overflowParents', e) = Load(overflowParents, e) + One(SweepOf(t), e)
    BY <1>1, <1>6, LoadGrows
  <2>2. /\ batch'.outstanding = batch.outstanding + One(SweepOf(t), e) /\ batch'.epoch = e
        /\ Balanced(batch')
    BY <1>1, <1>6, BatchOutstanding, BatchSteps, Settling
  <2>3. One(SweepOf(t), e) \in Nat
    BY DEF One
  <2>4. batch'.outstanding = Load(pending', e) + Load(overflowParents', e)
                             + Load(overflowInodes', e) + Load(running', e)
    <3> HIDE DEF e
    <3> QED BY <1>1, <1>2, <1>6, <2>1, <2>2, <2>3
  <2> QED BY <1>6, ExactAgain, <2>2, <2>4
<1>7. ASSUME overflowInodes' = overflowInodes \cup {t}, AcceptTask(t), ~Duplicate(t),
             UNCHANGED <<sessions, pending, overflowParents>>
      PROVE  Goal
  <2>0. t \notin pending /\ t \notin overflowInodes
    BY <1>7 DEF Duplicate
  <2>1. Load(overflowInodes', e) = Load(overflowInodes, e) + One(t, e)
    BY <1>1, <1>7, <2>0, LoadGrows
  <2>2. /\ batch'.outstanding = batch.outstanding + One(t, e) /\ batch'.epoch = e
        /\ Balanced(batch')
    BY <1>1, <1>7, BatchOutstanding, BatchSteps, Settling
  <2>3. One(t, e) \in Nat
    BY DEF One
  <2>4. batch'.outstanding = Load(pending', e) + Load(overflowParents', e)
                             + Load(overflowInodes', e) + Load(running', e)
    <3> HIDE DEF e
    <3> QED BY <1>1, <1>2, <1>7, <2>1, <2>2, <2>3
  <2> QED BY <1>7, ExactAgain, <2>0, <2>2, <2>4
<1>8. ASSUME RejectTask(t), UNCHANGED <<sessions, pending, overflowParents, overflowInodes>>
      PROVE  Goal
  <2>1. batch'.outstanding = batch.outstanding /\ batch'.epoch = e /\ Balanced(batch')
    BY <1>1, <1>8, BatchOutstanding, BatchSteps, Settling
  <2> QED BY <1>1, <1>2, <1>8, ExactAgain, <2>1
<1>9. ASSUME AdmissionOf(t, configReload) = "NewParentSweep"
      PROVE  SweepOf(t) \notin overflowParents
  <2>1. t.kind = "Entry"
    BY <1>k, <1>9, AdmissionFacts
  <2> QED BY <1>9, <2>1 DEF AdmissionOf, DecideInvalidationAdmission
<1>10. ASSUME ~Duplicate(t), AdmitNewTask(t, configReload)
       PROVE  Goal
  BY <1>3, <1>4, <1>5, <1>6, <1>7, <1>8, <1>9, <1>10 DEF AdmitNewTask
<1> QED BY <1>3, <1>10 DEF QueueInvalidation, AbsorbRoot, t

LEMMA SweepsQueueInvalidation ==
    ASSUME Typed, Lifecycle, SweepsApart, GenerationsAreKnown,
           NEW kind \in {"Root", "Entry", "Inode"}, NEW se \in Session,
           NEW obj \in ObjectsOf(kind), NEW configReload \in BOOLEAN,
           QueueInvalidation(kind, CurrentToken(se), obj, configReload)
    PROVE  SweepsApart' /\ GenerationsAreKnown'
<1> DEFINE t == TaskFor(kind, CurrentToken(se), obj, configReload)
<1>1. t \in Task /\ t.kind = kind /\ t.se = se /\ t.gen = sessions[se].generation
  BY TaskForType DEF Typed
<1>2. /\ sessions \in [Session -> SessionState] /\ running' = running
      /\ nextGeneration' = nextGeneration /\ CurrentToken(se).se = se
      /\ CurrentToken(se).gen = sessions[se].generation
  BY DEF Typed, TypeOK, QueueInvalidation, CurrentToken
<1> HIDE DEF t
<1>3. ASSUME pending' \subseteq pending, \A s \in Session :
                /\ sessions'[s].generation = sessions[s].generation
                /\ sessions'[s].rootPending = sessions[s].rootPending
                /\ sessions'[s].retiring = sessions[s].retiring
      PROVE  SweepsApart' /\ GenerationsAreKnown'
  <2>1. \A s \in Session : RootSweepsOf(s)' \subseteq RootSweepsOf(s)
    BY <1>2, <1>3 DEF RootSweepsOf
  <2>2. SweepsApart'
    BY <1>2, <1>3, <2>1 DEF SweepsApart
  <2>3. GenerationsAreKnown'
    BY <1>2, <1>3 DEF GenerationsAreKnown
  <2> QED BY <2>2, <2>3
<1>4. ASSUME AbsorbRoot(se, configReload)
      PROVE  SweepsApart' /\ GenerationsAreKnown'
  <2> DEFINE half == [sessions EXCEPT ![se].rootNeedsReplay = TRUE]
  <2>1. /\ half \in [Session -> SessionState]
        /\ \A s \in Session : /\ half[s].generation = sessions[s].generation
                              /\ half[s].rootPending = sessions[s].rootPending
                              /\ half[s].retiring = sessions[s].retiring
    BY <1>2 DEF SessionState
  <2>2. \/ sessions' = [half EXCEPT ![se].rootReplayEpoch = currentConfigEpoch]
        \/ sessions' = sessions
    BY <1>2, <1>4 DEF AbsorbRoot, SessionState
  <2> HIDE DEF half
  <2>3. CASE sessions' = [half EXCEPT ![se].rootReplayEpoch = currentConfigEpoch]
    <3>1. \A s \in Session : /\ sessions'[s].generation = sessions[s].generation
                             /\ sessions'[s].rootPending = sessions[s].rootPending
                             /\ sessions'[s].retiring = sessions[s].retiring
      BY <2>1, <2>3 DEF SessionState
    <3> QED BY <1>3, <1>4, <3>1 DEF AbsorbRoot
  <2>4. CASE sessions' = sessions
    BY <1>3, <1>4, <2>4 DEF AbsorbRoot
  <2> QED BY <2>2, <2>3, <2>4
<1>5. ASSUME NEW evicted \in SUBSET pending, AdmitToQueue(t, evicted), ~Duplicate(t),
             Alive(se, sessions[se].generation), kind = "Root" => ~sessions[se].rootPending
      PROVE  SweepsApart' /\ GenerationsAreKnown'
  <2>1. /\ pending' \subseteq pending \cup {t} /\ t \notin pending /\ t \notin running
        /\ sessions[se].generation # 0 /\ ~sessions[se].retiring
    BY <1>5 DEF AdmitToQueue, Duplicate, Alive, Registered
  <2>2. \A s \in Session : /\ sessions'[s].generation = sessions[s].generation
                           /\ sessions'[s].retiring = sessions[s].retiring
                           /\ s # se \/ kind # "Root" =>
                                 sessions'[s].rootPending = sessions[s].rootPending
    BY <1>1, <1>2, <1>5 DEF AdmitToQueue, SessionState
  <2>3. kind = "Root" => sessions'[se].rootPending = TRUE /\ RootSweepsOf(se) = {}
    <3> SUFFICES ASSUME kind = "Root"
                 PROVE  sessions'[se].rootPending = TRUE /\ RootSweepsOf(se) = {}
      OBVIOUS
    <3>1. sessions' = [sessions EXCEPT ![se].rootPending = TRUE]
      BY <1>1, <1>5 DEF AdmitToQueue
    <3> QED BY <1>2, <1>5, <2>1, <3>1 DEF SweepsApart, SessionState
  <2>4. \A s \in Session : RootSweepsOf(s)' \subseteq
             RootSweepsOf(s) \cup (IF s = se /\ kind = "Root" THEN {t} ELSE {})
    BY <1>1, <1>2, <2>1, <2>2 DEF RootSweepsOf
  <2>5. SweepsApart'
    <3>1. ASSUME NEW s \in Session
          PROVE  /\ \A u, v \in RootSweepsOf(s)' : u = v
                 /\ RootSweepsOf(s)' # {} => sessions'[s].rootPending = TRUE
                                             \/ sessions'[s].retiring = TRUE
      <4>1. CASE s = se /\ kind = "Root"
        BY <2>3, <2>4, <4>1
      <4>2. CASE ~(s = se /\ kind = "Root")
        BY <2>2, <2>4, <4>2 DEF SweepsApart
      <4> QED BY <4>1, <4>2
    <3>2. \A u \in running' : u.kind = "Root" => u \notin pending'
      BY <1>2, <2>1 DEF SweepsApart
    <3> QED BY <3>1, <3>2 DEF SweepsApart
  <2>6. GenerationsAreKnown'
    BY <1>1, <1>2, <2>1, <2>2 DEF GenerationsAreKnown
  <2> QED BY <2>5, <2>6
<1>6. CASE UNCHANGED <<sessions, pending>>
  BY <1>3, <1>6
<1>7. ASSUME ~Duplicate(t), Alive(se, sessions[se].generation),
             kind = "Root" => ~sessions[se].rootPending, AdmitNewTask(t, configReload)
      PROVE  SweepsApart' /\ GenerationsAreKnown'
  <2>1. \A u \in Evictable(t) : {u} \in SUBSET pending
    BY DEF Evictable
  <2> QED BY <1>5, <1>6, <1>7, <2>1 DEF AdmitNewTask
<1> QED BY <1>2, <1>4, <1>6, <1>7 DEF QueueInvalidation, t

-----------------------------------------------------------------------------
LEMMA ExactStart ==
    ASSUME Typed, Balanced(batch), NEW t \in Task, running = {}, Start(t),
           One(t, batch.epoch) <= batch.outstanding
    PROVE  /\ Load(running', batch.epoch) + batch.outstanding
                 = batch'.outstanding + One(t, batch.epoch)
           /\ batch'.epoch = batch.epoch /\ Balanced(batch')
           /\ batch'.outstanding \in Nat /\ Load(running', batch.epoch) \in Nat
<1> DEFINE e == batch.epoch
<1>1. /\ batch \in Batch /\ IsFiniteSet({})
      /\ batch.outstanding \in Nat /\ One(t, e) \in Nat
  BY FS_EmptySet, BatchOutstanding DEF Typed, TypeOK, One
<1>2. Load({}, e) = 0
  <2>1. InEpoch({}, e) = {}
    BY DEF InEpoch
  <2> QED BY <2>1, FS_EmptySet DEF Load
<1>3. CASE Alive(t.se, t.gen)
  <2>1. running' = {} \cup {t} /\ batch' = batch
    BY <1>3 DEF Start
  <2>2. Load({} \cup {t}, e) = Load({}, e) + One(t, e)
    BY <1>1, LoadGrows
  <2>3. Load(running', e) = One(t, e)
    <3> HIDE DEF e
    <3> QED BY <1>1, <1>2, <2>1, <2>2
  <2> HIDE DEF e
  <2> QED BY <1>1, <2>1, <2>3 DEF e
<1>4. CASE ~Alive(t.se, t.gen)
  <2>1. running' = {} /\ FinishTask(t, TRUE)
    BY <1>4 DEF Start
  <2>2. batch'.outstanding = batch.outstanding - One(t, e) /\ Balanced(batch')
    BY <1>1, <2>1, Settling
  <2>3. batch'.epoch = e /\ batch' \in Batch
    BY <1>1, <2>1, BatchSteps
  <2>4. batch'.outstanding \in Nat
    BY <2>3 DEF Batch
  <2> QED BY <1>1, <1>2, <2>1, <2>2, <2>3, <2>4
<1> QED BY <1>3, <1>4

LEMMA ExactTake ==
    ASSUME Typed, OutstandingIsExact, Take
    PROVE  OutstandingIsExact'
<1> DEFINE e == batch.epoch
<1>1. /\ batch.outstanding \in Nat /\ Balanced(batch)
      /\ Load(pending, e) \in Nat /\ Load(overflowParents, e) \in Nat
      /\ Load(overflowInodes, e) \in Nat /\ Load(running, e) \in Nat
  BY ExactSum
<1>t. pending \subseteq Task /\ overflowInodes \subseteq Task /\ overflowParents \subseteq Task
  BY DEF Typed, TypeOK
<1>2. batch.outstanding = Load(pending, e) + Load(overflowParents, e)
                          + Load(overflowInodes, e) + Load(running, e)
  BY ExactSum
<1>r. running = {} => Load(running, e) = 0
  <2>1. InEpoch({}, e) = {}
    BY DEF InEpoch
  <2> QED BY <2>1, FS_EmptySet DEF Load
<1>3. ASSUME NEW t \in pending, TakePending(t)
      PROVE  OutstandingIsExact'
  <2>1. /\ Load(pending', e) = Load(pending, e) - One(t, e)
        /\ Load(pending', e) \in Nat /\ One(t, e) \in {0, 1}
    BY <1>3, LoadMoves DEF TakePending, Typed, FiniteQueues
  <2>2. running = {} /\ Start(t) /\ UNCHANGED <<overflowParents, overflowInodes>> /\ t \in Task
    BY <1>t, <1>3 DEF TakePending
  <2>3. One(t, e) <= batch.outstanding
    <3> HIDE DEF e
    <3> QED BY <1>1, <1>2, <2>1
  <2>4. /\ Load(running', e) + batch.outstanding = batch'.outstanding + One(t, e)
        /\ batch'.epoch = e /\ Balanced(batch') /\ batch'.outstanding \in Nat
        /\ Load(running', e) \in Nat
    BY <1>1, <2>2, <2>3, ExactStart
  <2>5. batch'.outstanding = Load(pending', e) + Load(overflowParents', e)
                             + Load(overflowInodes', e) + Load(running', e)
    <3> HIDE DEF e
    <3> QED BY <1>1, <1>2, <1>r, <2>1, <2>2, <2>4
  <2> QED BY ExactAgain, <2>4, <2>5
<1>4. ASSUME NEW t \in overflowInodes, TakeOverflowInode(t)
      PROVE  OutstandingIsExact'
  <2>1. /\ Load(overflowInodes', e) = Load(overflowInodes, e) - One(t, e)
        /\ Load(overflowInodes', e) \in Nat /\ One(t, e) \in {0, 1}
    BY <1>4, LoadMoves DEF TakeOverflowInode, Typed, FiniteQueues
  <2>2. running = {} /\ Start(t) /\ UNCHANGED <<overflowParents, pending>> /\ t \in Task
    BY <1>t, <1>4 DEF TakeOverflowInode
  <2>3. One(t, e) <= batch.outstanding
    <3> HIDE DEF e
    <3> QED BY <1>1, <1>2, <2>1
  <2>4. /\ Load(running', e) + batch.outstanding = batch'.outstanding + One(t, e)
        /\ batch'.epoch = e /\ Balanced(batch') /\ batch'.outstanding \in Nat
        /\ Load(running', e) \in Nat
    BY <1>1, <2>2, <2>3, ExactStart
  <2>5. batch'.outstanding = Load(pending', e) + Load(overflowParents', e)
                             + Load(overflowInodes', e) + Load(running', e)
    <3> HIDE DEF e
    <3> QED BY <1>1, <1>2, <1>r, <2>1, <2>2, <2>4
  <2> QED BY ExactAgain, <2>4, <2>5
<1>5. ASSUME NEW t \in overflowParents, TakeOverflowParent(t)
      PROVE  OutstandingIsExact'
  <2>1. /\ Load(overflowParents', e) = Load(overflowParents, e) - One(t, e)
        /\ Load(overflowParents', e) \in Nat /\ One(t, e) \in {0, 1}
    BY <1>5, LoadMoves DEF TakeOverflowParent, Typed, FiniteQueues
  <2>2. running = {} /\ Start(t) /\ UNCHANGED <<overflowInodes, pending>> /\ t \in Task
    BY <1>t, <1>5 DEF TakeOverflowParent
  <2>3. One(t, e) <= batch.outstanding
    <3> HIDE DEF e
    <3> QED BY <1>1, <1>2, <2>1
  <2>4. /\ Load(running', e) + batch.outstanding = batch'.outstanding + One(t, e)
        /\ batch'.epoch = e /\ Balanced(batch') /\ batch'.outstanding \in Nat
        /\ Load(running', e) \in Nat
    BY <1>1, <2>2, <2>3, ExactStart
  <2>5. batch'.outstanding = Load(pending', e) + Load(overflowParents', e)
                             + Load(overflowInodes', e) + Load(running', e)
    <3> HIDE DEF e
    <3> QED BY <1>1, <1>2, <1>r, <2>1, <2>2, <2>4
  <2> QED BY ExactAgain, <2>4, <2>5
<1> QED BY <1>3, <1>4, <1>5 DEF Take

\* A replay is not queued yet: its session has no other sweep.
LEMMA ReplayIsNew ==
    ASSUME Typed, SweepsApart, NEW t \in running, NeedsReplay(t)
    PROVE  ReplayOf(t) \notin pending
<1>1. t \in RootSweepsOf(t.se) /\ t.se \in Session /\ t \in Task /\ t \notin pending
  BY DEF NeedsReplay, RootSweepsOf, SweepsApart, Typed, TypeOK, Task
<1>2. /\ ReplayOf(t).kind = "Root" /\ ReplayOf(t).se = t.se
      /\ ReplayOf(t).gen = sessions[t.se].generation
  BY <1>1 DEF ReplayOf, NeedsReplay, Task
<1>3. ReplayOf(t) \in pending => ReplayOf(t) \in RootSweepsOf(t.se)
  BY <1>2 DEF RootSweepsOf
<1> QED BY <1>1, <1>3 DEF SweepsApart

LEMMA ExactComplete ==
    ASSUME Typed, SweepsApart, OutstandingIsExact, NEW success \in BOOLEAN, CompleteTask(success)
    PROVE  OutstandingIsExact'
<1> DEFINE e == batch.epoch
           finished(t) == IF Counted(t) THEN Finish(batch, success) ELSE batch
<1>1. PICK t \in running : CompleteTask(success)!(t)
  BY DEF CompleteTask
<1>2. /\ t \in Task /\ running' = {} /\ running = {t}
      /\ UNCHANGED <<overflowParents, overflowInodes>>
  BY <1>1 DEF Typed, TypeOK
<1>3. /\ batch \in Batch /\ batch.outstanding \in Nat /\ Balanced(batch)
      /\ Load(pending, e) \in Nat /\ Load(overflowParents, e) \in Nat
      /\ Load(overflowInodes, e) \in Nat /\ Load(running, e) \in Nat
      /\ batch.outstanding = Load(pending, e) + Load(overflowParents, e)
                             + Load(overflowInodes, e) + Load(running, e)
  BY ExactSum
<1>4. One(t, e) \in Nat /\ Load(running, e) = One(t, e) /\ Load(running', e) = 0
  <2>1. Load({}, e) = 0 /\ IsFiniteSet({})
    <3>1. InEpoch({}, e) = {}
      BY DEF InEpoch
    <3> QED BY <3>1, FS_EmptySet DEF Load
  <2>2. Load({} \cup {t}, e) = Load({}, e) + One(t, e)
    BY <2>1, LoadGrows
  <2>3. One(t, e) \in Nat /\ running = {} \cup {t}
    BY <1>2 DEF One
  <2> HIDE DEF e
  <2> QED BY <1>2, <2>1, <2>2, <2>3
<1>5. /\ finished(t) \in Batch /\ finished(t).epoch = e /\ Balanced(finished(t))
      /\ finished(t).outstanding = batch.outstanding - One(t, e)
  <2>1. CASE Counted(t)
    <3>1. One(t, e) = 1 /\ batch.outstanding # 0
      <4>1. One(t, e) = 1
        BY <2>1 DEF Counted, One
      <4> HIDE DEF e
      <4> QED BY <1>3, <1>4, <4>1
    <3> QED BY <1>3, <2>1, <3>1, BatchBalance, BatchOperations
  <2>2. CASE ~Counted(t)
    <3>1. One(t, e) = 0
      BY <2>2 DEF Counted, One
    <3> QED BY <1>3, <2>2, <3>1
  <2> QED BY <2>1, <2>2
<1> HIDE DEF finished
<1>6. CASE NeedsReplay(t)
  <2> DEFINE r == ReplayOf(t)
  <2>1. /\ pending' = pending \cup {r}
        /\ batch' = IF Counted(r) THEN Accept(finished(t)) ELSE finished(t)
    BY <1>1, <1>6 DEF finished
  <2>2. r \notin pending
    BY <1>6, ReplayIsNew
  <2> HIDE DEF r
  <2>3. Load(pending', e) = Load(pending, e) + One(r, e) /\ One(r, e) \in Nat
    <3>1. IsFiniteSet(pending)
      BY DEF Typed, FiniteQueues
    <3> QED BY <2>1, <2>2, <3>1, LoadGrows DEF One
  <2>4. /\ batch'.outstanding = finished(t).outstanding + One(r, e)
        /\ batch'.epoch = e /\ Balanced(batch')
    <3>1. CASE Counted(r)
      <4>1. One(r, e) = 1
        BY <3>1 DEF Counted, One
      <4> QED BY <1>5, <2>1, <3>1, <4>1, BatchBalance, BatchOperations
    <3>2. CASE ~Counted(r)
      <4>1. One(r, e) = 0 /\ finished(t).outstanding \in Nat
        BY <1>5, <3>2 DEF Counted, One, Batch
      <4> QED BY <1>5, <2>1, <3>2, <4>1
    <3> QED BY <3>1, <3>2
  <2>5. batch'.outstanding = Load(pending', e) + Load(overflowParents', e)
                             + Load(overflowInodes', e) + Load(running', e)
    <3> HIDE DEF e
    <3> QED BY <1>2, <1>3, <1>4, <1>5, <2>3, <2>4
  <2> QED BY <2>4, <2>5, ExactAgain
<1>7. CASE ~NeedsReplay(t)
  <2>1. pending' = pending /\ batch' = finished(t)
    BY <1>1, <1>7 DEF finished
  <2>2. batch'.outstanding = Load(pending', e) + Load(overflowParents', e)
                             + Load(overflowInodes', e) + Load(running', e)
    <3> HIDE DEF e
    <3> QED BY <1>2, <1>3, <1>4, <1>5, <2>1
  <2> QED BY <1>5, <2>1, <2>2, ExactAgain
<1> QED BY <1>6, <1>7

LEMMA ExactRetire ==
    ASSUME Typed, OutstandingIsExact, NEW se \in Session, Retire(se)
    PROVE  OutstandingIsExact'
<1> DEFINE e == batch.epoch
           owed == Load(Of(se, pending), e) + Load(Of(se, overflowParents), e)
                   + Load(Of(se, overflowInodes), e)
<1>1. /\ batch \in Batch /\ batch.outstanding \in Nat /\ Balanced(batch)
      /\ Load(pending, e) \in Nat /\ Load(overflowParents, e) \in Nat
      /\ Load(overflowInodes, e) \in Nat /\ Load(running, e) \in Nat
      /\ batch.outstanding = Load(pending, e) + Load(overflowParents, e)
                             + Load(overflowInodes, e) + Load(running, e)
  BY ExactSum
<1>2. /\ Load(Of(se, pending), e) \in Nat /\ Load(Of(se, overflowParents), e) \in Nat
      /\ Load(Of(se, overflowInodes), e) \in Nat
      /\ Load(pending', e) = Load(pending, e) - Load(Of(se, pending), e)
      /\ Load(overflowParents', e) = Load(overflowParents, e) - Load(Of(se, overflowParents), e)
      /\ Load(overflowInodes', e) = Load(overflowInodes, e) - Load(Of(se, overflowInodes), e)
      /\ running' = running
  BY LoadOfRetired DEF Retire, Typed, FiniteQueues
<1>3. /\ Load(pending', e) \in Nat /\ Load(overflowParents', e) \in Nat
      /\ Load(overflowInodes', e) \in Nat
  BY LoadMoves, FiniteMoves DEF Retire, Typed, FiniteQueues
<1>4. batch' = FinishMany(batch, owed)
  BY DEF Retire, CountedIn, Counted, Load, InEpoch
<1>5. owed \in Nat /\ owed <= batch.outstanding
  <2> HIDE DEF e
  <2> QED BY <1>1, <1>2, <1>3
<1>6. batch'.epoch = e /\ batch'.outstanding = batch.outstanding - owed /\ Balanced(batch')
  <2> HIDE DEF owed
  <2> QED BY <1>1, <1>4, <1>5, BatchOperations, BatchBalance
<1>7. batch'.outstanding = Load(pending', e) + Load(overflowParents', e)
                           + Load(overflowInodes', e) + Load(running', e)
  <2> HIDE DEF e
  <2> QED BY <1>1, <1>2, <1>3, <1>6
<1> QED BY <1>6, <1>7, ExactAgain

-----------------------------------------------------------------------------
\* Steps that queue nothing and forget no sweep.
LEMMA SweepsStay ==
    ASSUME SweepsApart, GenerationsAreKnown,
           pending' \subseteq pending, running' \subseteq running,
           nextGeneration' = nextGeneration,
           \A s \in Session :
              /\ sessions'[s].generation = sessions[s].generation
              /\ \/ sessions'[s].rootPending = sessions[s].rootPending
                    /\ sessions'[s].retiring = sessions[s].retiring
                 \/ sessions'[s].retiring = TRUE
    PROVE  SweepsApart' /\ GenerationsAreKnown'
<1>1. \A s \in Session : RootSweepsOf(s)' \subseteq RootSweepsOf(s)
  BY DEF RootSweepsOf
<1>2. SweepsApart'
  BY <1>1 DEF SweepsApart
<1>3. GenerationsAreKnown'
  BY DEF GenerationsAreKnown
<1> QED BY <1>2, <1>3

\* An address takes a generation no task has.
LEMMA SweepsOfNewGeneration ==
    ASSUME Typed, SweepsApart, GenerationsAreKnown, NEW se \in Session,
           UNCHANGED <<pending, running>>,
           NEW g \in Nat, sessions' = [sessions EXCEPT ![se] = NewSession(g)],
           \/ g = 0 /\ nextGeneration' = nextGeneration
           \/ g = nextGeneration + 1 /\ nextGeneration' = nextGeneration + 1
    PROVE  SweepsApart' /\ GenerationsAreKnown'
<1>1. /\ sessions \in [Session -> SessionState] /\ nextGeneration \in Nat
      /\ pending \cup running \subseteq Task
  BY DEF Typed, TypeOK
<1>2. \A s \in Session : sessions[s].generation \in Nat
  BY <1>1 DEF SessionState
<1>3. /\ sessions'[se].generation = g
      /\ \A s \in Session \ {se} : sessions'[s] = sessions[s]
  BY <1>1 DEF NewSession
<1>4. \A t \in pending \cup running : t.gen \in Nat /\ t.gen # g
  <2>1. \A t \in pending \cup running : t.gen \in Nat /\ t.gen # 0 /\ t.gen <= nextGeneration
    BY <1>1 DEF GenerationsAreKnown, Task
  <2> QED BY <1>1, <2>1
<1>5. RootSweepsOf(se)' = {}
  BY <1>3, <1>4 DEF RootSweepsOf
<1>6. \A s \in Session \ {se} : RootSweepsOf(s)' = RootSweepsOf(s)
  BY <1>3 DEF RootSweepsOf
<1>7. SweepsApart'
  BY <1>3, <1>5, <1>6 DEF SweepsApart
<1>8. GenerationsAreKnown'
  <2>1. \A s \in Session : sessions'[s].generation <= nextGeneration'
    BY <1>1, <1>2, <1>3 DEF GenerationsAreKnown
  <2>2. \A t \in pending' \cup running' : t.gen # 0 /\ t.gen <= nextGeneration'
    BY <1>1, <1>4 DEF GenerationsAreKnown
  <2> QED BY <2>1, <2>2 DEF GenerationsAreKnown
<1> QED BY <1>7, <1>8

LEMMA SweepsTake ==
    ASSUME Typed, SweepsApart, GenerationsAreKnown, Take
    PROVE  SweepsApart' /\ GenerationsAreKnown'
<1>1. PICK t \in pending \cup overflowInodes \cup overflowParents :
         /\ Start(t) /\ running = {} /\ UNCHANGED <<sessions, nextGeneration>>
         /\ pending' \subseteq pending
         /\ t.kind = "Root" => t \in pending /\ t \notin pending'
  <2>1. CASE \E t \in pending : TakePending(t)
    BY <2>1 DEF TakePending
  <2>2. CASE \E t \in overflowInodes : TakeOverflowInode(t)
    BY <2>2 DEF TakeOverflowInode, Typed, TypeOK, TasksOfKind
  <2>3. CASE \E t \in overflowParents : TakeOverflowParent(t)
    BY <2>3 DEF TakeOverflowParent, Typed, TypeOK, TasksOfKind
  <2> QED BY <2>1, <2>2, <2>3 DEF Take
<1>2. t \in Task
  BY DEF Typed, TypeOK, TasksOfKind
<1>3. \/ running' = {t} /\ Alive(t.se, t.gen)
      \/ running' = running
  BY <1>1 DEF Start
<1>4. SweepsApart'
  <2>1. \A s \in Session : RootSweepsOf(s)' \subseteq RootSweepsOf(s)
    BY <1>1, <1>3 DEF RootSweepsOf
  <2>2. \A u \in running' : u.kind = "Root" => u \notin pending'
    BY <1>1, <1>3
  <2> QED BY <1>1, <2>1, <2>2 DEF SweepsApart
<1>5. GenerationsAreKnown'
  <2>1. \A s \in Session : sessions'[s].generation <= nextGeneration'
    BY <1>1 DEF GenerationsAreKnown
  <2>2. ASSUME NEW u \in pending' \cup running'
        PROVE  u.gen # 0 /\ u.gen <= nextGeneration'
    <3>1. CASE u \in pending
      BY <1>1, <3>1 DEF GenerationsAreKnown
    <3>2. CASE u \notin pending
      <4>1. u = t /\ Alive(t.se, t.gen) /\ t.se \in Session
        BY <1>1, <1>2, <1>3, <2>2, <3>2 DEF Task
      <4> QED BY <1>1, <4>1 DEF GenerationsAreKnown, Alive, Registered
    <3> QED BY <3>1, <3>2
  <2> QED BY <2>1, <2>2 DEF GenerationsAreKnown
<1> QED BY <1>4, <1>5

LEMMA SweepsComplete ==
    ASSUME Typed, Lifecycle, SweepsApart, GenerationsAreKnown,
           NEW success \in BOOLEAN, CompleteTask(success)
    PROVE  SweepsApart' /\ GenerationsAreKnown'
<1>1. PICK t \in running : CompleteTask(success)!(t)
  BY DEF CompleteTask
<1>2. /\ t \in Task /\ running' = {} /\ nextGeneration' = nextGeneration
      /\ sessions \in [Session -> SessionState] /\ t.se \in Session /\ t.gen \in Nat
      /\ t.gen # 0 /\ t.gen <= nextGeneration
  BY <1>1 DEF Typed, TypeOK, GenerationsAreKnown, Task
<1>3. CASE NeedsReplay(t)
  <2> DEFINE r == ReplayOf(t)
             half == [sessions EXCEPT ![t.se].rootNeedsReplay = FALSE]
  <2>1. /\ pending' = pending \cup {r}
        /\ sessions' = [half EXCEPT ![t.se].rootReplayEpoch = 0]
    BY <1>1, <1>2, <1>3 DEF SessionState
  <2>2. /\ t.kind = "Root" /\ sessions[t.se].generation = t.gen
        /\ t \in RootSweepsOf(t.se) /\ t \notin pending
    BY <1>3 DEF NeedsReplay, RootSweepsOf, SweepsApart
  <2>3. r.kind = "Root" /\ r.se = t.se /\ r.gen = t.gen
    BY <1>2, <2>2 DEF ReplayOf, Task
  <2>4. /\ half \in [Session -> SessionState]
        /\ \A s \in Session : /\ half[s].generation = sessions[s].generation
                              /\ half[s].rootPending = sessions[s].rootPending
                              /\ half[s].retiring = sessions[s].retiring
    BY <1>2 DEF SessionState
  <2> HIDE DEF half, r
  <2>5. \A s \in Session : /\ sessions'[s].generation = sessions[s].generation
                           /\ sessions'[s].rootPending = sessions[s].rootPending
                           /\ sessions'[s].retiring = sessions[s].retiring
    BY <2>1, <2>4 DEF SessionState
  <2>6. /\ RootSweepsOf(t.se)' \subseteq {r}
        /\ \A s \in Session \ {t.se} : RootSweepsOf(s)' \subseteq RootSweepsOf(s)
    <3>1. \A s \in Session : RootSweepsOf(s)' \subseteq (RootSweepsOf(s) \ {t}) \cup
                                                      (IF s = t.se THEN {r} ELSE {})
      BY <1>2, <2>1, <2>2, <2>3, <2>5 DEF RootSweepsOf
    <3>2. RootSweepsOf(t.se) \ {t} = {}
      BY <1>2, <2>2 DEF SweepsApart
    <3> QED BY <1>2, <3>1, <3>2
  <2>7. SweepsApart'
    <3>1. ASSUME NEW s \in Session
          PROVE  /\ \A u, v \in RootSweepsOf(s)' : u = v
                 /\ RootSweepsOf(s)' # {} => sessions'[s].rootPending = TRUE
                                             \/ sessions'[s].retiring = TRUE
      <4>1. CASE s = t.se
        BY <2>2, <2>5, <2>6, <4>1 DEF SweepsApart
      <4>2. CASE s # t.se
        BY <2>5, <2>6, <4>2 DEF SweepsApart
      <4> QED BY <4>1, <4>2
    <3> QED BY <1>2, <3>1 DEF SweepsApart
  <2>8. GenerationsAreKnown'
    BY <1>2, <2>1, <2>3, <2>5 DEF GenerationsAreKnown
  <2> QED BY <2>7, <2>8
<1>4. CASE ~NeedsReplay(t)
  <2>1. /\ pending' = pending
        /\ sessions' = IF t.kind = "Root" /\ sessions[t.se].generation = t.gen
                       THEN [sessions EXCEPT ![t.se].rootPending = FALSE] ELSE sessions
    BY <1>1, <1>4
  <2>2. CASE t.kind = "Root" /\ sessions[t.se].generation = t.gen
    <3>1. \A s \in Session : /\ sessions'[s].generation = sessions[s].generation
                             /\ sessions'[s].retiring = sessions[s].retiring
                             /\ s # t.se => sessions'[s].rootPending = sessions[s].rootPending
      BY <1>2, <2>1, <2>2 DEF SessionState
    <3>2. t \in RootSweepsOf(t.se) /\ t \notin pending
      BY <2>2 DEF RootSweepsOf, SweepsApart
    <3>3. \A s \in Session : RootSweepsOf(s)' \subseteq RootSweepsOf(s) \ {t}
      BY <1>2, <2>1, <3>1, <3>2 DEF RootSweepsOf
    <3>4. RootSweepsOf(t.se)' = {}
      BY <1>2, <3>2, <3>3 DEF SweepsApart
    <3>5. SweepsApart'
      BY <1>2, <3>1, <3>3, <3>4 DEF SweepsApart
    <3>6. GenerationsAreKnown'
      BY <1>2, <2>1, <3>1 DEF GenerationsAreKnown
    <3> QED BY <3>5, <3>6
  <2>3. CASE ~(t.kind = "Root" /\ sessions[t.se].generation = t.gen)
    <3>1. sessions' = sessions
      BY <2>1, <2>3
    <3> QED BY <1>2, <2>1, <3>1, SweepsStay
  <2> QED BY <2>2, <2>3
<1> QED BY <1>3, <1>4

LEMMA SweepsNext ==
    ASSUME SchedulerAssumption, Scheduled, SweepsApart, GenerationsAreKnown, [SchedulerNext]_vars
    PROVE  SweepsApart' /\ GenerationsAreKnown'
<1>0. Typed /\ Lifecycle
  BY DEF Scheduled
<1>1. ASSUME NEW se \in Session, RegisterSession(se)
      PROVE  SweepsApart' /\ GenerationsAreKnown'
  <2>1. nextGeneration + 1 \in Nat
    BY <1>0 DEF Typed, TypeOK
  <2> QED BY <1>0, <1>1, <2>1, SweepsOfNewGeneration DEF RegisterSession
<1>2. ASSUME NEW se \in Session, FinishFuseSessionDestroy(se)
      PROVE  SweepsApart' /\ GenerationsAreKnown'
  BY <1>0, <1>2, SweepsOfNewGeneration DEF FinishFuseSessionDestroy, NoSession
<1>3. ASSUME NEW se \in Session, Retire(se)
      PROVE  SweepsApart' /\ GenerationsAreKnown'
  <2>1. \A s \in Session : /\ sessions'[s].generation = sessions[s].generation
                           /\ s = se => sessions'[s].retiring = TRUE
                           /\ s # se => sessions'[s] = sessions[s]
    BY <1>0, <1>3 DEF Retire, Retired, NewSession, Typed, TypeOK, SessionState
  <2> QED BY <1>3, <2>1, SweepsStay DEF Retire
<1>4. ASSUME NEW se \in Session, NEW kind \in FuseKinds, FuseRequest(kind, se)
      PROVE  SweepsApart' /\ GenerationsAreKnown'
  <2>1. kind \in {"Root", "Entry", "Inode"}
    BY DEF SchedulerAssumption
  <2> QED BY <1>0, <1>4, <2>1, SweepsQueueInvalidation DEF FuseRequest
<1>5. ASSUME UNCHANGED <<sessions, nextGeneration, pending, running>>
      PROVE  SweepsApart' /\ GenerationsAreKnown'
  BY <1>5, SweepsStay
<1>6. ASSUME NEW se \in Session, NEW p \in Producer, NEW kind \in ConfigKinds,
             PublisherRequest(p, kind, se)
      PROVE  SweepsApart' /\ GenerationsAreKnown'
  <2>1. kind \in {"Root", "Entry", "Inode"}
    BY DEF ConfigKinds
  <2> QED BY <1>0, <1>5, <1>6, <2>1, SweepsQueueInvalidation
          DEF PublisherRequest, Backpressured
<1>7. CASE SchedulerNext
  BY <1>0, <1>1, <1>2, <1>3, <1>4, <1>5, <1>6, <1>7, SweepsTake, SweepsComplete
     DEF SchedulerNext, Drained, Admit, GiveUp, BeginProbes, EndProbe,
         BeginHideInvalidationBatch
<1>8. CASE UNCHANGED vars
  BY <1>5, <1>8 DEF vars
<1> QED BY <1>7, <1>8

-----------------------------------------------------------------------------
LEMMA NotTwiceStays ==
    ASSUME NotTwice, pending' \subseteq pending, overflowInodes' \subseteq overflowInodes,
           \A p \in Producer : blocked'[p] \subseteq blocked[p]
    PROVE  NotTwice'
  BY DEF NotTwice

\* The only publisher: when it does not wait, nobody does.
LEMMA NobodyElseWaits ==
    ASSUME OnePublisher, Typed, NEW p \in Producer
    PROVE  /\ \A q \in Producer : q = p
           /\ \A S : blocked' = [blocked EXCEPT ![p] = S] => blocked'[p] = S
  BY DEF OnePublisher, Typed, TypeOK

LEMMA NotTwiceNext ==
    ASSUME SchedulerAssumption, OnePublisher, Typed, OutstandingIsExact, NotTwice,
           [SchedulerNext]_vars
    PROVE  NotTwice'
<1>1. ASSUME NEW se \in Session, NEW kind \in FuseKinds, FuseRequest(kind, se)
      PROVE  NotTwice'
  <2>1. PICK obj \in ObjectsOf(kind) : QueueInvalidation(kind, CurrentToken(se), obj, FALSE)
    BY <1>1 DEF FuseRequest
  <2> DEFINE t == TaskFor(kind, CurrentToken(se), obj, FALSE)
  <2>2. kind \in {"Root", "Entry", "Inode"} /\ t.epoch = 0 /\ blocked' = blocked
    BY <2>1 DEF SchedulerAssumption, TaskFor, QueueInvalidation
  <2> HIDE DEF t
  <2>3. \A u \in pending \cap overflowInodes : u.epoch = 0
    BY DEF NotTwice
  <2>4. /\ \A u \in pending' \cap overflowInodes' : u.epoch = 0
        /\ \A u \in pending' \cup overflowInodes' : u \in pending \cup overflowInodes \/ u = t
    BY <2>1, <2>2, <2>3, ExactQueueInvalidation DEF t
  <2> QED BY <2>2, <2>4 DEF NotTwice
<1>2. ASSUME NEW se \in Session, NEW p \in Producer, NEW kind \in ConfigKinds,
             PublisherRequest(p, kind, se)
      PROVE  NotTwice'
  <2>1. /\ blocked[p] = {} /\ \A q \in Producer : q = p
        /\ \A u \in pending \cap overflowInodes : u.epoch = 0
    BY <1>2, NobodyElseWaits DEF PublisherRequest, NotTwice
  <2>2. ASSUME NEW obj \in ObjectsOf(kind), QueueInvalidation(kind, CurrentToken(se), obj, TRUE)
        PROVE  NotTwice'
    <3>1. kind \in {"Root", "Entry", "Inode"} /\ blocked' = blocked
      BY <2>2 DEF ConfigKinds, QueueInvalidation
    <3>2. \A u \in pending' \cap overflowInodes' : u.epoch = 0
      BY <2>1, <2>2, <3>1, ExactQueueInvalidation
    <3> QED BY <2>1, <3>1, <3>2 DEF NotTwice
  <2>3. ASSUME NEW obj \in ObjectsOf(kind), kind = "Inode",
               Backpressured(p, CurrentToken(se), obj)
        PROVE  NotTwice'
    <3> DEFINE t == TaskFor("Inode", CurrentToken(se), obj, TRUE)
    <3>1. /\ blocked' = [blocked EXCEPT ![p] = {t}] /\ UNCHANGED <<pending, overflowInodes>>
          /\ t \notin pending \cup overflowInodes
      BY <2>3 DEF Backpressured, Duplicate
    <3>2. blocked'[p] = {t}
      BY <3>1, NobodyElseWaits
    <3> QED BY <2>1, <3>1, <3>2 DEF NotTwice
  <2> QED BY <1>2, <2>2, <2>3 DEF PublisherRequest
<1>3. ASSUME NEW p \in Producer, Admit(p)
      PROVE  NotTwice'
  <2>1. PICK t \in blocked[p] : /\ overflowInodes' = overflowInodes \cup {t}
                                /\ blocked' = [blocked EXCEPT ![p] = {}]
                                /\ pending' = pending
    BY <1>3 DEF Admit
  <2>2. blocked'[p] = {} /\ \A q \in Producer : q = p
    BY <2>1, NobodyElseWaits
  <2>3. t \in pending => t.epoch = 0
    BY DEF NotTwice
  <2> QED BY <2>1, <2>2, <2>3 DEF NotTwice
<1>4. ASSUME NEW p \in Producer, GiveUp(p)
      PROVE  NotTwice'
  <2>1. /\ blocked' = [blocked EXCEPT ![p] = {}] /\ UNCHANGED <<pending, overflowInodes>>
    BY <1>4 DEF GiveUp
  <2>2. blocked'[p] = {} /\ \A q \in Producer : q = p
    BY <2>1, NobodyElseWaits
  <2> QED BY <2>1, <2>2, NotTwiceStays
<1>5. ASSUME NEW se \in Session, Retire(se)
      PROVE  NotTwice'
  BY <1>5, NotTwiceStays DEF Retire
<1>6. CASE Take
  BY <1>6, NotTwiceStays DEF Take, TakePending, TakeOverflowInode, TakeOverflowParent
<1>7. ASSUME NEW success \in BOOLEAN, CompleteTask(success)
      PROVE  NotTwice'
  <2>1. PICK t \in running : CompleteTask(success)!(t)
    BY <1>7 DEF CompleteTask
  <2>2. UNCHANGED <<overflowInodes, blocked>> /\ t \in Task
    BY <2>1 DEF Typed, TypeOK
  <2>3. \/ pending' = pending \cup {ReplayOf(t)} /\ ReplayOf(t).kind = "Root"
        \/ pending' = pending
    BY <2>1, <2>2 DEF NeedsReplay, ReplayOf, Task
  <2>4. /\ \A u \in overflowInodes : u.kind = "Inode"
        /\ \A p \in Producer : \A u \in blocked[p] : u.kind = "Inode"
    BY DEF Typed, TypeOK, TasksOfKind
  <2> QED BY <2>2, <2>3, <2>4 DEF NotTwice
<1>8. ASSUME UNCHANGED <<pending, overflowInodes, blocked>>
      PROVE  NotTwice'
  BY <1>8, NotTwiceStays
<1>9. CASE SchedulerNext
  BY <1>1, <1>2, <1>3, <1>4, <1>5, <1>6, <1>7, <1>8, <1>9
     DEF SchedulerNext, RegisterSession, Drained, FinishFuseSessionDestroy,
         BeginProbes, EndProbe, BeginHideInvalidationBatch
<1>10. CASE UNCHANGED vars
  BY <1>8, <1>10 DEF vars
<1> QED BY <1>9, <1>10

LEMMA ExactNext ==
    ASSUME SchedulerAssumption, OnePublisher, Scheduled, SweepsApart, NotTwice,
           OutstandingIsExact, [SchedulerNext]_vars
    PROVE  OutstandingIsExact'
<1> DEFINE e == batch.epoch
<1>0. Typed /\ EpochsAreKnown
  BY DEF Scheduled, Owing
<1>1. /\ batch \in Batch /\ batch.outstanding \in Nat /\ Balanced(batch)
      /\ Load(pending, e) \in Nat /\ Load(overflowParents, e) \in Nat
      /\ Load(overflowInodes, e) \in Nat /\ Load(running, e) \in Nat
      /\ batch.outstanding = Load(pending, e) + Load(overflowParents, e)
                             + Load(overflowInodes, e) + Load(running, e)
  BY <1>0, ExactSum
<1>q. \A u \in pending \cap overflowInodes : u.epoch = 0
  BY DEF NotTwice
<1>2. ASSUME NEW se \in Session, NEW kind \in FuseKinds, FuseRequest(kind, se)
      PROVE  OutstandingIsExact'
  <2>1. kind \in {"Root", "Entry", "Inode"}
    BY DEF SchedulerAssumption
  <2> QED BY <1>0, <1>q, <1>2, <2>1, ExactQueueInvalidation DEF FuseRequest
<1>3. ASSUME UNCHANGED <<pending, overflowParents, overflowInodes, running, batch>>
      PROVE  OutstandingIsExact'
  BY <1>1, <1>3, ExactAgain
<1>4. ASSUME NEW se \in Session, NEW p \in Producer, NEW kind \in ConfigKinds,
             PublisherRequest(p, kind, se)
      PROVE  OutstandingIsExact'
  <2>1. kind \in {"Root", "Entry", "Inode"}
    BY DEF ConfigKinds
  <2> QED BY <1>0, <1>q, <1>3, <1>4, <2>1, ExactQueueInvalidation
          DEF PublisherRequest, Backpressured
<1>5. ASSUME NEW p \in Producer, Admit(p)
      PROVE  OutstandingIsExact'
  <2>1. PICK t \in blocked[p] :
           /\ overflowInodes' = overflowInodes \cup {t} /\ AcceptTask(t)
           /\ UNCHANGED <<pending, overflowParents, running>>
    BY <1>5 DEF Admit
  <2>2. t.epoch = e /\ t.epoch # 0 => t \notin overflowInodes
    BY DEF NotTwice
  <2>3. Load(overflowInodes', e) = Load(overflowInodes, e) + One(t, e)
    <3>1. IsFiniteSet(overflowInodes)
      BY <1>0 DEF Typed, FiniteQueues
    <3> QED BY <2>1, <2>2, <3>1, LoadGrows
  <2>4. /\ batch'.outstanding = batch.outstanding + One(t, e) /\ batch'.epoch = e
        /\ Balanced(batch') /\ One(t, e) \in Nat
    BY <1>1, <2>1, BatchOutstanding, BatchSteps, Settling DEF One
  <2>5. batch'.outstanding = Load(pending', e) + Load(overflowParents', e)
                             + Load(overflowInodes', e) + Load(running', e)
    <3> HIDE DEF e
    <3> QED BY <1>1, <2>1, <2>3, <2>4
  <2> QED BY <2>4, <2>5, ExactAgain
<1>6. ASSUME NEW p \in Producer, GiveUp(p)
      PROVE  OutstandingIsExact'
  <2>1. PICK t \in blocked[p] :
           RejectTask(t) /\ UNCHANGED <<pending, overflowParents, overflowInodes, running>>
    BY <1>6 DEF GiveUp
  <2>2. batch'.outstanding = batch.outstanding /\ batch'.epoch = e /\ Balanced(batch')
    BY <1>1, <2>1, BatchOutstanding, BatchSteps, Settling
  <2> QED BY <1>1, <2>1, <2>2, ExactAgain
<1>7. CASE BeginHideInvalidationBatch
  <2> DEFINE n == currentConfigEpoch + 1
  <2>1. /\ batch' = NewBatch(n)
        /\ UNCHANGED <<pending, overflowParents, overflowInodes, running>>
    BY <1>7 DEF BeginHideInvalidationBatch
  <2>2. \A S \in {pending, overflowParents, overflowInodes, running} : InEpoch(S, n) = {}
    BY <1>0 DEF EpochsAreKnown, InEpoch, Queued, Typed, TypeOK, TasksOfKind, Task
  <2>3. /\ Load(pending, n) = 0 /\ Load(overflowParents, n) = 0
        /\ Load(overflowInodes, n) = 0 /\ Load(running, n) = 0
    BY <2>2, FS_EmptySet DEF Load
  <2>4. /\ batch'.epoch = n /\ batch'.outstanding = 0 /\ Balanced(batch')
    BY <2>1 DEF NewBatch, Balanced
  <2> HIDE DEF n
  <2>5. /\ CountedTasks' = Load(pending, n) + Load(overflowParents, n)
                           + Load(overflowInodes, n) + Load(running, n)
    BY <2>1, <2>4 DEF CountedTasks, CountedIn, Counted, Load, InEpoch
  <2> QED BY <2>3, <2>4, <2>5 DEF OutstandingIsExact, Balanced
<1>8. ASSUME NEW se \in Session, Retire(se)
      PROVE  OutstandingIsExact'
  BY <1>0, <1>8, ExactRetire
<1>9. CASE SchedulerNext
  BY <1>0, <1>2, <1>3, <1>4, <1>5, <1>6, <1>7, <1>8, <1>9, ExactTake, ExactComplete
     DEF SchedulerNext, RegisterSession, Drained, FinishFuseSessionDestroy,
         BeginProbes, EndProbe
<1>10. CASE UNCHANGED vars
  BY <1>3, <1>10 DEF vars
<1> QED BY <1>9, <1>10

Exact == Scheduled /\ SweepsApart /\ GenerationsAreKnown /\ NotTwice /\ OutstandingIsExact

LEMMA ExactInit == Init => Exact
<1> SUFFICES ASSUME Init PROVE Exact
  OBVIOUS
<1>1. Scheduled
  BY ScheduledInit
<1>2. SweepsApart /\ GenerationsAreKnown /\ NotTwice
  BY DEF Init, SweepsApart, RootSweepsOf, GenerationsAreKnown, NoSession, NewSession, NotTwice
<1>3. OutstandingIsExact
  <2>1. /\ CountedIn(pending) = {} /\ CountedIn(overflowParents) = {}
        /\ CountedIn(overflowInodes) = {} /\ CountedIn(running) = {}
    BY DEF Init, CountedIn
  <2>2. CountedTasks = 0
    BY <2>1, FS_EmptySet DEF CountedTasks
  <2> QED BY <2>2 DEF OutstandingIsExact, Init, NewBatch
<1> QED BY <1>1, <1>2, <1>3 DEF Exact

\* As long as one thread publishes, the counters tell how much work is left,
\* no more and no less: a retired session, an eviction, a replay and a wait for
\* room each settle exactly the tasks they move.
THEOREM OutstandingIsExactAlone ==
    ASSUME OnePublisher
    PROVE  Spec => []OutstandingIsExact
<1>1. Exact /\ [Next]_vars => Exact'
  BY NextIsScheduler, SchedulerAssumption, ScheduledNext, SweepsNext, NotTwiceNext, ExactNext
     DEF Exact, Scheduled
<1>2. Exact => OutstandingIsExact
  BY DEF Exact
<1> QED BY ExactInit, <1>1, <1>2, PTL DEF Spec

-----------------------------------------------------------------------------
(***************************************************************************)
(* The publishers: they ask the scheduler for nothing it does not offer.   *)
(***************************************************************************)
\* A plan asks for the root of a session or for an inode of it.
PlansAreRequests ==
    \A p \in Producer : \A r \in plan[p] :
        r.kind \in ConfigKinds /\ r.obj \in ObjectsOf(r.kind)

PublicationTyped == PublicationTypeOK /\ FiniteQueues /\ PlansAreRequests

Request == [kind: {"Root", "Inode"}, obj: Target, token: [se: Session, gen: Nat \ {0}]]

\* The request r of p's plan: in vain when its session has gone, and otherwise
\* made for a session as it is now.
RequestMade(p, r, se, kind, obj) ==
    /\ obj \in ObjectsOf(kind)
    /\ r.token.se = se /\ r.kind = kind /\ r.obj = obj
    /\ plan' = [plan EXCEPT ![p] = @ \ {r}]
    /\ \/ /\ ~Alive(se, r.token.gen)
          /\ UNCHANGED vars
       \/ /\ r.token = CurrentToken(se)
          /\ Alive(se, sessions[se].generation)
          /\ QueueInvalidation(kind, CurrentToken(se), obj, TRUE)
       \/ /\ r.token = CurrentToken(se)
          /\ kind = "Inode"
          /\ Backpressured(p, CurrentToken(se), obj)

LEMMA RequestOfPlan ==
    ASSUME PublicationTyped, NEW p \in Producer, ScheduleOne(p)
    PROVE  \E r \in plan[p], se \in Session, kind \in {"Root", "Inode"}, obj \in Target :
              RequestMade(p, r, se, kind, obj)
<1> USE DEF RequestMade
<1>1. PICK r \in plan[p] : /\ \/ QueueInvalidation(r.kind, r.token, r.obj, TRUE)
                              \/ /\ r.kind = "Inode"
                                 /\ Backpressured(p, r.token, r.obj)
                           /\ plan' = [plan EXCEPT ![p] = @ \ {r}]
  BY DEF ScheduleOne
<1>2. r \in Request /\ r.kind \in ConfigKinds /\ r.obj \in ObjectsOf(r.kind)
  BY DEF PublicationTyped, PlansAreRequests, PublicationTypeOK, Request
<1>3. /\ r.token.se \in Session /\ r.token = [se |-> r.token.se, gen |-> r.token.gen]
      /\ r.kind \in {"Root", "Inode"} /\ r.obj \in Target
  BY <1>2 DEF Request
<1>4. CASE Alive(r.token.se, r.token.gen)
  <2>1. r.token = CurrentToken(r.token.se)
    BY <1>3, <1>4 DEF Alive, CurrentToken
  <2>2. Alive(r.token.se, sessions[r.token.se].generation)
    BY <1>4 DEF Alive
  <2> QED BY <1>1, <1>2, <1>3, <2>1, <2>2
<1>5. CASE ~Alive(r.token.se, r.token.gen)
  <2>1. UNCHANGED vars
    BY <1>1, <1>5 DEF QueueInvalidation, Backpressured, ScheduleOne, vars
  <2> QED BY <1>1, <1>2, <1>3, <1>5, <2>1
<1> QED BY <1>4, <1>5

\* What a publisher does to the scheduler is a step of it.
LEMMA PublicationSteps ==
    ASSUME PublicationTyped, [PublicationNext]_allVars
    PROVE  [SchedulerNext]_vars
<1> USE DEF PublicationTyped
<1>1. ASSUME NEW p \in Reloader, BeginApply(p)
      PROVE  SchedulerNext
  BY <1>1 DEF BeginApply, SchedulerNext
<1>2. ASSUME NEW p \in Producer, ScheduleOne(p)
      PROVE  [SchedulerNext]_vars
  <2>1. blocked[p] = {}
    BY <1>2 DEF ScheduleOne
  <2>2. PICK r \in plan[p], se \in Session, kind \in {"Root", "Inode"}, obj \in Target :
           RequestMade(p, r, se, kind, obj)
    BY <1>2, RequestOfPlan
  <2>3. UNCHANGED vars \/ PublisherRequest(p, kind, se)
    BY <2>1, <2>2 DEF PublisherRequest, RequestMade
  <2> QED BY <2>3 DEF SchedulerNext, ConfigKinds
<1>3. ASSUME NEW p \in Producer, LeaveBackpressure(p)
      PROVE  SchedulerNext
  BY <1>3 DEF LeaveBackpressure, SchedulerNext
<1>4. ASSUME WorkerTakes \/ \E success \in BOOLEAN : WorkerCompletes(success)
      PROVE  SchedulerNext
  BY <1>4 DEF WorkerTakes, WorkerCompletes, SchedulerNext
<1>5. ASSUME NEW se \in Session,
             SessionStep(se) \/ SessionDrained(se) \/ \E kind \in FuseKinds : RequestStep(kind, se)
      PROVE  SchedulerNext
  BY <1>5 DEF SessionStep, SessionDrained, RequestStep, SchedulerNext
<1>6. ASSUME NEW p \in Reloader, \/ PublishConfig(p) \/ SnapshotForConfig(p) \/ BeginWait(p)
                                 \/ WaitFindsIdle(p) \/ Acknowledge(p) \/ WaitFails(p)
      PROVE  UNCHANGED vars
  BY <1>6 DEF PublishConfig, SnapshotForConfig, BeginWait, WaitFindsIdle, Acknowledge, WaitFails
<1>7. ASSUME NEW p \in Producer, DoneScheduling(p) \/ PackageSetChanged(p)
      PROVE  UNCHANGED vars
  BY <1>7 DEF DoneScheduling, PackageSetChanged
<1>8. Watcher \subseteq Producer
  BY PublicationAssumption
<1> QED BY <1>1, <1>2, <1>3, <1>4, <1>5, <1>6, <1>7, <1>8 DEF PublicationNext, allVars

\* The plan of the active sessions consists of requests.
LEMMA PlanOfRequests ==
    ASSUME TypeOK
    PROVE  \A r \in PlanOfActiveSessions :
              r \in Request /\ r.kind \in ConfigKinds /\ r.obj \in ObjectsOf(r.kind)
<1> SUFFICES ASSUME NEW se \in ActiveSessions, NEW obj \in Target
             PROVE  LET r == [kind |-> IF obj = "root" THEN "Root" ELSE "Inode",
                              token |-> CurrentToken(se), obj |-> obj]
                    IN  r \in Request /\ r.kind \in ConfigKinds /\ r.obj \in ObjectsOf(r.kind)
  BY DEF PlanOfActiveSessions
<1>1. CurrentToken(se) \in [se: Session, gen: Nat \ {0}]
  BY DEF CurrentToken, ActiveSessions, Registered, TypeOK, SessionState
<1>2. obj \in Target /\ (obj # "root" => obj \in Inode)
  BY DEF Target
<1>3. ObjectsOf("Root") = {"root"} /\ ObjectsOf("Inode") = Inode
  BY DEF ObjectsOf
<1> QED BY <1>1, <1>2, <1>3 DEF Request, ConfigKinds

LEMMA PublicationTypedNext ==
    ASSUME PublicationTyped, [PublicationNext]_allVars
    PROVE  PublicationTyped'
<1>1. Typed'
  BY PublicationSteps, TypedNext DEF PublicationTyped, PublicationTypeOK, Typed
<1>2. /\ pc \in [Producer -> Step] /\ awaited \in [Reloader -> Nat] /\ packageChanges \in Nat
      /\ stale \in [Session -> SUBSET Target] /\ fresh \in BOOLEAN
      /\ acknowledged \in Nat /\ overlap \in BOOLEAN
      /\ \A p \in Producer : plan[p] \subseteq Request
      /\ PlansAreRequests
      /\ currentConfigEpoch \in Nat
      /\ Reloader \subseteq Producer /\ Watcher \subseteq Producer
  BY PublicationAssumption DEF PublicationTyped, PublicationTypeOK, TypeOK, Request
<1>3. \A r \in PlanOfActiveSessions :
         r \in Request /\ r.kind \in ConfigKinds /\ r.obj \in ObjectsOf(r.kind)
  BY PlanOfRequests DEF PublicationTyped, PublicationTypeOK
<1> DEFINE Rest ==
      /\ pc \in [Producer -> Step] /\ awaited \in [Reloader -> Nat] /\ packageChanges \in Nat
      /\ stale \in [Session -> SUBSET Target] /\ fresh \in BOOLEAN
      /\ acknowledged \in Nat /\ overlap \in BOOLEAN
      Plans ==
      /\ plan \in [Producer -> SUBSET Request]
      /\ \A p \in Producer : \A r \in plan[p] :
            r.kind \in ConfigKinds /\ r.obj \in ObjectsOf(r.kind)
<1>p. Plans
  BY <1>2 DEF PlansAreRequests, PublicationTyped, PublicationTypeOK, Request
<1>3b. {"idle", "begun", "published", "scheduling", "applied", "waiting", "checking"} = Step
  BY DEF Step
<1>4. ASSUME NEW p \in Reloader, BeginApply(p)
      PROVE  Rest' /\ plan' = plan
  BY <1>2, <1>4, <1>3b DEF BeginApply, Goto, MeetsOthers
<1>5. ASSUME NEW p \in Reloader, PublishConfig(p)
      PROVE  Rest' /\ plan' = plan
  BY <1>2, <1>5, <1>3b DEF PublishConfig, Goto
<1>6. ASSUME NEW p \in Reloader, SnapshotForConfig(p)
      PROVE  Rest' /\ plan' = [plan EXCEPT ![p] = PlanOfActiveSessions]
  BY <1>2, <1>6, <1>3b DEF SnapshotForConfig, Goto
<1>7. ASSUME NEW p \in Watcher, PackageSetChanged(p)
      PROVE  Rest' /\ plan' = [plan EXCEPT ![p] = PlanOfActiveSessions]
  BY <1>2, <1>7, <1>3b DEF PackageSetChanged, Goto, MeetsOthers
<1>8. ASSUME NEW p \in Producer, ScheduleOne(p)
      PROVE  Rest' /\ \E r \in plan[p] : plan' = [plan EXCEPT ![p] = @ \ {r}]
  BY <1>2, <1>8 DEF ScheduleOne
<1>9. ASSUME NEW p \in Producer, DoneScheduling(p)
      PROVE  Rest' /\ plan' = plan
  BY <1>2, <1>9, <1>3b DEF DoneScheduling, Goto
<1>10. ASSUME NEW p \in Reloader, BeginWait(p)
       PROVE  Rest' /\ plan' = plan
  BY <1>2, <1>10, <1>3b DEF BeginWait, Goto
<1>11. ASSUME NEW p \in Reloader, WaitFindsIdle(p) \/ Acknowledge(p) \/ WaitFails(p)
       PROVE  Rest' /\ plan' = plan
  BY <1>2, <1>11, <1>3b DEF WaitFindsIdle, Acknowledge, WaitFails, Goto
<1>12. ASSUME WorkerTakes \/ \E success \in BOOLEAN : WorkerCompletes(success)
       PROVE  Rest' /\ plan' = plan
  BY <1>2, <1>12 DEF WorkerTakes, WorkerCompletes
<1>13. ASSUME NEW se \in Session,
              SessionStep(se) \/ SessionDrained(se) \/ \E kind \in FuseKinds : RequestStep(kind, se)
       PROVE  Rest' /\ plan' = plan
  BY <1>2, <1>13 DEF SessionStep, SessionDrained, RequestStep, local
<1>14. ASSUME NEW p \in Producer, LeaveBackpressure(p)
       PROVE  Rest' /\ plan' = plan
  BY <1>2, <1>14 DEF LeaveBackpressure, local
<1>15. ASSUME UNCHANGED allVars
       PROVE  Rest' /\ plan' = plan
  BY <1>2, <1>15 DEF allVars, local
<1> HIDE DEF Rest, Plans
<1>16. Rest'
  BY <1>4, <1>5, <1>6, <1>7, <1>8, <1>9, <1>10, <1>11, <1>12, <1>13, <1>14, <1>15
     DEF PublicationNext
<1>17. \/ plan' = plan
       \/ \E p \in Producer : plan' = [plan EXCEPT ![p] = PlanOfActiveSessions]
       \/ \E p \in Producer : \E r \in plan[p] : plan' = [plan EXCEPT ![p] = @ \ {r}]
  BY <1>2, <1>4, <1>5, <1>6, <1>7, <1>8, <1>9, <1>10, <1>11, <1>12, <1>13, <1>14, <1>15
     DEF PublicationNext
<1>18. Plans'
  <2> USE DEF Plans
  <2> HIDE DEF Request
  <2>1. CASE plan' = plan
    BY <1>p, <2>1 DEF ObjectsOf
  <2>2. ASSUME NEW p \in Producer, plan' = [plan EXCEPT ![p] = PlanOfActiveSessions]
        PROVE  Plans'
    BY <1>p, <1>3, <2>2 DEF ObjectsOf
  <2>3. ASSUME NEW p \in Producer, NEW r \in plan[p], plan' = [plan EXCEPT ![p] = @ \ {r}]
        PROVE  Plans'
    BY <1>p, <2>3 DEF ObjectsOf
  <2> QED BY <1>17, <2>1, <2>2, <2>3
<1> QED BY <1>1, <1>16, <1>18
        DEF PublicationTyped, PublicationTypeOK, Typed, PlansAreRequests, Request, Rest, Plans

LEMMA PublicationTypedInit == PublicationInit => PublicationTyped
<1> SUFFICES ASSUME PublicationInit
             PROVE  PublicationTyped
  OBVIOUS
<1>1. Typed
  BY TypedInit DEF PublicationInit
<1>2. /\ pc \in [Producer -> Step] /\ plan \in [Producer -> SUBSET Request]
      /\ awaited \in [Reloader -> Nat] /\ stale \in [Session -> SUBSET Target]
  BY DEF PublicationInit, Step
<1> QED BY <1>1, <1>2
        DEF PublicationInit, PublicationTyped, PublicationTypeOK, PlansAreRequests, Typed, Request

\* Every reachable state of the composition is typed, however many reloads and
\* package changes there are.
THEOREM PublicationIsTyped == PublicationSpec => []PublicationTypeOK
<1>1. PublicationTyped => PublicationTypeOK
  BY DEF PublicationTyped
<1>2. PublicationTyped /\ [PublicationNext]_allVars => PublicationTyped'
  BY PublicationTypedNext
<1> QED BY <1>1, <1>2, PublicationTypedInit, PTL DEF PublicationSpec

\* Nothing the publishers do breaks what the scheduler keeps by itself.
LEMMA PublicationKeepsScheduled ==
    ASSUME PublicationTyped, Scheduled, [PublicationNext]_allVars
    PROVE  Scheduled'
  BY PublicationSteps, ScheduledNext

-----------------------------------------------------------------------------
(***************************************************************************)
(* One publication at a time: who may hold a plan, who may wait for room   *)
(* and for which epoch, and what "overlap" remembers.                      *)
(***************************************************************************)
Alone ==
    ~overlap => \A p, q \in Producer : pc[p] # "idle" /\ pc[q] # "idle" => p = q

PublishersApart ==
    /\ \A p, q \in Reloader : Applying(p) /\ Applying(q) => p = q
    /\ \A p \in Producer : pc[p] # "scheduling" => plan[p] = {} /\ blocked[p] = {}
    /\ \A p \in Producer : \A t, u \in blocked[p] : t = u
    /\ \A p \in Reloader : Applying(p) => \A t \in blocked[p] : t.epoch = currentConfigEpoch
    /\ \A p \in Reloader : pc[p] # "idle" => currentConfigEpoch # 0
    /\ Alone

LEMMA PublishersApartNext ==
    ASSUME PublicationTyped, PublishersApart, [PublicationNext]_allVars
    PROVE  PublishersApart'
<1>t. /\ pc \in [Producer -> Step] /\ plan \in [Producer -> SUBSET Request]
      /\ blocked \in [Producer -> SUBSET TasksOfKind("Inode")] 
      /\ currentConfigEpoch \in Nat /\ overlap \in BOOLEAN
      /\ Reloader \subseteq Producer /\ Watcher \subseteq Producer /\ Reloader \cap Watcher = {}
  BY PublicationAssumption DEF PublicationTyped, PublicationTypeOK, TypeOK, Request
<1> USE DEF PublishersApart, Alone, Applying
<1>1. CASE UNCHANGED <<pc, plan, blocked, currentConfigEpoch, overlap>>
  BY <1>1
<1>2. ASSUME NEW p \in Reloader, BeginApply(p)
      PROVE  PublishersApart'
  <2>1. /\ pc[p] = "idle" /\ pc' = [pc EXCEPT ![p] = "begun"]
        /\ currentConfigEpoch' = currentConfigEpoch + 1
        /\ UNCHANGED <<plan, blocked>>
        /\ \A q \in Reloader : ~Applying(q)
        /\ overlap' = (overlap \/ \E q \in Producer \ {p} : pc[q] # "idle")
    BY <1>2 DEF BeginApply, Goto, BeginHideInvalidationBatch, MeetsOthers
  <2>2. blocked[p] = {} /\ plan[p] = {}
    BY <1>t, <2>1
  <2>3. \A q \in Producer \ {p} : pc'[q] = pc[q]
    BY <1>t, <2>1
  <2>4. pc'[p] = "begun" /\ currentConfigEpoch' # 0
    BY <1>t, <2>1
  <2>5. Alone'
    BY <2>1, <2>3, <2>4
  <2> QED BY <1>t, <2>1, <2>2, <2>3, <2>4, <2>5
<1>3. ASSUME NEW p \in Reloader, PublishConfig(p)
      PROVE  PublishersApart'
  BY <1>t, <1>3 DEF PublishConfig, Goto, vars
<1>4. ASSUME NEW p \in Reloader, SnapshotForConfig(p)
      PROVE  PublishersApart'
  BY <1>t, <1>4 DEF SnapshotForConfig, Goto, vars
<1>5. ASSUME NEW p \in Watcher, PackageSetChanged(p)
      PROVE  PublishersApart'
  BY <1>t, <1>5 DEF PackageSetChanged, Goto, MeetsOthers, vars
<1>6. ASSUME NEW p \in Producer, ScheduleOne(p)
      PROVE  PublishersApart'
  <2>1. PICK r \in plan[p] : /\ \/ QueueInvalidation(r.kind, r.token, r.obj, TRUE)
                                \/ /\ r.kind = "Inode"
                                   /\ Backpressured(p, r.token, r.obj)
                             /\ plan' = [plan EXCEPT ![p] = @ \ {r}]
    BY <1>6 DEF ScheduleOne
  <2>2. pc[p] = "scheduling" /\ UNCHANGED <<pc, overlap, currentConfigEpoch>>
    BY <1>6, <2>1 DEF ScheduleOne, QueueInvalidation, Backpressured
  <2>3. \/ blocked' = blocked
        \/ \E t : t.epoch = currentConfigEpoch /\ blocked' = [blocked EXCEPT ![p] = {t}]
    BY <2>1 DEF QueueInvalidation, Backpressured, TaskFor
  <2>4. \A q \in Producer : plan'[q] \subseteq plan[q]
    BY <1>t, <2>1
  <2>5. CASE blocked' = blocked
    BY <1>t, <2>2, <2>4, <2>5
  <2>6. ASSUME NEW t, t.epoch = currentConfigEpoch, blocked' = [blocked EXCEPT ![p] = {t}]
        PROVE  PublishersApart'
    BY <1>t, <2>2, <2>4, <2>6
  <2> QED BY <2>3, <2>5, <2>6
<1>7. ASSUME NEW p \in Producer, LeaveBackpressure(p)
      PROVE  PublishersApart'
  <2>1. blocked' = [blocked EXCEPT ![p] = {}] /\ UNCHANGED <<pc, plan, overlap, currentConfigEpoch>>
    BY <1>7 DEF LeaveBackpressure, Admit, GiveUp, local
  <2> QED BY <1>t, <2>1
<1>8. ASSUME NEW p \in Producer, DoneScheduling(p)
      PROVE  PublishersApart'
  BY <1>t, <1>8 DEF DoneScheduling, Goto, vars
<1>9. ASSUME NEW p \in Reloader, BeginWait(p) \/ WaitFindsIdle(p) \/ Acknowledge(p) \/ WaitFails(p)
      PROVE  PublishersApart'
  <2>1. \E from \in {"applied", "waiting", "checking"}, to \in {"waiting", "checking", "idle"} :
           Goto(p, from, to)
    BY <1>9 DEF BeginWait, WaitFindsIdle, Acknowledge, WaitFails
  <2>2. UNCHANGED <<plan, blocked, currentConfigEpoch, overlap>>
    BY <1>9 DEF BeginWait, WaitFindsIdle, Acknowledge, WaitFails, vars
  <2> QED BY <1>t, <2>1, <2>2 DEF Goto
<1>10. ASSUME \/ WorkerTakes \/ \E success \in BOOLEAN : WorkerCompletes(success)
              \/ \E se \in Session :
                    \/ SessionStep(se) \/ SessionDrained(se)
                    \/ \E kind \in FuseKinds : RequestStep(kind, se)
              \/ UNCHANGED allVars
       PROVE  UNCHANGED <<pc, plan, blocked, currentConfigEpoch, overlap>>
  BY <1>10 DEF WorkerTakes, Take, TakePending, TakeOverflowInode, TakeOverflowParent,
               WorkerCompletes, CompleteTask, SessionStep, RegisterSession, Retire,
               FinishFuseSessionDestroy, SessionDrained, Drained, RequestStep, FuseRequest,
               QueueInvalidation, local, allVars, vars
<1> QED BY <1>1, <1>2, <1>3, <1>4, <1>5, <1>6, <1>7, <1>8, <1>9, <1>10 DEF PublicationNext

LEMMA PublishersApartInit == PublicationInit => PublishersApart
  BY PublicationAssumption DEF PublicationInit, Init, PublishersApart, Alone, Applying

\* Two ApplyHideConfig calls never schedule at the same time, for any number of
\* reloads and package changes: a publisher that is still queueing, or waiting
\* for room, does so for the epoch that is current.
THEOREM PublishersScheduleOwnEpoch == PublicationSpec => []SchedulesOwnEpochOnly
<1> DEFINE Inv == PublicationTyped /\ Scheduled /\ PublishersApart
<1>1. PublicationInit => Inv
  BY PublicationTypedInit, ScheduledInit, PublishersApartInit DEF PublicationInit
<1>2. Inv /\ [PublicationNext]_allVars => Inv'
  BY PublicationTypedNext, PublicationKeepsScheduled, PublishersApartNext
<1>3. Inv => SchedulesOwnEpochOnly
  BY DEF SchedulesOwnEpochOnly, PublishersApart, Scheduled, Owing, EpochsAreKnown
<1> QED BY <1>1, <1>2, <1>3, PTL DEF PublicationSpec

-----------------------------------------------------------------------------
(***************************************************************************)
(* What becomes of a request: it has a task, the session's sweep is to be  *)
(* repeated for it, or the batch is spoiled.                               *)
(***************************************************************************)
Spoiled(b) == b.rejected # 0 \/ b.failed # 0

\* A spoiled batch stays spoiled; a rejection or a failure spoils it.
LEMMA SpoiledForGood ==
    ASSUME NEW b \in Batch, NEW n \in Nat, NEW success \in BOOLEAN
    PROVE  /\ Spoiled(b) => /\ Spoiled(Accept(b)) /\ Spoiled(RejectOne(b))
                            /\ Spoiled(FinishMany(b, n)) /\ Spoiled(Finish(b, success))
           /\ Spoiled(RejectOne(b)) /\ Spoiled(Finish(b, FALSE))
<1>0. b.rejected \in Nat /\ b.failed \in Nat /\ b.outstanding \in Nat
  BY DEF Batch
<1>1. Accept(b).rejected = b.rejected /\ Accept(b).failed = b.failed
  <2> DEFINE c == [b EXCEPT !.submitted = @ + 1]
  <2>1. c \in Batch /\ c.rejected = b.rejected /\ c.failed = b.failed
    BY DEF Batch
  <2>2. Accept(b) = [c EXCEPT !.outstanding = @ + 1]
    BY DEF Accept, Batch
  <2> HIDE DEF c
  <2> QED BY <2>1, <2>2 DEF Batch
<1>2. RejectOne(b).rejected = b.rejected + 1 /\ RejectOne(b).failed = b.failed
  BY DEF RejectOne, Batch
<1>3. ASSUME NEW m \in Nat
      PROVE  /\ FinishMany(b, m).rejected = b.rejected
             /\ FinishMany(b, m).failed \in Nat /\ FinishMany(b, m).failed >= b.failed
             /\ m > b.outstanding => FinishMany(b, m).failed >= b.failed + (m - b.outstanding)
  <2> DEFINE done == IF m <= b.outstanding THEN m ELSE b.outstanding
             c == [b EXCEPT !.outstanding = @ - done]
             d == [c EXCEPT !.completed = @ + done]
  <2>1. done \in Nat /\ done <= b.outstanding /\ done <= m
    BY <1>0
  <2>2. FinishMany(b, m) = [d EXCEPT !.failed = @ + (m - done)]
    BY DEF FinishMany, Batch
  <2>3. m > b.outstanding => done = b.outstanding
    BY <1>0
  <2> HIDE DEF done
  <2>4. c \in Batch /\ c.rejected = b.rejected /\ c.failed = b.failed
    BY <1>0, <2>1 DEF Batch
  <2> HIDE DEF c
  <2>5. d \in Batch /\ d.rejected = b.rejected /\ d.failed = b.failed
    BY <2>1, <2>4 DEF Batch
  <2> HIDE DEF d
  <2>6. FinishMany(b, m).rejected = b.rejected /\ FinishMany(b, m).failed = b.failed + (m - done)
    BY <2>2, <2>5 DEF Batch
  <2> QED BY <1>0, <2>1, <2>3, <2>6
<1>4. Spoiled(b) => Spoiled(FinishMany(b, n)) /\ Spoiled(FinishMany(b, 1))
  <2>1. \A m \in Nat : /\ FinishMany(b, m).rejected = b.rejected
                       /\ FinishMany(b, m).failed \in Nat
                       /\ FinishMany(b, m).failed >= b.failed
    BY <1>3
  <2>2. \A m \in Nat : Spoiled(b) => FinishMany(b, m).failed > 0 \/ FinishMany(b, m).rejected # 0
    BY <1>0, <2>1 DEF Spoiled
  <2> QED BY <2>2 DEF Spoiled
<1>5. b.outstanding = 0 => Spoiled(FinishMany(b, 1))
  <2>1. b.outstanding = 0 => FinishMany(b, 1).failed >= b.failed + 1
    BY <1>3
  <2> QED BY <1>0, <2>1 DEF Spoiled
<1>6. ASSUME b.outstanding # 0
      PROVE  Spoiled(Finish(b, FALSE))
  <2> DEFINE c == [b EXCEPT !.outstanding = @ - 1]
  <2>1. c \in Batch /\ c.failed = b.failed
    BY <1>0, <1>6 DEF Batch
  <2>2. Finish(b, FALSE) = [c EXCEPT !.failed = @ + 1]
    BY <1>6 DEF Finish, Batch
  <2> HIDE DEF c
  <2> DEFINE d == [c EXCEPT !.failed = @ + 1]
  <2>3. d.failed # 0
    BY <1>0, <2>1 DEF Batch
  <2> HIDE DEF d
  <2>4. Spoiled(d)
    BY <2>3 DEF Spoiled
  <2> QED BY <2>2, <2>4, Zenon DEF d
<1>7. Spoiled(Finish(b, FALSE))
  <2>1. CASE b.outstanding = 0
    <3>1. Finish(b, FALSE) = FinishMany(b, 1)
      BY <2>1 DEF Finish
    <3> QED BY <1>5, <2>1, <3>1
  <2> QED BY <1>6, <2>1
<1>8. Spoiled(b) => Spoiled(Finish(b, success))
  <2>1. CASE success = FALSE
    BY <1>7, <2>1
  <2>2. CASE success = TRUE
    <3>1. Finish(b, TRUE) = FinishMany(b, 1)
      BY DEF Finish
    <3> QED BY <1>4, <2>2, <3>1
  <2> QED BY <2>1, <2>2
<1>9. Spoiled(RejectOne(b))
  BY <1>0, <1>2 DEF Spoiled
<1> QED BY <1>1, <1>4, <1>7, <1>8, <1>9 DEF Spoiled

\* A request loses no task, sets no flag back and spoils no batch; a publisher's
\* request for a live session leaves a task, a replay or a spoiled batch.
LEMMA RequestLeavesTrace ==
    ASSUME Typed, Owing,
           NEW kind \in {"Root", "Entry", "Inode"}, NEW se \in Session,
           NEW obj \in ObjectsOf(kind), NEW configReload \in BOOLEAN,
           QueueInvalidation(kind, CurrentToken(se), obj, configReload),
           NEW t, t = TaskFor(kind, CurrentToken(se), obj, configReload)
    PROVE  /\ Queued \subseteq Queued'
           /\ Queued' \subseteq Queued \cup {t} \cup {SweepOf(u) : u \in {v \in {t} : v.kind = "Entry"}}
           /\ Spoiled(batch) => Spoiled(batch')
           /\ \A s \in Session : sessions[s].rootNeedsReplay =>
                 /\ sessions'[s].rootNeedsReplay
                 /\ \/ sessions'[s].rootReplayEpoch = sessions[s].rootReplayEpoch
                    \/ configReload /\ sessions'[s].rootReplayEpoch = currentConfigEpoch
           /\ \A s \in Session : ~configReload =>
                 /\ sessions'[s].rootNeedsReplay = sessions[s].rootNeedsReplay
                 /\ sessions'[s].rootReplayEpoch = sessions[s].rootReplayEpoch
           /\ Alive(se, sessions[se].generation) /\ kind # "Entry" /\ configReload =>
                 \/ t \in Queued' \cup running'
                 \/ /\ kind = "Root" /\ sessions'[se].rootNeedsReplay
                    /\ sessions'[se].rootReplayEpoch = currentConfigEpoch
                 \/ currentConfigEpoch # 0 => Spoiled(batch')
<1> DEFINE Kept == /\ Queued \subseteq Queued'
                   /\ Queued' \subseteq Queued \cup {t}
                                        \cup {SweepOf(u) : u \in {v \in {t} : v.kind = "Entry"}}
                   /\ Spoiled(batch) => Spoiled(batch')
           Flags == /\ \A s \in Session : sessions[s].rootNeedsReplay =>
                          /\ sessions'[s].rootNeedsReplay
                          /\ \/ sessions'[s].rootReplayEpoch = sessions[s].rootReplayEpoch
                             \/ configReload /\ sessions'[s].rootReplayEpoch = currentConfigEpoch
                    /\ \A s \in Session : ~configReload =>
                          /\ sessions'[s].rootNeedsReplay = sessions[s].rootNeedsReplay
                          /\ sessions'[s].rootReplayEpoch = sessions[s].rootReplayEpoch
           Traced == \/ t \in Queued' \cup running'
                     \/ /\ kind = "Root" /\ sessions'[se].rootNeedsReplay
                        /\ sessions'[se].rootReplayEpoch = currentConfigEpoch
                     \/ currentConfigEpoch # 0 => Spoiled(batch')
<1>1. /\ t \in Task /\ t.kind = kind /\ t.se = se
      /\ t.epoch = IF configReload THEN currentConfigEpoch ELSE 0
  BY TaskForType DEF Typed
<1>2. /\ CurrentToken(se).se = se /\ CurrentToken(se).gen = sessions[se].generation
      /\ sessions \in [Session -> SessionState]
      /\ batch \in Batch /\ currentConfigEpoch \in Nat /\ batch.epoch = currentConfigEpoch
      /\ running' = running
  BY DEF CurrentToken, Typed, TypeOK, QueueInvalidation, Owing, EpochsAreKnown
<1>3. /\ \A u : AcceptTask(u) => (Spoiled(batch) => Spoiled(batch'))
      /\ \A u : RejectTask(u) => (Spoiled(batch) => Spoiled(batch'))
      /\ \A u : RejectTask(u) /\ Counted(u) => Spoiled(batch')
  BY <1>2, SpoiledForGood DEF AcceptTask, RejectTask
<1>4. ASSUME UNCHANGED <<sessions, pending, overflowParents, overflowInodes, batch>>
      PROVE  Kept /\ Flags
  BY <1>4 DEF Queued
<1>5. ASSUME AbsorbRoot(se, configReload)
      PROVE  Kept /\ Flags /\ (configReload => /\ sessions'[se].rootNeedsReplay
                                               /\ sessions'[se].rootReplayEpoch = currentConfigEpoch)
  <2> DEFINE half == [sessions EXCEPT ![se].rootNeedsReplay = TRUE]
  <2>1. /\ half \in [Session -> SessionState]
        /\ half[se].rootNeedsReplay
        /\ \A s \in Session \ {se} : half[s] = sessions[s]
    BY <1>2 DEF SessionState
  <2>2. IF configReload THEN sessions' = [half EXCEPT ![se].rootReplayEpoch = currentConfigEpoch]
                        ELSE sessions' = sessions
    BY <1>2, <1>5 DEF AbsorbRoot, SessionState
  <2> HIDE DEF half
  <2>3. configReload => /\ sessions'[se].rootNeedsReplay
                        /\ sessions'[se].rootReplayEpoch = currentConfigEpoch
                        /\ \A s \in Session \ {se} : sessions'[s] = sessions[s]
    BY <1>2, <2>1, <2>2 DEF SessionState
  <2>4. Kept
    BY <1>5 DEF AbsorbRoot, Queued
  <2> QED BY <2>2, <2>3, <2>4
<1>6. ASSUME NEW evicted \in SUBSET pending, AdmitToQueue(t, evicted)
      PROVE  Kept /\ Flags /\ t \in Queued'
  <2>1. Kept /\ t \in Queued'
    BY <1>3, <1>6 DEF AdmitToQueue, Queued
  <2>2. Flags
    BY <1>1, <1>2, <1>6 DEF AdmitToQueue, SessionState
  <2> QED BY <2>1, <2>2
<1>7. ASSUME AdmitNewTask(t, configReload)
      PROVE  Kept /\ Flags /\ (kind # "Entry" /\ configReload => Traced)
  <2>1. \A u \in Evictable(t) : {u} \in SUBSET pending
    BY DEF Evictable
  <2>2. CASE /\ AdmissionOf(t, configReload) = "CoalescedParent"
             /\ UNCHANGED <<sessions, pending, overflowParents, overflowInodes, batch>>
    <3>1. t.kind = "Entry"
      BY <2>2 DEF AdmissionOf, DecideInvalidationAdmission
    <3> QED BY <1>1, <2>2, <3>1 DEF Queued
  <2>3. CASE /\ AdmissionOf(t, configReload) = "NewParentSweep"
             /\ overflowParents' = overflowParents \cup {SweepOf(t)}
             /\ AcceptTask(SweepOf(t))
             /\ UNCHANGED <<sessions, pending, overflowInodes>>
    <3>1. t.kind = "Entry"
      BY <1>1, <2>3, AdmissionFacts
    <3>2. Queued' = Queued \cup {SweepOf(t)}
      BY <2>3 DEF Queued
    <3> QED BY <1>1, <1>3, <2>3, <3>1, <3>2
  <2>4. CASE /\ overflowInodes' = overflowInodes \cup {t}
             /\ AcceptTask(t)
             /\ UNCHANGED <<sessions, pending, overflowParents>>
    BY <1>3, <2>4 DEF Queued
  <2>5. CASE /\ RejectTask(t)
             /\ UNCHANGED <<sessions, pending, overflowParents, overflowInodes>>
    <3>1. configReload /\ currentConfigEpoch # 0 => Counted(t)
      BY <1>1, <1>2 DEF Counted
    <3> QED BY <1>3, <2>5, <3>1 DEF Queued
  <2> QED BY <1>6, <1>7, <2>1, <2>2, <2>3, <2>4, <2>5 DEF AdmitNewTask
<1>8. Kept /\ Flags
  BY <1>2, <1>4, <1>5, <1>7 DEF QueueInvalidation
<1>9. ASSUME Alive(se, sessions[se].generation), kind # "Entry", configReload
      PROVE  Traced
  <2>1. CASE kind = "Root" /\ sessions[se].rootPending
    BY <1>2, <1>5, <1>9, <2>1 DEF QueueInvalidation
  <2>2. CASE Duplicate(t)
    BY <1>8, <1>2, <2>2 DEF Duplicate, Queued
  <2>3. CASE ~(kind = "Root" /\ sessions[se].rootPending) /\ ~Duplicate(t)
    BY <1>2, <1>7, <1>9, <2>3 DEF QueueInvalidation
  <2> QED BY <2>1, <2>2, <2>3
<1> QED BY <1>8, <1>9

\* The active sessions are those of before, under the same generation, and a new one.
LEMMA ActiveMoves ==
    ASSUME Typed, [SchedulerNext]_vars, NEW se \in ActiveSessions'
    PROVE  \/ se \in ActiveSessions /\ sessions'[se].generation = sessions[se].generation
           \/ ~Registered(se)
<1> USE DEF ActiveSessions, Registered
<1>t. sessions \in [Session -> SessionState] /\ se \in Session
  BY DEF Typed, TypeOK
<1>1. CASE sessions' = sessions
  BY <1>1
<1>2. ASSUME NEW s \in Session, RegisterSession(s) \/ FinishFuseSessionDestroy(s)
      PROVE  \/ se \in ActiveSessions /\ sessions'[se].generation = sessions[se].generation
             \/ ~Registered(se)
  BY <1>t, <1>2 DEF RegisterSession, FinishFuseSessionDestroy, NoSession, NewSession
<1>3. ASSUME NEW s \in Session, Retire(s)
      PROVE  se \in ActiveSessions /\ sessions'[se].generation = sessions[se].generation
  <2>1. Retired(sessions[s]).retiring
    BY DEF Retired, NewSession
  <2> QED BY <1>t, <1>3, <2>1 DEF Retire
<1>4. ASSUME NEW kind \in {"Root", "Entry", "Inode"}, NEW s \in Session,
             NEW obj \in ObjectsOf(kind), NEW configReload \in BOOLEAN,
             QueueInvalidation(kind, CurrentToken(s), obj, configReload)
      PROVE  se \in ActiveSessions /\ sessions'[se].generation = sessions[se].generation
  BY <1>t, <1>4, QueueInvalidationSessions
<1>5. ASSUME NEW success \in BOOLEAN, CompleteTask(success)
      PROVE  se \in ActiveSessions /\ sessions'[se].generation = sessions[se].generation
  <2>1. PICK t \in running : CompleteTask(success)!(t)
    BY <1>5 DEF CompleteTask
  <2>2. t.se \in Session
    BY DEF Typed, TypeOK, Task
  <2>3. CASE sessions' = [sessions EXCEPT ![t.se].rootNeedsReplay = FALSE,
                                          ![t.se].rootReplayEpoch = 0]
    <3> DEFINE half == [sessions EXCEPT ![t.se].rootNeedsReplay = FALSE]
    <3>1. /\ half \in [Session -> SessionState]
          /\ \A s \in Session : /\ half[s].generation = sessions[s].generation
                                /\ half[s].retiring = sessions[s].retiring
      BY <1>t, <2>2 DEF SessionState
    <3>2. sessions' = [half EXCEPT ![t.se].rootReplayEpoch = 0]
      BY <1>t, <2>2, <2>3 DEF SessionState
    <3> HIDE DEF half
    <3> QED BY <1>t, <2>2, <3>1, <3>2 DEF SessionState
  <2>4. CASE \/ sessions' = [sessions EXCEPT ![t.se].rootPending = FALSE]
             \/ sessions' = sessions
    BY <1>t, <2>2, <2>4 DEF SessionState
  <2> QED BY <2>1, <2>3, <2>4
<1>6. ASSUME NEW s \in Session, \/ Drained(s)
                                \/ \E r \in Prober : BeginProbes(r) \/ EndProbe(r)
                                \/ \E p \in Producer : Admit(p) \/ GiveUp(p)
                                \/ BeginHideInvalidationBatch \/ Take
      PROVE  sessions' = sessions
  BY <1>6 DEF Drained, BeginProbes, EndProbe, Admit, GiveUp, BeginHideInvalidationBatch,
              Take, TakePending, TakeOverflowInode, TakeOverflowParent
<1>7. CASE UNCHANGED vars
  BY <1>1, <1>7 DEF vars
<1>8. ASSUME NEW s \in Session, NEW p \in Producer, NEW kind \in ConfigKinds,
             PublisherRequest(p, kind, s)
      PROVE  se \in ActiveSessions /\ sessions'[se].generation = sessions[se].generation
  BY <1>4, <1>8 DEF PublisherRequest, Backpressured, ConfigKinds
<1>9. ASSUME NEW s \in Session, NEW kind \in FuseKinds, FuseRequest(kind, s)
      PROVE  se \in ActiveSessions /\ sessions'[se].generation = sessions[se].generation
  BY <1>4, <1>9, SchedulerAssumption DEF FuseRequest
<1> QED BY <1>1, <1>t, <1>2, <1>3, <1>5, <1>6, <1>7, <1>8, <1>9 DEF SchedulerNext

\* The worker loses no task of a live session when it takes one.
LEMMA TakeKeeps ==
    ASSUME Typed, Take
    PROVE  /\ Queued' \subseteq Queued /\ running' \subseteq Queued
           /\ \A t \in Queued \cup running : Alive(t.se, t.gen) => t \in Queued' \cup running'
           /\ Spoiled(batch) => Spoiled(batch')
           /\ UNCHANGED <<sessions, currentConfigEpoch, blocked>>
<1>1. batch \in Batch
  BY DEF Typed, TypeOK
<1>2. \A t : /\ FinishTask(t, TRUE) => (Spoiled(batch) => Spoiled(batch'))
             /\ Start(t) => (Spoiled(batch) => Spoiled(batch'))
  BY <1>1, SpoiledForGood DEF FinishTask, Start
<1>3. PICK t \in Queued : TakePending(t) \/ TakeOverflowInode(t) \/ TakeOverflowParent(t)
  BY DEF Take, Queued
<1>4. running = {} /\ Start(t) /\ UNCHANGED <<sessions, currentConfigEpoch, blocked>>
  BY <1>3 DEF TakePending, TakeOverflowInode, TakeOverflowParent
<1>5. Queued' \subseteq Queued /\ Queued \subseteq Queued' \cup {t}
  BY <1>3 DEF TakePending, TakeOverflowInode, TakeOverflowParent, Queued
<1>6. running' \subseteq {t} /\ (Alive(t.se, t.gen) => running' = {t})
  BY <1>4 DEF Start
<1> QED BY <1>2, <1>3, <1>4, <1>5, <1>6

\* What is finished was running; a replay that was promised is queued.
LEMMA CompleteKeeps ==
    ASSUME Typed, NEW success \in BOOLEAN, CompleteTask(success), NEW t \in running
    PROVE  /\ running' = {} /\ UNCHANGED <<currentConfigEpoch, blocked>>
           /\ Queued \subseteq Queued' /\ Queued' \subseteq Queued \cup {ReplayOf(t)}
           /\ ReplayOf(t) \in Queued' \/ ~NeedsReplay(t)
           /\ NeedsReplay(t) \/ Queued' = Queued
           /\ Spoiled(batch) => Spoiled(batch')
           /\ Counted(t) /\ ~success => Spoiled(batch')
           /\ \A s \in Session :
                 /\ sessions'[s].rootNeedsReplay => sessions[s].rootNeedsReplay
                 /\ sessions'[s].rootNeedsReplay
                       => sessions'[s].rootReplayEpoch = sessions[s].rootReplayEpoch
                 /\ sessions[s].rootNeedsReplay
                       => \/ s = t.se /\ NeedsReplay(t)
                          \/ /\ sessions'[s].rootNeedsReplay
                             /\ sessions'[s].rootReplayEpoch = sessions[s].rootReplayEpoch
<1> DEFINE finished == IF Counted(t) THEN Finish(batch, success) ELSE batch
<1>1. /\ CompleteTask(success)!(t) /\ t.se \in Session
      /\ sessions \in [Session -> SessionState]
  BY DEF CompleteTask, Typed, TypeOK, Task
<1>2. /\ finished \in Batch
      /\ Spoiled(batch) => Spoiled(finished)
      /\ Counted(t) /\ ~success => Spoiled(finished)
  <2>1. Finish(batch, success) \in Batch /\ batch \in Batch
    BY BatchOperations DEF Typed, TypeOK
  <2>2. /\ Spoiled(batch) => Spoiled(Finish(batch, success))
        /\ Spoiled(Finish(batch, FALSE))
    BY <2>1, SpoiledForGood
  <2>3. success = FALSE => Spoiled(Finish(batch, success))
    BY <2>2
  <2> QED BY <2>1, <2>2, <2>3
<1>3. Spoiled(finished) => Spoiled(Accept(finished))
  BY <1>2, SpoiledForGood
<1>4. batch' = finished \/ batch' = Accept(finished)
  BY <1>1
<1> HIDE DEF finished
<1>5. /\ Spoiled(batch) => Spoiled(batch')
      /\ Counted(t) /\ ~success => Spoiled(batch')
  BY <1>2, <1>3, <1>4
<1>6. CASE NeedsReplay(t)
  <2> DEFINE half == [sessions EXCEPT ![t.se].rootNeedsReplay = FALSE]
  <2>1. /\ half \in [Session -> SessionState]
        /\ ~half[t.se].rootNeedsReplay
        /\ \A s \in Session \ {t.se} : half[s] = sessions[s]
    BY <1>1 DEF SessionState
  <2>2. sessions' = [half EXCEPT ![t.se].rootReplayEpoch = 0]
    BY <1>1, <1>6 DEF SessionState
  <2> HIDE DEF half
  <2>3. ~sessions'[t.se].rootNeedsReplay /\ \A s \in Session \ {t.se} : sessions'[s] = sessions[s]
    BY <1>1, <2>1, <2>2 DEF SessionState
  <2> QED BY <1>1, <1>5, <1>6, <2>3 DEF Queued
<1>7. CASE ~NeedsReplay(t)
  <2>1. \/ sessions' = [sessions EXCEPT ![t.se].rootPending = FALSE]
        \/ sessions' = sessions
    BY <1>1, <1>7
  <2>2. \A s \in Session : /\ sessions'[s].rootNeedsReplay = sessions[s].rootNeedsReplay
                           /\ sessions'[s].rootReplayEpoch = sessions[s].rootReplayEpoch
    BY <1>1, <2>1 DEF SessionState
  <2> QED BY <1>1, <1>5, <1>7, <2>2 DEF Queued
<1> QED BY <1>6, <1>7

\* A retirement loses no task but the session's own.
LEMMA RetireKeeps ==
    ASSUME Typed, NEW se \in Session, Retire(se)
    PROVE  /\ Queued' = Queued \ Of(se, Queued) /\ running' = running
           /\ Spoiled(batch) => Spoiled(batch')
           /\ UNCHANGED <<currentConfigEpoch, blocked>>
           /\ sessions' = [sessions EXCEPT ![se] = Retired(@)]
<1> DEFINE owed == Cardinality(CountedIn(Of(se, pending)))
                   + Cardinality(CountedIn(Of(se, overflowParents)))
                   + Cardinality(CountedIn(Of(se, overflowInodes)))
<1>1. owed \in Nat
  <2>1. \A S \in {pending, overflowParents, overflowInodes} :
           Cardinality(CountedIn(Of(se, S))) \in Nat
    <3> SUFFICES ASSUME NEW S \in {pending, overflowParents, overflowInodes}
                 PROVE  Cardinality(CountedIn(Of(se, S))) \in Nat
      OBVIOUS
    <3>1. IsFiniteSet(S) /\ CountedIn(Of(se, S)) \subseteq S
      BY DEF Typed, FiniteQueues, CountedIn, Of
    <3> QED BY <3>1, FS_Subset, FS_CardinalityType
  <2> QED BY <2>1
<1>2. batch' = FinishMany(batch, owed) /\ batch \in Batch
  BY DEF Retire, Typed, TypeOK
<1> HIDE DEF owed
<1>3. Spoiled(batch) => Spoiled(batch')
  BY <1>1, <1>2, SpoiledForGood
<1> QED BY <1>3 DEF Retire, Queued, Of

-----------------------------------------------------------------------------
(***************************************************************************)
(* The promise: while no two publications overlap, whatever the kernel     *)
(* still holds from before the last one is in some publisher's hands, in a *)
(* queue, promised a repeated sweep, or has spoiled the batch.             *)
(***************************************************************************)
Working(p) == pc[p] \in {"scheduling", "applied", "waiting"}

\* A root sweep is of the root.
SweepsAreOfRoots == \A t \in Queued \cup running : t.kind = "Root" => t.obj = "root"

\* The kernel holds nothing for an address without a connection.
GoneHoldNothing ==
    \A se \in Session : ~Registered(se) \/ destroy[se] = "destroying" => stale[se] = {}

\* Until it has published, nothing is done for the epoch it opened.
NothingYet ==
    \A p \in Reloader : ~overlap /\ pc[p] \in {"begun", "published"} =>
        /\ \A t \in Queued \cup running : t.epoch # currentConfigEpoch
        /\ \A se \in Session : sessions[se].rootNeedsReplay =>
              sessions[se].rootReplayEpoch # currentConfigEpoch

\* From then on, a notification of the current epoch started after it.
RunsFresh ==
    \A p \in Reloader : ~overlap /\ Working(p) =>
        \A t \in running : t.epoch = currentConfigEpoch => fresh = TRUE

Seeks(t, se, obj) ==
    /\ t.se = se /\ t.gen = sessions[se].generation
    /\ t.obj = obj /\ t.epoch = currentConfigEpoch

Carried(se, obj) ==
    \/ \E p \in Producer : \E r \in plan[p] : r.token = CurrentToken(se) /\ r.obj = obj
    \/ \E p \in Producer : \E t \in blocked[p] : Seeks(t, se, obj)
    \/ \E t \in Queued \cup running : Seeks(t, se, obj)
    \/ /\ obj = "root" /\ sessions[se].rootNeedsReplay
       /\ sessions[se].rootReplayEpoch = currentConfigEpoch
    \/ Spoiled(batch)

StaleIsCarried ==
    \A p \in Reloader : ~overlap /\ Working(p) =>
        \A se \in ActiveSessions : \A obj \in stale[se] : Carried(se, obj)

CheckedIsForgotten ==
    \A p \in Reloader : ~overlap /\ pc[p] = "checking" => Forgotten

\* How a reloader comes to be where it is, and what "overlap" keeps.
LEMMA PublisherMoves ==
    ASSUME PublicationTyped, PublishersApart, [PublicationNext]_allVars, NEW p \in Reloader
    PROVE  /\ Working(p)' => Working(p) \/ SnapshotForConfig(p)
           /\ pc'[p] \in {"begun", "published"} =>
                 pc[p] \in {"begun", "published"} \/ BeginApply(p)
           /\ pc'[p] = "checking" => pc[p] = "checking" \/ WaitFindsIdle(p)
           /\ overlap => overlap'
           /\ pc[p] # "idle" =>
                 /\ ~overlap' => \A q \in Producer : ~BeginApply(q) /\ ~PackageSetChanged(q)
                 /\ ~overlap => \A q \in Reloader : PublishConfig(q) => q = p
                 /\ ~overlap => \A q \in Reloader : SnapshotForConfig(q) => q = p
                 /\ ~overlap => \A q \in Producer : ScheduleOne(q) => q = p
                 /\ ~overlap => \A q \in Producer : LeaveBackpressure(q) => q = p
<1>t. /\ pc \in [Producer -> Step] /\ overlap \in BOOLEAN
      /\ Reloader \subseteq Producer /\ Watcher \subseteq Producer /\ Reloader \cap Watcher = {}
  BY PublicationAssumption DEF PublicationTyped, PublicationTypeOK
<1> USE DEF Working
<1>1. ASSUME NEW q \in Producer, BeginApply(q) \/ PackageSetChanged(q)
      PROVE  /\ pc[q] = "idle" /\ (pc[p] # "idle" => overlap')
             /\ overlap => overlap'
             /\ pc'[p] # pc[p] => q = p
             /\ PackageSetChanged(q) => pc' = [pc EXCEPT ![q] = "scheduling"]
             /\ BeginApply(q) => pc' = [pc EXCEPT ![q] = "begun"]
  BY <1>t, <1>1 DEF BeginApply, PackageSetChanged, Goto, MeetsOthers
<1>2. \A q \in Producer : LeaveBackpressure(q) => pc[q] = "scheduling" /\ UNCHANGED <<pc, overlap>>
  BY DEF LeaveBackpressure, Admit, GiveUp, PublishersApart, local
<1>3. \A q \in Producer : /\ ScheduleOne(q) => pc[q] = "scheduling" /\ UNCHANGED <<pc, overlap>>
                          /\ PublishConfig(q) => /\ pc[q] = "begun" /\ overlap' = overlap
                                                 /\ pc' = [pc EXCEPT ![q] = "published"]
                          /\ SnapshotForConfig(q) => /\ pc[q] = "published" /\ overlap' = overlap
                                                     /\ pc' = [pc EXCEPT ![q] = "scheduling"]
  BY DEF ScheduleOne, PublishConfig, SnapshotForConfig, Goto
<1>4. /\ pc[p] # "idle" =>
            /\ ~overlap' => \A q \in Producer : ~BeginApply(q) /\ ~PackageSetChanged(q)
            /\ ~overlap => \A q \in Reloader : PublishConfig(q) => q = p
            /\ ~overlap => \A q \in Reloader : SnapshotForConfig(q) => q = p
            /\ ~overlap => \A q \in Producer : ScheduleOne(q) => q = p
            /\ ~overlap => \A q \in Producer : LeaveBackpressure(q) => q = p
  BY <1>t, <1>1, <1>2, <1>3 DEF PublishersApart, Alone
<1> DEFINE Moves == /\ Working(p)' => Working(p) \/ SnapshotForConfig(p)
                    /\ pc'[p] \in {"begun", "published"} =>
                          pc[p] \in {"begun", "published"} \/ BeginApply(p)
                    /\ pc'[p] = "checking" => pc[p] = "checking" \/ WaitFindsIdle(p)
                    /\ overlap => overlap'
<1>5. ASSUME NEW q \in Reloader, BeginApply(q) \/ PublishConfig(q) \/ SnapshotForConfig(q)
      PROVE  Moves
  BY <1>t, <1>1, <1>3, <1>5
<1>6. ASSUME NEW q \in Watcher, PackageSetChanged(q)
      PROVE  Moves
  BY <1>t, <1>1, <1>6
<1>7. ASSUME NEW q \in Producer, ScheduleOne(q) \/ LeaveBackpressure(q)
      PROVE  Moves
  BY <1>t, <1>2, <1>3, <1>7
<1>8. ASSUME NEW q \in Producer, DoneScheduling(q)
      PROVE  Moves
  BY <1>t, <1>8 DEF DoneScheduling, Goto
<1>9. ASSUME NEW q \in Reloader, BeginWait(q) \/ WaitFindsIdle(q) \/ Acknowledge(q) \/ WaitFails(q)
      PROVE  Moves
  BY <1>t, <1>9 DEF BeginWait, WaitFindsIdle, Acknowledge, WaitFails, Goto
<1>10. ASSUME \/ WorkerTakes \/ \E success \in BOOLEAN : WorkerCompletes(success)
              \/ \E se \in Session :
                    \/ SessionStep(se) \/ SessionDrained(se)
                    \/ \E kind \in FuseKinds : RequestStep(kind, se)
              \/ UNCHANGED allVars
       PROVE  UNCHANGED <<pc, overlap>>
  BY <1>10 DEF WorkerTakes, WorkerCompletes, SessionStep, SessionDrained, RequestStep,
               local, allVars
<1>11. Moves
  BY <1>5, <1>6, <1>7, <1>8, <1>9, <1>10 DEF PublicationNext
<1> QED BY <1>4, <1>11

LEMMA SweepsAreOfRootsNext ==
    ASSUME Typed, Owing, SweepsAreOfRoots, [SchedulerNext]_vars
    PROVE  SweepsAreOfRoots'
<1> USE DEF SweepsAreOfRoots
<1>1. CASE UNCHANGED <<pending, overflowParents, overflowInodes, running>>
  BY <1>1 DEF Queued
<1>2. ASSUME NEW kind \in {"Root", "Entry", "Inode"}, NEW se \in Session,
             NEW obj \in ObjectsOf(kind), NEW configReload \in BOOLEAN,
             QueueInvalidation(kind, CurrentToken(se), obj, configReload)
      PROVE  SweepsAreOfRoots'
  <2> DEFINE t == TaskFor(kind, CurrentToken(se), obj, configReload)
  <2>1. /\ t.kind = kind /\ t.obj = obj /\ (kind = "Root" => obj = "root")
        /\ kind = "Entry" => SweepOf(t).kind = "Parent"
    BY TaskForType DEF TaskFor, ObjectsOf, Typed
  <2>2. running' = running
    BY <1>2 DEF QueueInvalidation
  <2> HIDE DEF t
  <2>3. Queued' \subseteq Queued \cup {t} \cup {SweepOf(u) : u \in {v \in {t} : v.kind = "Entry"}}
    BY <1>2, RequestLeavesTrace DEF t
  <2> QED BY <2>1, <2>2, <2>3
<1>3. ASSUME NEW success \in BOOLEAN, CompleteTask(success)
      PROVE  SweepsAreOfRoots'
  <2>1. PICK t \in running : TRUE
    BY <1>3 DEF CompleteTask
  <2>2. /\ running' = {} /\ Queued' \subseteq Queued \cup {ReplayOf(t)}
    BY <1>3, CompleteKeeps
  <2>3. ReplayOf(t).kind = t.kind /\ ReplayOf(t).obj = t.obj
    BY DEF ReplayOf, Typed, TypeOK, Task
  <2> QED BY <2>1, <2>2, <2>3
<1>4. CASE Take
  BY <1>4, TakeKeeps
<1>5. ASSUME NEW se \in Session, Retire(se)
      PROVE  SweepsAreOfRoots'
  BY <1>5, RetireKeeps
<1>6. ASSUME NEW p \in Producer, Admit(p) \/ GiveUp(p)
      PROVE  SweepsAreOfRoots'
  <2>1. \A t \in blocked[p] : t.kind = "Inode"
    BY DEF Typed, TypeOK, TasksOfKind
  <2>2. running' = running /\ Queued' \subseteq Queued \cup blocked[p]
    BY <1>6 DEF Admit, GiveUp, Queued
  <2> QED BY <2>1, <2>2
<1>7. ASSUME NEW se \in Session, NEW p \in Producer, NEW kind \in ConfigKinds,
             PublisherRequest(p, kind, se)
      PROVE  SweepsAreOfRoots'
  BY <1>1, <1>2, <1>7 DEF PublisherRequest, Backpressured, ConfigKinds
<1>8. ASSUME NEW se \in Session, NEW kind \in FuseKinds, FuseRequest(kind, se)
      PROVE  SweepsAreOfRoots'
  BY <1>2, <1>8, SchedulerAssumption DEF FuseRequest
<1> QED BY <1>1, <1>3, <1>4, <1>5, <1>6, <1>7, <1>8
        DEF SchedulerNext, RegisterSession, Drained, FinishFuseSessionDestroy, BeginProbes,
            EndProbe, BeginHideInvalidationBatch, vars

LEMMA GoneHoldNothingNext ==
    ASSUME PublicationTyped, Lifecycle, GoneHoldNothing, [PublicationNext]_allVars
    PROVE  GoneHoldNothing'
<1>t. /\ sessions \in [Session -> SessionState] /\ stale \in [Session -> SUBSET Target]
      /\ destroy \in [Session -> {"none", "draining", "destroying"}]
      /\ Typed /\ nextGeneration \in Nat
  BY DEF PublicationTyped, PublicationTypeOK, TypeOK, Typed
<1> USE DEF GoneHoldNothing, Registered
<1>1. ASSUME UNCHANGED destroy,
             \A se \in Session : sessions'[se].generation = sessions[se].generation,
             \A se \in Session : stale'[se] \subseteq stale[se]
      PROVE  GoneHoldNothing'
  BY <1>t, <1>1
<1>2. ASSUME NEW p \in Reloader, PublishConfig(p)
      PROVE  GoneHoldNothing'
  BY <1>t, <1>2 DEF PublishConfig, vars
<1>3. ASSUME NEW se \in Session, SessionDrained(se)
      PROVE  GoneHoldNothing'
  BY <1>t, <1>3 DEF SessionDrained, Drained
<1>4. ASSUME NEW se \in Session, SessionStep(se)
      PROVE  GoneHoldNothing'
  <2>1. CASE RegisterSession(se)
    BY <1>t, <1>4, <2>1 DEF SessionStep, RegisterSession, NewSession, local, Lifecycle,
                            SessionLifecycle
  <2>2. CASE Retire(se)
    <3>1. Retired(sessions[se]).generation = sessions[se].generation
      BY DEF Retired, NewSession
    <3> QED BY <1>t, <1>4, <2>2, <3>1 DEF SessionStep, Retire, local
  <2>3. CASE FinishFuseSessionDestroy(se)
    BY <1>t, <1>4, <2>3 DEF SessionStep, FinishFuseSessionDestroy, NoSession, NewSession, local
  <2> QED BY <1>4, <2>1, <2>2, <2>3 DEF SessionStep
<1>5. ASSUME NEW kind \in {"Root", "Entry", "Inode"}, NEW se \in Session,
             NEW obj \in ObjectsOf(kind), NEW configReload \in BOOLEAN,
             QueueInvalidation(kind, CurrentToken(se), obj, configReload), UNCHANGED stale
      PROVE  GoneHoldNothing'
  BY <1>t, <1>1, <1>5, QueueInvalidationSessions
<1>6. ASSUME NEW se \in Session, NEW kind \in FuseKinds, RequestStep(kind, se)
      PROVE  GoneHoldNothing'
  BY <1>5, <1>6, SchedulerAssumption DEF RequestStep, FuseRequest, local
<1>7. ASSUME NEW p \in Producer, ScheduleOne(p)
      PROVE  GoneHoldNothing'
  <2>1. stale' = stale
    BY <1>7 DEF ScheduleOne
  <2>2. PICK r \in plan[p], se \in Session, kind \in {"Root", "Inode"}, obj \in Target :
           RequestMade(p, r, se, kind, obj)
    BY <1>7, RequestOfPlan
  <2>3. CASE UNCHANGED <<sessions, destroy>>
    BY <1>t, <1>1, <2>1, <2>3
  <2> QED BY <1>5, <2>1, <2>2, <2>3 DEF RequestMade, Backpressured, vars
<1>8. ASSUME NEW success \in BOOLEAN, WorkerCompletes(success)
      PROVE  GoneHoldNothing'
  <2>1. \A se \in Session : stale'[se] \subseteq stale[se]
    BY <1>t, <1>8 DEF WorkerCompletes
  <2>2. PICK t \in running : CompleteTask(success)!(t)
    BY <1>8 DEF WorkerCompletes, CompleteTask
  <2>3. t.se \in Session
    BY <1>t DEF TypeOK, Typed, Task
  <2>s. sessions \in [Session -> SessionState]
    BY <1>t
  <2>4. \A se \in Session : sessions'[se].generation = sessions[se].generation
    <3>1. CASE sessions' = [sessions EXCEPT ![t.se].rootNeedsReplay = FALSE,
                                            ![t.se].rootReplayEpoch = 0]
      <4> DEFINE half == [sessions EXCEPT ![t.se].rootNeedsReplay = FALSE]
      <4>1. /\ half \in [Session -> SessionState]
            /\ \A s \in Session : half[s].generation = sessions[s].generation
        BY <1>t, <2>3 DEF SessionState
      <4>2. sessions' = [half EXCEPT ![t.se].rootReplayEpoch = 0]
        BY <2>s, <2>3, <3>1, ZenonT(60) DEF SessionState
      <4> HIDE DEF half
      <4> QED BY <2>3, <4>1, <4>2 DEF SessionState
    <3>2. CASE \/ sessions' = [sessions EXCEPT ![t.se].rootPending = FALSE]
               \/ sessions' = sessions
      BY <1>t, <2>3, <3>2 DEF SessionState
    <3> QED BY <2>2, <3>1, <3>2
  <2> QED BY <1>1, <2>1, <2>2, <2>4
<1>9. ASSUME \/ \E p \in Producer :
                   \/ BeginApply(p) \/ SnapshotForConfig(p) \/ BeginWait(p) \/ WaitFindsIdle(p)
                   \/ Acknowledge(p) \/ WaitFails(p) \/ PackageSetChanged(p)
                   \/ LeaveBackpressure(p) \/ DoneScheduling(p)
             \/ WorkerTakes \/ UNCHANGED allVars
      PROVE  UNCHANGED <<sessions, destroy, stale>>
  BY <1>9, TakeKeeps
     DEF BeginApply, BeginHideInvalidationBatch, SnapshotForConfig, BeginWait, WaitFindsIdle,
         Acknowledge, WaitFails, PackageSetChanged, LeaveBackpressure, Admit, GiveUp,
         DoneScheduling, WorkerTakes, Take, TakePending, TakeOverflowInode, TakeOverflowParent,
         local, allVars, vars
<1>10. CASE UNCHANGED <<sessions, destroy, stale>>
  BY <1>t, <1>1, <1>10
<1>11. Reloader \subseteq Producer /\ Watcher \subseteq Producer
  BY PublicationAssumption
<1> QED BY <1>2, <1>3, <1>4, <1>6, <1>7, <1>8, <1>9, <1>10, <1>11 DEF PublicationNext

LEMMA NothingYetNext ==
    ASSUME PublicationTyped, Scheduled, PublishersApart, NothingYet, [PublicationNext]_allVars
    PROVE  NothingYet'
<1> DEFINE Nothing == /\ \A t \in Queued \cup running : t.epoch # currentConfigEpoch
                      /\ \A se \in Session : sessions[se].rootNeedsReplay =>
                            sessions[se].rootReplayEpoch # currentConfigEpoch
<1> SUFFICES ASSUME NEW p \in Reloader, ~overlap', pc'[p] \in {"begun", "published"}
             PROVE  Nothing'
  BY DEF NothingYet
<1>t. /\ sessions \in [Session -> SessionState] /\ currentConfigEpoch \in Nat
      /\ pending \subseteq Task /\ overflowParents \subseteq Task /\ overflowInodes \subseteq Task
      /\ running \subseteq Task /\ Typed /\ Owing /\ Queued \subseteq Task
      /\ Reloader \subseteq Producer /\ Watcher \subseteq Producer
  BY PublicationAssumption
     DEF PublicationTyped, PublicationTypeOK, TypeOK, Typed, Scheduled, Queued, TasksOfKind
<1>1. CASE BeginApply(p)
  <2>1. /\ currentConfigEpoch' = currentConfigEpoch + 1
        /\ UNCHANGED <<sessions, pending, overflowParents, overflowInodes, running>>
    BY <1>1 DEF BeginApply, BeginHideInvalidationBatch
  <2>2. \A t \in Queued \cup running : t.epoch \in Nat /\ t.epoch <= currentConfigEpoch
    BY <1>t DEF Owing, EpochsAreKnown, Task
  <2>3. \A se \in Session : /\ sessions[se].rootReplayEpoch \in Nat
                            /\ sessions[se].rootReplayEpoch <= currentConfigEpoch
    BY <1>t DEF Owing, EpochsAreKnown, SessionState
  <2>4. Queued' = Queued
    BY <2>1 DEF Queued
  <2> QED BY <1>t, <2>1, <2>2, <2>3, <2>4
<1>2. CASE ~BeginApply(p)
  <2>1. ~overlap /\ pc[p] \in {"begun", "published"} /\ Nothing
    BY <1>2, PublisherMoves DEF NothingYet
  <2>2. currentConfigEpoch # 0
    BY <2>1 DEF PublishersApart
  <2>3. CASE UNCHANGED <<sessions, pending, overflowParents, overflowInodes, running,
                         currentConfigEpoch>>
    BY <2>1, <2>3 DEF Queued
  <2>4. ASSUME NEW se \in Session, NEW kind \in FuseKinds, RequestStep(kind, se)
        PROVE  Nothing'
    <3>1. PICK obj \in ObjectsOf(kind) : QueueInvalidation(kind, CurrentToken(se), obj, FALSE)
      BY <2>4 DEF RequestStep, FuseRequest
    <3>2. kind \in {"Root", "Entry", "Inode"} /\ FALSE \in BOOLEAN
      BY SchedulerAssumption
    <3> DEFINE t == TaskFor(kind, CurrentToken(se), obj, FALSE)
    <3>3. t.kind = kind /\ t.epoch = 0 /\ SweepOf(t).epoch = 0
      BY DEF TaskFor, SweepOf
    <3>4. UNCHANGED <<running, currentConfigEpoch>>
      BY <3>1 DEF QueueInvalidation
    <3> HIDE DEF t
    <3>5. /\ Queued' \subseteq Queued \cup {t} \cup {SweepOf(u) : u \in {v \in {t} : v.kind = "Entry"}}
          /\ \A s \in Session : /\ sessions'[s].rootNeedsReplay = sessions[s].rootNeedsReplay
                                /\ sessions'[s].rootReplayEpoch = sessions[s].rootReplayEpoch
      BY <1>t, <3>1, <3>2, RequestLeavesTrace DEF t
    <3> QED BY <2>1, <2>2, <3>3, <3>4, <3>5
  <2>5. ASSUME NEW success \in BOOLEAN, WorkerCompletes(success)
        PROVE  Nothing'
    <3>1. CompleteTask(success)
      BY <2>5 DEF WorkerCompletes
    <3>2. PICK t \in running : TRUE
      BY <3>1 DEF CompleteTask
    <3>3. NeedsReplay(t) => ReplayOf(t).epoch # currentConfigEpoch
      BY <1>t, <2>1 DEF NeedsReplay, ReplayOf, Task
    <3>4. /\ running' = {} /\ currentConfigEpoch' = currentConfigEpoch
          /\ Queued' \subseteq Queued \cup {ReplayOf(t)} /\ (NeedsReplay(t) \/ Queued' = Queued)
          /\ \A s \in Session : sessions'[s].rootNeedsReplay =>
                /\ sessions[s].rootNeedsReplay
                /\ sessions'[s].rootReplayEpoch = sessions[s].rootReplayEpoch
      BY <1>t, <3>1, CompleteKeeps
    <3> QED BY <2>1, <3>3, <3>4
  <2>6. CASE WorkerTakes
    BY <1>t, <2>1, <2>6, TakeKeeps DEF WorkerTakes
  <2>7. ASSUME NEW se \in Session, SessionStep(se)
        PROVE  Nothing'
    <3>1. CASE Retire(se)
      <4>1. ~Retired(sessions[se]).rootNeedsReplay
        BY DEF Retired, NewSession
      <4> QED BY <1>t, <2>1, <3>1, <4>1, RetireKeeps
    <3>2. CASE RegisterSession(se) \/ FinishFuseSessionDestroy(se)
      BY <1>t, <2>1, <3>2 DEF RegisterSession, FinishFuseSessionDestroy, NoSession, NewSession,
                              Queued
    <3> QED BY <2>7, <3>1, <3>2 DEF SessionStep
  <2>8. /\ \A q \in Producer : ~ScheduleOne(q) /\ ~LeaveBackpressure(q)
        /\ \A q \in Producer : ~BeginApply(q) /\ ~PackageSetChanged(q)
    <3>1. ~ScheduleOne(p)
      BY <2>1 DEF ScheduleOne
    <3>2. ~LeaveBackpressure(p)
      BY <1>t, <2>1 DEF LeaveBackpressure, Admit, GiveUp, PublishersApart
    <3> QED BY <2>1, <3>1, <3>2, PublisherMoves
  <2>9. ASSUME \/ \E q \in Producer :
                     \/ PublishConfig(q) \/ SnapshotForConfig(q) \/ BeginWait(q)
                     \/ WaitFindsIdle(q) \/ Acknowledge(q) \/ WaitFails(q) \/ DoneScheduling(q)
               \/ \E se \in Session : SessionDrained(se)
               \/ UNCHANGED allVars
        PROVE  UNCHANGED <<sessions, pending, overflowParents, overflowInodes, running,
                           currentConfigEpoch>>
    BY <2>9 DEF PublishConfig, SnapshotForConfig, BeginWait, WaitFindsIdle, Acknowledge,
                WaitFails, DoneScheduling, SessionDrained, Drained, allVars, vars
  <2> QED BY <1>t, <2>3, <2>4, <2>5, <2>6, <2>7, <2>8, <2>9 DEF PublicationNext
<1> QED BY <1>1, <1>2

LEMMA RunsFreshNext ==
    ASSUME PublicationTyped, Scheduled, PublishersApart, NothingYet, RunsFresh,
           [PublicationNext]_allVars
    PROVE  RunsFresh'
<1> SUFFICES ASSUME NEW p \in Reloader, ~overlap', Working(p)',
                    NEW t \in running', t.epoch = currentConfigEpoch'
             PROVE  fresh' = TRUE
  BY DEF RunsFresh
<1>t. /\ Typed /\ Owing /\ Reloader \subseteq Producer /\ Watcher \subseteq Producer
  BY PublicationAssumption DEF PublicationTyped, PublicationTypeOK, Typed, Scheduled
<1>1. ~overlap
  BY PublisherMoves
<1>2. CASE SnapshotForConfig(p)
  <2>1. pc[p] = "published" /\ t \in running /\ currentConfigEpoch' = currentConfigEpoch
    BY <1>2 DEF SnapshotForConfig, Goto, vars
  <2> QED BY <1>1, <2>1 DEF NothingYet
<1>3. CASE ~SnapshotForConfig(p)
  <2>1. Working(p) /\ pc[p] # "idle" /\ pc[p] # "begun"
    BY <1>3, PublisherMoves DEF Working
  <2>2. \A u \in running : u.epoch = currentConfigEpoch => fresh = TRUE
    BY <1>1, <2>1 DEF RunsFresh
  <2>3. /\ \A q \in Producer : ~BeginApply(q) /\ ~PackageSetChanged(q)
        /\ \A q \in Reloader : ~PublishConfig(q)
    BY <1>1, <2>1, PublisherMoves DEF PublishConfig, Goto
  <2>4. CASE WorkerTakes
    BY <2>4 DEF WorkerTakes
  <2>5. ASSUME NEW success \in BOOLEAN, WorkerCompletes(success)
        PROVE  FALSE
    <3>1. CompleteTask(success)
      BY <2>5 DEF WorkerCompletes
    <3> QED BY <3>1 DEF CompleteTask
  <2>6. CASE UNCHANGED <<running, currentConfigEpoch, fresh>>
    BY <2>2, <2>6
  <2>7. ASSUME NEW se \in Session,
               \/ SessionStep(se) \/ SessionDrained(se)
               \/ \E kind \in FuseKinds : RequestStep(kind, se)
        PROVE  UNCHANGED <<running, currentConfigEpoch, fresh>>
    BY <2>7 DEF SessionStep, RegisterSession, Retire, FinishFuseSessionDestroy, SessionDrained,
                Drained, RequestStep, FuseRequest, QueueInvalidation, local
  <2>8. ASSUME NEW q \in Producer, ScheduleOne(q) \/ LeaveBackpressure(q)
        PROVE  UNCHANGED <<running, currentConfigEpoch, fresh>>
    BY <2>8 DEF ScheduleOne, QueueInvalidation, Backpressured, LeaveBackpressure, Admit, GiveUp,
                local
  <2>9. ASSUME \/ \E q \in Producer :
                     \/ SnapshotForConfig(q) \/ BeginWait(q) \/ WaitFindsIdle(q)
                     \/ Acknowledge(q) \/ WaitFails(q) \/ DoneScheduling(q)
               \/ UNCHANGED allVars
        PROVE  UNCHANGED <<running, currentConfigEpoch, fresh>>
    BY <2>9 DEF SnapshotForConfig, BeginWait, WaitFindsIdle, Acknowledge, WaitFails,
                DoneScheduling, allVars, vars, local
  <2> QED BY <1>t, <2>3, <2>4, <2>5, <2>6, <2>7, <2>8, <2>9 DEF PublicationNext
<1> QED BY <1>2, <1>3

\* Only a publication adds to what is stale in a session that is served.
LEMMA StaleMoves ==
    ASSUME PublicationTyped, GoneHoldNothing, [PublicationNext]_allVars,
           ~\E p \in Reloader : PublishConfig(p), NEW se \in ActiveSessions'
    PROVE  \/ /\ se \in ActiveSessions /\ sessions'[se].generation = sessions[se].generation
              /\ stale'[se] \subseteq stale[se]
           \/ stale'[se] = {}
<1>t. se \in Session /\ stale \in [Session -> SUBSET Target] /\ Typed /\ [SchedulerNext]_vars
  BY PublicationSteps DEF PublicationTyped, PublicationTypeOK, Typed, ActiveSessions
<1>1. stale'[se] \subseteq stale[se]
  <2>1. ASSUME NEW success \in BOOLEAN, WorkerCompletes(success)
        PROVE  stale'[se] \subseteq stale[se]
    BY <1>t, <2>1 DEF WorkerCompletes
  <2>2. ASSUME NEW s \in Session, SessionDrained(s)
        PROVE  stale'[se] \subseteq stale[se]
    BY <1>t, <2>2 DEF SessionDrained
  <2>3. ASSUME \/ \E p \in Producer :
                     \/ BeginApply(p) \/ SnapshotForConfig(p) \/ BeginWait(p) \/ WaitFindsIdle(p)
                     \/ Acknowledge(p) \/ WaitFails(p) \/ PackageSetChanged(p)
                     \/ ScheduleOne(p) \/ LeaveBackpressure(p) \/ DoneScheduling(p)
               \/ \E s \in Session : SessionStep(s) \/ \E kind \in FuseKinds : RequestStep(kind, s)
               \/ WorkerTakes \/ UNCHANGED allVars
        PROVE  stale' = stale
    BY <2>3 DEF BeginApply, SnapshotForConfig, BeginWait, WaitFindsIdle, Acknowledge, WaitFails,
                PackageSetChanged, ScheduleOne, LeaveBackpressure, DoneScheduling, SessionStep,
                RequestStep, WorkerTakes, local, allVars
  <2>4. Reloader \subseteq Producer /\ Watcher \subseteq Producer
    BY PublicationAssumption
  <2> QED BY <2>1, <2>2, <2>3, <2>4 DEF PublicationNext
<1> QED BY <1>t, <1>1, ActiveMoves DEF GoneHoldNothing

\* What has to be forgotten stays in somebody's care, whoever makes a step.
LEMMA CarriedNext ==
    ASSUME PublicationTyped, Scheduled, PublishersApart, SweepsAreOfRoots,
           [PublicationNext]_allVars, currentConfigEpoch # 0,
           ~\E p \in Reloader : BeginApply(p),
           \A t \in running : t.epoch = currentConfigEpoch => fresh = TRUE,
           NEW se \in ActiveSessions, se \in ActiveSessions',
           sessions'[se].generation = sessions[se].generation,
           NEW obj, obj \in stale'[se], Carried(se, obj)
    PROVE  Carried(se, obj)'
<1> DEFINE Flag == sessions[se].rootNeedsReplay /\ sessions[se].rootReplayEpoch = currentConfigEpoch
<1>t. /\ se \in Session /\ sessions \in [Session -> SessionState] /\ batch \in Batch
      /\ plan \in [Producer -> SUBSET Request] /\ stale \in [Session -> SUBSET Target]
      /\ blocked \in [Producer -> SUBSET Task] /\ currentConfigEpoch \in Nat
      /\ Typed /\ Owing /\ Lifecycle /\ batch.epoch = currentConfigEpoch
      /\ Reloader \subseteq Producer /\ Watcher \subseteq Producer
      /\ running \subseteq Task
  BY PublicationAssumption
     DEF PublicationTyped, PublicationTypeOK, TypeOK, Typed, Scheduled, Owing, EpochsAreKnown,
         Request, ActiveSessions, TasksOfKind
<1>a. Registered(se) /\ ~sessions[se].retiring /\ Alive(se, sessions[se].generation)
  BY DEF ActiveSessions, Alive
<1>1. ASSUME UNCHANGED currentConfigEpoch,
             \A q \in Producer : plan[q] \subseteq plan'[q] /\ blocked[q] \subseteq blocked'[q],
             \A t \in Queued \cup running : Seeks(t, se, obj) => t \in Queued' \cup running',
             Flag => Flag', Spoiled(batch) => Spoiled(batch')
      PROVE  Carried(se, obj)'
  BY <1>1 DEF Carried, Seeks, CurrentToken
<1>2. ASSUME UNCHANGED vars, \A q \in Producer : plan[q] \subseteq plan'[q]
      PROVE  Carried(se, obj)'
  BY <1>1, <1>2 DEF vars, Queued
<1>3. ASSUME \/ \E q \in Producer :
                   \/ PublishConfig(q) \/ BeginWait(q) \/ WaitFindsIdle(q)
                   \/ Acknowledge(q) \/ WaitFails(q) \/ DoneScheduling(q)
             \/ UNCHANGED allVars
      PROVE  UNCHANGED <<vars, plan>>
  BY <1>3 DEF PublishConfig, BeginWait, WaitFindsIdle, Acknowledge, WaitFails, DoneScheduling,
              allVars, local
<1>4. ASSUME NEW q \in Producer, SnapshotForConfig(q) \/ PackageSetChanged(q)
      PROVE  Carried(se, obj)'
  <2>1. plan[q] = {} /\ UNCHANGED vars /\ plan' = [plan EXCEPT ![q] = PlanOfActiveSessions]
    BY <1>4 DEF SnapshotForConfig, PackageSetChanged, Goto, PublishersApart
  <2> QED BY <1>t, <1>2, <2>1
<1>5. ASSUME NEW q \in Producer, ScheduleOne(q)
      PROVE  Carried(se, obj)'
  <2>1. PICK r \in plan[q], s \in Session, kind \in {"Root", "Inode"}, o \in Target :
           RequestMade(q, r, s, kind, o)
    BY <1>5, RequestOfPlan DEF PublicationTyped
  <2>2. /\ plan' = [plan EXCEPT ![q] = @ \ {r}] /\ o \in ObjectsOf(kind) /\ blocked[q] = {}
        /\ r.token.se = s /\ r.obj = o
    BY <1>5, <2>1 DEF RequestMade, ScheduleOne
  <2> DEFINE t == TaskFor(kind, CurrentToken(s), o, TRUE)
  <2>3. /\ t.se = s /\ t.gen = sessions[s].generation /\ t.obj = o
        /\ t.epoch = currentConfigEpoch
    BY DEF TaskFor, CurrentToken
  <2>4. r.token = CurrentToken(se) /\ r.obj = obj => s = se /\ o = obj /\ Alive(s, r.token.gen)
    BY <1>a, <2>2 DEF CurrentToken
  <2>t. t = TaskFor(kind, CurrentToken(s), o, TRUE)
    OBVIOUS
  <2> HIDE DEF t
  <2>5. ASSUME ~(r.token = CurrentToken(se) /\ r.obj = obj), UNCHANGED currentConfigEpoch,
               \A p \in Producer : blocked[p] \subseteq blocked'[p],
               \A u \in Queued \cup running : Seeks(u, se, obj) => u \in Queued' \cup running',
               Flag => Flag', Spoiled(batch) => Spoiled(batch')
        PROVE  Carried(se, obj)'
    <3>1. CASE \E p \in Producer : \E v \in plan[p] : v.token = CurrentToken(se) /\ v.obj = obj
      <4>0. PICK p \in Producer : \E v \in plan[p] : v.token = CurrentToken(se) /\ v.obj = obj
        BY <3>1
      <4>1. PICK v \in plan[p] : v.token = CurrentToken(se) /\ v.obj = obj
        BY <4>0
      <4>2. v \in plan'[p] /\ CurrentToken(se)' = CurrentToken(se)
        BY <1>t, <2>2, <2>5, <4>1 DEF CurrentToken
      <4> QED BY <4>1, <4>2 DEF Carried
    <3>2. CASE ~\E p \in Producer : \E v \in plan[p] : v.token = CurrentToken(se) /\ v.obj = obj
      BY <2>5, <3>2 DEF Carried, Seeks
    <3> QED BY <3>1, <3>2
  <2>6. CASE UNCHANGED vars /\ ~Alive(s, r.token.gen)
    <3>1. ~(r.token = CurrentToken(se) /\ r.obj = obj)
      BY <2>4, <2>6
    <3>2. Queued' = Queued
      BY <2>6 DEF Queued, vars
    <3> QED BY <2>5, <2>6, <3>1, <3>2 DEF vars
  <2>7. CASE /\ Alive(s, sessions[s].generation)
             /\ QueueInvalidation(kind, CurrentToken(s), o, TRUE)
    <3>1. UNCHANGED <<running, currentConfigEpoch, blocked>>
      BY <2>7 DEF QueueInvalidation
    <3>2. /\ Queued \subseteq Queued' /\ (Spoiled(batch) => Spoiled(batch'))
          /\ \/ t \in Queued' \cup running'
             \/ /\ kind = "Root" /\ sessions'[s].rootNeedsReplay
                /\ sessions'[s].rootReplayEpoch = currentConfigEpoch
             \/ Spoiled(batch')
      <4>1. kind # "Entry" /\ kind \in {"Root", "Entry", "Inode"}
        OBVIOUS
      <4> QED BY <1>t, <2>t, <2>2, <2>7, <4>1, RequestLeavesTrace
    <3>3. \A x \in Session : sessions[x].rootNeedsReplay =>
             /\ sessions'[x].rootNeedsReplay
             /\ \/ sessions'[x].rootReplayEpoch = sessions[x].rootReplayEpoch
                \/ sessions'[x].rootReplayEpoch = currentConfigEpoch
      BY <1>t, <2>2, <2>7, RequestLeavesTrace
    <3>4. CASE r.token = CurrentToken(se) /\ r.obj = obj
      <4>1. kind = "Root" => obj = "root"
        BY <2>2, <3>4 DEF ObjectsOf
      <4> QED BY <2>3, <2>4, <3>1, <3>2, <3>4, <4>1 DEF Carried, Seeks
    <3>5. CASE ~(r.token = CurrentToken(se) /\ r.obj = obj)
      BY <1>t, <2>5, <3>1, <3>2, <3>3, <3>5
    <3> QED BY <3>4, <3>5
  <2>8. CASE kind = "Inode" /\ Backpressured(q, CurrentToken(s), o)
    <3>1. /\ blocked' = [blocked EXCEPT ![q] = {t}] /\ Queued' = Queued
          /\ UNCHANGED <<running, currentConfigEpoch, sessions, batch>>
      BY <2>8 DEF Backpressured, Queued, t
    <3>2. CASE r.token = CurrentToken(se) /\ r.obj = obj
      <4>1. t \in blocked'[q]
        BY <1>t, <3>1
      <4> QED BY <2>3, <2>4, <3>1, <3>2, <4>1 DEF Carried, Seeks
    <3>3. CASE ~(r.token = CurrentToken(se) /\ r.obj = obj)
      BY <1>t, <2>2, <2>5, <3>1, <3>3
    <3> QED BY <3>2, <3>3
  <2> QED BY <2>1, <2>6, <2>7, <2>8 DEF RequestMade
<1>6. ASSUME NEW q \in Producer, LeaveBackpressure(q)
      PROVE  Carried(se, obj)'
  <2>1. /\ Admit(q) \/ GiveUp(q)
        /\ UNCHANGED <<sessions, running, currentConfigEpoch, plan>>
        /\ blocked' = [blocked EXCEPT ![q] = {}]
    BY <1>6 DEF LeaveBackpressure, Admit, GiveUp, local
  <2>2. PICK t \in blocked[q] : \/ overflowInodes' = overflowInodes \cup {t} /\ AcceptTask(t)
                                \/ overflowInodes' = overflowInodes /\ RejectTask(t)
    BY <2>1 DEF Admit, GiveUp
  <2>3. \A u \in blocked[q] : u = t
    BY DEF PublishersApart
  <2>4. Queued \subseteq Queued' /\ (Spoiled(batch) => Spoiled(batch'))
    <3>1. Queued \subseteq Queued'
      BY <2>1, <2>2 DEF Admit, GiveUp, Queued
    <3> QED BY <1>t, <2>2, <3>1, SpoiledForGood DEF AcceptTask, RejectTask
  <2>5. Seeks(t, se, obj) => t \in Queued' \/ Spoiled(batch')
    <3>1. Seeks(t, se, obj) => Counted(t)
      BY <1>t DEF Seeks, Counted
    <3> QED BY <1>t, <2>2, <3>1, SpoiledForGood DEF RejectTask, Queued
  <2>6. \A p \in Producer : \A u \in blocked[p] : u = t \/ u \in blocked'[p]
    BY <1>t, <2>1, <2>3
  <2> QED BY <2>1, <2>4, <2>5, <2>6 DEF Carried, Seeks, CurrentToken
<1>7. CASE WorkerTakes
  <2>1. Take /\ plan' = plan
    BY <1>7 DEF WorkerTakes
  <2>2. \A t \in Queued \cup running : Seeks(t, se, obj) => t \in Queued' \cup running'
    BY <1>a, <1>t, <2>1, TakeKeeps DEF Seeks
  <2> QED BY <1>1, <1>t, <2>1, <2>2, TakeKeeps
<1>8. ASSUME NEW success \in BOOLEAN, WorkerCompletes(success)
      PROVE  Carried(se, obj)'
  <2>1. CompleteTask(success) /\ plan' = plan
    BY <1>8 DEF WorkerCompletes
  <2>2. PICK t \in running : TRUE
    BY <2>1 DEF CompleteTask
  <2>3. /\ UNCHANGED <<currentConfigEpoch, blocked>> /\ Queued \subseteq Queued'
        /\ ReplayOf(t) \in Queued' \/ ~NeedsReplay(t)
        /\ Spoiled(batch) => Spoiled(batch')
        /\ Counted(t) /\ ~success => Spoiled(batch')
        /\ Flag => \/ se = t.se /\ NeedsReplay(t)
                   \/ Flag'
    BY <1>t, <2>1, CompleteKeeps
  <2>4. \A u \in running : u = t
    BY <1>t DEF Typed, TypeOK
  <2>5. Seeks(t, se, obj) => Spoiled(batch')
    <3>1. Seeks(t, se, obj) => Counted(t) /\ fresh = TRUE /\ t \in Of(se, running)
      BY <1>t DEF Seeks, Counted, Of
    <3>2. Seeks(t, se, obj) /\ success => obj \notin stale'[se]
      BY <1>8, <1>t, <3>1 DEF WorkerCompletes, Seeks
    <3> QED BY <2>3, <3>1, <3>2
  <2>6. obj = "root" /\ Flag /\ se = t.se /\ NeedsReplay(t)
           => \E u \in Queued' : Seeks(u, se, obj)'
    <3>1. NeedsReplay(t) => t.obj = "root"
      BY DEF NeedsReplay, SweepsAreOfRoots
    <3>2. /\ ReplayOf(t).se = t.se /\ ReplayOf(t).gen = t.gen /\ ReplayOf(t).obj = t.obj
          /\ ReplayOf(t).epoch = sessions[t.se].rootReplayEpoch
      BY <1>t DEF ReplayOf, Task
    <3>3. \A u : /\ u.se = se /\ u.gen = sessions[se].generation /\ u.obj = obj
                 /\ u.epoch = currentConfigEpoch
                 => Seeks(u, se, obj)'
      BY <2>3 DEF Seeks
    <3> QED BY <2>3, <3>1, <3>2, <3>3 DEF NeedsReplay
  <2>7. \A u : Seeks(u, se, obj) => Seeks(u, se, obj)'
    BY <2>3 DEF Seeks
  <2>8. CASE obj = "root" /\ Flag
    BY <2>3, <2>6, <2>8 DEF Carried
  <2>9. CASE \E u \in Queued \cup running : Seeks(u, se, obj)
    <3>1. PICK u \in Queued \cup running : Seeks(u, se, obj)
      BY <2>9
    <3>2. CASE u \in Queued
      BY <2>3, <2>7, <3>1, <3>2 DEF Carried
    <3>3. CASE u \in running
      BY <2>4, <2>5, <3>1, <3>3 DEF Carried
    <3> QED BY <3>2, <3>3
  <2>10. CASE \E p \in Producer : \E u \in blocked[p] : Seeks(u, se, obj)
    BY <2>3, <2>7, <2>10 DEF Carried
  <2> QED BY <2>1, <2>3, <2>8, <2>9, <2>10 DEF Carried, CurrentToken
<1>9. ASSUME NEW s \in Session, SessionStep(s)
      PROVE  Carried(se, obj)'
  <2>1. plan' = plan /\ UNCHANGED <<currentConfigEpoch, blocked>>
    BY <1>9 DEF SessionStep, RegisterSession, Retire, FinishFuseSessionDestroy, local
  <2>2. CASE Retire(s)
    <3>1. Retired(sessions[s]).retiring
      BY DEF Retired, NewSession
    <3>2. s # se /\ sessions'[se] = sessions[se]
      BY <1>t, <2>2, <3>1 DEF Retire, ActiveSessions
    <3>3. \A t \in Queued \cup running : Seeks(t, se, obj) => t \in Queued' \cup running'
      BY <1>t, <2>2, <3>2, RetireKeeps DEF Seeks, Of
    <3> QED BY <1>1, <1>t, <2>1, <2>2, <3>2, <3>3, RetireKeeps
  <2>3. CASE RegisterSession(s) \/ FinishFuseSessionDestroy(s)
    <3>1. s # se
      BY <1>a, <1>t, <2>3
         DEF RegisterSession, FinishFuseSessionDestroy, NoSession, NewSession, ActiveSessions,
             Registered
    <3>2. /\ UNCHANGED <<batch, running>> /\ Queued' = Queued
          /\ sessions'[se] = sessions[se]
      BY <1>t, <2>3, <3>1 DEF RegisterSession, FinishFuseSessionDestroy, Queued
    <3> QED BY <1>1, <2>1, <3>2
  <2> QED BY <1>9, <2>2, <2>3 DEF SessionStep
<1>10. ASSUME NEW s \in Session, SessionDrained(s)
       PROVE  Carried(se, obj)'
  BY <1>1, <1>10 DEF SessionDrained, Drained, Queued
<1>11. ASSUME NEW s \in Session, NEW kind \in FuseKinds, RequestStep(kind, s)
       PROVE  Carried(se, obj)'
  <2>1. /\ plan' = plan /\ kind \in {"Root", "Entry", "Inode"}
        /\ FuseRequest(kind, s)
    BY <1>11, SchedulerAssumption DEF RequestStep, local
  <2>2. PICK o \in ObjectsOf(kind) : QueueInvalidation(kind, CurrentToken(s), o, FALSE)
    BY <2>1 DEF FuseRequest
  <2>3. UNCHANGED <<running, currentConfigEpoch, blocked>>
    BY <2>2 DEF QueueInvalidation
  <2>4. /\ Queued \subseteq Queued' /\ (Spoiled(batch) => Spoiled(batch'))
        /\ \A x \in Session : /\ sessions'[x].rootNeedsReplay = sessions[x].rootNeedsReplay
                             /\ sessions'[x].rootReplayEpoch = sessions[x].rootReplayEpoch
    BY <1>t, <2>1, <2>2, RequestLeavesTrace
  <2> QED BY <1>1, <1>t, <2>1, <2>3, <2>4
<1> QED BY <1>t, <1>2, <1>3, <1>4, <1>5, <1>6, <1>7, <1>8, <1>9, <1>10, <1>11 DEF PublicationNext

LEMMA StaleIsCarriedNext ==
    ASSUME PublicationTyped, Scheduled, PublishersApart, SweepsAreOfRoots, GoneHoldNothing,
           RunsFresh, StaleIsCarried, [PublicationNext]_allVars
    PROVE  StaleIsCarried'
<1> SUFFICES ASSUME NEW p \in Reloader, ~overlap', Working(p)',
                    NEW se \in ActiveSessions', NEW obj \in stale'[se]
             PROVE  Carried(se, obj)'
  BY DEF StaleIsCarried
<1>1. ~overlap
  BY PublisherMoves
<1>2. CASE SnapshotForConfig(p)
  <2>1. /\ UNCHANGED <<vars, stale>> /\ plan' = [plan EXCEPT ![p] = PlanOfActiveSessions]
        /\ p \in Producer /\ plan \in [Producer -> SUBSET Request]
        /\ stale \in [Session -> SUBSET Target]
    BY <1>2, PublicationAssumption
       DEF SnapshotForConfig, PublicationTyped, PublicationTypeOK, Request
  <2>2. /\ se \in ActiveSessions /\ obj \in Target /\ CurrentToken(se)' = CurrentToken(se)
    BY <2>1 DEF ActiveSessions, Registered, vars, CurrentToken
  <2> DEFINE r == [kind |-> IF obj = "root" THEN "Root" ELSE "Inode",
                   token |-> CurrentToken(se), obj |-> obj]
  <2>3. r \in PlanOfActiveSessions /\ r.token = CurrentToken(se) /\ r.obj = obj
    BY <2>2 DEF PlanOfActiveSessions
  <2> HIDE DEF r
  <2>4. r \in plan'[p] /\ r.token = CurrentToken(se)'
    BY <2>1, <2>2, <2>3
  <2> QED BY <2>1, <2>3, <2>4 DEF Carried
<1>3. CASE ~SnapshotForConfig(p)
  <2>1. Working(p) /\ pc[p] # "idle" /\ pc[p] # "begun"
    BY <1>3, PublisherMoves DEF Working
  <2>2. /\ ~\E q \in Reloader : BeginApply(q)
        /\ ~\E q \in Reloader : PublishConfig(q)
    <3>1. Reloader \subseteq Producer
      BY PublicationAssumption
    <3>2. \A q \in Reloader : PublishConfig(q) => q = p
      BY <1>1, <2>1, PublisherMoves
    <3> QED BY <2>1, <3>1, <3>2, PublisherMoves DEF PublishConfig, Goto
  <2>3. /\ se \in ActiveSessions /\ sessions'[se].generation = sessions[se].generation
        /\ obj \in stale[se]
    BY <2>2, StaleMoves
  <2>4. Carried(se, obj) /\ \A t \in running : t.epoch = currentConfigEpoch => fresh = TRUE
    BY <1>1, <2>1, <2>3 DEF StaleIsCarried, RunsFresh
  <2>5. currentConfigEpoch # 0
    BY <2>1 DEF PublishersApart
  <2> QED BY <2>2, <2>3, <2>4, <2>5, CarriedNext
<1> QED BY <1>2, <1>3

LEMMA CheckedIsForgottenNext ==
    ASSUME PublicationTyped, PublishersApart, GoneHoldNothing, StaleIsCarried,
           CheckedIsForgotten, [PublicationNext]_allVars
    PROVE  CheckedIsForgotten'
<1> SUFFICES ASSUME NEW p \in Reloader, ~overlap', pc'[p] = "checking",
                    NEW se \in ActiveSessions'
             PROVE  stale'[se] = {}
  BY DEF CheckedIsForgotten, Forgotten
<1>1. ~overlap
  BY PublisherMoves
<1>t. Reloader \subseteq Producer
  BY PublicationAssumption
<1>2. CASE WaitFindsIdle(p)
  <2>1. /\ UNCHANGED <<vars, stale>> /\ Complete(batch) /\ SchedulerIdle /\ pc[p] = "waiting"
    BY <1>2 DEF WaitFindsIdle, Goto
  <2>2. se \in ActiveSessions
    BY <2>1 DEF ActiveSessions, Registered, vars
  <2>3. \A q \in Producer : plan[q] = {} /\ blocked[q] = {}
    <3>1. \A q \in Producer : pc[q] # "scheduling"
      BY <1>1, <1>t, <2>1 DEF PublishersApart, Alone
    <3> QED BY <3>1 DEF PublishersApart
  <2>4. ~Spoiled(batch)
    BY <2>1 DEF Complete, Spoiled
  <2>5. \A obj \in stale[se] : FALSE
    <3> SUFFICES ASSUME NEW obj \in stale[se] PROVE FALSE
      OBVIOUS
    <3>1. Carried(se, obj)
      BY <1>1, <2>1, <2>2 DEF StaleIsCarried, Working
    <3>2. Queued \cup running = {} /\ ~sessions[se].rootNeedsReplay
      BY <2>1, <2>2 DEF SchedulerIdle, Idle
    <3> QED BY <2>3, <2>4, <3>1, <3>2 DEF Carried
  <2> QED BY <2>1, <2>5
<1>3. CASE ~WaitFindsIdle(p)
  <2>1. pc[p] = "checking" /\ Forgotten
    BY <1>1, <1>3, PublisherMoves DEF CheckedIsForgotten
  <2>2. ~\E q \in Reloader : PublishConfig(q)
    <3>1. pc[p] # "idle" /\ pc[p] # "begun"
      BY <2>1
    <3>2. \A q \in Reloader : PublishConfig(q) => q = p
      BY <1>1, <3>1, PublisherMoves
    <3> QED BY <3>1, <3>2 DEF PublishConfig, Goto
  <2>3. \/ se \in ActiveSessions /\ stale'[se] \subseteq stale[se]
        \/ stale'[se] = {}
    BY <2>2, StaleMoves
  <2> QED BY <2>1, <2>3 DEF Forgotten
<1> QED BY <1>2, <1>3

-----------------------------------------------------------------------------
\* What a publication keeps, and with it the promise.
Promised ==
    /\ PublicationTyped /\ Scheduled /\ PublishersApart
    /\ SweepsAreOfRoots /\ GoneHoldNothing /\ NothingYet /\ RunsFresh
    /\ StaleIsCarried /\ CheckedIsForgotten

LEMMA PromisedInit == PublicationInit => Promised
<1> SUFFICES ASSUME PublicationInit PROVE Promised
  OBVIOUS
<1>1. PublicationTyped /\ Scheduled /\ PublishersApart
  BY PublicationTypedInit, ScheduledInit, PublishersApartInit DEF PublicationInit
<1>2. /\ Queued = {} /\ running = {} /\ stale = [se \in Session |-> {}]
      /\ pc = [p \in Producer |-> "idle"] /\ Reloader \subseteq Producer
  BY PublicationAssumption DEF PublicationInit, Init, Queued
<1> QED BY <1>1, <1>2
        DEF Promised, SweepsAreOfRoots, GoneHoldNothing, NothingYet, RunsFresh, StaleIsCarried,
            CheckedIsForgotten, Working

LEMMA PromisedNext ==
    ASSUME Promised, [PublicationNext]_allVars
    PROVE  Promised'
<1>1. PublicationTyped' /\ Scheduled' /\ PublishersApart'
  BY PublicationTypedNext, PublicationKeepsScheduled, PublishersApartNext DEF Promised
<1>2. SweepsAreOfRoots'
  BY SweepsAreOfRootsNext, PublicationSteps DEF Promised, Scheduled
<1>3. GoneHoldNothing' /\ NothingYet' /\ RunsFresh'
  BY GoneHoldNothingNext, NothingYetNext, RunsFreshNext DEF Promised, Scheduled
<1>4. StaleIsCarried' /\ CheckedIsForgotten'
  BY StaleIsCarriedNext, CheckedIsForgottenNext DEF Promised
<1> QED BY <1>1, <1>2, <1>3, <1>4 DEF Promised

\* Only an acknowledgement changes what was acknowledged.
LEMMA AcknowledgeAlone ==
    ASSUME Promised, [PublicationNext]_allVars
    PROVE  \/ acknowledged' = acknowledged
           \/ \E p \in Reloader : Acknowledge(p)
  BY DEF PublicationNext, BeginApply, PublishConfig, SnapshotForConfig, BeginWait, WaitFindsIdle,
         WaitFails, PackageSetChanged, ScheduleOne, LeaveBackpressure, DoneScheduling,
         WorkerTakes, WorkerCompletes, SessionStep, SessionDrained, RequestStep, local, allVars

\* Whatever is acknowledged while no two publications overlap, no session that is
\* still served holds anything looked up before the publication it answers: for any
\* number of sessions, inodes, reload threads and package changes, any capacity of
\* the queues, any evictions, replays, failed notifications and retirements.
THEOREM AcknowledgedMeansForgottenAlone == PublicationSpec => AcknowledgedAloneMeansForgotten
<1>1. Promised /\ [PublicationNext]_allVars
         => [acknowledged' # acknowledged => overlap \/ Forgotten]_allVars
  <2> SUFFICES ASSUME Promised, [PublicationNext]_allVars, acknowledged' # acknowledged, ~overlap
               PROVE  Forgotten
    OBVIOUS
  <2>1. PICK p \in Reloader : Acknowledge(p)
    BY AcknowledgeAlone
  <2> QED BY <2>1 DEF Acknowledge, Goto, Promised, CheckedIsForgotten
<1> QED BY <1>1, PromisedInit, PromisedNext, PTL DEF PublicationSpec, AcknowledgedAloneMeansForgotten

-----------------------------------------------------------------------------
(***************************************************************************)
(* The publication implements the abstract promise.                        *)
(***************************************************************************)
LEMMA ServedStaleTyped ==
    ASSUME PublicationTyped
    PROVE  ServedStale \in [Session -> SUBSET Target]
  BY DEF PublicationTyped, PublicationTypeOK, ServedStale

\* An acknowledgement is given when nothing stale is served.
LEMMA AcknowledgeIsAcknowledge ==
    ASSUME Promised, NEW p \in Reloader, Acknowledge(p)
    PROVE  Promise!Acknowledge
<1>1. UNCHANGED <<vars, stale, overlap>> /\ acknowledged' = awaited[p] /\ pc[p] = "checking"
  BY DEF Acknowledge, Goto
<1>2. awaited[p] \in Nat
  BY DEF Promised, PublicationTyped, PublicationTypeOK
<1>3. ServedStale' = ServedStale
  BY <1>1 DEF ServedStale, ActiveSessions, Registered, vars
<1>4. \A se \in Session : ServedStale[se] = {}
  BY <1>1 DEF Promised, CheckedIsForgotten, Forgotten, ServedStale
<1> QED BY <1>1, <1>2, <1>3, <1>4 DEF Promise!Acknowledge

\* A publication makes everything stale in the sessions it meets.
LEMMA PublishIsPublish ==
    ASSUME Promised, NEW p \in Reloader, PublishConfig(p)
    PROVE  Promise!Publish
<1>t. /\ PublicationTyped /\ stale \in [Session -> SUBSET Target]
      /\ destroy \in [Session -> {"none", "draining", "destroying"}]
  BY DEF Promised, PublicationTyped, PublicationTypeOK, TypeOK
<1>1. /\ UNCHANGED <<vars, acknowledged, overlap>>
      /\ stale' = [se \in Session |->
                     IF Registered(se) /\ destroy[se] # "destroying" THEN Target ELSE {}]
  BY DEF PublishConfig
<1>2. ServedStale \in [Session -> SUBSET Target]
  BY <1>t, ServedStaleTyped
<1>3. \A se \in ActiveSessions : destroy[se] # "destroying"
  BY DEF Promised, Scheduled, Lifecycle, SessionLifecycle, ActiveSessions
<1>4. ActiveSessions' = ActiveSessions
  BY <1>1 DEF ActiveSessions, Registered, vars
<1>5. ServedStale' = [se \in Session |->
                        IF se \in ActiveSessions /\ ~overlap THEN stale'[se] ELSE {}]
  BY <1>1, <1>4 DEF ServedStale
<1>6. \A se \in ActiveSessions : stale'[se] = Target
  BY <1>1, <1>3 DEF ActiveSessions
<1>7. ServedStale' \in [Session -> SUBSET Target]
  BY <1>5, <1>6
<1>8. \A se \in Session : ServedStale[se] \subseteq ServedStale'[se]
  BY <1>t, <1>5, <1>6 DEF ServedStale
<1> QED BY <1>1, <1>7, <1>8 DEF Promise!Publish

\* Every other step leaves what is served as it is or forgets some of it.
LEMMA OthersForget ==
    ASSUME Promised, [PublicationNext]_allVars,
           ~\E p \in Reloader : PublishConfig(p), UNCHANGED acknowledged
    PROVE  Promise!Forget
<1>t. PublicationTyped' /\ PublicationTyped /\ GoneHoldNothing /\ overlap \in BOOLEAN
  BY PublicationTypedNext DEF Promised, PublicationTyped, PublicationTypeOK, Scheduled
<1>1. ServedStale' \in [Session -> SUBSET Target]
  BY <1>t DEF PublicationTyped, PublicationTypeOK, ServedStale
<1>2. overlap => overlap'
  BY DEF PublicationNext, BeginApply, MeetsOthers, PublishConfig, SnapshotForConfig, BeginWait,
         WaitFindsIdle, Acknowledge, WaitFails, PackageSetChanged, ScheduleOne,
         LeaveBackpressure, DoneScheduling, WorkerTakes, WorkerCompletes, SessionStep,
         SessionDrained, RequestStep, local, allVars
<1>3. ASSUME NEW se \in Session
      PROVE  ServedStale'[se] \subseteq ServedStale[se]
  <2>1. CASE se \in ActiveSessions' /\ ~overlap'
    BY <1>t, <1>2, <2>1, StaleMoves DEF ServedStale
  <2> QED BY <2>1 DEF ServedStale
<1> QED BY <1>1, <1>3 DEF Promise!Forget

\* The reload's answer, from the queue and its counters, implements the promise of
\* KernelCachePromise: publish, forget, and acknowledge when nothing stale is served.
THEOREM PublicationKeepsPromise == PublicationSpec => PromiseKept
<1>1. PublicationInit => Promise!Init
  BY DEF PublicationInit, Promise!Init, ServedStale
<1>2. Promised /\ [PublicationNext]_allVars => [Promise!Next]_<<ServedStale, acknowledged>>
  <2> SUFFICES ASSUME Promised, [PublicationNext]_allVars
               PROVE  Promise!Next
    OBVIOUS
  <2>1. CASE \E p \in Reloader : PublishConfig(p)
    BY <2>1, PublishIsPublish DEF Promise!Next
  <2>2. CASE \E p \in Reloader : Acknowledge(p)
    BY <2>2, AcknowledgeIsAcknowledge DEF Promise!Next
  <2>3. CASE UNCHANGED acknowledged /\ ~\E p \in Reloader : PublishConfig(p)
    BY <2>3, OthersForget DEF Promise!Next
  <2> QED BY <2>1, <2>2, <2>3, AcknowledgeAlone
<1> QED BY <1>1, <1>2, PromisedInit, PromisedNext, PTL
        DEF PublicationSpec, PromiseKept, Promise!Spec
=============================================================================

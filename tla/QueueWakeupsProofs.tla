------------------------- MODULE QueueWakeupsProofs -------------------------
(***************************************************************************)
(* QueueWakeups for every number of tasks, sessions and threads, and every *)
(* limit.  Types and the two properties are inductive together: new work   *)
(* may wake the wrong thread only if somebody else sleeps, and those who   *)
(* sleep while the queue is empty sleep because of a reader.               *)
(***************************************************************************)
EXTENDS QueueWakeups, FiniteSetTheorems, TLAPS

IInv == TypeOK /\ NobodySleepsInVain /\ SleepingWorkerIsOwedAWakeup

PcType ==
    /\ pc \in [Thread -> {"unstarted", "looking", "asleep", "dozing", "notifying",
                          "out", "blocked", "awake"}]
    /\ pc[Worker] \in {"unstarted", "looking", "asleep", "dozing", "notifying"}
    /\ \A t \in Thread \ {Worker} : pc[t] \in {"out", "blocked", "awake"}

-----------------------------------------------------------------------------
LEMMA ThreadsDiffer ==
    ASSUME WakeupsAssumption
    PROVE  /\ Worker \in Thread
           /\ Waiter \cup Publisher \cup Session \subseteq Thread \ {Worker}
  BY DEF WakeupsAssumption, Thread

LEMMA FullIsNotEmpty ==
    ASSUME WakeupsAssumption, Full
    PROVE  overflowInodes # {}
<1>1. Cardinality({}) = 0  BY FS_EmptySet
<1> QED  BY <1>1 DEF WakeupsAssumption, Full

\* Everybody who slept is awake; the others are where they were.
LEMMA AllWoken ==
    ASSUME WakeupsAssumption, PcType, NEW more \in SUBSET {Worker}
    PROVE  /\ Woken(Asleep \cup more) \in [Thread -> {"unstarted", "looking", "asleep",
                  "dozing", "notifying", "out", "blocked", "awake"}]
           /\ Woken(Asleep \cup more)[Worker] \in {"unstarted", "looking", "notifying"}
           /\ \A t \in Thread \ {Worker} : Woken(Asleep \cup more)[t] \in {"out", "awake"}
           /\ more = {} /\ pc[Worker] = "notifying" => Woken(Asleep \cup more)[Worker] = "notifying"
  BY ThreadsDiffer DEF PcType, Woken, Awake, Asleep, Sleeping

\* One more or nobody, and a worker that is started if it was not.
LEMMA OneWoken ==
    ASSUME WakeupsAssumption, PcType, NotifyOne
    PROVE  /\ pc' \in [Thread -> {"unstarted", "looking", "asleep", "dozing", "notifying",
                                  "out", "blocked", "awake"}]
           /\ pc'[Worker] \in {"unstarted", "looking", "asleep", "dozing", "notifying"}
           /\ pc'[Worker] = "notifying" <=> pc[Worker] = "notifying"
           /\ \A t \in Thread \ {Worker} :
                 pc'[t] \in {"out", "blocked", "awake"} /\ (pc'[t] = "blocked" => pc[t] = "blocked")
           /\ pc'[Worker] = "asleep" =>
                 pc[Worker] = "asleep" /\ \E t \in Thread \ {Worker} : pc[t] = "blocked"
<1>1. PICK threads \in SUBSET Thread :
         /\ pc' = Woken(threads) /\ threads \subseteq Asleep \cup Unstarted
         /\ Unstarted \subseteq threads
         /\ Asleep = {} \/ \E t \in Asleep : t \in threads /\ threads = Unstarted \cup {t}
  <2>1. Unstarted \subseteq Thread /\ Asleep \subseteq Thread
    BY ThreadsDiffer DEF Unstarted, Asleep
  <2> QED  BY <2>1 DEF NotifyOne
<1>2. \A t \in Thread : pc'[t] = IF t \in threads THEN Awake(t) ELSE pc[t]  BY <1>1 DEF Woken
<1>3. pc' = [t \in Thread |-> IF t \in threads THEN Awake(t) ELSE pc[t]]  BY <1>1 DEF Woken
<1>4. pc' \in [Thread -> {"unstarted", "looking", "asleep", "dozing", "notifying",
                          "out", "blocked", "awake"}]
  BY <1>3 DEF PcType, Awake
<1>5. ASSUME pc[Worker] = "notifying" PROVE pc'[Worker] = "notifying"
  BY <1>1, <1>2, <1>5, ThreadsDiffer DEF Asleep, Sleeping, Unstarted
<1>6. pc'[Worker] = "looking" \/ pc'[Worker] = pc[Worker]
  BY <1>2, ThreadsDiffer DEF Awake
<1>7. \A t \in Thread \ {Worker} : pc'[t] = "awake" \/ pc'[t] = pc[t]
  BY <1>2 DEF Awake
<1>8. ASSUME pc'[Worker] = "asleep"
      PROVE  pc[Worker] = "asleep" /\ \E t \in Thread \ {Worker} : pc[t] = "blocked"
  <2>1. pc[Worker] = "asleep" /\ Worker \notin threads
    BY <1>2, <1>6, <1>8, ThreadsDiffer DEF Awake
  <2>2. Worker \in Asleep  BY <2>1, ThreadsDiffer DEF Asleep, Sleeping
  <2>3. PICK t \in Asleep : t \in threads  BY <1>1, <2>2
  <2>4. t \in Thread \ {Worker} /\ pc[t] \in Sleeping  BY <2>1, <2>3 DEF Asleep
  <2>5. pc[t] = "blocked"  BY <2>4 DEF Sleeping, PcType
  <2> QED  BY <2>1, <2>4, <2>5
<1> QED  BY <1>4, <1>5, <1>6, <1>7, <1>8 DEF PcType

-----------------------------------------------------------------------------
\* The types of everything but the threads.
DataType ==
    /\ session \in [Session -> {"absent", "active", "retiring"}]
    /\ pending \subseteq Task /\ sweeps \subseteq Task /\ overflowInodes \subseteq Task
    /\ running \subseteq Task
    /\ reading \in [Reader -> SUBSET Session]

LEMMA TypeIs == TypeOK <=> DataType /\ PcType /\ (pc[Worker] # "notifying" => running = {})
  BY DEF TypeOK, DataType, PcType

\* After a step that wakes everybody only a new sleeper needs a reason.
LEMMA WakingAllKeeps ==
    ASSUME WakeupsAssumption, PcType, NEW more \in SUBSET {Worker}, NEW u \in Thread, NEW v,
           pc' = [Woken(Asleep \cup more) EXCEPT ![u] = v],
           u = Worker => v \in {"looking", "notifying"},
           u # Worker => v \in {"out", "blocked", "awake"},
           u \in Session /\ v = "blocked" => Held(u)',
           u \notin Session => v # "blocked"
    PROVE  PcType' /\ NobodySleepsInVain' /\ SleepingWorkerIsOwedAWakeup'
<1>1. PcType'  BY AllWoken, ThreadsDiffer DEF PcType
<1>2. \A t \in Thread \ {Worker} : t # u => pc'[t] # "blocked"  BY AllWoken
<1>3. pc'[u] = v  BY AllWoken
<1>4. NobodySleepsInVain'
  BY <1>2, <1>3, ThreadsDiffer DEF NobodySleepsInVain, WakeupsAssumption
<1>5. pc'[Worker] # "asleep"  BY AllWoken, ThreadsDiffer
<1> QED  BY <1>1, <1>4, <1>5 DEF SleepingWorkerIsOwedAWakeup

\* New work that wakes one thread: nobody's reason to sleep goes away, and the
\* worker is passed over only for a thread that waits for a reader.
LEMMA WakingOneKeeps ==
    ASSUME WakeupsAssumption, IInv, NotifyOne,
           Full => Full', Queued' # {}, UNCHANGED <<running, reading>>
    PROVE  PcType' /\ NobodySleepsInVain' /\ SleepingWorkerIsOwedAWakeup'
<1> USE DEF IInv
<1>1. PcType  BY TypeIs
<1>2. PcType'  BY <1>1, OneWoken DEF PcType
<1>3. NobodySleepsInVain'
  <2>1. \A t \in Waiter \cup Publisher \cup Session : pc'[t] = "blocked" => pc[t] = "blocked"
    BY <1>1, OneWoken, ThreadsDiffer
  <2> QED  BY <2>1 DEF NobodySleepsInVain, Held, Idle
<1>4. ASSUME pc'[Worker] = "asleep" PROVE \E r \in Reader : reading[r] # {}
  <2>1. pc[Worker] = "asleep"  BY <1>1, <1>4, OneWoken
  <2>2. CASE Queued # {}  BY <2>1, <2>2 DEF SleepingWorkerIsOwedAWakeup
  <2>3. CASE Queued = {}
    <3>1. running = {}  BY <2>1, TypeIs
    <3>2. Idle /\ ~Full  BY <2>3, <3>1, FullIsNotEmpty DEF Idle, Queued
    <3>3. PICK t \in Thread \ {Worker} : pc[t] = "blocked"  BY <1>1, <1>4, OneWoken
    <3>4. t \in Session /\ Held(t)  BY <3>2, <3>3 DEF NobodySleepsInVain, Thread
    <3> QED  BY <3>1, <3>4 DEF Held, Of
  <2> QED  BY <2>2, <2>3
<1> QED  BY <1>2, <1>3, <1>4 DEF SleepingWorkerIsOwedAWakeup

\* A step of one thread that is no worker and leaves the queue alone.
LEMMA OneThreadMovesKeeps ==
    ASSUME WakeupsAssumption, IInv, NEW t \in Thread \ {Worker},
           NEW v \in {"out", "blocked", "awake"}, pc' = [pc EXCEPT ![t] = v],
           v = "blocked" => /\ t \in Publisher => Full
                            /\ t \in Waiter => ~Idle
                            /\ t \in Session => Held(t),
           UNCHANGED <<session, queue, running, reading>>
    PROVE  IInv'
<1> USE DEF IInv
<1>1. PcType /\ DataType  BY TypeIs
<1>2. PcType' /\ pc'[Worker] = pc[Worker]  BY <1>1, ThreadsDiffer DEF PcType
<1>3. TypeOK'  BY <1>1, <1>2, TypeIs DEF DataType, TypeOK, PcType, queue
<1>4. \A u \in Thread : pc'[u] = IF u = t THEN v ELSE pc[u]  BY <1>1 DEF PcType
<1>5. (Full' <=> Full) /\ (Idle' <=> Idle) /\ (\A se : Held(se)' <=> Held(se)) /\ Queued' = Queued
  BY DEF Full, Idle, Held, Queued, queue, Of
<1>6. NobodySleepsInVain'
  BY <1>4, <1>5, ThreadsDiffer DEF NobodySleepsInVain
<1>7. SleepingWorkerIsOwedAWakeup'  BY <1>2, <1>5 DEF SleepingWorkerIsOwedAWakeup
<1> QED  BY <1>3, <1>6, <1>7

-----------------------------------------------------------------------------
LEMMA InitHolds == ASSUME WakeupsAssumption, Init PROVE IInv
<1>1. TypeOK  BY ThreadsDiffer DEF Init, TypeOK
<1>2. \A t \in Thread : pc[t] \in {"unstarted", "out"}  BY DEF Init
<1>3. NobodySleepsInVain  BY <1>2, ThreadsDiffer DEF NobodySleepsInVain
<1>4. SleepingWorkerIsOwedAWakeup
  BY <1>2, ThreadsDiffer DEF SleepingWorkerIsOwedAWakeup
<1> QED  BY <1>1, <1>3, <1>4 DEF IInv

LEMMA StepKeeps == ASSUME WakeupsAssumption, IInv, [Next]_vars PROVE IInv'
<1> USE DEF IInv
<1>type. PcType /\ DataType /\ (pc[Worker] # "notifying" => running = {})  BY TypeIs
<1>worker. Worker \in Thread  BY ThreadsDiffer
<1>1. CASE UNCHANGED vars
  BY <1>1 DEF vars, queue, TypeOK, NobodySleepsInVain, SleepingWorkerIsOwedAWakeup,
     Full, Idle, Held, Queued, Of
<1>2. ASSUME NEW t \in Task, Queue(t) \/ NewParentSweep(t)
      PROVE  IInv'
  <2>1. NotifyOne /\ UNCHANGED <<session, running, reading>>
    BY <1>2 DEF Queue, NewParentSweep
  <2>2. pending' \subseteq Task /\ sweeps' \subseteq Task /\ overflowInodes' \subseteq Task
    BY <1>2, <1>type DEF Queue, NewParentSweep, DataType, Of
  <2>3. t \in Queued'  BY <1>2 DEF Queue, NewParentSweep, Queued
  <2>4. Full => Full'  BY <1>2 DEF Queue, NewParentSweep, Full
  <2>5. PcType' /\ NobodySleepsInVain' /\ SleepingWorkerIsOwedAWakeup'
    BY <2>1, <2>3, <2>4, WakingOneKeeps
  <2>6. pc'[Worker] = "notifying" <=> pc[Worker] = "notifying"  BY <1>type, <2>1, OneWoken
  <2>7. TypeOK'  BY <1>type, <2>1, <2>2, <2>5, <2>6 DEF TypeOK, PcType, DataType
  <2> QED  BY <2>5, <2>7
<1>3. ASSUME NEW t \in Task, Compensate(t)
      PROVE  IInv'
  <2> DEFINE woken == Woken(Asleep \cup Unstarted)
  <2>1. Unstarted \in SUBSET {Worker}  BY DEF Unstarted
  <2>2. pc' = woken  BY <1>3 DEF Compensate
  <2>3. woken[Worker] \in {"looking", "notifying"}
    BY <1>type, <1>worker DEF Woken, Awake, Asleep, Sleeping, Unstarted, PcType
  <2>4. woken \in [Thread -> {"unstarted", "looking", "asleep", "dozing", "notifying",
                              "out", "blocked", "awake"}]
    BY <1>type, <2>1, AllWoken
  <2>5. pc' = [woken EXCEPT ![Worker] = woken[Worker]]
    <3> HIDE DEF woken
    <3> QED  BY <2>2, <2>4
  <2>6. PcType' /\ NobodySleepsInVain' /\ SleepingWorkerIsOwedAWakeup'
    BY <1>type, <1>worker, <2>1, <2>3, <2>5, ThreadsDiffer, WakingAllKeeps
  <2>7. pc[Worker] = "notifying" => pc'[Worker] = "notifying"
    BY <2>2, <1>worker DEF Woken, Asleep, Sleeping, Unstarted
  <2>8. DataType' /\ running' = running  BY <1>3, <1>type DEF Compensate, DataType
  <2> QED  BY <1>type, <2>6, <2>7, <2>8 DEF TypeOK, PcType, DataType
<1>4. ASSUME NEW t \in Task, Take(t)
      PROVE  IInv'
  <2> DEFINE v == IF running' = {} THEN "looking" ELSE "notifying"
  <2>1. /\ UNCHANGED <<session, reading>> /\ running' \in {{}, {t}}
        /\ pc' = [Woken(Asleep) EXCEPT ![Worker] = v]
    BY <1>4 DEF Take
  <2>2. v \in {"looking", "notifying"} /\ (v # "notifying" => running' = {})  OBVIOUS
  <2>3. DataType'
    BY <1>4, <1>type, <2>1 DEF Take, Removed, DataType
  <2> HIDE DEF v
  <2>4. Asleep \cup {} = Asleep /\ {} \in SUBSET {Worker}  OBVIOUS
  <2>5. pc'[Worker] = v  BY <2>1, <1>worker DEF Woken
  <2>6. pc' = [Woken(Asleep \cup {}) EXCEPT ![Worker] = v]  BY <2>1, <2>4
  <2>7. Worker \notin Session  BY DEF WakeupsAssumption
  <2>8. PcType' /\ NobodySleepsInVain' /\ SleepingWorkerIsOwedAWakeup'
    BY <1>type, <1>worker, <2>2, <2>4, <2>6, <2>7, WakingAllKeeps
  <2> QED  BY <2>2, <2>3, <2>5, <2>8 DEF TypeOK, PcType, DataType
<1>5. CASE Look \/ FirstTaskIsDue
  <2>1. /\ UNCHANGED <<session, queue, running, reading>>
        /\ pc' = [pc EXCEPT ![Worker] = pc'[Worker]]
        /\ pc'[Worker] \in {"looking", "asleep", "dozing"} /\ pc[Worker] \in {"looking", "dozing"}
        /\ pc'[Worker] = "asleep" => Queued = {}
    BY <1>5, <1>type, <1>worker DEF Look, FirstTaskIsDue, PcType, Queued
  <2>2. \A t \in Thread \ {Worker} : pc'[t] = pc[t]  BY <1>type, <2>1 DEF PcType
  <2>3. TypeOK'  BY <1>type, <2>1, <2>2 DEF TypeOK, PcType, DataType, queue
  <2>4. NobodySleepsInVain'
    BY <2>1, <2>2, ThreadsDiffer DEF NobodySleepsInVain, Full, Idle, Held, Queued, queue, Of
  <2>5. SleepingWorkerIsOwedAWakeup'
    BY <2>1 DEF SleepingWorkerIsOwedAWakeup, Queued, queue
  <2> QED  BY <2>3, <2>4, <2>5
<1>6. CASE CompleteTask
  <2>1. pc' = [Woken(Asleep \cup {}) EXCEPT ![Worker] = "looking"]  BY <1>6 DEF CompleteTask
  <2>2. PcType' /\ NobodySleepsInVain' /\ SleepingWorkerIsOwedAWakeup'
    BY <1>type, <1>worker, <2>1, ThreadsDiffer, WakingAllKeeps
  <2>3. DataType' /\ running' = {}  BY <1>6, <1>type DEF CompleteTask, DataType
  <2> QED  BY <2>2, <2>3 DEF TypeOK, PcType, DataType
<1>7. ASSUME NEW p \in Publisher, BeginBackpressure(p) \/ BlockAgain(p) \/ GiveUp(p)
      PROVE  IInv'
  BY <1>7, ThreadsDiffer, OneThreadMovesKeeps
     DEF BeginBackpressure, BlockAgain, GiveUp, WakeupsAssumption
<1>8. ASSUME NEW p \in Publisher, Admit(p)
      PROVE  IInv'
  <2>1. Unstarted \in SUBSET {Worker} /\ p \in Thread \ {Worker} /\ p \notin Session
    BY ThreadsDiffer DEF Unstarted, WakeupsAssumption
  <2>2. pc' = [Woken(Asleep \cup Unstarted) EXCEPT ![p] = "out"]  BY <1>8 DEF Admit
  <2>3. PcType' /\ NobodySleepsInVain' /\ SleepingWorkerIsOwedAWakeup'
    BY <1>type, <2>1, <2>2, WakingAllKeeps
  <2>4. pc[Worker] = "notifying" => pc'[Worker] = "notifying"
    BY <2>1, <2>2, <1>worker DEF Woken, Asleep, Sleeping, Unstarted
  <2>5. DataType' /\ running' = running  BY <1>8, <1>type DEF Admit, DataType
  <2> QED  BY <1>type, <2>3, <2>4, <2>5 DEF TypeOK, PcType, DataType
<1>9. ASSUME NEW w \in Waiter, BeginWait(w) \/ WaitAgain(w) \/ EndWait(w)
      PROVE  IInv'
  BY <1>9, ThreadsDiffer, OneThreadMovesKeeps
     DEF BeginWait, WaitAgain, EndWait, WakeupsAssumption
<1>10. ASSUME NEW se \in Session, RegisterSession(se) \/ FinishFuseSessionDestroy(se)
       PROVE  IInv'
  <2>1. UNCHANGED <<queue, running, reading, pc>>
        /\ session' \in [Session -> {"absent", "active", "retiring"}]
    BY <1>10, <1>type DEF RegisterSession, FinishFuseSessionDestroy, DataType
  <2> QED  BY <2>1, <1>type
        DEF queue, TypeOK, NobodySleepsInVain, SleepingWorkerIsOwedAWakeup,
            Full, Idle, Held, Queued, Of
<1>11. ASSUME NEW se \in Session, LookAtHolders(se)
       PROVE  IInv'
  BY <1>11, ThreadsDiffer, OneThreadMovesKeeps DEF LookAtHolders, WakeupsAssumption
<1>12. ASSUME NEW se \in Session, Retire(se)
       PROVE  IInv'
  <2>1. se \in Thread \ {Worker}  BY ThreadsDiffer
  <2>2. pc' = [Woken(Asleep \cup {}) EXCEPT ![se] = IF Held(se) THEN "blocked" ELSE "out"]
        /\ UNCHANGED <<running, reading>>
    BY <1>12 DEF Retire
  <2>3. Held(se) => Held(se)'  BY <2>2 DEF Held, Of
  <2>4. PcType' /\ NobodySleepsInVain' /\ SleepingWorkerIsOwedAWakeup'
    BY <1>type, <2>1, <2>2, <2>3, WakingAllKeeps
  <2>5. pc[Worker] = "notifying" => pc'[Worker] = "notifying"
    BY <2>1, <2>2, <1>worker, <1>type, AllWoken
  <2>6. DataType'  BY <1>12, <1>type DEF Retire, DataType, Of
  <2> QED  BY <1>type, <2>2, <2>4, <2>5, <2>6 DEF TypeOK, PcType, DataType
<1>13. ASSUME NEW r \in Reader, BeginProbes(r)
       PROVE  IInv'
  <2>1. /\ reading[r] = {} /\ UNCHANGED <<session, queue, running, pc>>
        /\ reading' \in [Reader -> SUBSET Session]
        /\ \A q \in Reader \ {r} : reading'[q] = reading[q]
    BY <1>13, <1>type DEF BeginProbes, DataType
  <2>2. \A q \in Reader : reading[q] # {} => reading'[q] = reading[q]  BY <2>1
  <2>3. TypeOK'  BY <2>1, <1>type DEF TypeOK, PcType, DataType, queue
  <2>4. NobodySleepsInVain'
    BY <2>1, <2>2 DEF NobodySleepsInVain, Full, Idle, Held, Queued, queue, Of
  <2>5. SleepingWorkerIsOwedAWakeup'
    BY <2>1, <2>2 DEF SleepingWorkerIsOwedAWakeup, Queued, queue
  <2> QED  BY <2>3, <2>4, <2>5
<1>14. ASSUME NEW r \in Reader, EndProbe(r)
       PROVE  IInv'
  <2> DEFINE woken == Woken(Asleep \cup {})
  <2>1. pc' = woken  BY <1>14 DEF EndProbe, NotifyAll
  <2>2. woken \in [Thread -> {"unstarted", "looking", "asleep", "dozing", "notifying",
                              "out", "blocked", "awake"}]
        /\ woken[Worker] \in {"unstarted", "looking", "notifying"}
        /\ (\A t \in Thread \ {Worker} : woken[t] \in {"out", "awake"})
        /\ (pc[Worker] = "notifying" => woken[Worker] = "notifying")
    BY <1>type, AllWoken
  <2>3. reading' \in [Reader -> SUBSET Session] /\ UNCHANGED <<session, queue, running>>
    BY <1>14, <1>type DEF EndProbe, DataType
  <2> HIDE DEF woken
  <2>4. TypeOK'  BY <1>type, <2>1, <2>2, <2>3 DEF TypeOK, PcType, DataType, queue
  <2>5. NobodySleepsInVain'  BY <2>1, <2>2, ThreadsDiffer DEF NobodySleepsInVain
  <2>6. SleepingWorkerIsOwedAWakeup'  BY <2>1, <2>2 DEF SleepingWorkerIsOwedAWakeup
  <2> QED  BY <2>4, <2>5, <2>6
<1> QED
  BY <1>1, <1>2, <1>3, <1>4, <1>5, <1>6, <1>7, <1>8, <1>9, <1>10, <1>11, <1>12, <1>13, <1>14
     DEF Next

LEMMA IInvIsInvariant == ASSUME WakeupsAssumption PROVE Spec => []IInv
<1>1. Init => IInv  BY InitHolds
<1>2. IInv /\ [Next]_vars => IInv'  BY StepKeeps
<1> QED  BY <1>1, <1>2, PTL DEF Spec

\* Types, for every number of tasks, sessions and threads.
THEOREM WakeupsTyped == ASSUME WakeupsAssumption PROVE Spec => []TypeOK
<1>1. IInv => TypeOK  BY DEF IInv
<1> QED  BY <1>1, IInvIsInvariant, PTL

\* Nobody sleeps on a condition that holds (every notify_all of runtime_state.cpp).
THEOREM SleepersHaveReasons == ASSUME WakeupsAssumption PROVE Spec => []NobodySleepsInVain
<1>1. IInv => NobodySleepsInVain  BY DEF IInv
<1> QED  BY <1>1, IInvIsInvariant, PTL

\* The two notify_one of QueueInvalidation are enough: a worker they miss is owed
\* the notify_all of a reader.
THEOREM MissedWakeupIsOwed ==
    ASSUME WakeupsAssumption PROVE Spec => []SleepingWorkerIsOwedAWakeup
<1>1. IInv => SleepingWorkerIsOwedAWakeup  BY DEF IInv
<1> QED  BY <1>1, IInvIsInvariant, PTL
=============================================================================

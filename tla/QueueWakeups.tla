---------------------------- MODULE QueueWakeups ----------------------------
(***************************************************************************)
(* Who sleeps and who is woken at the one condition variable of            *)
(* InvalidationQueue (core/runtime_state.cpp).  The worker, the threads    *)
(* that wait for a publication, publishers in back-pressure and session    *)
(* destroys share it; most changes notify all of them, new work only one.  *)
(* InvalidationScheduler has the contents of the queue; here a task is     *)
(* only whose it is, and an action is one hold of the mutex.               *)
(***************************************************************************)
EXTENDS Naturals, FiniteSets

CONSTANTS
    Task, Session, SessionOf,
    Worker,
    Waiter,              \* threads in WaitForHideInvalidation
    Publisher,           \* threads in the back-pressure of QueueInvalidation
    Reader,              \* threads in ResolveUnknownPrimaryRootNodes
    QueueLimit, InodeCompensationLimit

ASSUME WakeupsAssumption ==
    /\ SessionOf \in [Task -> Session]
    /\ Worker \notin Waiter \cup Publisher \cup Session
    /\ Waiter \cap Publisher = {} /\ Waiter \cap Session = {} /\ Publisher \cap Session = {}
    /\ IsFiniteSet(Task)
    /\ QueueLimit \in Nat \ {0} /\ InodeCompensationLimit \in Nat \ {0}

VARIABLES
    session,             \* "absent", "active" or "retiring"
    pending, sweeps, overflowInodes,
    running,             \* the task being notified, an optional
    reading,             \* the sessions whose node tree a reader holds
    pc                   \* a destroy is the thread of its session

queue == <<pending, sweeps, overflowInodes>>
vars == <<session, queue, running, reading, pc>>

Thread == {Worker} \cup Waiter \cup Publisher \cup Session

\* "asleep" is the wait without a deadline, "dozing" the one until the first task is due.
Sleeping == {"asleep", "dozing", "blocked"}

Queued == pending \cup sweeps \cup overflowInodes
Idle == Queued = {} /\ running = {}
Full == Cardinality(overflowInodes) >= InodeCompensationLimit
Of(se, tasks) == {t \in tasks : SessionOf[t] = se}
Held(se) == Of(se, running) # {} \/ \E r \in Reader : se \in reading[r]

Init ==
    /\ session = [se \in Session |-> "absent"]
    /\ pending = {} /\ sweeps = {} /\ overflowInodes = {} /\ running = {}
    /\ reading = [r \in Reader |-> {}]
    /\ pc = [t \in Thread |-> IF t = Worker THEN "unstarted" ELSE "out"]

-----------------------------------------------------------------------------
\* Notification.  A woken thread looks at its condition when it has the mutex.
Awake(t) == IF t = Worker THEN "looking" ELSE "awake"
Asleep == {t \in Thread : pc[t] \in Sleeping}
Woken(threads) == [t \in Thread |-> IF t \in threads THEN Awake(t) ELSE pc[t]]

\* The first task starts the worker's thread.
Unstarted == {t \in {Worker} : pc[t] = "unstarted"}

NotifyAll == pc' = Woken(Asleep)

\* Which thread it is, nobody says.
NotifyOne ==
    \/ Asleep = {} /\ pc' = Woken(Unstarted)
    \/ \E t \in Asleep : pc' = Woken(Unstarted \cup {t})

-----------------------------------------------------------------------------
\* QueueInvalidation.
RegisterSession(se) ==
    /\ session[se] = "absent"
    /\ session' = [session EXCEPT ![se] = "active"]
    /\ UNCHANGED <<queue, running, reading, pc>>

Busy(t) == t \in Queued \cup running

\* Room, or room made by moving an inode of the session aside.
Queue(t) ==
    /\ session[SessionOf[t]] = "active" /\ ~Busy(t)
    /\ \/ /\ Cardinality(pending) < QueueLimit
          /\ pending' = pending \cup {t} /\ UNCHANGED overflowInodes
       \/ /\ Cardinality(pending) >= QueueLimit /\ ~Full
          /\ \E u \in Of(SessionOf[t], pending) :
                /\ pending' = (pending \ {u}) \cup {t}
                /\ overflowInodes' = overflowInodes \cup {u}
    /\ NotifyOne
    /\ UNCHANGED <<session, sweeps, running, reading>>

NewParentSweep(t) ==
    /\ session[SessionOf[t]] = "active" /\ ~Busy(t)
    /\ Cardinality(pending) >= QueueLimit
    /\ sweeps' = sweeps \cup {t}
    /\ NotifyOne
    /\ UNCHANGED <<session, pending, overflowInodes, running, reading>>

Compensate(t) ==
    /\ session[SessionOf[t]] = "active" /\ ~Busy(t)
    /\ Cardinality(pending) >= QueueLimit /\ ~Full
    /\ overflowInodes' = overflowInodes \cup {t}
    /\ pc' = Woken(Asleep \cup Unstarted)
    /\ UNCHANGED <<session, pending, sweeps, running, reading>>

BeginBackpressure(p) ==
    /\ pc[p] = "out"
    /\ Cardinality(pending) >= QueueLimit /\ Full
    /\ pc' = [pc EXCEPT ![p] = "blocked"]
    /\ UNCHANGED <<session, queue, running, reading>>

\* After a wake-up, or at the deadline.  Which task it holds is not kept.
Admit(p) ==
    /\ pc[p] \in {"blocked", "awake"} /\ ~Full
    /\ \E t \in Task : overflowInodes' = overflowInodes \cup {t}
    /\ pc' = [Woken(Asleep \cup Unstarted) EXCEPT ![p] = "out"]
    /\ UNCHANGED <<session, pending, sweeps, running, reading>>

BlockAgain(p) ==
    /\ pc[p] = "awake" /\ Full
    /\ pc' = [pc EXCEPT ![p] = "blocked"]
    /\ UNCHANGED <<session, queue, running, reading>>

\* The deadline with no room, or the session has gone.
GiveUp(p) ==
    /\ \/ pc[p] = "blocked" /\ Full
       \/ pc[p] = "awake" /\ \E se \in Session : session[se] # "active"
    /\ pc' = [pc EXCEPT ![p] = "out"]
    /\ UNCHANGED <<session, queue, running, reading>>

-----------------------------------------------------------------------------
\* InvalidationWorker.
Look ==
    /\ pc[Worker] = "looking" /\ sweeps = {} /\ overflowInodes = {}
    /\ pc' = [pc EXCEPT ![Worker] = IF pending = {} THEN "asleep" ELSE "dozing"]
    /\ UNCHANGED <<session, queue, running, reading>>

FirstTaskIsDue ==
    /\ pc[Worker] = "dozing"
    /\ pc' = [pc EXCEPT ![Worker] = "looking"]
    /\ UNCHANGED <<session, queue, running, reading>>

Removed(t) ==
    \/ /\ t \in pending
       /\ pending' = pending \ {t} /\ UNCHANGED <<sweeps, overflowInodes>>
    \/ /\ t \in overflowInodes
       /\ overflowInodes' = overflowInodes \ {t} /\ UNCHANGED <<pending, sweeps>>
    \/ /\ t \in sweeps /\ overflowInodes = {}
       /\ sweeps' = sweeps \ {t} /\ UNCHANGED <<pending, overflowInodes>>

\* Defect: only one of those who wait for room or for the end hears of it.
TakeNotifyingOne(t) ==
    /\ pc[Worker] = "looking"
    /\ Removed(t)
    /\ running' = IF session[SessionOf[t]] = "active" THEN {t} ELSE {}
    /\ \E u \in Asleep \cup {Worker} :
          pc' = [Woken({u}) EXCEPT ![Worker] = IF running' = {} THEN "looking" ELSE "notifying"]
    /\ UNCHANGED <<session, reading>>

\* A task of a session that has gone is settled at once.
Take(t) ==
    /\ pc[Worker] = "looking"
    /\ Removed(t)
    /\ running' = IF session[SessionOf[t]] = "active" THEN {t} ELSE {}
    /\ pc' = [Woken(Asleep) EXCEPT ![Worker] = IF running' = {} THEN "looking" ELSE "notifying"]
    /\ UNCHANGED <<session, reading>>

\* Defect: the running task is not taken back.
CompleteKeepingTask ==
    /\ pc[Worker] = "notifying"
    /\ pc' = [Woken(Asleep) EXCEPT ![Worker] = "looking"]
    /\ UNCHANGED <<session, queue, running, reading>>

\* A root sweep may be asked for again and goes back into the queue.
CompleteTask ==
    /\ pc[Worker] = "notifying"
    /\ pc' = [Woken(Asleep) EXCEPT ![Worker] = "looking"]
    /\ running' = {}
    /\ \/ UNCHANGED pending
       \/ /\ \A t \in running : session[SessionOf[t]] = "active"
          /\ pending' = pending \cup running
    /\ UNCHANGED <<session, sweeps, overflowInodes, reading>>

-----------------------------------------------------------------------------
\* WaitForHideInvalidation.  rootPending and rootNeedsReplay, which it looks at
\* too, stand for a root task that is queued or running.
BeginWait(w) ==
    /\ pc[w] = "out" /\ ~Idle
    /\ pc' = [pc EXCEPT ![w] = "blocked"]
    /\ UNCHANGED <<session, queue, running, reading>>

WaitAgain(w) ==
    /\ pc[w] = "awake" /\ ~Idle
    /\ pc' = [pc EXCEPT ![w] = "blocked"]
    /\ UNCHANGED <<session, queue, running, reading>>

\* Idle at a wake-up, or the deadline.
EndWait(w) ==
    /\ pc[w] = "blocked" \/ (pc[w] = "awake" /\ Idle)
    /\ pc' = [pc EXCEPT ![w] = "out"]
    /\ UNCHANGED <<session, queue, running, reading>>

-----------------------------------------------------------------------------
\* RetireFuseSession and FinishFuseSessionDestroy.
Retire(se) ==
    /\ session[se] = "active"
    /\ session' = [session EXCEPT ![se] = "retiring"]
    /\ pending' = pending \ Of(se, pending)
    /\ sweeps' = sweeps \ Of(se, sweeps)
    /\ overflowInodes' = overflowInodes \ Of(se, overflowInodes)
    /\ pc' = [Woken(Asleep) EXCEPT ![se] = IF Held(se) THEN "blocked" ELSE "out"]
    /\ UNCHANGED <<running, reading>>

\* Woken, or a second has passed.
LookAtHolders(se) ==
    /\ pc[se] \in {"awake", "blocked"}
    /\ pc' = [pc EXCEPT ![se] = IF Held(se) THEN "blocked" ELSE "out"]
    /\ UNCHANGED <<session, queue, running, reading>>

FinishFuseSessionDestroy(se) ==
    /\ session[se] = "retiring" /\ pc[se] = "out"
    /\ session' = [session EXCEPT ![se] = "absent"]
    /\ UNCHANGED <<queue, running, reading, pc>>

-----------------------------------------------------------------------------
\* ResolveUnknownPrimaryRootNodes.
BeginProbes(r) ==
    /\ reading[r] = {}
    /\ \E chosen \in SUBSET {se \in Session : session[se] = "active"} :
          reading' = [reading EXCEPT ![r] = chosen]
    /\ UNCHANGED <<session, queue, running, pc>>

\* Defect: the end of a probe is told to one thread.
EndProbeNotifyingOne(r) ==
    /\ \E se \in reading[r] : reading' = [reading EXCEPT ![r] = @ \ {se}]
    /\ NotifyOne
    /\ UNCHANGED <<session, queue, running>>

EndProbe(r) ==
    /\ \E se \in reading[r] : reading' = [reading EXCEPT ![r] = @ \ {se}]
    /\ NotifyAll
    /\ UNCHANGED <<session, queue, running>>

-----------------------------------------------------------------------------
Next ==
    \/ \E t \in Task : Queue(t) \/ NewParentSweep(t) \/ Compensate(t) \/ Take(t)
    \/ Look \/ FirstTaskIsDue \/ CompleteTask
    \/ \E p \in Publisher :
          BeginBackpressure(p) \/ Admit(p) \/ BlockAgain(p) \/ GiveUp(p)
    \/ \E w \in Waiter : BeginWait(w) \/ WaitAgain(w) \/ EndWait(w)
    \/ \E se \in Session :
          \/ RegisterSession(se) \/ Retire(se)
          \/ LookAtHolders(se) \/ FinishFuseSessionDestroy(se)
    \/ \E r \in Reader : BeginProbes(r) \/ EndProbe(r)

Spec == Init /\ [][Next]_vars

\* A look-up in a node tree returns.  Nothing else is owed: neither more requests,
\* nor the end of a session, nor a deadline.
Fairness == \A r \in Reader : WF_vars(EndProbe(r))

FairSpec == Spec /\ Fairness

-----------------------------------------------------------------------------
\* Types; the worker runs a task exactly while it notifies.
TypeOK ==
    /\ session \in [Session -> {"absent", "active", "retiring"}]
    /\ pending \subseteq Task /\ sweeps \subseteq Task /\ overflowInodes \subseteq Task
    /\ running \subseteq Task
    /\ reading \in [Reader -> SUBSET Session]
    /\ pc \in [Thread -> {"unstarted", "looking", "asleep", "dozing", "notifying",
                          "out", "blocked", "awake"}]
    /\ pc[Worker] \in {"unstarted", "looking", "asleep", "dozing", "notifying"}
    /\ \A t \in Thread \ {Worker} : pc[t] \in {"out", "blocked", "awake"}
    /\ pc[Worker] # "notifying" => running = {}

\* No publisher sleeps beside free room, no wait for a publication beside an
\* idle queue, and no destroy beside a session nobody holds: whoever makes the
\* condition true wakes everybody in the same hold of the mutex.
NobodySleepsInVain ==
    /\ \A p \in Publisher : pc[p] = "blocked" => Full
    /\ \A w \in Waiter : pc[w] = "blocked" => ~Idle
    /\ \A se \in Session : pc[se] = "blocked" => Held(se)

\* New work wakes one thread only, and a destroy that waits for the reader of a
\* node tree may be that one.  The worker then sleeps beside its work, but
\* never without a reader whose end will wake everybody.
SleepingWorkerIsOwedAWakeup ==
    pc[Worker] = "asleep" /\ Queued # {} => \E r \in Reader : reading[r] # {}

\* A worker asleep beside its work does not need another request to be woken.
SleepingWorkerIsWoken ==
    pc[Worker] = "asleep" /\ Queued # {} ~> pc[Worker] # "asleep" \/ Queued = {}
=============================================================================

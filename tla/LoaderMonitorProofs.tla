------------------------- MODULE LoaderMonitorProofs -------------------------
(***************************************************************************)
(* NativeHost and LoaderMonitor for every number of threads and hosts and  *)
(* every limit of the gate: first what the host promises, then that the    *)
(* composition keeps it, that the runtime starts at most once and that the *)
(* loader is never left with a replacement that has no original.           *)
(***************************************************************************)
EXTENDS LoaderMonitor, FiniteSetTheorems, TLAPS

-----------------------------------------------------------------------------
(***************************************************************************)
(* NativeHost.  The gate is drained by its count, so that count has to be  *)
(* exact; the binding is whole because the one thread that may store       *)
(* pointers is named by the initialisation state.                          *)
(***************************************************************************)
Binding == {"hook", "unhook", "strict", "ready"}

\* A thread that stores pointers is the one the state names, and the only one.
OneBinder ==
    /\ \A t \in Thread : thread[t].pc \in Binding =>
          initState = [phase |-> "initializing", host |-> thread[t].host]
    /\ \A t, u \in Thread : thread[t].pc \in Binding /\ thread[u].pc \in Binding => t = u

\* What it has stored so far.
Stored ==
    \A t \in Thread :
        /\ thread[t].pc \in {"unhook", "strict", "ready"} => hookInstaller = thread[t].host
        /\ thread[t].pc \in {"strict", "ready"} => ownerUnhook = thread[t].host
        /\ thread[t].pc = "ready" =>
              strictInstaller = IF thread[t].host \in StrictHost THEN thread[t].host ELSE NoHost

\* The callback goes out with the announcement.
Handed == callbacks = IF initState.phase = "ready" THEN 1 ELSE 0

Counted == control.entrants \in Nat /\ GateIsExact

IInv == TypeOK /\ Counted /\ ClosedIsEmpty /\ OneBinder /\ Stored /\ BoundHostIsWhole /\ Handed

-----------------------------------------------------------------------------
\* Who enters is one more, who leaves one less, who stays changes nothing.
LEMMA InsideChanges ==
    ASSUME TypeOK, HostAssumption, NEW t \in Thread, NEW s \in ThreadState,
           thread' = [thread EXCEPT ![t] = s]
    PROVE  /\ IsFiniteSet(Inside) /\ Cardinality(Inside) \in Nat
           /\ thread[t].pc = "idle" /\ s.pc # "idle" =>
                 Inside' = Inside \cup {t} /\ Cardinality(Inside') = Cardinality(Inside) + 1
           /\ thread[t].pc # "idle" /\ s.pc = "idle" =>
                 /\ Inside' = Inside \ {t} /\ Cardinality(Inside') = Cardinality(Inside) - 1
                 /\ Cardinality(Inside) # 0
           /\ thread[t].pc # "idle" /\ s.pc # "idle" => Inside' = Inside
<1>1. IsFiniteSet(Inside)
  <2>1. Inside \subseteq Thread  BY DEF Inside
  <2>2. IsFiniteSet(Thread)  BY DEF HostAssumption
  <2> QED  BY <2>1, <2>2, FS_Subset
<1>2. Cardinality(Inside) \in Nat  BY <1>1, FS_CardinalityType
<1>3. \A u \in Thread : thread'[u] = IF u = t THEN s ELSE thread[u]  BY DEF TypeOK
<1>4. ASSUME thread[t].pc = "idle", s.pc # "idle"
      PROVE  Inside' = Inside \cup {t} /\ Cardinality(Inside') = Cardinality(Inside) + 1
  <2>1. Inside' = Inside \cup {t}  BY <1>3, <1>4 DEF Inside
  <2>2. t \notin Inside  BY <1>4 DEF Inside
  <2> QED  BY <2>1, <2>2, <1>1, FS_AddElement
<1>5. ASSUME thread[t].pc # "idle", s.pc = "idle"
      PROVE  /\ Inside' = Inside \ {t} /\ Cardinality(Inside') = Cardinality(Inside) - 1
             /\ Cardinality(Inside) # 0
  <2>1. Inside' = Inside \ {t}  BY <1>3, <1>5 DEF Inside
  <2>2. t \in Inside  BY <1>5 DEF Inside
  <2>3. Cardinality(Inside') = Cardinality(Inside) - 1
    BY <2>1, <2>2, <1>1, FS_RemoveElement
  <2>4. Cardinality(Inside) # 0  BY <2>2, <1>1, FS_EmptySet
  <2> QED  BY <2>1, <2>3, <2>4
<1>6. ASSUME thread[t].pc # "idle", s.pc # "idle"
      PROVE  Inside' = Inside
  BY <1>3, <1>6 DEF Inside
<1> QED  BY <1>1, <1>2, <1>4, <1>5, <1>6

LEMMA InitIInv == ASSUME HostAssumption, Init PROVE IInv
<1> USE DEF Init, Idle
<1>1. TypeOK  BY DEF HostAssumption, TypeOK, ThreadState
<1>2. Inside = {}  BY DEF Inside
<1>3. Counted /\ ClosedIsEmpty  BY <1>2, FS_EmptySet DEF Counted, GateIsExact, ClosedIsEmpty
<1>4. OneBinder /\ Stored /\ BoundHostIsWhole /\ Handed
  BY DEF OneBinder, Stored, BoundHostIsWhole, Handed, Binding
<1> QED  BY <1>1, <1>3, <1>4 DEF IInv

\* The gate: whatever a thread does, its count stays exact, and nobody enters a
\* closed gate.
LEMMA StepKeepsGate ==
    ASSUME HostAssumption, IInv, [Next]_vars
    PROVE  TypeOK' /\ Counted' /\ ClosedIsEmpty'
<1> USE DEF IInv
<1> DEFINE Kept == TypeOK' /\ Counted' /\ ClosedIsEmpty'
<1>types. /\ control \in [state: {"active", "draining", "closed"}, entrants: 0..MaxEntrants]
          /\ control.entrants \in Nat /\ MaxEntrants \in Nat
          /\ control.entrants = Cardinality(Inside)
  BY DEF TypeOK, Counted, GateIsExact, HostAssumption
<1>stay. ASSUME UNCHANGED control, NEW t \in Thread, NEW s \in ThreadState,
                thread' = [thread EXCEPT ![t] = s], thread[t].pc # "idle", s.pc # "idle",
                TypeOK'
         PROVE  Kept
  <2>1. Inside' = Inside  BY <1>stay, InsideChanges
  <2> QED  BY <2>1, <1>stay DEF Counted, GateIsExact, ClosedIsEmpty
<1>enter. ASSUME TryEnter, NEW t \in Thread, NEW s \in ThreadState,
                 thread' = [thread EXCEPT ![t] = s], thread[t].pc = "idle", s.pc # "idle",
                 UNCHANGED <<initState, pointers, callbacks>>
          PROVE  Kept
  <2>1. Cardinality(Inside') = Cardinality(Inside) + 1  BY <1>enter, InsideChanges
  <2>2. control' = [control EXCEPT !.entrants = @ + 1] /\ control.state = "active"
        /\ control.entrants # MaxEntrants
    BY <1>enter DEF TryEnter
  <2>3. /\ control' \in [state: {"active", "draining", "closed"}, entrants: 0..MaxEntrants]
        /\ control'.state = "active" /\ control'.entrants = control.entrants + 1
    BY <1>types, <2>2
  <2>4. thread' \in [Thread -> ThreadState]  BY <1>enter DEF TypeOK
  <2>5. TypeOK'  BY <2>3, <2>4, <1>enter DEF TypeOK, pointers
  <2>6. Counted' /\ ClosedIsEmpty'
    BY <2>1, <2>3, <1>types DEF Counted, GateIsExact, ClosedIsEmpty
  <2> QED  BY <2>5, <2>6
<1>1. CASE CloseAdmission
  <2>1. Inside' = Inside  BY <1>1 DEF CloseAdmission, Inside
  <2>2. TypeOK'  BY <1>1 DEF CloseAdmission, TypeOK, pointers
  <2>3. control'.state = "draining" /\ control'.entrants = control.entrants
    BY <1>1, <1>types DEF CloseAdmission
  <2> QED  BY <2>1, <2>2, <2>3, <1>types DEF Counted, GateIsExact, ClosedIsEmpty
<1>2. CASE FinishDrain
  <2>1. Inside' = Inside  BY <1>2 DEF FinishDrain, Inside
  <2>2. control'.state = "closed" /\ control'.entrants = 0 /\ control.entrants = 0
    BY <1>2, <1>types DEF FinishDrain
  <2>3. TypeOK'  BY <1>2, <1>types DEF FinishDrain, TypeOK, pointers
  <2>4. Inside = {}
    <3>1. IsFiniteSet(Inside)  BY FS_Subset DEF Inside, HostAssumption
    <3> QED  BY <3>1, <2>2, <1>types, FS_EmptySet
  <2> QED  BY <2>1, <2>2, <2>3, <2>4, <1>types DEF Counted, GateIsExact, ClosedIsEmpty
<1>3. ASSUME NEW t \in Thread, NEW h \in Host, CallNativeInit(t, h)
      PROVE  Kept
  <2> DEFINE s == [pc |-> "begin", host |-> h]
  <2>1. s \in ThreadState /\ s.pc # "idle"  BY DEF ThreadState
  <2>2. TryEnter /\ thread' = [thread EXCEPT ![t] = s] /\ thread[t].pc = "idle"
        /\ UNCHANGED <<initState, pointers, callbacks>>
    BY <1>3 DEF CallNativeInit
  <2> HIDE DEF s
  <2> QED  BY <2>1, <2>2, <1>enter
<1>4. ASSUME NEW t \in Thread, PostNativeInit(t)
      PROVE  Kept
  <2> DEFINE s == [pc |-> "install", host |-> NoHost]
  <2>1. s \in ThreadState /\ s.pc # "idle"  BY DEF ThreadState
  <2>2. TryEnter /\ thread' = [thread EXCEPT ![t] = s] /\ thread[t].pc = "idle"
        /\ UNCHANGED <<initState, pointers, callbacks>>
    BY <1>4 DEF PostNativeInit
  <2> HIDE DEF s
  <2> QED  BY <2>1, <2>2, <1>enter
<1>5. ASSUME NEW t \in Thread, Exit(t)
      PROVE  Kept
  <2> DEFINE s == [thread[t] EXCEPT !.pc = "idle"]
  <2>1. s \in ThreadState /\ s.pc = "idle"  BY DEF ThreadState, TypeOK
  <2>2. thread' = [thread EXCEPT ![t] = s] /\ thread[t].pc # "idle"
    BY <1>5 DEF Exit, Go, TypeOK
  <2>3. control' = [control EXCEPT !.entrants = @ - 1] /\ UNCHANGED <<initState, pointers, callbacks>>
    BY <1>5 DEF Exit
  <2> HIDE DEF s
  <2>4. Inside' = Inside \ {t} /\ Cardinality(Inside') = Cardinality(Inside) - 1
        /\ Cardinality(Inside) # 0
    BY <2>1, <2>2, InsideChanges
  <2>5. /\ control' \in [state: {"active", "draining", "closed"}, entrants: 0..MaxEntrants]
        /\ control'.state = control.state /\ control'.entrants = control.entrants - 1
    BY <1>types, <2>3, <2>4
  <2>6. thread' \in [Thread -> ThreadState]  BY <2>1, <2>2 DEF TypeOK
  <2>7. TypeOK'  BY <2>3, <2>5, <2>6 DEF TypeOK, pointers
  <2>8. Counted' /\ ClosedIsEmpty'
    BY <2>4, <2>5, <1>types DEF Counted, GateIsExact, ClosedIsEmpty
  <2> QED  BY <2>7, <2>8
<1>6. ASSUME NEW t \in Thread, NEW from, NEW to \in {"hook", "unhook", "strict", "ready", "exit"},
             from # "idle", Go(t, from, to), UNCHANGED control,
             initState' \in [phase: {"uninitialized", "initializing", "ready"}, host: Host \cup {NoHost}],
             {hookInstaller, ownerUnhook, strictInstaller}' \subseteq Host \cup {NoHost},
             callbacks' \in 0..2
      PROVE  Kept
  <2> DEFINE s == [thread[t] EXCEPT !.pc = to]
  <2>1. s \in ThreadState /\ s.pc # "idle"  BY <1>6 DEF ThreadState, TypeOK
  <2>2. thread' = [thread EXCEPT ![t] = s] /\ thread[t].pc # "idle"
    BY <1>6 DEF Go, TypeOK
  <2> HIDE DEF s
  <2>3. thread' \in [Thread -> ThreadState]  BY <2>1, <2>2 DEF TypeOK
  <2>4. TypeOK'  BY <2>3, <1>6, <1>types DEF TypeOK
  <2> QED  BY <2>1, <2>2, <2>4, <1>6, <1>stay
<1>7. ASSUME NEW t \in Thread, BeginNativeModuleInit(t)
      PROVE  Kept
  <2>1. thread[t].host \in Host \cup {NoHost}  BY DEF TypeOK, ThreadState
  <2>2. initState' \in [phase: {"uninitialized", "initializing", "ready"}, host: Host \cup {NoHost}]
    BY <1>7, <2>1 DEF BeginNativeModuleInit, TypeOK
  <2>3. UNCHANGED control /\ {hookInstaller, ownerUnhook, strictInstaller}' \subseteq Host \cup {NoHost}
        /\ callbacks' \in 0..2
    BY <1>7 DEF BeginNativeModuleInit, TypeOK, pointers
  <2>4. Go(t, "begin", "hook") \/ Go(t, "begin", "exit")  BY <1>7 DEF BeginNativeModuleInit
  <2> QED  BY <2>2, <2>3, <2>4, <1>6
<1>8. ASSUME NEW t \in Thread,
             StoreHookInstaller(t) \/ StoreOwnerUnhook(t) \/ StoreStrictInstaller(t)
      PROVE  Kept
  <2>1. thread[t].host \in Host \cup {NoHost}  BY DEF TypeOK, ThreadState
  <2>2. /\ UNCHANGED <<control, initState, callbacks>>
        /\ {hookInstaller, ownerUnhook, strictInstaller}' \subseteq Host \cup {NoHost}
    BY <1>8, <2>1 DEF StoreHookInstaller, StoreOwnerUnhook, StoreStrictInstaller, TypeOK
  <2>3. Go(t, "hook", "unhook") \/ Go(t, "unhook", "strict") \/ Go(t, "strict", "ready")
    BY <1>8 DEF StoreHookInstaller, StoreOwnerUnhook, StoreStrictInstaller
  <2>4. initState' \in [phase: {"uninitialized", "initializing", "ready"}, host: Host \cup {NoHost}]
        /\ callbacks' \in 0..2
    BY <2>2 DEF TypeOK
  <2> QED  BY <2>2, <2>3, <2>4, <1>6
<1>9. ASSUME NEW t \in Thread, StoreReady(t) \/ EndInstall(t)
      PROVE  Kept
  <2>1. /\ UNCHANGED control
        /\ {hookInstaller, ownerUnhook, strictInstaller}' \subseteq Host \cup {NoHost}
        /\ callbacks' \in 0..2
    BY <1>9 DEF StoreReady, EndInstall, TypeOK, pointers
  <2>2. initState' \in [phase: {"uninitialized", "initializing", "ready"}, host: Host \cup {NoHost}]
    BY <1>9 DEF StoreReady, EndInstall, TypeOK
  <2>3. Go(t, "ready", "exit") \/ Go(t, "install", "exit")  BY <1>9 DEF StoreReady, EndInstall
  <2> QED  BY <2>1, <2>2, <2>3, <1>6
<1>10. CASE UNCHANGED vars
  <2>1. Inside' = Inside  BY <1>10 DEF vars, Inside
  <2> QED
    BY <1>10, <2>1 DEF vars, TypeOK, Counted, GateIsExact, ClosedIsEmpty, pointers
<1> QED  BY <1>1, <1>2, <1>3, <1>4, <1>5, <1>7, <1>8, <1>9, <1>10 DEF Next

\* The binding: only the binder stores, and it announces what it has stored.
LEMMA StepKeepsBinding ==
    ASSUME HostAssumption, IInv, [Next]_vars
    PROVE  OneBinder' /\ Stored' /\ BoundHostIsWhole' /\ Handed'
<1> USE DEF IInv
<1> DEFINE Kept == OneBinder' /\ Stored' /\ BoundHostIsWhole' /\ Handed'
<1>thread. thread \in [Thread -> ThreadState]  BY DEF TypeOK
<1>aside. ASSUME NEW t \in Thread, thread' \in [Thread -> ThreadState],
                 \A u \in Thread \ {t} : thread'[u] = thread[u],
                 thread'[t].pc \notin Binding, UNCHANGED <<initState, pointers, callbacks>>
          PROVE  Kept
  <2>1. OneBinder'  BY <1>aside DEF OneBinder
  <2>2. Stored'  BY <1>aside DEF Stored, Binding, pointers
  <2>3. BoundHostIsWhole' /\ Handed'  BY <1>aside DEF BoundHostIsWhole, Handed, pointers
  <2> QED  BY <2>1, <2>2, <2>3
<1>step. ASSUME NEW t \in Thread, NEW from, NEW to, Go(t, from, to)
         PROVE  /\ \A u \in Thread \ {t} : thread'[u] = thread[u]
                /\ thread[t].pc = from
                /\ thread'[t].pc = to /\ thread'[t].host = thread[t].host
  BY <1>thread, <1>step DEF Go, ThreadState
<1>typed. thread' \in [Thread -> ThreadState]  BY StepKeepsGate DEF TypeOK
<1>1. CASE CloseAdmission \/ FinishDrain \/ UNCHANGED vars
  BY <1>1 DEF CloseAdmission, FinishDrain, vars, pointers, OneBinder, Stored, BoundHostIsWhole, Handed
<1>2. ASSUME NEW t \in Thread, NEW h \in Host, CallNativeInit(t, h)
      PROVE  Kept
  <2>1. thread'[t].pc = "begin" /\ (\A u \in Thread \ {t} : thread'[u] = thread[u])
        /\ UNCHANGED <<initState, pointers, callbacks>>
    BY <1>2, <1>thread DEF CallNativeInit
  <2> QED  BY <2>1, <1>typed, <1>aside DEF Binding
<1>3. ASSUME NEW t \in Thread, PostNativeInit(t)
      PROVE  Kept
  <2>1. thread'[t].pc = "install" /\ (\A u \in Thread \ {t} : thread'[u] = thread[u])
        /\ UNCHANGED <<initState, pointers, callbacks>>
    BY <1>3, <1>thread DEF PostNativeInit
  <2> QED  BY <2>1, <1>typed, <1>aside DEF Binding
<1>4. ASSUME NEW t \in Thread, Exit(t) \/ EndInstall(t)
      PROVE  Kept
  <2>1. (Go(t, "exit", "idle") \/ Go(t, "install", "exit"))
        /\ UNCHANGED <<initState, pointers, callbacks>>
    BY <1>4 DEF Exit, EndInstall
  <2>2. thread'[t].pc \in {"idle", "exit"} /\ (\A u \in Thread \ {t} : thread'[u] = thread[u])
    BY <2>1, <1>step
  <2> QED  BY <2>1, <2>2, <1>typed, <1>aside DEF Binding
<1>5. ASSUME NEW t \in Thread, BeginNativeModuleInit(t)
      PROVE  Kept
  <2>1. CASE initState.phase # "uninitialized"
    <3>1. Go(t, "begin", "exit") /\ UNCHANGED <<initState, pointers, callbacks>>
      BY <1>5, <2>1 DEF BeginNativeModuleInit
    <3> QED  BY <3>1, <1>step, <1>typed, <1>aside DEF Binding
  <2>2. CASE initState.phase = "uninitialized"
    <3>1. /\ Go(t, "begin", "hook") /\ UNCHANGED <<pointers, callbacks>>
          /\ initState' = [phase |-> "initializing", host |-> thread[t].host]
      BY <1>5, <2>2 DEF BeginNativeModuleInit
    <3>2. \A u \in Thread : thread[u].pc \notin Binding  BY <2>2 DEF OneBinder
    <3>3. \A u \in Thread \ {t} : thread'[u].pc \notin Binding  BY <3>1, <3>2, <1>step
    <3>4. thread'[t].pc = "hook" /\ thread'[t].host = thread[t].host  BY <3>1, <1>step
    <3>5. OneBinder'  BY <3>1, <3>3, <3>4 DEF OneBinder
    <3>6. Stored'  BY <3>3, <3>4 DEF Stored, Binding
    <3>7. BoundHostIsWhole' /\ Handed'  BY <3>1, <2>2 DEF BoundHostIsWhole, Handed
    <3> QED  BY <3>5, <3>6, <3>7
  <2> QED  BY <2>1, <2>2
<1>binder. ASSUME NEW t \in Thread, thread[t].pc \in Binding
           PROVE  /\ initState = [phase |-> "initializing", host |-> thread[t].host]
                  /\ \A u \in Thread \ {t} : thread[u].pc \notin Binding
  BY <1>binder DEF OneBinder
<1>6. ASSUME NEW t \in Thread,
             StoreHookInstaller(t) \/ StoreOwnerUnhook(t) \/ StoreStrictInstaller(t)
      PROVE  Kept
  <2>1. thread[t].pc \in {"hook", "unhook", "strict"} /\ UNCHANGED <<initState, callbacks>>
        /\ thread'[t].pc \in {"unhook", "strict", "ready"} /\ thread'[t].host = thread[t].host
        /\ (\A u \in Thread \ {t} : thread'[u] = thread[u])
    BY <1>6, <1>step DEF StoreHookInstaller, StoreOwnerUnhook, StoreStrictInstaller
  <2>2. thread[t].pc \in Binding /\ thread'[t].pc \in Binding  BY <2>1 DEF Binding
  <2>3. OneBinder'  BY <2>1, <2>2, <1>binder DEF OneBinder
  <2>4. \A u \in Thread \ {t} : thread'[u].pc \notin Binding  BY <2>1, <2>2, <1>binder
  <2>5. ASSUME StoreHookInstaller(t) PROVE Stored'
    <3>1. thread'[t].pc = "unhook" /\ hookInstaller' = thread[t].host
      BY <2>5, <1>step DEF StoreHookInstaller
    <3> QED  BY <3>1, <2>1, <2>4 DEF Stored, Binding
  <2>6. ASSUME StoreOwnerUnhook(t) PROVE Stored'
    <3>1. thread[t].pc = "unhook" /\ thread'[t].pc = "strict" /\ ownerUnhook' = thread[t].host
          /\ UNCHANGED hookInstaller
      BY <2>6, <1>step DEF StoreOwnerUnhook
    <3> QED  BY <3>1, <2>1, <2>4 DEF Stored, Binding
  <2>7. ASSUME StoreStrictInstaller(t) PROVE Stored'
    <3>1. /\ thread[t].pc = "strict" /\ thread'[t].pc = "ready"
          /\ strictInstaller' = IF thread[t].host \in StrictHost THEN thread[t].host ELSE NoHost
          /\ UNCHANGED <<hookInstaller, ownerUnhook>>
      BY <2>7, <1>step DEF StoreStrictInstaller
    <3> QED  BY <3>1, <2>1, <2>4 DEF Stored, Binding
  <2>8. BoundHostIsWhole' /\ Handed'
    BY <2>1, <2>2, <1>binder DEF BoundHostIsWhole, Handed
  <2> QED  BY <1>6, <2>3, <2>5, <2>6, <2>7, <2>8
<1>7. ASSUME NEW t \in Thread, StoreReady(t)
      PROVE  Kept
  <2>1. /\ thread[t].pc = "ready" /\ thread'[t].pc = "exit"
        /\ (\A u \in Thread \ {t} : thread'[u] = thread[u])
        /\ initState' = [initState EXCEPT !.phase = "ready"] /\ UNCHANGED pointers
        /\ callbacks' = IF callbacks = 2 THEN 2 ELSE callbacks + 1
    BY <1>7, <1>step DEF StoreReady
  <2>2. initState = [phase |-> "initializing", host |-> thread[t].host]
        /\ \A u \in Thread \ {t} : thread[u].pc \notin Binding
    BY <2>1, <1>binder DEF Binding
  <2>3. \A u \in Thread : thread'[u].pc \notin Binding  BY <2>1, <2>2 DEF Binding
  <2>4. OneBinder' /\ Stored'  BY <2>3 DEF OneBinder, Stored, Binding
  <2>5. initState'.phase = "ready" /\ initState'.host = thread[t].host  BY <2>1, <2>2
  <2>6. BoundHostIsWhole'  BY <2>1, <2>5 DEF BoundHostIsWhole, Stored, pointers
  <2>7. callbacks = 0  BY <2>2 DEF Handed
  <2>8. Handed'  BY <2>1, <2>5, <2>7 DEF Handed
  <2> QED  BY <2>4, <2>6, <2>8
<1> QED  BY <1>1, <1>2, <1>3, <1>4, <1>5, <1>6, <1>7 DEF Next

-----------------------------------------------------------------------------
LEMMA IInvIsInvariant == ASSUME HostAssumption PROVE Spec => []IInv
<1>1. Init => IInv  BY InitIInv
<1>2. IInv /\ [Next]_vars => IInv'
  BY StepKeepsGate, StepKeepsBinding DEF IInv
<1> QED  BY <1>1, <1>2, PTL DEF Spec

\* The types hold for every number of threads; the count never leaves its half
\* of the gate's word (NativeCallbackGate::TryEnter).
THEOREM HostTyped == ASSUME HostAssumption PROVE Spec => []TypeOK
<1>1. IInv => TypeOK  BY DEF IInv
<1> QED  BY <1>1, IInvIsInvariant, PTL

\* The gate's count is the number of threads inside (NativeCallbackGate::InFlight).
THEOREM GateCountsEntrants == ASSUME HostAssumption PROVE Spec => []GateIsExact
<1>1. IInv => GateIsExact  BY DEF IInv, Counted
<1> QED  BY <1>1, IInvIsInvariant, PTL

\* A closed gate has nobody inside (NativeCallbackGate::FinishDrain).
THEOREM ClosedGateIsEmpty == ASSUME HostAssumption PROVE Spec => []ClosedIsEmpty
<1>1. IInv => ClosedIsEmpty  BY DEF IInv
<1> QED  BY <1>1, IInvIsInvariant, PTL

\* An announced binding holds the pointers of one host (native_init, native_init_v3).
THEOREM BindingIsWhole == ASSUME HostAssumption PROVE Spec => []BoundHostIsWhole
<1>1. IInv => BoundHostIsWhole  BY DEF IInv
<1> QED  BY <1>1, IInvIsInvariant, PTL

\* The callback is handed out once (native_init, native_init_v3).
THEOREM CallbackIsHandedOutOnce == ASSUME HostAssumption PROVE Spec => []RegisteredOnce
<1>1. IInv => RegisteredOnce  BY DEF IInv, Handed, RegisteredOnce
<1> QED  BY <1>1, IInvIsInvariant, PTL

-----------------------------------------------------------------------------
(***************************************************************************)
(* LoaderMonitor: the composition.                                         *)
(***************************************************************************)
\* Every step of the composition is one of the host's, or leaves the host alone.
LEMMA StepIsHostStep == ASSUME [StartupNext]_startupVars PROVE [Next]_vars
<1> USE DEF hostVars
<1>1. CASE UNCHANGED startupVars
  BY <1>1 DEF startupVars
<1>2. CASE \/ PreAppSpecialize \/ PostAppSpecialize \/ InstallDlopenMonitor
           \/ PrepareLoaderHook \/ CommitLoaderHook
  BY <1>2 DEF PreAppSpecialize, PostAppSpecialize, InstallDlopenMonitor, PrepareLoaderHook,
              CommitLoaderHook
<1>3. CASE \/ Watch \/ WatchXposed \/ StartXposedObserver \/ WaitForApplication \/ LsposedLoads
  BY <1>3 DEF Watch, WatchXposed, StartXposedObserver, WaitForApplication, LsposedLoads
<1>4. CASE LoadFuseHide
  BY <1>4, LoaderAssumption DEF LoadFuseHide, Next
<1>5. CASE GateCloses
  BY <1>5 DEF GateCloses, Next
<1>6. ASSUME NEW t \in Thread, LoaderStep(t)
      PROVE  [Next]_vars
  <2>1. CASE CallOwnNativeInit(t)
    BY <2>1, LoaderAssumption, HostAssumption DEF CallOwnNativeInit, Next
  <2>2. CASE Report(t)
    BY <2>2 DEF Report, Next
  <2>3. CASE \/ ClaimInit(t) \/ HasOtherFuseHideRuntime(t) \/ GetJniEnv(t) \/ JniOnLoad(t)
             \/ ReceiveCallback(t) \/ Reported(t) \/ StartInjectedJava(t)
    BY <2>3 DEF ClaimInit, HasOtherFuseHideRuntime, GetJniEnv, JniOnLoad, ReceiveCallback,
                Reported, StartInjectedJava
  <2> QED  BY <1>6, <2>1, <2>2, <2>3 DEF LoaderStep
<1>7. ASSUME NEW t \in Thread, HostStep(t)
      PROVE  [Next]_vars
  BY <1>7 DEF HostStep, Next
<1>8. ASSUME NEW t \in Thread, NEW e \in Entry, LoadFuseJni(t, e)
      PROVE  [Next]_vars
  BY <1>8 DEF LoadFuseJni
<1>9. ASSUME NEW t \in Thread, NEW h \in Host, HostCalls(t, h)
      PROVE  [Next]_vars
  BY <1>9 DEF HostCalls, Next
<1> QED  BY <1>1, <1>2, <1>3, <1>4, <1>5, <1>6, <1>7, <1>8, <1>9 DEF StartupNext

\* The loader monitor implements the host binding: whoever starts the runtime,
\* native_init_v3 is called as a host may call it.
THEOREM StartupImplementsHost == StartupSpec => Spec
<1>1. StartupInit => Init  BY DEF StartupInit
<1>2. [StartupNext]_startupVars => [Next]_vars  BY StepIsHostStep
<1> QED  BY <1>1, <1>2, PTL DEF StartupSpec, Spec

\* The gate's count stays exact with every loader thread, the observer and the
\* hosts calling into the library.
THEOREM StartupKeepsGateExact == StartupSpec => []GateIsExact
BY StartupImplementsHost, GateCountsEntrants, HostAssumption, PTL

\* A binding that the module, or a host beside it, announces is one host's.
THEOREM StartupBindsWhole == StartupSpec => []BoundHostIsWhole
BY StartupImplementsHost, BindingIsWhole, HostAssumption, PTL
-----------------------------------------------------------------------------
(***************************************************************************)
(* The loader's entries.                                                   *)
(***************************************************************************)
LoaderTyped == entry \in Entry /\ loaderHook \in [Entry -> [original: BOOLEAN, patched: BOOLEAN]]

\* The entry that is about to be committed has its original.
LoaderInv ==
    /\ LoaderTyped
    /\ LoaderReplacementHasOriginal
    /\ module = "commit" => loaderHook[entry].original

LEMMA InitLoaderInv == ASSUME StartupInit PROVE LoaderInv
BY DEF StartupInit, LoaderInv, LoaderTyped, LoaderReplacementHasOriginal, NoHook, Entry

LEMMA StepKeepsLoaderInv ==
    ASSUME LoaderInv, [StartupNext]_startupVars PROVE LoaderInv'
<1> USE DEF LoaderInv
<1>1. CASE UNCHANGED <<loaderHook, entry>> /\ (module' # "commit" \/ UNCHANGED module)
  BY <1>1 DEF LoaderTyped, LoaderReplacementHasOriginal
<1>2. CASE UNCHANGED startupVars
  BY <1>2, <1>1 DEF startupVars, monitor
<1>3. CASE PreAppSpecialize
  <2>1. module' # "commit" /\ UNCHANGED entry
    BY <1>3 DEF PreAppSpecialize
  <2>2. CASE UNCHANGED loaderHook
    BY <2>1, <2>2, <1>1
  <2>3. CASE loaderHook' \in InstallEarlyDlopenGotMonitor
    <3>1. \/ loaderHook' = loaderHook
          \/ loaderHook' = [loaderHook EXCEPT !["ext"] = [original |-> TRUE, patched |-> TRUE]]
      BY <2>3 DEF InstallEarlyDlopenGotMonitor
    <3>2. CASE loaderHook' = [loaderHook EXCEPT !["ext"] = [original |-> TRUE, patched |-> TRUE]]
      <4>1. [original |-> TRUE, patched |-> TRUE] \in [original: BOOLEAN, patched: BOOLEAN]
        OBVIOUS
      <4>2. LoaderTyped'
        BY <2>1, <3>2, <4>1 DEF LoaderTyped, Entry
      <4>3. \A e \in Entry : e = "ext" \/ loaderHook'[e] = loaderHook[e]
        BY <3>2 DEF LoaderTyped
      <4>4. loaderHook'["ext"].original
        BY <3>2 DEF LoaderTyped, Entry
      <4>5. LoaderReplacementHasOriginal'
        BY <4>3, <4>4 DEF LoaderReplacementHasOriginal
      <4> QED  BY <2>1, <4>2, <4>5
    <3> QED  BY <3>1, <3>2, <2>2
  <2> QED  BY <1>3, <2>2, <2>3 DEF PreAppSpecialize
<1>4. CASE PrepareLoaderHook
  <2>1. CASE NextEntry /\ UNCHANGED loaderHook
    BY <2>1 DEF NextEntry, LoaderTyped, LoaderReplacementHasOriginal, Entry
  <2>2. CASE loaderHook' = [loaderHook EXCEPT ![entry].original = TRUE] /\ UNCHANGED entry
    BY <2>2 DEF LoaderTyped, LoaderReplacementHasOriginal
  <2> QED  BY <1>4, <2>1, <2>2 DEF PrepareLoaderHook
<1>5. CASE CommitLoaderHook
  <2>1. loaderHook[entry].original /\ entry' = "pub" /\ module' # "commit"
    BY <1>5 DEF CommitLoaderHook, NextEntry
  <2>2. CASE loaderHook' = [loaderHook EXCEPT ![entry].patched = TRUE]
    BY <2>1, <2>2 DEF LoaderTyped, LoaderReplacementHasOriginal, Entry
  <2>3. ASSUME NEW everPublished \in BOOLEAN, NEW ticket \in BOOLEAN,
               loaderHook' = [loaderHook EXCEPT ![entry] =
                    [original |-> everPublished \/ ticket, patched |-> everPublished]]
        PROVE  LoaderInv'
    <3>1. \A e \in Entry : loaderHook'[e] =
              IF e = entry THEN [original |-> everPublished \/ ticket, patched |-> everPublished]
                           ELSE loaderHook[e]
      BY <2>3 DEF LoaderTyped
    <3>2. LoaderReplacementHasOriginal'
      BY <3>1 DEF LoaderReplacementHasOriginal
    <3>3. [original |-> everPublished \/ ticket, patched |-> everPublished]
             \in [original: BOOLEAN, patched: BOOLEAN]
      OBVIOUS
    <3>4. LoaderTyped'
      BY <2>1, <2>3, <3>3 DEF LoaderTyped, Entry
    <3> QED  BY <2>1, <3>2, <3>4
  <2> QED  BY <1>5, <2>2, <2>3 DEF CommitLoaderHook
<1>6. CASE PostAppSpecialize \/ InstallDlopenMonitor \/ LoadFuseHide \/ StartXposedObserver
  BY <1>6, <1>1 DEF PostAppSpecialize, InstallDlopenMonitor, LoadFuseHide, StartXposedObserver
<1>7. CASE Watch \/ WatchXposed \/ WaitForApplication \/ LsposedLoads \/ GateCloses
  BY <1>7, <1>1 DEF Watch, WatchXposed, WaitForApplication, LsposedLoads, GateCloses, monitor
<1>8. ASSUME NEW t \in Thread, LoaderStep(t)
      PROVE  LoaderInv'
  <2>1. UNCHANGED monitor
    BY <1>8 DEF LoaderStep, ClaimInit, HasOtherFuseHideRuntime, GetJniEnv, JniOnLoad,
                CallOwnNativeInit, ReceiveCallback, Report, Reported, StartInjectedJava
  <2> QED  BY <2>1, <1>1 DEF monitor
<1>9. ASSUME NEW t \in Thread,
             HostStep(t) \/ (\E e \in Entry : LoadFuseJni(t, e)) \/ (\E h \in Host : HostCalls(t, h))
      PROVE  LoaderInv'
  <2>1. UNCHANGED monitor
    BY <1>9 DEF HostStep, LoadFuseJni, HostCalls
  <2> QED  BY <2>1, <1>1 DEF monitor
<1> QED  BY <1>2, <1>3, <1>4, <1>5, <1>6, <1>7, <1>8, <1>9 DEF StartupNext

\* No outcome of a Dobby transaction leaves an entry of the loader patched without
\* the original it must call (InstallDlopenMonitor, InstallEarlyDlopenGotMonitor).
THEOREM LoaderNeverLosesOriginal == StartupSpec => []LoaderReplacementHasOriginal
<1>1. StartupInit => LoaderInv  BY InitLoaderInv
<1>2. LoaderInv /\ [StartupNext]_startupVars => LoaderInv'  BY StepKeepsLoaderInv
<1>3. LoaderInv => LoaderReplacementHasOriginal  BY DEF LoaderInv
<1> QED  BY <1>1, <1>2, <1>3, PTL DEF StartupSpec

-----------------------------------------------------------------------------
(***************************************************************************)
(* The start of the runtime.                                               *)
(***************************************************************************)
Starting == {"look", "env", "onLoad"}
Active == Starting \cup {"bind", "binding", "report", "reported"}
Caller == Active \cup {"idle", "claim", "java"}

\* Who has claimed the initialization holds it alone until it is over, and
\* whoever may still call JNI_OnLoad is the first to.
OnceInv ==
    /\ caller \in [Thread -> Caller]
    /\ onLoads \in {0, 1}
    /\ UnderZygisk =>
          /\ \A t \in Thread : caller[t] \in Active => fuseInit = "initializing"
          /\ \A t, u \in Thread : caller[t] \in Active /\ caller[u] \in Active => t = u
    /\ ~UnderZygisk => \A t \in Thread : caller[t] \in {"idle", "report", "reported"}
    /\ \A t \in Thread : caller[t] \in Starting => onLoads = 0
    /\ fuseInit = "notStarted" => onLoads = 0

LEMMA InitOnceInv == ASSUME StartupInit PROVE OnceInv
BY DEF StartupInit, OnceInv, Caller, Active, Starting

\* What a move of one thread does to all of them.
LEMMA MoveOne ==
    ASSUME caller \in [Thread -> Caller], NEW t \in Thread, NEW from, NEW to \in Caller,
           Move(t, from, to)
    PROVE  /\ caller' \in [Thread -> Caller]
           /\ caller[t] = from /\ caller'[t] = to
           /\ \A u \in Thread \ {t} : caller'[u] = caller[u]
BY DEF Move

LEMMA StepKeepsOnceInv ==
    ASSUME OnceInv, [StartupNext]_startupVars PROVE OnceInv'
<1> USE DEF OnceInv
<1> DEFINE Frame == UNCHANGED <<device, onLoads>>
<1>frame. Frame => (UnderZygisk' <=> UnderZygisk)
  BY DEF UnderZygisk
<1>still. CASE Frame /\ UNCHANGED <<caller, fuseInit>>
  BY <1>still, <1>frame
<1>claim. ASSUME Frame, UnderZygisk, UNCHANGED fuseInit, NEW t \in Thread,
                 caller' = [caller EXCEPT ![t] = "claim"]
          PROVE  OnceInv'
  <2>1. /\ caller' \in [Thread -> Caller] /\ caller'[t] = "claim"
        /\ \A u \in Thread \ {t} : caller'[u] = caller[u]
    BY <1>claim DEF Caller
  <2>2. caller'[t] \notin Active
    BY <2>1 DEF Active, Starting
  <2>3. caller'[t] \notin Starting
    BY <2>1 DEF Starting
  <2> QED  BY <1>claim, <1>frame, <2>1, <2>2, <2>3
\* The holder goes on, or ends with a state that is not "notStarted".
<1>held. ASSUME UNCHANGED device, UnderZygisk, NEW t \in Thread, caller[t] \in Active,
                caller' \in [Thread -> Caller], \A u \in Thread \ {t} : caller'[u] = caller[u],
                caller'[t] \in Active => fuseInit' = "initializing",
                onLoads' \in {0, 1}, caller'[t] \in Starting => onLoads' = 0,
                fuseInit' = "notStarted" => onLoads' = 0
         PROVE  OnceInv'
  <2>1. UnderZygisk'
    BY <1>held DEF UnderZygisk
  <2>2. \A u \in Thread \ {t} : caller'[u] \notin Active
    BY <1>held
  <2>3. \A u \in Thread \ {t} : caller'[u] \notin Starting
    BY <2>2 DEF Active
  <2> QED  BY <1>held, <2>1, <2>2, <2>3
<1>zygisk. ASSUME NEW t \in Thread, caller[t] \notin {"idle", "report", "reported"}
           PROVE  UnderZygisk
  BY <1>zygisk
<1> USE DEF Caller, Active, Starting
<1>1. CASE UNCHANGED startupVars
  BY <1>1, <1>still DEF startupVars, loading
<1>2. CASE PostAppSpecialize
  <2>1. Frame /\ UnderZygisk /\ UNCHANGED fuseInit
    BY <1>2 DEF PostAppSpecialize
  <2>2. caller' = [caller EXCEPT ![Main] = "claim"] \/ UNCHANGED caller
    BY <1>2 DEF PostAppSpecialize
  <2> QED  BY <2>1, <2>2, <1>claim, <1>still, LoaderAssumption
<1>3. CASE Watch
  <2>1. Frame /\ UnderZygisk /\ UNCHANGED fuseInit
    BY <1>3 DEF Watch
  <2>2. caller' = [caller EXCEPT ![Watcher] = "claim"] \/ UNCHANGED caller
    BY <1>3 DEF Watch
  <2> QED  BY <2>1, <2>2, <1>claim, <1>still, LoaderAssumption
<1>4. CASE \/ PreAppSpecialize \/ InstallDlopenMonitor \/ PrepareLoaderHook \/ CommitLoaderHook
           \/ WatchXposed \/ LoadFuseHide \/ StartXposedObserver \/ WaitForApplication
           \/ LsposedLoads \/ GateCloses
  <2>1. Frame /\ UNCHANGED <<caller, fuseInit>>
    BY <1>4 DEF PreAppSpecialize, InstallDlopenMonitor, PrepareLoaderHook, CommitLoaderHook,
                WatchXposed, LoadFuseHide, StartXposedObserver, WaitForApplication, LsposedLoads,
                GateCloses, loading
  <2> QED  BY <2>1, <1>still
<1>5. ASSUME NEW t \in Thread, HostStep(t) \/ (\E h \in Host : HostCalls(t, h))
      PROVE  OnceInv'
  <2>1. Frame /\ UNCHANGED <<caller, fuseInit>>
    BY <1>5 DEF HostStep, HostCalls, loading
  <2> QED  BY <2>1, <1>still
<1>6. ASSUME NEW t \in Thread, NEW e \in Entry, LoadFuseJni(t, e)
      PROVE  OnceInv'
  <2>1. Frame /\ UNCHANGED fuseInit
    BY <1>6 DEF LoadFuseJni
  <2>2. CASE UNCHANGED caller
    BY <2>1, <2>2, <1>still
  <2>3. CASE UnderZygisk /\ Move(t, "idle", "claim")
    BY <2>1, <2>3, <1>claim DEF Move
  <2>4. CASE ~UnderZygisk /\ Move(t, "idle", "report")
    BY <2>1, <2>4, <1>frame, MoveOne
  <2> QED  BY <1>6, <2>2, <2>3, <2>4 DEF LoadFuseJni
<1>7. ASSUME NEW t \in Thread, ClaimInit(t)
      PROVE  OnceInv'
  <2>1. Frame /\ UnderZygisk
    BY <1>7, <1>zygisk DEF ClaimInit, Move
  <2>2. CASE fuseInit = "notStarted"
    <3>1. Move(t, "claim", "look") /\ fuseInit' = "initializing"
      BY <1>7, <2>2 DEF ClaimInit
    <3>2. \A u \in Thread : caller[u] \notin Active
      BY <2>1, <2>2
    <3>3. onLoads = 0
      BY <2>2
    <3> QED  BY <2>1, <3>1, <3>2, <3>3, <1>frame, MoveOne
  <2>3. CASE fuseInit # "notStarted"
    <3>1. Move(t, "claim", "idle") /\ UNCHANGED fuseInit
      BY <1>7, <2>3 DEF ClaimInit
    <3> QED  BY <2>1, <3>1, <1>frame, MoveOne
  <2> QED  BY <2>2, <2>3
<1>8. ASSUME NEW t \in Thread, HasOtherFuseHideRuntime(t) \/ GetJniEnv(t)
      PROVE  OnceInv'
  <2>1. Frame /\ UnderZygisk /\ caller[t] \in Starting /\ fuseInit = "initializing" /\ onLoads = 0
    BY <1>8, <1>zygisk DEF HasOtherFuseHideRuntime, GetJniEnv, StopWith, Move
  <2>2. \/ Move(t, "look", "env") /\ UNCHANGED fuseInit
        \/ Move(t, "env", "onLoad") /\ UNCHANGED fuseInit
        \/ Move(t, "look", "idle") \/ Move(t, "env", "idle")
    BY <1>8 DEF HasOtherFuseHideRuntime, GetJniEnv, StopWith
  <2>3. /\ caller' \in [Thread -> Caller] /\ \A u \in Thread \ {t} : caller'[u] = caller[u]
        /\ caller'[t] # "idle" => UNCHANGED fuseInit
    BY <2>2, MoveOne
  <2> QED  BY <2>1, <2>3, <1>held
<1>9. ASSUME NEW t \in Thread, JniOnLoad(t)
      PROVE  OnceInv'
  <2>1. /\ UNCHANGED device /\ UnderZygisk /\ caller[t] = "onLoad"
        /\ fuseInit = "initializing" /\ onLoads = 0
    BY <1>9, <1>zygisk DEF JniOnLoad, StopWith, Move
  <2>2. /\ onLoads' \in {0, 1}
        /\ \/ Move(t, "onLoad", "bind") /\ UNCHANGED fuseInit
           \/ Move(t, "onLoad", "idle") /\ fuseInit' = "failed"
    BY <1>9, <2>1 DEF JniOnLoad, StopWith
  <2>3. /\ caller' \in [Thread -> Caller] /\ \A u \in Thread \ {t} : caller'[u] = caller[u]
        /\ caller'[t] \in {"bind", "idle"}
        /\ caller'[t] = "bind" => UNCHANGED fuseInit
    BY <2>2, MoveOne
  <2>4. fuseInit' # "notStarted"
    BY <2>1, <2>2
  <2> QED  BY <2>1, <2>2, <2>3, <2>4, <1>held
<1>10. ASSUME NEW t \in Thread, CallOwnNativeInit(t) \/ ReceiveCallback(t)
      PROVE  OnceInv'
  <2>1. /\ UNCHANGED <<device, onLoads>> /\ UnderZygisk /\ caller[t] \in {"bind", "binding"}
        /\ fuseInit = "initializing"
    BY <1>10, <1>zygisk DEF CallOwnNativeInit, ReceiveCallback, StopWith, Move
  <2>2. \/ Move(t, "bind", "binding") /\ UNCHANGED fuseInit
        \/ Move(t, "binding", "report") /\ UNCHANGED fuseInit
        \/ (Move(t, "bind", "idle") \/ Move(t, "binding", "idle")) /\ fuseInit' = "failed"
    BY <1>10 DEF CallOwnNativeInit, ReceiveCallback, StopWith
  <2>3. /\ caller' \in [Thread -> Caller] /\ \A u \in Thread \ {t} : caller'[u] = caller[u]
        /\ caller'[t] \in {"binding", "report", "idle"}
        /\ caller'[t] # "idle" => UNCHANGED fuseInit
    BY <2>2, MoveOne
  <2>4. fuseInit' # "notStarted"
    BY <2>1, <2>2
  <2> QED  BY <2>1, <2>2, <2>3, <2>4, <1>held
<1>11. ASSUME NEW t \in Thread, Report(t)
      PROVE  OnceInv'
  <2>1. Frame /\ UNCHANGED fuseInit /\ Move(t, "report", "reported")
    BY <1>11 DEF Report
  <2>2. caller[t] = "report" /\ caller'[t] = "reported" /\ caller' \in [Thread -> Caller]
        /\ \A u \in Thread \ {t} : caller'[u] = caller[u]
    BY <2>1, MoveOne
  <2>3. CASE UnderZygisk
    BY <2>1, <2>2, <2>3, <1>held
  <2>4. CASE ~UnderZygisk
    BY <2>1, <2>2, <2>4, <1>frame
  <2> QED  BY <2>3, <2>4
<1>12. ASSUME NEW t \in Thread, Reported(t)
      PROVE  OnceInv'
  <2>1. CASE UnderZygisk
    <3>1. Frame /\ Move(t, "reported", "java") /\ fuseInit' = "ready"
      BY <1>12, <2>1 DEF Reported
    <3>2. caller[t] = "reported" /\ caller'[t] = "java" /\ caller' \in [Thread -> Caller]
          /\ \A u \in Thread \ {t} : caller'[u] = caller[u]
      BY <3>1, MoveOne
    <3> QED  BY <2>1, <3>1, <3>2, <1>held
  <2>2. CASE ~UnderZygisk
    <3>1. Frame /\ Move(t, "reported", "idle") /\ UNCHANGED fuseInit
      BY <1>12, <2>2 DEF Reported
    <3> QED  BY <2>2, <3>1, <1>frame, MoveOne
  <2> QED  BY <2>1, <2>2
<1>13. ASSUME NEW t \in Thread, StartInjectedJava(t)
      PROVE  OnceInv'
  <2>1. Frame /\ UnderZygisk /\ Move(t, "java", "idle") /\ UNCHANGED fuseInit
    BY <1>13, <1>zygisk DEF StartInjectedJava, Move
  <2> QED  BY <2>1, <1>frame, MoveOne
<1> QED
  BY <1>1, <1>2, <1>3, <1>4, <1>5, <1>6, <1>7, <1>8, <1>9, <1>10, <1>11, <1>12, <1>13
  DEF StartupNext, LoaderStep

\* JNI_OnLoad is called at most once, by however many threads the library is seen
\* and however often a thread fails to be attached (InitFuseHideOnFuseLoaded).
THEOREM RuntimeIsStartedOnce == StartupSpec => []RuntimeStartsOnce
<1>1. StartupInit => OnceInv  BY InitOnceInv
<1>2. OnceInv /\ [StartupNext]_startupVars => OnceInv'  BY StepKeepsOnceInv
<1>3. OnceInv => RuntimeStartsOnce  BY DEF OnceInv, RuntimeStartsOnce
<1> QED  BY <1>1, <1>2, <1>3, PTL DEF StartupSpec
-----------------------------------------------------------------------------
(***************************************************************************)
(* One backend.                                                            *)
(***************************************************************************)
Closed == module \in {"pre", "out"}

\* A module that is closed, or not yet open, starts nothing; an open one has not
\* learned that LSPosed has the process; and the look comes before the start.
BackendInv ==
    /\ UnderZygisk /\ Closed =>
          /\ \A t \in Thread : caller[t] = "idle"
          /\ observer # "watching"
          /\ \A e \in Entry : ~loaderHook[e].patched
          /\ onLoads = 0
    /\ UnderZygisk /\ ~Closed /\ device.scope => answer = "unknown"
    /\ \A t \in Thread : caller[t] \in {"env", "onLoad"} => lookedEarly
    /\ onLoads > 0 => lookedEarly

LEMMA InitBackendInv == ASSUME StartupInit PROVE BackendInv
BY DEF StartupInit, BackendInv, Closed, NoHook, Entry

LEMMA StepKeepsBackendInv ==
    ASSUME OnceInv, BackendInv, [StartupNext]_startupVars PROVE BackendInv'
<1> USE DEF BackendInv, Closed
<1>caller. caller \in [Thread -> Caller]
  BY DEF OnceInv
<1>same. UNCHANGED device => (UnderZygisk' <=> UnderZygisk)
  BY DEF UnderZygisk
<1>still. CASE UNCHANGED <<device, monitor, caller, onLoads, lookedEarly>>
  BY <1>still, <1>same DEF monitor
\* An open module stays open and keeps its answer; another backend is not looked at.
<1>open. ASSUME UNCHANGED <<device, answer>>, UnderZygisk => ~Closed /\ ~Closed',
                \A t \in Thread : caller'[t] \in {"env", "onLoad"} => lookedEarly',
                onLoads' > 0 => lookedEarly'
         PROVE  BackendInv'
  BY <1>open, <1>same
<1>busy. ASSUME NEW t \in Thread, caller[t] # "idle", UnderZygisk
         PROVE  ~Closed
  BY <1>busy
<1>1. CASE UNCHANGED startupVars
  BY <1>1, <1>still DEF startupVars, loading
<1>2. CASE PreAppSpecialize
  <2>1. /\ UNCHANGED <<device, caller, observer, onLoads, lookedEarly>> /\ UnderZygisk /\ module = "pre"
    BY <1>2 DEF PreAppSpecialize, loading
  <2>2. CASE module' = "out" /\ UNCHANGED loaderHook
    BY <2>1, <2>2, <1>same
  <2>3. CASE answer' \in QueryLsposedScope /\ answer' # "enabled" /\ module' = "post"
    <3>1. device.scope => answer' = "unknown"
      BY <2>3 DEF QueryLsposedScope
    <3> QED  BY <2>1, <2>3, <3>1, <1>same
  <2> QED  BY <1>2, <2>2, <2>3 DEF PreAppSpecialize
<1>3. CASE PostAppSpecialize
  <2>1. UNCHANGED <<device, answer, onLoads, lookedEarly>> /\ ~Closed /\ ~Closed'
    BY <1>3 DEF PostAppSpecialize
  <2>2. caller' = [caller EXCEPT ![Main] = "claim"] \/ UNCHANGED caller
    BY <1>3 DEF PostAppSpecialize
  <2> QED  BY <2>1, <2>2, <1>open, <1>caller
<1>4. CASE Watch
  <2>1. UNCHANGED <<device, answer, onLoads, lookedEarly, module>> /\ observer = "watching"
    BY <1>4 DEF Watch
  <2>2. caller' = [caller EXCEPT ![Watcher] = "claim"] \/ UNCHANGED caller
    BY <1>4 DEF Watch
  <2> QED  BY <2>1, <2>2, <1>open, <1>caller
<1>5. CASE InstallDlopenMonitor \/ PrepareLoaderHook \/ CommitLoaderHook \/ StartXposedObserver
  <2>1. UNCHANGED <<device, answer, caller, onLoads, lookedEarly>> /\ ~Closed /\ ~Closed'
    BY <1>5 DEF InstallDlopenMonitor, PrepareLoaderHook, CommitLoaderHook, StartXposedObserver,
                NextEntry, loading
  <2> QED  BY <2>1, <1>open
<1>6. CASE WatchXposed \/ LoadFuseHide
  <2>1. UNCHANGED <<device, answer, caller, onLoads, lookedEarly>> /\ ~UnderZygisk
    BY <1>6 DEF WatchXposed, LoadFuseHide, loading
  <2> QED  BY <2>1, <1>open
<1>7. CASE WaitForApplication \/ LsposedLoads \/ GateCloses
  BY <1>7, <1>still DEF WaitForApplication, LsposedLoads, GateCloses, loading
<1>8. ASSUME NEW t \in Thread, HostStep(t) \/ (\E h \in Host : HostCalls(t, h))
      PROVE  BackendInv'
  BY <1>8, <1>still DEF HostStep, HostCalls, loading
<1>9. ASSUME NEW t \in Thread, NEW e \in Entry, LoadFuseJni(t, e)
      PROVE  BackendInv'
  <2>1. UNCHANGED <<device, monitor, onLoads, lookedEarly>>
    BY <1>9 DEF LoadFuseJni
  <2>2. CASE UNCHANGED caller
    BY <2>1, <2>2, <1>still
  <2>3. ASSUME NEW to \in {"claim", "report"}, Move(t, "idle", to), UnderZygisk => ~Closed
        PROVE  BackendInv'
    <3>1. \A u \in Thread : caller'[u] \in {"env", "onLoad"} => lookedEarly'
      BY <2>1, <2>3, <1>caller DEF Move
    <3> QED  BY <2>1, <2>3, <3>1, <1>open DEF monitor
  <2>4. CASE UnderZygisk /\ loaderHook[e].patched /\ Move(t, "idle", "claim")
    BY <2>3, <2>4
  <2>5. CASE ~UnderZygisk /\ Move(t, "idle", "report")
    BY <2>3, <2>5
  <2> QED  BY <1>9, <2>2, <2>4, <2>5 DEF LoadFuseJni
<1>10. ASSUME NEW t \in Thread, LoaderStep(t)
      PROVE  BackendInv'
  <2>1. UNCHANGED <<device, monitor>>
    BY <1>10 DEF LoaderStep, ClaimInit, HasOtherFuseHideRuntime, GetJniEnv, JniOnLoad,
                 CallOwnNativeInit, ReceiveCallback, Report, Reported, StartInjectedJava
  <2>2. caller[t] # "idle"
    BY <1>10 DEF LoaderStep, ClaimInit, HasOtherFuseHideRuntime, GetJniEnv, JniOnLoad, StopWith,
                 CallOwnNativeInit, ReceiveCallback, Report, Reported, StartInjectedJava, Move
  <2>3. UnderZygisk => ~Closed /\ ~Closed'
    BY <2>1, <2>2, <1>busy DEF monitor
  <2>moved. ASSUME NEW from, NEW to \in Caller, Move(t, from, to), UNCHANGED onLoads,
                   to \in {"env", "onLoad"} => lookedEarly', lookedEarly => lookedEarly'
            PROVE  BackendInv'
    <3>1. \A u \in Thread : caller'[u] \in {"env", "onLoad"} => lookedEarly'
      BY <2>moved, <1>caller DEF Move
    <3> QED  BY <2>1, <2>3, <2>moved, <3>1, <1>open DEF monitor
  <2> USE DEF Caller, Active, Starting
  <2>4. CASE ClaimInit(t)
    BY <2>4, <2>moved DEF ClaimInit
  <2>5. CASE HasOtherFuseHideRuntime(t)
    BY <2>5, <2>moved DEF HasOtherFuseHideRuntime, StopWith
  <2>6. CASE GetJniEnv(t)
    <3>1. caller[t] = "env" /\ UNCHANGED <<lookedEarly, onLoads>>
      BY <2>6 DEF GetJniEnv, StopWith, Move
    <3> QED  BY <2>6, <3>1, <2>moved DEF GetJniEnv, StopWith
  <2>7. CASE JniOnLoad(t)
    <3>1. caller[t] = "onLoad" /\ UNCHANGED lookedEarly
      BY <2>7 DEF JniOnLoad, StopWith, Move
    <3>2. \A u \in Thread : caller'[u] \in {"env", "onLoad"} => lookedEarly'
      BY <3>1
    <3> QED  BY <2>1, <2>3, <3>1, <3>2, <1>open DEF monitor
  <2>8. CASE CallOwnNativeInit(t) \/ ReceiveCallback(t) \/ Report(t)
    BY <2>8, <2>moved DEF CallOwnNativeInit, ReceiveCallback, Report, StopWith
  <2>9. CASE Reported(t) \/ StartInjectedJava(t)
    BY <2>9, <2>moved DEF Reported, StartInjectedJava
  <2> QED  BY <1>10, <2>4, <2>5, <2>6, <2>7, <2>8, <2>9 DEF LoaderStep
<1> QED
  BY <1>1, <1>2, <1>3, <1>4, <1>5, <1>6, <1>7, <1>8, <1>9, <1>10 DEF StartupNext

\* The module starts its runtime in a process of LSPosed's scope only when it could
\* not learn the scope and saw no other runtime (PreAppSpecialize, HasOtherFuseHideRuntime).
THEOREM BackendsExclude == StartupSpec => []OneBackend
<1>1. StartupInit => OnceInv /\ BackendInv  BY InitOnceInv, InitBackendInv
<1>2. OnceInv /\ BackendInv /\ [StartupNext]_startupVars => OnceInv' /\ BackendInv'
  BY StepKeepsOnceInv, StepKeepsBackendInv
<1>3. OnceInv /\ BackendInv => OneBackend
  BY DEF OnceInv, BackendInv, OneBackend
<1> QED  BY <1>1, <1>2, <1>3, PTL DEF StartupSpec
=============================================================================

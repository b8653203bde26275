----------------------------- MODULE NativeHost -----------------------------
(***************************************************************************)
(* Binding libfusehide.so to the framework that loads it: native_init and  *)
(* native_init_v3 (jni/jni_entry.cpp) take the hook functions of a host    *)
(* and hand out one callback, PostNativeInit, behind the admission gate of *)
(* native_callback_gate.hpp.  A host calls from any thread, and again.     *)
(***************************************************************************)
EXTENDS Naturals, FiniteSets

CONSTANTS
    Thread, Host,
    StrictHost,          \* the hosts of version 3
    NoHost,
    MaxEntrants          \* the largest count the gate can hold, 2^32 - 1 in the code

ASSUME HostAssumption ==
    /\ IsFiniteSet(Thread)
    /\ StrictHost \subseteq Host /\ NoHost \notin Host
    /\ MaxEntrants \in Nat

VARIABLES
    control,             \* state and entrants of the gate, one atomic word
    initState,           \* gNativeModuleInitState, with the host it belongs to
    hookInstaller, ownerUnhook, strictInstaller,     \* by the host they point into
    thread,
    callbacks            \* how often PostNativeInit was handed out (history)

pointers == <<hookInstaller, ownerUnhook, strictInstaller>>
vars == <<control, initState, pointers, thread, callbacks>>

Idle == [pc |-> "idle", host |-> NoHost]
ThreadState == [pc: {"idle", "begin", "hook", "unhook", "strict", "ready", "install", "exit"},
                host: Host \cup {NoHost}]

Init ==
    /\ control = [state |-> "active", entrants |-> 0]
    /\ initState = [phase |-> "uninitialized", host |-> NoHost]
    /\ hookInstaller = NoHost /\ ownerUnhook = NoHost /\ strictInstaller = NoHost
    /\ thread = [t \in Thread |-> Idle]
    /\ callbacks = 0

Go(t, from, to) == thread[t].pc = from /\ thread' = [thread EXCEPT ![t].pc = to]
Inside == {t \in Thread : thread[t].pc # "idle"}

-----------------------------------------------------------------------------
\* The gate.
TryEnter ==
    /\ control.state = "active" /\ control.entrants # MaxEntrants
    /\ control' = [control EXCEPT !.entrants = @ + 1]

\* Defect: a call that bound nothing does not leave.
ExitIfBound(t) ==
    /\ Go(t, "exit", "idle")
    /\ control' = IF thread[t].host # NoHost /\ initState.host # thread[t].host THEN control
                  ELSE [control EXCEPT !.entrants = @ - 1]
    /\ UNCHANGED <<initState, pointers, callbacks>>

Exit(t) ==
    /\ Go(t, "exit", "idle")
    /\ control' = [control EXCEPT !.entrants = @ - 1]
    /\ UNCHANGED <<initState, pointers, callbacks>>

CloseAdmission ==
    /\ control.state = "active"
    /\ control' = [control EXCEPT !.state = "draining"]
    /\ UNCHANGED <<initState, pointers, thread, callbacks>>

FinishDrain ==
    /\ control = [state |-> "draining", entrants |-> 0]
    /\ control' = [control EXCEPT !.state = "closed"]
    /\ UNCHANGED <<initState, pointers, thread, callbacks>>

-----------------------------------------------------------------------------
\* native_init and native_init_v3.
CallNativeInit(t, h) ==
    /\ TryEnter
    /\ thread[t].pc = "idle"
    /\ thread' = [thread EXCEPT ![t] = [pc |-> "begin", host |-> h]]
    /\ UNCHANGED <<initState, pointers, callbacks>>

\* Whoever is not the first gets null, the same host included.
BeginNativeModuleInit(t) ==
    /\ IF initState.phase = "uninitialized"
       THEN /\ Go(t, "begin", "hook")
            /\ initState' = [phase |-> "initializing", host |-> thread[t].host]
       ELSE Go(t, "begin", "exit") /\ UNCHANGED initState
    /\ UNCHANGED <<control, pointers, callbacks>>

StoreHookInstaller(t) ==
    /\ Go(t, "hook", "unhook")
    /\ hookInstaller' = thread[t].host
    /\ UNCHANGED <<control, initState, ownerUnhook, strictInstaller, callbacks>>

\* Defect: the binding is announced before its last pointer is stored.
AnnounceEarly(t) ==
    /\ Go(t, "unhook", "strict")
    /\ ownerUnhook' = thread[t].host
    /\ initState' = [initState EXCEPT !.phase = "ready"]
    /\ UNCHANGED <<control, hookInstaller, strictInstaller, callbacks>>

StoreOwnerUnhook(t) ==
    /\ Go(t, "unhook", "strict")
    /\ ownerUnhook' = thread[t].host
    /\ UNCHANGED <<control, initState, hookInstaller, strictInstaller, callbacks>>

StoreStrictInstaller(t) ==
    /\ Go(t, "strict", "ready")
    /\ strictInstaller' = IF thread[t].host \in StrictHost THEN thread[t].host ELSE NoHost
    /\ UNCHANGED <<control, initState, hookInstaller, ownerUnhook, callbacks>>

StoreReady(t) ==
    /\ Go(t, "ready", "exit")
    /\ initState' = [initState EXCEPT !.phase = "ready"]
    /\ callbacks' = IF callbacks = 2 THEN 2 ELSE callbacks + 1
    /\ UNCHANGED <<control, pointers>>

\* A loaded library is reported through the callback.
PostNativeInit(t) ==
    /\ TryEnter
    /\ callbacks > 0
    /\ thread[t].pc = "idle"
    /\ thread' = [thread EXCEPT ![t] = [pc |-> "install", host |-> NoHost]]
    /\ UNCHANGED <<initState, pointers, callbacks>>

\* InstallFuseHooks has used the pointers, or the library was another one.
EndInstall(t) ==
    /\ Go(t, "install", "exit")
    /\ UNCHANGED <<control, initState, pointers, callbacks>>

-----------------------------------------------------------------------------
Next ==
    \/ CloseAdmission \/ FinishDrain
    \/ \E t \in Thread :
          \/ \E h \in Host : CallNativeInit(t, h)
          \/ BeginNativeModuleInit(t) \/ StoreHookInstaller(t) \/ StoreOwnerUnhook(t)
          \/ StoreStrictInstaller(t) \/ StoreReady(t)
          \/ PostNativeInit(t) \/ EndInstall(t) \/ Exit(t)

Spec == Init /\ [][Next]_vars

-----------------------------------------------------------------------------
\* Types; the count fits its half of the word.
TypeOK ==
    /\ control \in [state: {"active", "draining", "closed"}, entrants: 0..MaxEntrants]
    /\ initState \in [phase: {"uninitialized", "initializing", "ready"},
                      host: Host \cup {NoHost}]
    /\ {hookInstaller, ownerUnhook, strictInstaller} \subseteq Host \cup {NoHost}
    /\ thread \in [Thread -> ThreadState]
    /\ callbacks \in 0..2

\* The gate counts exactly the threads inside it, whichever way they leave: with
\* one that is never given back the drain could not end.
GateIsExact == control.entrants = Cardinality(Inside)

\* A gate that has been drained and closed has nobody inside, and lets nobody
\* in: calls that were admitted before the close have left.
ClosedIsEmpty == control.state = "closed" => Inside = {}

\* The hook functions belong to one host from the time its binding is announced:
\* "Do not let another native framework overwrite a live host's hook pointers or
\* downgrade the strict v3 publisher to legacy v2."
BoundHostIsWhole ==
    initState.phase = "ready" =>
        /\ hookInstaller = initState.host /\ ownerUnhook = initState.host
        /\ strictInstaller = IF initState.host \in StrictHost THEN initState.host ELSE NoHost

\* The callback is handed out once: a host that is given it twice reports every
\* library twice.
RegisteredOnce == callbacks <= 1
=============================================================================

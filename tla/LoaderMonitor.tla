---------------------------- MODULE LoaderMonitor ----------------------------
(***************************************************************************)
(* How libfusehide.so gets to know of libfuse_jni.so, composed with the    *)
(* binding of NativeHost.                                                  *)
(*                                                                         *)
(* Under Zygisk (zygisk/module.cpp, zygisk/dlopen_monitor.cpp) the module  *)
(* asks first whether LSPosed has the process, preloads the library, hooks *)
(* the loader and starts an observer; whoever sees libfuse_jni.so first    *)
(* starts the runtime, which binds it to Zygisk.  Under LSPosed the host   *)
(* reports libraries to the callback of a bound library, and on x86_64 an  *)
(* observer of its own stands in for a host that does not bind.            *)
(***************************************************************************)
EXTENDS NativeHost

CONSTANTS
    Main,                \* the thread that specializes the process
    Watcher,             \* the thread of the observer
    Zygisk, Vector,      \* the hosts
    MaxAttachFailures    \* how often a thread cannot be attached to the VM

ASSUME LoaderAssumption ==
    /\ Main \in Thread /\ Watcher \in Thread /\ Main # Watcher
    /\ Zygisk \in StrictHost /\ Vector \in Host \ StrictHost
    /\ MaxAttachFailures \in Nat

\* Entry points of the loader: android_dlopen_ext and dlopen.
Entry == {"ext", "pub"}

VARIABLES
    device,              \* architecture, backend, and whether LSPosed has the process
    module, entry,       \* how far the main thread is, and the entry it hooks
    answer,              \* what was learned of LSPosed's scope
    loaderHook,          \* gAndroidDlopenExtHook and gPublicDlopenHook
    fuseInit,            \* gFuseHideInitState
    caller,              \* where each thread is in InitFuseHideOnFuseLoaded
    observer,            \* of Zygisk, or of LSPosed on x86_64
    mapped, other,       \* libfuse_jni.so, and a libfusehide.so that is not this one
    lookedEarly,         \* whether other was still absent when it was looked for (history)
    dex,                 \* what gDexLoader was given: "partial" lacks ZygiskEntry
    java,                \* whether ZygiskEntry was started
    attachFailures,
    onLoads,             \* calls of JNI_OnLoad (history)
    hooked               \* InstallFuseHooks has run (history)

hostVars == vars
monitor == <<module, entry, answer, dex, loaderHook, observer>>
loading == <<fuseInit, caller, lookedEarly, java, attachFailures, onLoads>>
world == <<mapped, other>>
startupVars == <<hostVars, device, monitor, loading, world, hooked>>

Devices == [arch: {"arm64", "x86_64"}, backend: {"zygisk", "xposed"}, scope: BOOLEAN, flag: BOOLEAN]
Finished == {"ready", "skipped", "failed"}
NoHook == [original |-> FALSE, patched |-> FALSE]

UnderZygisk == device.backend = "zygisk"

\* The process is single-threaded; libfuse_jni.so may be in it from the start.
StartupInit ==
    /\ Init
    /\ device \in Devices
    /\ module = "pre" /\ entry = "ext" /\ answer = "unknown" /\ dex = "none"
    /\ loaderHook = [e \in Entry |-> NoHook]
    /\ fuseInit = "notStarted"
    /\ caller = [t \in Thread |-> "idle"]
    /\ observer = "off"
    /\ mapped \in IF UnderZygisk THEN BOOLEAN ELSE {FALSE}
    /\ other = FALSE
    /\ lookedEarly = FALSE
    /\ java = "none"
    /\ attachFailures = 0 /\ onLoads = 0
    /\ hooked = FALSE

Idling(t) == caller[t] = "idle" /\ thread[t].pc = "idle"
Move(t, from, to) == caller[t] = from /\ caller' = [caller EXCEPT ![t] = to]

-----------------------------------------------------------------------------
(***************************************************************************)
(* The Zygisk module                                                       *)
(***************************************************************************)
\* The database of LSPosed is absent, or one of two queries runs; anything else,
\* the socket of the companion included, leaves the answer open.
QueryLsposedScope == {IF device.scope THEN "enabled" ELSE "disabled", "unknown"}

\* The slot of the importer is replaced after its content was compared, and the
\* original is stored before the process has a second thread.
InstallEarlyDlopenGotMonitor ==
    IF device.arch = "x86_64"
    THEN {loaderHook, [loaderHook EXCEPT !["ext"] = [original |-> TRUE, patched |-> TRUE]]}
    ELSE {loaderHook}

\* A dex file that cannot be opened or mapped is skipped; one is enough.
PreloadInjectedDex == {"none", "partial", "whole"}

\* The class loader stays when the library then cannot be loaded.
PreloadModuleRuntime(loads) == dex' \in PreloadInjectedDex /\ (loads => dex' # "none")

\* In MediaProvider.  When LSPosed has the process or the runtime cannot be
\* preloaded the module is closed.  An unknown scope is no reason to skip.
PreAppSpecialize ==
    /\ UnderZygisk /\ module = "pre"
    /\ \/ device.flag /\ module' = "out" /\ UNCHANGED <<answer, dex, loaderHook>>
       \/ /\ ~device.flag
          /\ answer' \in QueryLsposedScope
          /\ \/ answer' = "enabled" /\ module' = "out" /\ UNCHANGED <<dex, loaderHook>>
             \/ /\ answer' # "enabled"
                /\ \/ PreloadModuleRuntime(FALSE) /\ module' = "out" /\ UNCHANGED loaderHook
                   \/ /\ PreloadModuleRuntime(TRUE) /\ module' = "post"
                      /\ loaderHook' \in InstallEarlyDlopenGotMonitor
    /\ UNCHANGED <<hostVars, device, entry, observer, loading, world, hooked>>

\* StartFuseJniObserver: a library that is there already needs no thread.
PostAppSpecialize ==
    /\ UnderZygisk /\ module = "post"
    /\ module' = "hook"
    /\ IF mapped THEN observer' = "gone" /\ caller' = [caller EXCEPT ![Main] = "claim"]
                 ELSE observer' = "watching" /\ UNCHANGED caller
    /\ UNCHANGED <<hostVars, device, entry, answer, dex, loaderHook, fuseInit, lookedEarly, java,
                   attachFailures, onLoads, world, hooked>>

\* Loader entries are patched on arm64 only, one after the other.
InstallDlopenMonitor ==
    /\ module = "hook" /\ Idling(Main)
    /\ module' = IF device.arch = "arm64" /\ fuseInit \notin {"ready", "skipped"}
                 THEN "prepare" ELSE "in"
    /\ UNCHANGED <<hostVars, device, entry, answer, dex, loaderHook, observer, loading, world, hooked>>

\* android_dlopen_ext first, whatever comes of it dlopen next.
NextEntry == entry' = "pub" /\ module' = IF entry = "ext" THEN "prepare" ELSE "in"

\* The original is stored before the commit.  A failed prepare is aborted.
PrepareLoaderHook ==
    /\ module = "prepare"
    /\ \/ /\ loaderHook' = [loaderHook EXCEPT ![entry].original = TRUE]
          /\ module' = "commit" /\ UNCHANGED entry
       \/ NextEntry /\ UNCHANGED loaderHook
    /\ UNCHANGED <<hostVars, device, answer, dex, observer, loading, world, hooked>>

\* Defect: a failed commit takes its original back, whatever was reachable.
CommitAndRetract ==
    /\ module = "commit"
    /\ \/ loaderHook' = [loaderHook EXCEPT ![entry].patched = TRUE]
       \/ \E everPublished \in BOOLEAN :
             loaderHook' = [loaderHook EXCEPT ![entry] =
                               [original |-> FALSE, patched |-> everPublished]]
    /\ NextEntry
    /\ UNCHANGED <<hostVars, device, answer, dex, observer, loading, world, hooked>>

\* The commit patches the entry.  Or it fails, before or after the entry was
\* patched: the original goes only when the replacement was never reachable and
\* Dobby holds no ticket that is left to recover.
CommitLoaderHook ==
    /\ module = "commit"
    /\ \/ loaderHook' = [loaderHook EXCEPT ![entry].patched = TRUE]
       \/ \E everPublished, ticket \in BOOLEAN :
             loaderHook' = [loaderHook EXCEPT ![entry] =
                               [original |-> everPublished \/ ticket, patched |-> everPublished]]
    /\ NextEntry
    /\ UNCHANGED <<hostVars, device, answer, dex, observer, loading, world, hooked>>

-----------------------------------------------------------------------------
(***************************************************************************)
(* InitFuseHideOnFuseLoaded                                                *)
(***************************************************************************)
StopWith(t, from, state) == Move(t, from, "idle") /\ fuseInit' = state

\* The first to come starts the runtime.
ClaimInit(t) ==
    /\ IF fuseInit = "notStarted" THEN Move(t, "claim", "look") /\ fuseInit' = "initializing"
                                  ELSE Move(t, "claim", "idle") /\ UNCHANGED fuseInit
    /\ UNCHANGED <<hostVars, device, monitor, lookedEarly, java, attachFailures, onLoads, world, hooked>>

\* Defect: the runtime found is taken for the module's own.
LookAtNothing(t) ==
    /\ Move(t, "look", "env")
    /\ lookedEarly' = ~other
    /\ UNCHANGED <<hostVars, device, monitor, fuseInit, java, attachFailures, onLoads, world, hooked>>

HasOtherFuseHideRuntime(t) ==
    /\ IF other THEN StopWith(t, "look", "skipped") /\ UNCHANGED lookedEarly
                ELSE Move(t, "look", "env") /\ UNCHANGED fuseInit /\ lookedEarly' = TRUE
    /\ UNCHANGED <<hostVars, device, monitor, java, attachFailures, onLoads, world, hooked>>

\* "No module initialization has started: a later loader event may retry."
GetJniEnv(t) ==
    /\ \/ Move(t, "env", "onLoad") /\ UNCHANGED <<fuseInit, attachFailures>>
       \/ /\ t # Main /\ attachFailures < MaxAttachFailures
          /\ attachFailures' = attachFailures + 1
          /\ StopWith(t, "env", "notStarted")
    /\ UNCHANGED <<hostVars, device, monitor, lookedEarly, java, onLoads, world, hooked>>

\* Defect: a failed JNI_OnLoad lets a later event try again.
JniOnLoadRetried(t) ==
    /\ onLoads' = IF onLoads = 2 THEN 2 ELSE onLoads + 1
    /\ \/ Move(t, "onLoad", "bind") /\ UNCHANGED fuseInit
       \/ StopWith(t, "onLoad", "notStarted")
    /\ UNCHANGED <<hostVars, device, monitor, lookedEarly, java, attachFailures, world, hooked>>

\* From here on a failure is final; the symbol may also be missing.
JniOnLoad(t) ==
    /\ \/ onLoads' = onLoads + 1 /\ Move(t, "onLoad", "bind") /\ UNCHANGED fuseInit
       \/ onLoads' \in {onLoads, onLoads + 1} /\ StopWith(t, "onLoad", "failed")
    /\ UNCHANGED <<hostVars, device, monitor, lookedEarly, java, attachFailures, world, hooked>>

\* native_init_v3, unless the gate is closed or the symbol is missing.
CallOwnNativeInit(t) ==
    /\ \/ Move(t, "bind", "binding") /\ CallNativeInit(t, Zygisk) /\ UNCHANGED fuseInit
       \/ StopWith(t, "bind", "failed") /\ UNCHANGED hostVars
    /\ UNCHANGED <<device, monitor, lookedEarly, java, attachFailures, onLoads, world, hooked>>

\* A callback comes back to the one whose binding was announced.
ReceiveCallback(t) ==
    /\ thread[t].pc = "idle"
    /\ IF initState = [phase |-> "ready", host |-> Zygisk]
       THEN Move(t, "binding", "report") /\ UNCHANGED fuseInit
       ELSE StopWith(t, "binding", "failed")
    /\ UNCHANGED <<hostVars, device, monitor, lookedEarly, java, attachFailures, onLoads, world, hooked>>

\* The module's own call of PostNativeInit, or a host's for a loaded library.
Report(t) ==
    /\ \/ Move(t, "report", "reported") /\ PostNativeInit(t)
       \/ Move(t, "report", "reported") /\ UNCHANGED hostVars
          /\ (control.state # "active" \/ control.entrants = MaxEntrants \/ callbacks = 0)
    /\ UNCHANGED <<device, monitor, fuseInit, lookedEarly, java, attachFailures, onLoads, world, hooked>>

Reported(t) ==
    /\ thread[t].pc = "idle"
    /\ IF UnderZygisk THEN Move(t, "reported", "java") /\ fuseInit' = "ready"
                      ELSE Move(t, "reported", "idle") /\ UNCHANGED fuseInit
    /\ UNCHANGED <<hostVars, device, monitor, lookedEarly, java, attachFailures, onLoads, world, hooked>>

\* StartInjectedJava needs the Application and the class; without them a worker
\* tries again for 10 s.
StartInjectedJava(t) ==
    /\ Move(t, "java", "idle")
    /\ java' = "waiting" \/ (dex = "whole" /\ java' = "started")
    /\ UNCHANGED <<hostVars, device, monitor, fuseInit, lookedEarly, attachFailures, onLoads, world, hooked>>

WaitForApplication ==
    /\ java = "waiting"
    /\ java' = "gaveUp" \/ (dex = "whole" /\ java' = "started")
    /\ UNCHANGED <<hostVars, device, monitor, fuseInit, caller, lookedEarly, attachFailures, onLoads,
                   world, hooked>>

-----------------------------------------------------------------------------
(***************************************************************************)
(* The observers                                                           *)
(***************************************************************************)
\* Defect: an attempt that got no JNIEnv is the last.
WatchOnce ==
    /\ UnderZygisk /\ observer = "watching" /\ Idling(Watcher)
    /\ fuseInit \in Finished \/ mapped
    /\ observer' = "gone"
    /\ caller' = IF fuseInit \in Finished THEN caller ELSE [caller EXCEPT ![Watcher] = "claim"]
    /\ UNCHANGED <<hostVars, device, module, entry, answer, dex, loaderHook, fuseInit, lookedEarly, java,
                   attachFailures, onLoads, world, hooked>>

\* It looks for the library until the initialization has finished, whoever
\* finished it.
Watch ==
    /\ UnderZygisk /\ observer = "watching" /\ Idling(Watcher)
    /\ IF fuseInit \in Finished
       THEN observer' = "gone" /\ UNCHANGED caller
       ELSE mapped /\ caller' = [caller EXCEPT ![Watcher] = "claim"] /\ UNCHANGED observer
    /\ UNCHANGED <<hostVars, device, module, entry, answer, dex, loaderHook, fuseInit, lookedEarly, java,
                   attachFailures, onLoads, world, hooked>>

\* System.loadLibrary of Entry.java: the host may see it and bind the library.
LoadFuseHide ==
    /\ ~UnderZygisk /\ module = "pre"
    /\ module' = "observe"
    /\ CallNativeInit(Main, Vector) \/ UNCHANGED hostVars
    /\ UNCHANGED <<device, entry, answer, dex, loaderHook, observer, loading, world, hooked>>

\* startXposedNativeHookObserver
StartXposedObserver ==
    /\ module = "observe" /\ Idling(Main)
    /\ module' = "in"
    /\ observer' = IF device.arch = "x86_64" /\ initState.phase = "uninitialized"
                   THEN "watching" ELSE "off"
    /\ UNCHANGED <<hostVars, device, entry, answer, dex, loaderHook, loading, world, hooked>>

\* It leaves to a host that has begun to bind, gives up after 30000 looks, or
\* installs the hooks itself, outside of the gate.
WatchXposed ==
    /\ ~UnderZygisk /\ observer = "watching"
    /\ observer' = "gone"
    /\ \/ initState.phase # "uninitialized" /\ UNCHANGED hooked
       \/ initState.phase = "uninitialized" /\ ~mapped /\ UNCHANGED hooked
       \/ initState.phase = "uninitialized" /\ mapped /\ hooked' = TRUE
    /\ UNCHANGED <<hostVars, device, module, entry, answer, dex, loaderHook, loading, world>>

-----------------------------------------------------------------------------
(***************************************************************************)
(* The process                                                             *)
(***************************************************************************)
\* A replacement without its original returns null and loads nothing.
LoadFuseJni(t, e) ==
    /\ t # Watcher /\ Idling(t)
    /\ module \in {"in", "out"}
    /\ IF UnderZygisk
       THEN IF loaderHook[e].patched
            THEN loaderHook[e].original /\ mapped' = TRUE /\ Move(t, "idle", "claim")
            ELSE mapped' = TRUE /\ UNCHANGED caller
       ELSE mapped' = TRUE /\ Move(t, "idle", "report")
    /\ UNCHANGED <<hostVars, device, monitor, fuseInit, lookedEarly, java, attachFailures, onLoads,
                   other, hooked>>

\* LSPosed brings its own copy of the library into a process of its scope.
LsposedLoads ==
    /\ UnderZygisk /\ device.scope /\ ~other /\ other' = TRUE
    /\ UNCHANGED <<hostVars, device, monitor, loading, mapped, hooked>>

\* Any host may call native_init of a library that LSPosed has loaded.
HostCalls(t, h) ==
    /\ ~UnderZygisk /\ module = "in" /\ Idling(t) /\ t # Watcher
    /\ CallNativeInit(t, h)
    /\ UNCHANGED <<device, monitor, loading, world, hooked>>

\* A call inside the library goes on; InstallFuseHooks ends.
HostStep(t) ==
    /\ \/ /\ BeginNativeModuleInit(t) \/ StoreHookInstaller(t) \/ StoreOwnerUnhook(t)
             \/ StoreStrictInstaller(t) \/ StoreReady(t) \/ Exit(t)
          /\ UNCHANGED hooked
       \/ EndInstall(t) /\ hooked' = TRUE
    /\ UNCHANGED <<device, monitor, loading, world>>

GateCloses ==
    /\ CloseAdmission \/ FinishDrain
    /\ UNCHANGED <<device, monitor, loading, world, hooked>>

LoaderStep(t) ==
    \/ ClaimInit(t) \/ HasOtherFuseHideRuntime(t) \/ GetJniEnv(t) \/ JniOnLoad(t)
    \/ CallOwnNativeInit(t) \/ ReceiveCallback(t) \/ Report(t) \/ Reported(t) \/ StartInjectedJava(t)

StartupNext ==
    \/ PreAppSpecialize \/ PostAppSpecialize \/ InstallDlopenMonitor
    \/ PrepareLoaderHook \/ CommitLoaderHook
    \/ Watch \/ WatchXposed \/ LoadFuseHide \/ StartXposedObserver \/ WaitForApplication
    \/ LsposedLoads \/ GateCloses
    \/ \E t \in Thread :
          \/ LoaderStep(t) \/ HostStep(t)
          \/ \E e \in Entry : LoadFuseJni(t, e)
          \/ \E h \in Host : HostCalls(t, h)

\* Threads that run go on; nobody has to load a library, and nothing has to fail.
StartupFairness ==
    /\ \A t \in Thread : WF_startupVars(LoaderStep(t)) /\ WF_startupVars(HostStep(t))
    /\ WF_startupVars(Watch) /\ WF_startupVars(WatchXposed)
    /\ WF_startupVars(PostAppSpecialize) /\ WF_startupVars(InstallDlopenMonitor)

StartupSpec == StartupInit /\ [][StartupNext]_startupVars /\ StartupFairness

-----------------------------------------------------------------------------
\* The runtime starts at most once, however many threads and the observer see the
\* library: "JNI_OnLoad may already have made irreversible changes. Do not rerun it".
RuntimeStartsOnce == onLoads <= 1

\* A patched entry of the loader finds its original, in every outcome of the
\* transaction: without it dlopen returns null to the whole process.
LoaderReplacementHasOriginal == \A e \in Entry : loaderHook[e].patched => loaderHook[e].original

\* Zygisk starts its runtime in a process of LSPosed's scope only when it could not
\* learn the scope and the runtime of LSPosed was not loaded when it looked.
OneBackend == UnderZygisk /\ onLoads > 0 /\ device.scope => answer = "unknown" /\ lookedEarly

\* A library that is loaded is taken care of.  Under Zygisk the initialization
\* finishes, although threads may fail to get a JNIEnv; on x86_64 without a host
\* the observer installs the hooks, unless a host binds after all.
LoadedIsHandled ==
    /\ (mapped /\ module = "in" /\ UnderZygisk) ~> (fuseInit \in Finished)
    /\ (mapped /\ ~UnderZygisk /\ observer = "watching") ~> (hooked \/ initState.phase # "uninitialized")
=============================================================================

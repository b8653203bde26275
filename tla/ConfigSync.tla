----------------------------- MODULE ConfigSync -----------------------------
(***************************************************************************)
(* How a saved configuration reaches MediaProvider.  The app saves it with *)
(* a fresh reload token and broadcasts the token (MainActivity.kt); the    *)
(* injected process (Entry.java, ZygiskEntry.java) answers each broadcast  *)
(* in a thread of its own and loads the configuration once at its start    *)
(* (HideConfigStore.kt), from its own snapshot, then from the provider of  *)
(* the app, then by a broadcast and its reply.                             *)
(*                                                                         *)
(* The n-th configuration saved and its token are both n; 0 stands for the *)
(* defaults, and for "none".  A bundle carries the two, read one after     *)
(* the other.                                                              *)
(***************************************************************************)
EXTENDS Naturals, FiniteSets

CONSTANTS
    MaxSaves,            \* configurations saved
    MaxRetries,          \* CONFIG_MAX_RETRIES
    MaxCrashes,          \* deaths of MediaProvider
    MaxTriggers          \* LOCKED_BOOT_COMPLETED, BOOT_COMPLETED, USER_UNLOCKED

ASSUME SyncAssumption == {MaxSaves, MaxRetries, MaxCrashes, MaxTriggers} \subseteq Nat

Numbered == 0..MaxSaves
Token == 1..MaxSaves
Loader == 0              \* the load at start-up; every other job answers its token
Job == Numbered
NoJob == MaxSaves + 1

VARIABLES
    saved,               \* the preferences of the app
    pendingReloadToken, shown,      \* the app: what it waits for, what it showed as applied
    broadcasts, statuses,           \* on their way to MediaProvider and to the app
    native, snapshot,    \* the configuration in force, and the stored one
    job, reply,          \* the reloads, and the answers to their requests
    main,                \* which job runs on the main thread of MediaProvider
    load,                \* configLoadCompleted and its kin
    crashes, triggers,   \* counters of the environment
    overlap              \* history: two jobs ran at a time

app == <<saved, pendingReloadToken, shown>>
environment == <<crashes, triggers>>
history == <<overlap>>
syncVars == <<app, broadcasts, statuses, native, snapshot, job, reply, main, load,
              environment, history>>

Bundle == [config: Numbered, token: Numbered]
NoBundle == [config |-> 0, token |-> 0]
JobState == [pc: {"idle", "snapshot", "recover", "provider", "token", "decide", "request",
                  "waiting", "check", "apply", "save", "wait", "refuse", "finish"},
             bundle: Bundle, local: Bundle, recovered: BOOLEAN, applied: BOOLEAN]
Idle == [pc |-> "idle", bundle |-> NoBundle, local |-> NoBundle, recovered |-> FALSE,
         applied |-> FALSE]
ReplyState == [state: {"none", "asked", "answered"}, bundle: Bundle]
NoReply == [state |-> "none", bundle |-> NoBundle]
Started == [due |-> TRUE, inFlight |-> FALSE, completed |-> FALSE, retries |-> 0]

SyncInit ==
    /\ saved = 0 /\ pendingReloadToken = 0 /\ shown = 0
    /\ broadcasts = {} /\ statuses = {}
    /\ native = 0 /\ snapshot = NoBundle
    /\ job = [j \in Job |-> Idle] /\ reply = [j \in Job |-> NoReply]
    /\ main = NoJob /\ load = Started
    /\ crashes = 0 /\ triggers = 0
    /\ overlap = FALSE

Active == {j \in Job : job[j].pc # "idle"}
At(j, pc) == [job[j] EXCEPT !.pc = pc]
Go(j, from, to) == job[j].pc = from /\ job' = [job EXCEPT ![j] = to]
Released(j) == IF main = j THEN NoJob ELSE main

-----------------------------------------------------------------------------
(***************************************************************************)
(* The app                                                                 *)
(***************************************************************************)
\* The preferences are committed and the token is sent out.
SaveConfig ==
    /\ saved < MaxSaves
    /\ saved' = saved + 1 /\ pendingReloadToken' = saved + 1
    /\ broadcasts' = broadcasts \cup {saved + 1}
    /\ UNCHANGED <<shown, statuses, native, snapshot, job, reply, main, load, environment,
                   history>>

\* Only the status of the newest save counts.
ReceiveStatus ==
    /\ \E s \in statuses :
          /\ statuses' = statuses \ {s}
          /\ IF s.token = pendingReloadToken
             THEN /\ pendingReloadToken' = 0
                  /\ shown' = IF s.applied THEN s.token ELSE shown
             ELSE UNCHANGED <<pendingReloadToken, shown>>
    /\ UNCHANGED <<saved, broadcasts, native, snapshot, job, reply, main, load,
                   environment, history>>

\* The main thread of the app reads configuration and token in one go.
AnswerRequest(j) ==
    /\ reply[j].state = "asked" /\ saved # 0
    /\ reply' = [reply EXCEPT ![j] = [state |-> "answered",
                                      bundle |-> [config |-> saved, token |-> saved]]]
    /\ UNCHANGED <<app, broadcasts, statuses, native, snapshot, job, main, load, environment,
                   history>>

-----------------------------------------------------------------------------
(***************************************************************************)
(* Reading the configuration of the app                                    *)
(***************************************************************************)
\* Defect: a bundle with any token will do.
WantedAny(t, bundle) == bundle # NoBundle

Wanted(t, bundle) == bundle # NoBundle /\ bundle.token = t

\* A reload applies the bundle of its token, whether the provider has it or the
\* reply to a request; the load decides in a step of its own.
AfterProvider(j, bundle) ==
    IF j = Loader THEN "decide" ELSE IF Wanted(j, bundle) THEN "apply" ELSE "request"

AfterReply(j, bundle) ==
    IF j = Loader THEN "check" ELSE IF Wanted(j, bundle) THEN "apply" ELSE "refuse"

\* A call to the provider may fail; it finds nothing before the first save.
CallProvider(j) ==
    /\ \/ /\ saved # 0
          /\ Go(j, "provider", [At(j, "token") EXCEPT !.bundle.config = saved])
       \/ Go(j, "provider", At(j, AfterProvider(j, NoBundle)))
    /\ UNCHANGED <<app, broadcasts, statuses, native, snapshot, reply, main, load, environment,
                   history>>

ReadToken(j) ==
    /\ LET bundle == [job[j].bundle EXCEPT !.token = saved] IN
       Go(j, "token", [At(j, AfterProvider(j, bundle)) EXCEPT !.bundle = bundle])
    /\ UNCHANGED <<app, broadcasts, statuses, native, snapshot, reply, main, load, environment,
                   history>>

\* A request leaves the thread; its reply, or null, comes back on the main thread.
RequestConfig(j) ==
    /\ Go(j, "request", [At(j, "waiting") EXCEPT !.bundle = NoBundle])
    /\ reply' = [reply EXCEPT ![j] = [NoReply EXCEPT !.state = "asked"]]
    /\ main' = Released(j)
    /\ UNCHANGED <<app, broadcasts, statuses, native, snapshot, load, environment, history>>

DeliverReply(j) ==
    /\ main = NoJob /\ reply[j].state = "answered"
    /\ LET bundle == reply[j].bundle IN
       Go(j, "waiting", [At(j, AfterReply(j, bundle)) EXCEPT !.bundle = bundle])
    /\ reply' = [reply EXCEPT ![j] = NoReply] /\ main' = j
    /\ UNCHANGED <<app, broadcasts, statuses, native, snapshot, load, environment, history>>

\* Defect: no timer is started.
NoTimeout(j) == FALSE /\ UNCHANGED syncVars

\* After REQUEST_TIMEOUT_MS a late reply finds its receiver gone.
Timeout(j) ==
    /\ main = NoJob
    /\ Go(j, "waiting", At(j, AfterReply(j, NoBundle)))
    /\ main' = j
    /\ UNCHANGED <<app, broadcasts, statuses, native, snapshot, reply, load, environment, history>>

-----------------------------------------------------------------------------
(***************************************************************************)
(* A thread for each reload broadcast                                      *)
(***************************************************************************)
ReceiveReload(t) ==
    /\ main = NoJob /\ t \in broadcasts
    /\ Go(t, "idle", At(t, "provider"))
    /\ broadcasts' = broadcasts \ {t} /\ reply' = [reply EXCEPT ![t] = NoReply]
    /\ overlap' = (overlap \/ Active # {})
    /\ UNCHANGED <<app, statuses, native, snapshot, main, load, environment>>

\* Defect: a failure of the native side is not noticed.
ApplyUnnoticed(t) ==
    /\ Go(t, "apply", At(t, "save")) /\ native' \in {native, job[t].bundle.config}
    /\ UNCHANGED <<app, broadcasts, statuses, snapshot, reply, main, load, environment, history>>

ApplyReload(t) ==
    /\ \/ Go(t, "apply", At(t, "save")) /\ native' = job[t].bundle.config
       \/ Go(t, "apply", At(t, "refuse")) /\ UNCHANGED native
    /\ UNCHANGED <<app, broadcasts, statuses, snapshot, reply, main, load, environment, history>>

SaveReload(t) ==
    /\ \/ Go(t, "save", At(t, "wait")) /\ snapshot' = job[t].bundle
       \/ Go(t, "save", At(t, "refuse")) /\ UNCHANGED snapshot
    /\ UNCHANGED <<app, broadcasts, statuses, native, reply, main, load, environment, history>>

\* waitForHideInvalidations and hasCompleteFuseCallbackCoverage
FinishConfigReload(t) ==
    /\ job[t].pc \in {"wait", "refuse"}
    /\ \E ok \in IF job[t].pc = "wait" THEN BOOLEAN ELSE {FALSE} :
          statuses' = statuses \cup {[token |-> t, applied |-> ok]}
    /\ job' = [job EXCEPT ![t] = Idle]
    /\ main' = Released(t)
    /\ UNCHANGED <<app, broadcasts, native, snapshot, reply, load, environment, overlap>>

-----------------------------------------------------------------------------
(***************************************************************************)
(* The load at start-up, and its retries                                   *)
(***************************************************************************)
StartConfigReload ==
    /\ main = NoJob /\ load.due
    /\ IF load.completed \/ load.inFlight
       THEN load' = [load EXCEPT !.due = FALSE] /\ UNCHANGED <<job, reply, main, overlap>>
       ELSE /\ load' = [load EXCEPT !.due = FALSE, !.inFlight = TRUE]
            /\ job' = [job EXCEPT ![Loader] = [Idle EXCEPT !.pc = "snapshot"]]
            /\ reply' = [reply EXCEPT ![Loader] = NoReply]
            /\ main' = Loader
            /\ overlap' = (overlap \/ Active # {})
    /\ UNCHANGED <<app, broadcasts, statuses, native, snapshot, environment>>

LoadSnapshot ==
    /\ Go(Loader, "snapshot", [At(Loader, IF snapshot = NoBundle THEN "provider" ELSE "recover")
                               EXCEPT !.local = snapshot])
    /\ UNCHANGED <<app, broadcasts, statuses, native, snapshot, reply, main, load, environment,
                   history>>

ApplySnapshot ==
    /\ \/ /\ Go(Loader, "recover", [At(Loader, "provider") EXCEPT !.recovered = TRUE])
          /\ native' = job[Loader].local.config
       \/ Go(Loader, "recover", At(Loader, "provider")) /\ UNCHANGED native
    /\ UNCHANGED <<app, broadcasts, statuses, snapshot, reply, main, load, environment, history>>

\* hasMatchingReloadToken
Matching ==
    job[Loader].recovered /\ job[Loader].local.token # 0
        /\ job[Loader].local.token = job[Loader].bundle.token

\* The provider first, then the reply; what fails with the one is tried with
\* the other.
DecideLoad ==
    LET from == job[Loader].pc
        failed == IF from = "decide" THEN "request" ELSE "finish"
    IN  /\ from \in {"decide", "check"}
        /\ \/ /\ job[Loader].bundle = NoBundle
              /\ Go(Loader, from, At(Loader, failed)) /\ UNCHANGED native
           \/ /\ job[Loader].bundle # NoBundle /\ Matching
              /\ Go(Loader, from, At(Loader, "save")) /\ UNCHANGED native
           \/ /\ job[Loader].bundle # NoBundle /\ ~Matching
              /\ \/ Go(Loader, from, At(Loader, "save")) /\ native' = job[Loader].bundle.config
                 \/ Go(Loader, from, At(Loader, failed)) /\ UNCHANGED native
        /\ UNCHANGED <<app, broadcasts, statuses, snapshot, reply, main, load, environment,
                       history>>

\* That the snapshot could not be stored is only logged.
SaveLoaded ==
    /\ Go(Loader, "save", [At(Loader, "finish") EXCEPT !.applied = TRUE])
    /\ snapshot' \in {snapshot, job[Loader].bundle}
    /\ UNCHANGED <<app, broadcasts, statuses, native, reply, main, load, environment, history>>

\* scheduleConfigRetry
AfterRetry(s) ==
    IF s.retries < MaxRetries THEN [s EXCEPT !.retries = @ + 1, !.due = TRUE] ELSE s

\* Defect: the flag stays set when a load has failed.
FinishedStuck ==
    IF job[Loader].applied \/ job[Loader].recovered
    THEN [due |-> FALSE, inFlight |-> FALSE, completed |-> TRUE, retries |-> 0]
    ELSE AfterRetry(load)

\* onConfigReloadFinished
Finished ==
    IF job[Loader].applied \/ job[Loader].recovered
    THEN [due |-> FALSE, inFlight |-> FALSE, completed |-> TRUE, retries |-> 0]
    ELSE AfterRetry([load EXCEPT !.inFlight = FALSE])

FinishLoad ==
    /\ Go(Loader, "finish", Idle)
    /\ load' = Finished /\ main' = Released(Loader)
    /\ UNCHANGED <<app, broadcasts, statuses, native, snapshot, reply, environment, history>>

\* A broadcast of the system starts the retries afresh.  One that finds nothing
\* to change is not counted.
SystemTrigger ==
    /\ triggers < MaxTriggers /\ triggers' = triggers + 1
    /\ main = NoJob /\ ~load.completed
    /\ load' = [load EXCEPT !.retries = 0, !.due = ~load.inFlight]
    /\ load' # load
    /\ UNCHANGED <<app, broadcasts, statuses, native, snapshot, job, reply, main, crashes, history>>

\* MediaProvider dies, and is started again.
Crash ==
    /\ crashes < MaxCrashes /\ crashes' = crashes + 1
    /\ native' = 0 /\ broadcasts' = {}
    /\ job' = [j \in Job |-> Idle] /\ reply' = [j \in Job |-> NoReply]
    /\ main' = NoJob /\ load' = Started
    /\ UNCHANGED <<app, statuses, snapshot, triggers, history>>

-----------------------------------------------------------------------------
JobStep(j) == CallProvider(j) \/ ReadToken(j) \/ RequestConfig(j) \/ DeliverReply(j) \/ Timeout(j)

ReloadStep(t) ==
    ApplyReload(t) \/ SaveReload(t) \/ FinishConfigReload(t)

LoaderStep == LoadSnapshot \/ ApplySnapshot \/ DecideLoad \/ SaveLoaded \/ FinishLoad

SyncNext ==
    \/ SaveConfig \/ ReceiveStatus
    \/ \E j \in Job : AnswerRequest(j) \/ JobStep(j)
    \/ \E t \in Token : ReceiveReload(t) \/ ReloadStep(t)
    \/ StartConfigReload \/ LoaderStep \/ SystemTrigger \/ Crash

SyncSpec == SyncInit /\ [][SyncNext]_syncVars

\* Threads run, timers fire and the main thread takes its messages; the app
\* need not answer, and nobody need save.
FairSync ==
    /\ SyncSpec
    /\ \A j \in Job : WF_syncVars(JobStep(j))
    /\ \A t \in Token : WF_syncVars(ReloadStep(t))
    /\ WF_syncVars(LoaderStep) /\ WF_syncVars(StartConfigReload)

-----------------------------------------------------------------------------
\* Types.
SyncTypeOK ==
    /\ saved \in Numbered /\ pendingReloadToken \in Numbered
    /\ shown \in Numbered
    /\ broadcasts \subseteq Token /\ statuses \subseteq [token: Token, applied: BOOLEAN]
    /\ native \in Numbered /\ snapshot \in Bundle
    /\ job \in [Job -> JobState] /\ reply \in [Job -> ReplyState]
    /\ main \in Job \cup {NoJob}
    /\ load \in [due: BOOLEAN, inFlight: BOOLEAN, completed: BOOLEAN, retries: 0..MaxRetries]
    /\ overlap \in BOOLEAN

\* The configuration a reload applies is the one its token was made for,
\* although the provider reads the two one after the other.
ReloadsOwnConfig ==
    \A t \in Token :
        job[t].pc \in {"apply", "save", "wait"} => job[t].bundle = [config |-> t, token |-> t]

Quiet == Active = {} /\ broadcasts = {} /\ ~load.due /\ ~load.inFlight

InForce ==
    shown # 0 /\ shown = saved /\ Quiet => native = saved \/ (native = 0 /\ ~load.completed)

\* Unless two reloads ran at a time, the newest configuration that was shown as
\* applied is in force when all is quiet, also after a restart (or the restarted
\* process has not loaded any).
AppliedAloneIsInForce == ~overlap => InForce

\* Every reload comes to an end, whether the app answers or not:
\* saves are finitely many, and again and again no reload is under way.
ReloadsEnd == []<>(\A t \in Token : job[t].pc = "idle")

\* The start-up load is completed, or all its retries are used up.
LoadSettles == <>[](load.completed \/ (load.retries = MaxRetries /\ ~load.due /\ ~load.inFlight))
=============================================================================

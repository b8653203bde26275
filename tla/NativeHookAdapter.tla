------------------------- MODULE NativeHookAdapter -------------------------
(***************************************************************************)
(* Inline hooks: TryInstallInlineHookAt (hooks/hook_install.cpp) asks the  *)
(* adapter (zygisk/native_hook_adapter.cpp), which keeps a slot for each   *)
(* hook and drives a transaction of Dobby: prepare, publish the original,  *)
(* commit.  A failed step may leave Dobby holding a ticket.                *)
(*                                                                         *)
(* A strict host has the Native API v3: the original is published before   *)
(* the entry is patched.  Version 2 stores it when the installer returns.  *)
(***************************************************************************)
EXTENDS Naturals, FiniteSets

CONSTANTS
    Thread,              \* loader threads that report the loaded library
    Target,              \* functions to hook
    Slot,                \* the slots of the adapter
    NoTarget, NoSlot

ASSUME HookAssumption == NoTarget \notin Target /\ NoSlot \notin Slot

VARIABLES
    strict,              \* whether the host that is bound has version 3
    installing,          \* the flag of InstallFuseHooks
    thread,              \* the call each thread is in
    slot,                \* gSlots
    dobby,               \* what Dobby holds for each target, or held
    original,            \* whether HookOriginal has its original
    entered,             \* targets whose replacement may have run (history)
    failedPublication,   \* failedPublicationSlots
    reported             \* targets said to be hooked (history)

vars == <<strict, installing, thread, slot, dobby, original, entered, failedPublication, reported>>

SlotState == [target: Target \cup {NoTarget}, ticket: BOOLEAN,
              state: {"free", "preparing", "prepared", "installed", "recovery", "unhooking"}]
FreeSlot == [target |-> NoTarget, ticket |-> FALSE, state |-> "free"]

ThreadState == [pc: {"idle", "installing", "check", "reserve", "prepare", "release", "record",
                     "publish", "commit", "committed", "drop", "retract", "returned", "unhook"},
                target: Target \cup {NoTarget}, slot: Slot \cup {NoSlot},
                status: {"none", "ok", "failed"},
                prior: {"none", "prepared", "installed", "recovery"}]
Idle == [pc |-> "idle", target |-> NoTarget, slot |-> NoSlot, status |-> "none", prior |-> "none"]

Init ==
    /\ installing = FALSE
    /\ thread = [t \in Thread |-> Idle]
    /\ strict \in BOOLEAN
    /\ slot = [s \in Slot |-> FreeSlot]
    /\ dobby = [x \in Target |-> "none"]
    /\ original = [x \in Target |-> FALSE]
    /\ entered = {} /\ failedPublication = {} /\ reported = {}

Go(t, from, to) == thread[t].pc = from /\ thread' = [thread EXCEPT ![t] = to]
At(t, pc) == [thread[t] EXCEPT !.pc = pc]
Failed(t) == [thread[t] EXCEPT !.pc = "returned", !.status = "failed"]
Busy(x) == {s \in Slot : slot[s].state # "free" /\ slot[s].target = x}
Nothing == {"none", "unhooked"}
Free == {s \in Slot : slot[s].state = "free"}

-----------------------------------------------------------------------------
(***************************************************************************)
(* InstallFuseHooks and TryInstallInlineHookAt                             *)
(***************************************************************************)
\* Defect: overlapping callbacks install side by side.
EnterUnguarded(t) ==
    /\ Go(t, "idle", At(t, "installing"))
    /\ installing' = TRUE
    /\ UNCHANGED <<slot, dobby, original, entered, failedPublication, reported>>

\* A callback that finds an installation running is skipped.
InstallFuseHooks(t) ==
    /\ ~installing
    /\ Go(t, "idle", At(t, "installing"))
    /\ installing' = TRUE
    /\ UNCHANGED <<slot, dobby, original, entered, failedPublication, reported>>

EndInstallFuseHooks(t) ==
    /\ Go(t, "installing", Idle)
    /\ installing' = FALSE
    /\ UNCHANGED <<slot, dobby, original, entered, failedPublication, reported>>

NextTarget(t) ==
    /\ \E x \in Target : Go(t, "installing", [At(t, "check") EXCEPT !.target = x])
    /\ UNCHANGED <<installing, slot, dobby, original, entered, failedPublication, reported>>

\* A hook whose publication failed is not tried again, and not taken for one
\* that is installed.
Check(t) ==
    LET x == thread[t].target IN
    /\ thread[t].pc = "check"
    /\ \/ /\ x \in failedPublication
          /\ Go(t, "check", [Idle EXCEPT !.pc = "installing"])
          /\ UNCHANGED reported
       \/ /\ x \notin failedPublication /\ original[x]
          /\ Go(t, "check", [Idle EXCEPT !.pc = "installing"])
          /\ reported' = reported \cup {x}
       \/ /\ x \notin failedPublication /\ ~original[x]
          /\ Go(t, "check", At(t, "reserve"))
          /\ UNCHANGED reported
    /\ UNCHANGED <<installing, slot, dobby, original, entered, failedPublication>>

-----------------------------------------------------------------------------
(***************************************************************************)
(* InstallNativeHookInternal                                               *)
(***************************************************************************)
\* Defect: a slot that still holds the target is not looked for.
ReserveAnyFree(t) ==
    /\ \/ \E s \in Free :
             /\ Go(t, "reserve", [At(t, "prepare") EXCEPT !.slot = s])
             /\ slot' = [slot EXCEPT ![s] = [FreeSlot EXCEPT !.target = thread[t].target,
                                                            !.state = "preparing"]]
       \/ Free = {} /\ Go(t, "reserve", Failed(t)) /\ UNCHANGED slot
    /\ UNCHANGED <<installing, dobby, original, entered, failedPublication, reported>>

Reserve(t) ==
    /\ \/ /\ Busy(thread[t].target) # {} \/ Free = {}
          /\ Go(t, "reserve", Failed(t))
          /\ UNCHANGED slot
       \/ /\ Busy(thread[t].target) = {}
          /\ \E s \in Free :
                /\ Go(t, "reserve", [At(t, "prepare") EXCEPT !.slot = s])
                /\ slot' = [slot EXCEPT ![s] = [FreeSlot EXCEPT !.target = thread[t].target,
                                                               !.state = "preparing"]]
    /\ UNCHANGED <<installing, dobby, original, entered, failedPublication, reported>>

\* A failed prepare keeps no ticket, unless Dobby breaks that contract; a ticket
\* without an original is aborted, which may fail.
Prepare(t) ==
    LET x == thread[t].target  s == thread[t].slot IN
    /\ thread[t].pc = "prepare"
    /\ \/ /\ dobby[x] \in Nothing
          /\ Go(t, "prepare", At(t, "record"))
          /\ dobby' = [dobby EXCEPT ![x] = "prepared"]
          /\ UNCHANGED slot
       \/ Go(t, "prepare", At(t, "release")) /\ UNCHANGED <<slot, dobby>>
       \/ \E state \in {"prepared", "recovery"} :
             /\ dobby[x] \in Nothing
             /\ Go(t, "prepare", Failed(t))
             /\ slot' = [slot EXCEPT ![s].ticket = TRUE, ![s].state = state]
             /\ dobby' = [dobby EXCEPT ![x] = state]
    /\ UNCHANGED <<installing, original, entered, failedPublication, reported>>

Release(t) ==
    /\ Go(t, "release", Failed(t))
    /\ slot' = [slot EXCEPT ![thread[t].slot] = FreeSlot]
    /\ UNCHANGED <<installing, dobby, original, entered, failedPublication, reported>>

Record(t) ==
    /\ Go(t, "record", At(t, "publish"))
    /\ slot' = [slot EXCEPT ![thread[t].slot].ticket = TRUE]
    /\ UNCHANGED <<installing, dobby, original, entered, failedPublication, reported>>

\* Version 2 is given a variable of the caller's.
Publish(t) ==
    /\ Go(t, "publish", At(t, "commit"))
    /\ original' = IF strict THEN [original EXCEPT ![thread[t].target] = TRUE] ELSE original
    /\ UNCHANGED <<installing, slot, dobby, entered, failedPublication, reported>>

\* The commit patches the entry; or it fails before that and is aborted, which
\* may fail; or it fails later and either restores the entry or keeps the ticket.
Commit(t) ==
    LET x == thread[t].target IN
    /\ \/ /\ Go(t, "commit", At(t, "committed"))
          /\ dobby' = [dobby EXCEPT ![x] = "patched"]
          /\ entered' = entered \cup {x}
          /\ UNCHANGED slot
       \/ /\ Go(t, "commit", At(t, "drop"))
          /\ dobby' = [dobby EXCEPT ![x] = "none"]
          /\ \E published \in BOOLEAN : entered' = IF published THEN entered \cup {x} ELSE entered
          /\ UNCHANGED slot
       \/ \E state \in {"prepared", "recovery"} :
             /\ Go(t, "commit", At(t, "retract"))
             /\ dobby' = [dobby EXCEPT ![x] = state]
             /\ \E published \in BOOLEAN :
                   entered' = IF published THEN entered \cup {x} ELSE entered
             /\ slot' = [slot EXCEPT ![thread[t].slot].state = state]
    /\ UNCHANGED <<installing, original, failedPublication, reported>>

Committed(t) ==
    /\ Go(t, "committed", [At(t, "returned") EXCEPT !.status = "ok"])
    /\ slot' = [slot EXCEPT ![thread[t].slot].state = "installed"]
    /\ UNCHANGED <<installing, dobby, original, entered, failedPublication, reported>>

\* No ticket is left.
Drop(t) ==
    /\ Go(t, "drop", At(t, "retract"))
    /\ slot' = [slot EXCEPT ![thread[t].slot] = FreeSlot]
    /\ UNCHANGED <<installing, dobby, original, entered, failedPublication, reported>>

\* Defect: every failed commit takes its original back.
RetractAlways(t) ==
    /\ Go(t, "retract", Failed(t))
    /\ original' = IF strict THEN [original EXCEPT ![thread[t].target] = FALSE] ELSE original
    /\ UNCHANGED <<installing, slot, dobby, entered, failedPublication, reported>>

\* An original that a running replacement may need is left where it is.
Retract(t) ==
    LET x == thread[t].target IN
    /\ Go(t, "retract", Failed(t))
    /\ original' = IF strict /\ x \notin entered /\ dobby[x] \in Nothing
                   THEN [original EXCEPT ![x] = FALSE] ELSE original
    /\ UNCHANGED <<installing, slot, dobby, entered, failedPublication, reported>>

-----------------------------------------------------------------------------
(***************************************************************************)
(* What TryInstallInlineHookAt makes of the status                         *)
(***************************************************************************)
Stored(t) ==
    original[thread[t].target] \/
        (~strict /\ (thread[t].status = "ok" \/ thread[t].target \in entered))

Return(t) ==
    LET x == thread[t].target IN
    /\ Go(t, "returned", [Idle EXCEPT !.pc = "installing"])
    /\ original' = [original EXCEPT ![x] = Stored(t)]
    /\ reported' = IF thread[t].status = "ok" THEN reported \cup {x} ELSE reported
    /\ failedPublication' = IF thread[t].status = "failed" /\ Stored(t)
                            THEN failedPublication \cup {x} ELSE failedPublication
    /\ UNCHANGED <<installing, slot, dobby, entered>>

-----------------------------------------------------------------------------
(***************************************************************************)
(* UninstallNativeHook                                                     *)
(***************************************************************************)
BeginUninstall(t) ==
    /\ \E s \in Slot :
          /\ slot[s].ticket /\ slot[s].state \notin {"free", "preparing", "unhooking"}
          /\ Go(t, "idle", [Idle EXCEPT !.pc = "unhook", !.slot = s, !.prior = slot[s].state])
          /\ slot' = [slot EXCEPT ![s].state = "unhooking"]
    /\ UNCHANGED <<installing, dobby, original, entered, failedPublication, reported>>

\* Defect: an unhook that fails gives its slot back.
EndUninstallReleasing(t) ==
    LET s == thread[t].slot IN
    /\ Go(t, "unhook", Idle)
    /\ slot' = [slot EXCEPT ![s] = FreeSlot]
    /\ dobby' \in {dobby, [dobby EXCEPT ![slot[s].target] = "unhooked"]}
    /\ UNCHANGED <<installing, original, entered, failedPublication, reported>>

\* Abort, recover or destroy, as the slot was before.
EndUninstall(t) ==
    LET s == thread[t].slot IN
    /\ Go(t, "unhook", Idle)
    /\ \/ /\ dobby' = [dobby EXCEPT ![slot[s].target] = "unhooked"]
          /\ slot' = [slot EXCEPT ![s] = FreeSlot]
       \/ /\ slot' = [slot EXCEPT ![s].state = thread[t].prior]
          /\ UNCHANGED dobby
    /\ UNCHANGED <<installing, original, entered, failedPublication, reported>>

-----------------------------------------------------------------------------
Next ==
    /\ UNCHANGED strict
    /\ \E t \in Thread :
        \/ InstallFuseHooks(t) \/ EndInstallFuseHooks(t) \/ NextTarget(t) \/ Check(t)
        \/ Reserve(t) \/ Prepare(t) \/ Release(t) \/ Record(t) \/ Publish(t) \/ Commit(t)
        \/ Committed(t) \/ Drop(t) \/ Retract(t) \/ Return(t)
        \/ BeginUninstall(t) \/ EndUninstall(t)

Spec == Init /\ [][Next]_vars

-----------------------------------------------------------------------------
\* Types; a free slot holds nothing.
TypeOK ==
    /\ installing \in BOOLEAN
    /\ thread \in [Thread -> ThreadState]
    /\ slot \in [Slot -> SlotState] /\ \A s \in Free : slot[s] = FreeSlot
    /\ dobby \in [Target -> {"none", "prepared", "patched", "recovery", "unhooked"}]
    /\ original \in [Target -> BOOLEAN]
    /\ entered \subseteq Target /\ failedPublication \subseteq Target /\ reported \subseteq Target

\* A replacement that may be running can always reach its original: v3
\* publishes it before the commit and never takes it back afterwards.
ReplacementHasOriginal == strict => \A x \in entered : original[x]

\* Two hooks of one target would make one trampoline the original of the other.
OneSlotPerTarget == \A x \in Target : Cardinality(Busy(x)) <= 1

Preparing(x) == \E t \in Thread : thread[t].pc = "record" /\ thread[t].target = x

\* No ticket of Dobby is forgotten: what Dobby holds for a target, a slot or the
\* thread that has just been given it holds too, so that it can be undone.
TicketsAreHeld ==
    \A x \in Target :
        dobby[x] \notin Nothing => Preparing(x) \/ \E s \in Busy(x) : slot[s].ticket

\* A hook is reported as installed only when its entry is patched, or was until
\* the owner took the hook away, and its original is published: "such a slot must NOT be misreported as a successfully
\* installed hook".
ReportedIsInstalled ==
    [][\A x \in reported' \ reported : dobby[x] \in {"patched", "unhooked"} /\ original'[x]]_vars
=============================================================================

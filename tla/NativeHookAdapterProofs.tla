--------------------- MODULE NativeHookAdapterProofs ---------------------
(***************************************************************************)
(* NativeHookAdapter for any number of threads, targets and slots, and for *)
(* both versions of the Native API: a replacement that runs reaches its    *)
(* original, a target has one slot, a ticket of Dobby is never forgotten,  *)
(* and what is said to be installed was.                                   *)
(***************************************************************************)
EXTENDS NativeHookAdapter, FiniteSetTheorems, TLAPS

\* The steps of a thread that has the flag of InstallFuseHooks.
InstallSteps == {"installing", "check", "reserve", "prepare", "release", "record",
                 "publish", "commit", "committed", "drop", "retract", "returned"}

Installs(t) == thread[t].pc \in InstallSteps

\* The flag admits one installer.
OneInstaller ==
    /\ \A t \in Thread : Installs(t) => installing
    /\ \A t, u \in Thread : Installs(t) /\ Installs(u) => t = u

\* A slot that is in use has a target of its own, and its ticket unless it is
\* being prepared.
SlotsApart ==
    /\ \A s \in Slot : slot[s].state # "free" => slot[s].target \in Target
    /\ \A s \in Slot : slot[s].state \notin {"free", "preparing"} => slot[s].ticket
    /\ \A r, s \in Slot :
          slot[r].state # "free" /\ slot[s].state # "free" /\ slot[r].target = slot[s].target => r = s

\* The slot a thread is preparing, with or without its ticket.
Prepares(t, ticket) ==
    /\ thread[t].slot \in Slot /\ slot[thread[t].slot].state = "preparing"
    /\ slot[thread[t].slot].target = thread[t].target /\ slot[thread[t].slot].ticket = ticket

\* What each step of the installation has established for its target.
InstallerKnows(t) ==
    LET x == thread[t].target  pc == thread[t].pc IN
    /\ pc \in InstallSteps \ {"installing"} => x \in Target
    /\ pc \in {"prepare", "release"} => Prepares(t, FALSE) /\ dobby[x] \in Nothing
    /\ pc = "record" => Prepares(t, FALSE) /\ dobby[x] = "prepared"
    /\ pc \in {"publish", "commit"} => Prepares(t, TRUE) /\ dobby[x] = "prepared"
    /\ pc = "committed" => Prepares(t, TRUE) /\ dobby[x] = "patched"
    /\ pc = "drop" => Prepares(t, TRUE) /\ dobby[x] = "none"
    /\ pc \in {"reserve", "prepare", "release", "record", "publish"} => ~original[x]
    /\ pc \in {"commit", "committed", "drop", "retract"} /\ strict => original[x]
    /\ pc = "returned" => thread[t].status # "none"
    /\ pc = "returned" /\ thread[t].status = "ok" =>
          dobby[x] \in {"patched", "unhooked"} /\ (strict => original[x])

\* A thread that takes a hook away has the slot to itself.
UnhookerKnows(t) ==
    thread[t].pc = "unhook" =>
        /\ thread[t].slot \in Slot /\ slot[thread[t].slot].state = "unhooking"
        /\ thread[t].prior # "none"

UnhooksApart ==
    \A t, u \in Thread :
        thread[t].pc = "unhook" /\ thread[u].pc = "unhook" /\ thread[t].slot = thread[u].slot => t = u

\* An original that is published belongs to a hook that took place, to one whose
\* publication failed, or to the installation that is under way.
OriginalsExplained ==
    \A x \in Target :
        original[x] => \/ x \in failedPublication
                       \/ dobby[x] \in {"patched", "unhooked"}
                       \/ \E t \in Thread :
                             /\ thread[t].pc \in {"commit", "committed", "drop", "retract", "returned"}
                             /\ thread[t].target = x

Inv ==
    /\ TypeOK /\ OneInstaller /\ SlotsApart /\ UnhooksApart
    /\ \A t \in Thread : InstallerKnows(t) /\ UnhookerKnows(t)
    /\ OriginalsExplained /\ ReplacementHasOriginal /\ TicketsAreHeld


-----------------------------------------------------------------------------
(***************************************************************************)
(* The steps of one thread.                                                *)
(***************************************************************************)
\* What a change of one slot leaves as it was.
LEMMA SlotStep ==
    ASSUME Inv, NEW s \in Slot, NEW v \in SlotState, slot' = [slot EXCEPT ![s] = v],
           v.state = "free" => v = FreeSlot
    PROVE  /\ slot' \in [Slot -> SlotState] /\ (\A r \in Free : slot[r] = FreeSlot)'
           /\ slot'[s] = v /\ \A r \in Slot \ {s} : slot'[r] = slot[r]
<1>1. slot \in [Slot -> SlotState] /\ \A r \in Free : slot[r] = FreeSlot
  BY DEF Inv, TypeOK
<1>2. slot' \in [Slot -> SlotState] /\ slot'[s] = v /\ \A r \in Slot \ {s} : slot'[r] = slot[r]
  BY <1>1
<1> QED BY <1>1, <1>2 DEF Free

\* A slot is taken for a target that has none, changed for its target or freed.
LEMMA SlotsStayApart ==
    ASSUME Inv, NEW s \in Slot, NEW v \in SlotState,
           slot'[s] = v, \A r \in Slot \ {s} : slot'[r] = slot[r],
           v.state # "free" => v.target \in Target,
           v.state \notin {"free", "preparing"} => v.ticket,
           \/ v.state = "free"
           \/ slot[s].state # "free" /\ v.target = slot[s].target
           \/ Busy(v.target) = {}
    PROVE  SlotsApart'
<1>1. SlotsApart
  BY DEF Inv
<1>2. ASSUME NEW q \in Slot, NEW r \in Slot,
             slot'[q].state # "free", slot'[r].state # "free", slot'[q].target = slot'[r].target
      PROVE  q = r
  <2>1. ASSUME NEW o \in Slot \ {s}, slot[o].state # "free", slot[o].target = v.target, v.state # "free"
        PROVE  FALSE
    <3>1. slot[s].state # "free" /\ v.target = slot[s].target => o = s
      BY <1>1, <2>1 DEF SlotsApart
    <3>2. o \in Busy(v.target)
      BY <2>1 DEF Busy
    <3> QED BY <2>1, <3>1, <3>2
  <2>2. CASE q # s /\ r # s
    BY <1>1, <1>2, <2>2 DEF SlotsApart
  <2>3. CASE q = s /\ r # s
    BY <1>2, <2>1, <2>3
  <2>4. CASE q # s /\ r = s
    BY <1>2, <2>1, <2>4
  <2> QED BY <2>2, <2>3, <2>4
<1>3. \A r \in Slot : slot'[r].state # "free" => slot'[r].target \in Target
  BY <1>1 DEF SlotsApart
<1>4. \A r \in Slot : slot'[r].state \notin {"free", "preparing"} => slot'[r].ticket
  BY <1>1 DEF SlotsApart
<1> QED BY <1>2, <1>3, <1>4 DEF SlotsApart

\* What a thread does with the ticket of target x in slot s concerns no other.
LEMMA TicketStep ==
    ASSUME Inv, NEW t \in Thread, NEW s \in Slot, NEW x \in Target,
           \A u \in Thread \ {t} : thread'[u] = thread[u],
           thread[t].pc = "record" => thread[t].target = x,
           \A r \in Slot \ {s} : slot'[r] = slot[r],
           slot[s].state = "free" \/ slot[s].target = x,
           \A y \in Target \ {x} : dobby'[y] = dobby[y],
           dobby'[x] \notin Nothing =>
              \/ thread'[t].pc = "record" /\ thread'[t].target = x
              \/ slot'[s].state # "free" /\ slot'[s].target = x /\ slot'[s].ticket
    PROVE  TicketsAreHeld'
<1>1. ASSUME NEW y \in Target, dobby'[y] \notin Nothing
      PROVE  Preparing(y)' \/ \E r \in Busy(y)' : slot'[r].ticket
  <2>1. CASE y = x
    BY <1>1, <2>1 DEF Preparing, Busy
  <2>2. CASE y # x
    <3>1. Preparing(y) \/ \E r \in Busy(y) : slot[r].ticket
      BY <1>1, <2>2 DEF Inv, TicketsAreHeld
    <3>2. CASE Preparing(y)
      BY <2>2, <3>2 DEF Preparing
    <3>3. CASE \E r \in Busy(y) : slot[r].ticket
      <4>1. PICK r \in Slot : slot[r].state # "free" /\ slot[r].target = y /\ slot[r].ticket
        BY <3>3 DEF Busy
      <4>2. slot'[r] = slot[r]
        BY <2>2, <4>1
      <4> QED BY <4>1, <4>2 DEF Busy
    <3> QED BY <3>1, <3>2, <3>3
  <2> QED BY <2>1, <2>2
<1> QED BY <1>1 DEF TicketsAreHeld, Nothing

\* The same for the original of target x.
Publishing == {"commit", "committed", "drop", "retract", "returned"}

LEMMA OriginalStep ==
    ASSUME Inv, NEW t \in Thread, NEW x \in Target,
           \A u \in Thread \ {t} : thread'[u] = thread[u],
           thread[t].pc \in Publishing => thread[t].target = x,
           \A y \in Target \ {x} : original'[y] = original[y] /\ dobby'[y] = dobby[y],
           failedPublication \subseteq failedPublication',
           original'[x] =>
              \/ x \in failedPublication' \/ dobby'[x] \in {"patched", "unhooked"}
              \/ thread'[t].pc \in Publishing /\ thread'[t].target = x
    PROVE  OriginalsExplained'
<1>1. ASSUME NEW y \in Target, original'[y], y # x
      PROVE  \/ y \in failedPublication' \/ dobby'[y] \in {"patched", "unhooked"}
             \/ \E u \in Thread : thread'[u].pc \in Publishing /\ thread'[u].target = y
  <2>1. \/ y \in failedPublication \/ dobby[y] \in {"patched", "unhooked"}
        \/ \E u \in Thread : thread[u].pc \in Publishing /\ thread[u].target = y
    BY <1>1 DEF Inv, OriginalsExplained, Publishing
  <2>2. CASE \E u \in Thread : thread[u].pc \in Publishing /\ thread[u].target = y
    BY <1>1, <2>2
  <2> QED BY <1>1, <2>1, <2>2
<1> QED BY <1>1 DEF OriginalsExplained, Publishing

\* The installer's step: it keeps the flag until it is idle, and disturbs no
\* slot that is being unhooked.
LEMMA InstallerStep ==
    ASSUME Inv, NEW t \in Thread, NEW d \in ThreadState,
           Installs(t), thread' = [thread EXCEPT ![t] = d],
           (d.pc \in InstallSteps /\ UNCHANGED installing) \/ d.pc = "idle",
           \A r \in Slot : slot[r].state = "unhooking" => slot'[r] = slot[r]
    PROVE  /\ thread' \in [Thread -> ThreadState]
           /\ thread'[t] = d /\ \A u \in Thread \ {t} : thread'[u] = thread[u]
           /\ OneInstaller' /\ UnhooksApart' /\ (\A u \in Thread : UnhookerKnows(u))'
           /\ \A u \in Thread \ {t} : InstallerKnows(u)'
<1>1. /\ thread' \in [Thread -> ThreadState]
      /\ thread'[t] = d /\ \A u \in Thread \ {t} : thread'[u] = thread[u]
  BY DEF Inv, TypeOK
<1>2. d.pc # "unhook"
  BY DEF InstallSteps
<1>3. \A u \in Thread \ {t} : ~Installs(u) /\ ~Installs(u)'
  BY <1>1 DEF Inv, OneInstaller, Installs
<1>4. OneInstaller'
  BY <1>1, <1>3 DEF Inv, OneInstaller, Installs, InstallSteps
<1>5. UnhooksApart'
  BY <1>1, <1>2 DEF Inv, UnhooksApart
<1>6. ASSUME NEW u \in Thread
      PROVE  UnhookerKnows(u)'
  BY <1>1, <1>2 DEF Inv, UnhookerKnows
<1>7. ASSUME NEW u \in Thread \ {t}
      PROVE  InstallerKnows(u)'
  BY <1>3 DEF Installs, InstallerKnows, InstallSteps
<1> QED BY <1>1, <1>4, <1>5, <1>6, <1>7

-----------------------------------------------------------------------------
(***************************************************************************)
(* One lemma for each action.                                              *)
(***************************************************************************)
PCs == InstallSteps \cup {"idle", "unhook"}

LEMMA ThreadStates ==
    ASSUME Inv, NEW t \in Thread
    PROVE  /\ thread[t] \in ThreadState /\ Idle \in ThreadState
           /\ \A pc \in PCs : At(t, pc) \in ThreadState
           /\ Failed(t) \in ThreadState
<1>1. thread[t] \in ThreadState
  BY DEF Inv, TypeOK
<1> QED BY <1>1 DEF ThreadState, Idle, At, Failed, PCs, InstallSteps

\* The slots, and what Dobby and the originals are, are left alone.
LEMMA Quiet ==
    ASSUME Inv, NEW t \in Thread,
           UNCHANGED <<strict, slot, dobby, original, entered, failedPublication>>,
           \A u \in Thread \ {t} : thread'[u] = thread[u],
           thread[t].pc # "record", thread[t].pc \notin Publishing
    PROVE  /\ SlotsApart' /\ TicketsAreHeld' /\ OriginalsExplained' /\ ReplacementHasOriginal'
           /\ (\A s \in Free : slot[s] = FreeSlot)'
<1>1. SlotsApart' /\ ReplacementHasOriginal'
  BY DEF Inv, SlotsApart, ReplacementHasOriginal
<1>2. (\A s \in Free : slot[s] = FreeSlot)'
  BY DEF Inv, TypeOK, Free
<1>3. \A x \in Target : Preparing(x) => Preparing(x)'
  BY DEF Preparing
<1>4. TicketsAreHeld'
  BY <1>3 DEF Inv, TicketsAreHeld, Busy, Nothing
<1>5. OriginalsExplained'
  <2>1. ASSUME NEW x \in Target, original'[x], NEW u \in Thread,
               thread[u].pc \in Publishing, thread[u].target = x
        PROVE  thread'[u] = thread[u]
    BY <2>1
  <2> QED BY <2>1 DEF Inv, OriginalsExplained, Publishing
<1> QED BY <1>1, <1>2, <1>4, <1>5

LEMMA InstallFuseHooksKeeps ==
    ASSUME Inv, NEW t \in Thread, InstallFuseHooks(t), UNCHANGED strict
    PROVE  Inv'
<1> DEFINE d == At(t, "installing")
<1>1. /\ ~installing /\ installing' /\ thread[t].pc = "idle"
      /\ thread' = [thread EXCEPT ![t] = d]
      /\ UNCHANGED <<strict, slot, dobby, original, entered, failedPublication, reported>>
  BY DEF InstallFuseHooks, Go
<1>2. d \in ThreadState /\ d.pc = "installing"
  <2>1. thread[t] \in ThreadState
    BY ThreadStates
  <2> QED BY <2>1 DEF At, ThreadState
<1> HIDE DEF d
<1>3. /\ thread' \in [Thread -> ThreadState] /\ thread'[t] = d
      /\ \A u \in Thread \ {t} : thread'[u] = thread[u]
  BY <1>1, <1>2 DEF Inv, TypeOK
<1>4. \A u \in Thread : ~Installs(u)
  BY <1>1 DEF Inv, OneInstaller
<1>5. OneInstaller'
  BY <1>1, <1>3, <1>4 DEF OneInstaller, Installs
<1>6. UnhooksApart' /\ \A u \in Thread : UnhookerKnows(u)'
  BY <1>1, <1>2, <1>3 DEF Inv, UnhooksApart, UnhookerKnows
<1>7. \A u \in Thread : InstallerKnows(u)'
  BY <1>2, <1>3, <1>4 DEF InstallerKnows, Installs, InstallSteps
<1>8. SlotsApart' /\ TicketsAreHeld' /\ OriginalsExplained' /\ ReplacementHasOriginal'
      /\ (\A s \in Free : slot[s] = FreeSlot)'
  BY <1>1, <1>3, Quiet DEF Publishing
<1>9. TypeOK'
  BY <1>1, <1>3, <1>8 DEF Inv, TypeOK
<1> QED BY <1>5, <1>6, <1>7, <1>8, <1>9 DEF Inv

\* The steps of an installer that has no slot yet and touches nothing.
LEMMA QuietInstallerKeeps ==
    ASSUME Inv, NEW t \in Thread, NEW d \in ThreadState,
           thread[t].pc \in {"installing", "check", "reserve"},
           thread' = [thread EXCEPT ![t] = d],
           \/ d.pc \in {"installing", "check", "reserve", "returned"} /\ UNCHANGED installing
           \/ d.pc = "idle" /\ installing' = FALSE,
           d.pc # "installing" /\ d.pc # "idle" => d.target \in Target,
           d.pc = "reserve" => ~original[d.target], d.pc = "returned" => d.status = "failed",
           UNCHANGED <<strict, slot, dobby, original, entered, failedPublication>>,
           reported' \subseteq Target
    PROVE  Inv'
<1>1. /\ thread' \in [Thread -> ThreadState]
      /\ thread'[t] = d /\ \A u \in Thread \ {t} : thread'[u] = thread[u]
      /\ OneInstaller' /\ UnhooksApart' /\ (\A u \in Thread : UnhookerKnows(u))'
      /\ \A u \in Thread \ {t} : InstallerKnows(u)'
  BY InstallerStep DEF Installs, InstallSteps
<1>2. InstallerKnows(t)'
  BY <1>1 DEF InstallerKnows, InstallSteps
<1>3. SlotsApart' /\ TicketsAreHeld' /\ OriginalsExplained' /\ ReplacementHasOriginal'
      /\ (\A s \in Free : slot[s] = FreeSlot)'
  BY <1>1, Quiet DEF Publishing
<1>4. TypeOK'
  BY <1>1, <1>3 DEF Inv, TypeOK
<1> QED BY <1>1, <1>2, <1>3, <1>4 DEF Inv

LEMMA EarlyStepsKeep ==
    ASSUME Inv, NEW t \in Thread, EndInstallFuseHooks(t) \/ NextTarget(t) \/ Check(t), UNCHANGED strict
    PROVE  Inv'
<1>1. thread[t] \in ThreadState /\ Idle \in ThreadState
  BY ThreadStates
<1>2. reported \subseteq Target /\ InstallerKnows(t)
  BY DEF Inv, TypeOK
<1>3. CASE EndInstallFuseHooks(t)
  <2>1. Idle.pc = "idle" /\ Idle.status = "none"
    BY DEF Idle
  <2> QED BY <1>1, <1>2, <1>3, <2>1, QuietInstallerKeeps DEF EndInstallFuseHooks, Go
<1>4. CASE NextTarget(t)
  <2>1. PICK x \in Target : Go(t, "installing", [At(t, "check") EXCEPT !.target = x])
    BY <1>4 DEF NextTarget
  <2> DEFINE d == [At(t, "check") EXCEPT !.target = x]
  <2>2. d \in ThreadState /\ d.pc = "check" /\ d.target \in Target
    BY <1>1 DEF ThreadState, At
  <2>3. thread[t].pc = "installing" /\ thread' = [thread EXCEPT ![t] = d]
    BY <2>1 DEF Go
  <2>4. UNCHANGED <<installing, slot, dobby, original, entered, failedPublication, reported>>
    BY <1>4 DEF NextTarget
  <2> HIDE DEF d
  <2> QED BY <1>2, <2>2, <2>3, <2>4, QuietInstallerKeeps
<1>5. CASE Check(t)
  <2>1. /\ thread[t].pc = "check" /\ thread[t].target \in Target
        /\ UNCHANGED <<installing, slot, dobby, original, entered, failedPublication>>
        /\ reported' \subseteq Target
    BY <1>2, <1>5 DEF Check, InstallerKnows, InstallSteps
  <2>2. CASE thread' = [thread EXCEPT ![t] = [Idle EXCEPT !.pc = "installing"]]
    <3> DEFINE d == [Idle EXCEPT !.pc = "installing"]
    <3>1. d \in ThreadState /\ d.pc = "installing"
      BY DEF Idle, ThreadState
    <3>2. thread' = [thread EXCEPT ![t] = d]
      BY <2>2
    <3> HIDE DEF d
    <3> QED BY <2>1, <3>1, <3>2, QuietInstallerKeeps
  <2>3. CASE ~original[thread[t].target] /\ thread' = [thread EXCEPT ![t] = At(t, "reserve")]
    <3> DEFINE d == At(t, "reserve")
    <3>1. d \in ThreadState /\ d.pc = "reserve" /\ d.target = thread[t].target
      BY <1>1 DEF At, ThreadState
    <3>2. thread' = [thread EXCEPT ![t] = d] /\ ~original[d.target]
      BY <2>3, <3>1
    <3> HIDE DEF d
    <3> QED BY <2>1, <3>1, <3>2, QuietInstallerKeeps
  <2> QED BY <1>5, <2>2, <2>3 DEF Check, Go
<1> QED BY <1>3, <1>4, <1>5

DobbyState == {"none", "prepared", "patched", "recovery", "unhooked"}

SlotSteps == {"reserve", "prepare", "release", "record", "publish", "commit", "committed", "drop"}

\* An installer's step with slot s, which is or becomes the slot of its target x.
LEMMA SlotStepKeeps ==
    ASSUME Inv, NEW t \in Thread, NEW d \in ThreadState, NEW s \in Slot, NEW v \in SlotState,
           NEW x \in Target, x = thread[t].target, thread[t].pc \in SlotSteps,
           thread' = [thread EXCEPT ![t] = d], d.pc \in InstallSteps,
           UNCHANGED <<strict, installing, failedPublication, reported>>,
           \/ slot[s].state = "free" /\ Busy(x) = {}
           \/ slot[s].state = "preparing" /\ slot[s].target = x,
           slot' = [slot EXCEPT ![s] = v],
           v.state = "free" => v = FreeSlot,
           v.state # "free" => v.target = x,
           v.state \notin {"free", "preparing"} => v.ticket,
           dobby' \in [Target -> DobbyState], \A y \in Target \ {x} : dobby'[y] = dobby[y],
           original' \in [Target -> BOOLEAN], \A y \in Target \ {x} : original'[y] = original[y],
           entered' \subseteq entered \cup {x}, strict /\ x \in entered' => original'[x],
           \/ ~original'[x]
           \/ d.pc \in Publishing /\ d.target = x,
           dobby'[x] \notin Nothing =>
              \/ d.pc = "record" /\ d.target = x
              \/ v.state # "free" /\ v.ticket,
           InstallerKnows(t)'
    PROVE  Inv'
<1>1. Installs(t) /\ thread[t].pc # "unhook"
  BY DEF SlotSteps, Installs, InstallSteps
<1>2. /\ slot' \in [Slot -> SlotState] /\ (\A r \in Free : slot[r] = FreeSlot)'
      /\ slot'[s] = v /\ \A r \in Slot \ {s} : slot'[r] = slot[r]
  BY SlotStep
<1>3. \A r \in Slot : slot[r].state = "unhooking" => slot'[r] = slot[r]
  BY <1>2
<1>4. /\ thread' \in [Thread -> ThreadState]
      /\ thread'[t] = d /\ \A u \in Thread \ {t} : thread'[u] = thread[u]
      /\ OneInstaller' /\ UnhooksApart' /\ (\A u \in Thread : UnhookerKnows(u))'
      /\ \A u \in Thread \ {t} : InstallerKnows(u)'
  BY <1>1, <1>3, InstallerStep
<1>5. SlotsApart'
  <2>1. \/ v.state = "free"
        \/ slot[s].state # "free" /\ v.target = slot[s].target
        \/ Busy(v.target) = {}
    OBVIOUS
  <2> QED BY <1>2, <2>1, SlotsStayApart
<1>6. TicketsAreHeld'
  BY <1>2, <1>4, TicketStep
<1>7. OriginalsExplained'
  BY <1>4, OriginalStep
<1>8. ReplacementHasOriginal'
  <2>1. ASSUME strict, NEW y \in entered'
        PROVE  original'[y]
    <3>1. CASE y = x
      BY <2>1, <3>1
    <3>2. CASE y # x
      <4>1. y \in entered /\ y \in Target
        BY <3>2 DEF Inv, TypeOK
      <4> QED BY <2>1, <3>2, <4>1 DEF Inv, ReplacementHasOriginal
    <3> QED BY <3>1, <3>2
  <2> QED BY <2>1 DEF ReplacementHasOriginal
<1>9. TypeOK'
  BY <1>2, <1>4 DEF Inv, TypeOK, DobbyState
<1> QED BY <1>4, <1>5, <1>6, <1>7, <1>8, <1>9 DEF Inv

LEMMA ReserveKeeps ==
    ASSUME Inv, NEW t \in Thread, Reserve(t), UNCHANGED strict
    PROVE  Inv'
<1> DEFINE x == thread[t].target
<1>1. /\ thread[t].pc = "reserve" /\ thread[t] \in ThreadState /\ x \in Target /\ ~original[x]
      /\ UNCHANGED <<strict, installing, dobby, original, entered, failedPublication, reported>>
      /\ dobby \in [Target -> DobbyState] /\ original \in [Target -> BOOLEAN]
  BY ThreadStates DEF Reserve, Go, Inv, TypeOK, InstallerKnows, InstallSteps, DobbyState
<1>2. CASE Go(t, "reserve", Failed(t)) /\ UNCHANGED slot
  <2> DEFINE d == Failed(t)
  <2>1. d \in ThreadState /\ d.pc = "returned" /\ d.status = "failed" /\ d.target = x
    BY <1>1 DEF Failed, ThreadState
  <2>2. thread' = [thread EXCEPT ![t] = d] /\ reported \subseteq Target
    BY <1>2 DEF Go, Inv, TypeOK
  <2> HIDE DEF d
  <2> QED BY <1>1, <1>2, <2>1, <2>2, QuietInstallerKeeps
<1>3. CASE /\ Busy(x) = {}
           /\ \E s \in Free :
                 /\ Go(t, "reserve", [At(t, "prepare") EXCEPT !.slot = s])
                 /\ slot' = [slot EXCEPT ![s] = [FreeSlot EXCEPT !.target = x, !.state = "preparing"]]
  <2>1. PICK s \in Free :
           /\ Go(t, "reserve", [At(t, "prepare") EXCEPT !.slot = s])
           /\ slot' = [slot EXCEPT ![s] = [FreeSlot EXCEPT !.target = x, !.state = "preparing"]]
    BY <1>3
  <2> DEFINE d == [At(t, "prepare") EXCEPT !.slot = s]
             v == [FreeSlot EXCEPT !.target = x, !.state = "preparing"]
  <2>2. s \in Slot /\ slot[s].state = "free"
    BY DEF Free
  <2>3. d \in ThreadState /\ d.pc = "prepare" /\ d.slot = s /\ d.target = x
    BY <1>1, <2>2 DEF At, ThreadState
  <2>4. v \in SlotState /\ v.state = "preparing" /\ v.target = x /\ ~v.ticket
    BY <1>1 DEF FreeSlot, SlotState
  <2>5. slot' = [slot EXCEPT ![s] = v] /\ thread' = [thread EXCEPT ![t] = d]
    BY <2>1 DEF Go
  <2>6. dobby[x] \in Nothing
    <3>1. OneInstaller /\ Installs(t)
      BY <1>1 DEF Inv, Installs, InstallSteps
    <3>2. ~Preparing(x)
      BY <1>1, <3>1 DEF Preparing, OneInstaller, Installs, InstallSteps
    <3> QED BY <1>1, <1>3, <3>2 DEF Inv, TicketsAreHeld
  <2> HIDE DEF d, v
  <2>7. slot'[s] = v /\ thread'[t] = d
    BY <2>2, <2>5 DEF Inv, TypeOK
  <2>8. InstallerKnows(t)'
    BY <1>1, <2>2, <2>3, <2>4, <2>6, <2>7 DEF InstallerKnows, Prepares, InstallSteps, Nothing
  <2>9. strict /\ x \in entered => original[x]
    BY <1>1 DEF Inv, ReplacementHasOriginal
  <2> HIDE DEF x
  <2> QED BY <1>1, <1>3, <2>2, <2>3, <2>4, <2>5, <2>6, <2>8, <2>9, SlotStepKeeps
          DEF x, SlotSteps, InstallSteps, Nothing
<1> QED BY <1>2, <1>3 DEF Reserve

\* What an installer with a slot knows.
LEMMA SlotOwned ==
    ASSUME Inv, NEW t \in Thread, thread[t].pc \in SlotSteps \ {"reserve"}
    PROVE  /\ thread[t].target \in Target /\ thread[t].slot \in Slot
           /\ slot[thread[t].slot] \in SlotState
           /\ slot[thread[t].slot].state = "preparing"
           /\ slot[thread[t].slot].target = thread[t].target
           /\ thread[t].pc \in {"prepare", "release", "record"} => ~slot[thread[t].slot].ticket
           /\ thread[t].pc \in {"publish", "commit", "committed", "drop"} => slot[thread[t].slot].ticket
           /\ dobby \in [Target -> DobbyState] /\ original \in [Target -> BOOLEAN]
           /\ thread[t] \in ThreadState
           /\ InstallerKnows(t)
           /\ strict /\ thread[t].target \in entered => original[thread[t].target]
<1>1. InstallerKnows(t) /\ TypeOK
  BY DEF Inv
<1>2. /\ thread[t].target \in Target /\ thread[t].slot \in Slot
      /\ slot[thread[t].slot].state = "preparing"
      /\ slot[thread[t].slot].target = thread[t].target
      /\ thread[t].pc \in {"prepare", "release", "record"} => ~slot[thread[t].slot].ticket
      /\ thread[t].pc \in {"publish", "commit", "committed", "drop"} => slot[thread[t].slot].ticket
  BY <1>1 DEF InstallerKnows, Prepares, SlotSteps, InstallSteps
<1>3. strict /\ thread[t].target \in entered => original[thread[t].target]
  BY DEF Inv, ReplacementHasOriginal
<1> QED BY <1>1, <1>2, <1>3 DEF TypeOK, DobbyState

LEMMA SlotLeft ==
    ASSUME Inv, NEW s \in Slot, UNCHANGED slot
    PROVE  slot' = [slot EXCEPT ![s] = slot[s]]
BY DEF Inv, TypeOK

LEMMA PrepareKeeps ==
    ASSUME Inv, NEW t \in Thread, Prepare(t), UNCHANGED strict
    PROVE  Inv'
<1> DEFINE x == thread[t].target  s == thread[t].slot
<1>0. thread[t].pc = "prepare" /\ thread[t].pc \in SlotSteps \ {"reserve"}
  BY DEF Prepare, SlotSteps
<1>1. /\ x \in Target /\ s \in Slot /\ slot[s] \in SlotState
      /\ slot[s].state = "preparing" /\ slot[s].target = x /\ ~slot[s].ticket
      /\ dobby \in [Target -> DobbyState] /\ original \in [Target -> BOOLEAN]
      /\ thread[t] \in ThreadState /\ InstallerKnows(t)
      /\ strict /\ x \in entered => original[x]
  BY <1>0, SlotOwned
<1>2. /\ UNCHANGED <<strict, installing, original, entered, failedPublication, reported>>
      /\ ~original[x] /\ dobby[x] \in Nothing
  BY <1>0, <1>1 DEF Prepare, InstallerKnows
<1>3. CASE /\ Go(t, "prepare", At(t, "record"))
           /\ dobby' = [dobby EXCEPT ![x] = "prepared"]
           /\ UNCHANGED slot
  <2> DEFINE d == At(t, "record")
  <2>1. d \in ThreadState /\ d.pc = "record" /\ d.slot = s /\ d.target = x
    BY <1>1 DEF At, ThreadState
  <2>2. thread' = [thread EXCEPT ![t] = d] /\ slot' = [slot EXCEPT ![s] = slot[s]]
    BY <1>1, <1>3, SlotLeft DEF Go
  <2>3. thread'[t] = d /\ slot'[s] = slot[s] /\ dobby'[x] = "prepared"
        /\ dobby' \in [Target -> DobbyState] /\ \A y \in Target \ {x} : dobby'[y] = dobby[y]
    BY <1>1, <1>3, <2>2 DEF Inv, TypeOK, DobbyState
  <2> HIDE DEF d
  <2>4. InstallerKnows(t)'
    BY <1>1, <1>2, <2>1, <2>3 DEF InstallerKnows, Prepares, InstallSteps
  <2> HIDE DEF x, s
  <2> QED BY <1>0, <1>1, <1>2, <2>1, <2>2, <2>3, <2>4, SlotStepKeeps DEF x, SlotSteps, InstallSteps
<1>4. CASE Go(t, "prepare", At(t, "release")) /\ UNCHANGED <<slot, dobby>>
  <2> DEFINE d == At(t, "release")
  <2>1. d \in ThreadState /\ d.pc = "release" /\ d.slot = s /\ d.target = x
    BY <1>1 DEF At, ThreadState
  <2>2. thread' = [thread EXCEPT ![t] = d] /\ slot' = [slot EXCEPT ![s] = slot[s]]
    BY <1>1, <1>4, SlotLeft DEF Go
  <2>3. thread'[t] = d /\ slot'[s] = slot[s]
    BY <1>1, <1>4, <2>2 DEF Inv, TypeOK
  <2> HIDE DEF d
  <2>4. InstallerKnows(t)'
    BY <1>1, <1>2, <1>4, <2>1, <2>3 DEF InstallerKnows, Prepares, InstallSteps, Nothing
  <2> HIDE DEF x, s
  <2> QED BY <1>0, <1>1, <1>2, <1>4, <2>1, <2>2, <2>3, <2>4, SlotStepKeeps DEF x, SlotSteps, InstallSteps
<1>5. CASE \E state \in {"prepared", "recovery"} :
             /\ Go(t, "prepare", Failed(t))
             /\ slot' = [slot EXCEPT ![s].ticket = TRUE, ![s].state = state]
             /\ dobby' = [dobby EXCEPT ![x] = state]
  <2>0. PICK state \in {"prepared", "recovery"} :
             /\ Go(t, "prepare", Failed(t))
             /\ slot' = [slot EXCEPT ![s].ticket = TRUE, ![s].state = state]
             /\ dobby' = [dobby EXCEPT ![x] = state]
    BY <1>5
  <2> DEFINE d == Failed(t)  v == [slot[s] EXCEPT !.ticket = TRUE, !.state = state]
  <2>1. d \in ThreadState /\ d.pc = "returned" /\ d.status = "failed" /\ d.target = x
    BY <1>1 DEF Failed, ThreadState
  <2>2. v \in SlotState /\ v.state \in {"prepared", "recovery"} /\ v.target = x /\ v.ticket
    BY <1>1 DEF SlotState
  <2>3. thread' = [thread EXCEPT ![t] = d] /\ slot' = [slot EXCEPT ![s] = v]
    BY <1>1, <2>0 DEF Go, Inv, TypeOK
  <2>4. thread'[t] = d
        /\ dobby' \in [Target -> DobbyState] /\ \A y \in Target \ {x} : dobby'[y] = dobby[y]
    BY <1>1, <2>0, <2>3 DEF Inv, TypeOK, DobbyState
  <2> HIDE DEF d, v
  <2>5. InstallerKnows(t)'
    BY <1>1, <2>1, <2>4 DEF InstallerKnows, InstallSteps
  <2> HIDE DEF x, s
  <2> QED BY <1>0, <1>1, <1>2, <2>1, <2>2, <2>3, <2>4, <2>5, SlotStepKeeps DEF x, SlotSteps, InstallSteps
<1> QED BY <1>3, <1>4, <1>5 DEF Prepare

LEMMA ReleaseKeeps ==
    ASSUME Inv, NEW t \in Thread, Release(t) \/ Drop(t), UNCHANGED strict
    PROVE  Inv'
<1> DEFINE x == thread[t].target  s == thread[t].slot
           d == IF thread[t].pc = "release" THEN Failed(t) ELSE At(t, "retract")
<1>0. /\ thread[t].pc \in {"release", "drop"} /\ thread[t].pc \in SlotSteps \ {"reserve"}
      /\ thread' = [thread EXCEPT ![t] = d]
      /\ slot' = [slot EXCEPT ![s] = FreeSlot]
      /\ UNCHANGED <<strict, installing, dobby, original, entered, failedPublication, reported>>
  BY DEF Release, Drop, Go, SlotSteps
<1>1. /\ x \in Target /\ s \in Slot /\ slot[s] \in SlotState
      /\ slot[s].state = "preparing" /\ slot[s].target = x
      /\ dobby \in [Target -> DobbyState] /\ original \in [Target -> BOOLEAN]
      /\ thread[t] \in ThreadState /\ InstallerKnows(t)
      /\ strict /\ x \in entered => original[x]
  BY <1>0, SlotOwned
<1>2. /\ d \in ThreadState /\ d.pc \in {"returned", "retract"} /\ d.target = x
      /\ d.pc = "returned" => d.status = "failed"
      /\ d.pc = "retract" <=> thread[t].pc = "drop"
  BY <1>0, <1>1 DEF At, Failed, ThreadState
<1>3. FreeSlot \in SlotState /\ FreeSlot.state = "free"
  BY DEF FreeSlot, SlotState
<1>4. dobby[x] \in Nothing /\ (strict /\ thread[t].pc = "drop" => original[x])
  BY <1>0, <1>1 DEF InstallerKnows, Nothing
<1> HIDE DEF d
<1>5. thread'[t] = d
  BY <1>0 DEF Inv, TypeOK
<1>6. InstallerKnows(t)'
  BY <1>0, <1>1, <1>2, <1>4, <1>5 DEF InstallerKnows, Prepares, InstallSteps
<1> HIDE DEF x, s
<1> QED BY <1>0, <1>1, <1>2, <1>3, <1>4, <1>5, <1>6, SlotStepKeeps DEF x, SlotSteps, InstallSteps, Publishing

LEMMA RecordKeeps ==
    ASSUME Inv, NEW t \in Thread, Record(t), UNCHANGED strict
    PROVE  Inv'
<1> DEFINE x == thread[t].target  s == thread[t].slot
           d == At(t, "publish")  v == [slot[s] EXCEPT !.ticket = TRUE]
<1>0. /\ thread[t].pc = "record" /\ thread[t].pc \in SlotSteps \ {"reserve"}
      /\ thread' = [thread EXCEPT ![t] = d]
      /\ slot' = [slot EXCEPT ![s] = v]
      /\ UNCHANGED <<strict, installing, dobby, original, entered, failedPublication, reported>>
  BY DEF Record, Go, SlotSteps
<1>1. /\ x \in Target /\ s \in Slot /\ slot[s] \in SlotState
      /\ slot[s].state = "preparing" /\ slot[s].target = x
      /\ dobby \in [Target -> DobbyState] /\ original \in [Target -> BOOLEAN]
      /\ thread[t] \in ThreadState /\ InstallerKnows(t)
      /\ strict /\ x \in entered => original[x]
  BY <1>0, SlotOwned
<1>2. d \in ThreadState /\ d.pc = "publish" /\ d.target = x /\ d.slot = s
  BY <1>1 DEF At, ThreadState
<1>3. v \in SlotState /\ v.state = "preparing" /\ v.target = x /\ v.ticket = TRUE
  BY <1>1 DEF SlotState
<1>4. dobby[x] = "prepared" /\ ~original[x]
  BY <1>0, <1>1 DEF InstallerKnows
<1> HIDE DEF d, v
<1>5. thread'[t] = d /\ slot'[s] = v
  BY <1>0, <1>1 DEF Inv, TypeOK
<1>6. InstallerKnows(t)'
  BY <1>0, <1>1, <1>2, <1>3, <1>4, <1>5 DEF InstallerKnows, Prepares, InstallSteps
<1> HIDE DEF x, s
<1> QED BY <1>0, <1>1, <1>2, <1>3, <1>4, <1>5, <1>6, SlotStepKeeps DEF x, SlotSteps, InstallSteps

LEMMA PublishKeeps ==
    ASSUME Inv, NEW t \in Thread, Publish(t), UNCHANGED strict
    PROVE  Inv'
<1> DEFINE x == thread[t].target  s == thread[t].slot  d == At(t, "commit")  v == slot[s]
<1>0. /\ thread[t].pc = "publish" /\ thread[t].pc \in SlotSteps \ {"reserve"}
      /\ thread' = [thread EXCEPT ![t] = d]
      /\ original' = IF strict THEN [original EXCEPT ![x] = TRUE] ELSE original
      /\ UNCHANGED <<strict, installing, slot, dobby, entered, failedPublication, reported>>
  BY DEF Publish, Go, SlotSteps
<1>1. /\ x \in Target /\ s \in Slot /\ slot[s] \in SlotState
      /\ slot[s].state = "preparing" /\ slot[s].target = x /\ slot[s].ticket = TRUE
      /\ dobby \in [Target -> DobbyState] /\ original \in [Target -> BOOLEAN]
      /\ thread[t] \in ThreadState /\ InstallerKnows(t)
  BY <1>0, SlotOwned DEF SlotState
<1>2. d \in ThreadState /\ d.pc = "commit" /\ d.target = x /\ d.slot = s
  BY <1>1 DEF At, ThreadState
<1>3. dobby[x] = "prepared" /\ dobby' = dobby
  BY <1>0, <1>1 DEF InstallerKnows
<1>4. /\ original' \in [Target -> BOOLEAN] /\ \A y \in Target \ {x} : original'[y] = original[y]
      /\ strict => original'[x]
  BY <1>0, <1>1
<1> HIDE DEF d
<1>5. thread'[t] = d /\ slot' = [slot EXCEPT ![s] = slot[s]] /\ slot'[s] = slot[s]
  BY <1>0, <1>1, SlotLeft DEF Inv, TypeOK
<1>6. InstallerKnows(t)'
  BY <1>0, <1>1, <1>2, <1>3, <1>4, <1>5 DEF InstallerKnows, Prepares, InstallSteps
<1>7. strict /\ x \in entered' => original'[x]
  BY <1>0, <1>4
<1>8. dobby' \in [Target -> DobbyState] /\ \A y \in Target \ {x} : dobby'[y] = dobby[y]
  BY <1>1, <1>3
<1>9. /\ v \in SlotState /\ v.target = x /\ v.ticket /\ v.state = "preparing"
      /\ slot' = [slot EXCEPT ![s] = v]
  BY <1>1, <1>5
<1> HIDE DEF x, s, v
<1>10. d.pc \in Publishing /\ d.pc \in InstallSteps
  BY <1>2 DEF Publishing, InstallSteps
<1>11. /\ thread[t].pc \in SlotSteps /\ thread' = [thread EXCEPT ![t] = d]
       /\ UNCHANGED <<strict, installing, failedPublication, reported>>
       /\ entered' \subseteq entered \cup {x}
  BY <1>0
<1> QED BY <1>1, <1>2, <1>4, <1>6, <1>7, <1>8, <1>9, <1>10, <1>11, SlotStepKeeps DEF x

LEMMA CommitKeeps ==
    ASSUME Inv, NEW t \in Thread, Commit(t), UNCHANGED strict
    PROVE  Inv'
<1> DEFINE x == thread[t].target  s == thread[t].slot
<1>0. /\ thread[t].pc = "commit" /\ thread[t].pc \in SlotSteps \ {"reserve"}
      /\ UNCHANGED <<strict, installing, original, failedPublication, reported>>
  BY DEF Commit, Go, SlotSteps
<1>1. /\ x \in Target /\ s \in Slot /\ slot[s] \in SlotState
      /\ slot[s].state = "preparing" /\ slot[s].target = x /\ slot[s].ticket = TRUE
      /\ dobby \in [Target -> DobbyState] /\ original \in [Target -> BOOLEAN]
      /\ thread[t] \in ThreadState /\ InstallerKnows(t)
  BY <1>0, SlotOwned DEF SlotState
<1>2. strict => original[x]
  BY <1>0, <1>1 DEF InstallerKnows
\* The three ways in which the commit ends.
<1>3. PICK pc \in {"committed", "drop", "retract"}, h \in {"patched", "none", "prepared", "recovery"} :
         /\ thread' = [thread EXCEPT ![t] = At(t, pc)]
         /\ dobby' = [dobby EXCEPT ![x] = h]
         /\ entered' \subseteq entered \cup {x}
         /\ \/ pc = "committed" /\ h = "patched" /\ UNCHANGED slot
            \/ pc = "drop" /\ h = "none" /\ UNCHANGED slot
            \/ /\ pc = "retract" /\ h \in {"prepared", "recovery"}
               /\ slot' = [slot EXCEPT ![s].state = h]
  <2>1. CASE /\ Go(t, "commit", At(t, "committed"))
             /\ dobby' = [dobby EXCEPT ![x] = "patched"]
             /\ entered' = entered \cup {x}
             /\ UNCHANGED slot
    BY <2>1 DEF Go
  <2>2. CASE /\ Go(t, "commit", At(t, "drop"))
             /\ dobby' = [dobby EXCEPT ![x] = "none"]
             /\ \E published \in BOOLEAN : entered' = IF published THEN entered \cup {x} ELSE entered
             /\ UNCHANGED slot
    BY <2>2 DEF Go
  <2>3. CASE \E state \in {"prepared", "recovery"} :
                /\ Go(t, "commit", At(t, "retract"))
                /\ dobby' = [dobby EXCEPT ![x] = state]
                /\ \E published \in BOOLEAN :
                      entered' = IF published THEN entered \cup {x} ELSE entered
                /\ slot' = [slot EXCEPT ![s].state = state]
    BY <2>3 DEF Go
  <2> QED BY <2>1, <2>2, <2>3 DEF Commit
<1> DEFINE d == At(t, pc)
           v == IF pc = "retract" THEN [slot[s] EXCEPT !.state = h] ELSE slot[s]
<1>4. d \in ThreadState /\ d.pc = pc /\ d.target = x /\ d.slot = s
  BY <1>1 DEF At, ThreadState
<1>5. /\ v \in SlotState /\ v.target = x /\ v.ticket = TRUE
      /\ IF pc = "retract" THEN v.state = h /\ h \in {"prepared", "recovery"} ELSE v.state = "preparing"
  BY <1>1, <1>3 DEF SlotState
<1>6. slot' = [slot EXCEPT ![s] = v] /\ thread' = [thread EXCEPT ![t] = d]
  BY <1>1, <1>3, SlotLeft
<1> HIDE DEF d, v
<1>7. thread'[t] = d /\ slot'[s] = v /\ dobby'[x] = h
  BY <1>1, <1>3, <1>6 DEF Inv, TypeOK
<1>8. InstallerKnows(t)'
  BY <1>0, <1>1, <1>2, <1>3, <1>4, <1>5, <1>7 DEF InstallerKnows, Prepares, InstallSteps
<1>9. dobby' \in [Target -> DobbyState] /\ \A y \in Target \ {x} : dobby'[y] = dobby[y]
  BY <1>1, <1>3 DEF DobbyState
<1>10. strict /\ x \in entered' => original'[x]
  BY <1>0, <1>2
<1>11. v.state # "free"
  BY <1>5
<1> HIDE DEF x, s
<1> QED BY <1>0, <1>1, <1>3, <1>4, <1>5, <1>6, <1>8, <1>9, <1>10, <1>11, SlotStepKeeps
        DEF x, SlotSteps, InstallSteps, Publishing

LEMMA CommittedKeeps ==
    ASSUME Inv, NEW t \in Thread, Committed(t), UNCHANGED strict
    PROVE  Inv'
<1> DEFINE x == thread[t].target  s == thread[t].slot
           d == [At(t, "returned") EXCEPT !.status = "ok"]
           v == [slot[s] EXCEPT !.state = "installed"]
<1>0. /\ thread[t].pc = "committed" /\ thread[t].pc \in SlotSteps \ {"reserve"}
      /\ thread' = [thread EXCEPT ![t] = d]
      /\ slot' = [slot EXCEPT ![s] = v]
      /\ UNCHANGED <<strict, installing, dobby, original, entered, failedPublication, reported>>
  BY DEF Committed, Go, SlotSteps
<1>1. /\ x \in Target /\ s \in Slot /\ slot[s] \in SlotState
      /\ slot[s].state = "preparing" /\ slot[s].target = x /\ slot[s].ticket = TRUE
      /\ dobby \in [Target -> DobbyState] /\ original \in [Target -> BOOLEAN]
      /\ thread[t] \in ThreadState /\ InstallerKnows(t)
  BY <1>0, SlotOwned DEF SlotState
<1>2. d \in ThreadState /\ d.pc = "returned" /\ d.target = x /\ d.status = "ok"
  BY <1>1 DEF At, ThreadState
<1>3. v \in SlotState /\ v.state = "installed" /\ v.target = x /\ v.ticket = TRUE
  BY <1>1 DEF SlotState
<1>4. dobby[x] = "patched" /\ (strict => original[x])
  BY <1>0, <1>1 DEF InstallerKnows
<1> HIDE DEF d, v
<1>5. thread'[t] = d
  BY <1>0 DEF Inv, TypeOK
<1>6. InstallerKnows(t)'
  BY <1>0, <1>1, <1>2, <1>4, <1>5 DEF InstallerKnows, Prepares, InstallSteps
<1>7. strict /\ x \in entered' => original'[x]
  BY <1>0, <1>4
<1> HIDE DEF x, s
<1> QED BY <1>0, <1>1, <1>2, <1>3, <1>4, <1>6, <1>7, SlotStepKeeps
        DEF x, SlotSteps, InstallSteps, Publishing

\* Steps of an installer after its slot is settled: only the original of its
\* target and the histories change.
LEMMA LateStepKeeps ==
    ASSUME Inv, NEW t \in Thread, NEW d \in ThreadState, NEW x \in Target,
           x = thread[t].target, thread[t].pc \in {"retract", "returned"},
           thread' = [thread EXCEPT ![t] = d],
           \/ d.pc = "installing"
           \/ d.pc = "returned" /\ d.status = "failed" /\ d.target = x,
           UNCHANGED <<strict, installing, slot, dobby, entered>>,
           original' \in [Target -> BOOLEAN], \A y \in Target \ {x} : original'[y] = original[y],
           strict /\ x \in entered => original'[x],
           \/ ~original'[x] \/ d.pc = "returned" \/ x \in failedPublication'
           \/ dobby[x] \in {"patched", "unhooked"},
           failedPublication \subseteq failedPublication', failedPublication' \subseteq Target,
           reported' \subseteq Target
    PROVE  Inv'
<1>1. Installs(t)
  BY DEF Installs, InstallSteps
<1>2. /\ thread' \in [Thread -> ThreadState]
      /\ thread'[t] = d /\ \A u \in Thread \ {t} : thread'[u] = thread[u]
      /\ OneInstaller' /\ UnhooksApart' /\ (\A u \in Thread : UnhookerKnows(u))'
      /\ \A u \in Thread \ {t} : InstallerKnows(u)'
  BY <1>1, InstallerStep DEF InstallSteps
<1>3. InstallerKnows(t)'
  BY <1>2 DEF InstallerKnows, InstallSteps
<1>4. SlotsApart' /\ (\A s \in Free : slot[s] = FreeSlot)'
  BY DEF Inv, TypeOK, Free, SlotsApart
<1>5. TicketsAreHeld'
  <2>1. \A y \in Target : Preparing(y) => Preparing(y)'
    BY <1>2 DEF Preparing
  <2> QED BY <2>1 DEF Inv, TicketsAreHeld, Busy, Nothing
<1>6. OriginalsExplained'
  BY <1>2, OriginalStep DEF Publishing
<1>7. ReplacementHasOriginal'
  <2>1. ASSUME strict, NEW y \in entered
        PROVE  original'[y]
    <3>1. y \in Target /\ original[y]
      BY <2>1 DEF Inv, TypeOK, ReplacementHasOriginal
    <3> QED BY <2>1, <3>1
  <2> QED BY <2>1 DEF ReplacementHasOriginal
<1>8. TypeOK'
  BY <1>2, <1>4 DEF Inv, TypeOK
<1> QED BY <1>2, <1>3, <1>4, <1>5, <1>6, <1>7, <1>8 DEF Inv

LEMMA RetractKeeps ==
    ASSUME Inv, NEW t \in Thread, Retract(t), UNCHANGED strict
    PROVE  Inv'
<1> DEFINE x == thread[t].target  d == Failed(t)
<1>1. /\ thread[t].pc = "retract" /\ thread' = [thread EXCEPT ![t] = d]
      /\ UNCHANGED <<strict, installing, slot, dobby, entered, failedPublication, reported>>
  BY DEF Retract, Go
<1>2. /\ thread[t] \in ThreadState /\ x \in Target
      /\ original \in [Target -> BOOLEAN] /\ failedPublication \subseteq Target /\ reported \subseteq Target
  BY <1>1, ThreadStates DEF Inv, TypeOK, InstallerKnows, InstallSteps
<1>3. d \in ThreadState /\ d.pc = "returned" /\ d.status = "failed" /\ d.target = x
  BY <1>2 DEF Failed, ThreadState
<1>4. \/ original' = original
      \/ x \notin entered /\ original' = [original EXCEPT ![x] = FALSE]
  BY DEF Retract
<1>5. /\ original' \in [Target -> BOOLEAN] /\ \A y \in Target \ {x} : original'[y] = original[y]
      /\ x \in entered => original' = original
  BY <1>2, <1>4
<1>6. strict /\ x \in entered => original'[x]
  BY <1>5 DEF Inv, ReplacementHasOriginal
<1>7. failedPublication' \subseteq Target /\ reported' \subseteq Target /\ failedPublication \subseteq failedPublication'
  BY <1>1, <1>2
<1> HIDE DEF d
<1> QED BY <1>1, <1>2, <1>3, <1>5, <1>6, <1>7, LateStepKeeps

LEMMA ReturnKeeps ==
    ASSUME Inv, NEW t \in Thread, Return(t), UNCHANGED strict
    PROVE  Inv'
<1> DEFINE x == thread[t].target  d == [Idle EXCEPT !.pc = "installing"]
<1>1. /\ thread[t].pc = "returned" /\ thread' = [thread EXCEPT ![t] = d]
      /\ UNCHANGED <<strict, installing, slot, dobby, entered>>
      /\ original' = [original EXCEPT ![x] = Stored(t)]
  BY DEF Return, Go
<1>2. /\ thread[t] \in ThreadState /\ x \in Target
      /\ original \in [Target -> BOOLEAN] /\ failedPublication \subseteq Target /\ reported \subseteq Target
      /\ InstallerKnows(t)
  BY <1>1, ThreadStates DEF Inv, TypeOK, InstallerKnows, InstallSteps
<1>3. d \in ThreadState /\ d.pc = "installing"
  BY DEF Idle, ThreadState
<1>4. Stored(t) \in BOOLEAN
  BY DEF Stored
<1>5. /\ original' \in [Target -> BOOLEAN] /\ \A y \in Target \ {x} : original'[y] = original[y]
      /\ original'[x] = Stored(t)
  BY <1>1, <1>2, <1>4
<1>6. strict /\ x \in entered => original'[x]
  BY <1>5 DEF Inv, ReplacementHasOriginal, Stored
<1>7. /\ failedPublication' \subseteq Target /\ reported' \subseteq Target
      /\ failedPublication \subseteq failedPublication'
  BY <1>2 DEF Return
<1>8. \/ ~original'[x] \/ x \in failedPublication'
      \/ dobby[x] \in {"patched", "unhooked"}
  <2>1. CASE thread[t].status = "failed" /\ Stored(t)
    BY <2>1 DEF Return
  <2>2. CASE thread[t].status = "ok"
    BY <1>1, <1>2, <2>2 DEF InstallerKnows
  <2>3. CASE ~Stored(t)
    BY <1>5, <2>3
  <2>4. CASE thread[t].status = "none" /\ Stored(t)
    BY <1>1, <1>2, <2>4 DEF InstallerKnows
  <2> QED BY <1>2, <2>1, <2>2, <2>3, <2>4 DEF ThreadState
<1> HIDE DEF d
<1> QED BY <1>1, <1>2, <1>3, <1>5, <1>6, <1>7, <1>8, LateStepKeeps

\* A thread that takes a hook away: its slot is one that no installer prepares.
LEMMA UnhookStep ==
    ASSUME Inv, NEW t \in Thread, NEW d \in ThreadState, NEW s \in Slot, NEW v \in SlotState,
           ~Installs(t), thread' = [thread EXCEPT ![t] = d], d.pc \in {"idle", "unhook"},
           UNCHANGED <<strict, installing, original, entered, failedPublication, reported>>,
           slot[s].state \notin {"free", "preparing"}, slot[s].ticket,
           slot' = [slot EXCEPT ![s] = v],
           v.state = "free" => v = FreeSlot,
           v.state # "preparing",
           v.state # "free" => v.target = slot[s].target /\ v.ticket,
           \/ UNCHANGED dobby /\ v.state # "free"
           \/ dobby' = [dobby EXCEPT ![slot[s].target] = "unhooked"],
           \A u \in Thread \ {t} : thread[u].pc = "unhook" => thread[u].slot # s,
           d.pc = "unhook" => d.slot = s /\ v.state = "unhooking" /\ d.prior # "none"
    PROVE  Inv'
<1> DEFINE x == slot[s].target
<1>1. /\ slot' \in [Slot -> SlotState] /\ (\A r \in Free : slot[r] = FreeSlot)'
      /\ slot'[s] = v /\ \A r \in Slot \ {s} : slot'[r] = slot[r]
  BY SlotStep
<1>2. /\ thread' \in [Thread -> ThreadState]
      /\ thread'[t] = d /\ \A u \in Thread \ {t} : thread'[u] = thread[u]
  BY DEF Inv, TypeOK
<1>3. x \in Target
  BY DEF Inv, SlotsApart
<1>4. /\ dobby' \in [Target -> DobbyState] /\ \A y \in Target \ {x} : dobby'[y] = dobby[y]
      /\ \/ dobby'[x] = "unhooked"
         \/ UNCHANGED dobby /\ v.state # "free"
  BY <1>3 DEF Inv, TypeOK, DobbyState
<1>5. OneInstaller'
  BY <1>2 DEF Inv, OneInstaller, Installs, InstallSteps
<1>6. SlotsApart'
  BY <1>1, <1>3, SlotsStayApart
<1>7. UnhooksApart'
  BY <1>2 DEF Inv, UnhooksApart
<1>8. ASSUME NEW u \in Thread
      PROVE  UnhookerKnows(u)'
  <2>1. CASE u = t
    BY <1>1, <1>2, <2>1 DEF UnhookerKnows
  <2>2. CASE u # t
    BY <1>1, <1>2, <2>2 DEF Inv, UnhookerKnows
  <2> QED BY <2>1, <2>2
<1>9. ASSUME NEW u \in Thread
      PROVE  InstallerKnows(u)'
  <2>1. CASE u = t
    BY <1>2, <2>1 DEF InstallerKnows, InstallSteps
  <2>2. CASE u # t
    <3>1. thread'[u] = thread[u] /\ InstallerKnows(u)
      BY <1>2, <2>2 DEF Inv
    <3>2. ASSUME NEW ticket, Prepares(u, ticket)
          PROVE  Prepares(u, ticket)' /\ dobby'[thread[u].target] = dobby[thread[u].target]
      <4>1. thread[u].slot # s
        BY <3>2 DEF Prepares
      <4>2. thread[u].target # x
        BY <3>2, <4>1 DEF Inv, SlotsApart, Prepares
      <4>3. Prepares(u, ticket)'
        BY <1>1, <3>1, <3>2, <4>1 DEF Prepares
      <4>4. thread[u].target \in Target
        BY <3>2 DEF Inv, SlotsApart, Prepares
      <4> QED BY <1>4, <4>2, <4>3, <4>4
    <3>3. thread[u].target \in Target /\ dobby[thread[u].target] \in {"patched", "unhooked"}
          => dobby'[thread[u].target] \in {"patched", "unhooked"}
      BY <1>3, <1>4
    <3> QED BY <3>1, <3>2, <3>3 DEF InstallerKnows, InstallSteps
  <2> QED BY <2>1, <2>2
<1>10. TicketsAreHeld'
  <2>1. dobby'[x] \notin Nothing => slot'[s].state # "free" /\ slot'[s].target = x /\ slot'[s].ticket
    BY <1>1, <1>4 DEF Nothing
  <2>2. thread[t].pc # "record"
    BY DEF Installs, InstallSteps
  <2> HIDE DEF x
  <2> QED BY <1>1, <1>2, <1>3, <1>4, <2>1, <2>2, TicketStep DEF x
<1>11. OriginalsExplained'
  <2>1. ASSUME NEW y \in Target, original[y]
        PROVE  \/ y \in failedPublication' \/ dobby'[y] \in {"patched", "unhooked"}
               \/ \E u \in Thread : thread'[u].pc \in Publishing /\ thread'[u].target = y
    <3>1. \/ y \in failedPublication \/ dobby[y] \in {"patched", "unhooked"}
          \/ \E u \in Thread : thread[u].pc \in Publishing /\ thread[u].target = y
      BY <2>1 DEF Inv, OriginalsExplained, Publishing
    <3>2. CASE \E u \in Thread : thread[u].pc \in Publishing /\ thread[u].target = y
      <4>1. PICK u \in Thread : thread[u].pc \in Publishing /\ thread[u].target = y
        BY <3>2
      <4>2. u # t
        BY <4>1 DEF Installs, InstallSteps, Publishing
      <4> QED BY <1>2, <4>1, <4>2
    <3>3. CASE dobby[y] \in {"patched", "unhooked"}
      BY <1>4, <3>3
    <3> QED BY <3>1, <3>2, <3>3
  <2> QED BY <2>1 DEF OriginalsExplained, Publishing
<1>12. ReplacementHasOriginal'
  BY DEF Inv, ReplacementHasOriginal
<1>13. TypeOK'
  BY <1>1, <1>2, <1>4 DEF Inv, TypeOK, DobbyState
<1> QED BY <1>5, <1>6, <1>7, <1>8, <1>9, <1>10, <1>11, <1>12, <1>13 DEF Inv

LEMMA BeginUninstallKeeps ==
    ASSUME Inv, NEW t \in Thread, BeginUninstall(t), UNCHANGED strict
    PROVE  Inv'
<1>1. PICK s \in Slot :
         /\ slot[s].ticket /\ slot[s].state \notin {"free", "preparing", "unhooking"}
         /\ Go(t, "idle", [Idle EXCEPT !.pc = "unhook", !.slot = s, !.prior = slot[s].state])
         /\ slot' = [slot EXCEPT ![s].state = "unhooking"]
  BY DEF BeginUninstall
<1> DEFINE d == [Idle EXCEPT !.pc = "unhook", !.slot = s, !.prior = slot[s].state]
           v == [slot[s] EXCEPT !.state = "unhooking"]
<1>2. slot[s] \in SlotState /\ slot[s].state \in {"prepared", "installed", "recovery"}
  BY <1>1 DEF Inv, TypeOK, SlotState
<1>3. d \in ThreadState /\ d.pc = "unhook" /\ d.slot = s /\ d.prior # "none"
  BY <1>2 DEF Idle, ThreadState
<1>4. v \in SlotState /\ v.state = "unhooking" /\ v.target = slot[s].target /\ v.ticket
  BY <1>1, <1>2 DEF SlotState
<1>5. /\ thread' = [thread EXCEPT ![t] = d] /\ slot' = [slot EXCEPT ![s] = v]
      /\ ~Installs(t)
      /\ UNCHANGED <<strict, installing, dobby, original, entered, failedPublication, reported>>
  BY <1>1 DEF Go, Installs, InstallSteps, BeginUninstall
<1>6. \A u \in Thread \ {t} : thread[u].pc = "unhook" => thread[u].slot # s
  BY <1>1 DEF Inv, UnhookerKnows
<1> HIDE DEF d, v
<1> QED BY <1>1, <1>2, <1>3, <1>4, <1>5, <1>6, UnhookStep

LEMMA EndUninstallKeeps ==
    ASSUME Inv, NEW t \in Thread, EndUninstall(t), UNCHANGED strict
    PROVE  Inv'
<1> DEFINE s == thread[t].slot
<1>1. /\ thread[t].pc = "unhook" /\ thread' = [thread EXCEPT ![t] = Idle]
      /\ UNCHANGED <<strict, installing, original, entered, failedPublication, reported>>
  BY DEF EndUninstall, Go
<1>2. /\ thread[t] \in ThreadState /\ s \in Slot /\ slot[s] \in SlotState
      /\ slot[s].state = "unhooking" /\ slot[s].ticket
      /\ thread[t].prior \in {"prepared", "installed", "recovery"}
  BY <1>1 DEF Inv, TypeOK, UnhookerKnows, SlotsApart, ThreadState
<1>3. \A u \in Thread \ {t} : thread[u].pc = "unhook" => thread[u].slot # s
  BY <1>1 DEF Inv, UnhooksApart
<1>4. Idle \in ThreadState /\ Idle.pc = "idle" /\ ~Installs(t)
  BY <1>1 DEF Idle, ThreadState, Installs, InstallSteps
<1>5. CASE /\ dobby' = [dobby EXCEPT ![slot[s].target] = "unhooked"]
           /\ slot' = [slot EXCEPT ![s] = FreeSlot]
  <2>1. FreeSlot \in SlotState /\ FreeSlot.state = "free"
    BY DEF FreeSlot, SlotState
  <2> HIDE DEF s
  <2> QED BY <1>1, <1>2, <1>3, <1>4, <1>5, <2>1, UnhookStep
<1>6. CASE /\ slot' = [slot EXCEPT ![s].state = thread[t].prior]
           /\ UNCHANGED dobby
  <2> DEFINE v == [slot[s] EXCEPT !.state = thread[t].prior]
  <2>1. /\ v \in SlotState /\ v.state \in {"prepared", "installed", "recovery"}
        /\ v.target = slot[s].target /\ v.ticket
    BY <1>2 DEF SlotState
  <2>2. slot' = [slot EXCEPT ![s] = v]
    BY <1>6
  <2> HIDE DEF s, v
  <2> QED BY <1>1, <1>2, <1>3, <1>4, <1>6, <2>1, <2>2, UnhookStep
<1> QED BY <1>5, <1>6 DEF EndUninstall

-----------------------------------------------------------------------------
LEMMA InvNext ==
    ASSUME Inv, [Next]_vars
    PROVE  Inv'
<1>1. CASE UNCHANGED vars
  <2>1. UNCHANGED <<strict, installing, thread, slot, dobby, original, entered, failedPublication, reported>>
    BY <1>1 DEF vars
  <2> QED BY <2>1 DEF Inv, TypeOK, Free, OneInstaller, Installs, SlotsApart, UnhooksApart, InstallerKnows,
                      Prepares, UnhookerKnows, OriginalsExplained, ReplacementHasOriginal,
                      TicketsAreHeld, Preparing, Busy
<1>2. CASE Next
  BY <1>2, InstallFuseHooksKeeps, EarlyStepsKeep, ReserveKeeps, PrepareKeeps, ReleaseKeeps,
     RecordKeeps, PublishKeeps, CommitKeeps, CommittedKeeps, RetractKeeps, ReturnKeeps,
     BeginUninstallKeeps, EndUninstallKeeps DEF Next
<1> QED BY <1>1, <1>2

LEMMA InvInit == Init => Inv
<1> SUFFICES ASSUME Init PROVE Inv
  OBVIOUS
<1>1. /\ Idle \in ThreadState /\ Idle.pc = "idle" /\ FreeSlot \in SlotState /\ FreeSlot.state = "free"
  BY DEF Idle, ThreadState, FreeSlot, SlotState
<1>2. (\A t \in Thread : thread[t] = Idle) /\ \A s \in Slot : slot[s] = FreeSlot
  BY DEF Init
<1>3. TypeOK
  BY <1>1, <1>2 DEF Init, TypeOK, Free
<1>4. OneInstaller /\ UnhooksApart /\ SlotsApart
  BY <1>1, <1>2 DEF OneInstaller, UnhooksApart, SlotsApart, Installs, InstallSteps
<1>5. \A t \in Thread : InstallerKnows(t) /\ UnhookerKnows(t)
  BY <1>1, <1>2 DEF InstallerKnows, UnhookerKnows, InstallSteps
<1>6. OriginalsExplained /\ ReplacementHasOriginal /\ TicketsAreHeld
  BY DEF Init, OriginalsExplained, ReplacementHasOriginal, TicketsAreHeld, Nothing
<1> QED BY <1>3, <1>4, <1>5, <1>6 DEF Inv

LEMMA InvAlways == Spec => []Inv
<1>1. Inv /\ [Next]_vars => Inv'
  BY InvNext
<1> QED BY <1>1, InvInit, PTL DEF Spec

\* Under version 3 of the Native API a replacement that may be running reaches
\* its original, whether the commit that published it succeeded or not and
\* whoever takes the hook away.
THEOREM ReplacementsReachOriginals == Spec => []ReplacementHasOriginal
<1>1. Inv => ReplacementHasOriginal
  BY DEF Inv
<1> QED BY <1>1, InvAlways, PTL

\* The slots keep a target to one hook at a time, although installations and
\* removals overlap and failed steps leave slots behind.
THEOREM TargetsHaveOneSlot == Spec => []OneSlotPerTarget
<1>1. ASSUME Inv, NEW x \in Target
      PROVE  Cardinality(Busy(x)) <= 1
  <2>1. CASE Busy(x) = {}
    BY <2>1, FS_EmptySet
  <2>2. CASE Busy(x) # {}
    <3>1. PICK s \in Slot : s \in Busy(x)
      BY <2>2 DEF Busy
    <3>2. Busy(x) = {s}
      BY <1>1, <3>1 DEF Inv, SlotsApart, Busy
    <3>3. Cardinality(Busy(x)) = 1
      BY <3>2, FS_Singleton, Zenon
    <3> QED BY <3>3
  <2> QED BY <2>1, <2>2
<1>2. Inv => OneSlotPerTarget
  BY <1>1 DEF OneSlotPerTarget
<1> QED BY <1>2, InvAlways, PTL

\* Whatever Dobby holds for a target can be undone: a slot has its ticket, or
\* the thread that was just given it is about to store it.
THEOREM TicketsHeld == Spec => []TicketsAreHeld
<1>1. Inv => TicketsAreHeld
  BY DEF Inv
<1> QED BY <1>1, InvAlways, PTL

\* A hook is said to be installed only if its entry was patched and its original
\* is published: a failed publication is never taken for an installed hook.
THEOREM ReportedWasInstalled == Spec => ReportedIsInstalled
<1>1. ASSUME Inv, NEW t \in Thread, Check(t), NEW x \in reported' \ reported
      PROVE  dobby[x] \in {"patched", "unhooked"} /\ original'[x]
  <2>1. /\ x = thread[t].target /\ thread[t].pc = "check" /\ x \notin failedPublication
        /\ original[x] /\ original' = original
    BY <1>1 DEF Check
  <2>2. x \in Target
    BY <1>1, <2>1 DEF Inv, InstallerKnows, InstallSteps
  <2>3. \A u \in Thread : thread[u].pc \notin {"commit", "committed", "drop", "retract", "returned"}
    <3>1. Installs(t) /\ OneInstaller
      BY <1>1, <2>1 DEF Inv, Installs, InstallSteps
    <3> QED BY <2>1, <3>1 DEF OneInstaller, Installs, InstallSteps
  <2> QED BY <1>1, <2>1, <2>2, <2>3 DEF Inv, OriginalsExplained
<1>2. ASSUME Inv, NEW t \in Thread, Return(t), NEW x \in reported' \ reported
      PROVE  dobby[x] \in {"patched", "unhooked"} /\ original'[x]
  <2>1. /\ x = thread[t].target /\ thread[t].pc = "returned" /\ thread[t].status = "ok"
        /\ original' = [original EXCEPT ![x] = Stored(t)]
    BY <1>2 DEF Return, Go
  <2>2. x \in Target /\ dobby[x] \in {"patched", "unhooked"} /\ (strict => original[x])
    BY <1>2, <2>1 DEF Inv, InstallerKnows, InstallSteps
  <2>3. original'[x] = Stored(t) /\ Stored(t)
    BY <1>2, <2>1, <2>2 DEF Inv, TypeOK, Stored
  <2> QED BY <2>2, <2>3
<1>3. ASSUME NEW t \in Thread,
             \/ InstallFuseHooks(t) \/ EndInstallFuseHooks(t) \/ NextTarget(t)
             \/ Reserve(t) \/ Prepare(t) \/ Release(t) \/ Record(t) \/ Publish(t) \/ Commit(t)
             \/ Committed(t) \/ Drop(t) \/ Retract(t) \/ BeginUninstall(t) \/ EndUninstall(t)
      PROVE  reported' = reported
  BY <1>3 DEF InstallFuseHooks, EndInstallFuseHooks, NextTarget, Reserve, Prepare, Release, Record,
              Publish, Commit, Committed, Drop, Retract, BeginUninstall, EndUninstall
<1>4. Inv /\ [Next]_vars
      => [\A x \in reported' \ reported : dobby[x] \in {"patched", "unhooked"} /\ original'[x]]_vars
  BY <1>1, <1>2, <1>3 DEF Next
<1> QED BY <1>4, InvAlways, PTL DEF Spec, ReportedIsInstalled
=============================================================================

----------------------- MODULE InvalidationAdmission -----------------------
(***************************************************************************)
(* The two pure parts of core/invalidation_admission.hpp: the decision     *)
(* that gives one invalidation request a place in the bounded queue, and   *)
(* the counters by which a published configuration is acknowledged.        *)
(***************************************************************************)
EXTENDS Naturals

CONSTANTS
    QueueLimit,               \* kInvalidationQueueLimit (4096)
    CriticalReserve,          \* kInvalidationCriticalReserve (64)
    ParentSweepsLimit,        \* kInvalidationParentSweepsLimit (64)
    InodeCompensationLimit    \* kInvalidationInodeCompensationLimit (512)

ASSUME LimitsAssumption ==
    /\ QueueLimit \in Nat
    /\ CriticalReserve \in Nat
    /\ CriticalReserve <= QueueLimit
    /\ ParentSweepsLimit \in Nat
    /\ InodeCompensationLimit \in Nat

Admissions == {"Queue", "EvictInodeThenQueue", "ExactInodeCompensation",
               "CoalescedParent", "NewParentSweep", "Reject"}

\* Defect: an off-by-one at the capacity.
CanEvictBeyondLimit(overflowInodes) ==
    overflowInodes <= InodeCompensationLimit

CanEvictInodeIntoCompensation(overflowInodes) ==
    overflowInodes < InodeCompensationLimit

(***************************************************************************)
(* The first line that applies decides.  "critical" is every kind but an   *)
(* inode notification: the last CriticalReserve slots are kept for it.     *)
(* "entry" is an entry with a parent path, "scheduled" says that its       *)
(* parent's sweep is, "reload" that a config publisher asks.               *)
(***************************************************************************)
DecideInvalidationAdmission(queued, parents, critical, entry, scheduled, evicts, reload, inodes) ==
    LET room == queued < QueueLimit - (IF critical THEN 0 ELSE CriticalReserve)
    IN  CASE room
               -> "Queue"
          [] ~room /\ critical /\ evicts
               -> "EvictInodeThenQueue"
          [] ~room /\ ~critical /\ reload /\ inodes < InodeCompensationLimit
               -> "ExactInodeCompensation"
          [] ~room /\ entry /\ ~evicts /\ scheduled
               -> "CoalescedParent"
          [] ~room /\ entry /\ ~evicts /\ ~scheduled /\ parents < ParentSweepsLimit
               -> "NewParentSweep"
          [] OTHER -> "Reject"

-----------------------------------------------------------------------------
(***************************************************************************)
(* InvalidationBatchCounters.  "compensated" is only logged and left out.  *)
(***************************************************************************)
Batch == [epoch: Nat, submitted: Nat, completed: Nat,
          rejected: Nat, failed: Nat, outstanding: Nat]

NewBatch(epoch) == [epoch |-> epoch, submitted |-> 0, completed |-> 0,
                    rejected |-> 0, failed |-> 0, outstanding |-> 0]

Accept(b) == [b EXCEPT !.submitted = @ + 1, !.outstanding = @ + 1]

\* finish() called n times with success: a call that finds nothing outstanding
\* counts as a failure.
FinishMany(b, n) ==
    LET done == IF n <= b.outstanding THEN n ELSE b.outstanding
    IN  [b EXCEPT !.outstanding = @ - done, !.completed = @ + done,
                  !.failed = @ + (n - done)]

Finish(b, success) ==
    IF success \/ b.outstanding = 0
    THEN FinishMany(b, 1)
    ELSE [b EXCEPT !.outstanding = @ - 1, !.failed = @ + 1]

RejectOne(b) == [b EXCEPT !.rejected = @ + 1]

Complete(b) ==
    /\ b.epoch # 0
    /\ b.outstanding = 0
    /\ b.rejected = 0
    /\ b.failed = 0
    /\ b.completed = b.submitted
=============================================================================

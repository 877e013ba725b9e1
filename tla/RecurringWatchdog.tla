--------------------------- MODULE RecurringWatchdog ---------------------------
(***************************************************************************)
(* The scheduled continuation of a goal: the hourly recurring watchdog a   *)
(* worker prepares, the host's receipts about the native task, and the     *)
(* claim a native wake makes (storage/goal-repository.ts, driven by        *)
(* application/scheduled-continuation-service.ts, which only ever prepares *)
(* occurrence = interval).                                                 *)
(*                                                                         *)
(* dog is the latest continuation row.  A receipt carries the version the  *)
(* caller read and a stale one is refused, so a receipt is an action on    *)
(* the row as it is.                                                       *)
(***************************************************************************)
EXTENDS GoalLease

CONSTANTS FirstDelay,      \* from preparing to the first wake
          Interval,        \* intervalMinutes
          EarlyTolerance   \* SCHEDULED_WAKE_EARLY_TOLERANCE_SECONDS

ASSUME WatchdogAssumption ==
  /\ FirstDelay \in Nat \ {0}
  /\ Interval \in Nat \ {0}
  /\ EarlyTolerance \in Nat
  /\ MaxTime \in Nat

NoDog == [status |-> "none", native |-> "none", due |-> 0]

\* native: no task id, an id the host has not confirmed, or a confirmed task.
NativeIds == {"none", "id", "confirmed"}
CleanupStatuses == {"cancel_required", "cancel_failed", "cancel_uncertain"}

RunKeys == 0..MaxTime
NoRuns == [k \in RunKeys |-> "none"]
\* recurringRunKey(): the index of the tick the present moment belongs to.
RunKey == IF now < dog.due THEN 0 ELSE (now - dog.due) \div Interval

\* prepareScheduledContinuation() of a goal without a live continuation.
Prepare(s, track) ==
  /\ Mutable(s)
  /\ Bumped
  /\ Tracks(track)
  /\ ~DogLive
  /\ goal' = Renewed(Saved(goal, track))
  /\ dog' = [status |-> "prepared", native |-> "none", due |-> now + FirstDelay]
  /\ runs' = NoRuns
  /\ UNCHANGED <<now, execs, calls, tok, pend>>

\* refreshLiveScheduledContinuation(): the same watchdog, a new checkpoint.
Refresh(s, track) ==
  /\ Mutable(s)
  /\ Bumped
  /\ Tracks(track)
  /\ HasFence
  /\ goal' = Renewed(Saved(goal, track))
  /\ UNCHANGED <<now, execs, calls, tok, pend, dog, runs>>

ReceiptChanges(status, native) ==
  /\ dog' = [dog EXCEPT !.status = status, !.native = native]
  /\ UNCHANGED <<now, goal, execs, calls, job, tok, pend, runs>>

\* created: the host confirms the native task.
CreatedReceipt ==
  /\ dog.status \in {"prepared", "create_failed", "create_uncertain"}
  /\ ReceiptChanges("scheduled", "confirmed")

\* A receipt may also confirm where a known task runs.
Confirms == IF dog.native = "none" THEN {"none"} ELSE {dog.native, "confirmed"}

\* create_failed and create_uncertain are recorded from any status; they may
\* bring a task id, but never replace one.
CreateProblemReceipt(status) ==
  /\ dog.status # "none"
  /\ \E native \in IF dog.native = "none" THEN NativeIds ELSE Confirms : ReceiptChanges(status, native)

\* cancelled: the host or the user attests that the task cannot run again.
CancelledReceipt ==
  /\ dog.status \in CleanupStatuses
  /\ dog.native # "none"
  /\ \E native \in Confirms : ReceiptChanges("cancelled", native)

CancelProblemReceipt(status) ==
  /\ dog.status \in CleanupStatuses
  /\ \E native \in Confirms : ReceiptChanges(status, native)

\* cancelScheduledContinuation() of the latest continuation.
CancelContinuation ==
  \/ /\ dog.status \in {"cancel_failed", "cancel_uncertain", "scheduled", "create_uncertain"}
     /\ dog.native # "none"
     /\ ReceiptChanges("cancel_required", dog.native)
  \/ /\ dog.status \in {"prepared", "create_failed"}
     /\ dog.native = "none"
     /\ ReceiptChanges("superseded", "none")
  \/ /\ \/ dog.status = "create_uncertain" /\ dog.native = "none"
        \/ dog.status \in CleanupStatuses /\ dog.native = "none"
        \/ dog.status \in {"prepared", "create_failed"} /\ dog.native # "none"
     /\ ReceiptChanges("cancel_uncertain", dog.native)

------------------------------------------------------------------------------
(* A native wake: read, probe the worker, claim.                           *)

ReadForWake(s) ==
  /\ Starts(s, "wake")
  /\ dog.status # "none"
  /\ pend' = [pend EXCEPT ![s] = [NoOp EXCEPT !.op = "wake", !.tracked = goal.tracked, !.probe = TRUE]]
  /\ UNCHANGED <<now, goal, execs, calls, job, tok, dog, runs>>

Waking(s) == pend[s].op = "wake" /\ pend[s].got

\* A wake of a watchdog in cleanup only reminds the host to clean up.
CleanupWake ==
  /\ dog.status \in CleanupStatuses
  /\ dog.native = "confirmed"
  /\ runs[RunKey] = "none"

\* A wake that may resume the goal: due, not used up, and judged on evidence
\* about the lease as it is.
Claimable(s) ==
  /\ goal.status = "active"
  /\ dog.native = "confirmed"
  /\ dog.status \in {"scheduled", "create_uncertain"}
  /\ now + EarlyTolerance >= dog.due
  /\ SameActivity(s)
  /\ \/ runs[RunKey] = "none"
     \/ runs[RunKey] = "busy" /\ Quiet(s)

\* A quiet worker loses its lease once that expired or its heartbeat is stale.
Resumable(s) == Quiet(s) /\ (~LeaseLive \/ now - goal.hb >= Grace)

\* claimRecurringContinuationLease().
Claim(s, d) ==
  /\ Waking(s)
  /\ Claimable(s) /\ Resumable(s)
  /\ TakeLease(s, d)
  /\ runs' = [runs EXCEPT ![RunKey] = "acquired"]
  /\ Finishing(s)
  /\ UNCHANGED <<now, calls, job, dog>>

\* The run is recorded as worker_busy_noop, or as cleanup only.
ClaimRecorded(s) ==
  /\ Waking(s)
  /\ \/ CleanupWake /\ runs' = [runs EXCEPT ![RunKey] = "cleanup"]
     \/ Claimable(s) /\ ~Resumable(s) /\ runs' = [runs EXCEPT ![RunKey] = "busy"]
  /\ Finishing(s)
  /\ UNCHANGED <<now, goal, execs, calls, job, tok, dog>>

\* Every other wake changes nothing.
ClaimRefused(s) ==
  /\ Waking(s)
  /\ ~CleanupWake /\ ~Claimable(s)
  /\ Finishing(s)
  /\ UNCHANGED <<now, goal, execs, calls, job, tok, dog, runs>>
=============================================================================

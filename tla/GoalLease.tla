------------------------------- MODULE GoalLease -------------------------------
(***************************************************************************)
(* One durable goal: its row with the worker lease, its execution receipts *)
(* and its fenced mutation calls (storage/goal-repository.ts), driven by   *)
(* the sessions of the goal service (application/goal-continuation-service *)
(* .ts) and of the mutation fence (application/goal-mutation-fence-service *)
(* .ts).                                                                   *)
(*                                                                         *)
(* A repository method is one BEGIN IMMEDIATE transaction, so it is one    *)
(* action; a service method that awaits between two of them is several     *)
(* actions, and pend[s] is what session s carries from one to the next.    *)
(* A request with a stale revision, token or version is refused and        *)
(* changes nothing, so an action that takes those from the caller is       *)
(* enabled for the value that matches; the values a session reads in one   *)
(* transaction and uses in a later one are kept in pend[s].                *)
(*                                                                         *)
(* A fresh token is minted by every acquisition, so a token is named by    *)
(* the lease generation it was minted for.                                 *)
(***************************************************************************)
EXTENDS Integers, FiniteSets

CONSTANTS Sessions, Calls,   \* worker sessions; ids of fenced tool calls
          NoSession,
          LeaseLengths,      \* leaseSeconds a caller may ask for
          CallLeaseSeconds,  \* how long one beat keeps a fenced call alive
          Grace,             \* DEFAULT_GOAL_STALE_HEARTBEAT_GRACE_SECONDS
          Kinds,             \* bound: the service calls each session makes
          Troubles,          \* bound: the troubles a host reports in a receipt
          MaxTime, MaxGeneration, MaxSeq, MaxRevision   \* bounds

(* leaseSeconds is at least MIN_GOAL_LEASE_SECONDS = 30, the length of a   *)
(* call's lease.                                                           *)
ASSUME GoalAssumption ==
  /\ LeaseLengths \subseteq Nat
  /\ CallLeaseSeconds \in Nat \ {0}
  /\ \A d \in LeaseLengths : d >= CallLeaseSeconds
  /\ Grace \in Nat
  /\ MaxGeneration \in Nat
  /\ NoSession \notin Sessions

VARIABLES
  now,     \* the wall clock
  goal,    \* the goals row
  execs,   \* goal_executions: generation -> state
  calls,   \* goal_fenced_mutation_calls
  job,     \* the managed blocking task the goal may track
  tok,     \* session -> the generation whose token it holds, 0 for none
  pend,    \* session -> the service call it is in the middle of
  dog,     \* the goal's latest scheduled continuation
  runs     \* goal_scheduled_continuation_runs of that continuation

leaseVars == <<goal, execs, tok>>

Statuses == {"absent", "active", "completed", "failed", "blocked", "cancelled"}
Finished == {"completed", "failed", "blocked"}
Terminal == Finished \cup {"cancelled"}

NoGoal == [status |-> "absent", rev |-> 0, gen |-> 0, seq |-> 0, held |-> FALSE,
           dur |-> 0, hb |-> 0, exp |-> 0, tracked |-> FALSE]
NewGoal == [NoGoal EXCEPT !.status = "active"]

NoOp == [op |-> "idle", status |-> "active", rev |-> 0, at |-> 0, tracked |-> FALSE,
         probe |-> FALSE, got |-> FALSE, gen |-> 0, seq |-> 0, seen |-> "untracked"]

LeaseLive == goal.held /\ goal.exp > now

\* The lease authority of session s: owner, session and token hash all match.
Holds(s) == goal.held /\ tok[s] = goal.gen

\* assertMutableLease() for a caller that passes the current revision.
Mutable(s) == goal.status = "active" /\ Holds(s) /\ goal.exp > now

\* assertCompletionReady(): only completion waits for the tracked tasks (and
\* for the plan's steps and blockers, taken to be done).
Ready(status) == status = "completed" => ~goal.tracked

DogLiveStatuses == {"prepared", "scheduled", "create_uncertain",
                    "cancel_required", "cancel_failed", "cancel_uncertain"}
DogLive == dog.status \in DogLiveStatuses

\* selectMutationFenceContinuation(): cleanup states fence nothing.
FenceStatuses == {"prepared", "scheduled", "create_uncertain"}
HasFence == dog.status \in FenceStatuses

Bumped == goal.rev < MaxRevision
\* Mutant of Unleased: the expiry survives the lease.
UnleasedButExpiry(g) == [g EXCEPT !.held = FALSE, !.dur = 0, !.hb = 0]

\* The lease columns set to NULL.
Unleased(g) == [g EXCEPT !.held = FALSE, !.dur = 0, !.hb = 0, !.exp = 0]
\* The lease renewed from the present moment for its own duration.
Renewed(g) == [g EXCEPT !.hb = now, !.exp = now + g.dur]
\* A checkpoint: a new revision, with the blocking task tracked or not.
Saved(g, track) == [g EXCEPT !.rev = @ + 1, !.tracked = track]
\* A sign of life: the activity sequence moves.
Counted(g) == [g EXCEPT !.seq = @ + 1]
\* A new lease generation.
Taken(g, d) == Renewed([g EXCEPT !.gen = @ + 1, !.seq = 0, !.held = TRUE, !.dur = d])
\* The goal closed with this status.
Closed(g, status) == [Unleased(g) EXCEPT !.status = status, !.rev = @ + 1, !.tracked = FALSE]
\* A call row marked complete: its lease is never read again.
Done(call) == [call EXCEPT !.state = "done", !.gen = 0, !.exp = 0]
\* The calls of some generations marked complete.
Completed(S) == [c \in Calls |-> IF calls[c].state = "open" /\ calls[c].gen \in S
                                   THEN Done(calls[c]) ELSE calls[c]]

\* A call the liveness probe counts.
LiveCall(c) == calls[c].state = "open" /\ calls[c].gen = goal.gen /\ calls[c].exp > now

\* A checkpoint records whether the goal waits for its blocking task; the
\* worker has started the task it tracks.
Tracks(track) == job' = IF track /\ job = "none" THEN "running" ELSE job

\* Session s starts a service call.
Starts(s, kind) == kind \in Kinds[s] /\ pend[s].op = "idle"

Finishing(s) == pend' = [pend EXCEPT ![s] = NoOp]

------------------------------------------------------------------------------
(* Observing a worker and taking its lease over.                           *)

\* runGoal() reads the goal; it probes the worker only if a lease is live.
ReadForRun(s) ==
  /\ Starts(s, IF goal.status = "absent" THEN "create" ELSE "run")
  /\ pend' = [pend EXCEPT ![s] = [NoOp EXCEPT
       !.op = "run", !.probe = (goal.status = "active" /\ LeaseLive),
       !.tracked = (goal.status = "active" /\ LeaseLive /\ goal.tracked)]]
  /\ UNCHANGED <<now, goal, execs, calls, job, tok, dog, runs>>

\* The state reported for the tasks the caller listed.
TaskReport(listed) ==
  IF ~listed THEN {"untracked"}
  ELSE {"unknown", IF job = "running" THEN "running" ELSE "terminal"}

\* observe(): generation, activity sequence and live calls in one read, then
\* the task probes, of the tasks listed before.  A live call and a task nobody
\* can tell the state of have the same effect.
Observe(s) ==
  /\ pend[s].op \in {"run", "wake"}
  /\ pend[s].probe /\ ~pend[s].got
  /\ goal.status # "absent"
  /\ \E task \in TaskReport(pend[s].tracked) :
       pend' = [pend EXCEPT ![s] = [@ EXCEPT
         !.got = TRUE, !.gen = goal.gen, !.seq = goal.seq, !.tracked = FALSE,
         !.seen = IF \E c \in Calls : LiveCall(c) THEN "unknown" ELSE task]]
  /\ UNCHANGED <<now, goal, execs, calls, job, tok, dog, runs>>

\* Mutant of SameActivity: the activity sequence is not compared.
SameGeneration(s) == pend[s].gen = goal.gen

\* The evidence speaks about the lease as it still is.
SameActivity(s) == pend[s].gen = goal.gen /\ pend[s].seq = goal.seq

\* No live call, and every task the goal tracks now was reported ended.
Quiet(s) ==
  /\ pend[s].seen # "unknown"
  /\ goal.tracked => pend[s].seen = "terminal"

\* assessGoalWorkerLiveness() = inactive.
Inactive(s) ==
  /\ pend[s].got
  /\ SameActivity(s)
  /\ Quiet(s)
  /\ goal.hb <= now
  /\ DogLive => now - goal.hb >= Grace

\* Mutant of Rotated: the displaced execution keeps its receipt.
RotatedAdds == [execs EXCEPT ![goal.gen + 1] = "active"]

\* rotateExecutionReceiptForLeaseAcquisition().
Rotated == [execs EXCEPT ![goal.gen] = "superseded", ![goal.gen + 1] = "active"]

\* A new lease generation for session s, and its execution receipt.
TakeLease(s, d) ==
  /\ goal.gen < MaxGeneration
  /\ goal' = Taken(goal, d)
  /\ execs' = Rotated
  /\ tok' = [tok EXCEPT ![s] = goal.gen + 1]

\* acquire() of a goal that does not exist yet.
Create(s, d) ==
  /\ pend[s].op = "run"
  /\ goal.status = "absent"
  /\ MaxGeneration > 0
  /\ goal' = Taken(NewGoal, d)
  /\ execs' = [execs EXCEPT ![1] = "active"]
  /\ tok' = [tok EXCEPT ![s] = 1]
  /\ Finishing(s)
  /\ UNCHANGED <<now, calls, job, dog, runs>>

\* Mutant of Takeable: a terminal goal's lease is free as well.
TakeableAnyStatus(s) == ~LeaseLive \/ Inactive(s)

Takeable(s) == goal.status = "active" /\ (~LeaseLive \/ Inactive(s))

\* acquire() of an existing goal.
Acquire(s, d) ==
  /\ pend[s].op = "run"
  /\ goal.status # "absent"
  /\ Takeable(s)
  /\ TakeLease(s, d)
  /\ Finishing(s)
  /\ UNCHANGED <<now, calls, job, dog, runs>>

\* acquire() answers that the goal is closed or the lease is taken.
AcquireRefused(s) ==
  /\ pend[s].op = "run"
  /\ goal.status # "absent"
  /\ ~Takeable(s)
  /\ Finishing(s)
  /\ UNCHANGED <<now, goal, execs, calls, job, tok, dog, runs>>

------------------------------------------------------------------------------
(* The worker.                                                             *)

\* checkpoint(), which keeps and renews the lease or gives it up.
Checkpoint(s, release, track) ==
  /\ Mutable(s)
  /\ Bumped /\ goal.seq < MaxSeq
  /\ Tracks(track)
  /\ goal' = IF release THEN Unleased(Saved(Counted(goal), track))
                        ELSE Renewed(Saved(Counted(goal), track))
  /\ execs' = IF release THEN [execs EXCEPT ![goal.gen] = "released"] ELSE execs
  /\ UNCHANGED <<now, calls, tok, pend, dog, runs>>

\* setIdleGoalPonytailModeForHost(): a new revision while nobody works.
HostPolicy ==
  /\ goal.status = "active"
  /\ Bumped
  /\ ~LeaseLive /\ ~DogLive
  /\ ~\E c \in Calls : LiveCall(c)
  /\ goal' = Saved(goal, goal.tracked)
  /\ UNCHANGED <<now, execs, calls, job, tok, pend, dog, runs>>

JobEnds ==
  /\ job = "running"
  /\ job' = "ended"
  /\ UNCHANGED <<now, goal, execs, calls, tok, pend, dog, runs>>

\* Mutant of CallExpiry: a call's lease is longer than a goal's may be.
CallExpiryLong == now + CallLeaseSeconds + 1

\* A beat keeps a fenced call alive until then.
CallExpiry == now + CallLeaseSeconds

\* A fenced call shows life and renews the lease.
Active(g) == Renewed(Counted(g))

\* beginGoalFencedMutation() for a recurring continuation, which sets no
\* handoff deadline.
Begin(s, c) ==
  /\ calls[c].state = "unused"
  /\ Mutable(s)
  /\ HasFence
  /\ goal.seq < MaxSeq
  /\ goal' = Active(goal)
  /\ calls' = [calls EXCEPT ![c] = [state |-> "open", gen |-> goal.gen,
                                    exp |-> CallExpiry, by |-> s]]
  /\ UNCHANGED <<now, execs, job, tok, pend, dog, runs>>

Beats(c) == calls[c].state = "open" /\ calls[c].gen = goal.gen /\ LeaseLive

\* heartbeatGoalFencedMutation(), from the timer of the running handler.
Heartbeat(c) ==
  /\ calls[c].by # NoSession
  /\ Beats(c)
  /\ goal.status = "active"
  /\ HasFence
  /\ goal.seq < MaxSeq
  /\ goal' = Active(goal)
  /\ calls' = [calls EXCEPT ![c].exp = CallExpiry]
  /\ UNCHANGED <<now, execs, job, tok, pend, dog, runs>>

\* The handler returns: endGoalFencedMutation().
End(c) ==
  /\ calls[c].by # NoSession
  /\ calls' = [calls EXCEPT ![c] = [Done(@) EXCEPT !.by = NoSession]]
  /\ UNCHANGED <<now, goal, execs, job, tok, pend, dog, runs>>

\* The process of session s dies: its handlers stop beating and its tokens,
\* held only in memory, are gone.
Crash(s) ==
  /\ tok[s] # 0 \/ pend[s] # NoOp
  /\ tok' = [tok EXCEPT ![s] = 0]
  /\ Finishing(s)
  /\ calls' = [c \in Calls |-> IF calls[c].by = s THEN [calls[c] EXCEPT !.by = NoSession] ELSE calls[c]]
  /\ UNCHANGED <<now, goal, execs, job, dog, runs>>

Tick ==
  /\ now < MaxTime
  /\ now' = now + 1
  /\ UNCHANGED <<goal, execs, calls, job, tok, pend, dog, runs>>

------------------------------------------------------------------------------
(* Closing the goal.                                                       *)

\* markGoalFinishedForScheduledContinuation(): what becomes of the watchdog.
Marked(d) ==
  [d EXCEPT !.status =
     CASE d.status \notin DogLiveStatuses -> d.status
       [] d.status \in {"cancel_required", "cancel_failed", "cancel_uncertain"} -> d.status
       [] d.status \in {"scheduled", "create_uncertain"} /\ d.native # "none" -> "cancel_required"
       [] d.status = "prepared" /\ d.native = "none" -> "superseded"
       [] OTHER -> "cancel_uncertain"]

\* finishGoal() samples the time and then awaits; the caller passes the
\* revision it knows.
FinishStart(s, status) ==
  /\ Starts(s, status)
  /\ Mutable(s)
  /\ pend' = [pend EXCEPT ![s] = [NoOp EXCEPT
       !.op = "finish", !.status = status, !.rev = goal.rev, !.at = now]]
  /\ UNCHANGED <<now, goal, execs, calls, job, tok, dog, runs>>

\* assertMutableLease() and assertCompletionReady() at the sampled time.
Finishable(s) ==
  /\ goal.status = "active"
  /\ goal.rev = pend[s].rev
  /\ Holds(s) /\ goal.exp > pend[s].at
  /\ Ready(pend[s].status)

\* First transaction: validateFinish().
FinishValidate(s) ==
  /\ pend[s].op = "finish"
  /\ pend' = [pend EXCEPT ![s] = IF Finishable(s) THEN [@ EXCEPT !.op = "validated"] ELSE NoOp]
  /\ UNCHANGED <<now, goal, execs, calls, job, tok, dog, runs>>

\* Second transaction: the watchdog is marked.  A watchdog that still has to
\* be cleaned up at the host ends the call; the goal stays active.
FinishMark(s) ==
  /\ pend[s].op = "validated"
  /\ dog' = Marked(dog)
  /\ pend' = [pend EXCEPT ![s] = IF Marked(dog).status \in DogLiveStatuses
                                   THEN NoOp ELSE [@ EXCEPT !.op = "marked"]]
  /\ UNCHANGED <<now, goal, execs, calls, job, tok, runs>>

\* Third transaction: finish() checks all of it again.
FinishCommit(s) ==
  /\ pend[s].op = "marked"
  /\ Finishing(s)
  /\ IF Finishable(s)
       THEN /\ goal' = Closed(goal, pend[s].status)
            /\ execs' = [execs EXCEPT ![goal.gen] = "terminal"]
       ELSE UNCHANGED <<goal, execs>>
  /\ UNCHANGED <<now, calls, job, tok, dog, runs>>

\* Mutant of StoppedByCancel: an open call of the cancelled worker stays open.
StoppedByCancelLate(S) == Completed(S \ {goal.gen})

\* Fenced calls a cancellation invalidates.
StoppedByCancel(S) == Completed(S)

\* cancel(): every open call is complete, whatever its generation.
Cancel(s) ==
  /\ Starts(s, "cancel")
  /\ goal.status = "active"
  /\ goal' = Closed(goal, "cancelled")
  /\ calls' = StoppedByCancel(1..MaxGeneration)
  /\ execs' = [execs EXCEPT ![goal.gen] = "terminal"]
  /\ pend' = [pend EXCEPT ![s] = [NoOp EXCEPT !.op = "cancelled"]]
  /\ UNCHANGED <<now, job, tok, dog, runs>>

\* cancel() of a goal that is cancelled already repairs the call rows.
CancelAgain(s) ==
  /\ Starts(s, "cancel")
  /\ goal.status = "cancelled"
  /\ calls' = StoppedByCancel(1..MaxGeneration)
  /\ pend' = [pend EXCEPT ![s] = [NoOp EXCEPT !.op = "cancelled"]]
  /\ UNCHANGED <<now, goal, execs, job, tok, dog, runs>>

\* cancelExecution() of the exact generation g a task handle was issued for.
CancelExecution(s, g) ==
  /\ Starts(s, "cancel")
  /\ goal.status = "active"
  /\ g = goal.gen /\ execs[g] \in {"active", "released"}
  /\ goal' = Closed(goal, "cancelled")
  /\ calls' = StoppedByCancel({g})
  /\ execs' = [execs EXCEPT ![g] = "terminal"]
  /\ pend' = [pend EXCEPT ![s] = [NoOp EXCEPT !.op = "cancelled"]]
  /\ UNCHANGED <<now, job, tok, dog, runs>>

\* buildCancellationResult() marks the watchdog afterwards.
CancelMark(s) ==
  /\ pend[s].op = "cancelled"
  /\ dog' = Marked(dog)
  /\ Finishing(s)
  /\ UNCHANGED <<now, goal, execs, calls, job, tok, runs>>

------------------------------------------------------------------------------
(* Reconciliation of an abandoned goal.                                    *)

\* reconcileGoals() reads a goal without a live lease and samples the time.
ReadForReconcile(s) ==
  /\ Starts(s, "reconcile")
  /\ goal.status = "active" /\ ~LeaseLive
  /\ pend' = [pend EXCEPT ![s] = [NoOp EXCEPT
       !.op = "reconcile", !.rev = goal.rev, !.gen = goal.gen, !.seq = goal.seq,
       !.tracked = goal.tracked, !.at = now]]
  /\ UNCHANGED <<now, goal, execs, calls, job, tok, dog, runs>>

\* It goes on only if the probe saw the same lease, no worker and no task,
\* and no continuation is live.
ObserveForReconcile(s) ==
  /\ pend[s].op = "reconcile" /\ ~pend[s].got
  /\ \E task \in TaskReport(pend[s].tracked) :
       LET idle == /\ SameActivity(s)
                   /\ ~\E c \in Calls : LiveCall(c)
                   /\ task \in {"untracked", "terminal"}
                   /\ ~DogLive
       IN  pend' = [pend EXCEPT ![s] = IF idle THEN [@ EXCEPT !.got = TRUE, !.tracked = FALSE] ELSE NoOp]
  /\ UNCHANGED <<now, goal, execs, calls, job, tok, dog, runs>>

\* Mutant of Abandoned: a watchdog armed after the probe is overlooked.
AbandonedDespiteWatchdog(s) ==
  /\ goal.status = "active"
  /\ goal.rev = pend[s].rev /\ SameActivity(s)
  /\ ~(goal.held /\ goal.exp > pend[s].at)

\* reconcile() re-checks all of it against the row, at the sampled time.
Abandoned(s) ==
  /\ goal.status = "active"
  /\ goal.rev = pend[s].rev /\ SameActivity(s)
  /\ ~(goal.held /\ goal.exp > pend[s].at)
  /\ ~DogLive

Reconcile(s) ==
  /\ pend[s].op = "reconcile" /\ pend[s].got
  /\ Finishing(s)
  /\ IF Abandoned(s)
       THEN /\ goal' = Closed(goal, "cancelled")
            /\ calls' = Completed(1..MaxGeneration)
            /\ execs' = [execs EXCEPT ![goal.gen] = "terminal"]
       ELSE UNCHANGED <<goal, calls, execs>>
  /\ UNCHANGED <<now, job, tok, dog, runs>>
=============================================================================

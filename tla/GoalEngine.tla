------------------------------ MODULE GoalEngine -------------------------------
(***************************************************************************)
(* The goal engine: sessions that run, observe, take over, fence, finish,  *)
(* cancel and reconcile one durable goal, and the recurring watchdog that  *)
(* wakes it up.                                                            *)
(***************************************************************************)
EXTENDS RecurringWatchdog

vars == <<now, goal, execs, calls, job, tok, pend, dog, runs>>

NoCall == [state |-> "unused", gen |-> 0, exp |-> 0, by |-> NoSession]

Init ==
  /\ now = 0
  /\ goal = NoGoal
  /\ execs = [g \in 1..MaxGeneration |-> "none"]
  /\ calls = [c \in Calls |-> NoCall]
  /\ job = "none"
  /\ tok = [s \in Sessions |-> 0]
  /\ pend = [s \in Sessions |-> NoOp]
  /\ dog = NoDog
  /\ runs = NoRuns

RunGoal(s) ==
  \/ ReadForRun(s) \/ Observe(s) \/ AcquireRefused(s)
  \/ \E d \in LeaseLengths : Create(s, d) \/ Acquire(s, d)

Work(s) ==
  \/ \E release, track \in BOOLEAN : Checkpoint(s, release, track)
  \/ \E track \in BOOLEAN : Prepare(s, track) \/ Refresh(s, track)
  \/ \E c \in Calls : Begin(s, c)

Finish(s) ==
  \/ \E status \in Finished : FinishStart(s, status)
  \/ FinishValidate(s) \/ FinishMark(s) \/ FinishCommit(s)

CancelGoal(s) ==
  \/ Cancel(s) \/ CancelAgain(s) \/ CancelMark(s)
  \/ \E g \in 1..MaxGeneration : CancelExecution(s, g)

ReconcileGoals(s) == ReadForReconcile(s) \/ ObserveForReconcile(s) \/ Reconcile(s)

Wake(s) ==
  \/ ReadForWake(s) \/ ClaimRecorded(s) \/ ClaimRefused(s)
  \/ \E d \in LeaseLengths : Claim(s, d)

Host ==
  \/ HostPolicy
  \/ CreatedReceipt \/ CancelledReceipt \/ CancelContinuation
  \/ \E status \in Troubles \cap {"create_failed", "create_uncertain"} : CreateProblemReceipt(status)
  \/ \E status \in Troubles \cap {"cancel_failed", "cancel_uncertain"} : CancelProblemReceipt(status)

Next ==
  \/ \E s \in Sessions :
       RunGoal(s) \/ Work(s) \/ Finish(s) \/ CancelGoal(s) \/ ReconcileGoals(s) \/ Wake(s) \/ Crash(s)
  \/ \E c \in Calls : Heartbeat(c) \/ End(c)
  \/ Host \/ JobEnds \/ Tick

Spec == Init /\ [][Next]_vars

------------------------------------------------------------------------------
(* Properties.                                                             *)

GoalRecords == [status : Statuses, rev : Nat, gen : 0..MaxGeneration, seq : Nat, held : BOOLEAN,
                dur : Nat, hb : Nat, exp : Nat, tracked : BOOLEAN]

CallRecords == [state : {"unused", "open", "done"}, gen : Nat, exp : Nat,
                by : Sessions \cup {NoSession}]

Ops == {"idle", "run", "wake", "reconcile", "finish", "validated", "marked", "cancelled"}

PendRecords == [op : Ops, status : Statuses, rev : Nat, at : Nat, tracked : BOOLEAN,
                probe : BOOLEAN, got : BOOLEAN, gen : Nat, seq : Nat,
                seen : {"untracked", "unknown", "running", "terminal"}]

DogRecords == [status : DogLiveStatuses \cup {"none", "create_failed", "superseded", "cancelled"},
               native : NativeIds, due : Nat]

\* The shape of the rows the repository writes and of what sessions carry; the
\* lease columns of a goal are set or NULL together.
TypeOK ==
  /\ now \in Nat
  /\ goal \in GoalRecords
  /\ ~goal.held => goal.dur = 0 /\ goal.hb = 0 /\ goal.exp = 0
  /\ execs \in [1..MaxGeneration -> {"none", "active", "released", "superseded", "terminal"}]
  /\ calls \in [Calls -> CallRecords]
  /\ job \in {"none", "running", "ended"}
  /\ tok \in [Sessions -> 0..MaxGeneration]
  /\ pend \in [Sessions -> PendRecords]
  /\ dog \in DogRecords
  /\ runs \in [RunKeys -> {"none", "busy", "acquired", "cleanup"}]

\* The execution receipts tell who may work: exactly the generation that holds
\* the lease is active, a generation that was displaced stays superseded, and
\* a closed goal has no active or released execution left to cancel
\* (rotateExecutionReceiptForLeaseAcquisition, updateExecutionState).
ReceiptsTrackLease ==
  \A g \in 1..MaxGeneration :
    /\ execs[g] = "active" <=> goal.held /\ g = goal.gen
    /\ execs[g] = "released" => goal.status = "active" /\ g = goal.gen
    /\ g < goal.gen => execs[g] = "superseded"

\* A lease that was neither released nor closed changes hands only when no
\* fenced call of its worker is still alive, and before it expires only when
\* the blocking task the goal tracks is not running either.  The evidence was
\* collected some transactions earlier (acquire, claimRecurringScheduled-
\* Continuation, assessGoalWorkerLiveness).
LiveWorkerKept ==
  [][goal'.gen # goal.gen /\ goal.held =>
       /\ \A c \in Calls : ~LiveCall(c)
       /\ LeaseLive /\ goal.tracked => job # "running"]_vars

\* Reconciliation decides on a probe made two transactions earlier and at the
\* time of that probe, and still never closes a goal that somebody works on,
\* waits for or will be woken for (reconcileGoals, reconcile).
OnlyAbandonedReconciled ==
  [][\A s \in Sessions : Reconcile(s) /\ goal' # goal =>
       /\ ~LeaseLive /\ ~DogLive
       /\ \A c \in Calls : ~LiveCall(c)
       /\ goal.tracked => job # "running"]_vars

\* A closed goal is never reopened, taken or rewritten, whatever the sessions
\* that were in the middle of a run, a wake or a finish do next.
ClosedForGood == [][goal.status \in Terminal => goal' = goal]_vars

\* A cancelled goal has no open call of the worker that held it, so the
\* handler's next beat fails (cancel, cancelExecution, reconcile).
CancelStopsWorker ==
  goal.status = "cancelled" => \A c \in Calls : calls[c].state = "open" => calls[c].gen # goal.gen

\* A fenced call never outlives the lease it was admitted under, so a lease
\* that expired needs no probe before it changes hands (beginGoalFenced-
\* Mutation, heartbeatGoalFencedMutation).
CallsInsideLease ==
  \A c \in Calls : calls[c].state = "open" /\ calls[c].gen = goal.gen /\ goal.held
                     => calls[c].exp <= goal.exp

\* finish_goal is a "lease/revision compare-and-swap" and "the prior token is
\* fenced": a finish whose session lost the lease to another worker leaves that
\* worker's watchdog alone (finishGoal, markGoalFinishedForScheduled-
\* Continuation).
StaleFinishHarmless ==
  [][\A s \in Sessions : FinishMark(s) /\ goal.held /\ ~Holds(s) => dog' = dog]_vars
=============================================================================

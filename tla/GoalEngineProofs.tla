--------------------------- MODULE GoalEngineProofs ----------------------------
(***************************************************************************)
(* Theorems of the goal engine, for any number of sessions and calls, any  *)
(* lease lengths and any bounds.                                           *)
(***************************************************************************)
EXTENDS GoalEngine, TLAPS

------------------------------------------------------------------------------
(* What the helpers on rows return.                                        *)

\* A renewed lease runs for its own duration from the present moment.
LEMMA RenewedRow ==
  ASSUME NEW g \in GoalRecords, now \in Nat
  PROVE  /\ Renewed(g) \in GoalRecords
         /\ Renewed(g).status = g.status /\ Renewed(g).rev = g.rev
         /\ Renewed(g).gen = g.gen /\ Renewed(g).seq = g.seq
         /\ Renewed(g).held = g.held /\ Renewed(g).dur = g.dur
         /\ Renewed(g).exp = now + g.dur /\ Renewed(g).tracked = g.tracked
  <1>1. g.dur \in Nat /\ now + g.dur \in Nat
    BY DEF GoalRecords
  <1>2. ASSUME NEW e \in Nat PROVE [g EXCEPT !.hb = now, !.exp = e] \in GoalRecords
    BY DEF GoalRecords
  <1>3. Renewed(g) \in GoalRecords
    BY <1>1, <1>2 DEF Renewed
  <1> QED
    BY <1>3 DEF Renewed, GoalRecords

\* A goal without a lease.
LEMMA UnleasedRow ==
  ASSUME NEW g \in GoalRecords
  PROVE  /\ Unleased(g) \in GoalRecords
         /\ Unleased(g).status = g.status /\ Unleased(g).rev = g.rev
         /\ Unleased(g).gen = g.gen /\ Unleased(g).seq = g.seq
         /\ ~Unleased(g).held /\ Unleased(g).tracked = g.tracked
         /\ Unleased(g).dur = 0 /\ Unleased(g).hb = 0 /\ Unleased(g).exp = 0
  BY DEF Unleased, GoalRecords

\* A closed goal.
LEMMA ClosedRow ==
  ASSUME NEW g \in GoalRecords, NEW status \in Statuses
  PROVE  /\ Closed(g, status) \in GoalRecords
         /\ Closed(g, status).status = status /\ Closed(g, status).rev = g.rev + 1
         /\ Closed(g, status).gen = g.gen /\ Closed(g, status).seq = g.seq
         /\ ~Closed(g, status).held /\ ~Closed(g, status).tracked
         /\ Closed(g, status).dur = 0 /\ Closed(g, status).hb = 0 /\ Closed(g, status).exp = 0
  <1>1. g.rev + 1 \in Nat
    BY DEF GoalRecords
  <1>2. ASSUME NEW r \in Nat
        PROVE  [Unleased(g) EXCEPT !.status = status, !.rev = r, !.tracked = FALSE] \in GoalRecords
    BY UnleasedRow DEF GoalRecords
  <1>3. Closed(g, status) = [Unleased(g) EXCEPT !.status = status, !.rev = g.rev + 1, !.tracked = FALSE]
    BY UnleasedRow DEF Closed, GoalRecords
  <1> QED
    BY <1>1, <1>2, <1>3, UnleasedRow DEF GoalRecords

\* A checkpoint changes the revision and the tracking, a sign of life the
\* activity sequence.
LEMMA SavedRow ==
  ASSUME NEW g \in GoalRecords, NEW track \in BOOLEAN
  PROVE  /\ Saved(g, track) \in GoalRecords
         /\ Saved(g, track).status = g.status /\ Saved(g, track).rev = g.rev + 1
         /\ Saved(g, track).gen = g.gen /\ Saved(g, track).seq = g.seq
         /\ Saved(g, track).held = g.held /\ Saved(g, track).dur = g.dur
         /\ Saved(g, track).hb = g.hb /\ Saved(g, track).exp = g.exp
         /\ Saved(g, track).tracked = track
  <1>1. g.rev + 1 \in Nat
    BY DEF GoalRecords
  <1>2. ASSUME NEW r \in Nat PROVE [g EXCEPT !.rev = r, !.tracked = track] \in GoalRecords
    BY DEF GoalRecords
  <1>3. Saved(g, track) = [g EXCEPT !.rev = g.rev + 1, !.tracked = track]
    BY DEF Saved, GoalRecords
  <1> QED
    BY <1>1, <1>2, <1>3 DEF GoalRecords

LEMMA CountedRow ==
  ASSUME NEW g \in GoalRecords
  PROVE  /\ Counted(g) \in GoalRecords
         /\ Counted(g).status = g.status /\ Counted(g).rev = g.rev
         /\ Counted(g).gen = g.gen /\ Counted(g).seq = g.seq + 1
         /\ Counted(g).held = g.held /\ Counted(g).dur = g.dur
         /\ Counted(g).exp = g.exp /\ Counted(g).tracked = g.tracked
  <1>1. g.seq + 1 \in Nat
    BY DEF GoalRecords
  <1>2. ASSUME NEW q \in Nat PROVE [g EXCEPT !.seq = q] \in GoalRecords
    BY DEF GoalRecords
  <1>3. Counted(g) = [g EXCEPT !.seq = g.seq + 1]
    BY DEF Counted, GoalRecords
  <1> QED
    BY <1>1, <1>2, <1>3 DEF GoalRecords

\* A goal that was taken over: one more generation, no activity yet.
LEMMA TakenRow ==
  ASSUME NEW g \in GoalRecords, g.gen < MaxGeneration, NEW d \in LeaseLengths, now \in Nat
  PROVE  /\ Taken(g, d) \in GoalRecords
         /\ Taken(g, d).status = g.status /\ Taken(g, d).rev = g.rev
         /\ Taken(g, d).gen = g.gen + 1 /\ Taken(g, d).seq = 0
         /\ Taken(g, d).held /\ Taken(g, d).dur = d
         /\ Taken(g, d).exp = now + d /\ Taken(g, d).tracked = g.tracked
  <1> DEFINE h == [g EXCEPT !.gen = g.gen + 1, !.seq = 0, !.held = TRUE, !.dur = d]
  <1>1. g.gen + 1 \in 0..MaxGeneration /\ d \in Nat
    BY GoalAssumption DEF GoalRecords
  <1>2. ASSUME NEW k \in 0..MaxGeneration, NEW e \in Nat
        PROVE  [g EXCEPT !.gen = k, !.seq = 0, !.held = TRUE, !.dur = e] \in GoalRecords
    BY DEF GoalRecords
  <1>3. h \in GoalRecords
    BY <1>1, <1>2
  <1>4. Taken(g, d) = Renewed(h)
    BY DEF Taken, GoalRecords
  <1>5. h.status = g.status /\ h.rev = g.rev /\ h.gen = g.gen + 1 /\ h.seq = 0 /\ h.held /\ h.dur = d
        /\ h.tracked = g.tracked
    BY DEF GoalRecords
  <1> HIDE DEF h
  <1> QED
    BY <1>3, <1>4, <1>5, RenewedRow

\* The row of a goal that does not exist yet.
LEMMA NewRow == /\ NewGoal \in GoalRecords
                /\ NewGoal.gen = 0 /\ ~NewGoal.tracked /\ NewGoal.status = "active" /\ NewGoal.rev = 0
  <1>1. 0 \in 0..MaxGeneration
    BY GoalAssumption
  <1> QED
    BY <1>1 DEF NewGoal, NoGoal, GoalRecords, Statuses

\* Completing calls leaves their owners and the rows of other generations.
LEMMA CompletedRows ==
  ASSUME calls \in [Calls -> CallRecords], NEW S
  PROVE  /\ Completed(S) \in [Calls -> CallRecords]
         /\ \A c \in Calls : Completed(S)[c].state = "open"
              => calls[c].state = "open" /\ calls[c].gen \notin S /\ Completed(S)[c] = calls[c]
  BY DEF Completed, Done, CallRecords

LEMMA CallRow ==
  ASSUME NEW k \in CallRecords
  PROVE  /\ [k EXCEPT !.by = NoSession] \in CallRecords
         /\ \A e \in Nat : [k EXCEPT !.exp = e] \in CallRecords
         /\ [Done(k) EXCEPT !.by = NoSession] \in CallRecords
  BY DEF CallRecords, Done

\* The rows of a session that starts or ends a service call.
LEMMA IdleRow == NoOp \in PendRecords /\ ~NoOp.got /\ NoOp.op = "idle" /\ ~NoOp.tracked /\ NoOp.seen = "untracked"
  BY DEF NoOp, PendRecords, Ops, Statuses

LEMMA PendRow ==
  ASSUME NEW p \in PendRecords, pend \in [Sessions -> PendRecords], NEW s \in Sessions
  PROVE  [pend EXCEPT ![s] = p] \in [Sessions -> PendRecords]
  OBVIOUS

LEMMA ObservedRow ==
  ASSUME NEW p \in PendRecords, NEW g \in Nat, NEW q \in Nat,
         NEW v \in {"untracked", "unknown", "running", "terminal"}
  PROVE  [p EXCEPT !.got = TRUE, !.gen = g, !.seq = q, !.tracked = FALSE, !.seen = v] \in PendRecords
  BY DEF PendRecords

LEMMA OpRow ==
  ASSUME NEW p \in PendRecords, NEW o \in Ops
  PROVE  [p EXCEPT !.op = o] \in PendRecords
  BY DEF PendRecords

LEMMA SeenRow ==
  ASSUME NEW p \in PendRecords
  PROVE  [p EXCEPT !.got = TRUE, !.tracked = FALSE] \in PendRecords
  BY DEF PendRecords

LEMMA StartRow == [NoOp EXCEPT !.op = "cancelled"] \in PendRecords
  BY IdleRow, OpRow DEF Ops

\* What becomes of the watchdog.
LEMMA MarkedRow == ASSUME dog \in DogRecords PROVE Marked(dog) \in DogRecords
  BY DEF Marked, DogRecords, DogLiveStatuses

------------------------------------------------------------------------------
(* The types.                                                              *)

LEMMA TypeInit == Init => TypeOK
  BY GoalAssumption, WatchdogAssumption, IdleRow
  DEF Init, TypeOK, GoalRecords, DogRecords, CallRecords, NoGoal, NoDog, NoCall, NoRuns, Statuses, NativeIds

\* A step that takes the lease.
LEMMA TakeType ==
  ASSUME TypeOK, NEW s \in Sessions, NEW d \in LeaseLengths, TakeLease(s, d)
  PROVE  /\ goal' \in GoalRecords /\ goal'.held
         /\ execs' \in [1..MaxGeneration -> {"none", "active", "released", "superseded", "terminal"}]
         /\ tok' \in [Sessions -> 0..MaxGeneration]
  <1>1. goal' \in GoalRecords /\ goal'.held
    BY TakenRow DEF TypeOK, TakeLease
  <1>2. goal.gen + 1 \in 0..MaxGeneration
    BY GoalAssumption DEF TypeOK, TakeLease, GoalRecords
  <1> QED
    BY <1>1, <1>2 DEF TypeOK, TakeLease, Rotated

LEMMA TypeStep == TypeOK /\ [Next]_vars => TypeOK'
  <1> SUFFICES ASSUME TypeOK, [Next]_vars PROVE TypeOK'
    OBVIOUS
  <1> USE IdleRow, PendRow DEF TypeOK, Finishing
  <1>1. ASSUME NEW s \in Sessions, ReadForRun(s) PROVE TypeOK'
    <2>1. [NoOp EXCEPT !.op = "run", !.probe = (goal.status = "active" /\ LeaseLive),
             !.tracked = (goal.status = "active" /\ LeaseLive /\ goal.tracked)] \in PendRecords
      BY DEF PendRecords, Ops
    <2> QED
      BY <1>1, <2>1 DEF ReadForRun
  <1>2. ASSUME NEW s \in Sessions, Observe(s) PROVE TypeOK'
    <2>1. PICK task \in TaskReport(pend[s].tracked) :
            pend' = [pend EXCEPT ![s] = [pend[s] EXCEPT
              !.got = TRUE, !.gen = goal.gen, !.seq = goal.seq, !.tracked = FALSE,
              !.seen = IF \E c \in Calls : LiveCall(c) THEN "unknown" ELSE task]]
      BY <1>2 DEF Observe
    <2>2. goal.gen \in Nat /\ goal.seq \in Nat
      BY DEF GoalRecords
    <2>3. ASSUME NEW v \in {"untracked", "unknown", "running", "terminal"}
          PROVE  [pend[s] EXCEPT !.got = TRUE, !.gen = goal.gen, !.seq = goal.seq, !.tracked = FALSE, !.seen = v]
                    \in PendRecords
      BY <2>2, ObservedRow
    <2>4. task \in {"untracked", "unknown", "running", "terminal"}
      BY DEF TaskReport
    <2> QED
      BY <1>2, <2>1, <2>3, <2>4 DEF Observe
  <1>3. ASSUME NEW s \in Sessions, AcquireRefused(s) PROVE TypeOK'
    BY <1>3 DEF AcquireRefused
  <1>4. ASSUME NEW s \in Sessions, NEW d \in LeaseLengths, Create(s, d) PROVE TypeOK'
    <2>1. goal' \in GoalRecords /\ goal'.held
      BY <1>4, NewRow, TakenRow DEF Create
    <2>2. 1 \in 0..MaxGeneration
      BY <1>4, GoalAssumption DEF Create
    <2> QED
      BY <1>4, <2>1, <2>2 DEF Create
  <1>5. ASSUME NEW s \in Sessions, NEW d \in LeaseLengths, Acquire(s, d) PROVE TypeOK'
    BY <1>5, TakeType DEF Acquire
  <1>6. ASSUME NEW s \in Sessions, NEW release \in BOOLEAN, NEW track \in BOOLEAN,
               Checkpoint(s, release, track) PROVE TypeOK'
    <2> DEFINE g == Saved(Counted(goal), track)
    <2>1. g \in GoalRecords /\ g.held
      BY <1>6, CountedRow, SavedRow DEF Checkpoint, Mutable, Holds
    <2>2. goal' = IF release THEN Unleased(g) ELSE Renewed(g)
      BY <1>6 DEF Checkpoint
    <2> HIDE DEF g
    <2>3. goal' \in GoalRecords /\ (~goal'.held => goal'.dur = 0 /\ goal'.hb = 0 /\ goal'.exp = 0)
      BY <2>1, <2>2, RenewedRow, UnleasedRow
    <2> QED
      BY <1>6, <2>3 DEF Checkpoint, Tracks
  <1>7. ASSUME NEW s \in Sessions, NEW track \in BOOLEAN, Prepare(s, track) PROVE TypeOK'
    <2>1. goal' \in GoalRecords /\ goal'.held
      BY <1>7, SavedRow, RenewedRow DEF Prepare, Mutable, Holds
    <2>2. dog' \in DogRecords
      BY <1>7, WatchdogAssumption DEF Prepare, DogRecords, DogLiveStatuses, NativeIds
    <2> QED
      BY <1>7, <2>1, <2>2 DEF Prepare, Tracks, NoRuns
  <1>8. ASSUME NEW s \in Sessions, NEW track \in BOOLEAN, Refresh(s, track) PROVE TypeOK'
    <2>1. goal' \in GoalRecords /\ goal'.held
      BY <1>8, SavedRow, RenewedRow DEF Refresh, Mutable, Holds
    <2> QED
      BY <1>8, <2>1 DEF Refresh, Tracks
  <1>9. ASSUME NEW s \in Sessions, NEW c \in Calls, Begin(s, c) PROVE TypeOK'
    <2>1. goal' \in GoalRecords /\ goal'.held
      BY <1>9, CountedRow, RenewedRow DEF Begin, Active, Mutable, Holds
    <2>2. calls' \in [Calls -> CallRecords]
      BY <1>9, GoalAssumption DEF Begin, CallExpiry, CallRecords, GoalRecords
    <2> QED
      BY <1>9, <2>1, <2>2 DEF Begin
  <1>10. ASSUME NEW s \in Sessions, NEW status \in Finished, FinishStart(s, status) PROVE TypeOK'
    <2>1. goal.rev \in Nat
      BY DEF GoalRecords
    <2>2. [NoOp EXCEPT !.op = "finish", !.status = status, !.rev = goal.rev, !.at = now] \in PendRecords
      BY <2>1 DEF PendRecords, Ops, Statuses, Finished
    <2> QED
      BY <1>10, <2>2 DEF FinishStart
  <1>11. ASSUME NEW s \in Sessions, FinishValidate(s) PROVE TypeOK'
    <2>1. [pend[s] EXCEPT !.op = "validated"] \in PendRecords
      BY OpRow DEF Ops
    <2> QED
      BY <1>11, <2>1 DEF FinishValidate
  <1>12. ASSUME NEW s \in Sessions, FinishMark(s) PROVE TypeOK'
    <2>1. [pend[s] EXCEPT !.op = "marked"] \in PendRecords
      BY OpRow DEF Ops
    <2> QED
      BY <1>12, <2>1, MarkedRow DEF FinishMark
  <1>13. ASSUME NEW s \in Sessions, FinishCommit(s) PROVE TypeOK'
    <2>1. pend[s].status \in Statuses
      BY DEF PendRecords
    <2>2. goal' = goal \/ goal' = Closed(goal, pend[s].status)
      BY <1>13 DEF FinishCommit
    <2>3. goal' \in GoalRecords /\ (~goal'.held => goal'.dur = 0 /\ goal'.hb = 0 /\ goal'.exp = 0)
      BY <2>1, <2>2, ClosedRow
    <2> QED
      BY <1>13, <2>3 DEF FinishCommit
  <1>14. ASSUME NEW s \in Sessions, Cancel(s) PROVE TypeOK'
    <2>1. goal' \in GoalRecords /\ (~goal'.held => goal'.dur = 0 /\ goal'.hb = 0 /\ goal'.exp = 0)
      BY <1>14, ClosedRow DEF Cancel, Statuses, Terminal, Finished
    <2> QED
      BY <1>14, <2>1, CompletedRows, StartRow DEF Cancel, StoppedByCancel
  <1>15. ASSUME NEW s \in Sessions, CancelAgain(s) PROVE TypeOK'
    BY <1>15, CompletedRows, StartRow DEF CancelAgain, StoppedByCancel
  <1>16. ASSUME NEW s \in Sessions, CancelMark(s) PROVE TypeOK'
    BY <1>16, MarkedRow DEF CancelMark
  <1>17. ASSUME NEW s \in Sessions, NEW g \in 1..MaxGeneration, CancelExecution(s, g) PROVE TypeOK'
    <2>1. goal' \in GoalRecords /\ (~goal'.held => goal'.dur = 0 /\ goal'.hb = 0 /\ goal'.exp = 0)
      BY <1>17, ClosedRow DEF CancelExecution, Statuses
    <2> QED
      BY <1>17, <2>1, CompletedRows, StartRow DEF CancelExecution, StoppedByCancel
  <1>18. ASSUME NEW s \in Sessions, ReadForReconcile(s) PROVE TypeOK'
    <2>1. goal.rev \in Nat /\ goal.gen \in Nat /\ goal.seq \in Nat /\ goal.tracked \in BOOLEAN
      BY DEF GoalRecords
    <2>2. [NoOp EXCEPT !.op = "reconcile", !.rev = goal.rev, !.gen = goal.gen, !.seq = goal.seq,
             !.tracked = goal.tracked, !.at = now] \in PendRecords
      BY <2>1 DEF PendRecords, Ops
    <2> QED
      BY <1>18, <2>2 DEF ReadForReconcile
  <1>19. ASSUME NEW s \in Sessions, ObserveForReconcile(s) PROVE TypeOK'
    <2>1. [pend[s] EXCEPT !.got = TRUE, !.tracked = FALSE] \in PendRecords
      BY SeenRow
    <2> QED
      BY <1>19, <2>1 DEF ObserveForReconcile
  <1>20. ASSUME NEW s \in Sessions, Reconcile(s) PROVE TypeOK'
    <2>1. goal' \in GoalRecords /\ (~goal'.held => goal'.dur = 0 /\ goal'.hb = 0 /\ goal'.exp = 0)
      BY <1>20, ClosedRow DEF Reconcile, Statuses
    <2> QED
      BY <1>20, <2>1, CompletedRows DEF Reconcile
  <1>21. ASSUME NEW s \in Sessions, ReadForWake(s) PROVE TypeOK'
    <2>1. [NoOp EXCEPT !.op = "wake", !.tracked = goal.tracked, !.probe = TRUE] \in PendRecords
      BY DEF PendRecords, Ops, GoalRecords
    <2> QED
      BY <1>21, <2>1 DEF ReadForWake
  <1>22. ASSUME NEW s \in Sessions, ClaimRecorded(s) PROVE TypeOK'
    BY <1>22 DEF ClaimRecorded
  <1>23. ASSUME NEW s \in Sessions, ClaimRefused(s) PROVE TypeOK'
    BY <1>23 DEF ClaimRefused
  <1>24. ASSUME NEW s \in Sessions, NEW d \in LeaseLengths, Claim(s, d) PROVE TypeOK'
    BY <1>24, TakeType DEF Claim
  <1>25. ASSUME NEW s \in Sessions, Crash(s) PROVE TypeOK'
    <2>1. calls' \in [Calls -> CallRecords]
      BY <1>25, CallRow DEF Crash
    <2>2. tok' \in [Sessions -> 0..MaxGeneration]
      BY <1>25, GoalAssumption DEF Crash
    <2> QED
      BY <1>25, <2>1, <2>2 DEF Crash
  <1>26. ASSUME NEW c \in Calls, Heartbeat(c) PROVE TypeOK'
    <2>1. goal' \in GoalRecords /\ goal'.held
      BY <1>26, CountedRow, RenewedRow DEF Heartbeat, Active, Beats, LeaseLive
    <2>2. calls' \in [Calls -> CallRecords]
      <3>1. CallExpiry \in Nat
        BY GoalAssumption DEF CallExpiry
      <3>2. calls' = [calls EXCEPT ![c] = [calls[c] EXCEPT !.exp = CallExpiry]]
        BY <1>26 DEF Heartbeat
      <3> QED
        BY <3>1, <3>2, CallRow
    <2> QED
      BY <1>26, <2>1, <2>2 DEF Heartbeat
  <1>27. ASSUME NEW c \in Calls, End(c) PROVE TypeOK'
    <2>1. calls' \in [Calls -> CallRecords]
      <3>1. calls' = [calls EXCEPT ![c] = [Done(calls[c]) EXCEPT !.by = NoSession]]
        BY <1>27 DEF End
      <3> QED
        BY <3>1, CallRow
    <2> QED
      BY <1>27, <2>1 DEF End
  <1>28. CASE HostPolicy
    <2>1. goal.tracked \in BOOLEAN
      BY DEF GoalRecords
    <2> QED
      BY <1>28, <2>1, SavedRow DEF HostPolicy
  <1>29. ASSUME NEW status, NEW native, ReceiptChanges(status, native),
                status \in DogLiveStatuses \cup {"create_failed", "superseded", "cancelled"}, native \in NativeIds
         PROVE  TypeOK'
    <2>1. dog' \in DogRecords
      BY <1>29 DEF ReceiptChanges, DogRecords
    <2> QED
      BY <1>29, <2>1 DEF ReceiptChanges
  <1>30. Confirms \subseteq NativeIds
    BY DEF Confirms, NativeIds, DogRecords
  <1>31. ASSUME CreatedReceipt \/ CancelledReceipt \/ CancelContinuation PROVE TypeOK'
    <2>1. dog.native \in NativeIds
      BY DEF DogRecords
    <2> QED
      BY <1>29, <1>30, <1>31, <2>1
      DEF CreatedReceipt, CancelledReceipt, CancelContinuation, DogLiveStatuses, NativeIds
  <1>32. ASSUME NEW status \in {"create_failed", "create_uncertain"}, CreateProblemReceipt(status) PROVE TypeOK'
    BY <1>29, <1>30, <1>32 DEF CreateProblemReceipt, DogLiveStatuses
  <1>33. ASSUME NEW status \in {"cancel_failed", "cancel_uncertain"}, CancelProblemReceipt(status) PROVE TypeOK'
    BY <1>29, <1>30, <1>33 DEF CancelProblemReceipt, DogLiveStatuses
  <1>34. CASE JobEnds
    BY <1>34 DEF JobEnds
  <1>35. CASE Tick
    BY <1>35 DEF Tick
  <1>36. CASE UNCHANGED vars
    BY <1>36 DEF vars
  <1> HIDE DEF TypeOK
  <1> QED
    BY <1>1, <1>2, <1>3, <1>4, <1>5, <1>6, <1>7, <1>8, <1>9, <1>10, <1>11, <1>12, <1>13, <1>14, <1>15, <1>16,
       <1>17, <1>18, <1>19, <1>20, <1>21, <1>22, <1>23, <1>24, <1>25, <1>26, <1>27, <1>28, <1>31, <1>32, <1>33,
       <1>34, <1>35, <1>36
    DEF Next, RunGoal, Work, Finish, CancelGoal, ReconcileGoals, Wake, Host

\* The rows keep the shape the repository writes, in every behaviour of any
\* number of sessions.
THEOREM TypeCorrect == Spec => []TypeOK
  BY TypeInit, TypeStep, PTL DEF Spec

------------------------------------------------------------------------------
(* The inductive invariant.                                                *)

\* The goal row: its lease is at least as long as a call's and was renewed in
\* the past, and a task it tracks was started.
RowSound ==
  /\ goal.status = "absent" => goal.gen = 0 /\ ~goal.held /\ ~goal.tracked
  /\ goal.status # "absent" => goal.gen >= 1
  /\ goal.held => /\ goal.status = "active"
                  /\ goal.dur >= CallLeaseSeconds
                  /\ goal.exp <= now + goal.dur
  /\ goal.tracked => job # "none"

\* An open call belongs to a generation that was reached.
CallsSound == \A c \in Calls : calls[c].state = "open" => calls[c].gen \in 1..goal.gen

\* What a session saw stays true as long as the lease shows no activity.
SightSound ==
  \A s \in Sessions :
    /\ pend[s].tracked => job # "none"
    /\ pend[s].gen <= goal.gen
    /\ pend[s].gen = goal.gen => pend[s].seq <= goal.seq
    /\ pend[s].got /\ SameActivity(s) /\ pend[s].seen # "unknown" => \A c \in Calls : ~LiveCall(c)
    /\ pend[s].seen = "terminal" => job = "ended"

\* What a session means to close, and on which revision.
CloserSound ==
  \A s \in Sessions :
    /\ pend[s].op \in {"finish", "validated", "marked"} => pend[s].status \in Finished
    /\ pend[s].op = "reconcile" =>
         /\ goal.status # "absent"
         /\ pend[s].at <= now /\ pend[s].rev <= goal.rev
         /\ pend[s].seen = "untracked"
         /\ pend[s].rev = goal.rev =>
              IF pend[s].got THEN goal.tracked => job = "ended" ELSE pend[s].tracked = goal.tracked

IndInv ==
  /\ TypeOK /\ RowSound /\ CallsSound /\ SightSound /\ CloserSound
  /\ ReceiptsTrackLease /\ CancelStopsWorker /\ CallsInsideLease
------------------------------------------------------------------------------
(* What a step may do to the goal row and the receipts.                    *)

SameRow == UNCHANGED <<goal, execs>>

\* The lease stays; the revision moves with the tracking.
KeptRow ==
  /\ goal.status = "active" /\ goal'.status = "active"
  /\ goal'.gen = goal.gen /\ goal'.held = goal.held /\ goal'.dur = goal.dur
  /\ goal'.exp = goal.exp \/ goal'.exp = now + goal.dur
  /\ goal'.rev >= goal.rev /\ goal'.seq >= goal.seq
  /\ goal'.rev = goal.rev => goal'.tracked = goal.tracked
  /\ goal'.tracked => goal.tracked \/ job' # "none"
  /\ execs' = execs

ReleasedRow ==
  /\ goal.status = "active" /\ goal'.status = "active"
  /\ goal'.gen = goal.gen /\ ~goal'.held
  /\ goal'.rev = goal.rev + 1 /\ goal'.seq >= goal.seq
  /\ goal'.tracked => goal.tracked \/ job' # "none"
  /\ execs' = [execs EXCEPT ![goal.gen] = "released"]

TakenRowMove ==
  /\ goal.status = "active" /\ goal'.status = "active"
  /\ goal'.gen = goal.gen + 1 /\ goal.gen < MaxGeneration
  /\ goal'.held /\ goal'.dur \in LeaseLengths /\ goal'.exp = now + goal'.dur
  /\ goal'.rev = goal.rev /\ goal'.tracked = goal.tracked
  /\ execs' = Rotated

CreatedRow ==
  /\ goal.status = "absent" /\ goal'.status = "active"
  /\ goal'.gen = 1 /\ MaxGeneration > 0
  /\ goal'.held /\ goal'.dur \in LeaseLengths /\ goal'.exp = now + goal'.dur
  /\ ~goal'.tracked
  /\ execs' = [execs EXCEPT ![1] = "active"]

ClosedRowMove ==
  /\ goal.status = "active" /\ goal'.status \in Terminal
  /\ goal'.gen = goal.gen /\ goal'.seq = goal.seq /\ goal'.rev = goal.rev + 1
  /\ ~goal'.held /\ ~goal'.tracked
  /\ execs' = [execs EXCEPT ![goal.gen] = "terminal"]

RowMove == SameRow \/ KeptRow \/ ReleasedRow \/ TakenRowMove \/ CreatedRow \/ ClosedRowMove

\* Every step is one of them.
LEMMA RowMoves ==
  ASSUME TypeOK, CloserSound, [Next]_vars
  PROVE  RowMove
  <1> USE DEF RowMove
  <1>0. goal \in GoalRecords /\ now \in Nat /\ goal.rev \in Nat /\ goal.seq \in Nat /\ goal.tracked \in BOOLEAN
    BY DEF TypeOK, GoalRecords
  <1>1. ASSUME NEW s \in Sessions,
               \/ ReadForRun(s) \/ Observe(s) \/ AcquireRefused(s)
               \/ FinishValidate(s) \/ FinishMark(s)
               \/ CancelAgain(s) \/ CancelMark(s)
               \/ ReadForReconcile(s) \/ ObserveForReconcile(s)
               \/ ReadForWake(s) \/ ClaimRecorded(s) \/ ClaimRefused(s) \/ Crash(s)
        PROVE  RowMove
    BY <1>1 DEF SameRow, ReadForRun, Observe, AcquireRefused, FinishValidate, FinishMark, CancelAgain, CancelMark,
                ReadForReconcile, ObserveForReconcile, ReadForWake, ClaimRecorded, ClaimRefused, Crash
  <1>2. ASSUME NEW s \in Sessions, NEW status, FinishStart(s, status) PROVE RowMove
    BY <1>2 DEF SameRow, FinishStart
  <1>3. ASSUME NEW c \in Calls, End(c) PROVE RowMove
    BY <1>3 DEF SameRow, End
  <1>4. ASSUME NEW status, CreateProblemReceipt(status) \/ CancelProblemReceipt(status) PROVE RowMove
    BY <1>4 DEF SameRow, CreateProblemReceipt, CancelProblemReceipt, ReceiptChanges
  <1>5. CASE CreatedReceipt \/ CancelledReceipt \/ CancelContinuation \/ JobEnds \/ Tick \/ UNCHANGED vars
    BY <1>5 DEF SameRow, CreatedReceipt, CancelledReceipt, CancelContinuation, ReceiptChanges, JobEnds, Tick, vars
  <1>6. ASSUME NEW s \in Sessions, NEW d \in LeaseLengths, Create(s, d) PROVE RowMove
    <2>1. CreatedRow
      BY <1>0, <1>6, NewRow, TakenRow DEF Create, CreatedRow
    <2> QED
      BY <2>1
  <1>7. ASSUME NEW s \in Sessions, NEW d \in LeaseLengths, Acquire(s, d) \/ Claim(s, d) PROVE RowMove
    <2>1. TakenRowMove
      BY <1>0, <1>7, TakenRow DEF Acquire, Takeable, Claim, Claimable, TakeLease, TakenRowMove
    <2> QED
      BY <2>1
  <1>8. ASSUME NEW s \in Sessions, NEW release \in BOOLEAN, NEW track \in BOOLEAN,
               Checkpoint(s, release, track) PROVE RowMove
    <2> DEFINE g == Saved(Counted(goal), track)
    <2>1. /\ g \in GoalRecords /\ g.status = goal.status /\ g.gen = goal.gen /\ g.held = goal.held
          /\ g.dur = goal.dur /\ g.rev = goal.rev + 1 /\ g.seq = goal.seq + 1
      <3> DEFINE f == Counted(goal)
      <3>1. /\ f \in GoalRecords /\ f.status = goal.status /\ f.gen = goal.gen /\ f.held = goal.held
            /\ f.dur = goal.dur /\ f.rev = goal.rev /\ f.seq = goal.seq + 1
        BY <1>0, CountedRow
      <3> HIDE DEF f
      <3>2. g = Saved(f, track)
        BY DEF f
      <3> HIDE DEF g
      <3>3. g \in GoalRecords /\ g.status = f.status /\ g.gen = f.gen /\ g.dur = f.dur
        BY <3>1, <3>2, SavedRow
      <3>4. g.held = f.held
        BY <3>1, <3>2, SavedRow
      <3>5. g.rev = f.rev + 1 /\ g.seq = f.seq
        BY <3>1, <3>2, SavedRow
      <3> QED
        BY <3>1, <3>3, <3>4, <3>5
    <2>2. goal' = IF release THEN Unleased(g) ELSE Renewed(g)
      BY <1>8 DEF Checkpoint
    <2>3. g.tracked => job' # "none"
      BY <1>0, <1>8, CountedRow, SavedRow DEF Checkpoint, Tracks
    <2>4. goal.status = "active" /\ execs' = IF release THEN [execs EXCEPT ![goal.gen] = "released"] ELSE execs
      BY <1>8 DEF Checkpoint, Mutable
    <2> HIDE DEF g
    <2>5. CASE release
      BY <1>0, <2>1, <2>2, <2>3, <2>4, <2>5, UnleasedRow DEF ReleasedRow
    <2>6. CASE ~release
      BY <1>0, <2>1, <2>2, <2>3, <2>4, <2>6, RenewedRow DEF KeptRow
    <2> QED
      BY <2>5, <2>6
  <1>9. ASSUME NEW s \in Sessions, NEW track \in BOOLEAN, Prepare(s, track) \/ Refresh(s, track) PROVE RowMove
    <2> DEFINE g == Saved(goal, track)
    <2>1. /\ g \in GoalRecords /\ g.status = goal.status /\ g.gen = goal.gen /\ g.held = goal.held
          /\ g.dur = goal.dur /\ g.rev = goal.rev + 1 /\ g.seq = goal.seq
      BY <1>0, SavedRow
    <2>2. goal' = Renewed(g) /\ goal.status = "active" /\ execs' = execs
      BY <1>9 DEF Prepare, Refresh, Mutable
    <2>3. g.tracked => job' # "none"
      BY <1>0, <1>9, SavedRow DEF Prepare, Refresh, Tracks
    <2> HIDE DEF g
    <2>4. KeptRow
      BY <1>0, <2>1, <2>2, <2>3, RenewedRow DEF KeptRow
    <2> QED
      BY <2>4
  <1>10. ASSUME NEW s \in Sessions, NEW c \in Calls, Begin(s, c) PROVE RowMove
    <2>1. KeptRow
      BY <1>0, <1>10, CountedRow, RenewedRow DEF Begin, Active, Mutable, KeptRow
    <2> QED
      BY <2>1
  <1>11. ASSUME NEW c \in Calls, Heartbeat(c) PROVE RowMove
    <2>1. KeptRow
      BY <1>0, <1>11, CountedRow, RenewedRow DEF Heartbeat, Active, KeptRow
    <2> QED
      BY <2>1
  <1>12. CASE HostPolicy
    <2> DEFINE g == Saved(goal, goal.tracked)
    <2>1. /\ g.status = goal.status /\ g.gen = goal.gen /\ g.held = goal.held /\ g.dur = goal.dur
          /\ g.exp = goal.exp /\ g.rev = goal.rev + 1 /\ g.seq = goal.seq
          /\ g.tracked = goal.tracked
      BY <1>0, SavedRow
    <2>2. goal' = g /\ goal.status = "active" /\ execs' = execs
      BY <1>12 DEF HostPolicy
    <2> HIDE DEF g
    <2>3. KeptRow
      BY <1>0, <2>1, <2>2 DEF KeptRow
    <2> QED
      BY <2>3
  <1>13. ASSUME NEW status \in Terminal, goal.status = "active", goal' = Closed(goal, status),
                execs' = [execs EXCEPT ![goal.gen] = "terminal"]
         PROVE  RowMove
    <2>1. ClosedRowMove
      BY <1>0, <1>13, ClosedRow DEF ClosedRowMove, Statuses, Terminal, Finished
    <2> QED
      BY <2>1
  <1>14. ASSUME NEW s \in Sessions, FinishCommit(s) PROVE RowMove
    <2>1. pend[s].status \in Terminal
      BY <1>14 DEF FinishCommit, CloserSound, Terminal
    <2> QED
      BY <1>13, <1>14, <2>1 DEF FinishCommit, Finishable, SameRow
  <1>15. ASSUME NEW s \in Sessions, Cancel(s) \/ Reconcile(s) PROVE RowMove
    BY <1>13, <1>15 DEF Cancel, Reconcile, Abandoned, SameRow, Terminal
  <1>16. ASSUME NEW s \in Sessions, NEW g \in 1..MaxGeneration, CancelExecution(s, g) PROVE RowMove
    BY <1>13, <1>16 DEF CancelExecution, Terminal
  <1> HIDE DEF RowMove
  <1> QED
    BY <1>1, <1>2, <1>3, <1>4, <1>5, <1>6, <1>7, <1>8, <1>9, <1>10, <1>11, <1>12, <1>14, <1>15, <1>16
    DEF Next, RunGoal, Work, Finish, CancelGoal, ReconcileGoals, Wake, Host

------------------------------------------------------------------------------
(* What a step may do to the clock, the task and the fenced calls.         *)

JobMove == job' = job \/ (job = "none" /\ job' = "running") \/ (job = "running" /\ job' = "ended")

CallKept(c) ==
  calls'[c].state = "open" =>
    calls[c].state = "open" /\ calls'[c].gen = calls[c].gen /\ calls'[c].exp = calls[c].exp

\* A call that begins or beats renews the lease and shows activity.
CallBeats(c) ==
  /\ calls'[c].gen = goal.gen /\ calls'[c].exp = now + CallLeaseSeconds
  /\ goal.held /\ goal'.gen = goal.gen
  /\ goal'.exp = now + goal.dur /\ goal'.seq = goal.seq + 1
  /\ goal.status = "active" /\ goal'.status = "active"

CancelMove ==
  goal.status # goal'.status /\ goal'.status = "cancelled"
    => \A c \in Calls : calls'[c].state = "open" => calls'[c].gen # goal.gen

RestMove ==
  /\ now' \in Nat /\ now' >= now
  /\ JobMove
  /\ \A c \in Calls : CallKept(c) \/ CallBeats(c)
  /\ CancelMove

LEMMA RestMoves ==
  ASSUME TypeOK, RowSound, CloserSound, [Next]_vars
  PROVE  RestMove
  <1>0. /\ goal \in GoalRecords /\ now \in Nat /\ goal.seq \in Nat /\ goal.gen \in 0..MaxGeneration
        /\ calls \in [Calls -> CallRecords]
    BY DEF TypeOK, GoalRecords
  <1>1. ASSUME UNCHANGED <<now, job, calls>>, goal'.status = goal.status \/ goal'.status # "cancelled"
        PROVE  RestMove
    BY <1>0, <1>1 DEF RestMove, JobMove, CallKept, CancelMove
  <1>2. ASSUME NEW s \in Sessions,
               \/ ReadForRun(s) \/ Observe(s) \/ AcquireRefused(s)
               \/ FinishValidate(s) \/ FinishMark(s) \/ CancelMark(s)
               \/ ReadForReconcile(s) \/ ObserveForReconcile(s)
               \/ ReadForWake(s) \/ ClaimRecorded(s) \/ ClaimRefused(s)
        PROVE  RestMove
    BY <1>1, <1>2 DEF ReadForRun, Observe, AcquireRefused, FinishValidate, FinishMark, CancelMark,
                      ReadForReconcile, ObserveForReconcile, ReadForWake, ClaimRecorded, ClaimRefused
  <1>3. ASSUME NEW s \in Sessions, NEW status, FinishStart(s, status) PROVE RestMove
    BY <1>1, <1>3 DEF FinishStart
  <1>4. ASSUME NEW status, CreateProblemReceipt(status) \/ CancelProblemReceipt(status) PROVE RestMove
    BY <1>1, <1>4 DEF CreateProblemReceipt, CancelProblemReceipt, ReceiptChanges
  <1>5. CASE CreatedReceipt \/ CancelledReceipt \/ CancelContinuation \/ UNCHANGED vars
    BY <1>1, <1>5 DEF CreatedReceipt, CancelledReceipt, CancelContinuation, ReceiptChanges, vars
  <1>6. ASSUME NEW s \in Sessions, NEW d \in LeaseLengths, Create(s, d) PROVE RestMove
    <2>1. goal'.status = "active"
      BY <1>0, <1>6, NewRow, TakenRow DEF Create
    <2> QED
      BY <1>1, <1>6, <2>1 DEF Create
  <1>7. ASSUME NEW s \in Sessions, NEW d \in LeaseLengths, Acquire(s, d) \/ Claim(s, d) PROVE RestMove
    <2>1. goal'.status = goal.status
      BY <1>0, <1>7, TakenRow DEF Acquire, Claim, TakeLease
    <2> QED
      BY <1>1, <1>7, <2>1 DEF Acquire, Claim
  <1>8. CASE HostPolicy
    <2>1. goal'.status = goal.status
      BY <1>0, <1>8 DEF HostPolicy, Saved, GoalRecords
    <2> QED
      BY <1>1, <1>8, <2>1 DEF HostPolicy
  <1>9. ASSUME NEW s \in Sessions, FinishCommit(s) PROVE RestMove
    <2>1. pend[s].status \in Finished /\ pend[s].status \in Statuses
      BY <1>9 DEF FinishCommit, CloserSound, Finished, Statuses
    <2>2. Closed(goal, pend[s].status).status # "cancelled"
      BY <1>0, <2>1, ClosedRow DEF Finished
    <2>3. goal'.status = goal.status \/ goal'.status # "cancelled"
      BY <1>9, <2>2 DEF FinishCommit
    <2> QED
      BY <1>1, <1>9, <2>3 DEF FinishCommit
  <1>10. ASSUME UNCHANGED <<now, calls>>, JobMove, goal'.status = goal.status PROVE RestMove
    BY <1>0, <1>10 DEF RestMove, CallKept, CancelMove
  <1>11. ASSUME NEW s \in Sessions, NEW release \in BOOLEAN, NEW track \in BOOLEAN,
                Checkpoint(s, release, track) PROVE RestMove
    <2>1. goal'.status = goal.status
      BY <1>0, <1>11 DEF Checkpoint, Saved, Counted, Unleased, Renewed, GoalRecords
    <2> QED
      BY <1>10, <1>11, <2>1 DEF Checkpoint, Tracks, JobMove
  <1>12. ASSUME NEW s \in Sessions, NEW track \in BOOLEAN, Prepare(s, track) \/ Refresh(s, track) PROVE RestMove
    <2>1. goal'.status = goal.status
      BY <1>0, <1>12 DEF Prepare, Refresh, Saved, Renewed, GoalRecords
    <2> QED
      BY <1>10, <1>12, <2>1 DEF Prepare, Refresh, Tracks, JobMove
  <1>13. CASE JobEnds
    BY <1>10, <1>13 DEF JobEnds, JobMove
  <1>14. CASE Tick
    BY <1>0, <1>14 DEF Tick, RestMove, JobMove, CallKept, CancelMove
  <1>15. ASSUME UNCHANGED <<now, job>>, \A c \in Calls : CallKept(c) \/ CallBeats(c), CancelMove PROVE RestMove
    BY <1>0, <1>15 DEF RestMove, JobMove
  <1>16. ASSUME NEW s \in Sessions, NEW c \in Calls, Begin(s, c) PROVE RestMove
    <2>1. goal' = Renewed(Counted(goal)) /\ goal.status = "active" /\ goal.held
      BY <1>16 DEF Begin, Active, Mutable, Holds
    <2>2. /\ goal'.gen = goal.gen /\ goal'.exp = now + goal.dur /\ goal'.seq = goal.seq + 1
          /\ goal'.status = goal.status
      BY <1>0, <2>1, CountedRow, RenewedRow
    <2>3. ASSUME NEW k \in Calls PROVE CallKept(k) \/ CallBeats(k)
      BY <1>0, <1>16, <2>1, <2>2 DEF Begin, CallKept, CallBeats, CallExpiry
    <2> QED
      BY <1>15, <1>16, <2>2, <2>3 DEF Begin, CancelMove
  <1>17. ASSUME NEW c \in Calls, Heartbeat(c) PROVE RestMove
    <2>1. goal' = Renewed(Counted(goal)) /\ goal.status = "active" /\ goal.held
      BY <1>17 DEF Heartbeat, Active, Beats, LeaseLive
    <2>2. /\ goal'.gen = goal.gen /\ goal'.exp = now + goal.dur /\ goal'.seq = goal.seq + 1
          /\ goal'.status = goal.status
      BY <1>0, <2>1, CountedRow, RenewedRow
    <2>3. ASSUME NEW k \in Calls PROVE CallKept(k) \/ CallBeats(k)
      <3>1. CASE k = c
        BY <1>0, <1>17, <2>1, <2>2, <3>1 DEF Heartbeat, Beats, CallBeats, CallExpiry, CallRecords
      <3>2. CASE k # c
        BY <1>0, <1>17, <3>2 DEF Heartbeat, CallKept
      <3> QED
        BY <3>1, <3>2
    <2> QED
      BY <1>15, <1>17, <2>2, <2>3 DEF Heartbeat, CancelMove
  <1>18. ASSUME NEW c \in Calls, End(c) PROVE RestMove
    <2>1. ASSUME NEW k \in Calls PROVE CallKept(k)
      BY <1>0, <1>18 DEF End, Done, CallKept, CallRecords
    <2> QED
      BY <1>15, <1>18, <2>1 DEF End, CancelMove
  <1>19. ASSUME NEW s \in Sessions, Crash(s) PROVE RestMove
    <2>1. ASSUME NEW k \in Calls PROVE CallKept(k)
      BY <1>0, <1>19 DEF Crash, CallKept, CallRecords
    <2> QED
      BY <1>15, <1>19, <2>1 DEF Crash, CancelMove
  <1>20. ASSUME NEW S, calls' = Completed(S), goal'.status = goal.status \/ goal.gen \in S, UNCHANGED <<now, job>>
         PROVE  RestMove
    <2>1. ASSUME NEW k \in Calls PROVE CallKept(k)
      BY <1>0, <1>20, CompletedRows DEF CallKept
    <2>2. CancelMove
      BY <1>0, <1>20, CompletedRows DEF CancelMove
    <2> QED
      BY <1>15, <1>20, <2>1, <2>2
  <1>21. goal.status = "active" => goal.gen \in 1..MaxGeneration
    BY <1>0, GoalAssumption DEF RowSound
  <1>22. ASSUME NEW s \in Sessions, Cancel(s) \/ CancelAgain(s) PROVE RestMove
    BY <1>20, <1>21, <1>22 DEF Cancel, CancelAgain, StoppedByCancel
  <1>23. ASSUME NEW s \in Sessions, NEW g \in 1..MaxGeneration, CancelExecution(s, g) PROVE RestMove
    BY <1>20, <1>23 DEF CancelExecution, StoppedByCancel
  <1>24. ASSUME NEW s \in Sessions, Reconcile(s) PROVE RestMove
    BY <1>1, <1>20, <1>21, <1>24 DEF Reconcile, Abandoned
  <1> QED
    BY <1>2, <1>3, <1>4, <1>5, <1>6, <1>7, <1>8, <1>9, <1>11, <1>12, <1>13, <1>14, <1>16, <1>17, <1>18, <1>19,
       <1>22, <1>23, <1>24
    DEF Next, RunGoal, Work, Finish, CancelGoal, ReconcileGoals, Wake, Host

------------------------------------------------------------------------------
(* The parts of the invariant that speak of the row and of the calls.      *)

\* A closed goal is never reopened, taken or rewritten.
LEMMA ClosedStep ==
  ASSUME TypeOK, CloserSound, [Next]_vars, goal.status \in Terminal
  PROVE  goal' = goal
  BY RowMoves DEF RowMove, SameRow, KeptRow, ReleasedRow, TakenRowMove, CreatedRow, ClosedRowMove, Terminal, Finished

LEMMA RowStep ==
  ASSUME IndInv, [Next]_vars
  PROVE  RowSound'
  <1>0. /\ goal \in GoalRecords /\ now \in Nat /\ goal.gen \in Nat /\ goal.dur \in Nat /\ goal.exp \in Nat
        /\ RowSound /\ RowMove /\ now' \in Nat /\ now' >= now /\ (job # "none" => job' # "none")
    BY RowMoves, RestMoves DEF IndInv, TypeOK, GoalRecords, RestMove, JobMove
  <1>1. /\ goal'.gen \in Nat /\ goal'.dur \in Nat /\ goal'.exp \in Nat
    BY TypeStep DEF IndInv, TypeOK, GoalRecords
  <1>2. CASE SameRow
    BY <1>0, <1>2 DEF RowSound, SameRow
  <1>3. CASE KeptRow
    BY <1>0, <1>1, <1>3 DEF RowSound, KeptRow
  <1>4. CASE ReleasedRow
    BY <1>0, <1>1, <1>4 DEF RowSound, ReleasedRow
  <1>5. CASE TakenRowMove
    BY <1>0, <1>1, <1>5, GoalAssumption DEF RowSound, TakenRowMove
  <1>6. CASE CreatedRow
    BY <1>0, <1>1, <1>6, GoalAssumption DEF RowSound, CreatedRow
  <1>7. CASE ClosedRowMove
    BY <1>0, <1>1, <1>7 DEF RowSound, ClosedRowMove, Terminal, Finished
  <1> QED
    BY <1>0, <1>2, <1>3, <1>4, <1>5, <1>6, <1>7 DEF RowMove

LEMMA ReceiptsStep ==
  ASSUME IndInv, [Next]_vars
  PROVE  ReceiptsTrackLease'
  <1>0. /\ goal.gen \in 0..MaxGeneration /\ MaxGeneration \in Nat
        /\ execs \in [1..MaxGeneration -> {"none", "active", "released", "superseded", "terminal"}]
        /\ RowSound /\ ReceiptsTrackLease /\ RowMove /\ goal.held \in BOOLEAN /\ goal'.held \in BOOLEAN
    BY RowMoves, TypeStep, GoalAssumption DEF IndInv, TypeOK, GoalRecords
  <1>1. SUFFICES ASSUME NEW g \in 1..MaxGeneration
                 PROVE  /\ execs'[g] = "active" <=> goal'.held /\ g = goal'.gen
                        /\ execs'[g] = "released" => goal'.status = "active" /\ g = goal'.gen
                        /\ g < goal'.gen => execs'[g] = "superseded"
    BY DEF ReceiptsTrackLease
  <1>2. CASE SameRow
    BY <1>0, <1>2 DEF ReceiptsTrackLease, SameRow
  <1>3. CASE KeptRow
    BY <1>0, <1>3 DEF ReceiptsTrackLease, KeptRow
  <1>4. CASE ReleasedRow
    BY <1>0, <1>4 DEF ReceiptsTrackLease, ReleasedRow
  <1>5. CASE TakenRowMove
    BY <1>0, <1>5 DEF ReceiptsTrackLease, TakenRowMove, Rotated, RowSound
  <1>6. CASE CreatedRow
    BY <1>0, <1>6 DEF ReceiptsTrackLease, CreatedRow, RowSound
  <1>7. CASE ClosedRowMove
    BY <1>0, <1>7 DEF ReceiptsTrackLease, ClosedRowMove
  <1> QED
    BY <1>0, <1>2, <1>3, <1>4, <1>5, <1>6, <1>7 DEF RowMove

LEMMA CallsStep ==
  ASSUME IndInv, [Next]_vars
  PROVE  CallsSound' /\ CancelStopsWorker' /\ CallsInsideLease'
  <1>0. /\ goal.gen \in Nat /\ goal.dur \in Nat /\ goal.exp \in Nat /\ now \in Nat /\ goal'.gen \in Nat
        /\ calls \in [Calls -> CallRecords] /\ calls' \in [Calls -> CallRecords] /\ CallLeaseSeconds \in Nat
        /\ goal'.exp \in Nat
    BY TypeStep, GoalAssumption DEF IndInv, TypeOK, GoalRecords
  <1>1. RowMove /\ RestMove /\ RowSound /\ CallsSound /\ CancelStopsWorker /\ CallsInsideLease
    BY RowMoves, RestMoves DEF IndInv
  <1>2. goal'.gen >= goal.gen
    BY <1>0, <1>1 DEF RowMove, SameRow, KeptRow, ReleasedRow, TakenRowMove, CreatedRow, ClosedRowMove, RowSound
  <1>3. ASSUME NEW c \in Calls, calls'[c].state = "open"
        PROVE  calls'[c].gen \in 1..goal'.gen
    <2>1. CASE CallKept(c)
      BY <1>0, <1>1, <1>2, <1>3, <2>1 DEF CallKept, CallsSound
    <2>2. CASE CallBeats(c)
      BY <1>0, <1>1, <2>2 DEF CallBeats, RowSound
    <2> QED
      BY <1>1, <2>1, <2>2 DEF RestMove
  <1>4. ASSUME NEW c \in Calls, calls'[c].state = "open", goal'.status = "cancelled"
        PROVE  calls'[c].gen # goal'.gen
    <2>1. CASE goal.status = "cancelled"
      <3>1. goal' = goal
        BY <2>1, ClosedStep DEF IndInv, Terminal
      <3> QED
        BY <1>1, <1>4, <2>1, <3>1 DEF RestMove, CallKept, CallBeats, CancelStopsWorker
    <2>2. CASE goal.status # "cancelled"
      <3>1. goal'.gen = goal.gen
        BY <1>1, <1>4, <2>2
        DEF RowMove, SameRow, KeptRow, ReleasedRow, TakenRowMove, CreatedRow, ClosedRowMove
      <3> QED
        BY <1>1, <1>4, <2>2, <3>1 DEF RestMove, CancelMove
    <2> QED
      BY <2>1, <2>2
  <1>5. ASSUME NEW c \in Calls, calls'[c].state = "open", calls'[c].gen = goal'.gen, goal'.held
        PROVE  calls'[c].exp <= goal'.exp
    <2>1. CASE CallBeats(c)
      BY <1>0, <1>1, <2>1 DEF CallBeats, RowSound
    <2>2. CASE CallKept(c)
      <3>1. /\ calls[c].state = "open" /\ calls'[c].gen = calls[c].gen /\ calls'[c].exp = calls[c].exp
            /\ calls[c].gen <= goal.gen /\ calls[c].exp \in Nat
        BY <1>0, <1>1, <1>5, <2>2 DEF CallKept, CallsSound, CallRecords
      <3>2. SameRow \/ KeptRow
        BY <1>0, <1>1, <1>5, <3>1 DEF RowMove, ReleasedRow, TakenRowMove, CreatedRow, ClosedRowMove, RowSound
      <3>3. goal.held /\ goal'.gen = goal.gen /\ goal.exp <= goal'.exp
        <4>1. CASE SameRow
          BY <1>0, <1>5, <4>1 DEF SameRow
        <4>2. CASE KeptRow
          <5>1. goal.held /\ goal'.gen = goal.gen
            BY <1>5, <4>2 DEF KeptRow
          <5>2. goal.exp <= now + goal.dur
            BY <1>1, <5>1 DEF RowSound
          <5> QED
            BY <1>0, <4>2, <5>1, <5>2 DEF KeptRow
        <4> QED
          BY <3>2, <4>1, <4>2
      <3>4. calls[c].exp <= goal.exp
        BY <1>1, <1>5, <3>1, <3>3 DEF CallsInsideLease
      <3> QED
        BY <1>0, <3>1, <3>3, <3>4
    <2> QED
      BY <1>1, <2>1, <2>2 DEF RestMove
  <1> QED
    BY <1>3, <1>4, <1>5 DEF CallsSound, CancelStopsWorker, CallsInsideLease

------------------------------------------------------------------------------
(* What a step may do to what a session carries.                           *)

\* Nothing a session looks at moves.
Still == UNCHANGED <<now, goal, calls, job>>

\* The session carries no observation.
Blank(t) ==
  /\ pend'[t].op \in {"idle", "cancelled"}
  /\ ~pend'[t].got /\ ~pend'[t].tracked /\ pend'[t].seen = "untracked"
  /\ pend'[t].gen = 0 /\ pend'[t].seq = 0

Opened(t) ==
  /\ pend'[t].op \in {"run", "wake", "finish"}
  /\ ~pend'[t].got /\ pend'[t].seen = "untracked"
  /\ pend'[t].gen = 0 /\ pend'[t].seq = 0
  /\ pend'[t].tracked => goal.tracked
  /\ pend'[t].op = "finish" => pend'[t].status \in Finished

Observed(t) ==
  /\ pend'[t].op \in {"run", "wake"}
  /\ ~pend'[t].tracked
  /\ pend'[t].gen = goal.gen /\ pend'[t].seq = goal.seq
  /\ (\E c \in Calls : LiveCall(c)) => pend'[t].seen = "unknown"
  /\ pend'[t].seen = "terminal" => pend[t].tracked /\ job # "running"

Advanced(t) ==
  /\ pend[t].op \in {"finish", "validated"}
  /\ \E o \in {"validated", "marked"} : pend'[t] = [pend[t] EXCEPT !.op = o]

Sampled(t) ==
  /\ goal.status = "active"
  /\ pend'[t].op = "reconcile" /\ ~pend'[t].got /\ pend'[t].seen = "untracked"
  /\ pend'[t].rev = goal.rev /\ pend'[t].gen = goal.gen /\ pend'[t].seq = goal.seq
  /\ pend'[t].tracked = goal.tracked /\ pend'[t].at = now

Probed(t) ==
  /\ pend[t].op = "reconcile" /\ ~pend[t].got
  /\ \A c \in Calls : ~LiveCall(c)
  /\ pend[t].tracked => job # "running"
  /\ pend'[t] = [pend[t] EXCEPT !.got = TRUE, !.tracked = FALSE]

PendMove(t) ==
  \/ pend'[t] = pend[t]
  \/ Blank(t)
  \/ Still /\ (Opened(t) \/ Observed(t) \/ Advanced(t) \/ Sampled(t) \/ Probed(t))

LEMMA PendMoves ==
  ASSUME TypeOK, [Next]_vars, NEW t \in Sessions
  PROVE  PendMove(t)
  <1>0. pend \in [Sessions -> PendRecords] /\ goal.tracked \in BOOLEAN
    BY DEF TypeOK, GoalRecords
  <1>1. ASSUME UNCHANGED pend PROVE PendMove(t)
    BY <1>1 DEF PendMove
  <1>2. ASSUME NEW s \in Sessions, Finishing(s) PROVE PendMove(t)
    BY <1>0, <1>2 DEF Finishing, PendMove, Blank, NoOp
  <1>3. ASSUME NEW s \in Sessions, NEW release, NEW track, Checkpoint(s, release, track) PROVE PendMove(t)
    BY <1>1, <1>3 DEF Checkpoint
  <1>4. ASSUME NEW s \in Sessions, NEW track, Prepare(s, track) \/ Refresh(s, track) PROVE PendMove(t)
    BY <1>1, <1>4 DEF Prepare, Refresh
  <1>5. ASSUME NEW s \in Sessions, NEW c \in Calls, Begin(s, c) PROVE PendMove(t)
    BY <1>1, <1>5 DEF Begin
  <1>6. ASSUME NEW c \in Calls, Heartbeat(c) \/ End(c) PROVE PendMove(t)
    BY <1>1, <1>6 DEF Heartbeat, End
  <1>7. ASSUME NEW status, CreateProblemReceipt(status) \/ CancelProblemReceipt(status) PROVE PendMove(t)
    BY <1>1, <1>7 DEF CreateProblemReceipt, CancelProblemReceipt, ReceiptChanges
  <1>8. CASE \/ CreatedReceipt \/ CancelledReceipt \/ CancelContinuation
             \/ HostPolicy \/ JobEnds \/ Tick \/ UNCHANGED vars
    BY <1>1, <1>8
    DEF CreatedReceipt, CancelledReceipt, CancelContinuation, ReceiptChanges, HostPolicy, JobEnds, Tick, vars
  <1>9. ASSUME NEW s \in Sessions, NEW d, Create(s, d) \/ Acquire(s, d) \/ Claim(s, d) PROVE PendMove(t)
    BY <1>2, <1>9 DEF Create, Acquire, Claim
  <1>10. ASSUME NEW s \in Sessions,
                \/ AcquireRefused(s) \/ FinishCommit(s) \/ CancelMark(s) \/ Reconcile(s)
                \/ ClaimRecorded(s) \/ ClaimRefused(s) \/ Crash(s)
         PROVE  PendMove(t)
    BY <1>2, <1>10 DEF AcquireRefused, FinishCommit, CancelMark, Reconcile, ClaimRecorded, ClaimRefused, Crash
  <1>11. ASSUME NEW s \in Sessions, pend' = [pend EXCEPT ![s] = [NoOp EXCEPT !.op = "cancelled"]] PROVE PendMove(t)
    BY <1>0, <1>11 DEF PendMove, Blank, NoOp
  <1>12. ASSUME NEW s \in Sessions, Cancel(s) \/ CancelAgain(s) PROVE PendMove(t)
    BY <1>11, <1>12 DEF Cancel, CancelAgain
  <1>13. ASSUME NEW s \in Sessions, NEW g, CancelExecution(s, g) PROVE PendMove(t)
    BY <1>11, <1>13 DEF CancelExecution
  <1>14. ASSUME NEW s \in Sessions, NEW p, pend' = [pend EXCEPT ![s] = p] PROVE pend'[t] = pend[t] \/ (t = s /\ pend'[t] = p)
    BY <1>0, <1>14
  <1>15. ASSUME NEW s \in Sessions, ReadForRun(s) PROVE PendMove(t)
    <2>1. Still /\ (pend'[t] = pend[t] \/ Opened(t))
      BY <1>0, <1>14, <1>15 DEF ReadForRun, Still, Opened, NoOp
    <2> QED
      BY <2>1 DEF PendMove
  <1>16. ASSUME NEW s \in Sessions, ReadForWake(s) PROVE PendMove(t)
    <2>1. Still /\ (pend'[t] = pend[t] \/ Opened(t))
      BY <1>0, <1>14, <1>16 DEF ReadForWake, Still, Opened, NoOp
    <2> QED
      BY <2>1 DEF PendMove
  <1>17. ASSUME NEW s \in Sessions, NEW status \in Finished, FinishStart(s, status) PROVE PendMove(t)
    <2>1. Still /\ (pend'[t] = pend[t] \/ Opened(t))
      BY <1>0, <1>14, <1>17 DEF FinishStart, Still, Opened, NoOp
    <2> QED
      BY <2>1 DEF PendMove
  <1>18. ASSUME NEW s \in Sessions, Observe(s) PROVE PendMove(t)
    <2>1. PICK task \in TaskReport(pend[s].tracked) :
            pend' = [pend EXCEPT ![s] = [pend[s] EXCEPT
              !.got = TRUE, !.gen = goal.gen, !.seq = goal.seq, !.tracked = FALSE,
              !.seen = IF \E c \in Calls : LiveCall(c) THEN "unknown" ELSE task]]
      BY <1>18 DEF Observe
    <2>2. Still
      BY <1>18 DEF Observe, Still
    <2>3. task = "terminal" => pend[s].tracked /\ job # "running"
      BY DEF TaskReport
    <2>4. pend[s] \in PendRecords /\ pend[s].op \in {"run", "wake"}
      BY <1>0, <1>18 DEF Observe
    <2>5. CASE t = s
      <3>1. /\ pend'[t].op = pend[s].op /\ ~pend'[t].tracked /\ pend'[t].gen = goal.gen /\ pend'[t].seq = goal.seq
            /\ pend'[t].seen = IF \E c \in Calls : LiveCall(c) THEN "unknown" ELSE task
        BY <1>0, <2>1, <2>4, <2>5 DEF PendRecords
      <3>2. Observed(t)
        BY <2>3, <2>4, <2>5, <3>1 DEF Observed
      <3> QED
        BY <2>2, <3>2 DEF PendMove
    <2>6. CASE t # s
      BY <1>0, <2>1, <2>6 DEF PendMove
    <2> QED
      BY <2>5, <2>6
  <1>19. ASSUME NEW s \in Sessions, FinishValidate(s) \/ FinishMark(s) PROVE PendMove(t)
    <2>1. Still
      BY <1>19 DEF FinishValidate, FinishMark, Still
    <2>2. \/ Finishing(s)
          \/ /\ pend[s].op \in {"finish", "validated"}
             /\ \E o \in {"validated", "marked"} : pend' = [pend EXCEPT ![s] = [pend[s] EXCEPT !.op = o]]
      BY <1>19 DEF FinishValidate, FinishMark, Finishing
    <2>3. CASE Finishing(s)
      BY <1>2, <2>3
    <2>4. CASE ~Finishing(s)
      <3>1. pend'[t] = pend[t] \/ Advanced(t)
        BY <1>0, <2>2, <2>4 DEF Advanced
      <3> QED
        BY <2>1, <3>1 DEF PendMove
    <2> QED
      BY <2>3, <2>4
  <1>20. ASSUME NEW s \in Sessions, ReadForReconcile(s) PROVE PendMove(t)
    <2>1. Still /\ goal.status = "active"
      BY <1>20 DEF ReadForReconcile, Still
    <2>2. pend'[t] = pend[t] \/ Sampled(t)
      BY <1>0, <1>14, <1>20, <2>1 DEF ReadForReconcile, Sampled, NoOp
    <2> QED
      BY <2>1, <2>2 DEF PendMove
  <1>21. ASSUME NEW s \in Sessions, ObserveForReconcile(s) PROVE PendMove(t)
    <2>1. Still /\ pend[s].op = "reconcile" /\ ~pend[s].got
      BY <1>21 DEF ObserveForReconcile, Still
    <2>2. PICK task \in TaskReport(pend[s].tracked) :
            pend' = [pend EXCEPT ![s] = IF /\ SameActivity(s)
                                           /\ ~\E c \in Calls : LiveCall(c)
                                           /\ task \in {"untracked", "terminal"}
                                           /\ ~DogLive
                                          THEN [pend[s] EXCEPT !.got = TRUE, !.tracked = FALSE] ELSE NoOp]
      BY <1>21 DEF ObserveForReconcile
    <2>3. CASE Finishing(s)
      BY <1>2, <2>3
    <2>4. CASE ~Finishing(s)
      <3>1. /\ ~\E c \in Calls : LiveCall(c)
            /\ task \in {"untracked", "terminal"}
            /\ pend' = [pend EXCEPT ![s] = [pend[s] EXCEPT !.got = TRUE, !.tracked = FALSE]]
        BY <2>2, <2>4 DEF Finishing
      <3>2. pend[s].tracked => job # "running"
        BY <3>1 DEF TaskReport
      <3>3. pend'[t] = pend[t] \/ Probed(t)
        BY <1>0, <2>1, <3>1, <3>2 DEF Probed
      <3> QED
        BY <2>1, <3>3 DEF PendMove
    <2> QED
      BY <2>3, <2>4
  <1> QED
    BY <1>3, <1>4, <1>5, <1>6, <1>7, <1>8, <1>9, <1>10, <1>12, <1>13, <1>15, <1>16, <1>17, <1>18, <1>19, <1>20, <1>21
    DEF Next, RunGoal, Work, Finish, CancelGoal, ReconcileGoals, Wake, Host

------------------------------------------------------------------------------
(* What sessions saw stays sound.                                          *)

\* The generation and, within one, the activity sequence only grow.
LEMMA ActivityGrows ==
  ASSUME IndInv, RowMove, TypeOK'
  PROVE  /\ goal.gen \in Nat /\ goal'.gen \in Nat /\ goal.seq \in Nat /\ goal'.seq \in Nat
         /\ goal.rev \in Nat /\ goal'.rev \in Nat
         /\ goal'.gen >= goal.gen
         /\ goal'.gen = goal.gen => goal'.seq >= goal.seq
         /\ goal.status # "absent" => goal'.rev >= goal.rev /\ goal'.status # "absent"
  <1>1. /\ goal.gen \in Nat /\ goal'.gen \in Nat /\ goal.seq \in Nat /\ goal'.seq \in Nat
        /\ goal.rev \in Nat /\ goal'.rev \in Nat
    BY DEF IndInv, TypeOK, GoalRecords
  <1> QED
    BY <1>1 DEF IndInv, RowMove, SameRow, KeptRow, ReleasedRow, TakenRowMove, CreatedRow, ClosedRowMove,
                RowSound, Terminal, Finished

LEMMA SightStep ==
  ASSUME IndInv, [Next]_vars
  PROVE  SightSound'
  <1>0. TypeOK' /\ RowMove /\ RestMove /\ SightSound /\ RowSound
    BY TypeStep, RowMoves, RestMoves DEF IndInv
  <1>1. /\ pend \in [Sessions -> PendRecords] /\ pend' \in [Sessions -> PendRecords]
        /\ calls \in [Calls -> CallRecords] /\ now \in Nat /\ now' \in Nat /\ now' >= now
        /\ job \in {"none", "running", "ended"} /\ JobMove
    BY <1>0 DEF IndInv, TypeOK, RestMove
  <1>2. /\ goal.gen \in Nat /\ goal'.gen \in Nat /\ goal.seq \in Nat /\ goal'.seq \in Nat
        /\ goal'.gen >= goal.gen
        /\ goal'.gen = goal.gen => goal'.seq >= goal.seq
    BY <1>0, ActivityGrows
  <1>3. SUFFICES ASSUME NEW t \in Sessions
                 PROVE  /\ pend'[t].tracked => job' # "none"
                        /\ pend'[t].gen <= goal'.gen
                        /\ pend'[t].gen = goal'.gen => pend'[t].seq <= goal'.seq
                        /\ pend'[t].got /\ SameActivity(t)' /\ pend'[t].seen # "unknown"
                             => \A c \in Calls : ~LiveCall(c)'
                        /\ pend'[t].seen = "terminal" => job' = "ended"
    BY DEF SightSound
  <1>4. /\ pend[t].tracked => job # "none"
        /\ pend[t].gen <= goal.gen
        /\ pend[t].gen = goal.gen => pend[t].seq <= goal.seq
        /\ pend[t].got /\ SameActivity(t) /\ pend[t].seen # "unknown" => \A c \in Calls : ~LiveCall(c)
        /\ pend[t].seen = "terminal" => job = "ended"
    BY <1>0 DEF SightSound
  <1>5. /\ pend[t] \in PendRecords /\ pend[t].gen \in Nat /\ pend[t].seq \in Nat
        /\ pend'[t].gen \in Nat /\ pend'[t].seq \in Nat
    <2>1. pend[t] \in PendRecords /\ pend'[t] \in PendRecords
      BY <1>1
    <2> QED
      BY <2>1 DEF PendRecords
  <1>6. CASE pend'[t] = pend[t]
    <2>1. ASSUME pend[t].got, SameActivity(t)', pend[t].seen # "unknown", NEW c \in Calls, LiveCall(c)'
          PROVE  FALSE
      <3>1. pend[t].gen = goal'.gen /\ pend[t].seq = goal'.seq
        BY <1>6, <2>1 DEF SameActivity
      <3>2. goal'.gen = goal.gen /\ goal'.seq = goal.seq
        BY <1>2, <1>4, <1>5, <3>1
      <3>3. ~LiveCall(c)
        BY <1>4, <2>1, <3>1, <3>2 DEF SameActivity
      <3>4. calls'[c].state = "open" /\ calls'[c].gen = goal.gen /\ calls'[c].exp > now'
        BY <2>1, <3>2 DEF LiveCall
      <3>5. CASE CallKept(c)
        <4>1. calls[c].state = "open" /\ calls[c].gen = goal.gen /\ calls[c].exp > now'
          BY <3>4, <3>5 DEF CallKept
        <4>2. calls[c].exp \in Nat
          BY <1>1 DEF CallRecords
        <4> QED
          BY <1>1, <3>3, <4>1, <4>2 DEF LiveCall
      <3>6. CASE CallBeats(c)
        BY <1>2, <3>2, <3>6 DEF CallBeats
      <3> QED
        BY <1>0, <3>5, <3>6 DEF RestMove
    <2>2. pend[t].gen = goal'.gen => pend[t].seq <= goal'.seq
      BY <1>2, <1>4, <1>5
    <2>3. pend[t].gen <= goal'.gen
      BY <1>2, <1>4, <1>5
    <2>4. (pend[t].tracked => job' # "none") /\ (pend[t].seen = "terminal" => job' = "ended")
      BY <1>1, <1>4 DEF JobMove
    <2> QED
      BY <1>6, <2>1, <2>2, <2>3, <2>4
  <1>7. CASE Blank(t)
    BY <1>2, <1>7 DEF Blank
  <1>8. CASE Still /\ Opened(t)
    BY <1>0, <1>2, <1>8 DEF Still, Opened, RowSound
  <1>9. CASE Still /\ Observed(t)
    <2>1. goal' = goal /\ job' = job
      BY <1>9 DEF Still
    <2>2. ASSUME NEW c \in Calls PROVE LiveCall(c)' <=> LiveCall(c)
      BY <1>9 DEF Still, LiveCall
    <2>3. pend'[t].seen # "unknown" => \A c \in Calls : ~LiveCall(c)'
      BY <1>9, <2>2 DEF Observed
    <2>4. pend'[t].seen = "terminal" => job' = "ended"
      BY <1>1, <1>4, <1>9, <2>1 DEF Observed
    <2> QED
      BY <1>2, <1>9, <2>1, <2>3, <2>4 DEF Observed
  <1>10. CASE Still /\ (Advanced(t) \/ Probed(t))
    <2>1. /\ pend'[t].gen = pend[t].gen /\ pend'[t].seq = pend[t].seq /\ pend'[t].seen = pend[t].seen
          /\ pend'[t].tracked => pend[t].tracked
      BY <1>5, <1>10 DEF Advanced, Probed, PendRecords
    <2>2. goal' = goal /\ job' = job
      BY <1>10 DEF Still
    <2>3. ASSUME NEW c \in Calls PROVE LiveCall(c)' <=> LiveCall(c)
      BY <1>10 DEF Still, LiveCall
    <2>4. ASSUME pend'[t].got, SameActivity(t)', pend'[t].seen # "unknown" PROVE \A c \in Calls : ~LiveCall(c)'
      <3>1. CASE Probed(t)
        BY <2>3, <3>1 DEF Probed
      <3>2. CASE Advanced(t)
        <4>1. pend[t].got
          BY <1>5, <2>4, <3>2 DEF Advanced, PendRecords
        <4>2. SameActivity(t)
          BY <2>1, <2>2, <2>4 DEF SameActivity
        <4> QED
          BY <1>4, <2>1, <2>3, <2>4, <4>1, <4>2
      <3> QED
        BY <1>10, <3>1, <3>2
    <2> QED
      BY <1>4, <2>1, <2>2, <2>4
  <1>11. CASE Still /\ Sampled(t)
    BY <1>0, <1>2, <1>11 DEF Still, Sampled, RowSound
  <1> QED
    BY <1>6, <1>7, <1>8, <1>9, <1>10, <1>11, PendMoves DEF PendMove, IndInv

LEMMA CloserStep ==
  ASSUME IndInv, [Next]_vars
  PROVE  CloserSound'
  <1>0. TypeOK' /\ RowMove /\ RestMove /\ SightSound /\ CloserSound
    BY TypeStep, RowMoves, RestMoves DEF IndInv
  <1>1. /\ pend \in [Sessions -> PendRecords] /\ now \in Nat /\ now' \in Nat /\ now' >= now
        /\ job \in {"none", "running", "ended"} /\ JobMove /\ goal.tracked \in BOOLEAN /\ goal'.tracked \in BOOLEAN
    BY <1>0 DEF IndInv, TypeOK, RestMove, GoalRecords
  <1>2. /\ goal.rev \in Nat /\ goal'.rev \in Nat
        /\ goal.status # "absent" => goal'.rev >= goal.rev /\ goal'.status # "absent"
    BY <1>0, ActivityGrows
  <1>3. goal.status # "absent" /\ goal'.rev = goal.rev => goal'.tracked = goal.tracked
    BY <1>0, <1>2 DEF RowMove, SameRow, KeptRow, ReleasedRow, TakenRowMove, CreatedRow, ClosedRowMove
  <1>4. SUFFICES ASSUME NEW t \in Sessions
                 PROVE  /\ pend'[t].op \in {"finish", "validated", "marked"} => pend'[t].status \in Finished
                        /\ pend'[t].op = "reconcile" =>
                             /\ goal'.status # "absent"
                             /\ pend'[t].at <= now' /\ pend'[t].rev <= goal'.rev
                             /\ pend'[t].seen = "untracked"
                             /\ pend'[t].rev = goal'.rev =>
                                  IF pend'[t].got THEN goal'.tracked => job' = "ended"
                                                  ELSE pend'[t].tracked = goal'.tracked
    BY DEF CloserSound
  <1>5. /\ pend[t].op \in {"finish", "validated", "marked"} => pend[t].status \in Finished
        /\ pend[t].op = "reconcile" =>
             /\ goal.status # "absent"
             /\ pend[t].at <= now /\ pend[t].rev <= goal.rev
             /\ pend[t].seen = "untracked"
             /\ pend[t].rev = goal.rev =>
                  IF pend[t].got THEN goal.tracked => job = "ended" ELSE pend[t].tracked = goal.tracked
    BY <1>0 DEF CloserSound
  <1>6. pend[t] \in PendRecords /\ pend[t].at \in Nat /\ pend[t].rev \in Nat
    BY <1>1 DEF PendRecords
  <1>7. CASE pend'[t] = pend[t]
    <2>1. CASE pend[t].op = "reconcile"
      <3>1. goal'.status # "absent" /\ pend[t].at <= now' /\ pend[t].rev <= goal'.rev
        BY <1>1, <1>2, <1>5, <1>6, <2>1
      <3>2. ASSUME pend[t].rev = goal'.rev
            PROVE  IF pend[t].got THEN goal'.tracked => job' = "ended" ELSE pend[t].tracked = goal'.tracked
        <4>1. goal'.rev = goal.rev /\ pend[t].rev = goal.rev
          BY <1>2, <1>5, <1>6, <2>1, <3>2
        <4>2. goal'.tracked = goal.tracked
          BY <1>3, <1>5, <2>1, <4>1
        <4>3. job = "ended" => job' = "ended"
          BY <1>1 DEF JobMove
        <4> QED
          BY <1>5, <2>1, <4>1, <4>2, <4>3
      <3> QED
        BY <1>5, <1>7, <2>1, <3>1, <3>2
    <2>2. CASE pend[t].op # "reconcile"
      BY <1>5, <1>7, <2>2
    <2> QED
      BY <2>1, <2>2
  <1>8. CASE Blank(t)
    BY <1>8 DEF Blank
  <1>9. CASE Still /\ Opened(t)
    BY <1>9 DEF Opened
  <1>10. CASE Still /\ Observed(t)
    BY <1>10 DEF Observed
  <1>11. CASE Still /\ Advanced(t)
    BY <1>5, <1>6, <1>11 DEF Advanced, PendRecords
  <1>12. CASE Still /\ Sampled(t)
    BY <1>1, <1>2, <1>12 DEF Still, Sampled
  <1>13. CASE Still /\ Probed(t)
    <2>1. /\ pend'[t].op = "reconcile" /\ pend'[t].got /\ pend'[t].at = pend[t].at /\ pend'[t].rev = pend[t].rev
          /\ pend'[t].seen = pend[t].seen
      BY <1>6, <1>13 DEF Probed, PendRecords
    <2>2. goal' = goal /\ now' = now /\ job' = job /\ pend[t].op = "reconcile" /\ ~pend[t].got
      BY <1>13 DEF Still, Probed
    <2>3. pend[t].tracked => job = "ended"
      BY <1>0, <1>1, <1>13 DEF Probed, SightSound
    <2>4. pend[t].rev = goal.rev => pend[t].tracked = goal.tracked
      BY <1>5, <2>2
    <2>5. pend[t].rev = goal.rev /\ goal.tracked => job = "ended"
      BY <2>3, <2>4
    <2> QED
      BY <1>5, <2>1, <2>2, <2>5
  <1> QED
    BY <1>7, <1>8, <1>9, <1>10, <1>11, <1>12, <1>13, PendMoves DEF PendMove, IndInv

------------------------------------------------------------------------------
(* The theorems.                                                           *)

LEMMA InvInit == Init => IndInv
  <1> SUFFICES ASSUME Init PROVE IndInv
    OBVIOUS
  <1>1. TypeOK
    BY TypeInit
  <1>2. goal = NoGoal /\ calls = [c \in Calls |-> NoCall] /\ pend = [s \in Sessions |-> NoOp]
        /\ execs = [g \in 1..MaxGeneration |-> "none"]
    BY DEF Init
  <1>3. RowSound /\ CallsSound /\ CancelStopsWorker /\ CallsInsideLease
    BY <1>2 DEF RowSound, CallsSound, CancelStopsWorker, CallsInsideLease, NoGoal, NoCall
  <1>4. ReceiptsTrackLease
    BY <1>2, GoalAssumption DEF ReceiptsTrackLease, NoGoal
  <1>5. SightSound /\ CloserSound
    BY <1>2 DEF SightSound, CloserSound, NoOp, NoGoal
  <1> QED
    BY <1>1, <1>3, <1>4, <1>5 DEF IndInv

LEMMA InvStep == IndInv /\ [Next]_vars => IndInv'
  <1> SUFFICES ASSUME IndInv, [Next]_vars PROVE IndInv'
    OBVIOUS
  <1>1. TypeOK'
    BY TypeStep DEF IndInv
  <1> QED
    BY <1>1, RowStep, ReceiptsStep, CallsStep, SightStep, CloserStep DEF IndInv

LEMMA Invariance == Spec => []IndInv
  BY InvInit, InvStep, PTL DEF Spec

\* Whatever the sessions do, the execution receipts tell which generation may
\* work (rotateExecutionReceiptForLeaseAcquisition, updateExecutionState).
THEOREM ReceiptsTracked == Spec => []ReceiptsTrackLease
  <1>1. IndInv => ReceiptsTrackLease
    BY DEF IndInv
  <1> QED
    BY <1>1, Invariance, PTL

\* No handler of a cancelled goal's worker has an open call (cancel,
\* cancelExecution, reconcile).
THEOREM CancelStops == Spec => []CancelStopsWorker
  <1>1. IndInv => CancelStopsWorker
    BY DEF IndInv
  <1> QED
    BY <1>1, Invariance, PTL

\* A fenced call never outlives the lease it runs under, for every lease length
\* the service accepts (beginGoalFencedMutation, heartbeatGoalFencedMutation).
THEOREM CallsStayInside == Spec => []CallsInsideLease
  <1>1. IndInv => CallsInsideLease
    BY DEF IndInv
  <1> QED
    BY <1>1, Invariance, PTL

\* No session, whatever it read before, changes a closed goal (acquire, claim,
\* checkpoint, finish, cancel, reconcile).
THEOREM ClosedStaysClosed == Spec => ClosedForGood
  <1>1. IndInv /\ [Next]_vars => [goal.status \in Terminal => goal' = goal]_vars
    BY ClosedStep DEF IndInv
  <1> QED
    BY <1>1, Invariance, PTL DEF Spec, ClosedForGood

\* Only a run or a wake moves an existing goal to another generation.
LEMMA TakeOnly ==
  ASSUME TypeOK, [Next]_vars, goal.status = "active", goal'.gen # goal.gen
  PROVE  \E s \in Sessions : \E d \in LeaseLengths : Acquire(s, d) \/ Claim(s, d)
  <1>0. goal \in GoalRecords /\ now \in Nat /\ goal.tracked \in BOOLEAN
    BY DEF TypeOK, GoalRecords
  <1>1. ASSUME NEW s \in Sessions, NEW d \in LeaseLengths, Create(s, d) PROVE FALSE
    BY <1>1 DEF Create
  <1>2. ASSUME NEW s \in Sessions, NEW release \in BOOLEAN, NEW track \in BOOLEAN,
               Checkpoint(s, release, track) PROVE FALSE
    BY <1>0, <1>2 DEF Checkpoint, Saved, Counted, Unleased, Renewed, GoalRecords
  <1>3. ASSUME NEW s \in Sessions, NEW track \in BOOLEAN, Prepare(s, track) \/ Refresh(s, track) PROVE FALSE
    BY <1>0, <1>3 DEF Prepare, Refresh, Saved, Renewed, GoalRecords
  <1>4. ASSUME NEW s \in Sessions, NEW c \in Calls, Begin(s, c) PROVE FALSE
    BY <1>0, <1>4 DEF Begin, Active, Counted, Renewed, GoalRecords
  <1>5. ASSUME NEW c \in Calls, Heartbeat(c) \/ End(c) PROVE FALSE
    BY <1>0, <1>5 DEF Heartbeat, End, Active, Counted, Renewed, GoalRecords
  <1>6. ASSUME NEW s \in Sessions,
               FinishCommit(s) \/ Cancel(s) \/ Reconcile(s) \/ \E g \in 1..MaxGeneration : CancelExecution(s, g)
        PROVE  FALSE
    BY <1>0, <1>6 DEF FinishCommit, Cancel, Reconcile, CancelExecution, Closed, Unleased, GoalRecords
  <1>7. ASSUME NEW s \in Sessions,
               \/ ReadForRun(s) \/ Observe(s) \/ AcquireRefused(s)
               \/ FinishValidate(s) \/ FinishMark(s)
               \/ CancelAgain(s) \/ CancelMark(s)
               \/ ReadForReconcile(s) \/ ObserveForReconcile(s)
               \/ ReadForWake(s) \/ ClaimRecorded(s) \/ ClaimRefused(s) \/ Crash(s)
        PROVE  FALSE
    BY <1>7 DEF ReadForRun, Observe, AcquireRefused, FinishValidate, FinishMark, CancelAgain, CancelMark,
                ReadForReconcile, ObserveForReconcile, ReadForWake, ClaimRecorded, ClaimRefused, Crash
  <1>8. ASSUME NEW s \in Sessions, NEW status, FinishStart(s, status) PROVE FALSE
    BY <1>8 DEF FinishStart
  <1>9. ASSUME NEW status, CreateProblemReceipt(status) \/ CancelProblemReceipt(status) PROVE FALSE
    BY <1>9 DEF CreateProblemReceipt, CancelProblemReceipt, ReceiptChanges
  <1>10. ASSUME HostPolicy PROVE FALSE
    BY <1>0, <1>10 DEF HostPolicy, Saved, GoalRecords
  <1>11. ASSUME CreatedReceipt \/ CancelledReceipt \/ CancelContinuation \/ JobEnds \/ Tick \/ UNCHANGED vars PROVE FALSE
    BY <1>11 DEF CreatedReceipt, CancelledReceipt, CancelContinuation, ReceiptChanges, JobEnds, Tick, vars
  <1> QED
    BY <1>1, <1>2, <1>3, <1>4, <1>5, <1>6, <1>7, <1>8, <1>9, <1>10, <1>11
    DEF Next, RunGoal, Work, Finish, CancelGoal, ReconcileGoals, Wake, Host

\* A worker whose fenced call or tracked task is alive keeps its lease, although
\* the evidence against it was collected earlier (acquire, assessGoalWorker-
\* Liveness, claimRecurringScheduledContinuation).
THEOREM LiveWorkerKeepsLease == Spec => LiveWorkerKept
  <1> DEFINE Kept == goal'.gen # goal.gen /\ goal.held =>
                       /\ \A c \in Calls : ~LiveCall(c)
                       /\ LeaseLive /\ goal.tracked => job # "running"
  <1>1. ASSUME IndInv, [Next]_vars, goal'.gen # goal.gen, goal.held
        PROVE  \E s \in Sessions : ~LeaseLive \/ (pend[s].got /\ SameActivity(s) /\ Quiet(s))
    <2>1. goal.status = "active" /\ TypeOK
      BY <1>1 DEF IndInv, RowSound
    <2>2. \E s \in Sessions : \E d \in LeaseLengths : Acquire(s, d) \/ Claim(s, d)
      BY <1>1, <2>1, TakeOnly
    <2> QED
      BY <2>2 DEF Acquire, Takeable, Inactive, Claim, Claimable, Resumable, Waking
  <1>2. ASSUME IndInv, [Next]_vars, goal'.gen # goal.gen, goal.held
        PROVE  /\ \A c \in Calls : ~LiveCall(c)
               /\ LeaseLive /\ goal.tracked => job # "running"
    <2>1. PICK s \in Sessions : ~LeaseLive \/ (pend[s].got /\ SameActivity(s) /\ Quiet(s))
      BY <1>1, <1>2
    <2>2. CASE ~LeaseLive
      <3>1. goal.exp \in Nat /\ now \in Nat /\ calls \in [Calls -> CallRecords] /\ goal.exp <= now
        BY <1>2, <2>2 DEF IndInv, TypeOK, GoalRecords, LeaseLive
      <3>2. ASSUME NEW c \in Calls, LiveCall(c) PROVE FALSE
        <4>1. calls[c].exp <= goal.exp /\ calls[c].exp > now /\ calls[c].exp \in Nat
          BY <1>2, <3>1, <3>2 DEF LiveCall, IndInv, CallsInsideLease, CallRecords
        <4> QED
          BY <3>1, <4>1
      <3> QED
        BY <2>2, <3>2
    <2>3. CASE pend[s].got /\ SameActivity(s) /\ Quiet(s)
      BY <1>2, <2>3 DEF Quiet, IndInv, SightSound
    <2> QED
      BY <2>1, <2>2, <2>3
  <1>3. IndInv /\ [Next]_vars => [Kept]_vars
    BY <1>2
  <1> QED
    BY <1>3, Invariance, PTL DEF Spec, LiveWorkerKept

\* A goal that is reconciled away is one that nobody works on, waits for or will
\* be woken for, although the decision was prepared two transactions earlier
\* (reconcileGoals, reconcile).
THEOREM ReconciledWasAbandoned == Spec => OnlyAbandonedReconciled
  <1> DEFINE Fair == \A s \in Sessions : Reconcile(s) /\ goal' # goal =>
                       /\ ~LeaseLive /\ ~DogLive
                       /\ \A c \in Calls : ~LiveCall(c)
                       /\ goal.tracked => job # "running"
  <1>1. ASSUME IndInv, NEW s \in Sessions, Reconcile(s), goal' # goal
        PROVE  /\ ~LeaseLive /\ ~DogLive
               /\ \A c \in Calls : ~LiveCall(c)
               /\ goal.tracked => job # "running"
    <2>1. Abandoned(s) /\ pend[s].op = "reconcile" /\ pend[s].got
      BY <1>1 DEF Reconcile
    <2>2. pend[s].at <= now /\ pend[s].seen = "untracked" /\ (goal.tracked => job = "ended")
      BY <1>1, <2>1 DEF IndInv, CloserSound, Abandoned
    <2>3. goal.exp \in Nat /\ now \in Nat /\ pend[s].at \in Nat
      BY <1>1 DEF IndInv, TypeOK, GoalRecords, PendRecords
    <2>4. ~LeaseLive
      BY <2>1, <2>2, <2>3 DEF Abandoned, LeaseLive
    <2>5. \A c \in Calls : ~LiveCall(c)
      BY <1>1, <2>1, <2>2 DEF IndInv, SightSound, Abandoned
    <2> QED
      BY <2>1, <2>2, <2>4, <2>5 DEF Abandoned
  <1>2. IndInv /\ [Next]_vars => [Fair]_vars
    BY <1>1
  <1> QED
    BY <1>2, Invariance, PTL DEF Spec, OnlyAbandonedReconciled

=============================================================================

---------------------------- MODULE HeavyJobQueue ----------------------------
(***************************************************************************)
(* The durable heavy-job queue shared by every server process of a host.   *)
(*                                                                         *)
(*   heavy_jobs table      row, position          (one SQLite database)    *)
(*   waiter queue          local, todo, admitted  (one per process)        *)
(*   admission controller  active                 (one per process)        *)
(*   executors             grants                 (one per process)        *)
(*   recovery service      sweep                  (one per process)        *)
(*                                                                         *)
(* Every store method is one SQLite transaction, so it is one step here.   *)
(* A process is a single JavaScript thread: between two store calls of the *)
(* same synchronous method (the loop of drain(), the loop of               *)
(* reconcileOnce()) other processes may act but the process itself may     *)
(* not, which is what Idle expresses.                                      *)
(*                                                                         *)
(* The order in which drain() tries its candidates is left open here: the  *)
(* fair order itself is the subject of HeavyJobFairness.                   *)
(***************************************************************************)
EXTENDS AdmissionDecision

CONSTANTS
  Ops,                   \* operation ids
  Owners,                \* process incarnations; each has a fresh ownerId
  NoOwner,               \* owner_id IS NULL
  Request,               \* [Ops -> the admission request of that operation]
  MaxQueued,             \* bound on queued rows
  MaxQueuedPerWorkspace, \* bound on the queued rows of one workspace
  StoreMayFail,          \* may a start or settle transaction throw?
  MaxAttempts,           \* bound: [Ops -> attempts of that operation]
  MaxPromotions          \* bound: how far below zero promotion moves a position

ASSUME QueueAssumption ==
  /\ NoOwner \notin Owners
  /\ \A q \in Ops : Request[q].op = q
  /\ MaxQueued \in Nat \ {0}
  /\ MaxQueuedPerWorkspace \in 1..MaxQueued
  /\ StoreMayFail \in BOOLEAN
  /\ MaxAttempts \in [Ops -> Nat]
  /\ MaxPromotions \in Nat

VARIABLES
  row,       \* [Ops -> durable row]; attempt 0 stands for "no row yet"
  stale,     \* rows whose heartbeat_at is behind the liveness cutoff
  aged,      \* rows whose requested_at is behind the retention window
  position,  \* [Ops -> Int], the position column
  local,     \* [Owners -> SUBSET Ops], the process-local waiter list
  active,    \* [Owners -> SUBSET Ops], the controller's live leases
  todo,      \* [Owners -> SUBSET Ops], candidates the running drain() has left
  admitted,  \* [Owners -> set of grants], what the running drain() collected
  grants,    \* [Owners -> set of grants], unsettled leases held by executors
  sweep,     \* [Owners -> set of recovery actions], what reconcileOnce() has left
  alive      \* the processes that run

store == <<row, position, stale, aged>>
process == <<local, active, todo, admitted, grants, sweep>>
vars == <<row, position, stale, aged, local, active, todo, admitted, grants, sweep, alive>>

Terminal == {"completed", "failed", "interrupted", "cancelled", "superseded"}
RowStates == {"none", "queued", "running"} \cup Terminal
Live(q) == row[q].state \in {"queued", "running"}

Grant == [op : Ops, attempt : Nat]
SweepAction == [op : Ops, action : {"orphan", "interrupt", "expire"}]

Init ==
  /\ row = [q \in Ops |-> [state |-> "none", owner |-> NoOwner, attempt |-> 0]]
  /\ stale = {}
  /\ aged = {}
  /\ position = [q \in Ops |-> 0]
  /\ local = [o \in Owners |-> {}]
  /\ active = [o \in Owners |-> {}]
  /\ todo = [o \in Owners |-> {}]
  /\ admitted = [o \in Owners |-> {}]
  /\ grants = [o \in Owners |-> {}]
  /\ sweep = [o \in Owners |-> {}]
  /\ alive = Owners

\* No synchronous method of the process is on the stack.
Idle(o) == o \in alive /\ todo[o] = {} /\ admitted[o] = {} /\ sweep[o] = {}

-----------------------------------------------------------------------------
(* The store: what a transaction of owner o may read and write.            *)

Queued == {q \in Ops : row[q].state = "queued"}
Workspace(q) == Request[q].ws

\* Mutant of HasRoom: the workspace bound is off by one.
HasRoomOffByOne(q) ==
  /\ Cardinality({p \in Queued : Workspace(p) = Workspace(q)}) <= MaxQueuedPerWorkspace
  /\ Cardinality(Queued) < MaxQueued

\* Both bounds, the workspace's first; a full queue rejects the request.
HasRoom(q) ==
  /\ Cardinality({p \in Queued : Workspace(p) = Workspace(q)}) < MaxQueuedPerWorkspace
  /\ Cardinality(Queued) < MaxQueued

\* Mutant of Claimable: the owner predicate of the UPDATE is missing.
ClaimableAnyOwner(o, q) == row[q].state = "queued"

\* A queued row of o itself, or one that recovery has orphaned.
Claimable(o, q) == row[q].state = "queued" /\ row[q].owner \in {o, NoOwner}

NextPosition ==
  LET taken == {position[q] : q \in {p \in Ops : row[p].state # "none"}}
  IN  IF taken = {} THEN 1 ELSE Max(taken) + 1

HeadPosition(q) ==
  LET others == {position[p] : p \in Queued \ {q}}
  IN  (IF others = {} THEN 0 ELSE Min(others)) - 1

\* Mutant of InheritedPosition: the successor joins at the tail.
TailPosition(s) == NextPosition

\* A supersede hands the place of the stale generation on.
InheritedPosition(s) == position[s]

Adopted(o, q) == [row[q] EXCEPT !.owner = o]

\* Mutant of Requeued: a terminal row is claimed again under its old attempt.
RequeuedSameAttempt(o, q) ==
  [state |-> "queued", owner |-> o, attempt |-> IF row[q].attempt = 0 THEN 1 ELSE row[q].attempt]

\* A first insert, or a terminal row claimed again as a new attempt.
Requeued(o, q) ==
  [state |-> "queued", owner |-> o, attempt |-> row[q].attempt + 1]

Retired(q, state) == [row[q] EXCEPT !.state = state]

\* The clocks of q are as good as new: the transaction stamps its heartbeat (and
\* a new attempt its request time), or the row is retired and nobody reads them.
Beat(q) == stale' = stale \ {q} /\ UNCHANGED aged

\* Mutant of Restamp: requested_at keeps its first value.
RestampBeatOnly(Q) == stale' = stale \ Q /\ UNCHANGED aged

Restamp(Q) == stale' = stale \ Q /\ aged' = aged \ Q

-----------------------------------------------------------------------------
(* The waiter queue.                                                       *)

\* claim() on a live row: adopt it; rows running or owned elsewhere coalesce.
Adopt(o, q) ==
  /\ Idle(o)
  /\ Claimable(o, q)
  /\ row' = [row EXCEPT ![q] = Adopted(o, q)]
  /\ Beat(q)
  /\ local' = [local EXCEPT ![o] = @ \cup {q}]
  /\ UNCHANGED <<position, active, todo, admitted, grants, sweep, alive>>

\* claim() on a missing or terminal row: enqueue a new attempt at the tail.
Insert(o, q) ==
  /\ Idle(o)
  /\ ~Live(q)
  /\ HasRoom(q)
  /\ row[q].attempt < MaxAttempts[q]
  /\ row' = [row EXCEPT ![q] = Requeued(o, q)]
  /\ Restamp({q})
  /\ position' = [position EXCEPT ![q] = NextPosition]
  /\ local' = [local EXCEPT ![o] = @ \cup {q}]
  /\ UNCHANGED <<active, todo, admitted, grants, sweep, alive>>

Enqueue(o, q) == Adopt(o, q) \/ Insert(o, q)

\* claimExisting(): a restart re-attaches to a live row, it never creates one.
Reattach(o, q) == Adopt(o, q)

\* A local row whose durable row is no longer claimable is dropped.
Promote(o, q) ==
  /\ Idle(o)
  /\ q \in local[o]
  /\ IF Claimable(o, q)
       THEN /\ HeadPosition(q) >= -MaxPromotions
            /\ position' = [position EXCEPT ![q] = HeadPosition(q)]
            /\ UNCHANGED local
       ELSE /\ local' = [local EXCEPT ![o] = @ \ {q}]
            /\ UNCHANGED position
  /\ UNCHANGED <<row, stale, aged, active, todo, admitted, grants, sweep, alive>>

Cancel(o, q) ==
  /\ Idle(o)
  /\ q \in local[o]
  /\ local' = [local EXCEPT ![o] = @ \ {q}]
  /\ IF Claimable(o, q)
       THEN row' = [row EXCEPT ![q] = Retired(q, "cancelled")] /\ Restamp({q})
       ELSE UNCHANGED <<row, stale, aged>>
  /\ UNCHANGED <<position, active, todo, admitted, grants, sweep, alive>>

\* The replacement q takes over the place of the stale generation s.  A stale
\* generation that is gone is replaced by an ordinary enqueue; a live
\* replacement only retires it.
Supersede(o, s, q) ==
  /\ Idle(o)
  /\ s # q
  /\ Workspace(s) = Workspace(q)
  /\ \/ /\ Live(q)
        /\ IF Claimable(o, s)
             THEN row' = [row EXCEPT ![s] = Retired(s, "superseded")] /\ Restamp({s})
             ELSE UNCHANGED <<row, stale, aged>>
        /\ local' = [local EXCEPT ![o] = @ \ {s}]
        /\ UNCHANGED position
     \/ /\ ~Live(q)
        /\ ~Claimable(o, s)
        /\ HasRoom(q)
        /\ row[q].attempt < MaxAttempts[q]
        /\ row' = [row EXCEPT ![q] = Requeued(o, q)]
        /\ Restamp({q})
        /\ position' = [position EXCEPT ![q] = NextPosition]
        /\ local' = [local EXCEPT ![o] = (@ \ {s}) \cup {q}]
     \/ /\ ~Live(q)
        /\ Claimable(o, s)
        /\ row[q].attempt < MaxAttempts[q]
        /\ row' = [row EXCEPT ![s] = Retired(s, "superseded"), ![q] = Requeued(o, q)]
        /\ Restamp({s, q})
        /\ position' = [position EXCEPT ![q] = InheritedPosition(s)]
        /\ local' = [local EXCEPT ![o] = (@ \ {s}) \cup {q}]
  /\ UNCHANGED <<active, todo, admitted, grants, sweep, alive>>

-----------------------------------------------------------------------------
(* drain(): one step per candidate, then the grants go to the executors.   *)

\* Mutant of Leases: only what the running drain admitted is counted.
LeasesOfThisDrain(o) == {Request[g.op] : g \in admitted[o]}

\* The live leases the controller of process o decides about.
Leases(o) == {Request[q] : q \in active[o]}

\* pump(): after every enqueue and at the end of every recovery sweep.
Pump(o) ==
  /\ Idle(o)
  /\ local[o] # {}
  /\ todo' = [todo EXCEPT ![o] = local[o]]
  /\ UNCHANGED <<store, local, active, admitted, grants, sweep, alive>>

\* Mutant of Startable: a stale local view is enough to start.
StartableAnyOwner(o, q) == row[q].state = "queued"

\* store.start(): only the owner of a queued row may start it.
Startable(o, q) == row[q].state = "queued" /\ row[q].owner = o

Started(q) == [row[q] EXCEPT !.state = "running"]

\* The controller refuses: a global denial ends the drain, any other skips q.
Deny(o, q, sample) ==
  /\ LET reason == Decision(Leases(o), Request[q], sample)
     IN  /\ reason # "admitted"
         /\ todo' = [todo EXCEPT ![o] = IF reason \in GlobalDenials THEN {} ELSE @ \ {q}]
  /\ UNCHANGED <<store, local, active, admitted, grants, sweep, alive>>

\* The controller admits and the durable row starts.
Start(o, q, sample) ==
  /\ Decision(Leases(o), Request[q], sample) = "admitted"
  /\ Startable(o, q)
  /\ row' = [row EXCEPT ![q] = Started(q)]
  /\ Restamp({q})
  /\ active' = [active EXCEPT ![o] = @ \cup {q}]
  /\ local' = [local EXCEPT ![o] = @ \ {q}]
  /\ todo' = [todo EXCEPT ![o] = @ \ {q}]
  /\ admitted' = [admitted EXCEPT ![o] = @ \cup {[op |-> q, attempt |-> row[q].attempt]}]
  /\ UNCHANGED <<position, grants, sweep, alive>>

\* Mutant of DropStale: the lease is not given back.
DropStaleKeepsLease(o, q, sample) ==
  /\ Decision(Leases(o), Request[q], sample) = "admitted"
  /\ ~Startable(o, q)
  /\ active' = [active EXCEPT ![o] = @ \cup {q}]
  /\ local' = [local EXCEPT ![o] = @ \ {q}]
  /\ todo' = [todo EXCEPT ![o] = (@ \cup local[o]) \ {q}]
  /\ UNCHANGED <<store, admitted, grants, sweep, alive>>

\* Mutant of DropStale: the local row stays.
DropStaleKeepsRow(o, q, sample) ==
  /\ Decision(Leases(o), Request[q], sample) = "admitted"
  /\ ~Startable(o, q)
  /\ todo' = [todo EXCEPT ![o] = @ \ {q}]
  /\ UNCHANGED <<store, local, active, admitted, grants, sweep, alive>>

\* The controller admits but the row was retired meanwhile: the lease goes
\* back, which wakes a drain of everything that still waits, and the local row
\* is dropped.
DropStale(o, q, sample) ==
  /\ Decision(Leases(o), Request[q], sample) = "admitted"
  /\ ~Startable(o, q)
  /\ local' = [local EXCEPT ![o] = @ \ {q}]
  /\ todo' = [todo EXCEPT ![o] = (@ \cup local[o]) \ {q}]
  /\ UNCHANGED <<store, active, admitted, grants, sweep, alive>>

\* store.start() throws: the lease stays in the controller and the grants the
\* drain had collected are lost with its stack frame.
StartThrows(o, q, sample) ==
  /\ StoreMayFail
  /\ Decision(Leases(o), Request[q], sample) = "admitted"
  /\ active' = [active EXCEPT ![o] = @ \cup {q}]
  /\ todo' = [todo EXCEPT ![o] = {}]
  /\ admitted' = [admitted EXCEPT ![o] = {}]
  /\ UNCHANGED <<store, local, grants, sweep, alive>>

TryCandidate(o, q) ==
  /\ o \in alive
  /\ q \in todo[o]
  /\ \E sample \in Samples :
       \/ Deny(o, q, sample)
       \/ Start(o, q, sample)
       \/ DropStale(o, q, sample)
       \/ StartThrows(o, q, sample)

\* drain() returns and each admission is handed to its executor.
Deliver(o) ==
  /\ o \in alive
  /\ todo[o] = {}
  /\ admitted[o] # {}
  /\ grants' = [grants EXCEPT ![o] = @ \cup admitted[o]]
  /\ admitted' = [admitted EXCEPT ![o] = {}]
  /\ UNCHANGED <<store, local, active, todo, sweep, alive>>

\* An executor ends: the durable row is settled, then the slot is released,
\* and the release wakes a drain.  A row that is no longer this owner's running
\* row is left alone.
Settle(o, g, outcome) ==
  /\ Idle(o)
  /\ g \in grants[o]
  /\ IF row[g.op].state = "running" /\ row[g.op].owner = o
       THEN row' = [row EXCEPT ![g.op] = Retired(g.op, outcome)] /\ Restamp({g.op})
       ELSE UNCHANGED <<row, stale, aged>>
  /\ active' = [active EXCEPT ![o] = @ \ {g.op}]
  /\ grants' = [grants EXCEPT ![o] = @ \ {g}]
  /\ todo' = [todo EXCEPT ![o] = local[o]]
  /\ UNCHANGED <<position, local, admitted, sweep, alive>>

\* settle() throws after `settled` was set: neither the row nor the slot moves.
SettleThrows(o, g) ==
  /\ StoreMayFail
  /\ Idle(o)
  /\ g \in grants[o]
  /\ grants' = [grants EXCEPT ![o] = @ \ {g}]
  /\ UNCHANGED <<store, local, active, todo, admitted, sweep, alive>>

-----------------------------------------------------------------------------
(* Heartbeats, the passage of time, crashes and the recovery sweep.        *)

Heartbeat(o) ==
  /\ Idle(o)
  /\ \E q \in stale : row[q].owner = o
  /\ stale' = {q \in stale : row[q].owner # o}
  /\ UNCHANGED <<row, position, aged, process, alive>>

\* heartbeat_at falls behind the cutoff: the owner is dead, stalled or its
\* beats fail (a failed beat is swallowed).
MissHeartbeats(q) ==
  /\ Live(q)
  /\ q \notin stale
  /\ stale' = stale \cup {q}
  /\ UNCHANGED <<row, position, aged, process, alive>>

\* requested_at falls behind the retention window.
Age(q) ==
  /\ row[q].state = "queued"
  /\ q \notin aged
  /\ aged' = aged \cup {q}
  /\ UNCHANGED <<row, position, stale, process, alive>>

\* A process ends, gracefully or not: its durable rows stay behind.
Crash(o) ==
  /\ o \in alive
  /\ alive' = alive \ {o}
  /\ local' = [local EXCEPT ![o] = {}]
  /\ active' = [active EXCEPT ![o] = {}]
  /\ todo' = [todo EXCEPT ![o] = {}]
  /\ admitted' = [admitted EXCEPT ![o] = {}]
  /\ grants' = [grants EXCEPT ![o] = {}]
  /\ sweep' = [sweep EXCEPT ![o] = {}]
  /\ UNCHANGED store

\* Mutant of RecoveryAction: only queued rows are recovered.
RecoveryActionQueuedOnly(o, q) ==
  IF row[q].state # "queued" \/ row[q].owner = o \/ q \notin stale THEN {} ELSE {"orphan"}

\* What reconcileOnce() of process o decides about the row it has read.
RecoveryAction(o, q) ==
  IF \/ ~Live(q)
     \/ row[q].owner = o
     \/ row[q].owner # NoOwner /\ q \notin stale
    THEN {}
  ELSE IF row[q].state = "running" THEN {"interrupt"}
  ELSE IF q \in aged THEN {"expire"}
  ELSE IF row[q].owner = NoOwner THEN {}
  ELSE {"orphan"}

\* reconcileOnce() reads the live rows once ...
BeginSweep(o) ==
  /\ Idle(o)
  /\ sweep' = [sweep EXCEPT ![o] =
                 {s \in SweepAction : s.action \in RecoveryAction(o, s.op)}]
  /\ sweep'[o] # {}
  /\ UNCHANGED <<store, local, active, todo, admitted, grants, alive>>

\* ... and then applies each action to the row as it is by then.
RecoverRow(o, s) ==
  /\ o \in alive
  /\ s \in sweep[o]
  /\ sweep' = [sweep EXCEPT ![o] = @ \ {s}]
  /\ \/ /\ s.action = "orphan"
        /\ row[s.op].state = "queued"
        /\ row' = [row EXCEPT ![s.op].owner = NoOwner]
        /\ Beat(s.op)
     \/ /\ s.action = "expire"
        /\ row[s.op].state = "queued"
        /\ row' = [row EXCEPT ![s.op] = Retired(s.op, "cancelled")]
        /\ Restamp({s.op})
     \/ /\ s.action = "interrupt"
        /\ row[s.op].state = "running"
        /\ row' = [row EXCEPT ![s.op] = Retired(s.op, "interrupted")]
        /\ Restamp({s.op})
     \/ /\ row[s.op].state # (IF s.action = "interrupt" THEN "running" ELSE "queued")
        /\ UNCHANGED <<row, stale, aged>>
  /\ UNCHANGED <<position, local, active, todo, admitted, grants, alive>>

-----------------------------------------------------------------------------
Next ==
  \/ \E o \in Owners, q \in Ops :
       \/ Enqueue(o, q)
       \/ Reattach(o, q)
       \/ Promote(o, q)
       \/ Cancel(o, q)
       \/ TryCandidate(o, q)
       \/ \E s \in Ops : Supersede(o, s, q)
  \/ \E o \in Owners :
       \/ Pump(o)
       \/ Deliver(o)
       \/ \E g \in grants[o] : SettleThrows(o, g) \/ \E x \in {"completed", "failed"} : Settle(o, g, x)
       \/ Heartbeat(o)
       \/ Crash(o)
       \/ BeginSweep(o)
       \/ \E s \in sweep[o] : RecoverRow(o, s)
  \/ \E q \in Ops : MissHeartbeats(q) \/ Age(q)

Spec == Init /\ [][Next]_vars

-----------------------------------------------------------------------------
(* The fairness of the host.  Timers and completion callbacks run whenever *)
(* the stack of a live process is empty infinitely often (strong fairness  *)
(* of the event loop); a synchronous loop runs to its end (weak fairness); *)
(* commands end because they have a timeout; memory pressure passes.       *)

TryUnpressed(o, q) ==
  /\ o \in alive
  /\ q \in todo[o]
  /\ LET calm == [pressure |-> "normal", extra |-> 0]
     IN  Start(o, q, calm) \/ DropStale(o, q, calm)

Fairness ==
  /\ \A o \in Owners :
       /\ WF_vars(\E q \in Ops : TryCandidate(o, q))
       /\ WF_vars(Deliver(o))
       /\ WF_vars(\E s \in sweep[o] : RecoverRow(o, s))
       /\ SF_vars(Pump(o))
       /\ SF_vars(BeginSweep(o))
       /\ SF_vars(\E g \in grants[o] : Settle(o, g, "completed") \/ Settle(o, g, "failed"))
       /\ \A q \in Ops : SF_vars(TryUnpressed(o, q))
  /\ \A q \in Ops : WF_vars(row[q].owner \in Owners /\ row[q].owner \notin alive /\ MissHeartbeats(q))

FairSpec == Spec /\ Fairness

-----------------------------------------------------------------------------
(* Properties.                                                             *)

\* The type of every variable; the clocks are those of live rows only.
TypeOK ==
  /\ row \in [Ops -> [state : RowStates, owner : Owners \cup {NoOwner}, attempt : Nat]]
  /\ stale \subseteq {q \in Ops : Live(q)}
  /\ aged \subseteq Queued
  /\ local \in [Owners -> SUBSET Ops]
  /\ active \in [Owners -> SUBSET Ops]
  /\ todo \in [Owners -> SUBSET Ops]
  /\ admitted \in [Owners -> SUBSET Grant]
  /\ grants \in [Owners -> SUBSET Grant]
  /\ sweep \in [Owners -> SUBSET SweepAction]
  /\ alive \subseteq Owners

Held(o) == grants[o] \cup admitted[o]

\* Capacity is neither leaked nor handed out twice: a process holds exactly the
\* controller leases of its unsettled admissions, one admission per operation
\* (drain() releases the lease of a row it cannot start, settleOnce() releases
\* what it settles).
LeaseAccounted ==
  \A o \in Owners :
    /\ active[o] = {g.op : g \in Held(o)}
    /\ \A g, h \in Held(o) : g.op = h.op => g = h

\* A durable row never claims to be running in a live process without the
\* admission of exactly that attempt being held there.
RunningBacked ==
  \A q \in Ops : row[q].state = "running" =>
    /\ row[q].owner \in Owners
    /\ row[q].owner \in alive => [op |-> q, attempt |-> row[q].attempt] \in Held(row[q].owner)

\* One attempt of an operation is executed by at most one process, however the
\* row was orphaned, interrupted, adopted or claimed again in between.
OneExecutorPerAttempt ==
  \A o, p \in Owners : o # p => Held(o) \cap Held(p) = {}

\* The bounds hold in every state, although a supersede inherits a place
\* without asking for room.
QueueBounded ==
  /\ Cardinality(Queued) <= MaxQueued
  /\ \A q \in Ops :
       Cardinality({p \in Queued : Workspace(p) = Workspace(q)}) <= MaxQueuedPerWorkspace

\* The position column orders the queued rows: no two of them share a position.
DistinctPositions ==
  /\ position \in [Ops -> Int]
  /\ \A p, q \in Queued : position[p] = position[q] => p = q

\* The queue is a bounded line without ties.
LineBounded == QueueBounded /\ DistinctPositions

\* A verdict is recorded only by the executor of the attempt it is about: the
\* settle transaction is fenced by the owner alone, so a late settle of an
\* interrupted attempt must never close the attempt that replaced it.
SettleFenced ==
  [][\A q \in Ops :
       row[q].state = "running" /\ row'[q].state \in {"completed", "failed"} =>
         \E o \in Owners : [op |-> q, attempt |-> row[q].attempt] \in grants[o] \ grants'[o]]_vars

\* Ownership of a live row passes to another process only through recovery: it
\* is orphaned first (owner NULL), never taken over directly.
OwnerNotDisplaced ==
  [][\A q \in Ops :
       Live(q) /\ row[q].owner # NoOwner /\ row'[q].state \in {"queued", "running"} =>
         row'[q].owner \in {row[q].owner, NoOwner}]_vars

\* A row whose owner beats in time is never taken from it by recovery: it is not
\* orphaned, and neither its queued intent nor its running work is retired.
LiveOwnerKept ==
  [][\A q \in Ops, o \in Owners :
       row[q].owner = o /\ Live(q) /\ q \notin stale =>
         /\ row'[q].owner = o
         /\ row'[q].state # "interrupted"]_vars

\* Wake-on-release and the recovery timer leave no waiter behind: what a process
\* queued is eventually started, dropped or lost with the process.
WaiterServed ==
  \A o \in Owners, q \in Ops : q \in local[o] ~> q \notin local[o]

\* A dead owner cannot hold a running row for ever while another process lives.
DeadOwnerInterrupted ==
  \A q \in Ops :
    (row[q].state = "running" /\ row[q].owner \notin alive) ~>
      (row[q].state # "running" \/ \A o \in Owners : o \notin alive)
=============================================================================

--------------------------- MODULE HeavyJobFairness ---------------------------
(***************************************************************************)
(* The order in which one process tries its waiting heavy jobs             *)
(* (packages/workspace/src/heavy-job-fairness.ts) and the fairness history *)
(* it is computed from (lastServedAt in heavy-job-queue.ts).               *)
(*                                                                         *)
(* `line` holds the local waiters in the order of compareFifo (request     *)
(* time, then position).  A timestamp matters only by its order, so        *)
(* `served` ranks the workspaces by their last admission (0: never), and   *)
(* lastServedAt is `served` restricted to the keys it still has, `known`.  *)
(* The jobs are of one class and cost, so capacity is a number of slots.   *)
(***************************************************************************)
EXTENDS Integers, Sequences, FiniteSets, SequencesExt

CONSTANTS
  Candidates,  \* operation ids; a finished one may be submitted again
  WorkspaceOf, \* [Candidates -> workspace]
  Blocking,    \* the jobs whose request is blocking
  HeavySlots   \* heavy jobs that run at the same time

\* What the constants have to satisfy.
FairnessAssumption ==
  /\ IsFiniteSet(Candidates)
  /\ Blocking \subseteq Candidates
  /\ HeavySlots \in Nat \ {0}

VARIABLES
  line,     \* Seq(Candidates), the waiting jobs, oldest first
  agedJobs, \* waiting jobs past agingMs
  running,
  known,    \* workspaces with an entry in lastServedAt
  served,   \* history: rank of the last admission of each workspace
  backlog   \* history: workspaces with a waiting job ever since their last admission

orderVars == <<line, agedJobs, running, known, served, backlog>>

Workspaces == {WorkspaceOf[j] : j \in Candidates}
Waiting == ToSet(line)
Index(j) == CHOOSE i \in DOMAIN line : line[i] = j
WorkspacesOf(S) == {WorkspaceOf[j] : j \in S}
JobsOf(w, S) == {j \in S : WorkspaceOf[j] = w}

\* The members of S in an order: the i-th has i - 1 others before it.
InOrder(S, before(_, _)) ==
  [i \in 1..Cardinality(S) |-> CHOOSE x \in S : Cardinality({y \in S : before(y, x)}) = i - 1]

\* Waiting jobs, oldest first.
Fifo(S) == InOrder(S, LAMBDA j, k : Index(j) < Index(k))
Oldest(S) == CHOOSE j \in S : \A k \in S : Index(j) <= Index(k)

OrderInit ==
  /\ line = <<>>
  /\ agedJobs = {}
  /\ running = {}
  /\ known = {}
  /\ served = [w \in Workspaces |-> 0]
  /\ backlog = {}

-----------------------------------------------------------------------------
(* projectHeavyJobFairness                                                 *)

\* Mutant of LastServed: admissions are not recorded.
LastServedForgotten(keys, w) == 0

\* servedAt(): a workspace without an entry counts as never served.
LastServed(keys, w) == IF w \in keys THEN served[w] ELSE 0

\* The order of the batches: last service, then the age of the oldest job.
LeastRecentlyServed(keys, S, v, w) ==
  \/ LastServed(keys, v) < LastServed(keys, w)
  \/ /\ LastServed(keys, v) = LastServed(keys, w)
     /\ Index(Oldest(JobsOf(v, S))) < Index(Oldest(JobsOf(w, S)))

Batches(keys, S) ==
  LET group == [w \in WorkspacesOf(S) |-> Fifo(JobsOf(w, S))]
      order == InOrder(WorkspacesOf(S), LAMBDA v, w : LeastRecentlyServed(keys, S, v, w))
  IN  [i \in DOMAIN order |-> group[order[i]]]

\* Mutant of Shift: what is left of the batch keeps its place, so that it is
\* drained before the next one gets a turn.
ShiftInPlace(st) ==
  LET batch == Head(st.batches)
      rest  == Tail(st.batches)
  IN  [batches |-> IF Len(batch) = 1 THEN rest ELSE <<Tail(batch)>> \o rest,
       ordered |-> Append(st.ordered, Head(batch))]

\* One turn of the loop: the oldest job of the first batch is next; what is left
\* of the batch goes to the back.
Shift(st) ==
  LET batch == Head(st.batches)
      rest  == Tail(st.batches)
  IN  [batches |-> IF Len(batch) = 1 THEN rest ELSE Append(rest, Tail(batch)),
       ordered |-> Append(st.ordered, Head(batch))]

\* The loop ends when no batch is left: after a turn for every candidate.
TakeTurns(batches, n) ==
  LET turn[i \in 0..n] ==
        IF i = 0 THEN [batches |-> batches, ordered |-> <<>>]
                 ELSE CHOOSE next \in {Shift(st) : st \in {turn[i - 1]}} : TRUE
  IN  turn[n].ordered

RotateByWorkspace(keys, S) == TakeTurns(Batches(keys, S), Cardinality(S))

OrderHeavyJobs(keys) ==
  RotateByWorkspace(keys, Waiting \cap Blocking)
    \o Fifo(agedJobs \ Blocking)
    \o RotateByWorkspace(keys, Waiting \ (Blocking \cup agedJobs))

-----------------------------------------------------------------------------
(* drain() and its callers                                                 *)

\* History of a workspace with no local row is dropped before every ordering.
Pruned(keys) == keys \cap WorkspacesOf(Waiting)

\* Ranks after the workspaces W were served at one and the same moment.
Stamp(W) ==
  LET raw == [w \in Workspaces |-> IF w \in W THEN Cardinality(Workspaces) + 1 ELSE served[w]]
  IN  [w \in Workspaces |-> Cardinality({raw[v] : v \in {u \in Workspaces : raw[u] # 0 /\ raw[u] <= raw[w]}})]

\* The waiting jobs that get the slots which the jobs in `busy` leave free.
Admitted(busy) ==
  LET order == OrderHeavyJobs(Pruned(known))
      free  == HeavySlots - Cardinality(busy)
  IN  {order[i] : i \in {n \in DOMAIN order : n <= free}}

DrainInOrder(busy) ==
  \E new \in {Admitted(busy)} :
    /\ running' = busy \cup new
    /\ line' = Fifo(Waiting \ new)
    /\ agedJobs' = agedJobs \ new
    /\ known' = Pruned(known) \cup WorkspacesOf(new)
    /\ served' = Stamp(WorkspacesOf(new))
    /\ backlog' = (backlog \cup WorkspacesOf(new)) \cap WorkspacesOf(Waiting \ new)

Submit(j) ==
  /\ j \notin Waiting \cup running
  /\ line' = Append(line, j)
  /\ UNCHANGED <<agedJobs, running, known, served, backlog>>

\* pump(): a request or the recovery timer drains; also with nothing to admit.
PumpInOrder == DrainInOrder(running)

\* A job ends, its lease is released and the release wakes a drain.
FinishJob(j) ==
  /\ j \in running
  /\ DrainInOrder(running \ {j})

\* fairnessSnapshot() of a diagnostics request prunes the history too.
ReadSnapshot ==
  /\ known' = Pruned(known)
  /\ UNCHANGED <<line, agedJobs, running, served, backlog>>

CancelJob(j) ==
  /\ j \in Waiting
  /\ line' = Fifo(Waiting \ {j})
  /\ agedJobs' = agedJobs \ {j}
  /\ backlog' = backlog \cap WorkspacesOf(Waiting \ {j})
  /\ UNCHANGED <<running, known, served>>

\* Time passes: the oldest waiting job that is not yet past agingMs gets there.
AgeOldest ==
  /\ Waiting \ agedJobs # {}
  /\ agedJobs' = agedJobs \cup {Oldest(Waiting \ agedJobs)}
  /\ UNCHANGED <<line, running, known, served, backlog>>

OrderNext ==
  \/ \E j \in Candidates : Submit(j) \/ FinishJob(j) \/ CancelJob(j)
  \/ PumpInOrder
  \/ ReadSnapshot
  \/ AgeOldest

OrderSpec == OrderInit /\ [][OrderNext]_orderVars

\* Commands end (they have a timeout), the recovery timer pumps, time passes.
OrderFairSpec ==
  /\ OrderSpec
  /\ WF_orderVars(PumpInOrder)
  /\ WF_orderVars(AgeOldest)
  /\ \A j \in Candidates : WF_orderVars(FinishJob(j))

-----------------------------------------------------------------------------
\* The type of every variable.
OrderTypeOK ==
  /\ line \in Seq(Candidates) /\ IsInjective(line)
  /\ agedJobs \subseteq Waiting
  /\ running \subseteq Candidates \ Waiting
  /\ Cardinality(running) <= HeavySlots
  /\ known \subseteq Workspaces
  /\ served \in [Workspaces -> 0..Cardinality(Workspaces)]
  /\ backlog \subseteq WorkspacesOf(Waiting)

\* The turn a job has within its tier: how many older jobs its workspace has there.
Turn(tier, j) == Cardinality({k \in tier : WorkspaceOf[k] = WorkspaceOf[j] /\ Index(k) < Index(j)})

\* projectHeavyJobFairness, which shifts and pushes batches, computes the
\* declared order: every waiting job once, blocking before aged before the rest,
\* aged jobs oldest first, and inside a rotated tier a lower turn first and on
\* equal turns the workspace served longest ago.
OrderIsFair ==
  LET order   == OrderHeavyJobs(known)
      rest    == Waiting \ (Blocking \cup agedJobs)
      rank(j) == CHOOSE i \in DOMAIN order : order[i] = j
      tier(j) == IF j \in Blocking THEN 1 ELSE IF j \in agedJobs THEN 2 ELSE 3
  IN  /\ ToSet(order) = Waiting /\ Len(order) = Len(line)
      /\ \A j, k \in Waiting : tier(j) < tier(k) => rank(j) < rank(k)
      /\ \A j, k \in agedJobs \ Blocking : Index(j) < Index(k) => rank(j) < rank(k)
      /\ \A t \in {Waiting \cap Blocking, rest} : \A j, k \in t :
           \/ Turn(t, j) < Turn(t, k)
           \/ /\ Turn(t, j) = Turn(t, k)
              /\ LastServed(known, WorkspaceOf[j]) < LastServed(known, WorkspaceOf[k])
           => rank(j) < rank(k)

Serves(w) == \E j \in running' \ running : WorkspaceOf[j] = w
WaitsBlocking(w) == \E j \in Waiting \cap Blocking : WorkspaceOf[j] = w

\* Pruning never costs a workspace with a standing backlog its turn: if v has had
\* a job waiting ever since it was last served, a workspace w served before v is
\* not passed over for v.
BacklogTakesTurns ==
  [][\A v \in backlog, w \in Workspaces :
       /\ WaitsBlocking(v) /\ WaitsBlocking(w)
       /\ served[w] < served[v]
       /\ Serves(v)
       => Serves(w)]_orderVars

\* No workspace holds the heavy slots for ever: every job that waits is served or
\* cancelled, however others are submitted.
EveryJobServed == \A j \in Candidates : j \in Waiting ~> j \notin Waiting
=============================================================================

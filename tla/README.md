# Unified MPC Server: verification project

TLA+ models of the stateful core of the server, TLC configurations that check
them on small instances, and TLAPS proofs of the results that matter most.
`PROJECT.json` lists the components, the runs, which source lines each
definition stands for, the hazards, the findings and the theorems.

    tlc -config Queue.cfg MCQueue                    # one run
    tlapm GoalEngineProofs.tla                       # the proofs of a module

## 1. The system

The server is a TypeScript monorepo. One or more server processes of a host
(stdio MCP servers, a web host, a gateway) share SQLite databases and a
directory of canonical artifacts. Each process is a single JavaScript thread;
everything concurrent happens between processes, or in one process between two
callbacks (timers, child-process exits, awaited promises). Paths below are
relative to `src/packages/` or `src/apps/`.

### Inventory

| Part | State it keeps | Operations | Hard behaviour | What makes it correct |
| --- | --- | --- | --- | --- |
| Heavy-job queue (`workspace/heavy-job-queue.ts`, `storage/heavy-job-queue-repository.ts`, `cli/runtime/shell-heavy-admission.ts`) | `heavy_jobs` table; per process a local waiter list and unsettled admissions | enqueue, reattach, promote, cancel, supersede, drain, settle, heartbeat | several processes on one table, crash with rows left behind, re-entrant drains | one executor per attempt, verdicts fenced, bounded, a fair line |
| Restart recovery (`application/heavy-job-queue-recovery-service.ts`) | none: reads a snapshot, writes row by row | reconcileOnce | decides on stale reads | dead owners are interrupted, live ones are kept |
| Resource admission (`workspace/resource-admission.ts`, `heavy-headroom.ts`) | live leases of the process | tryAcquire, restore, release | several ceilings, host pressure, synchronous release listeners | no lease leaked or given twice |
| Fairness (`workspace/heavy-job-fairness.ts`) | lastServedAt per workspace | order, prune | aging, rotation, history that is forgotten | no workspace starves |
| Pre-edit demand (`mcp-server/pre-edit-demand.ts`) | job records, waiters, subscription | submit, waitFor, drain, finish | generations superseding each other, wakes | one queued generation, no wake lost, no caller waits in vain |
| Heavy shell tasks (`capabilities/shell-backend.ts`, `durable-shell-task-store.ts`) | task.json, pid files, reservations, watches, leases | run, grant, start, read, cancel, watch, restart recovery; the worker script's own steps | task.json overwritten whole by four writers without a lock; restart in every window | an ended task is never launched, a slot is held as long as its command runs and then comes back |
| Goal engine (`storage/goal-repository.ts`, `application/goal-continuation-service.ts`, `goal-mutation-fence-service.ts`, `domain/goal-runtime-liveness.ts`) | goals with lease columns, goal_executions, fenced calls | run (acquire or take over), checkpoint, begin/beat/end a fenced call, finish, cancel, reconcile | expiry, takeover on evidence collected earlier, three-transaction finish | a live worker keeps its lease, a closed goal stays closed |
| Scheduled continuations (same files, `application/scheduled-continuation-service.ts`) | continuation rows and their runs | prepare, refresh, receipt, claim, cancel | late and repeated receipts, wakes racing workers | at most one worker per generation |
| Goal runtime reconciliation, control plane, event log (`application/goal-runtime-*.ts`, `storage/goal-runtime-*-repository.ts`) | events, snapshots | append, project, reconcile | snapshot behind the log | snapshot equals projection |
| Goal workspaces: transfer, relocation, retention (`application/goal-workspace-*.ts`) | transfer rows, directories | stages of a transfer | crash between stages | no workspace lost or duplicated |
| Canonical artifacts and garbage collection (`workspace/canonical-*.ts`, `gc-*.ts`, `revision-prune.ts`, `artifact-quarantine.ts`) | refs with lock files, manifests, pins, overlays, blobs, quarantine ledger, GC lease | promote, advance, pin, prune, quarantine, expire, repair, maintain | stale locks reclaimed, a pass that outlives its lease, roots that move under a pass | promotions chain, one pass at a time, nothing a root names is deleted |
| Merge verification (`storage/merge-*-repository.ts`, `cli/runtime/merge-verification-runner.ts`, `application/guarded-merge-service.ts`) | attempts, receipts | observe, enqueue, begin, claim, gate, append, reap, merge | several runners, pushes and checkouts under a gate | one run per head, what is merged was verified |
| Merge reconciliation (`cli/runtime/github-merge-reconciliation-poller.ts`, `application/merge-reconciliation-service.ts`) | poll cursor, records | poll, record, advance the canonical ref, merge_reconcile | paged feed that moves, evidence that changes, failure in every step | no merge is skipped, every merge is recorded |
| Thai RAG (`thai-rag/`) | index jobs, provider leases | enqueue, run, restart | provider restarts | a job is not lost |
| Extensions (`extensions/`) | registry, cutover state | install, prune, migrate | crash in the middle of a cutover | state machine only moves forward |
| Gateway, web server, MCP transport, approvals | sessions | open, call, close | limits, late answers | sessions isolated |
| Process manager (`process/process-manager.ts`) | child processes | start, kill, timeout | exit racing kill | each process reported once |
| Storage foundation, git, filesystem, search, permissions, audit, contracts | files | I/O or pure functions | - | - |

The modelled parts (section 2) are the ones that carry the coordination between
processes: the heavy-job queue and its two users (the pre-edit runtime and the
durable shell tasks), the goal engine with its watchdog, the canonical store
with its refs and collectors, and the verification and reconciliation of merges.
`PROJECT.json` "components" names every part, with what is left out and why;
"hazards" lists what is hard to test in the modelled code, at the line where it
bites.

### How the modelled parts interact

    tool call --> ShellHeavyAdmission / PreEditDemandRuntime     (per process)
                     | enqueue, drain, settle      ^ wake
                     v                             |
                  HeavyJobWaiterQueue --tryAcquire--> ResourceAdmissionController
                     | claim, start, settle, ...       release -> listeners -> drain
                     v
                  heavy_jobs (SQLite) <-- reconcileOnce() of every process

    run_goal, checkpoint, finish_goal, cancel, reconcile --> GoalContinuationService
    fenced tool call --> GoalMutationFenceService (begin, timer beats, end)
    native wake --> ScheduledContinuationService
                     all --> goal-repository (SQLite), one transaction per method

    shell tool --> shell-backend --> ShellHeavyAdmission          (queue, above)
                     |  task.json  <-- worker (detached) <-- command
                     +-- watch, read, cancel, recoverParkedHeavy()

    pin, prune, GC, expire, repair, maintain --gc/lease.json--> canonical store
    attach, advance (no lease) ------ lock file, ref ---------> canonical store
                     ^ advance after a merge
    poll timer --> GitHub merge poller --> reconciliation records, cursor
    merge_verification_run --> attempts, receipts --> guarded merge --> GitHub

## 2. The modules

| Module | Models | Used by |
| --- | --- | --- |
| `AdmissionDecision` | `tryAcquire()`: every ceiling, in the code's order, and the probes of memory and CPU | `HeavyJobQueue` |
| `HeavyJobQueue` | the durable queue of any number of processes, with recovery, crashes and throwing transactions | `HeavyJobQueueRefinement`, `HeavyJobQueueProofs` |
| `HeavyJobLine` | abstract: a waiting line (join, jump, hand over, leave, run, end) | refined by `HeavyJobQueue` |
| `HeavyJobQueueRefinement` | the refinement mapping (`line` = queued rows by position) | `MCHeavyJobQueue`, `MCQueue` |
| `HeavyJobDrain` | the call stack of nested drains in one process | `MCHeavyJobDrain`, `MCQueue` |
| `HeavyJobFairness` | the order of the candidates and the served-history | `MCHeavyJobFairness`, `MCQueue` |
| `PreEditDemand` | one user of the queue: pre-edit requirements | `MCBackground`, `MCQueue` |
| `ShellTask` | the other user: one durable shell task, its worker and its command | `ShellTask.cfg`, `ShellTaskProofs` |
| `GoalLease` | one goal: row, lease, receipts, fenced calls, finish, cancel, reconcile | `RecurringWatchdog` |
| `RecurringWatchdog` | its scheduled continuation: prepare, receipts, wake and claim | `GoalEngine` |
| `GoalEngine` | the composition: Init, Next, the properties | `MCGoalEngine`, `MCClaims`, `GoalEngineProofs` |
| `CanonicalRefs` | the compare-and-swap of one ref behind a lock file | `MCCanonicalStore`, `MCBackground` |
| `CanonicalRegister` | abstract: one atomic register with compare-and-swap (ask, swap, keep, refuse, throw, die) | refined by `CanonicalRefs` |
| `GcLease` | the lease file of the destructive passes and its heartbeat | `CanonicalGc` |
| `CanonicalGc` | the passes over manifests, pins, overlays and blobs, and the writers that take no lease | `MCCanonicalStore`, `MCCanonicalGc` |
| `MergeVerification` | attempts, gates, receipts and the guarded merge of one pull request | `MCClaims` |
| `MergeReconciliation` | the poll of one repository: cursor, records, canonical advance | `MCBackground`, `MCMergeReconciliation` |
| `HeavyJobQueueProofs`, `HeavyJobDrainProofs`, `PreEditDemandProofs`, `ShellTaskProofs`, `HeavyJobFairnessProofs`, `GoalEngineProofs`, `CanonicalProofs`, `MergeProofs` | theorems about the module each is named after (`CanonicalProofs`: refs and collectors; `MergeProofs`: verification and reconciliation) | section 5 |

`MCQueue`, `MCClaims`, `MCCanonicalStore` and `MCBackground` extend several components
and check them side by side. Their variable `part` is chosen in the initial state
and says which one a behaviour is about; the others stay as they were, so the state
space is the sum of the parts and not their product. Two parts of `MCQueue` share
the one `HeavyJobQueue`: "fencing" explores one operation (`OnlyOne`), "line" one
process after the other has died (`OneProcess`). The parts of such a run do not
interact; where components do interact they are one module (`HeavyJobQueue` with
recovery and admission, `GoalEngine`, `CanonicalGc` with its writers).

**Conventions.** A repository method is one SQLite transaction (BEGIN
IMMEDIATE), hence one action. A synchronous loop that makes several store calls
(`drain()`, `reconcileOnce()`) is several actions between which other processes
act but the process itself does not (`Idle`). A service method that awaits
between transactions is several actions; `pend[s]` holds what session `s` read
in one and uses in the next. A request that carries a stale revision, token or
version is refused without a change, so such an action is enabled for the value
that matches. Names, payloads, plans, evidence and wording are abstracted away.

**HeavyJobQueue.** `row`, `position`: the columns of heavy_jobs that decide
anything. `stale`: rows whose heartbeat is behind the liveness cutoff; `aged`:
rows behind the retention window; `MissHeartbeats` and `Age` let time pass.
`local`, `todo`, `admitted`: the waiter list, and the candidates and admissions
of the drain that is running; `active`: the controller's leases; `grants`:
admissions an executor holds; `sweep`: what `reconcileOnce()` has decided and
not written yet. `Restamp` is what a re-claim does to both clocks.
`StartThrows` and `SettleThrows` are SQLite errors between two effects.

**HeavyJobDrain.** `controller.release()` calls its listeners synchronously. The
shell port's listener drains at once, inside the drain that releases; the
pre-edit runtime folds it into one more pass. `stack` holds the frames, each
with the stale candidate list it still walks; `Overflow` is the RangeError of an
exhausted stack, whose depth `StackLimit` bounds.

**HeavyJobFairness.** `RotateByWorkspace` groups, sorts (`InOrder`) and shifts jobs
out of batches as the code does; `Shift` is one turn of its loop and `TakeTurns`
the loop. `OrderIsFair` is the declarative order it is compared with in every
reachable state. Time stamps matter by their order only: `served` ranks
workspaces, `known` is what pruning has left of lastServedAt.

**GoalLease, RecurringWatchdog.** `goal` is the goals row: `gen` is
lease_generation, `seq` lease_activity_seq, `held`/`dur`/`hb`/`exp` the lease
columns, `tracked` whether a blocking task is tracked. A fresh token is minted
by each acquisition, so a token is named by its generation (`tok`). `execs` is
goal_executions, `calls` goal_fenced_mutation_calls, `job` the tracked task
(external: the task reader only ever reports its state). `dog` is the latest
continuation row, `runs` its recorded occurrences. `Crash(s)` loses a session's
tokens and stops its timers. The clock is one variable: all processes read the
host's clock, assumed not to go back.

**PreEditDemand.** One runtime beside the other users of its process's controller.
`release()` calls every listener in the order of subscription, and the shell
port's listener on the same controller is permanent: `taken` (in a drain),
`OtherReleases` and `FinishDemand` let another listener have any freed slot before
this runtime. `DemandMayFail` names the store calls that may throw. A
`store.start()` that throws (`DrainThrows`) leaves `drain()` and with it
`executePending()` before `syncWakeSubscription()`: the lease of its row is never
released (`demandLeaked`), what the pass had started runs in the store and nowhere
else, and the subscription stays what it was. `missed` is the ghost of that: it is
set by such a drain and cleared by the next one that ends. In `HeavyJobDrain`, where
the frames of nested drains are the subject and no store call throws, the guarded
port is taken as subscribed throughout.

**ShellTask.** task.json is the state of a task, and the launcher, every reader,
a cancel and the worker overwrite it whole from what each read before; the
variables of each (`lmeta`, `mem`, `copy`) hold that. Every read, probe, signal
and write is a step, and every read and write of a file may fail: the reservation,
the launcher's read and its writes, the pid file of a worker that was spawned, the
worker's own persist of the command's pid, a reader's second read, the watch's read
(which gives up the slot after `ReadLimit` failures) and the verdict's write. The
settle of a row may throw, which leaks the slot (`lease = "leaked"`).
`recoverParkedHeavy()` skips a task whose cwd it does not accept; `CwdMoves` changes
`allowed` while the task is parked. Three windows are the code's and are stated as
exceptions by ghosts: `early`, a reader or a cancel between its read and its write
while the launcher starts the worker; `blind`, a worker stopped or dead while the
command's pid is not yet in the task.json that was read, so nobody can name the
command; `untold`, a failed read or write that hid the command from the runtime.

**CanonicalRefs.** POSIX has no compare-and-delete, so a lock is removed by
renaming it aside, looking at it, and linking it back when it was another's.
`staleLock` is the wall-clock age of the file: the lock of a promoter that ended
ages (`LockAges`), and so does that of a live one whose touches fail silently or
that is suspended (`LockLapses`, for the promoters in `MayStall`), until it `Beat`s
again. `replaced` records the promoters that could still write when another one
locked: either the holder was reclaimed after it had read its lock back
(canonical-ref-store.ts:307) and before the rename (:311), or its lock was moved
aside by mistake and is on its way back. `RegisterImplemented` maps this onto
`CanonicalRegister`: a call that has not written is pending, the rename is where a
promotion takes effect and the decision under the lock where any other answer does;
a non-empty `replaced` is the register's lost exclusion.

**GcLease, CanonicalGc.** The lease is a file that is read and then written;
`clobbered` says that a record was written over one its writer had not read, a
window canonical-revision-pin.ts documents. A pass asserts its lease before each destructive
step and then acts; `late` says that the lease ran out between the two. `steady`
is the set of roots held, in the same place, since the pass was granted; a pass
reads the root stores one after the other and may miss one that moves.

**MergeVerification.** Only the open attempt row of a head matters to later calls.
`late`: the runners whose row was taken for stale while they ran; `misread`: a
gate read the content of another head and the workspace was not back since. A
receipt carries `sound`, whether its gates read the head it names.

**MergeReconciliation.** The feed is paged by one pull request per page, latest
update first, so that it moves under a pass. Evidence is what a record is
compared by: whether there was a receipt, and the version of the policy.
`shifted`: a reopened pull request pulled a page up under a pass that had read
the page before. A feed that is longer than `MaxPages` ends its pass without a
change (`feed_truncated`); `FeedTruncated` says that as many pull requests were
updated since the watermark.

## 3. The runs

| Run | Question | Bounds |
| --- | --- | --- |
| `queue` | Can an attempt run twice, a verdict close another attempt, a live row change hands? Is the position column a bounded waiting line? Does the batch algorithm compute the declared order? Is a row admitted by one drain, however drains nest? Do waiters, generations and wakes of the pre-edit runtime survive? | 1 operation, 2 processes, 3 attempts, throwing transactions; 3 operations in 2 workspaces with room for 2 (1 per workspace), 1 attempt each, one process (the other dies first, nothing throws), promotion down to -2; 5 jobs, 3 workspaces, 2 slots; 3 jobs, 2 slots, 3 frames, both ports; 3 generations of a target (symmetric), 2 slots, throwing store calls |
| `queue_recovery` | Is a waiter served and a dead owner interrupted in the end, with capacity accounted and running rows backed? | 1 operation, 2 processes, 2 attempts, and an older generation that is gone (for `Supersede`), `FairSpec` |
| `queue_live_owner` | *(violated)* Is a live foreign owner never displaced? | 1 operation, 2 processes, 1 attempt |
| `fair_starvation` | *(violated)* Is every job served? | 4 blocking jobs, 2 workspaces, 1 slot, `OrderFairSpec` |
| `drain_dropped` | *(violated)* Is a dropped row reported once and its lease back? | 3 jobs (symmetric), 2 slots, 3 frames, shell port |
| `background` | Is a started pre-edit row executed, and does no tracked job wait beside a free slot? Is no merge skipped and every merge recorded, and does a dead or silent promoter's lock get freed? | 3 operations (two generations of a target), 2 slots shared with others, nothing throws; 1 poller, 3 pull requests on 3 pages, so that the feed may be truncated, 3 outside events, 1 failure, clock to 1; 3 promoters, one may die and one may fall silent; fairness of poller and promoters |
| `claims` | Can a live worker lose its lease, an abandoned-looking goal be closed wrongly, a closed goal change? Is a head verified by one runner at a time, and was what is merged verified? | goal: 2 sessions, 1 call, 1 clock tick, 2 generations, activity and revision up to 2; verification: 2 runners in 2 processes, one may die, 2 heads, 2 bases, 2 outside moves, 1 receipt |
| `goal_stale_finish` | *(violated)* Does a finish that lost its lease leave the other worker's watchdog alone? | 2 sessions; finisher and rival |
| `canonical_store` | Are two passes ever at work together, does a pinned or steadily held revision lose its manifest or a blob, is `promote()` one atomic compare-and-swap? | 2 passes (prune and pin, maintenance and expiry, repair and pin), one may die, lease of 2, clock to 2, 3 manifests, 3 blobs, 1 advance, 1 overlay; 3 promoters, one may die and one may fall silent |
| `canonical_prune` | *(violated)* Does the ref always name a stored manifest? | 1 prune, 1 advance, 3 manifests |
| `shell_task` | Is a task that ended launched, or one launched twice? Is a slot given back under a running command? Do parked tasks end and slots come back? | 1 task with 1 event (crash, death, status read, failed stop or probe, failed second read or last write); failures of the launcher, of the settle and of the watch's reads are not counted; 2 failed reads give up the slot (3 in the code), `TaskFairSpec` |
| `merge_cursor` | *(violated)* Is every merge recorded whatever happened to the policy and the receipts? | 1 poller, 2 pull requests, 5 outside events, `ReconFairSpec` |

The largest are `claims` and `canonical_store` (1.5 and 1.4 million distinct
states), `shell_task` (0.5 million), `queue` (0.4 million) and `background`
(0.3 million).

**Why the bounds are enough.** The queue's processes interact only through a
row, so one operation and two processes, with a third attempt after an
interrupted and a re-claimed one, contain every pairwise race; positions need
three rows. With nested drains a third frame shows an outer frame meeting rows
that a frame two levels deeper changed. In the goal part of `claims` one session is the
worker and the other does everything else (`Kinds`): a takeover needs two
generations, an observation that goes stale needs an activity sequence that
moves after it, a lease of length 1 expires and one of length 2 does not at the
tick the clock makes; the stale-heartbeat grace is 1. `Troubles` lists the
receipts about trouble that are explored. What `Kinds` leaves out of the run
(a takeover in the middle of another session's finish or reconcile) is covered
by the proofs, which have no bounds.

Two runners and two heads contain every race for an attempt row and a head that
is pushed away and back; two outside moves put the workspace on another head and
back under a gate. Two passes are all that can meet at one lease file, and one
advance, one overlay and one pin move every kind of root; a lease of 2 on a clock
to 2 can be renewed, run out, and be taken by the other pass. A promoter may lock
in the gap of a silent one, and two waiters may meet at a dead one's lock; losing a
lock that was moved aside by mistake takes four promoters and is left to the proofs. One event of a shell task is
enough for any single fault of the processes at any step, and the fibers of the task
(launcher, worker, watch, reader, cancel) interleave freely around it; a limit of two
failed reads has a failure that is survived and one that is not, as the code's three.
Three pull requests in two seconds share a watermark or not; of three pages, two
updates are a complete feed and three a truncated one; and one failure strikes at
every step.

**Deadlock** is not checked where a bound on attempts, generations, events or time
ends every behaviour, or where work simply ends (a task that is done);
`fair_starvation`, whose jobs return for ever, checks it.

**Fairness**, used for the liveness properties only. A live process's timers and
completion callbacks run again and again (strong fairness of `Pump`,
`BeginSweep`, `Settle`: they need an empty stack, which the event loop reaches
infinitely often); a synchronous loop runs to its end (weak fairness). The
recovery timer of `cli/runtime/stdio-mcp-runtime.ts` (setInterval around
`reconcileOnce()` and `recoverParkedHeavy()`) is what makes `BeginSweep` and
`Pump` recur; commands have a timeout, so executors settle; memory pressure
passes (`TryUnpressed`). A crashed process stops beating. Nothing is assumed of
clients, of `Crash`, or of a fair choice between competing processes.
`TaskFairness` (weak, one condition for each of launcher, worker with its command,
watch, status read, cancel and recovery): the event loop runs what is ready,
commands end, the queue grants a waiting row and its recovery sweeps again; nobody
has to submit, cancel or read, no file has to be readable, and no directory has to
come back. No fairness is assumed of the pre-edit runtime: which listener gets a
freed slot, and which waiting job a drain takes, is nobody's promise (finding 2), so
what is checked of it is safety (`WakeArmed`, `WorkConserved`). `RefFairness`
(weak): promoters' sleeps and file operations end, and the lock of a dead holder
ages; nobody has to give up or to beat. The poll timer makes
`PollStep` recur.

**Mutants.** For every property of a passing run a plausible mistake in a mapped
definition (its mutant, named `...AnyOwner`, `...OffByOne`, `Stale...` and so on,
directly above it) makes TLC find the property violated.

## 4. Findings

Each is a run whose property TLC refutes; `PROJECT.json` quotes the line it contradicts.

1. `queue_live_owner`: `recover()` writes on the strength of a snapshot and
   compares neither owner nor heartbeat, so a row whose owner has beaten or
   re-claimed it since is orphaned or interrupted.
2. `fair_starvation`: the served-history of a workspace without waiting rows is
   pruned on every drain and every diagnostics read; a workspace whose only job
   is running counts as never served when it submits the next one and starves
   another workspace.
3. `drain_dropped`: the shell port's synchronous wake re-enters a drain that has
   released a lease but not yet forgotten the row, until the stack is exhausted;
   the row is reported once per frame. The pre-edit runtime guards against it.
4. `goal_stale_finish`: the middle transaction of `finishGoal()` marks the goal's
   watchdog without checking the lease, so a finish that lost its lease after
   validation retires the watchdog of the worker that took over.
5. `canonical_prune`: an advance takes no GC lease; a prune that read the refs
   before the advance moved its ref and listed the manifests after the new one
   was put deletes it, and the ref then names a manifest that is gone.
6. `merge_cursor`: a record is compared with the whole evidence of a
   re-observation; after an edit of the policy, or a receipt that came late, a
   comment on a recorded pull request makes it conflict with itself, ends every
   pass and keeps every later merge from being recorded.

Observed while modelling, and not refuted by a run (no document of the repository
promises otherwise). Those that a property meets are its stated exceptions.

- Pre-edit runtime: it builds its queue without `onRetired`, so a row retired
  elsewhere is reported as queued until the next drain (pre-edit-demand.ts:144), and
  the job record of a row that was dropped stays, with its waiters, until they time
  out. When a `promote()` throws, the row stays in the local list without a record; a
  later pass may give it the only slot, leave it running in the store and return the
  slot before the runtime has subscribed. When a `start()` throws
  (heavy-job-queue.ts:506), its lease leaks, the rows that pass had started run in the
  store and nowhere else, and the subscription is not brought up to date, so that a
  tracked job may wait unheard until the next drain: `missed` in `WakeArmed`.
- Shell tasks: a cancel that stops a worker before the command's pid was written
  records the task as cancelled while the command runs on, and its slot is given back
  (`blind`); so is that of a command whose start, pid or task.json could not be written
  or read (`untold`: durable-shell-task-store.ts:269 and :1102, shell-backend.ts:937);
  a reader or a cancel that overlaps the start writes over it (`early`). A settle that
  throws (shell-heavy-admission.ts:225) loses the slot: `leaked` in `SlotReturns` and
  `ParkedEnds`. A task that became termination_unverified, and whose worker is gone,
  keeps its slot until the runtime stops: neither a read nor a cancel ends it. A parked
  task whose directory the runtime does not accept is skipped at every sweep and stays
  parked (shell-backend.ts:761): `allowed` in `ParkedEnds`.
- Goals: a process that dies between marking the watchdog and `finish()` leaves an
  active goal that nothing wakes. A late create receipt is accepted from any status and
  revives the continuation of a closed goal, so that its native task can be cancelled.
  The length of a fenced call's lease may be configured up to 300 s although goal leases
  may be 30 s; nothing configures it, and with the default 30 the two bounds just meet.
  A worker that checkpoints with `releaseLease` while one of its fenced calls is open
  lets the next worker in beside it.
- Canonical store and merges: the windows behind the ghosts `replaced` (a promoter whose
  lock lapsed between canonical-ref-store.ts:307 and the rename at :311, or whose lock is
  on its way back, overwrites a state it did not expect), `clobbered`, `late` and
  `shifted` are real; canonical-revision-pin.ts documents the one of `clobbered`. While
  more pull requests were updated since the watermark than the feed reads, every pass
  ends with `feed_truncated` and records nothing: `FeedTruncated` in `MergesRecorded`.

## 5. The proofs

Every theorem holds for all values of the constants: any number of processes,
operations, runners, promoters, passes, pull requests, any ceilings, lease
lengths and bounds. What the constants must satisfy is named beside them
(`QueueAssumption`, `DrainAssumption`, `FairnessAssumption`, `DemandAssumption`, `TaskAssumption`,
`GoalAssumption`, `RefAssumption`, `LeaseAssumption`, `StoreAssumption`,
`VerifyAssumption`, `ReconAssumption`) and TLC evaluates it on the instances of
the runs. These assumptions say that the null values are not real ones, that
counts are natural numbers, and that a runner always finds a new attempt id (the
code's are UUIDs); the jobs whose order is computed are finitely many. Two theorems of the queue and two of the pre-edit runtime
also ask that no store call throws between two effects; each says so.

| Theorem | States | Hypothesis besides the constants |
| --- | --- | --- |
| `TypeCorrect`, `ExclusiveExecution`, `VerdictsFenced`, `OwnersKeepTheirRows`, `LineKept`, `LineIsImplemented` (queue) | `TypeOK`, `OneExecutorPerAttempt`, `SettleFenced`, `OwnerNotDisplaced`, `LineBounded`, `LineImplemented` | none: crashes and throwing transactions included |
| `LeasesAccounted`, `RunningRowsBacked` (queue) | `LeaseAccounted`, `RunningBacked` | `StoreMayFail = FALSE`: a transaction that throws between a lease and its row leaks the lease |
| `DrainsNestSafely`, `WakesAreNotLost` (drain) | `NestedDrainsSafe`, `NoWakeLost` | none |
| `OrderTypeCorrect`, `OrderIsAlwaysFair`, `TurnsAreTaken` (fairness) | types, `OrderIsFair`, `BacklogTakesTurns` | none |
| `DemandIsTracked`, `WaitersAreWoken` (pre-edit) | `DemandTracked`, `WakeArmed` | none: any store call may throw |
| `RunningIsExecuted`, `WorkIsConserved` (pre-edit) | `RunningExecuted`, `WorkConserved` | `DemandMayFail = {}` (section 4, the observations on `promote()` and `start()`) |
| `TaskTypeCorrect`, `SlotsCoverCommands`, `EndedTasksStayDown` (shell) | `TaskTypeOK`, `SlotCoversCommand`, `EndedNeverLaunched` | none |
| `TypeCorrect`, `ReceiptsTracked`, `CancelStops`, `CallsStayInside`, `ClosedStaysClosed`, `LiveWorkerKeepsLease`, `ReconciledWasAbandoned` (goal) | `TypeOK`, `ReceiptsTrackLease`, `CancelStopsWorker`, `CallsInsideLease`, `ClosedForGood`, `LiveWorkerKept`, `OnlyAbandonedReconciled` | none |
| `RefsMutex`, `PromotionsAreChained`, `PromotionsAreAtomic` (refs) | types and `OneWriter`, `PromotionsChain`, `RegisterImplemented` | none: any promoter may die or fall silent at any step |
| `PassesExclude`, `StoreTypeCorrect`, `PinsAreKept`, `SteadyRootsAreKept` (collector) | `ExclusivePass`, `TypeOK`, `PinnedKept`, `SteadyRootsKept` | none |
| `HeadsVerifiedOnce`, `MergesAreVerified`, `MergesAreNotSkipped` (merge) | `OneRunPerHead`, `MergedWasVerified`, `NoMergeSkipped` with the types | none |

None of the properties is inductive alone. What each proof adds, and why:

**HeavyJobQueueProofs.** `IndInv`: an unsettled admission has its lease
(`HeldLeased`); it is of the row's present attempt or an earlier one, and of the
present one only once the row has left the queue (`HeldIsPast`), which makes the
next start a new (operation, attempt) pair for every process; and if the row runs
for this process, the admission is of the attempt that runs (`RunsAsHeld`), which
is why a verdict fenced by the owner alone closes the right attempt. None of this
needs the store to answer; `Exact` (leases and running rows accounted for exactly)
does. The waiting line has an invariant of its own, `LineInd`: finitely many rows
were ever written, both bounds hold and no two queued rows share a position.
Finiteness is what makes `MAX(position) + 1` and `MIN(position) - 1` exist; it is
used through the minimum of a well-founded order on a finite set, since induction
over data is not available. `LineIsImplemented` is a step simulation: the queued
rows form exactly one list sorted by position (`LineImplemented`'s mapping), and
every step of the queue, action by action, joins, jumps, hands over, leaves, runs
or ends in it as `HeavyJobLine` says, or leaves it alone.

**HeavyJobDrainProofs.** The call stack is a sequence of frames of any depth.
`DrainInd` keeps the capacity and that one frame admits a job (`AdmittedByOneDrain`);
for the guarded runtime also that the leases are those of the jobs admitted or
granted (`LeasesAdmitted`), that a dropped row is on no list a frame still walks
(`DroppedIsOut`), and that a queued job a frame no longer has ahead of it was
refused for want of a slot that is still wanting (`PassedOver`); the last one is
`NoWakeLost` at the step that empties the stack.

**HeavyJobFairnessProofs.** What the loop of `rotateByWorkspace` computes, for any
number of jobs and workspaces. After each turn the batches that are left split what
is not ordered yet by workspace, oldest first, behind what is ordered of it
(`Split`). Their heads are in the order in which they are to be served, at most one
turn apart, and a head that is a turn ahead of another was served no later
(`InTurn`): so pushing the rest of the first batch to the back keeps them in order,
because the turn of its new head is one more. A batch is left as long as a candidate
is, so there are as many turns as candidates, and an ordered list without
repetitions of that length holds all of them (`Rotation`). That the recursive
function exists (`TurnsDefined`) and that every turn keeps the invariant
(`EveryTurn`) is induction on a number, done through a minimal counterexample.
`LineOrdered` puts the tiers together; `OrderIsFair` then holds in every state with a
line and a history. For `BacklogTakesTurns` the invariant is that a workspace whose
backlog stands has an entry in lastServedAt (`OrderInd`): a drain adds the entry, and
pruning takes only those of workspaces with nothing waiting. The oldest blocking job
of a workspace served earlier therefore precedes every job of a standing backlog, and
a drain that admits the one has admitted the other.

**PreEditDemandProofs.** `DemandInd`: a requirement that is being promoted is the
only one of its target that is not running (`NextGeneration`); as long as something
tracked does not run, the runtime is subscribed, about to drain, or its last drain
threw (`Armed`); what waits is tracked or about to be (`WaitersKnown`, unless
`promote()` may throw); the leases are those of the executors (`LeasesExecute`). For
`WorkConserved`, outside a drain only the requirement being promoted may wait beside
a free slot (`OnlyNextWaits`), and a drain that runs unsubscribed has a single
requirement to start (`OneUnheard`), so no slot it gives back is missed.

**ShellTaskProofs.** Four writers overwrite task.json from what they read before,
so the invariant says what each of them knows. `Invariants` order the launcher,
the row, the lease and the worker (`LaunchOrder`, `Stages`), say where pids come from
(`PidsKnown`), that a start is alone (`StartAlone`), how far a reader that holds a
copy can be (`ReadersPast`) and what nobody can have read before a worker was
spawned (`Unstarted`); the last three are what `EndedNeverLaunched` rests on: until a
worker is spawned a reader has nothing to write, so an end in task.json is overwritten
only by one who overlapped the start. `Knowledge` says that while
the slot is watched, what ends the task in task.json, in the worker's copy or in a
reader's hands is true (`TellsTheTruth`, `ReadersKnow`): a task.json that says
"running" without the command's pid means that the worker is about to write it,
because a reader that writes an older copy back never writes "running".

**GoalEngineProofs** (any sessions, calls, lease lengths not shorter than a
call's, bounds, and any mix of service calls): `TypeCorrect`, `ReceiptsTracked`,
`CancelStops`, `CallsStayInside`, `ClosedStaysClosed`, `LiveWorkerKeepsLease`,
`ReconciledWasAbandoned`. The inductive invariant `IndInv` adds four parts to
the checked ones:

- `RowSound`: a held lease belongs to an active goal, is at least as long as a
  call's and was renewed in the past; a tracked task was started;
- `CallsSound`: an open call is of a generation that was reached;
- `SightSound`: what a session saw stays true as long as generation and activity
  sequence have not moved: no live call, and a task reported ended has ended;
- `CloserSound`: a finish carries a finishing status; a reconcile carries a time
  that is past, and what it knows of the tasks holds for its revision.

The argument first classifies what a step may do: to the row and receipts
(`RowMoves`: same, kept, released, taken, created, closed), to clock, task and
calls (`RestMoves`) and to what a session carries (`PendMoves`); each part of
`IndInv` is then preserved class by class instead of action by action.
`LiveWorkerKeepsLease` combines both halves: a lease that is taken over early
was judged on a sight that is still true, one that expired has no live call
because no call outlives its lease.

**CanonicalProofs, the refs.** A promoter is live when nothing that is there stops its
write: it holds the lock, it has read its lock back already, or its lock is aside
with one who will link it back (`Live`). A promoter becomes live only by creating the
lock file, and whoever is live at that moment is counted in `replaced`; so one promoter
at a time can write (`OneWriter`), whichever lock goes stale and for whatever reason,
and what a live one decided still holds at the rename (`DecisionStands`).
`PromotionsAreAtomic` is a step simulation: what a promoter decided it keeps until it
writes (`PromotionMeant`), so the rename is a `Swap` of `CanonicalRegister` whose guard
`DecisionStands` supplies, every other answer is a `Keep`, `Refuse` or `Throw`, and the
steps on the lock files tell nobody anything (`QuietStep`). No lock has to stay fresh:
the one hypothesis is `replaced = {}`, in the statement itself.

**CanonicalProofs, the collectors.** Three layers. `LeaseInd`: no pass dates its lease in the
future (`DatesPast`), and a pass in the time it leased owns a record that expires
no earlier (`WindowOwned`), so whoever is granted next found nobody at work.
`PinInd`: a pass that has lost its record and outlived its lease is out for good
(`Fenced`), so every prune that is not out knows every pin. `SteadyInd`: store by
store, a root held since the grant is among the roots the pass collected once that
store was read (`SteadyCollected`), hence not on its list (`SteadySpared`). This
layer needs neither a lease in time nor an intact record: late and clobbered passes
spare steady roots too.

**MergeProofs.** Verification: `ClaimInd` says that a runner that verifies owns the
running row of its head as long as it beats (`OwnersOwn`), that attempts that run
have ids of their own (`RunningApart`), that an id about to be inserted is nobody
else's (`Private`) and that the attempt of a queued row runs nowhere (`QueuedFree`).
`MergeInd` adds that a gate which read another head is known to the inspection
after it unless the workspace is back (`MisreadSeen`), so that every receipt is
sound in the model's sense (`ReceiptsSound`) and a merge is sent only with one
(`SentAllowed`). Reconciliation: `ReconInd` follows a pass through the feed. A pull
request a pass has not read as it is was updated since, or lies on a later page
(`Paged`): an update brings it to the front, and nobody moves up unless one is
reopened (`shifted`). When the pages end, what was not read is newer than all that
was read or older than the watermark (`WasRead`); so the next watermark passes only
what was read and recorded (`Handled`, `MarkPassed`), and the merges of its own
second are named in the cursor (`SeenDone`).

**Only model-checked.** Liveness (`WaiterServed`, `DeadOwnerInterrupted`,
`ParkedEnds`, `SlotReturns`, `MergesRecorded`, `LockFreed`): it needs
fairness and ENABLED, which are out of the prover's reach.

Every other invariant and action property of a passing run is a theorem about the
definition that the run checks. The types of `HeavyJobDrain`, `PreEditDemand`,
`CanonicalRefs`, `MergeVerification` and `MergeReconciliation` are no separate
invariants of a run: they are proved, each with the component's other results
(`DrainInd`, `DemandInd`, `RefsMutex`, `HeadsVerifiedOnce`, `MergesAreNotSkipped`);
so are those of `HeavyJobFairness` (`OrderTypeCorrect`). The refuted properties of section 4 are of course not theorems.

## 6. Not modelled

Besides the components marked `not_modelled`: the queue without a store;
`restore()` of the admission controller; one-shot continuations with their
successors, collision handling and expedite; archived workspaces; plan steps,
blockers and evidence of a goal (taken to be done when it completes); several
goals at once (they share no row) and several tracked tasks (one stands for
all); a wall clock that is set back; corrupt rows and schema migration. Shell
tasks without an admission class, which skip the queue, and process-manager
tasks; the Windows branches of process termination. Artifact-key rows, the roots
of index jobs and unreadable files of the canonical store (a strict read of one
only ends a pass). Merge policies without a local gate, external gates, a
repository that leaves the policies (`retain()`) and a merge by another method.

Most of the repository's lines are outside any state machine: tool schemas and
their handlers, rendering, the web client, adapters to git, search and providers,
argument validation and wiring. They are listed as components with the reason.

## 7. Plan

In the order of importance.

1. `ResourceAdmission`: `restore()` and the leases of a restarted process.
2. One-shot continuations beside `RecurringWatchdog`: successors, claim
   collisions, expedite; abstract specification "a goal is woken at most once
   per due time".
3. Goal workspace transfer, with a crash between any two stages; the goal
   runtime's event log and snapshots.
4. The extension cutover state machines; the provider coordinator; the process
   manager.
5. Proofs of what these add, in the proof module of the component they extend;
   abstract specifications for the lease of the collectors (a lock with an
   expiry) and for the attempts of a head, as refinements.

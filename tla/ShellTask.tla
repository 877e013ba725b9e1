------------------------------- MODULE ShellTask -------------------------------
(***************************************************************************)
(* One durable shell task that declared a heavy admission class            *)
(* (capabilities/shell-backend.ts, capabilities/durable-shell-task-store.ts *)
(* and the detached worker script it installs).                            *)
(*                                                                         *)
(* task.json is read and overwritten whole, without a lock, by the         *)
(* runtime's launcher, by a cancel, by every reader (a read of a running   *)
(* task reconciles it) and by the worker, which writes its own copy of it. *)
(* Every file access and every probe of a process is a step.  The model    *)
(* follows the POSIX branches: the worker and the command it runs own      *)
(* separate process groups.  Every read and write of a file may fail, and  *)
(* so may the settle of the row.  A pid and its start time are one fact;   *)
(* the heavy-job queue is reduced to the task's row (HeavyJobQueue has all *)
(* of it), and external reconcilers and process-manager tasks are left out.*)
(***************************************************************************)
EXTENDS Naturals

CONSTANT MaxEvents  \* bound: crashes, status reads, probes that answer
                    \* "unverifiable", stops that fail, and second reads, writes
                    \* of a reader and last writes of the worker that fail, together
CONSTANT ReadLimit  \* HEAVY_SETTLE_READ_FAILURE_LIMIT, 3 in the code

ASSUME TaskAssumption == MaxEvents \in Nat /\ ReadLimit \in Nat \ {0}

Fibers == {"cancel", "watch", "status"}
Terminal == {"completed", "failed", "timed_out", "cancelled"}
MetaStates == {"none", "waiting", "running", "termination_unverified"} \cup Terminal

VARIABLES
  meta,       \* task.json: state, worker_pid known, child_pid known
  published,  \* the worker's pid file is there
  wrk,        \* the worker: where its script is
  copy,       \* the state and child_pid in the worker's own metadata
  child,      \* the command's process
  row,        \* the row of the heavy-job queue
  lease,      \* the admission lease of the task
  pending,    \* heavyPending
  reserving,  \* heavyReservations: the gate a grant waits at
  asking,     \* runDeclaredHeavy() is inside store.reserve()
  starting,   \* heavyStarting
  watched,    \* heavyWatches and heavyLeases
  unread,     \* heavySettleFailures
  allowed,    \* the task's cwd is one this runtime accepts
  lpc, lmeta, \* the launcher: startAdmittedHeavy(), and what it read
  pc, mem,    \* fiber -> where it is, the metadata it works on
  spawns,     \* ghost: workers spawned
  blind,      \* ghost: the worker was stopped, or died, and the command's pid
              \* was not in the task.json that was read
  early,      \* ghost: a reader, or a cancel, was between its read and its write
              \* while the launcher started the worker
  untold,     \* ghost: the runtime lost sight of a command because a read or a
              \* write of a file failed
  events

taskFiles == <<meta, published>>
processes == <<wrk, copy, child, blind>>
admission == <<row, lease, pending, reserving, starting, watched>>
launcher == <<lpc, lmeta>>
fibers == <<pc, mem>>
rest == <<asking, unread, allowed, spawns, untold>>
taskVars == <<meta, published, wrk, copy, child, row, lease, pending, reserving, starting,
              watched, lpc, lmeta, pc, mem, spawns, blind, early, events, asking,
              unread, allowed, untold>>

Meta == [state : MetaStates, w : BOOLEAN, c : BOOLEAN]
NoMeta == [state |-> "none", w |-> FALSE, c |-> FALSE]
\* One more of the counted events.
OneEvent == events < MaxEvents /\ events' = events + 1
WorkerAlive == wrk \notin {"none", "exited", "killed", "crashed"}

TaskTypeOK ==
  /\ meta \in Meta /\ lmeta \in Meta /\ mem \in [Fibers -> Meta]
  /\ copy \in [state : MetaStates, c : BOOLEAN]
  /\ {published, pending, reserving, starting, watched, blind, early, asking, allowed, untold} \subseteq BOOLEAN
  /\ wrk \in {"none", "spawned", "loaded", "ready", "launched", "armed", "finishing",
              "lingering", "exited", "killed", "crashed"}
  /\ child \in {"none", "live", "gone"}
  /\ child = "live" => spawns > 0
  /\ row \in {"none", "waiting", "running", "done"}
  /\ lease \in {"none", "held", "settled", "leaked", "lost"}
  /\ lease \in {"held", "settled", "leaked"} => row \in {"running", "done"}
  /\ lpc \in {"idle", "gate", "capacity", "read", "write", "spawn", "publish"}
  /\ pc \in [Fibers -> {"idle", "read", "probe", "reread", "reprobe", "write", "back",
                        "stop", "verify", "record", "settle", "done"}]
  /\ spawns \in 0..(1 + MaxEvents)
  /\ unread \in 0..(ReadLimit - 1)
  /\ events \in 0..MaxEvents

TaskInit ==
  /\ meta = NoMeta /\ published = FALSE
  /\ wrk = "none" /\ copy = [state |-> "none", c |-> FALSE] /\ child = "none"
  /\ row = "none" /\ lease = "none"
  /\ pending = FALSE /\ reserving = FALSE /\ starting = FALSE /\ watched = FALSE
  /\ lpc = "idle" /\ lmeta = NoMeta
  /\ pc = [f \in Fibers |-> "idle"] /\ mem = [f \in Fibers |-> NoMeta]
  /\ spawns = 0 /\ blind = FALSE /\ early = FALSE /\ untold = FALSE
  /\ asking = FALSE /\ unread = 0 /\ allowed = TRUE /\ events = 0

------------------------------------------------------------------------------
(* runDeclaredHeavy(): the row is enqueued first, then the task is parked. *)

\* abandonHeavyReservation(): the task is no longer pending and its gate opens.
Abandon == pending' = FALSE /\ reserving' = FALSE

\* queue.cancel(): only a waiting row is cancelled.
CancelRow == row' = IF row = "waiting" THEN "done" ELSE row

\* failWaiting(): a task that still waits for admission is failed, unless its
\* task.json could not be read or written.
FailWaiting ==
  \/ meta.state = "waiting" /\ meta' = [meta EXCEPT !.state = "failed"]
  \/ UNCHANGED meta

EnqueueTask ==
  /\ row = "none"
  /\ row' = "waiting"
  /\ pending' = TRUE
  /\ reserving' = TRUE
  /\ asking' = TRUE
  /\ UNCHANGED <<taskFiles, processes, lease, starting, watched, launcher, fibers, unread, allowed,
                 spawns, untold, early, events>>

\* store.reserve() writes the spec and the metadata, also when the row was retired
\* meanwhile; when it cannot, the reservation is abandoned and the row is cancelled.
Reserve ==
  /\ asking
  /\ asking' = FALSE
  /\ \/ /\ meta' = [NoMeta EXCEPT !.state = "waiting"]
        /\ reserving' = FALSE
        /\ UNCHANGED <<row, pending>>
     \/ /\ meta' \in {NoMeta, [NoMeta EXCEPT !.state = "failed"]}
        /\ Abandon
        /\ CancelRow
  /\ UNCHANGED <<published, processes, lease, starting, watched, launcher, fibers, unread, allowed,
                 spawns, untold, early, events>>

\* Another process retired the row: retireHeavyTask().
Retire ==
  /\ row = "waiting"
  /\ row' = "done"
  /\ IF pending THEN Abandon /\ FailWaiting ELSE UNCHANGED <<pending, reserving, meta>>
  /\ UNCHANGED <<published, processes, lease, starting, watched, launcher, fibers, rest, early, events>>

------------------------------------------------------------------------------
(* The launcher: a grant of pump() or of a wake, startAdmittedHeavy().     *)

\* Mutant of Grant: the slot is given before the row was started in the store.
GrantUnstarted ==
  /\ row = "waiting"
  /\ pending
  /\ lpc = "idle"
  /\ lease' = "held"
  /\ lpc' = "gate"
  /\ UNCHANGED <<taskFiles, processes, row, pending, reserving, starting, watched, lmeta, fibers, rest, early, events>>

Grant ==
  /\ row = "waiting"
  /\ pending
  /\ lpc = "idle"
  /\ row' = "running"
  /\ lease' = "held"
  /\ lpc' = "gate"
  /\ UNCHANGED <<taskFiles, processes, pending, reserving, starting, watched, lmeta, fibers, rest, early, events>>

\* lease.settle(), once: the row is settled and the slot released.  When the
\* store throws, the row stays and the slot is never released: it counts as
\* settled already.
SettleLease ==
  \/ lease' = "settled" /\ row' = "done"
  \/ lease' = "leaked" /\ UNCHANGED row

\* The grant waits for the reservation; a task that is no longer pending was
\* cancelled or failed.
PassGate ==
  /\ lpc = "gate"
  /\ ~reserving
  /\ \/ pending /\ starting' = TRUE /\ lpc' = "capacity" /\ UNCHANGED <<row, lease>>
     \/ ~pending /\ SettleLease /\ lpc' = "idle" /\ UNCHANGED starting
  /\ UNCHANGED <<taskFiles, processes, pending, reserving, watched, lmeta, fibers, rest, early, events>>

\* startHeavyTask() gives up: the slot is given back in the same turn.
StartFails ==
  /\ Abandon
  /\ SettleLease
  /\ starting' = FALSE
  /\ lpc' = "idle"
  /\ lmeta' = NoMeta

\* startReserved(): too many other tasks are running, or not.
CheckCapacity ==
  /\ lpc = "capacity"
  /\ \/ lpc' = "read" /\ UNCHANGED <<meta, admission, lmeta>>
     \/ FailWaiting /\ StartFails /\ UNCHANGED watched
  /\ UNCHANGED <<published, processes, fibers, rest, early, events>>

\* readMetadata(): task.json, with the published worker pid laid over it.
ReadMeta == [meta EXCEPT !.w = @ \/ published]

\* Somebody has read task.json and may still write it.
InHand == \E f \in Fibers : pc[f] \notin {"idle", "settle", "done"}

\* The launcher goes on with what it has read.
StartGoesOn ==
  /\ lmeta' = ReadMeta
  /\ lpc' = "write"
  /\ early' = (early \/ InHand)
  /\ UNCHANGED admission

\* Mutant of StartReads: whatever task.json says is started.
StartReadsAny ==
  /\ lpc = "read"
  /\ StartGoesOn
  /\ UNCHANGED <<taskFiles, processes, fibers, rest, events>>

\* A task that does not wait any more is left alone; one whose files cannot be
\* read is failed.
StartReads ==
  /\ lpc = "read"
  /\ \/ meta.state = "waiting" /\ StartGoesOn /\ UNCHANGED meta
     \/ FailWaiting /\ StartFails /\ UNCHANGED <<watched, early>>
  /\ UNCHANGED <<published, processes, fibers, rest, events>>

\* The catch of startReservedInternal() records the failure, if it can.
RecordFailure == meta' \in {meta, [lmeta EXCEPT !.state = "failed"]}

StartWrites ==
  /\ lpc = "write"
  /\ \/ meta' = [lmeta EXCEPT !.state = "running"] /\ lpc' = "spawn" /\ UNCHANGED <<admission, lmeta>>
     \/ RecordFailure /\ StartFails /\ UNCHANGED watched
  /\ UNCHANGED <<published, processes, fibers, rest, early, events>>

SpawnWorker ==
  /\ lpc = "spawn"
  /\ \/ /\ wrk' = "spawned"
        /\ spawns' = spawns + 1
        /\ lpc' = "publish"
        /\ UNCHANGED <<meta, admission, lmeta>>
     \/ /\ RecordFailure
        /\ StartFails
        /\ UNCHANGED <<watched, wrk, spawns>>
  /\ UNCHANGED <<published, copy, child, blind, fibers, asking, unread, allowed, untold, early, events>>

\* The worker's pid goes to a file of its own, and the task is watched.  When the
\* file cannot be written, the start has failed although the worker runs.
PublishWorker ==
  /\ lpc = "publish"
  /\ \/ /\ published' = TRUE
        /\ Abandon
        /\ starting' = FALSE
        /\ watched' = TRUE
        /\ lpc' = "idle"
        /\ lmeta' = NoMeta
        /\ UNCHANGED <<meta, row, lease, untold>>
     \/ /\ RecordFailure
        /\ StartFails
        /\ untold' = TRUE
        /\ UNCHANGED <<published, watched>>
  /\ UNCHANGED <<processes, fibers, asking, unread, allowed, spawns, early, events>>

------------------------------------------------------------------------------
(* The worker script.                                                      *)

Unseen == <<published, admission, launcher, fibers, asking, unread, allowed, spawns, early>>
Runtime == <<Unseen, untold>>

\* It loads task.json, which becomes its own copy.
WorkerLoads ==
  /\ wrk = "spawned"
  /\ copy' = [state |-> meta.state, c |-> FALSE]
  /\ wrk' = "loaded"
  /\ UNCHANGED <<meta, child, blind, Runtime, events>>

\* persist(): the copy is written over task.json.
Persist == meta' = [state |-> copy.state, w |-> TRUE, c |-> copy.c]

WorkerPersists ==
  /\ wrk = "loaded"
  /\ Persist
  /\ wrk' = "ready"
  /\ UNCHANGED <<copy, child, blind, Runtime, events>>

\* The command is spawned in a process group of its own.
SpawnChild ==
  /\ wrk = "ready"
  /\ \/ /\ child' = "live"
        /\ copy' = [copy EXCEPT !.c = TRUE]
        /\ wrk' = "launched"
     \/ /\ copy' = [copy EXCEPT !.state = "failed"]
        /\ wrk' = "finishing"
        /\ UNCHANGED child
  /\ UNCHANGED <<meta, blind, Runtime, events>>

\* Its start time was captured: the copy, with the child's pid, is written.  When
\* it cannot be, the worker finishes the task as failed, and its child runs on.
PersistChild ==
  /\ wrk = "launched"
  /\ \/ Persist /\ wrk' = "armed" /\ UNCHANGED <<copy, untold>>
     \/ /\ copy' = [copy EXCEPT !.state = "failed"]
        /\ wrk' = "finishing"
        /\ untold' = TRUE
        /\ UNCHANGED meta
  /\ UNCHANGED <<child, blind, Unseen, events>>

ChildExits ==
  /\ child = "live"
  /\ child' = "gone"
  /\ UNCHANGED <<meta, wrk, copy, blind, Runtime, events>>

\* The child's exit event: finish().
ObserveExit ==
  /\ wrk \in {"launched", "armed"}
  /\ child = "gone"
  /\ \E s \in {"completed", "failed"} : copy' = [copy EXCEPT !.state = s]
  /\ wrk' = "finishing"
  /\ UNCHANGED <<meta, child, blind, Runtime, events>>

\* The timer: stopTree() and finish().
TimeOut ==
  /\ wrk = "armed"
  /\ child = "live"
  /\ wrk' = "finishing"
  /\ \/ /\ child' = "gone"
        /\ copy' = [copy EXCEPT !.state = "timed_out"]
        /\ UNCHANGED events
     \/ /\ OneEvent
        /\ copy' = [copy EXCEPT !.state = "termination_unverified"]
        /\ UNCHANGED child
  /\ UNCHANGED <<meta, blind, Runtime>>

\* The last write, which may fail; Node keeps the worker until its child is gone.
WorkerFinishes ==
  /\ \/ /\ wrk = "finishing"
        /\ \/ Persist /\ UNCHANGED events
           \/ OneEvent /\ UNCHANGED meta
        /\ wrk' = IF child = "live" THEN "lingering" ELSE "exited"
     \/ wrk = "lingering" /\ child = "gone" /\ wrk' = "exited" /\ UNCHANGED <<meta, events>>
  /\ UNCHANGED <<copy, child, blind, Runtime>>

\* The worker dies (an out-of-memory kill); its child is in another group.
WorkerDies ==
  /\ WorkerAlive
  /\ OneEvent
  /\ wrk' = "crashed"
  /\ blind' = (blind \/ wrk = "launched")
  /\ UNCHANGED <<meta, copy, child, Runtime>>

WorkerStep ==
  \/ WorkerLoads \/ WorkerPersists \/ SpawnChild \/ PersistChild
  \/ ChildExits \/ ObserveExit \/ WorkerFinishes

------------------------------------------------------------------------------
(* snapshot() and its reconcile(), of the watch, of a status read and of   *)
(* the first half of a cancel.                                             *)

Shared == <<published, processes, admission, launcher, rest>>

Moves(f, to) == pc' = [pc EXCEPT ![f] = to]

BeginRead(f) ==
  /\ pc[f] = "idle"
  /\ meta.state # "none"
  /\ f = "watch" => watched
  /\ f = "cancel" => ~starting       \* it waits for a start in flight
  /\ IF f = "status" THEN OneEvent ELSE UNCHANGED events
  /\ early' = (early \/ lpc \in {"write", "spawn", "publish"})
  /\ Moves(f, "read")
  /\ UNCHANGED <<meta, mem, Shared>>

\* task.json cannot be read.  A reader and a cancel report that; the watch gives
\* up the slot when it happens for the third time.
ReadFails(f) ==
  /\ f # "watch"
  /\ pc[f] = "read"
  /\ Moves(f, "idle")
  /\ UNCHANGED <<meta, mem, early, events, Shared>>

ReadsMeta(f) ==
  /\ pc[f] = "read"
  /\ mem' = [mem EXCEPT ![f] = ReadMeta]
  /\ Moves(f, IF meta.state \in {"running", "termination_unverified"} THEN "probe" ELSE "back")
  /\ UNCHANGED <<meta, early, events, Shared>>

\* A probe that cannot tell makes the task termination_unverified.
Unverifiable(f) ==
  /\ mem[f].w
  /\ OneEvent
  /\ mem' = [mem EXCEPT ![f].state = "termination_unverified"]
  /\ Moves(f, "write")

ProbesWorker(f) ==
  /\ pc[f] = "probe"
  /\ \/ Moves(f, IF mem[f].w /\ WorkerAlive THEN "back" ELSE "reread") /\ UNCHANGED <<mem, events>>
     \/ Unverifiable(f)
  /\ UNCHANGED <<meta, early, Shared>>

\* The worker is gone or unknown: 75 ms later task.json is read again; when it
\* cannot be, what was read first has to do.
RereadsMeta(f) ==
  /\ pc[f] = "reread"
  /\ \/ /\ mem' = [mem EXCEPT ![f] = ReadMeta]
        /\ Moves(f, IF meta.state \in Terminal THEN "back" ELSE "reprobe")
        /\ UNCHANGED <<untold, events>>
     \/ /\ OneEvent
        /\ Moves(f, "reprobe")
        /\ untold' = (untold \/ ~mem[f].c)
        /\ UNCHANGED mem
  /\ UNCHANGED <<meta, early, published, processes, admission, launcher, asking, unread, allowed, spawns>>

\* Mutant of Verdict: a dead worker is enough to fail the task.
VerdictOfWorker(f) == IF mem[f].w /\ WorkerAlive THEN mem[f].state ELSE "failed"

\* What reconcile() makes of the processes it can name.
Verdict(f) ==
  CASE mem[f].w /\ WorkerAlive -> mem[f].state
    [] ~(mem[f].w /\ WorkerAlive) /\ mem[f].c /\ child = "live" -> "termination_unverified"
    [] OTHER -> IF mem[f].state = "termination_unverified" THEN mem[f].state ELSE "failed"

Reprobes(f) ==
  /\ pc[f] = "reprobe"
  /\ \/ /\ mem' = [mem EXCEPT ![f].state = Verdict(f)]
        /\ Moves(f, IF Verdict(f) = mem[f].state THEN "back" ELSE "write")
        /\ UNCHANGED events
     \/ Unverifiable(f)
  /\ UNCHANGED <<meta, early, Shared>>

WritesVerdict(f) ==
  /\ pc[f] = "write"
  /\ meta' = mem[f]
  /\ Moves(f, "back")
  /\ UNCHANGED <<mem, early, events, Shared>>

\* writeMetadata() throws, in a reader or in a cancel, and its call with it.
WriteFails(f) ==
  /\ pc[f] \in {"write", "record"}
  /\ OneEvent
  /\ Moves(f, "idle")
  /\ mem' = [mem EXCEPT ![f] = NoMeta]
  /\ UNCHANGED <<meta, early, Shared>>

ReadStep(f) ==
  \/ ReadsMeta(f) \/ ReadFails(f) \/ ProbesWorker(f) \/ RereadsMeta(f) \/ Reprobes(f)
  \/ WritesVerdict(f) \/ WriteFails(f)

\* A status read returns.
StatusReturns ==
  /\ pc["status"] = "back"
  /\ Moves("status", "idle")
  /\ mem' = [mem EXCEPT !["status"] = NoMeta]
  /\ UNCHANGED <<meta, early, events, Shared>>

\* settleHeavyTaskOnce(): the watch stops and the lease it knows is settled.
SettleWatched ==
  /\ IF watched THEN SettleLease /\ watched' = FALSE ELSE UNCHANGED <<row, lease, watched>>
  /\ unread' = 0

\* The watch's own read fails: after the third failure the slot is given up.
WatchUnread ==
  /\ pc["watch"] = "read"
  /\ IF unread + 1 < ReadLimit
       THEN unread' = unread + 1 /\ UNCHANGED <<row, lease, watched, untold>>
       ELSE SettleWatched /\ untold' = (untold \/ watched)
  /\ Moves("watch", "idle")
  /\ UNCHANGED <<taskFiles, processes, pending, reserving, starting, launcher, mem, asking, allowed,
                 spawns, early, events>>

\* Mutant of WatchSettles: only a task that completed gives its slot back.
WatchSettlesCompleted ==
  /\ pc["watch"] = "back"
  /\ IF mem["watch"].state = "completed" THEN SettleWatched ELSE UNCHANGED <<row, lease, watched, unread>>
  /\ Moves("watch", "idle")
  /\ mem' = [mem EXCEPT !["watch"] = NoMeta]
  /\ UNCHANGED <<taskFiles, processes, pending, reserving, starting, launcher, asking, allowed, spawns,
                 untold, early, events>>

\* settleHeavyTask(): a verified end settles the lease.
WatchSettles ==
  /\ pc["watch"] = "back"
  /\ IF mem["watch"].state \in Terminal THEN SettleWatched ELSE UNCHANGED <<row, lease, watched, unread>>
  /\ Moves("watch", "idle")
  /\ mem' = [mem EXCEPT !["watch"] = NoMeta]
  /\ UNCHANGED <<taskFiles, processes, pending, reserving, starting, launcher, asking, allowed, spawns,
                 untold, early, events>>

------------------------------------------------------------------------------
(* cancel(), after its reconcile().                                        *)

\* A parked task is cancelled at once.  A running one is stopped through the
\* child when its pid is in the metadata that was read, else through the worker;
\* with neither, the end cannot be verified.
CancelDecides ==
  /\ pc["cancel"] = "back"
  /\ LET m == mem["cancel"]
         named == (m.w /\ WorkerAlive) \/ (m.c /\ child = "live")
     IN \/ /\ m.state \in Terminal
           /\ Moves("cancel", "settle")
           /\ UNCHANGED <<mem, blind>>
        \/ /\ m.state = "waiting"
           /\ mem' = [mem EXCEPT !["cancel"].state = "cancelled"]
           /\ Moves("cancel", "record")
           /\ UNCHANGED blind
        \/ /\ m.state \in {"running", "termination_unverified"}
           /\ named
           /\ Moves("cancel", "stop")
           /\ blind' = (blind \/ ~m.c)
           /\ UNCHANGED mem
        \/ /\ m.state \in {"running", "termination_unverified"}
           /\ ~named
           /\ mem' = [mem EXCEPT !["cancel"].state = "termination_unverified"]
           /\ Moves("cancel", "record")
           /\ UNCHANGED blind
  /\ UNCHANGED <<taskFiles, wrk, copy, child, admission, launcher, rest, early, events>>

\* stopProcessTree(): the group of the one process is signalled; a signal that
\* fails leaves both alone.
CancelStops ==
  /\ pc["cancel"] = "stop"
  /\ \/ /\ mem["cancel"].c /\ child = "live"
        /\ child' = "gone"
        /\ UNCHANGED <<wrk, events>>
     \/ /\ ~(mem["cancel"].c /\ child = "live")
        /\ wrk' = IF WorkerAlive THEN "killed" ELSE wrk
        /\ UNCHANGED <<child, events>>
     \/ /\ OneEvent
        /\ UNCHANGED <<wrk, child>>
  /\ Moves("cancel", "verify")
  /\ UNCHANGED <<taskFiles, copy, blind, admission, launcher, mem, rest, early>>

\* Every process the metadata names is gone: cancelled; or the time is up.
CancelVerifies ==
  /\ pc["cancel"] = "verify"
  /\ \/ /\ ~(mem["cancel"].w /\ WorkerAlive)
        /\ ~(mem["cancel"].c /\ child = "live")
        /\ mem' = [mem EXCEPT !["cancel"].state = "cancelled"]
        /\ UNCHANGED events
     \/ /\ OneEvent
        /\ mem' = [mem EXCEPT !["cancel"].state = "termination_unverified"]
  /\ Moves("cancel", "record")
  /\ UNCHANGED <<meta, early, Shared>>

CancelRecords ==
  /\ pc["cancel"] = "record"
  /\ meta' = mem["cancel"]
  /\ Moves("cancel", "settle")
  /\ UNCHANGED <<mem, early, events, Shared>>

\* Back in execute(): a verified end cancels the row and settles the lease.
CancelSettles ==
  /\ pc["cancel"] = "settle"
  /\ IF mem["cancel"].state \in Terminal
       THEN /\ Abandon
            /\ IF watched THEN SettleWatched
                          ELSE CancelRow /\ UNCHANGED <<lease, watched, unread>>
       ELSE UNCHANGED <<row, lease, pending, reserving, watched, unread>>
  /\ Moves("cancel", "done")
  /\ mem' = [mem EXCEPT !["cancel"] = NoMeta]
  /\ UNCHANGED <<taskFiles, processes, starting, launcher, asking, allowed, spawns, untold, early, events>>

CancelStep == CancelDecides \/ CancelStops \/ CancelVerifies \/ CancelRecords \/ CancelSettles

------------------------------------------------------------------------------
(* The runtime dies and comes back; the worker and the command live on.    *)

CrashRuntime ==
  /\ row # "none"
  /\ OneEvent
  /\ pending' = FALSE /\ reserving' = FALSE /\ starting' = FALSE /\ watched' = FALSE
  /\ asking' = FALSE /\ unread' = 0
  /\ lease' = IF lease \in {"held", "leaked"} THEN "lost" ELSE lease
  /\ lpc' = "idle" /\ lmeta' = NoMeta
  /\ pc' = [f \in Fibers |-> IF pc[f] = "done" THEN "done" ELSE "idle"]
  /\ mem' = [f \in Fibers |-> NoMeta]
  /\ UNCHANGED <<taskFiles, processes, row, allowed, spawns, untold, early>>

\* The queue's recovery retires a running row whose owner is gone.
RetireLost ==
  /\ lease = "lost"
  /\ row = "running"
  /\ row' = "done"
  /\ UNCHANGED <<taskFiles, processes, lease, pending, reserving, starting, watched, launcher, fibers, rest, early, events>>

\* The directory of a parked task, or a root that holds it, comes or goes.
CwdMoves ==
  /\ meta.state = "waiting"
  /\ ~pending
  /\ allowed' = ~allowed
  /\ UNCHANGED <<taskFiles, processes, admission, launcher, fibers, asking, unread, spawns, untold, early, events>>

\* Mutant of RecoverParked: a parked task whose row is gone is skipped.
RecoverWithRow ==
  /\ meta.state = "waiting"
  /\ ~pending /\ ~starting /\ ~watched
  /\ allowed
  /\ row = "waiting"
  /\ pending' = TRUE
  /\ UNCHANGED <<taskFiles, processes, row, lease, reserving, starting, watched, launcher, fibers, rest, early, events>>

\* recoverParkedHeavy(), for a parked task this runtime does not know and whose
\* cwd it accepts: its row is taken over in place; without one, or past its
\* retention, the task is failed.
RecoverParked ==
  /\ meta.state = "waiting"
  /\ ~pending /\ ~starting /\ ~watched
  /\ allowed
  /\ \/ /\ row = "waiting"
        /\ pending' = TRUE
        /\ UNCHANGED <<row, meta>>
     \/ /\ row \in {"none", "done"}
        /\ FailWaiting
        /\ UNCHANGED <<row, pending>>
     \/ /\ row = "waiting"
        /\ CancelRow
        /\ FailWaiting
        /\ UNCHANGED pending
  /\ UNCHANGED <<published, processes, lease, reserving, starting, watched, launcher, fibers, rest, early, events>>

------------------------------------------------------------------------------
LaunchStep == PassGate \/ CheckCapacity \/ StartReads \/ StartWrites \/ SpawnWorker \/ PublishWorker

TaskNext ==
  \/ EnqueueTask \/ Reserve \/ Retire \/ Grant \/ LaunchStep
  \/ WorkerStep \/ TimeOut \/ WorkerDies
  \/ \E f \in Fibers : BeginRead(f) \/ ReadStep(f)
  \/ StatusReturns \/ WatchUnread \/ WatchSettles \/ CancelStep
  \/ CrashRuntime \/ RetireLost \/ CwdMoves \/ RecoverParked

TaskSpec == TaskInit /\ [][TaskNext]_taskVars

\* The event loop runs what is ready, so the launcher, the watch, a status read
\* and a cancel each go on; commands end, and recovery sweeps.  Nobody has to
\* submit, cancel or read, and no directory has to come back.
TaskFairness ==
  /\ WF_taskVars(Reserve \/ Grant \/ LaunchStep)
  /\ WF_taskVars(WorkerStep)
  /\ WF_taskVars(BeginRead("watch") \/ ReadStep("watch") \/ WatchSettles)
  /\ WF_taskVars(ReadStep("status") \/ StatusReturns)
  /\ WF_taskVars(ReadStep("cancel") \/ CancelStep)
  /\ WF_taskVars(RetireLost \/ RecoverParked)

TaskFairSpec == TaskSpec /\ TaskFairness

------------------------------------------------------------------------------
(* Properties.                                                             *)

(* A task that was cancelled or failed while it was parked stays so: no    *)
(* wake, grant or recovery writes it as running again or launches it, and  *)
(* no task is launched twice.  Only a cancel or a reader that overlaps the *)
(* start itself can still be overwritten by it.                            *)
EndedNeverLaunched ==
  [][/\ spawns' > spawns => spawns = 0
     /\ spawns = 0 /\ meta.state \in Terminal => early \/ (meta'.state \in Terminal /\ spawns' = 0)]_taskVars

(* A held slot has a start under way or a watch that will give it back,    *)
(* and it is given back only when the command is gone, also when its       *)
(* worker died.  The exceptions are the windows the code has: a cancel or  *)
(* a reader worked on what it had read before the start was complete       *)
(* (early), the command's pid was not yet in the task.json that was read   *)
(* (blind), or a failed read or write hid the command from the runtime     *)
(* (untold: worker.pid or the child's pid was not written, or task.json    *)
(* could not be read, by the watch three times).                           *)
SlotCoversCommand ==
  /\ lease = "held" => lpc # "idle" \/ watched
  /\ lease = "settled" /\ child = "live" => early \/ blind \/ untold

(* No parked task is stranded: it is started, failed or cancelled, unless  *)
(* its directory is one the runtime does not accept (once it is accepted   *)
(* again, the claim begins anew).  A runtime that leaked the task's slot   *)
(* keeps its row, and recovery waits until that runtime ends.              *)
ParkedEnds == meta.state = "waiting" ~> meta.state # "waiting" \/ ~allowed \/ lease = "leaked"

(* Every granted slot comes back, also when task.json cannot be read, or   *)
(* its task is one whose end could not be verified, or its runtime died.   *)
(* The slot that never comes back is the one whose settle() threw.         *)
SlotReturns == lease = "held" ~> lease \in {"settled", "lost", "leaked"} \/ meta.state = "termination_unverified"
=============================================================================

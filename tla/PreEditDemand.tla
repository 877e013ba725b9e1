----------------------------- MODULE PreEditDemand -----------------------------
(***************************************************************************)
(* The demand-first pre-edit runtime (packages/mcp-server/src/pre-edit-    *)
(* demand.ts), one of the two users of the heavy-job queue. A refused edit *)
(* submits an index refresh of its target; a newer requirement of the same *)
(* target replaces an older one that has not started; later callers may    *)
(* wait, for a bounded time, for the refresh they need.                    *)
(*                                                                         *)
(* One runtime is modelled.  Its durable rows are "mine", "orphan" (owner  *)
(* NULL), "foreign", "running" (started here) or "done"; what other        *)
(* processes do to them are the actions Elsewhere.  Other users of the     *)
(* process's admission controller hold `others` of its slots; one of them, *)
(* the shell port, listens to every release and may take the slot before   *)
(* this runtime does.  `pc` is the place of the runtime's own synchronous  *)
(* code, `missed` a ghost.                                                 *)
(***************************************************************************)
EXTENDS Integers, FiniteSets, FiniteSetsExt

CONSTANTS
  Demands,       \* operation ids: a target and an evidence state
  Target,        \* [Demands -> workspace and file]
  Callers,       \* callers that wait
  None,          \* no operation
  Slots,         \* capacity of the controller, in pre-edit jobs
  DemandMayFail  \* the store calls that may throw: a subset of {"promote", "settle", "start"}

ASSUME DemandAssumption ==
  /\ None \notin Demands /\ IsFiniteSet(Demands) /\ {"idle", "drain"} \cap Demands = {}
  /\ Slots \in Nat \ {0}
  /\ DemandMayFail \subseteq {"promote", "settle", "start"}

VARIABLES
  demandRow,      \* [Demands -> durable row, seen from this runtime]
  demandLocal,    \* the waiter queue's local rows
  jobRecords,     \* operations the runtime tracks
  demandRunning,  \* operations with a live executor
  demandActive,   \* operations whose lease the runtime holds
  demandLeaked,   \* operations whose lease nobody will release: start() threw after it was granted
  others,         \* leases of other users of the controller
  subscribed,     \* is the runtime subscribed to lease releases?
  waits,          \* [Callers -> the operation the caller waits for, or None]
  pc,             \* "idle", "drain", or the operation being promoted
  missed          \* did the last drain throw, so that it left the subscription as it was?

demandVars == <<demandRow, demandLocal, jobRecords, demandRunning, demandActive, demandLeaked, others,
                subscribed, waits, pc, missed>>

DemandInit ==
  /\ demandRow = [q \in Demands |-> "none"]
  /\ demandLocal = {}
  /\ jobRecords = {}
  /\ demandRunning = {}
  /\ demandActive = {}
  /\ demandLeaked = {}
  /\ others = 0
  /\ subscribed = FALSE
  /\ waits = [c \in Callers |-> None]
  /\ pc = "idle"
  /\ missed = FALSE

DemandClaimable(q) == demandRow[q] \in {"mine", "orphan"}
LiveRow(q) == demandRow[q] \notin {"none", "done"}

\* releaseWaiters()
Released(Q) == [c \in Callers |-> IF waits[c] \in Q THEN None ELSE waits[c]]

-----------------------------------------------------------------------------
(* submitToQueue                                                           *)

\* The queued generations of the same target that a newer requirement replaces.
Stale(q) == {s \in jobRecords \ (demandRunning \cup {q}) : Target[s] = Target[q]}

\* enqueue(): claim the row, or coalesce with the one that holds it.
Claim(q) ==
  /\ pc = "idle"
  /\ q \notin demandRunning
  /\ Stale(q) = {}
  /\ \/ /\ DemandClaimable(q) \/ ~LiveRow(q)
        /\ demandRow' = [demandRow EXCEPT ![q] = "mine"]
        /\ demandLocal' = demandLocal \cup {q}
        /\ pc' = q
     \/ /\ demandRow[q] = "foreign"
        /\ q \in demandLocal
        /\ pc' = q
        /\ UNCHANGED <<demandRow, demandLocal>>
  /\ UNCHANGED <<jobRecords, demandRunning, demandActive, demandLeaked, others, subscribed, waits, missed>>

\* Mutant of SupersedeDemand: the waiters of the replaced generation are forgotten.
SupersedeSilently(s, q) ==
  /\ pc = "idle"
  /\ q \notin demandRunning
  /\ s \in Stale(q)
  /\ jobRecords' = jobRecords \ {s}
  /\ UNCHANGED waits
  /\ \/ /\ LiveRow(q)
        /\ demandRow' = IF DemandClaimable(s) THEN [demandRow EXCEPT ![s] = "done"] ELSE demandRow
        /\ demandLocal' = demandLocal \ {s}
        /\ pc' = "idle"
     \/ /\ ~LiveRow(q)
        /\ demandRow' = [demandRow EXCEPT ![s] = IF DemandClaimable(s) THEN "done" ELSE @, ![q] = "mine"]
        /\ demandLocal' = (demandLocal \ {s}) \cup {q}
        /\ pc' = q
  /\ UNCHANGED <<demandRunning, demandActive, demandLeaked, others, subscribed, missed>>

\* supersede(): q takes the place of s, or coalesces with a live row of q.
SupersedeDemand(s, q) ==
  /\ pc = "idle"
  /\ q \notin demandRunning
  /\ s \in Stale(q)
  /\ jobRecords' = jobRecords \ {s}
  /\ waits' = Released({s})
  /\ \/ /\ LiveRow(q)
        /\ demandRow' = IF DemandClaimable(s) THEN [demandRow EXCEPT ![s] = "done"] ELSE demandRow
        /\ demandLocal' = demandLocal \ {s}
        /\ pc' = "idle"
     \/ /\ ~LiveRow(q)
        /\ demandRow' = [demandRow EXCEPT ![s] = IF DemandClaimable(s) THEN "done" ELSE @, ![q] = "mine"]
        /\ demandLocal' = (demandLocal \ {s}) \cup {q}
        /\ pc' = q
  /\ UNCHANGED <<demandRunning, demandActive, demandLeaked, others, subscribed, missed>>

\* Mutant of PromoteDemand: the claimed job is not recorded.
PromoteUntracked ==
  /\ pc \in Demands
  /\ pc' = IF DemandClaimable(pc) THEN "drain" ELSE "idle"
  /\ demandLocal' = IF DemandClaimable(pc) THEN demandLocal ELSE demandLocal \ {pc}
  /\ UNCHANGED <<demandRow, jobRecords, demandRunning, demandActive, demandLeaked, others, subscribed, waits, missed>>

\* promote(): the claimed row jumps ahead, unless it was taken meanwhile.  When
\* it throws, submit() answers "rejected" and the local row stays.
PromoteDemand ==
  /\ pc \in Demands
  /\ \/ DemandClaimable(pc) /\ jobRecords' = jobRecords \cup {pc} /\ pc' = "drain" /\ UNCHANGED demandLocal
     \/ ~DemandClaimable(pc) /\ demandLocal' = demandLocal \ {pc} /\ pc' = "idle" /\ UNCHANGED jobRecords
     \/ "promote" \in DemandMayFail /\ pc' = "idle" /\ UNCHANGED <<demandLocal, jobRecords>>
  /\ UNCHANGED <<demandRow, demandRunning, demandActive, demandLeaked, others, subscribed, waits, missed>>

-----------------------------------------------------------------------------
(* executePending                                                          *)

Free == Slots - others - Cardinality(demandActive) - Cardinality(demandLeaked)

\* What drain() tries: tryAcquire() refuses an operation that has a lease, which
\* is what a leaked one has for ever.
Tryable == demandLocal \ demandLeaked

\* Mutant of Subscribed: the subscription is kept only while something runs.
SubscribedWhileRunning(records, runs) == runs # {}

\* syncWakeSubscription(): only while something is tracked and does not run.
Subscribed(records, runs) == Cardinality(records) > Cardinality(runs)

\* Mutant of AnotherPass: a release during the pass is not heard.
OnePass(returned) == FALSE

\* A release during the pass asks for one more, if the runtime is subscribed.
AnotherPass(returned) == subscribed /\ returned # {}

\* One pass of drainAdmitted(): `admitted` start, `dropped` lost their row, and
\* the executors of `failed` fail at once, `settled` being the rows whose settle
\* does not throw.  An admission without a record gives its lease back.  `taken`
\* slots go to other listeners.
DrainPass(admitted, dropped, failed, settled, taken) ==
  LET tracked == admitted \cap jobRecords
  IN  /\ demandRow' = [q \in Demands |-> IF q \in settled THEN "done"
                               ELSE IF q \in admitted THEN "running" ELSE demandRow[q]]
      /\ demandLocal' = demandLocal \ (admitted \cup dropped)
      /\ demandRunning' = demandRunning \cup (tracked \ failed)
      /\ demandActive' = demandActive \cup (tracked \ failed)
      /\ jobRecords' = jobRecords \ failed
      /\ waits' = Released(failed)
      /\ others' = others + taken
      /\ IF AnotherPass(dropped \cup failed \cup (admitted \ jobRecords))
           THEN pc' = "drain" /\ UNCHANGED <<subscribed, missed>>
           ELSE pc' = "idle" /\ subscribed' = Subscribed(jobRecords', demandRunning') /\ missed' = FALSE
      /\ UNCHANGED demandLeaked

\* store.start(t) throws out of drain().  What this pass has started is running
\* in the store and nowhere else, its leases and that of t are never released,
\* and syncWakeSubscription() is skipped.  The caller swallows the exception; a
\* finished executor drains once more after its release was heard.
DrainThrows(t, admitted, dropped, taken) ==
  /\ "start" \in DemandMayFail
  /\ demandRow' = [q \in Demands |-> IF q \in admitted THEN "running" ELSE demandRow[q]]
  /\ demandLocal' = demandLocal \ (admitted \cup dropped)
  /\ demandLeaked' = demandLeaked \cup admitted \cup {t}
  /\ others' = others + taken
  /\ pc' \in IF subscribed THEN {"idle", "drain"} ELSE {"idle"}
  /\ missed' = TRUE
  /\ UNCHANGED <<jobRecords, demandRunning, demandActive, subscribed, waits>>

\* A job is admitted while capacity lasts, and a stale row is noticed only then;
\* `early` of the slots given back for stale rows are taken by others.
Drain ==
  /\ pc = "drain"
  /\ \E admitted \in SUBSET {q \in Tryable : demandRow[q] = "mine"},
        dropped \in SUBSET {q \in Tryable : demandRow[q] # "mine"} :
       \E early \in 0 .. Cardinality(dropped) :
         /\ Cardinality(admitted) + early <= Free
         /\ Free = 0 => dropped = {}
         /\ \/ /\ Cardinality(admitted) + early < Free => admitted \cup dropped = Tryable
               /\ \E failed \in SUBSET (admitted \cap jobRecords) :
                    \E settled \in SUBSET failed, late \in 0 .. Cardinality(failed \cup (admitted \ jobRecords)) :
                      /\ "settle" \notin DemandMayFail => settled = failed
                      /\ DrainPass(admitted, dropped, failed, settled, early + late)
            \/ /\ Cardinality(admitted) + early < Free
               /\ \E t \in Tryable \ (admitted \cup dropped) : DrainThrows(t, admitted, dropped, early)

\* finish() and the drain that follows it.  A settle that throws is swallowed,
\* and another listener may take the slot first.
FinishDemand(q) ==
  /\ pc = "idle"
  /\ q \in demandRunning
  /\ demandRunning' = demandRunning \ {q}
  /\ jobRecords' = jobRecords \ {q}
  /\ \/ demandRow' = IF demandRow[q] = "running" THEN [demandRow EXCEPT ![q] = "done"] ELSE demandRow
     \/ "settle" \in DemandMayFail /\ UNCHANGED demandRow
  /\ demandActive' = demandActive \ {q}
  /\ waits' = Released({q})
  /\ others' \in {others, others + 1}
  /\ pc' = "drain"
  /\ UNCHANGED <<demandLocal, demandLeaked, subscribed, missed>>

OtherAcquires ==
  /\ pc = "idle"
  /\ Free > 0
  /\ others' = others + 1
  /\ UNCHANGED <<demandRow, demandLocal, jobRecords, demandRunning, demandActive, demandLeaked, subscribed,
                 waits, pc, missed>>

\* Another user releases its lease.  Every listener is called, in the order of
\* subscription: another one may take the slot before this runtime, which is
\* called if it subscribed.
OtherReleases ==
  /\ pc = "idle"
  /\ others > 0
  /\ others' \in {others - 1, others}
  /\ pc' = IF subscribed THEN "drain" ELSE "idle"
  /\ UNCHANGED <<demandRow, demandLocal, jobRecords, demandRunning, demandActive, demandLeaked, subscribed,
                 waits, missed>>

-----------------------------------------------------------------------------
(* waitFor, and what other processes do                                    *)

\* A caller may wait only for an operation that is pending.
Wait(c, q) ==
  /\ pc = "idle"
  /\ waits[c] = None
  /\ q \in jobRecords
  /\ waits' = [waits EXCEPT ![c] = q]
  /\ UNCHANGED <<demandRow, demandLocal, jobRecords, demandRunning, demandActive, demandLeaked, others,
                 subscribed, pc, missed>>

\* The bounded wait times out or is aborted.
GiveUp(c) ==
  /\ pc = "idle"
  /\ waits[c] # None
  /\ waits' = [waits EXCEPT ![c] = None]
  /\ UNCHANGED <<demandRow, demandLocal, jobRecords, demandRunning, demandActive, demandLeaked, others,
                 subscribed, pc, missed>>

\* Recovery elsewhere orphans, expires or interrupts a row; another process
\* claims or ends one.
Elsewhere(q) ==
  /\ \/ demandRow[q] = "mine" /\ demandRow' = [demandRow EXCEPT ![q] = "orphan"]
     \/ demandRow[q] \in {"mine", "orphan", "foreign", "running"} /\ demandRow' = [demandRow EXCEPT ![q] = "done"]
     \/ demandRow[q] \in {"none", "orphan", "done"} /\ demandRow' = [demandRow EXCEPT ![q] = "foreign"]
  /\ UNCHANGED <<demandLocal, jobRecords, demandRunning, demandActive, demandLeaked, others, subscribed, waits,
                 pc, missed>>

DemandNext ==
  \/ PromoteDemand
  \/ Drain
  \/ OtherAcquires
  \/ OtherReleases
  \/ \E q \in Demands :
       \/ Claim(q)
       \/ FinishDemand(q)
       \/ Elsewhere(q)
       \/ \E s \in Demands : SupersedeDemand(s, q)
       \/ \E c \in Callers : Wait(c, q)
  \/ \E c \in Callers : GiveUp(c)

DemandSpec == DemandInit /\ [][DemandNext]_demandVars

-----------------------------------------------------------------------------
\* The type of every variable, within the controller's capacity.
DemandTypeOK ==
  /\ demandRow \in [Demands -> {"none", "mine", "orphan", "foreign", "running", "done"}]
  /\ demandLocal \subseteq Demands
  /\ jobRecords \subseteq Demands
  /\ demandRunning \subseteq jobRecords
  /\ demandActive \subseteq Demands
  /\ demandLeaked \subseteq Demands
  /\ others \in Nat
  /\ others + Cardinality(demandActive) + Cardinality(demandLeaked) <= Slots
  /\ subscribed \in BOOLEAN
  /\ waits \in [Callers -> Demands \cup {None}]
  /\ pc \in {"idle", "drain"} \cup Demands
  /\ missed \in BOOLEAN

\* Whatever removes a record (a settled executor, a newer generation) releases
\* its waiters in the same turn.  The record of a job whose row was lost stays,
\* and its waiters wait until their own time-out.
WaitsTracked == \A c \in Callers : waits[c] # None => waits[c] \in jobRecords

\* A target has one requirement that has not started, however many generations
\* were submitted, superseded, coalesced or dropped.
OneQueuedGeneration ==
  \A s, q \in jobRecords \ demandRunning : Target[s] = Target[q] => s = q

\* The runtime stays within the capacity, nobody waits for a requirement that is
\* not tracked, and a target has one requirement that has not started.
DemandTracked == DemandTypeOK /\ WaitsTracked /\ OneQueuedGeneration

\* Between two turns of the event loop a tracked job that waits in the queue is
\* heard of at the next release, unless the last drain threw: "Drain failures
\* are retried on the next submission" (pre-edit-demand.ts:423).
WakeArmed == pc = "idle" /\ demandLocal \cap jobRecords # {} => subscribed \/ missed

\* A row this runtime started is executed until it is settled: it is never left
\* running in the store with nobody working on it.
RunningExecuted == \A q \in Demands : demandRow[q] = "running" => q \in demandRunning

\* Between two turns of the event loop no tracked job waits beside a free slot:
\* executors that fail within the drain that started them, stale rows and slots
\* that others take included.
WorkConserved == pc = "idle" /\ Free > 0 => demandLocal \cap jobRecords = {}
=============================================================================

----------------------------- MODULE HeavyJobDrain -----------------------------
(***************************************************************************)
(* drain() and the release listener that calls it, with the call stack of  *)
(* one process made explicit.                                              *)
(*                                                                         *)
(* drain() gives the lease of a row it cannot start back to the controller *)
(* before it forgets the row, and controller.release() calls its listeners *)
(* synchronously.  The shell port's listener drains at once                *)
(* (apps/cli/src/runtime/shell-heavy-admission.ts); the pre-edit runtime   *)
(* is guarded: it folds a wake that lands during a drain into one more     *)
(* pass (packages/mcp-server/src/pre-edit-demand.ts).                      *)
(***************************************************************************)
EXTENDS Integers, Sequences, SequencesExt, FiniteSets

CONSTANTS
  Jobs,
  NoJob,
  DrainSlots,  \* leases the controller gives out
  Ports,       \* the users of the queue: {"shell", "pre-edit"} or one of them
  StackLimit   \* bound: nested drains the JavaScript stack has room for

\* What the constants have to satisfy.
DrainAssumption ==
  /\ NoJob \notin Jobs /\ DrainSlots \in Nat \ {0} /\ StackLimit \in Nat \ {0}
  /\ Ports \subseteq {"shell", "pre-edit"}

VARIABLES
  port,         \* the user of the queue whose drains these are
  drainRow,     \* [Jobs -> state of the durable row]; "gone" was retired elsewhere
  drainLocal,   \* the waiter list
  drainActive,  \* the controller's leases
  drainGrants,  \* jobs handed to an executor and not yet settled
  stack,        \* Seq of the drains on the call stack, innermost last
  again,        \* wakeRequested
  retired       \* [Jobs -> how often onRetired reported the waiting row as dropped]

drainVars == <<port, drainRow, drainLocal, drainActive, drainGrants, stack, again, retired>>

\* A drain: what it has left, what it admitted, and the row whose lease it is
\* giving back while the listeners run.
Frame(todo) == [todo |-> todo, admitted |-> {}, dropping |-> NoJob]
Top == Last(stack)
Depth == Len(stack)
Push(s, f) == Append(s, f)
Pop == Front(stack)
SetTop(f) == [stack EXCEPT ![Depth] = f]

\* Is re-entry folded into one extra pass?
Guarded == port = "pre-edit"

DrainInit ==
  /\ port \in Ports
  /\ drainRow = [j \in Jobs |-> "none"]
  /\ drainLocal = {}
  /\ drainActive = {}
  /\ drainGrants = {}
  /\ stack = <<>>
  /\ again = FALSE
  /\ retired = [j \in Jobs |-> 0]

AddWaiter(j) ==
  /\ stack = <<>>
  /\ drainRow[j] \in {"none", "done", "gone"}
  /\ drainRow' = [drainRow EXCEPT ![j] = "queued"]
  /\ drainLocal' = drainLocal \cup {j}
  /\ retired' = [retired EXCEPT ![j] = 0]
  /\ UNCHANGED <<port, drainActive, drainGrants, stack, again>>

\* Another process retires or takes over the queued row, at any moment.
RetireElsewhere(j) ==
  /\ drainRow[j] = "queued"
  /\ drainRow' = [drainRow EXCEPT ![j] = "gone"]
  /\ UNCHANGED <<port, drainLocal, drainActive, drainGrants, stack, again, retired>>

StartDrain ==
  /\ stack = <<>>
  /\ drainLocal # {}
  /\ stack' = <<Frame(drainLocal)>>
  /\ UNCHANGED <<port, drainRow, drainLocal, drainActive, drainGrants, again, retired>>

Running == stack # <<>> /\ Top.dropping = NoJob

Acquires(j) == j \notin drainActive /\ Cardinality(drainActive) < DrainSlots

PassOver(j) ==
  /\ Running
  /\ j \in Top.todo
  /\ ~Acquires(j)
  /\ stack' = SetTop([Top EXCEPT !.todo = @ \ {j}])
  /\ UNCHANGED <<port, drainRow, drainLocal, drainActive, drainGrants, again, retired>>

Admit(j) ==
  /\ Running
  /\ j \in Top.todo
  /\ Acquires(j)
  /\ drainRow[j] = "queued"
  /\ drainRow' = [drainRow EXCEPT ![j] = "running"]
  /\ drainActive' = drainActive \cup {j}
  /\ drainLocal' = drainLocal \ {j}
  /\ stack' = SetTop([Top EXCEPT !.todo = @ \ {j}, !.admitted = @ \cup {j}])
  /\ UNCHANGED <<port, drainGrants, again, retired>>

Dropping(j) == SetTop([Top EXCEPT !.todo = @ \ {j}, !.dropping = j])

\* The lease of a row that cannot start goes back, and the listener runs: it
\* asks for one more pass, or drains on top of the drain that is running.
GiveBack(j) ==
  /\ Running
  /\ j \in Top.todo
  /\ Acquires(j)
  /\ drainRow[j] # "queued"
  /\ IF Guarded
       THEN again' = TRUE /\ stack' = Dropping(j)
       ELSE /\ Depth < StackLimit
            /\ stack' = Push(Dropping(j), Frame(drainLocal))
            /\ UNCHANGED again
  /\ UNCHANGED <<port, drainRow, drainLocal, drainActive, drainGrants, retired>>

\* The stack is exhausted inside the nested drain; release() swallows the
\* RangeError, which may have struck between a lease and its row.
Overflow(j) ==
  /\ Running
  /\ j \in Top.todo
  /\ Acquires(j)
  /\ drainRow[j] # "queued"
  /\ ~Guarded
  /\ Depth = StackLimit
  /\ stack' = Dropping(j)
  /\ \/ UNCHANGED drainActive
     \/ \E k \in drainLocal : Acquires(k) /\ drainActive' = drainActive \cup {k}
  /\ UNCHANGED <<port, drainRow, drainLocal, drainGrants, again, retired>>

\* Back from the listener: removeLocal() and onRetired().
Forget ==
  /\ stack # <<>>
  /\ Top.dropping # NoJob
  /\ drainLocal' = drainLocal \ {Top.dropping}
  /\ retired' = [retired EXCEPT ![Top.dropping] = @ + 1]
  /\ stack' = SetTop([Top EXCEPT !.dropping = NoJob])
  /\ UNCHANGED <<port, drainRow, drainActive, drainGrants, again>>

\* Mutant of Return: a wake during the delivery is lost.
ReturnDeaf ==
  /\ Running
  /\ Top.todo = {}
  /\ \E failed \in SUBSET Top.admitted :
       /\ drainRow' = [j \in Jobs |-> IF j \in failed THEN "done" ELSE drainRow[j]]
       /\ drainActive' = drainActive \ failed
       /\ drainGrants' = drainGrants \cup (Top.admitted \ failed)
  /\ again' = FALSE
  /\ stack' = Pop
  /\ UNCHANGED <<port, drainLocal, retired>>

\* drain() returns and its admissions go to their executors; some of them fail
\* at once, and the release of their leases drains again.
Return ==
  /\ Running
  /\ Top.todo = {}
  /\ \E failed \in SUBSET Top.admitted :
       /\ drainRow' = [j \in Jobs |-> IF j \in failed THEN "done" ELSE drainRow[j]]
       /\ drainActive' = drainActive \ failed
       /\ drainGrants' = drainGrants \cup (Top.admitted \ failed)
       /\ again' = FALSE
       /\ stack' = IF failed # {} \/ again THEN SetTop(Frame(drainLocal)) ELSE Pop
  /\ UNCHANGED <<port, drainLocal, retired>>

\* Mutant of Finish: the lease is released, the row is not settled.
FinishUnsettled(j) ==
  /\ stack = <<>>
  /\ j \in drainGrants
  /\ drainActive' = drainActive \ {j}
  /\ drainGrants' = drainGrants \ {j}
  /\ stack' = <<Frame(drainLocal)>>
  /\ UNCHANGED <<port, drainRow, drainLocal, again, retired>>

\* An executor ends: the row is settled, the lease released, the listener drains.
Finish(j) ==
  /\ stack = <<>>
  /\ j \in drainGrants
  /\ drainRow' = [drainRow EXCEPT ![j] = "done"]
  /\ drainActive' = drainActive \ {j}
  /\ drainGrants' = drainGrants \ {j}
  /\ stack' = <<Frame(drainLocal)>>
  /\ UNCHANGED <<port, drainLocal, again, retired>>

DrainNext ==
  \/ StartDrain
  \/ Forget
  \/ Return
  \/ \E j \in Jobs :
       \/ AddWaiter(j)
       \/ RetireElsewhere(j)
       \/ PassOver(j)
       \/ Admit(j)
       \/ GiveBack(j)
       \/ Overflow(j)
       \/ Finish(j)

DrainSpec == DrainInit /\ [][DrainNext]_drainVars

-----------------------------------------------------------------------------
\* The type of every variable, within the controller's capacity; the guard
\* keeps a single drain on the stack.
DrainTypeOK ==
  /\ port \in Ports
  /\ drainRow \in [Jobs -> {"none", "queued", "running", "done", "gone"}]
  /\ drainLocal \subseteq Jobs /\ drainActive \subseteq Jobs /\ drainGrants \subseteq Jobs
  /\ stack \in Seq([todo : SUBSET Jobs, admitted : SUBSET Jobs, dropping : Jobs \cup {NoJob}])
  /\ Cardinality(drainActive) <= DrainSlots
  /\ Depth <= IF Guarded THEN 1 ELSE StackLimit
  /\ again \in BOOLEAN
  /\ retired \in [Jobs -> Nat]

\* However drains nest, and whatever stale lists the outer ones still hold, an
\* attempt is admitted by one drain only and is held or granted exactly while
\* its row is running.
AdmittedByOneDrain ==
  LET inFrame(j, d) == d \in DOMAIN stack /\ j \in stack[d].admitted
  IN  \A j \in Jobs :
        /\ \A d, e \in DOMAIN stack : inFrame(j, d) /\ inFrame(j, e) => d = e
        /\ drainRow[j] = "running" <=> j \in drainGrants \/ \E d \in DOMAIN stack : inFrame(j, d)
        /\ j \in drainGrants => \A d \in DOMAIN stack : ~inFrame(j, d)

\* A dropped row is reported to the owner of the parked work once, and its lease
\* is back: between drains the leases are those of the jobs that execute.
DroppedOnce ==
  /\ \A j \in Jobs : retired[j] <= 1
  /\ stack = <<>> => drainActive = drainGrants

\* The guarded runtime drops a row once.
GuardDropsOnce == Guarded => DroppedOnce

\* Drains are safe to nest: they stay within the capacity, one drain admits an
\* attempt, and the guarded runtime reports a dropped row once and has its lease
\* back.
NestedDrainsSafe == DrainTypeOK /\ AdmittedByOneDrain /\ GuardDropsOnce

\* A release that lands in a guarded drain is not lost: when the stack is empty again, a
\* waiting job whose row is queued waits for a slot.
NoWakeLost ==
  [][Guarded /\ stack # <<>> /\ stack' = <<>> =>
       \A j \in drainLocal' : drainRow'[j] = "queued" => Cardinality(drainActive') >= DrainSlots]_drainVars
=============================================================================

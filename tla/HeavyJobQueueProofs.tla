------------------------- MODULE HeavyJobQueueProofs -------------------------
(***************************************************************************)
(* The durable heavy-job queue for any number of processes, operations and *)
(* attempts: exclusive execution, the fence of a verdict, the ownership of *)
(* a live row, the bounds of the queue and the order of its places.        *)
(*                                                                         *)
(* The inductive invariant holds even if the store throws between a lease  *)
(* and its row.  An admission that is still held has its lease in the      *)
(* controller (HeldLeased); it is of the row's present attempt or of an    *)
(* earlier one, and of the present one only once the row has left the      *)
(* queue (HeldIsPast), which makes the next start a new (operation,        *)
(* attempt) pair for every process; and if the row runs for this process,  *)
(* the admission is of the attempt that runs (RunsAsHeld), which makes a   *)
(* verdict fenced by the owner alone one about the right attempt.          *)
(*                                                                         *)
(* The line needs an invariant of its own (LineInd): finitely many rows    *)
(* have ever been written, so MAX and MIN exist, both bounds hold and no   *)
(* two queued rows share a place.  Then the queued rows form exactly one   *)
(* list, and every step joins, leaves, reorders or hands over in it as     *)
(* HeavyJobLine says.                                                      *)
(*                                                                         *)
(* That leases and running rows are accounted for exactly (Exact) needs a  *)
(* store that does not throw there.                                        *)
(***************************************************************************)
EXTENDS HeavyJobQueueRefinement, SequenceTheorems, FiniteSetTheorems, WellFoundedInduction, TLAPS

\* The types the argument needs: TypeOK without the two clocks.
RowTypeOK ==
  /\ row \in [Ops -> [state : RowStates, owner : Owners \cup {NoOwner}, attempt : Nat]]
  /\ local \in [Owners -> SUBSET Ops]
  /\ active \in [Owners -> SUBSET Ops]
  /\ todo \in [Owners -> SUBSET Ops]
  /\ admitted \in [Owners -> SUBSET Grant]
  /\ grants \in [Owners -> SUBSET Grant]
  /\ sweep \in [Owners -> SUBSET SweepAction]
  /\ alive \subseteq Owners

HeldIsPast ==
  \A o \in Owners : \A g \in Held(o) :
    /\ g.attempt <= row[g.op].attempt
    /\ g.attempt = row[g.op].attempt => row[g.op].state # "queued"

HeldLeased ==
  \A o \in Owners :
    /\ \A g \in Held(o) : g.op \in active[o]
    /\ \A g, h \in Held(o) : g.op = h.op => g = h

RunsAsHeld ==
  \A o \in Owners : \A g \in Held(o) :
    row[g.op].state = "running" /\ row[g.op].owner = o => g.attempt = row[g.op].attempt

IndInv ==
  /\ RowTypeOK
  /\ HeldLeased
  /\ OneExecutorPerAttempt
  /\ HeldIsPast
  /\ RunsAsHeld

Exact == LeaseAccounted /\ RunningBacked

-----------------------------------------------------------------------------
(* tryAcquire() admits an operation only if this process holds no lease of *)
(* it: the duplicate check comes before every ceiling.                     *)
LEMMA AdmittedIsNew ==
  ASSUME NEW o \in Owners, NEW q \in Ops, NEW sample,
         Decision(Leases(o), Request[q], sample) = "admitted"
  PROVE  q \notin active[o]
<1>1. SUFFICES ASSUME q \in active[o] PROVE FALSE
  OBVIOUS
<1>2. Request[q] \in Leases(o) /\ Request[q].op = q
  BY <1>1, QueueAssumption DEF Leases
<1>3. Decision(Leases(o), Request[q], sample) = "duplicate_operation"
  BY <1>2 DEF Decision
<1> QED
  BY <1>3

(* A step that leaves leases and grants alone and never makes a row run    *)
(* preserves the invariant if rows only move on: to a later attempt, or    *)
(* within their attempt but not back into the queue.                       *)
LEMMA RowStep ==
  ASSUME IndInv, RowTypeOK', UNCHANGED <<active, admitted, grants, alive>>,
         \A q \in Ops :
           /\ row'[q].state = "running" => row'[q] = row[q]
           /\ \/ row'[q].attempt > row[q].attempt
              \/ /\ row'[q].attempt = row[q].attempt
                 /\ row'[q].state = "queued" => row[q].state = "queued"
  PROVE  IndInv' /\ (Exact => Exact')
<1> USE DEF IndInv
<1>1. HeldLeased'
  BY DEF HeldLeased, Held
<1>2. LeaseAccounted => LeaseAccounted'
  BY DEF LeaseAccounted, Held
<1>3. RunningBacked => RunningBacked'
  BY DEF RunningBacked, Held
<1>4. OneExecutorPerAttempt'
  BY DEF OneExecutorPerAttempt, Held
<1>5. HeldIsPast'
  BY DEF HeldIsPast, Held, RowTypeOK, Grant
<1>6. RunsAsHeld'
  BY DEF RunsAsHeld, Held, RowTypeOK, Grant
<1> QED
  BY <1>1, <1>2, <1>3, <1>4, <1>5, <1>6 DEF Exact

(* A new attempt of q.                                                     *)
LEMMA RequeuedType ==
  ASSUME NEW o \in Owners, NEW q \in Ops, RowTypeOK
  PROVE  /\ Requeued(o, q) \in [state : RowStates, owner : Owners \cup {NoOwner}, attempt : Nat]
         /\ Requeued(o, q).attempt > row[q].attempt
         /\ Requeued(o, q).state # "running"
BY DEF Requeued, RowTypeOK, RowStates

(* Retiring q keeps its attempt and leaves neither queue nor running set.  *)
LEMMA RetiredType ==
  ASSUME NEW q \in Ops, NEW state \in Terminal, RowTypeOK
  PROVE  /\ Retired(q, state) \in [state : RowStates, owner : Owners \cup {NoOwner}, attempt : Nat]
         /\ Retired(q, state).attempt = row[q].attempt
         /\ Retired(q, state).state \notin {"queued", "running"}
BY DEF Retired, RowTypeOK, RowStates, Terminal

-----------------------------------------------------------------------------
LEMMA InitInd == Init => IndInv /\ Exact
BY QueueAssumption DEF Init, IndInv, Exact, RowTypeOK, HeldLeased, LeaseAccounted, RunningBacked,
   OneExecutorPerAttempt, HeldIsPast, RunsAsHeld, Held, RowStates, Grant, SweepAction, Terminal

LEMMA StoreActions ==
  ASSUME IndInv, NEW o \in Owners, NEW q \in Ops,
         Adopt(o, q) \/ Insert(o, q) \/ Cancel(o, q) \/ \E s \in Ops : Supersede(o, s, q)
  PROVE  IndInv' /\ (Exact => Exact')
<1>0. RowTypeOK /\ row[q].attempt \in Nat
  BY DEF IndInv, RowTypeOK
<1>1. CASE Adopt(o, q)
  <2>1. RowTypeOK'
    BY <1>0, <1>1 DEF Adopt, Adopted, RowTypeOK
  <2> QED
    BY <1>0, <1>1, <2>1, RowStep DEF Adopt, Adopted, Claimable, RowTypeOK
<1>2. CASE Insert(o, q)
  <2>1. RowTypeOK'
    BY <1>0, <1>2, RequeuedType DEF Insert, RowTypeOK
  <2> QED
    BY <1>0, <1>2, <2>1, RowStep, RequeuedType DEF Insert, RowTypeOK
<1>3. CASE Cancel(o, q)
  <2>0. "cancelled" \in Terminal
    BY DEF Terminal
  <2>1. RowTypeOK'
    BY <1>0, <1>3, <2>0, RetiredType DEF Cancel, RowTypeOK
  <2>2. \A p \in Ops : row'[p] = row[p] \/ (p = q /\ row'[p] = Retired(q, "cancelled"))
    BY <1>0, <1>3 DEF Cancel, RowTypeOK
  <2> QED
    BY <1>0, <1>3, <2>0, <2>1, <2>2, RowStep, RetiredType DEF Cancel
<1>4. ASSUME NEW s \in Ops, Supersede(o, s, q) PROVE IndInv' /\ (Exact => Exact')
  <2>0. row[s].attempt \in Nat /\ s # q
    BY <1>0, <1>4 DEF RowTypeOK, Supersede
  <2>1. "superseded" \in Terminal
    BY DEF Terminal
  <2>2. \A p \in Ops :
          \/ row'[p] = row[p]
          \/ p = s /\ row'[p] = Retired(s, "superseded")
          \/ p = q /\ row'[p] = Requeued(o, q)
    <3>1. \/ row' = row
          \/ row' = [row EXCEPT ![s] = Retired(s, "superseded")]
          \/ row' = [row EXCEPT ![q] = Requeued(o, q)]
          \/ row' = [row EXCEPT ![s] = Retired(s, "superseded"), ![q] = Requeued(o, q)]
      BY <1>4 DEF Supersede
    <3>2. TAKE p \in Ops
    <3>3. CASE row' = row
      BY <3>3
    <3>4. CASE row' = [row EXCEPT ![s] = Retired(s, "superseded")]
      BY <1>0, <3>4 DEF RowTypeOK
    <3>5. CASE row' = [row EXCEPT ![q] = Requeued(o, q)]
      BY <1>0, <3>5 DEF RowTypeOK
    <3>6. CASE row' = [row EXCEPT ![s] = Retired(s, "superseded"), ![q] = Requeued(o, q)]
      BY <1>0, <2>0, <3>6 DEF RowTypeOK
    <3> QED
      BY <3>1, <3>3, <3>4, <3>5, <3>6
  <2>3. row' = [p \in Ops |-> row'[p]] /\ local' \in [Owners -> SUBSET Ops]
    BY <1>0, <1>4 DEF Supersede, RowTypeOK
  <2>4. RowTypeOK'
    <3>1. \A p \in Ops : row'[p] \in [state : RowStates, owner : Owners \cup {NoOwner}, attempt : Nat]
      <4>1. TAKE p \in Ops
      <4>2. CASE row'[p] = row[p]
        BY <1>0, <4>2 DEF RowTypeOK
      <4>3. CASE p = s /\ row'[p] = Retired(s, "superseded")
        BY <1>0, <2>1, <4>3, RetiredType
      <4>4. CASE p = q /\ row'[p] = Requeued(o, q)
        BY <1>0, <4>4, RequeuedType
      <4> QED
        BY <2>2, <4>2, <4>3, <4>4
    <3>2. row' \in [Ops -> [state : RowStates, owner : Owners \cup {NoOwner}, attempt : Nat]]
      BY <2>3, <3>1
    <3> QED
      BY <1>0, <1>4, <2>3, <3>2 DEF Supersede, RowTypeOK
  <2>5. \A p \in Ops :
           /\ row'[p].state = "running" => row'[p] = row[p]
           /\ \/ row'[p].attempt > row[p].attempt
              \/ /\ row'[p].attempt = row[p].attempt
                 /\ row'[p].state = "queued" => row[p].state = "queued"
    BY <1>0, <2>1, <2>2, RequeuedType, RetiredType
  <2> QED
    BY <1>4, <2>4, <2>5, RowStep DEF Supersede
<1> QED
  BY <1>1, <1>2, <1>3, <1>4

LEMMA RecoveryActions ==
  ASSUME IndInv, NEW o \in Owners, NEW s \in sweep[o], RecoverRow(o, s)
  PROVE  IndInv' /\ (Exact => Exact')
<1>0. RowTypeOK /\ s.op \in Ops /\ row[s.op].attempt \in Nat
  BY DEF IndInv, RowTypeOK, SweepAction
<1>1. {"cancelled", "interrupted"} \subseteq Terminal
  BY DEF Terminal
<1>3. \A p \in Ops :
         \/ row'[p] = row[p]
         \/ p = s.op /\ row'[p] = [row[p] EXCEPT !.owner = NoOwner] /\ row[p].state = "queued"
         \/ p = s.op /\ \E x \in {"cancelled", "interrupted"} : row'[p] = Retired(p, x)
  BY <1>0 DEF RecoverRow, RowTypeOK
<1>2. RowTypeOK'
  <2>1. \A p \in Ops : row'[p] \in [state : RowStates, owner : Owners \cup {NoOwner}, attempt : Nat]
    <3>1. SUFFICES ASSUME NEW p \in Ops
                   PROVE  row'[p] \in [state : RowStates, owner : Owners \cup {NoOwner}, attempt : Nat]
      OBVIOUS
    <3>2. CASE row'[p] = row[p]
      BY <1>0, <3>2 DEF RowTypeOK
    <3>3. CASE row'[p] = [row[p] EXCEPT !.owner = NoOwner]
      BY <1>0, <3>3 DEF RowTypeOK
    <3>4. CASE \E x \in {"cancelled", "interrupted"} : row'[p] = Retired(p, x)
      BY <1>0, <1>1, <3>4, RetiredType
    <3> QED
      BY <1>3, <3>2, <3>3, <3>4
  <2>2. row' = [p \in Ops |-> row'[p]]
    BY <1>0 DEF RecoverRow, RowTypeOK
  <2>3. row' \in [Ops -> [state : RowStates, owner : Owners \cup {NoOwner}, attempt : Nat]]
    BY <2>1, <2>2
  <2> QED
    BY <1>0, <2>3 DEF RecoverRow, RowTypeOK
<1>4. \A p \in Ops :
         /\ row'[p].state = "running" => row'[p] = row[p]
         /\ \/ row'[p].attempt > row[p].attempt
            \/ /\ row'[p].attempt = row[p].attempt
               /\ row'[p].state = "queued" => row[p].state = "queued"
  <2>1. SUFFICES ASSUME NEW p \in Ops
                 PROVE  /\ row'[p].state = "running" => row'[p] = row[p]
                        /\ row'[p].attempt = row[p].attempt
                        /\ row'[p].state = "queued" => row[p].state = "queued"
    OBVIOUS
  <2>2. CASE row'[p] = row[p]
    BY <2>2
  <2>3. CASE row'[p] = [row[p] EXCEPT !.owner = NoOwner] /\ row[p].state = "queued"
    BY <1>0, <2>3 DEF RowTypeOK
  <2>4. CASE \E x \in {"cancelled", "interrupted"} : row'[p] = Retired(p, x)
    BY <1>0, <1>1, <2>4, RetiredType
  <2> QED
    BY <1>3, <2>2, <2>3, <2>4
<1> QED
  BY <1>2, <1>4, RowStep DEF RecoverRow

LEMMA StartAction ==
  ASSUME IndInv, NEW o \in Owners, NEW q \in Ops, NEW sample, Start(o, q, sample)
  PROVE  IndInv' /\ (Exact => Exact')
<1> USE DEF IndInv, Start
<1> DEFINE g == [op |-> q, attempt |-> row[q].attempt]
<1>0. q \notin active[o]
  BY AdmittedIsNew
<1>1. g \in Grant /\ row[q].attempt \in Nat
  BY DEF RowTypeOK, Grant
<1>2. RowTypeOK'
  BY <1>1 DEF RowTypeOK, Started, RowStates
<1>3. Held(o)' = Held(o) \cup {g} /\ \A p \in Owners \ {o} : Held(p)' = Held(p)
  BY DEF Held, RowTypeOK
<1>4. \A p \in Owners : g \notin Held(p)
  BY DEF HeldIsPast, Startable
<1>5. active'[o] = active[o] \cup {q} /\ \A p \in Owners \ {o} : active'[p] = active[p]
  BY DEF RowTypeOK
<1>6. HeldLeased'
  BY <1>0, <1>3, <1>5 DEF HeldLeased
<1>7. LeaseAccounted => LeaseAccounted'
  <2>1. SUFFICES ASSUME LeaseAccounted PROVE LeaseAccounted'
    OBVIOUS
  <2>2. ASSUME NEW p \in Owners PROVE active'[p] = {h.op : h \in Held(p)'}
    <3>1. CASE p = o
      <4>1. {h.op : h \in Held(o) \cup {g}} = {h.op : h \in Held(o)} \cup {g.op}
        BY Zenon
      <4> QED
        BY <1>3, <1>5, <2>1, <3>1, <4>1 DEF LeaseAccounted
    <3>2. CASE p # o
      BY <1>3, <1>5, <2>1, <3>2 DEF LeaseAccounted
    <3> QED
      BY <3>1, <3>2
  <2> QED
    BY <1>6, <2>2 DEF LeaseAccounted, HeldLeased
<1>8. RunningBacked => RunningBacked'
  BY <1>3 DEF RunningBacked, Started, Startable, RowTypeOK
<1>9. OneExecutorPerAttempt'
  BY <1>3, <1>4 DEF OneExecutorPerAttempt
<1>10. HeldIsPast'
  BY <1>1, <1>3 DEF HeldIsPast, Started, RowTypeOK, Grant
<1>11. RunsAsHeld'
  <2>1. \A p \in Ops \ {q} : row'[p] = row[p]
    BY DEF RowTypeOK
  <2>2. row'[q].owner = o /\ row'[q].attempt = row[q].attempt
    BY DEF Started, Startable, RowTypeOK
  <2>3. \A h \in Held(o) : h.op # q
    BY <1>0 DEF HeldLeased
  <2>4. \A p \in Owners : \A h \in Held(p) : h.op \in Ops
    BY DEF Held, RowTypeOK, Grant
  <2> QED
    BY <1>3, <2>1, <2>2, <2>3, <2>4 DEF RunsAsHeld
<1> QED
  BY <1>2, <1>6, <1>7, <1>8, <1>9, <1>10, <1>11 DEF Exact

LEMMA DeliverAction ==
  ASSUME IndInv, NEW o \in Owners, Deliver(o)
  PROVE  IndInv' /\ (Exact => Exact')
<1> USE DEF IndInv, Deliver
<1>1. RowTypeOK'
  BY DEF RowTypeOK, store
<1>2. \A p \in Owners : Held(p)' = Held(p)
  BY DEF Held, RowTypeOK
<1>3. row' = row /\ active' = active /\ alive' = alive
  BY DEF store
<1> QED
  BY <1>1, <1>2, <1>3 DEF HeldLeased, LeaseAccounted, RunningBacked, OneExecutorPerAttempt, HeldIsPast,
                          RunsAsHeld, Exact

LEMMA SettleAction ==
  ASSUME IndInv, NEW o \in Owners, NEW g \in grants[o], NEW x \in {"completed", "failed"},
         Settle(o, g, x)
  PROVE  IndInv' /\ (Exact => Exact')
<1> USE DEF IndInv, Settle
<1>0. g \in Grant /\ g.op \in Ops /\ row[g.op].attempt \in Nat /\ RowTypeOK
  BY DEF RowTypeOK, Grant
<1>1. /\ x \in Terminal
      /\ \A p \in Ops : IF p = g.op /\ row[p].state = "running" /\ row[p].owner = o
                          THEN row'[p] = Retired(p, x) ELSE row'[p] = row[p]
  BY <1>0 DEF RowTypeOK, Terminal
<1>9. RowTypeOK'
  BY <1>0, <1>1, RetiredType DEF RowTypeOK
<1>2. Held(o)' = Held(o) \ {g} /\ \A p \in Owners \ {o} : Held(p)' = Held(p)
  BY DEF Held, RowTypeOK, Idle
<1>3. HeldLeased' /\ (LeaseAccounted => LeaseAccounted')
  <2>1. active'[o] = active[o] \ {g.op} /\ \A p \in Owners \ {o} : active'[p] = active[p]
    BY DEF RowTypeOK
  <2>2. g \in Held(o)
    BY DEF Held
  <2>3. HeldLeased'
    BY <1>2, <2>1, <2>2 DEF HeldLeased
  <2>4. ASSUME LeaseAccounted, NEW p \in Owners PROVE active'[p] = {h.op : h \in Held(p)'}
    BY <1>2, <2>1, <2>2, <2>4 DEF LeaseAccounted
  <2> QED
    BY <2>3, <2>4 DEF LeaseAccounted, HeldLeased
<1>4. RunningBacked => RunningBacked'
  <2>1. SUFFICES ASSUME RunningBacked, NEW q \in Ops, row'[q].state = "running"
                 PROVE  /\ row'[q].owner \in Owners
                        /\ \A p \in alive : p = row'[q].owner =>
                             [op |-> q, attempt |-> row'[q].attempt] \in grants'[p] \cup admitted'[p]
    BY DEF RunningBacked, Held
  <2>2. row'[q] = row[q]
    BY <1>0, <1>1, <2>1, RetiredType
  <2>3. row[q].owner = o => q # g.op
    BY <1>0, <1>1, <2>1, RetiredType
  <2> QED
    BY <1>0, <1>2, <2>1, <2>2, <2>3 DEF RunningBacked, Grant, Held, RowTypeOK
<1>5. OneExecutorPerAttempt'
  BY <1>2 DEF OneExecutorPerAttempt
<1>6. HeldIsPast'
  <2>1. \A p \in Ops : row'[p].attempt = row[p].attempt /\ (row'[p].state = "queued" => row[p].state = "queued")
    BY <1>0, <1>1, RetiredType
  <2>2. \A p \in Owners : \A h \in Held(p)' : h \in Held(p) /\ h.op \in Ops
    BY <1>2 DEF Held, RowTypeOK, Grant
  <2> QED
    BY <2>1, <2>2 DEF HeldIsPast
<1>7. RunsAsHeld'
  <2>1. \A p \in Ops : row'[p].state = "running" => row'[p] = row[p]
    BY <1>0, <1>1, RetiredType
  <2>2. \A p \in Owners : \A h \in Held(p)' : h \in Held(p) /\ h.op \in Ops
    BY <1>2 DEF Held, RowTypeOK, Grant
  <2> QED
    BY <2>1, <2>2 DEF RunsAsHeld
<1> QED
  BY <1>9, <1>3, <1>4, <1>5, <1>6, <1>7 DEF Exact

LEMMA CrashAction ==
  ASSUME IndInv, NEW o \in Owners, Crash(o)
  PROVE  IndInv' /\ (Exact => Exact')
<1> USE DEF IndInv, Crash
<1>1. RowTypeOK'
  BY DEF RowTypeOK, store
<1>2. Held(o)' = {} /\ \A p \in Owners \ {o} : Held(p)' = Held(p)
  BY DEF Held, RowTypeOK
<1>3. row' = row /\ active'[o] = {} /\ \A p \in Owners \ {o} : active'[p] = active[p]
  BY DEF store, RowTypeOK
<1>4. HeldLeased' /\ (LeaseAccounted => LeaseAccounted')
  BY <1>2, <1>3 DEF HeldLeased, LeaseAccounted
<1>5. RunningBacked => RunningBacked'
  BY <1>2, <1>3 DEF RunningBacked
<1>6. OneExecutorPerAttempt'
  BY <1>2 DEF OneExecutorPerAttempt
<1>7. HeldIsPast'
  BY <1>2, <1>3 DEF HeldIsPast
<1>8. RunsAsHeld'
  BY <1>2, <1>3 DEF RunsAsHeld
<1> QED
  BY <1>1, <1>4, <1>5, <1>6, <1>7, <1>8 DEF Exact

\* The store throws after a lease was taken, or before it is given back: a lease
\* without an admission stays behind.
LEMMA ThrowingActions ==
  ASSUME IndInv, NEW o \in Owners,
         \/ \E q \in Ops, sample \in Samples : StartThrows(o, q, sample)
         \/ \E g \in grants[o] : SettleThrows(o, g)
  PROVE  IndInv'
<1> USE DEF IndInv
<1>1. CASE \E q \in Ops, sample \in Samples : StartThrows(o, q, sample)
  <2>1. PICK q \in Ops, sample \in Samples : StartThrows(o, q, sample)
    BY <1>1
  <2>2. RowTypeOK' /\ row' = row
    BY <2>1 DEF StartThrows, RowTypeOK, store
  <2>3. \A p \in Owners : Held(p)' \subseteq Held(p) /\ active[p] \subseteq active'[p]
    BY <2>1 DEF StartThrows, Held, RowTypeOK
  <2> QED
    BY <2>2, <2>3 DEF HeldLeased, OneExecutorPerAttempt, HeldIsPast, RunsAsHeld
<1>2. CASE \E g \in grants[o] : SettleThrows(o, g)
  <2>1. PICK g \in grants[o] : SettleThrows(o, g)
    BY <1>2
  <2>2. RowTypeOK' /\ row' = row /\ active' = active
    BY <2>1 DEF SettleThrows, RowTypeOK, store
  <2>3. \A p \in Owners : Held(p)' \subseteq Held(p)
    BY <2>1 DEF SettleThrows, Held, RowTypeOK
  <2> QED
    BY <2>2, <2>3 DEF HeldLeased, OneExecutorPerAttempt, HeldIsPast, RunsAsHeld
<1> QED
  BY <1>1, <1>2

LEMMA QuietActions ==
  ASSUME IndInv,
         \/ \E o \in Owners, q \in Ops : Promote(o, q)
         \/ \E o \in Owners, q \in Ops, sample \in Samples : Deny(o, q, sample) \/ DropStale(o, q, sample)
         \/ \E o \in Owners : Pump(o) \/ Heartbeat(o) \/ BeginSweep(o)
         \/ \E q \in Ops : MissHeartbeats(q) \/ Age(q)
         \/ UNCHANGED vars
  PROVE  IndInv' /\ (Exact => Exact')
<1>1. UNCHANGED <<row, active, admitted, grants, alive>>
  BY DEF Promote, Deny, DropStale, Pump, Heartbeat, BeginSweep, MissHeartbeats, Age, vars, store, process
<1>2. RowTypeOK'
  BY DEF IndInv, RowTypeOK, Promote, Deny, DropStale, Pump, Heartbeat, BeginSweep,
         MissHeartbeats, Age, vars, store, process
<1> QED
  BY <1>1, <1>2, RowStep DEF IndInv, RowTypeOK

LEMMA StepInd ==
  ASSUME IndInv, [Next]_vars
  PROVE  IndInv' /\ (StoreMayFail = FALSE /\ Exact => Exact')
<1>1. ASSUME NEW o \in Owners, NEW q \in Ops, TryCandidate(o, q)
      PROVE  IndInv' /\ (StoreMayFail = FALSE /\ Exact => Exact')
  <2>1. PICK sample \in Samples :
          \/ Deny(o, q, sample) \/ DropStale(o, q, sample)
          \/ Start(o, q, sample)
          \/ StartThrows(o, q, sample)
    BY <1>1 DEF TryCandidate
  <2>2. CASE StartThrows(o, q, sample)
    BY <2>2, ThrowingActions DEF StartThrows
  <2> QED
    BY <2>1, <2>2, StartAction, QuietActions
<1>2. ASSUME NEW o \in Owners, NEW g \in grants[o], SettleThrows(o, g)
      PROVE  IndInv' /\ (StoreMayFail = FALSE /\ Exact => Exact')
  BY <1>2, ThrowingActions DEF SettleThrows
<1> QED
  BY <1>1, <1>2, StoreActions, RecoveryActions, DeliverAction, SettleAction, CrashAction, QuietActions
     DEF Next, Enqueue, Reattach

LEMMA Invariance == Spec => []IndInv
<1>1. IndInv /\ [Next]_vars => IndInv'
  BY StepInd
<1> QED
  BY <1>1, InitInd, PTL DEF Spec

LEMMA ExactInvariance == StoreMayFail = FALSE => (Spec => []Exact)
<1>1. SUFFICES ASSUME StoreMayFail = FALSE PROVE Spec => []Exact
  OBVIOUS
<1>2. IndInv /\ Exact /\ [Next]_vars => Exact'
  BY <1>1, StepInd
<1> QED
  BY <1>2, InitInd, Invariance, PTL DEF Spec

-----------------------------------------------------------------------------
(* The clocks belong to live rows: whatever retires a row, or puts it back *)
(* into the queue, stamps it in the same transaction.                      *)
LEMMA ClockStep ==
  ASSUME RowTypeOK, TypeOK, [Next]_vars
  PROVE  stale' \subseteq {q \in Ops : Live(q)'} /\ aged' \subseteq {q \in Ops : row'[q].state = "queued"}
<1> USE DEF TypeOK, RowTypeOK, Live, Queued
<1>1. ASSUME NEW o \in Owners, NEW q \in Ops, Enqueue(o, q) \/ Reattach(o, q) \/ Cancel(o, q)
      PROVE  stale' \subseteq {p \in Ops : Live(p)'} /\ aged' \subseteq {p \in Ops : row'[p].state = "queued"}
  BY <1>1 DEF Enqueue, Reattach, Adopt, Insert, Cancel, Beat, Restamp, Adopted, Requeued, Claimable
<1>2. ASSUME NEW o \in Owners, NEW q \in Ops, NEW s \in Ops, Supersede(o, s, q)
      PROVE  stale' \subseteq {p \in Ops : Live(p)'} /\ aged' \subseteq {p \in Ops : row'[p].state = "queued"}
  BY <1>2 DEF Supersede, Restamp, Requeued
<1>3. ASSUME NEW o \in Owners, NEW q \in Ops, Promote(o, q) \/ TryCandidate(o, q)
      PROVE  stale' \subseteq {p \in Ops : Live(p)'} /\ aged' \subseteq {p \in Ops : row'[p].state = "queued"}
  BY <1>3 DEF Promote, TryCandidate, Deny, Start, DropStale, StartThrows, Restamp, store
<1>4. ASSUME NEW o \in Owners, NEW g \in grants[o],
             SettleThrows(o, g) \/ \E x \in {"completed", "failed"} : Settle(o, g, x)
      PROVE  stale' \subseteq {p \in Ops : Live(p)'} /\ aged' \subseteq {p \in Ops : row'[p].state = "queued"}
  BY <1>4 DEF SettleThrows, Settle, Restamp, store, Grant
<1>5. ASSUME NEW o \in Owners, NEW s \in sweep[o], RecoverRow(o, s)
      PROVE  stale' \subseteq {p \in Ops : Live(p)'} /\ aged' \subseteq {p \in Ops : row'[p].state = "queued"}
  BY <1>5 DEF RecoverRow, Beat, Restamp, SweepAction
<1>6. ASSUME \/ \E o \in Owners : Pump(o) \/ Deliver(o) \/ Heartbeat(o) \/ Crash(o) \/ BeginSweep(o)
             \/ \E q \in Ops : MissHeartbeats(q) \/ Age(q)
             \/ UNCHANGED vars
      PROVE  stale' \subseteq {p \in Ops : Live(p)'} /\ aged' \subseteq {p \in Ops : row'[p].state = "queued"}
  BY <1>6 DEF Pump, Deliver, Heartbeat, Crash, BeginSweep, MissHeartbeats, Age, vars, store
<1> QED
  BY <1>1, <1>2, <1>3, <1>4, <1>5, <1>6 DEF Next

(* Type correctness of the queue, for any number of processes and          *)
(* operations.                                                             *)
THEOREM TypeCorrect == Spec => []TypeOK
<1>1. Init => TypeOK
  BY QueueAssumption, InitInd DEF Init, TypeOK, RowTypeOK, IndInv
<1>2. IndInv /\ IndInv' /\ TypeOK /\ [Next]_vars => TypeOK'
  BY ClockStep DEF IndInv, RowTypeOK, TypeOK, Live, Queued
<1> QED
  BY <1>1, <1>2, Invariance, PTL DEF Spec

(* Capacity is never leaked or granted twice, whatever processes, crashes  *)
(* and recovery sweeps do, as long as no store call throws mid-way.        *)
THEOREM LeasesAccounted == StoreMayFail = FALSE => (Spec => []LeaseAccounted)
BY ExactInvariance, PTL DEF Exact

(* A running row of a live process is always backed by the admission of    *)
(* exactly that attempt.                                                   *)
THEOREM RunningRowsBacked == StoreMayFail = FALSE => (Spec => []RunningBacked)
BY ExactInvariance, PTL DEF Exact

(* No attempt is ever executed by two processes.                           *)
THEOREM ExclusiveExecution == Spec => []OneExecutorPerAttempt
BY Invariance, PTL DEF IndInv

(* A verdict closes only the attempt whose executor reports it: the grant  *)
(* being settled is of the attempt that runs for this owner.               *)
THEOREM VerdictsFenced == Spec => SettleFenced
<1> DEFINE Fenced ==
      \A q \in Ops :
        row[q].state = "running" /\ row'[q].state \in {"completed", "failed"} =>
          \E o \in Owners : [op |-> q, attempt |-> row[q].attempt] \in grants[o] \ grants'[o]
<1>1. ASSUME IndInv, [Next]_vars PROVE [Fenced]_vars
  <2>0. SUFFICES ASSUME NEW q \in Ops, row[q].state = "running",
                        row'[q].state \in {"completed", "failed"}
                 PROVE  \E o \in Owners : [op |-> q, attempt |-> row[q].attempt] \in grants[o] \ grants'[o]
    OBVIOUS
  <2>1. ASSUME NEW o \in Owners, NEW g \in grants[o], NEW x \in {"completed", "failed"}, Settle(o, g, x)
        PROVE  [op |-> q, attempt |-> row[q].attempt] \in grants[o] \ grants'[o]
    <3>1. g.op = q /\ row[q].owner = o /\ o \in alive /\ admitted[o] = {}
      BY <1>1, <2>0, <2>1 DEF Settle, Idle, IndInv, RowTypeOK, Grant
    <3>2. g \in Grant /\ g \in Held(o)
      BY <1>1, <2>1 DEF IndInv, RowTypeOK, Held
    <3>3. g = [op |-> q, attempt |-> row[q].attempt]
      BY <1>1, <2>0, <3>1, <3>2 DEF IndInv, RunsAsHeld, Grant
    <3> QED
      BY <1>1, <2>1, <3>3 DEF Settle, IndInv, RowTypeOK
  <2>2. \E o \in Owners : \E g \in grants[o], x \in {"completed", "failed"} : Settle(o, g, x)
    <3>1. row # row' /\ row \in [Ops -> [state : RowStates, owner : Owners \cup {NoOwner}, attempt : Nat]]
      BY <1>1, <2>0 DEF IndInv, RowTypeOK
    <3>2. ASSUME NEW o \in Owners, NEW p \in Ops,
                 \/ Enqueue(o, p) \/ Reattach(o, p) \/ Cancel(o, p)
                 \/ \E s \in Ops : Supersede(o, s, p)
          PROVE  FALSE
      BY <2>0, <3>1, <3>2 DEF Enqueue, Reattach, Adopt, Insert, Cancel, Supersede, Adopted, Requeued,
                              Retired, Claimable, Live
    <3>3. ASSUME NEW o \in Owners, NEW p \in Ops, Promote(o, p) \/ TryCandidate(o, p)
          PROVE  FALSE
      BY <2>0, <3>1, <3>3 DEF Promote, TryCandidate, Deny, Start, DropStale, StartThrows, Started,
                              Startable, store
    <3>4. ASSUME NEW o \in Owners, NEW s \in sweep[o], RecoverRow(o, s) PROVE FALSE
      BY <2>0, <3>1, <3>4 DEF RecoverRow, Retired
    <3>5. ASSUME NEW o \in Owners, Pump(o) \/ Deliver(o) \/ Heartbeat(o) \/ Crash(o) \/ BeginSweep(o)
          PROVE  FALSE
      BY <3>1, <3>5 DEF Pump, Deliver, Heartbeat, Crash, BeginSweep, store
    <3>6. ASSUME NEW o \in Owners, NEW g \in grants[o], SettleThrows(o, g) PROVE FALSE
      BY <3>1, <3>6 DEF SettleThrows, store
    <3>7. ASSUME NEW p \in Ops, MissHeartbeats(p) \/ Age(p) PROVE FALSE
      BY <3>1, <3>7 DEF MissHeartbeats, Age
    <3> QED
      BY <1>1, <3>1, <3>2, <3>3, <3>4, <3>5, <3>6, <3>7 DEF Next, vars
  <2> QED
    BY <2>1, <2>2
<1> QED
  BY <1>1, Invariance, PTL DEF Spec, SettleFenced

(* A live row passes from one process to another only through recovery:    *)
(* adopting takes the caller's own row or an orphaned one.                 *)
THEOREM OwnersKeepTheirRows == Spec => OwnerNotDisplaced
<1> DEFINE Kept ==
      \A q \in Ops :
        Live(q) /\ row[q].owner # NoOwner /\ row'[q].state \in {"queued", "running"} =>
          row'[q].owner \in {row[q].owner, NoOwner}
<1>1. ASSUME IndInv, [Next]_vars PROVE Kept
  <2>1. SUFFICES ASSUME NEW q \in Ops, Live(q), row[q].owner # NoOwner,
                        row'[q].state \in {"queued", "running"}, row'[q] # row[q]
                 PROVE  row'[q].owner \in {row[q].owner, NoOwner}
    OBVIOUS
  <2>2. row \in [Ops -> [state : RowStates, owner : Owners \cup {NoOwner}, attempt : Nat]]
    BY <1>1 DEF IndInv, RowTypeOK
  <2>3. ASSUME NEW o \in Owners, NEW p \in Ops,
               \/ Enqueue(o, p) \/ Reattach(o, p) \/ Cancel(o, p)
               \/ \E s \in Ops : Supersede(o, s, p)
        PROVE  row'[q].owner \in {row[q].owner, NoOwner}
    <3>1. CASE Adopt(o, p)
      BY <2>1, <2>2, <3>1 DEF Adopt, Adopted, Claimable
    <3>2. CASE Insert(o, p)
      BY <2>1, <2>2, <3>2 DEF Insert, Live
    <3>3. CASE Cancel(o, p)
      BY <2>1, <2>2, <3>3 DEF Cancel, Retired
    <3>4. ASSUME NEW s \in Ops, Supersede(o, s, p) PROVE row'[q].owner \in {row[q].owner, NoOwner}
      BY <2>1, <2>2, <3>4 DEF Supersede, Retired, Requeued, Live
    <3> QED
      BY <2>3, <3>1, <3>2, <3>3, <3>4 DEF Enqueue, Reattach
  <2>4. ASSUME NEW o \in Owners, NEW p \in Ops, Promote(o, p) \/ TryCandidate(o, p)
        PROVE  row'[q].owner \in {row[q].owner, NoOwner}
    BY <2>1, <2>2, <2>4 DEF Promote, TryCandidate, Deny, Start, DropStale, StartThrows, Started, store
  <2>5. ASSUME NEW o \in Owners, NEW s \in sweep[o], RecoverRow(o, s)
        PROVE  row'[q].owner \in {row[q].owner, NoOwner}
    BY <2>1, <2>2, <2>5 DEF RecoverRow, Retired
  <2>6. ASSUME NEW o \in Owners, NEW g \in grants[o],
               SettleThrows(o, g) \/ \E x \in {"completed", "failed"} : Settle(o, g, x)
        PROVE  row'[q].owner \in {row[q].owner, NoOwner}
    BY <2>1, <2>2, <2>6 DEF SettleThrows, Settle, Retired, store
  <2>7. ASSUME NEW o \in Owners, Pump(o) \/ Deliver(o) \/ Heartbeat(o) \/ Crash(o) \/ BeginSweep(o)
        PROVE  row' = row
    BY <2>7 DEF Pump, Deliver, Heartbeat, Crash, BeginSweep, store
  <2>8. ASSUME NEW p \in Ops, MissHeartbeats(p) \/ Age(p) PROVE row' = row
    BY <2>8 DEF MissHeartbeats, Age
  <2> QED
    BY <1>1, <2>1, <2>3, <2>4, <2>5, <2>6, <2>7, <2>8 DEF Next, vars
<1>2. IndInv /\ [Next]_vars => [Kept]_vars
  BY <1>1
<1> QED
  BY <1>2, Invariance, PTL DEF Spec, OwnerNotDisplaced

-----------------------------------------------------------------------------
(* The bounds of the queue and the order of its places.  Rows and places   *)
(* that were ever used are finitely many, for an unbounded set of          *)
(* operations too (UsedFinite): the largest and the smallest place exist.  *)

LEMMA FiniteExtremes ==
  ASSUME NEW S, S \subseteq Int, IsFiniteSet(S), S # {}
  PROVE  /\ Max(S) \in S /\ \A y \in S : y <= Max(S)
         /\ Min(S) \in S /\ \A y \in S : Min(S) <= y
<1> DEFINE Bad == {A \in FiniteSubsetsOf(S) :
                     A # {} /\ ~ ( /\ \E x \in A : \A y \in A : x >= y
                                  /\ \E x \in A : \A y \in A : x =< y )}
<1>1. Bad = {}
  <2>1. SUFFICES ASSUME Bad # {} PROVE FALSE
    OBVIOUS
  <2>2. Bad \subseteq FiniteSubsetsOf(S)
    OBVIOUS
  <2>3. PICK A \in Bad : \A B \in Bad : ~ (<<B, A>> \in StrictSubsetOrdering(S))
    <3> HIDE DEF Bad
    <3> QED
      BY <2>1, <2>2, FS_StrictSubsetOrderingWellFounded, WFMin
  <2>4. A \subseteq S /\ A # {} /\ IsFiniteSet(A)
    BY <2>3 DEF FiniteSubsetsOf
  <2>5. PICK e \in A : TRUE
    BY <2>4
  <2>6. A \ {e} \in FiniteSubsetsOf(S) /\ <<A \ {e}, A>> \in StrictSubsetOrdering(S)
    BY <2>4, <2>5, FS_Subset DEF FiniteSubsetsOf, StrictSubsetOrdering
  <2>7. A \ {e} \notin Bad
    BY <2>3, <2>6
  <2>8. CASE A = {e}
    BY <2>3, <2>4, <2>8
  <2>9. CASE A # {e}
    <3>1. PICK m \in A \ {e}, n \in A \ {e} :
            /\ \A y \in A \ {e} : m >= y
            /\ \A y \in A \ {e} : n =< y
      BY <2>6, <2>7, <2>9
    <3>2. m \in Int /\ n \in Int /\ e \in Int /\ A \subseteq Int
      BY <2>4, <2>5, <3>1
    <3>3. \E x \in A : \A y \in A : x >= y
      <4>1. CASE m >= e
        BY <3>1, <3>2, <4>1
      <4>2. CASE e >= m
        <5>1. \A y \in A : e >= y
          BY <3>1, <3>2, <4>2
        <5> QED
          BY <2>5, <5>1
      <4> QED
        BY <3>2, <4>1, <4>2
    <3>4. \E x \in A : \A y \in A : x =< y
      <4>1. CASE n =< e
        BY <3>1, <3>2, <4>1
      <4>2. CASE e =< n
        <5>1. \A y \in A : e =< y
          BY <3>1, <3>2, <4>2
        <5> QED
          BY <2>5, <5>1
      <4> QED
        BY <3>2, <4>1, <4>2
    <3> QED
      BY <2>3, <3>3, <3>4
  <2> QED
    BY <2>8, <2>9
<1>2. S \in FiniteSubsetsOf(S)
  BY DEF FiniteSubsetsOf
<1>3. (\E x \in S : \A y \in S : x >= y) /\ (\E x \in S : \A y \in S : x =< y)
  BY <1>1, <1>2
<1>4. Max(S) \in S /\ \A y \in S : Max(S) >= y
  BY <1>3 DEF Max
<1>5. Min(S) \in S /\ \A y \in S : Min(S) =< y
  BY <1>3 DEF Min
<1>6. \A y \in S : y \in Int
  OBVIOUS
<1> QED
  BY <1>4, <1>5, <1>6

Used == {q \in Ops : row[q].state # "none"}
Mates(r) == {p \in Queued : Workspace(p) = Workspace(r)}
UsedFinite == IsFiniteSet(Used)

LineInd == UsedFinite /\ LineBounded

LEMMA QueuedFinite ==
  ASSUME UsedFinite
  PROVE  /\ Queued \subseteq Used
         /\ \A S \in SUBSET Used : IsFiniteSet(S) /\ Cardinality(S) \in Nat
         /\ \A S \in SUBSET Used : \A T \in SUBSET S : Cardinality(T) <= Cardinality(S)
<1>1. Queued \subseteq Used
  BY DEF Queued, Used
<1>2. \A S \in SUBSET Used : IsFiniteSet(S) /\ Cardinality(S) \in Nat
  BY FS_Subset, FS_CardinalityType DEF UsedFinite
<1>3. \A S \in SUBSET Used : \A T \in SUBSET S : Cardinality(T) <= Cardinality(S)
  BY <1>2, FS_Subset
<1> QED
  BY <1>1, <1>2, <1>3

\* The places of finitely many rows are finitely many.
LEMMA PlacesFinite ==
  ASSUME position \in [Ops -> Int], NEW Q \in SUBSET Ops, IsFiniteSet(Q)
  PROVE  {position[q] : q \in Q} \subseteq Int /\ IsFiniteSet({position[q] : q \in Q})
<1> DEFINE f == [q \in Q |-> position[q]]
           P == {position[q] : q \in Q}
<1>1. f \in Surjection(Q, P)
  BY DEF Surjection
<1>2. IsFiniteSet(P)
  <2> HIDE DEF f, P
  <2> QED
    BY <1>1, FS_Surjection
<1> QED
  BY <1>2

\* MAX + 1 is behind every row ever used.
LEMMA NextIsLast ==
  ASSUME position \in [Ops -> Int], UsedFinite
  PROVE  NextPosition \in Int /\ \A p \in Used : position[p] < NextPosition
<1> DEFINE taken == {position[q] : q \in Used}
<1>1. taken \subseteq Int /\ IsFiniteSet(taken)
  BY PlacesFinite DEF UsedFinite, Used
<1>2. NextPosition = IF taken = {} THEN 1 ELSE Max(taken) + 1
  BY DEF NextPosition, Used
<1>3. \A p \in Used : position[p] \in taken
  OBVIOUS
<1> HIDE DEF taken
<1>4. CASE taken = {}
  BY <1>2, <1>3, <1>4
<1>5. CASE taken # {}
  <2>1. Max(taken) \in Int /\ \A y \in taken : y <= Max(taken)
    BY <1>1, <1>5, FiniteExtremes
  <2>2. NextPosition = Max(taken) + 1
    BY <1>2, <1>5
  <2> QED
    <3>1. ASSUME NEW p \in Used PROVE position[p] < NextPosition
      <4>1. position[p] \in taken /\ position[p] \in Int
        BY <1>1, <1>3, <3>1
      <4> QED
        BY <2>1, <2>2, <4>1
    <3> QED
      BY <2>1, <2>2, <3>1
<1> QED
  BY <1>4, <1>5

\* MIN - 1 over the other queued rows is before each of them.
LEMMA HeadIsFirst ==
  ASSUME position \in [Ops -> Int], UsedFinite, NEW q \in Ops
  PROVE  HeadPosition(q) \in Int /\ \A p \in Queued \ {q} : HeadPosition(q) < position[p]
<1> DEFINE others == {position[p] : p \in Queued \ {q}}
<1>0. Queued \ {q} \subseteq Ops /\ IsFiniteSet(Queued \ {q})
  BY QueuedFinite DEF Queued
<1>1. others \subseteq Int /\ IsFiniteSet(others)
  BY <1>0, PlacesFinite
<1>2. HeadPosition(q) = (IF others = {} THEN 0 ELSE Min(others)) - 1
  BY DEF HeadPosition
<1>3. \A p \in Queued \ {q} : position[p] \in others
  OBVIOUS
<1> HIDE DEF others
<1>4. CASE others = {}
  BY <1>2, <1>3, <1>4
<1>5. CASE others # {}
  <2>1. Min(others) \in Int /\ \A y \in others : Min(others) <= y
    BY <1>1, <1>5, FiniteExtremes
  <2>2. HeadPosition(q) = Min(others) - 1
    BY <1>2, <1>5
  <2> QED
    <3>1. ASSUME NEW p \in Queued \ {q} PROVE HeadPosition(q) < position[p]
      <4>1. position[p] \in others /\ position[p] \in Int
        BY <1>1, <1>3, <3>1
      <4> QED
        BY <2>1, <2>2, <4>1
    <3> QED
      BY <2>1, <2>2, <3>1
<1> QED
  BY <1>4, <1>5

-----------------------------------------------------------------------------
(* What a step does to the line: rows leave it, one jumps to its head, one *)
(* joins it, or one hands its place over.                                  *)

LEMMA RowsLeave ==
  ASSUME LineInd, Queued' \subseteq Queued, Used' \subseteq Used, position' = position
  PROVE  LineInd'
<1>1. UsedFinite'
  BY FS_Subset DEF LineInd, UsedFinite
<1>2. Cardinality(Queued') <= Cardinality(Queued) /\ Cardinality(Queued') \in Nat
      /\ Cardinality(Queued) \in Nat
  BY QueuedFinite DEF LineInd
<1>3. ASSUME NEW r \in Ops
      PROVE  /\ Cardinality(Mates(r)') <= Cardinality(Mates(r))
             /\ Cardinality(Mates(r)') \in Nat /\ Cardinality(Mates(r)) \in Nat
  <2>1. Mates(r)' \subseteq Mates(r) /\ Mates(r) \subseteq Used
    BY QueuedFinite DEF LineInd, Mates, Workspace
  <2> QED
    BY <2>1, QueuedFinite DEF LineInd
<1>4. QueueBounded'
  <2>1. Cardinality(Queued) <= MaxQueued /\ \A r \in Ops : Cardinality(Mates(r)) <= MaxQueuedPerWorkspace
    BY DEF LineInd, LineBounded, QueueBounded, Mates
  <2>2. Cardinality(Queued') <= MaxQueued
    BY <1>2, <2>1, QueueAssumption
  <2>3. \A r \in Ops : Cardinality(Mates(r)') <= MaxQueuedPerWorkspace
    BY <1>3, <2>1, QueueAssumption
  <2> QED
    BY <2>2, <2>3 DEF QueueBounded, Mates
<1>5. DistinctPositions'
  BY DEF LineInd, LineBounded, DistinctPositions
<1> QED
  BY <1>1, <1>4, <1>5 DEF LineInd, LineBounded

LEMMA RowJumps ==
  ASSUME LineInd, UNCHANGED row, NEW q \in Ops, q \in Queued,
         position' = [position EXCEPT ![q] = HeadPosition(q)]
  PROVE  LineInd'
<1>1. position \in [Ops -> Int] /\ UsedFinite
  BY DEF LineInd, LineBounded, DistinctPositions
<1>2. HeadPosition(q) \in Int /\ \A p \in Queued \ {q} : HeadPosition(q) < position[p]
  BY <1>1, HeadIsFirst
<1>3. Queued' = Queued /\ Used' = Used
  BY DEF Queued, Used
<1>4. DistinctPositions'
  <2>1. position' \in [Ops -> Int] /\ position'[q] = HeadPosition(q)
        /\ \A p \in Ops \ {q} : position'[p] = position[p]
    BY <1>1, <1>2
  <2>2. Queued \subseteq Ops
    BY DEF Queued
  <2> QED
    BY <1>1, <1>2, <1>3, <2>1, <2>2 DEF LineInd, LineBounded, DistinctPositions
<1>5. QueueBounded' /\ UsedFinite'
  BY <1>1, <1>3 DEF LineInd, LineBounded, QueueBounded, UsedFinite, Workspace
<1> QED
  BY <1>4, <1>5 DEF LineInd, LineBounded

LEMMA RowJoins ==
  ASSUME LineInd, NEW q \in Ops, q \notin Queued, HasRoom(q),
         Queued' = Queued \cup {q}, Used' = Used \cup {q},
         position' = [position EXCEPT ![q] = NextPosition]
  PROVE  LineInd'
<1>1. position \in [Ops -> Int] /\ UsedFinite
  BY DEF LineInd, LineBounded, DistinctPositions
<1>2. NextPosition \in Int /\ \A p \in Used : position[p] < NextPosition
  BY <1>1, NextIsLast
<1>3. UsedFinite'
  BY <1>1, FS_AddElement DEF UsedFinite
<1>4. DistinctPositions'
  <2>1. position' \in [Ops -> Int] /\ position'[q] = NextPosition
        /\ \A p \in Ops \ {q} : position'[p] = position[p]
    BY <1>1, <1>2
  <2>2. Queued \subseteq Ops /\ Queued \subseteq Used
    BY DEF Queued, Used
  <2> QED
    BY <1>1, <1>2, <2>1, <2>2 DEF LineInd, LineBounded, DistinctPositions
<1>5. Cardinality(Queued') <= MaxQueued
  <2>1. Cardinality(Queued') = Cardinality(Queued) + 1 /\ Cardinality(Queued) \in Nat
    BY <1>1, QueuedFinite, FS_AddElement
  <2> QED
    BY <2>1, QueueAssumption DEF HasRoom
<1>6. ASSUME NEW r \in Ops PROVE Cardinality(Mates(r)') <= MaxQueuedPerWorkspace
  <2>1. Mates(r) \subseteq Used /\ q \notin Mates(r) /\ MaxQueuedPerWorkspace \in Nat
    BY QueueAssumption DEF Mates, Queued, Used
  <2>2. IsFiniteSet(Mates(r)) /\ Cardinality(Mates(r)) \in Nat
    BY <1>1, <2>1, QueuedFinite
  <2>3. CASE Workspace(q) = Workspace(r)
    <3>1. Mates(r)' = Mates(r) \cup {q}
      BY <2>3 DEF Mates, Workspace
    <3>2. Cardinality(Mates(r) \cup {q}) = Cardinality(Mates(r)) + 1
      BY <2>1, <2>2, FS_AddElement
    <3>3. Mates(q) = Mates(r)
      BY <2>3 DEF Mates
    <3>4. Cardinality(Mates(q)) < MaxQueuedPerWorkspace
      BY DEF HasRoom, Mates
    <3> QED
      BY <2>1, <2>2, <3>1, <3>2, <3>3, <3>4
  <2>4. CASE Workspace(q) # Workspace(r)
    <3>1. Mates(r)' = Mates(r)
      BY <2>4 DEF Mates, Workspace
    <3> QED
      BY <3>1 DEF LineInd, LineBounded, QueueBounded, Mates
  <2> QED
    BY <2>3, <2>4
<1> QED
  BY <1>3, <1>4, <1>5, <1>6 DEF LineInd, LineBounded, QueueBounded, Mates

LEMMA RowHandsOver ==
  ASSUME LineInd, NEW s \in Ops, NEW q \in Ops, s \in Queued, q \notin Queued,
         Workspace(s) = Workspace(q),
         Queued' = (Queued \ {s}) \cup {q}, Used' = Used \cup {q},
         position' = [position EXCEPT ![q] = InheritedPosition(s)]
  PROVE  LineInd'
<1>1. position \in [Ops -> Int] /\ UsedFinite
  BY DEF LineInd, LineBounded, DistinctPositions
<1>2. UsedFinite'
  BY <1>1, FS_AddElement DEF UsedFinite
<1>3. DistinctPositions'
  <2>1. position' \in [Ops -> Int] /\ position'[q] = position[s]
        /\ \A p \in Ops \ {q} : position'[p] = position[p]
    BY <1>1 DEF InheritedPosition
  <2>2. Queued \subseteq Ops
    BY DEF Queued
  <2> QED
    BY <1>1, <2>1, <2>2 DEF LineInd, LineBounded, DistinctPositions
<1>4. ASSUME NEW S \in SUBSET Used, s \in S, q \notin S
      PROVE  Cardinality((S \ {s}) \cup {q}) = Cardinality(S)
  <2>1. IsFiniteSet(S) /\ Cardinality(S) \in Nat
    BY <1>1, QueuedFinite
  <2>2. IsFiniteSet(S \ {s}) /\ Cardinality(S \ {s}) = Cardinality(S) - 1
    BY <1>4, <2>1, FS_RemoveElement
  <2>3. Cardinality((S \ {s}) \cup {q}) = Cardinality(S \ {s}) + 1
    BY <1>4, <2>2, FS_AddElement
  <2> QED
    BY <2>1, <2>2, <2>3
<1>5. Cardinality(Queued') = Cardinality(Queued)
  BY <1>1, <1>4, QueuedFinite
<1>6. ASSUME NEW r \in Ops PROVE Cardinality(Mates(r)') = Cardinality(Mates(r))
  <2>1. CASE Workspace(q) = Workspace(r)
    <3>1. Mates(r)' = (Mates(r) \ {s}) \cup {q} /\ s \in Mates(r) /\ q \notin Mates(r)
      BY <2>1 DEF Mates, Workspace
    <3>2. Mates(r) \subseteq Used
      BY <1>1, QueuedFinite DEF Mates
    <3> QED
      BY <1>4, <3>1, <3>2
  <2>2. CASE Workspace(q) # Workspace(r)
    BY <2>2 DEF Mates, Workspace
  <2> QED
    BY <2>1, <2>2
<1>7. QueueBounded'
  BY <1>5, <1>6 DEF LineInd, LineBounded, QueueBounded, Mates
<1> QED
  BY <1>2, <1>3, <1>7 DEF LineInd, LineBounded

LEMMA LineStep ==
  ASSUME IndInv, LineInd, [Next]_vars
  PROVE  LineInd'
<1>1. /\ row \in [Ops -> [state : RowStates, owner : Owners \cup {NoOwner}, attempt : Nat]]
      /\ \A o \in Owners : sweep[o] \subseteq SweepAction /\ grants[o] \subseteq Grant
  BY DEF IndInv, RowTypeOK
<1>2. ASSUME NEW o \in Owners, NEW q \in Ops, Adopt(o, q) PROVE LineInd'
  <2>1. Queued' = Queued /\ Used' = Used /\ position' = position
    BY <1>1, <1>2 DEF Adopt, Adopted, Queued, Used
  <2> QED
    BY <2>1, RowsLeave
<1>3. ASSUME NEW o \in Owners, NEW q \in Ops, Insert(o, q) PROVE LineInd'
  <2>1. q \notin Queued /\ Queued' = Queued \cup {q} /\ Used' = Used \cup {q}
    BY <1>1, <1>3 DEF Insert, Requeued, Live, Queued, Used
  <2> QED
    BY <1>3, <2>1, RowJoins DEF Insert
<1>4. ASSUME NEW o \in Owners, NEW q \in Ops, Promote(o, q) PROVE LineInd'
  <2>1. CASE Claimable(o, q)
    <3>1. q \in Queued
      BY <2>1 DEF Claimable, Queued
    <3> QED
      BY <1>4, <2>1, <3>1, RowJumps DEF Promote
  <2>2. CASE ~Claimable(o, q)
    BY <1>4, <2>2, RowsLeave DEF Promote, Queued, Used
  <2> QED
    BY <2>1, <2>2
<1>5. ASSUME NEW o \in Owners, NEW q \in Ops, Cancel(o, q) PROVE LineInd'
  <2>1. Queued' \subseteq Queued /\ Used' \subseteq Used /\ position' = position
    BY <1>1, <1>5 DEF Cancel, Claimable, Retired, Queued, Used
  <2> QED
    BY <2>1, RowsLeave
<1>6. ASSUME NEW o \in Owners, NEW s \in Ops, NEW q \in Ops, Supersede(o, s, q) PROVE LineInd'
  <2>1. CASE Live(q)
    <3>1. Queued' \subseteq Queued /\ Used' \subseteq Used /\ position' = position
      BY <1>1, <1>6, <2>1 DEF Supersede, Claimable, Retired, Queued, Used
    <3> QED
      BY <3>1, RowsLeave
  <2>2. CASE ~Live(q) /\ ~Claimable(o, s)
    <3>1. /\ HasRoom(q) /\ row' = [row EXCEPT ![q] = Requeued(o, q)]
          /\ position' = [position EXCEPT ![q] = NextPosition]
      BY <1>6, <2>2 DEF Supersede
    <3>2. q \notin Queued /\ Queued' = Queued \cup {q} /\ Used' = Used \cup {q}
      BY <1>1, <2>2, <3>1 DEF Requeued, Live, Queued, Used
    <3> QED
      BY <3>1, <3>2, RowJoins
  <2>3. CASE ~Live(q) /\ Claimable(o, s)
    <3>1. /\ row' = [row EXCEPT ![s] = Retired(s, "superseded"), ![q] = Requeued(o, q)]
          /\ position' = [position EXCEPT ![q] = InheritedPosition(s)]
          /\ s # q /\ Workspace(s) = Workspace(q)
      BY <1>6, <2>3 DEF Supersede
    <3>2. s \in Queued /\ q \notin Queued
      BY <2>3 DEF Claimable, Live, Queued
    <3>3. /\ row'[q].state = "queued" /\ row'[s].state = "superseded"
          /\ \A p \in Ops \ {s, q} : row'[p] = row[p]
      BY <1>1, <3>1 DEF Requeued, Retired
    <3>4. Queued' = (Queued \ {s}) \cup {q} /\ Used' = Used \cup {q}
      BY <3>1, <3>2, <3>3 DEF Queued, Used
    <3> QED
      BY <3>1, <3>2, <3>4, RowHandsOver
  <2> QED
    BY <2>1, <2>2, <2>3
<1>7. ASSUME NEW o \in Owners, NEW q \in Ops, TryCandidate(o, q) PROVE LineInd'
  <2>1. Queued' \subseteq Queued /\ Used' \subseteq Used /\ position' = position
    BY <1>1, <1>7 DEF TryCandidate, Deny, Start, DropStale, StartThrows, Started, Startable, store, Queued, Used
  <2> QED
    BY <2>1, RowsLeave
<1>8. ASSUME NEW o \in Owners, NEW g \in grants[o],
             SettleThrows(o, g) \/ \E x \in {"completed", "failed"} : Settle(o, g, x)
      PROVE  LineInd'
  <2>1. g.op \in Ops
    BY <1>1 DEF Grant
  <2>2. Queued' \subseteq Queued /\ Used' \subseteq Used /\ position' = position
    BY <1>1, <1>8, <2>1 DEF SettleThrows, Settle, Retired, store, Queued, Used
  <2> QED
    BY <2>2, RowsLeave
<1>9. ASSUME NEW o \in Owners, NEW s \in sweep[o], RecoverRow(o, s) PROVE LineInd'
  <2>1. s.op \in Ops
    BY <1>1 DEF SweepAction
  <2>2. Queued' \subseteq Queued /\ Used' \subseteq Used /\ position' = position
    BY <1>1, <1>9, <2>1 DEF RecoverRow, Retired, Queued, Used
  <2> QED
    BY <2>2, RowsLeave
<1>10. ASSUME \/ \E o \in Owners : Pump(o) \/ Deliver(o) \/ Heartbeat(o) \/ Crash(o) \/ BeginSweep(o)
              \/ \E q \in Ops : MissHeartbeats(q) \/ Age(q)
              \/ UNCHANGED vars
       PROVE  LineInd'
  <2>1. UNCHANGED <<row, position>>
    BY <1>10 DEF Pump, Deliver, Heartbeat, Crash, BeginSweep, MissHeartbeats, Age, vars, store
  <2> QED
    BY <2>1, RowsLeave DEF Queued, Used
<1> QED
  BY <1>2, <1>3, <1>4, <1>5, <1>6, <1>7, <1>8, <1>9, <1>10 DEF Next, Enqueue, Reattach

LEMMA InitLine == Init => LineInd
<1> SUFFICES ASSUME Init PROVE LineInd
  OBVIOUS
<1>1. Queued = {} /\ Used = {} /\ \A r \in Ops : Mates(r) = {}
  BY DEF Init, Queued, Used, Mates
<1>2. IsFiniteSet({}) /\ Cardinality({}) = 0
  BY FS_EmptySet
<1>3. QueueBounded
  BY <1>1, <1>2, QueueAssumption DEF QueueBounded, Mates
<1>4. DistinctPositions
  BY <1>1 DEF Init, DistinctPositions
<1> QED
  BY <1>1, <1>2, <1>3, <1>4 DEF LineInd, UsedFinite, LineBounded

(* The queue keeps both of its bounds, although a supersede takes a place  *)
(* without asking for room, and no two queued rows share a position,       *)
(* whatever processes claim, promote, supersede and recover in whatever    *)
(* order: assertQueueCapacity() counts before a claim takes a place, a      *)
(* claim's place is nextPosition(), MAX + 1, and a promotion's MIN - 1.     *)
THEOREM LineKept == Spec => []LineBounded
<1>1. IndInv /\ LineInd /\ [Next]_vars => LineInd'
  BY LineStep
<1>2. LineInd => LineBounded
  BY DEF LineInd
<1> QED
  BY <1>1, <1>2, InitLine, Invariance, PTL DEF Spec

-----------------------------------------------------------------------------
(* The waiting line of a finite set of rows with distinct places: it       *)
(* exists, there is one only, and it changes with the set as HeavyJobLine  *)
(* says.                                                                   *)

Distinct(Q, place) == \A p, q \in Q : place[p] = place[q] => p = q

LEMMA ListExists ==
  ASSUME NEW Q \in SUBSET Ops, IsFiniteSet(Q), NEW place \in [Ops -> Int], Distinct(Q, place)
  PROVE  \E s : Lists(s, Q, place)
<1> DEFINE Bad == {A \in FiniteSubsetsOf(Q) : ~ \E s : Lists(s, A, place)}
<1>1. Bad = {}
  <2>1. SUFFICES ASSUME Bad # {} PROVE FALSE
    OBVIOUS
  <2>2. Bad \subseteq FiniteSubsetsOf(Q)
    OBVIOUS
  <2>3. PICK A \in Bad : \A B \in Bad : ~ (<<B, A>> \in StrictSubsetOrdering(Q))
    <3> HIDE DEF Bad
    <3> QED
      BY <2>1, <2>2, FS_StrictSubsetOrderingWellFounded, WFMin
  <2>4. A \subseteq Q /\ IsFiniteSet(A) /\ Cardinality(A) \in Nat /\ ~ \E s : Lists(s, A, place)
    BY <2>3, FS_CardinalityType DEF FiniteSubsetsOf
  <2>5. CASE A = {}
    <3>1. Cardinality(A) = 0
      BY <2>5, FS_EmptySet
    <3>2. Lists([i \in 1..0 |-> 0], A, place)
      BY <2>5, <3>1 DEF Lists
    <3> QED
      BY <2>4, <3>2
  <2>6. CASE A # {}
    <3> DEFINE P == {place[a] : a \in A}
    <3>1. P \subseteq Int /\ IsFiniteSet(P) /\ P # {}
      <4> DEFINE f == [a \in A |-> place[a]]
      <4>1. f \in Surjection(A, P)
        BY DEF Surjection
      <4>2. P \subseteq Int /\ P # {}
        BY <2>4, <2>6
      <4> HIDE DEF f, P
      <4> QED
        BY <2>4, <4>1, <4>2, FS_Surjection
    <3>2. PICK m \in A : place[m] = Max(P)
      <4>1. Max(P) \in P
        BY <3>1, FiniteExtremes
      <4> QED
        BY <4>1
    <3>3. \A a \in A : place[a] <= place[m]
      <4>1. \A y \in P : y <= Max(P)
        BY <3>1, FiniteExtremes
      <4> QED
        BY <3>2, <4>1
    <3> HIDE DEF P
    <3>4. \A a \in A \ {m} : place[a] < place[m]
      BY <2>4, <3>2, <3>3 DEF Distinct
    <3>5. A \ {m} \in FiniteSubsetsOf(Q) /\ <<A \ {m}, A>> \in StrictSubsetOrdering(Q)
      BY <2>4, <3>2, FS_Subset DEF FiniteSubsetsOf, StrictSubsetOrdering
    <3>6. PICK s : Lists(s, A \ {m}, place)
      BY <2>3, <3>5
    <3> DEFINE n == Cardinality(A \ {m})
               t == [i \in 1..(n + 1) |-> IF i <= n THEN s[i] ELSE m]
    <3>7. n \in Nat /\ Cardinality(A) = n + 1
      <4>1. IsFiniteSet(A \ {m}) /\ Cardinality(A \ {m}) = Cardinality(A) - 1
        BY <2>4, <3>2, FS_RemoveElement
      <4>2. n \in Nat
        BY <4>1, FS_CardinalityType
      <4> QED
        BY <2>4, <4>1, <4>2
    <3>8. /\ s \in [1..n -> A \ {m}]
          /\ \A q \in A \ {m} : \E i \in 1..n : s[i] = q
          /\ \A i, j \in 1..n : i < j => place[s[i]] < place[s[j]]
      BY <3>6 DEF Lists
    <3> HIDE DEF n
    <3>9. t \in [1..(n + 1) -> A]
      BY <3>2, <3>7, <3>8
    <3>10. \A q \in A : \E i \in 1..(n + 1) : t[i] = q
      <4>1. t[n + 1] = m /\ n + 1 \in 1..(n + 1)
        BY <3>7
      <4>2. \A i \in 1..n : i \in 1..(n + 1) /\ t[i] = s[i]
        BY <3>7
      <4> HIDE DEF t
      <4> QED
        BY <3>8, <4>1, <4>2
    <3>11. \A i, j \in 1..(n + 1) : i < j => place[t[i]] < place[t[j]]
      <4>1. TAKE i, j \in 1..(n + 1)
      <4>2. HAVE i < j
      <4>3. i \in 1..n /\ t[i] = s[i] /\ s[i] \in A \ {m}
        BY <3>7, <3>8, <4>2
      <4>4. CASE j \in 1..n
        <5>1. t[j] = s[j]
          BY <3>7, <4>4
        <5> HIDE DEF t
        <5> QED
          BY <3>8, <4>2, <4>3, <4>4, <5>1
      <4>5. CASE j = n + 1
        <5>1. t[j] = m
          BY <3>7, <4>5
        <5> HIDE DEF t
        <5> QED
          BY <3>4, <4>3, <5>1
      <4> QED
        BY <3>7, <4>4, <4>5
    <3>12. DOMAIN t = 1..(n + 1)
      OBVIOUS
    <3> HIDE DEF t
    <3>13. Lists(t, A, place)
      BY <3>7, <3>9, <3>10, <3>11, <3>12 DEF Lists
    <3> QED
      BY <2>4, <3>13
  <2> QED
    BY <2>5, <2>6
<1>2. Q \in FiniteSubsetsOf(Q)
  BY DEF FiniteSubsetsOf
<1> QED
  BY <1>1, <1>2

LEMMA ListUnique ==
  ASSUME NEW Q \in SUBSET Ops, IsFiniteSet(Q), NEW place \in [Ops -> Int],
         NEW s, Lists(s, Q, place), NEW t, Lists(t, Q, place)
  PROVE  s = t
<1> DEFINE n == Cardinality(Q)
           D == {i \in 1..n : s[i] # t[i]}
<1>1. n \in Nat /\ s \in [1..n -> Q] /\ t \in [1..n -> Q]
  BY FS_CardinalityType DEF Lists
<1>2. /\ \A q \in Q : \E i \in 1..n : s[i] = q
      /\ \A q \in Q : \E i \in 1..n : t[i] = q
      /\ \A i, j \in 1..n : i < j => place[s[i]] < place[s[j]] /\ place[t[i]] < place[t[j]]
  BY <1>1 DEF Lists
<1> HIDE DEF n
<1>3. SUFFICES ASSUME D # {} PROVE FALSE
  BY <1>1
<1>4. D \subseteq Int /\ IsFiniteSet(D)
  <2>1. IsFiniteSet(1..n)
    BY <1>1, FS_Interval
  <2> QED
    BY <1>1, <2>1, FS_Subset
<1>5. PICK k \in D : \A i \in D : k <= i
  <2> HIDE DEF D
  <2> QED
    BY <1>3, <1>4, FiniteExtremes
<1>6. k \in 1..n /\ s[k] # t[k] /\ \A i \in 1..n : i < k => s[i] = t[i]
  BY <1>1, <1>5
<1> HIDE DEF D
<1>7. PICK i \in 1..n : t[i] = s[k]
  BY <1>1, <1>2, <1>6
<1>8. PICK j \in 1..n : s[j] = t[k]
  BY <1>1, <1>2, <1>6
<1>9. place[s[k]] \in Int /\ place[t[k]] \in Int
  BY <1>1, <1>6
<1>10. i > k
  <2>1. CASE i < k
    <3>1. s[i] = s[k]
      BY <1>6, <1>7, <2>1
    <3> QED
      BY <1>2, <1>6, <1>9, <2>1, <3>1
  <2>2. i # k
    BY <1>6, <1>7
  <2> QED
    BY <1>1, <1>6, <2>1, <2>2
<1>11. j > k
  <2>1. CASE j < k
    <3>1. t[j] = t[k]
      BY <1>6, <1>8, <2>1
    <3> QED
      BY <1>2, <1>6, <1>9, <2>1, <3>1
  <2>2. j # k
    BY <1>6, <1>8
  <2> QED
    BY <1>1, <1>6, <2>1, <2>2
<1>12. place[t[k]] < place[s[k]]
  BY <1>2, <1>6, <1>7, <1>10
<1>13. place[s[k]] < place[t[k]]
  BY <1>2, <1>6, <1>8, <1>11
<1> QED
  BY <1>9, <1>12, <1>13

LEMMA LineLists ==
  ASSUME NEW Q \in SUBSET Ops, IsFiniteSet(Q), NEW place \in [Ops -> Int], Distinct(Q, place)
  PROVE  /\ Lists(LineOf(Q, place), Q, place)
         /\ \A s : Lists(s, Q, place) => LineOf(Q, place) = s
<1>1. \E s \in [1..Cardinality(Q) -> Q] : Lists(s, Q, place)
  BY ListExists DEF Lists
<1>2. Lists(LineOf(Q, place), Q, place)
  BY <1>1 DEF LineOf
<1> QED
  BY <1>2, ListUnique

LEMMA LineTyped ==
  ASSUME NEW Q \in SUBSET Ops, IsFiniteSet(Q), NEW place, NEW s, Lists(s, Q, place)
  PROVE  /\ s \in Seq(Ops) /\ Len(s) = Cardinality(Q) /\ DOMAIN s = 1..Cardinality(Q)
         /\ Cardinality(Q) \in Nat
         /\ \A i \in 1..Cardinality(Q) : s[i] \in Q
         /\ \A q \in Q : \E i \in 1..Cardinality(Q) : s[i] = q
         /\ \A i, j \in 1..Cardinality(Q) : i < j => place[s[i]] < place[s[j]]
<1>1. Cardinality(Q) \in Nat
  BY FS_CardinalityType
<1>2. /\ s \in [1..Cardinality(Q) -> Q] /\ DOMAIN s = 1..Cardinality(Q)
      /\ \A q \in Q : \E i \in DOMAIN s : s[i] = q
      /\ \A i, j \in DOMAIN s : i < j => place[s[i]] < place[s[j]]
  BY DEF Lists
<1>3. s \in Seq(Ops)
  BY <1>1, <1>2
<1> QED
  BY <1>1, <1>2, <1>3

\* A sequence without its i-th element.
LEMMA Removed ==
  ASSUME NEW S, NEW s \in Seq(S), NEW i \in 1..Len(s)
  PROVE  Line!RemoveAt(s, i) =
           [k \in 1..(Len(s) - 1) |-> IF k < i THEN s[k] ELSE s[k + 1]]
<1> DEFINE u == SubSeq(s, 1, i - 1)
           v == SubSeq(s, i + 1, Len(s))
<1>1. Len(s) \in Nat /\ i \in Nat
  OBVIOUS
<1>2. u \in Seq(S) /\ Len(u) = i - 1 /\ \A k \in 1..(i - 1) : u[k] = s[k]
  BY <1>1
<1>3. v \in Seq(S) /\ Len(v) = Len(s) - i /\ \A k \in 1..(Len(s) - i) : v[k] = s[k + i]
  BY <1>1
<1>4. Line!RemoveAt(s, i) = u \o v
  BY DEF Line!RemoveAt
<1> HIDE DEF u, v
<1>5. /\ u \o v \in Seq(S) /\ Len(u \o v) = Len(s) - 1
      /\ \A k \in 1..(Len(s) - 1) : (u \o v)[k] = IF k < i THEN s[k] ELSE s[k + 1]
  <2>1. /\ u \o v \in Seq(S) /\ Len(u \o v) = Len(u) + Len(v)
        /\ \A k \in 1..Len(u) + Len(v) :
             (u \o v)[k] = IF k <= Len(u) THEN u[k] ELSE v[k - Len(u)]
    BY <1>2, <1>3, ConcatProperties
  <2>2. Len(u \o v) = Len(s) - 1
    BY <1>1, <1>2, <1>3, <2>1
  <2>3. ASSUME NEW k \in 1..(Len(s) - 1)
        PROVE  (u \o v)[k] = IF k < i THEN s[k] ELSE s[k + 1]
    <3>1. CASE k < i
      <4>1. k \in 1..Len(u) + Len(v) /\ k <= Len(u) /\ k \in 1..(i - 1)
        BY <1>1, <1>2, <1>3, <3>1
      <4> QED
        BY <1>2, <2>1, <3>1, <4>1
    <3>2. CASE ~(k < i)
      <4>1. (u \o v)[k] = v[k - Len(u)]
        <5>1. k \in 1..Len(u) + Len(v) /\ ~(k <= Len(u))
          BY <1>1, <1>2, <1>3, <3>2
        <5> QED
          BY <2>1, <5>1
      <4>2. k - Len(u) = k - i + 1 /\ k - i + 1 \in 1..(Len(s) - i) /\ (k - i + 1) + i = k + 1
        BY <1>1, <1>2, <3>2
      <4> QED
        BY <1>3, <3>2, <4>1, <4>2
    <3> QED
      BY <3>1, <3>2
  <2> QED
    BY <2>1, <2>2, <2>3
<1>6. u \o v = [k \in 1..(Len(s) - 1) |-> (u \o v)[k]]
  BY <1>5, LenProperties
<1> QED
  BY <1>4, <1>5, <1>6

\* A row leaves the line.
LEMMA LineWithout ==
  ASSUME NEW Q \in SUBSET Ops, IsFiniteSet(Q), NEW place \in [Ops -> Int], Distinct(Q, place),
         NEW q \in Q
  PROVE  \E i \in DOMAIN LineOf(Q, place) :
           /\ LineOf(Q, place)[i] = q
           /\ LineOf(Q \ {q}, place) = Line!RemoveAt(LineOf(Q, place), i)
           /\ Lists(Line!RemoveAt(LineOf(Q, place), i), Q \ {q}, place)
<1> DEFINE s == LineOf(Q, place)
           n == Cardinality(Q)
<1>1. Lists(s, Q, place)
  BY LineLists
<1> HIDE DEF s
<1>2. /\ s \in Seq(Ops) /\ Len(s) = n /\ DOMAIN s = 1..n /\ n \in Nat
      /\ \A i \in 1..n : s[i] \in Q
      /\ \A p \in Q : \E i \in 1..n : s[i] = p
      /\ \A i, j \in 1..n : i < j => place[s[i]] < place[s[j]]
  BY <1>1, LineTyped
<1>3. PICK i \in 1..n : s[i] = q
  BY <1>2
<1>4. IsFiniteSet(Q \ {q}) /\ Cardinality(Q \ {q}) = n - 1
  BY FS_RemoveElement
<1> HIDE DEF n
<1> DEFINE t == [k \in 1..(n - 1) |-> IF k < i THEN s[k] ELSE s[k + 1]]
<1>5. Line!RemoveAt(s, i) = t
  <2>1. i \in 1..Len(s) /\ Len(s) = n
    BY <1>2, <1>3
  <2>2. Line!RemoveAt(s, i) = [k \in 1..(Len(s) - 1) |-> IF k < i THEN s[k] ELSE s[k + 1]]
    BY <1>2, <2>1, Removed
  <2> QED
    BY <2>1, <2>2
<1>6. ASSUME NEW j \in 1..n, j # i PROVE s[j] # q
  <2>1. place[s[i]] \in Int /\ place[s[j]] \in Int
    BY <1>2
  <2> QED
    BY <1>2, <1>3, <1>6, <2>1
<1>7. t \in [1..(n - 1) -> Q \ {q}]
  BY <1>2, <1>3, <1>6
<1>8. \A p \in Q \ {q} : \E k \in 1..(n - 1) : t[k] = p
  <2>1. TAKE p \in Q \ {q}
  <2>2. PICK j \in 1..n : s[j] = p
    BY <1>2
  <2>3. CASE j < i
    <3>1. j \in 1..(n - 1) /\ t[j] = s[j]
      BY <1>2, <2>3
    <3> QED
      BY <2>2, <3>1
  <2>4. CASE j > i
    <3>1. j - 1 \in 1..(n - 1) /\ t[j - 1] = s[j]
      BY <1>2, <2>4
    <3> QED
      BY <2>2, <3>1
  <2>5. j # i
    BY <1>3, <2>1, <2>2
  <2> QED
    BY <1>2, <2>3, <2>4, <2>5
<1>9. \A j, k \in 1..(n - 1) : j < k => place[t[j]] < place[t[k]]
  <2>1. TAKE j, k \in 1..(n - 1)
  <2>2. HAVE j < k
  <2> DEFINE a == IF j < i THEN j ELSE j + 1
             b == IF k < i THEN k ELSE k + 1
  <2>3. i \in Int /\ j \in Int /\ k \in Int /\ 1 <= j /\ j <= n - 1 /\ 1 <= k /\ k <= n - 1
    BY <1>2
  <2>4. a \in 1..n /\ t[j] = s[a]
    BY <1>2, <2>3
  <2>5. b \in 1..n /\ t[k] = s[b]
    BY <1>2, <2>3
  <2>6. a < b
    BY <1>2, <2>2, <2>3
  <2> HIDE DEF a, b, t
  <2> QED
    BY <1>2, <2>4, <2>5, <2>6
<1>10. Lists(t, Q \ {q}, place)
  <2>1. DOMAIN t = 1..(n - 1)
    OBVIOUS
  <2> HIDE DEF t
  <2> QED
    BY <1>4, <1>7, <1>8, <1>9, <2>1 DEF Lists
<1>11. LineOf(Q \ {q}, place) = t
  <2> HIDE DEF t
  <2>1. Distinct(Q \ {q}, place)
    BY DEF Distinct
  <2> QED
    BY <1>4, <1>10, <2>1, LineLists
<1> QED
  BY <1>2, <1>3, <1>5, <1>10, <1>11 DEF s

\* A row joins at the end.
LEMMA LineJoined ==
  ASSUME NEW Q \in SUBSET Ops, IsFiniteSet(Q), NEW place \in [Ops -> Int], Distinct(Q, place),
         NEW q \in Ops \ Q, NEW last \in Int, \A p \in Q : place[p] < last
  PROVE  LineOf(Q \cup {q}, [place EXCEPT ![q] = last]) = Append(LineOf(Q, place), q)
<1> DEFINE s == LineOf(Q, place)
           n == Cardinality(Q)
           new == [place EXCEPT ![q] = last]
           t == Append(s, q)
<1>1. Lists(s, Q, place)
  BY LineLists
<1>2. new \in [Ops -> Int] /\ new[q] = last /\ \A p \in Q : new[p] = place[p]
  OBVIOUS
<1>3. Distinct(Q \cup {q}, new)
  BY <1>2 DEF Distinct
<1>4. Q \cup {q} \in SUBSET Ops /\ IsFiniteSet(Q \cup {q}) /\ Cardinality(Q \cup {q}) = n + 1
  BY FS_AddElement
<1> HIDE DEF s, new
<1>5. /\ s \in Seq(Ops) /\ Len(s) = n /\ n \in Nat
      /\ \A i \in 1..n : s[i] \in Q
      /\ \A p \in Q : \E i \in 1..n : s[i] = p
      /\ \A i, j \in 1..n : i < j => place[s[i]] < place[s[j]]
  BY <1>1, LineTyped
<1> HIDE DEF n
<1>6. /\ t \in Seq(Ops) /\ Len(t) = n + 1 /\ DOMAIN t = 1..(n + 1) /\ t[n + 1] = q
      /\ \A i \in 1..n : t[i] = s[i]
  BY <1>5
<1> HIDE DEF t
<1>7. \A i \in 1..(n + 1) : t[i] \in Q \cup {q} /\ (i \in 1..n \/ i = n + 1)
  BY <1>5, <1>6
<1>8. t \in [1..(n + 1) -> Q \cup {q}]
  BY <1>5, <1>6, <1>7
<1>9. \A p \in Q \cup {q} : \E i \in 1..(n + 1) : t[i] = p
  <2>1. n + 1 \in 1..(n + 1) /\ 1..n \subseteq 1..(n + 1)
    BY <1>5
  <2> QED
    BY <1>5, <1>6, <2>1
<1>10. \A i, j \in 1..(n + 1) : i < j => new[t[i]] < new[t[j]]
  <2>1. TAKE i, j \in 1..(n + 1)
  <2>2. HAVE i < j
  <2>3. i \in 1..n
    BY <1>5, <2>2
  <2>4. t[i] = s[i] /\ s[i] \in Q
    BY <1>5, <1>6, <2>3
  <2>5. CASE j \in 1..n
    BY <1>2, <1>5, <1>6, <2>2, <2>3, <2>4, <2>5
  <2>6. CASE j = n + 1
    BY <1>2, <1>6, <2>4, <2>6
  <2> QED
    BY <1>7, <2>5, <2>6
<1>11. Lists(t, Q \cup {q}, new)
  BY <1>4, <1>6, <1>8, <1>9, <1>10 DEF Lists
<1>12. LineOf(Q \cup {q}, new) = t
  BY <1>2, <1>3, <1>4, <1>11, LineLists
<1> QED
  BY <1>12 DEF t, new, s

\* A row jumps to the front.
LEMMA LineJumped ==
  ASSUME NEW Q \in SUBSET Ops, IsFiniteSet(Q), NEW place \in [Ops -> Int], Distinct(Q, place),
         NEW q \in Q, NEW first \in Int, \A p \in Q \ {q} : first < place[p]
  PROVE  \E i \in DOMAIN LineOf(Q, place) :
           /\ LineOf(Q, place)[i] = q
           /\ LineOf(Q, [place EXCEPT ![q] = first]) = <<q>> \o Line!RemoveAt(LineOf(Q, place), i)
<1> DEFINE new == [place EXCEPT ![q] = first]
<1>1. PICK i \in DOMAIN LineOf(Q, place) :
        /\ LineOf(Q, place)[i] = q
        /\ Lists(Line!RemoveAt(LineOf(Q, place), i), Q \ {q}, place)
  BY LineWithout
<1> DEFINE r == Line!RemoveAt(LineOf(Q, place), i)
           n == Cardinality(Q \ {q})
           t == <<q>> \o r
<1>2. IsFiniteSet(Q \ {q}) /\ Cardinality(Q) = n + 1
  <2>1. IsFiniteSet(Q \ {q}) /\ Cardinality(Q \ {q}) = Cardinality(Q) - 1 /\ Cardinality(Q) \in Nat
    BY FS_RemoveElement, FS_CardinalityType
  <2> QED
    BY <2>1
<1>3. Lists(r, Q \ {q}, place)
  BY <1>1
<1>4. new \in [Ops -> Int] /\ new[q] = first /\ \A p \in Q \ {q} : new[p] = place[p]
  OBVIOUS
<1>5. Distinct(Q, new)
  BY <1>4 DEF Distinct
<1> HIDE DEF r, new
<1>6. /\ r \in Seq(Ops) /\ Len(r) = n /\ n \in Nat
      /\ \A k \in 1..n : r[k] \in Q \ {q}
      /\ \A p \in Q \ {q} : \E k \in 1..n : r[k] = p
      /\ \A j, k \in 1..n : j < k => place[r[j]] < place[r[k]]
  BY <1>2, <1>3, LineTyped
<1> HIDE DEF n
<1>7. /\ t \in Seq(Ops) /\ Len(t) = n + 1 /\ DOMAIN t = 1..(n + 1) /\ t[1] = q
      /\ \A k \in 1..n : t[k + 1] = r[k]
  <2>1. <<q>> \in Seq(Ops) /\ Len(<<q>>) = 1 /\ <<q>>[1] = q
    OBVIOUS
  <2>2. /\ t \in Seq(Ops) /\ Len(t) = 1 + n
        /\ \A k \in 1..(1 + n) : t[k] = IF k <= 1 THEN <<q>>[k] ELSE r[k - 1]
    BY <1>6, <2>1, ConcatProperties
  <2> HIDE DEF t
  <2>3. t[1] = q
    BY <1>6, <2>1, <2>2
  <2>4. \A k \in 1..n : t[k + 1] = r[k]
    <3>1. TAKE k \in 1..n
    <3>2. k + 1 \in 1..(1 + n) /\ ~(k + 1 <= 1) /\ (k + 1) - 1 = k
      BY <1>6
    <3> QED
      BY <2>2, <3>2
  <2> QED
    BY <1>6, <2>2, <2>3, <2>4
<1> HIDE DEF t
<1>8. \A i1 \in 1..(n + 1) : i1 = 1 \/ \E k \in 1..n : i1 = k + 1
  <2>1. TAKE i1 \in 1..(n + 1)
  <2>2. CASE i1 # 1
    <3>1. i1 - 1 \in 1..n /\ i1 = (i1 - 1) + 1
      BY <1>6, <2>2
    <3> QED
      BY <3>1
  <2> QED
    BY <2>2
<1>9. t \in [1..(n + 1) -> Q]
  <2>1. \A k \in 1..(n + 1) : t[k] \in Q
    <3>1. TAKE k \in 1..(n + 1)
    <3>2. CASE k = 1
      BY <1>7, <3>2
    <3>3. CASE k # 1
      <4>1. PICK j \in 1..n : k = j + 1
        BY <1>8, <3>3
      <4>2. t[k] = r[j] /\ r[j] \in Q \ {q}
        BY <1>6, <1>7, <4>1
      <4> QED
        BY <4>2
    <3> QED
      BY <3>2, <3>3
  <2>2. t \in [1..(n + 1) -> Ops]
    BY <1>7, LenProperties
  <2> QED
    BY <2>1, <2>2
<1>10. \A p \in Q : \E k \in 1..(n + 1) : t[k] = p
  <2>1. TAKE p \in Q
  <2>2. CASE p = q
    BY <1>6, <1>7, <2>2
  <2>3. CASE p # q
    <3>1. PICK k \in 1..n : r[k] = p
      BY <1>6, <2>3
    <3>2. k + 1 \in 1..(n + 1)
      BY <1>6
    <3> QED
      BY <1>7, <3>1, <3>2
  <2> QED
    BY <2>2, <2>3
<1>11. \A j, k \in 1..(n + 1) : j < k => new[t[j]] < new[t[k]]
  <2>1. TAKE j, k \in 1..(n + 1)
  <2>2. HAVE j < k
  <2>3. PICK b \in 1..n : k = b + 1
    BY <1>6, <1>8, <2>2
  <2>4. t[k] = r[b] /\ r[b] \in Q \ {q}
    BY <1>6, <1>7, <2>3
  <2>5. CASE j = 1
    BY <1>4, <1>7, <2>4, <2>5
  <2>6. CASE j # 1
    <3>1. PICK a \in 1..n : j = a + 1
      BY <1>8, <2>6
    <3>2. a < b
      BY <1>6, <2>2, <2>3, <3>1
    <3> QED
      <4>1. t[j] = r[a] /\ r[a] \in Q \ {q}
        BY <1>6, <1>7, <3>1
      <4>2. place[r[a]] < place[r[b]]
        BY <1>6, <3>2
      <4> QED
        BY <1>4, <2>4, <4>1, <4>2
  <2> QED
    BY <2>5, <2>6
<1>12. Lists(t, Q, new)
  BY <1>2, <1>7, <1>9, <1>10, <1>11 DEF Lists
<1>13. LineOf(Q, new) = t
  BY <1>4, <1>5, <1>12, LineLists
<1> QED
  BY <1>1, <1>13 DEF t, r, new

\* The list t is s with q in the place of old.
Handed(s, old, q, t) == \E i \in DOMAIN s : s[i] = old /\ t = [s EXCEPT ![i] = q]

\* A row hands its place to one that did not wait.
LEMMA LineHanded ==
  ASSUME NEW Q \in SUBSET Ops, IsFiniteSet(Q), NEW place \in [Ops -> Int], Distinct(Q, place),
         NEW old \in Q, NEW q \in Ops \ Q
  PROVE  Handed(LineOf(Q, place), old, q,
                LineOf((Q \ {old}) \cup {q}, [place EXCEPT ![q] = place[old]]))
<1> DEFINE s == LineOf(Q, place)
           n == Cardinality(Q)
           new == [place EXCEPT ![q] = place[old]]
           R == (Q \ {old}) \cup {q}
<1>1. Lists(s, Q, place)
  BY LineLists
<1>2. new \in [Ops -> Int] /\ new[q] = place[old] /\ \A p \in Q : new[p] = place[p]
  OBVIOUS
<1>3. Distinct(R, new)
  BY <1>2 DEF Distinct
<1>4. R \in SUBSET Ops /\ IsFiniteSet(R) /\ Cardinality(R) = n
  <2>1. IsFiniteSet(Q \ {old}) /\ Cardinality(Q \ {old}) = n - 1 /\ n \in Nat
    BY FS_RemoveElement, FS_CardinalityType
  <2>2. IsFiniteSet(R) /\ Cardinality(R) = Cardinality(Q \ {old}) + 1
    BY <2>1, FS_AddElement
  <2> QED
    BY <2>1, <2>2
<1> HIDE DEF s, new
<1>5. /\ s \in Seq(Ops) /\ Len(s) = n /\ DOMAIN s = 1..n /\ n \in Nat
      /\ \A i \in 1..n : s[i] \in Q
      /\ \A p \in Q : \E i \in 1..n : s[i] = p
      /\ \A i, j \in 1..n : i < j => place[s[i]] < place[s[j]]
  BY <1>1, LineTyped
<1> HIDE DEF n
<1>6. PICK i \in 1..n : s[i] = old
  BY <1>5
<1> DEFINE t == [s EXCEPT ![i] = q]
<1>7. /\ DOMAIN t = 1..n /\ t = [j \in 1..n |-> t[j]] /\ t[i] = q
      /\ \A j \in 1..n : j # i => t[j] = s[j]
  <2>1. s \in [1..n -> Ops]
    BY <1>5, LenProperties
  <2> QED
    BY <1>6, <2>1
<1> HIDE DEF t
<1>8. \A j \in 1..n : j # i => s[j] \in Q \ {old}
  <2>1. TAKE j \in 1..n
  <2>2. HAVE j # i
  <2>3. place[s[i]] \in Int /\ place[s[j]] \in Int
    BY <1>5
  <2>4. i \in Int /\ j \in Int
    OBVIOUS
  <2>5. CASE i < j
    BY <1>5, <1>6, <2>3, <2>5
  <2>6. CASE j < i
    BY <1>5, <1>6, <2>3, <2>6
  <2> QED
    BY <2>2, <2>4, <2>5, <2>6
<1>9. t \in [1..n -> R]
  <2>1. \A j \in 1..n : t[j] \in R
    BY <1>7, <1>8
  <2> QED
    BY <1>7, <2>1
<1>10. \A p \in R : \E j \in 1..n : t[j] = p
  <2>1. TAKE p \in R
  <2>2. CASE p = q
    BY <1>7, <2>2
  <2>3. CASE p # q
    <3>1. PICK j \in 1..n : s[j] = p /\ p # old
      BY <1>5, <2>3
    <3> QED
      BY <1>6, <1>7, <3>1
  <2> QED
    BY <2>2, <2>3
<1>11. \A j \in 1..n : new[t[j]] = place[s[j]]
  BY <1>2, <1>5, <1>6, <1>7
<1>12. \A j, k \in 1..n : j < k => new[t[j]] < new[t[k]]
  BY <1>5, <1>11
<1>13. Lists(t, R, new)
  BY <1>4, <1>7, <1>9, <1>10, <1>12 DEF Lists
<1>14. LineOf(R, new) = t
  BY <1>2, <1>3, <1>4, <1>13, LineLists
<1> QED
  BY <1>5, <1>6, <1>14 DEF Handed, t, new, s

-----------------------------------------------------------------------------
(* The refinement.                                                         *)

TheLine == LineOf(Queued, position)

LEMMA LineReady ==
  ASSUME LineInd
  PROVE  /\ Queued \in SUBSET Ops /\ IsFiniteSet(Queued)
         /\ position \in [Ops -> Int] /\ Distinct(Queued, position)
         /\ Line!Waiting = Queued
<1>1. /\ Queued \in SUBSET Ops /\ IsFiniteSet(Queued)
      /\ position \in [Ops -> Int] /\ Distinct(Queued, position)
  BY QueuedFinite DEF LineInd, LineBounded, DistinctPositions, Distinct, Queued
<1>2. Lists(TheLine, Queued, position)
  BY <1>1, LineLists DEF TheLine
<1> DEFINE n == Cardinality(Queued)
<1>3. /\ DOMAIN TheLine = 1..n
      /\ \A i \in 1..n : TheLine[i] \in Queued
      /\ \A q \in Queued : \E i \in 1..n : TheLine[i] = q
  BY <1>1, <1>2, LineTyped
<1>4. Line!Waiting = {TheLine[i] : i \in DOMAIN TheLine}
  BY DEF Line!Waiting, Line!ToSet, TheLine
<1> QED
  BY <1>1, <1>3, <1>4

\* What the line and the running rows are after one row has changed.
LEMMA RowChanged ==
  ASSUME IndInv, NEW q \in Ops, NEW r, row' = [row EXCEPT ![q] = r]
  PROVE  /\ Queued' = IF r.state = "queued" THEN Queued \cup {q} ELSE Queued \ {q}
         /\ RunningRows' = IF r.state = "running" THEN RunningRows \cup {q} ELSE RunningRows \ {q}
<1>1. row'[q] = r /\ \A p \in Ops \ {q} : row'[p] = row[p]
  BY DEF IndInv, RowTypeOK
<1> QED
  BY <1>1 DEF Queued, RunningRows

LEMMA LineStands ==
  ASSUME Queued' = Queued, RunningRows' = RunningRows, position' = position
  PROVE  UNCHANGED <<LineOf(Queued, position), RunningRows>>
BY DEF LineOf, Lists

LEMMA RetiringLeavesOrEnds ==
  ASSUME IndInv, LineInd, NEW q \in Ops, Live(q), NEW r, r.state \notin {"queued", "running"},
         row' = [row EXCEPT ![q] = r], position' = position
  PROVE  Line!Leave(q) \/ Line!End(q)
<1>1. Queued' = Queued \ {q} /\ RunningRows' = RunningRows \ {q}
  BY RowChanged
<1>2. CASE row[q].state = "queued"
  <2>1. q \in Queued /\ q \notin RunningRows
    BY <1>2 DEF Queued, RunningRows
  <2>2. RunningRows' = RunningRows
    BY <1>1, <2>1
  <2>3. \E i \in DOMAIN TheLine : TheLine[i] = q /\ TheLine' = Line!RemoveAt(TheLine, i)
    BY <1>1, <2>1, LineReady, LineWithout DEF TheLine
  <2> QED
    BY <2>2, <2>3 DEF Line!Leave, TheLine
<1>3. CASE row[q].state = "running"
  <2>1. q \in RunningRows /\ q \notin Queued
    BY <1>3 DEF Queued, RunningRows
  <2>2. Queued' = Queued
    BY <1>1, <2>1
  <2>3. TheLine' = TheLine
    BY <2>2 DEF TheLine
  <2> QED
    BY <1>1, <2>1, <2>3 DEF Line!End, TheLine
<1> QED
  BY <1>2, <1>3 DEF Live

LEMMA StartingRuns ==
  ASSUME IndInv, LineInd, NEW q \in Ops, row[q].state = "queued", NEW r, r.state = "running",
         row' = [row EXCEPT ![q] = r], position' = position
  PROVE  Line!Run(q)
<1>1. Queued' = Queued \ {q} /\ RunningRows' = RunningRows \cup {q} /\ q \in Queued
  BY RowChanged DEF Queued
<1>2. \E i \in DOMAIN TheLine : TheLine[i] = q /\ TheLine' = Line!RemoveAt(TheLine, i)
  BY <1>1, LineReady, LineWithout DEF TheLine
<1> QED
  BY <1>1, <1>2 DEF Line!Run, TheLine

LEMMA InsertingJoins ==
  ASSUME IndInv, LineInd, NEW q \in Ops, ~Live(q), NEW r, r.state = "queued",
         row' = [row EXCEPT ![q] = r], position' = [position EXCEPT ![q] = NextPosition]
  PROVE  Line!Join(q)
<1>1. q \notin Queued /\ q \notin RunningRows
  BY DEF Live, Queued, RunningRows
<1>2. Queued' = Queued \cup {q} /\ RunningRows' = RunningRows
  <2>1. Queued' = Queued \cup {q} /\ RunningRows' = RunningRows \ {q}
    BY RowChanged
  <2> QED
    BY <1>1, <2>1
<1>3. NextPosition \in Int /\ \A p \in Queued : position[p] < NextPosition
  BY LineReady, NextIsLast, QueuedFinite DEF LineInd
<1>4. TheLine' = Append(TheLine, q)
  <2>1. TheLine' = LineOf(Queued \cup {q}, [position EXCEPT ![q] = NextPosition])
    BY <1>2 DEF TheLine
  <2>2. /\ Queued \in SUBSET Ops /\ IsFiniteSet(Queued) /\ position \in [Ops -> Int]
        /\ Distinct(Queued, position) /\ q \in Ops \ Queued
    BY <1>1, LineReady
  <2>3. LineOf(Queued \cup {q}, [position EXCEPT ![q] = NextPosition]) = Append(TheLine, q)
    BY <1>3, <2>2, LineJoined DEF TheLine
  <2> QED
    BY <2>1, <2>3
<1> QED
  BY <1>1, <1>2, <1>4, LineReady DEF Line!Join, TheLine

LEMMA PromotingJumps ==
  ASSUME LineInd, NEW q \in Queued, row' = row,
         position' = [position EXCEPT ![q] = HeadPosition(q)]
  PROVE  Line!Jump(q)
<1>1. Queued' = Queued /\ RunningRows' = RunningRows
  BY DEF Queued, RunningRows
<1>2. HeadPosition(q) \in Int /\ \A p \in Queued \ {q} : HeadPosition(q) < position[p]
  BY LineReady, HeadIsFirst DEF LineInd
<1>3. \E i \in DOMAIN TheLine :
         TheLine[i] = q /\ TheLine' = <<q>> \o Line!RemoveAt(TheLine, i)
  BY <1>1, <1>2, LineReady, LineJumped DEF TheLine
<1> QED
  BY <1>1, <1>3 DEF Line!Jump, TheLine

LEMMA SupersedingHandsOver ==
  ASSUME IndInv, LineInd, NEW s \in Queued, NEW q \in Ops, ~Live(q),
         Queued' = (Queued \ {s}) \cup {q}, RunningRows' = RunningRows,
         position' = [position EXCEPT ![q] = InheritedPosition(s)]
  PROVE  Line!HandOver(s, q)
<1>1. q \notin Queued /\ q \notin RunningRows
  BY DEF Live, Queued, RunningRows
<1>2. \E i \in DOMAIN TheLine : TheLine[i] = s /\ TheLine' = [TheLine EXCEPT ![i] = q]
  <2>1. TheLine' = LineOf((Queued \ {s}) \cup {q}, [position EXCEPT ![q] = position[s]])
    BY DEF TheLine, InheritedPosition
  <2>2. /\ Queued \in SUBSET Ops /\ IsFiniteSet(Queued) /\ position \in [Ops -> Int]
        /\ Distinct(Queued, position) /\ q \in Ops \ Queued /\ s \in Queued
    BY <1>1, LineReady
  <2>3. Handed(TheLine, s, q,
               LineOf((Queued \ {s}) \cup {q}, [position EXCEPT ![q] = position[s]]))
    BY <2>2, LineHanded DEF TheLine
  <2> QED
    BY <2>1, <2>3 DEF Handed
<1> QED
  BY <1>1, <1>2, LineReady DEF Line!HandOver, TheLine

LineMoves == [Line!Next]_<<LineOf(Queued, position), RunningRows>>

LEMMA MovesAre ==
  ASSUME NEW q \in Ops,
         \/ Line!Join(q) \/ Line!Jump(q) \/ Line!Leave(q) \/ Line!Run(q) \/ Line!End(q)
         \/ \E s \in Ops : Line!HandOver(s, q)
  PROVE  LineMoves
BY DEF LineMoves, Line!Next

LEMMA LineSimulates ==
  ASSUME IndInv, LineInd, [Next]_vars
  PROVE  LineMoves
<1>1. /\ row \in [Ops -> [state : RowStates, owner : Owners \cup {NoOwner}, attempt : Nat]]
      /\ \A o \in Owners : sweep[o] \subseteq SweepAction /\ grants[o] \subseteq Grant
  BY DEF IndInv, RowTypeOK
<1>2. ASSUME UNCHANGED <<row, position>> PROVE LineMoves
  BY <1>2, LineStands DEF LineMoves, Queued, RunningRows
<1>3. \A q \in Ops : \A x \in {"cancelled", "superseded", "interrupted", "completed", "failed"} :
        Retired(q, x).state \notin {"queued", "running"}
  BY <1>1 DEF Retired
<1>4. \A o \in Owners : \A q \in Ops : Requeued(o, q).state = "queued"
  BY DEF Requeued
<1>5. ASSUME NEW o \in Owners, NEW q \in Ops, Adopt(o, q) PROVE LineMoves
  <2>1. Queued' = Queued /\ RunningRows' = RunningRows
    BY <1>1, <1>5 DEF Adopt, Adopted, Claimable, Queued, RunningRows
  <2> QED
    BY <1>5, <2>1, LineStands DEF Adopt, LineMoves
<1>6. ASSUME NEW o \in Owners, NEW q \in Ops, Insert(o, q) PROVE LineMoves
  BY <1>4, <1>6, InsertingJoins, MovesAre DEF Insert
<1>7. ASSUME NEW o \in Owners, NEW q \in Ops, Promote(o, q) PROVE LineMoves
  <2>1. CASE Claimable(o, q)
    <3>1. q \in Queued
      BY <2>1 DEF Claimable, Queued
    <3> QED
      BY <1>7, <2>1, <3>1, PromotingJumps, MovesAre DEF Promote
  <2>2. CASE ~Claimable(o, q)
    BY <1>2, <1>7, <2>2 DEF Promote
  <2> QED
    BY <2>1, <2>2
<1>8. ASSUME NEW o \in Owners, NEW q \in Ops, Cancel(o, q) PROVE LineMoves
  <2>1. CASE Claimable(o, q)
    <3>1. row' = [row EXCEPT ![q] = Retired(q, "cancelled")] /\ position' = position /\ Live(q)
      BY <1>8, <2>1 DEF Cancel, Claimable, Live
    <3> QED
      BY <1>3, <3>1, RetiringLeavesOrEnds, MovesAre
  <2>2. CASE ~Claimable(o, q)
    BY <1>2, <1>8, <2>2 DEF Cancel
  <2> QED
    BY <2>1, <2>2
<1>9. ASSUME NEW o \in Owners, NEW s \in Ops, NEW q \in Ops, Supersede(o, s, q) PROVE LineMoves
  <2>1. CASE Live(q) /\ ~Claimable(o, s)
    BY <1>2, <1>9, <2>1 DEF Supersede
  <2>2. CASE Live(q) /\ Claimable(o, s)
    <3>1. row' = [row EXCEPT ![s] = Retired(s, "superseded")] /\ position' = position /\ Live(s)
      BY <1>9, <2>2 DEF Supersede, Claimable, Live
    <3> QED
      BY <1>3, <3>1, RetiringLeavesOrEnds, MovesAre
  <2>3. CASE ~Live(q) /\ ~Claimable(o, s)
    <3>1. /\ row' = [row EXCEPT ![q] = Requeued(o, q)]
          /\ position' = [position EXCEPT ![q] = NextPosition]
      BY <1>9, <2>3 DEF Supersede
    <3> QED
      BY <1>4, <2>3, <3>1, InsertingJoins, MovesAre
  <2>4. CASE ~Live(q) /\ Claimable(o, s)
    <3>1. /\ row' = [row EXCEPT ![s] = Retired(s, "superseded"), ![q] = Requeued(o, q)]
          /\ position' = [position EXCEPT ![q] = InheritedPosition(s)]
          /\ s # q
      BY <1>9, <2>4 DEF Supersede
    <3>2. s \in Queued /\ q \notin Queued /\ q \notin RunningRows /\ s \notin RunningRows
      BY <2>4 DEF Claimable, Live, Queued, RunningRows
    <3>3. /\ row'[q].state = "queued" /\ row'[s].state = "superseded"
          /\ \A p \in Ops \ {s, q} : row'[p] = row[p]
      BY <1>1, <3>1 DEF Requeued, Retired
    <3>4. Queued' = (Queued \ {s}) \cup {q} /\ RunningRows' = RunningRows
      BY <3>1, <3>2, <3>3 DEF Queued, RunningRows
    <3>5. Line!HandOver(s, q)
      BY <2>4, <3>1, <3>2, <3>4, SupersedingHandsOver
    <3> QED
      BY <3>5, MovesAre
  <2> QED
    BY <2>1, <2>2, <2>3, <2>4
<1>10. ASSUME NEW o \in Owners, NEW q \in Ops, TryCandidate(o, q) PROVE LineMoves
  <2>1. PICK sample \in Samples :
          \/ Deny(o, q, sample) \/ DropStale(o, q, sample) \/ StartThrows(o, q, sample)
          \/ Start(o, q, sample)
    BY <1>10 DEF TryCandidate
  <2>2. CASE Start(o, q, sample)
    <3>1. Started(q).state = "running"
      BY <1>1 DEF Started
    <3>2. row[q].state = "queued" /\ row' = [row EXCEPT ![q] = Started(q)] /\ position' = position
      BY <2>2 DEF Start, Startable
    <3> QED
      BY <3>1, <3>2, StartingRuns, MovesAre
  <2>3. CASE Deny(o, q, sample) \/ DropStale(o, q, sample) \/ StartThrows(o, q, sample)
    BY <1>2, <2>3 DEF Deny, DropStale, StartThrows, store
  <2> QED
    BY <2>1, <2>2, <2>3
<1>11. ASSUME NEW o \in Owners, NEW g \in grants[o], SettleThrows(o, g) PROVE LineMoves
  BY <1>2, <1>11 DEF SettleThrows, store
<1>12. ASSUME NEW o \in Owners, NEW g \in grants[o], NEW x \in {"completed", "failed"}, Settle(o, g, x)
       PROVE  LineMoves
  <2>1. g.op \in Ops
    BY <1>1 DEF Grant
  <2>2. CASE row[g.op].state = "running" /\ row[g.op].owner = o
    <3>1. row' = [row EXCEPT ![g.op] = Retired(g.op, x)] /\ position' = position /\ Live(g.op)
      BY <1>12, <2>2 DEF Settle, Live
    <3> QED
      BY <1>3, <2>1, <3>1, RetiringLeavesOrEnds, MovesAre
  <2>3. CASE ~(row[g.op].state = "running" /\ row[g.op].owner = o)
    BY <1>2, <1>12, <2>3 DEF Settle
  <2> QED
    BY <2>2, <2>3
<1>13. ASSUME NEW o \in Owners, NEW a \in sweep[o], RecoverRow(o, a) PROVE LineMoves
  <2>1. a.op \in Ops /\ position' = position
    BY <1>1, <1>13 DEF SweepAction, RecoverRow
  <2>2. \/ row' = row
        \/ row[a.op].state = "queued" /\ row' = [row EXCEPT ![a.op].owner = NoOwner]
        \/ Live(a.op) /\ \E x \in {"cancelled", "interrupted"} :
                            row' = [row EXCEPT ![a.op] = Retired(a.op, x)]
    BY <1>13 DEF RecoverRow, Live
  <2>3. CASE row' = row
    BY <1>2, <2>1, <2>3
  <2>4. CASE row[a.op].state = "queued" /\ row' = [row EXCEPT ![a.op].owner = NoOwner]
    <3>1. Queued' = Queued /\ RunningRows' = RunningRows
      BY <1>1, <2>1, <2>4 DEF Queued, RunningRows
    <3> QED
      BY <2>1, <3>1, LineStands DEF LineMoves
  <2>5. CASE Live(a.op) /\ \E x \in {"cancelled", "interrupted"} :
                              row' = [row EXCEPT ![a.op] = Retired(a.op, x)]
    BY <1>3, <2>1, <2>5, RetiringLeavesOrEnds, MovesAre
  <2> QED
    BY <2>2, <2>3, <2>4, <2>5
<1>14. ASSUME \/ \E o \in Owners : Pump(o) \/ Deliver(o) \/ Heartbeat(o) \/ Crash(o) \/ BeginSweep(o)
              \/ \E q \in Ops : MissHeartbeats(q) \/ Age(q)
              \/ UNCHANGED vars
       PROVE  LineMoves
  BY <1>2, <1>14 DEF Pump, Deliver, Heartbeat, Crash, BeginSweep, MissHeartbeats, Age, vars, store
<1> QED
  BY <1>5, <1>6, <1>7, <1>8, <1>9, <1>10, <1>11, <1>12, <1>13, <1>14 DEF Next, Enqueue, Reattach

(* The durable queue implements the waiting line: every step of any        *)
(* process, the crashes, recovery sweeps and throwing store calls          *)
(* included, is a step of the line or leaves it alone.                     *)
THEOREM LineIsImplemented == Spec => LineImplemented
<1>1. Init => Line!Init
  <2> SUFFICES ASSUME Init PROVE Line!Init
    OBVIOUS
  <2>1. Queued = {} /\ RunningRows = {}
    BY DEF Init, Queued, RunningRows
  <2>2. Lists(TheLine, Queued, position)
    BY InitLine, LineReady, LineLists DEF TheLine
  <2>3. TheLine \in Seq(Ops) /\ Len(TheLine) = 0
    <3>1. Cardinality(Queued) = 0
      BY <2>1, FS_EmptySet
    <3> QED
      BY <2>2, <3>1, InitLine, LineReady, LineTyped
  <2>4. TheLine = <<>>
    BY <2>3
  <2> QED
    BY <2>1, <2>4 DEF Line!Init, TheLine
<1>2. IndInv /\ LineInd /\ [Next]_vars => LineInd'
  BY LineStep
<1>3. IndInv /\ LineInd /\ [Next]_vars => [Line!Next]_<<LineOf(Queued, position), RunningRows>>
  BY LineSimulates DEF LineMoves
<1> QED
  BY <1>1, <1>2, <1>3, InitLine, Invariance, PTL DEF Spec, LineImplemented, Line!Spec

=============================================================================

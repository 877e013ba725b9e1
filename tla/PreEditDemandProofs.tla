-------------------------- MODULE PreEditDemandProofs --------------------------
(***************************************************************************)
(* The demand-first pre-edit runtime for any number of operations, targets *)
(* and callers, and any capacity: a target keeps one requirement that has  *)
(* not started, nobody waits for one that is not tracked, what waits is    *)
(* woken unless a drain threw, and while the store answers nothing waits   *)
(* beside a free slot.                                                     *)
(*                                                                         *)
(* A requirement that is being promoted is the only one of its target that *)
(* is not running (NextGeneration), which is what Stale() finds; the       *)
(* subscription outlives every turn in which something tracked does not    *)
(* run, except one whose drain threw (Armed); and a job leaves the waiter  *)
(* list when it starts, or before it is tracked (WaitersKnown).            *)
(***************************************************************************)
EXTENDS PreEditDemand, FiniteSetTheorems, TLAPS

\* The leases are those of the executors, which left the waiter list.
LeasesExecute == demandActive = demandRunning /\ demandLocal \cap demandRunning = {}

\* The requirement being promoted is the next of its target.
NextGeneration ==
  pc \in Demands =>
    /\ pc \notin demandRunning
    /\ \A s \in jobRecords \ demandRunning : Target[s] = Target[pc] => s = pc

\* While something tracked does not run, the runtime is subscribed, or about to
\* drain, or its last drain threw.
Armed == pc # "drain" /\ jobRecords \ demandRunning # {} => subscribed \/ missed

\* What waits in the queue is tracked, or about to be, unless promote() may throw.
WaitersKnown == "promote" \notin DemandMayFail => demandLocal \subseteq jobRecords \cup {pc}

DemandInd ==
  /\ DemandTypeOK /\ WaitsTracked /\ OneQueuedGeneration
  /\ LeasesExecute /\ NextGeneration /\ Armed /\ WaitersKnown

-----------------------------------------------------------------------------
(* The capacity.                                                           *)

LEMMA SetsFinite ==
  ASSUME DemandAssumption, NEW S, S \subseteq Demands
  PROVE  IsFiniteSet(S) /\ Cardinality(S) \in Nat
BY FS_Subset, FS_CardinalityType DEF DemandAssumption

LEMMA UnionBounded ==
  ASSUME DemandAssumption, NEW S, S \subseteq Demands, NEW T, T \subseteq Demands
  PROVE  Cardinality(S \cup T) <= Cardinality(S) + Cardinality(T)
<1>1. Cardinality(S \cup T) = Cardinality(S) + Cardinality(T) - Cardinality(S \cap T)
  BY SetsFinite, FS_Union
<1>2. Cardinality(S) \in Nat /\ Cardinality(T) \in Nat /\ Cardinality(S \cap T) \in Nat
  BY SetsFinite
<1> QED
  BY <1>1, <1>2

LEMMA SubsetBounded ==
  ASSUME DemandAssumption, NEW T, T \subseteq Demands, NEW S, S \subseteq T
  PROVE  /\ Cardinality(S) <= Cardinality(T)
         /\ S # T => Cardinality(S) < Cardinality(T)
BY SetsFinite, FS_Subset

\* syncWakeSubscription() subscribes exactly when something tracked does not run.
LEMMA SubscribedWhenWaiting ==
  ASSUME DemandAssumption, NEW records, records \subseteq Demands, NEW runs, runs \subseteq records
  PROVE  Subscribed(records, runs) <=> records \ runs # {}
<1>1. CASE records = runs
  BY <1>1, SetsFinite DEF Subscribed
<1>2. CASE records # runs
  BY <1>2, SubsetBounded, SetsFinite DEF Subscribed
<1> QED
  BY <1>1, <1>2

-----------------------------------------------------------------------------
(* submitToQueue().                                                        *)

LEMMA ClaimKeeps ==
  ASSUME DemandAssumption, DemandInd, NEW q \in Demands, Claim(q)
  PROVE  DemandInd'
<1> USE DEF DemandInd, Claim
<1>1. DemandTypeOK'
  BY DEF DemandTypeOK
<1>2. WaitsTracked' /\ OneQueuedGeneration'
  BY DEF WaitsTracked, OneQueuedGeneration
<1>3. LeasesExecute' /\ WaitersKnown'
  BY DEF LeasesExecute, WaitersKnown, DemandAssumption, DemandTypeOK
<1>4. NextGeneration'
  BY DEF NextGeneration, Stale, DemandAssumption, DemandTypeOK
<1>5. Armed'
  BY DEF Armed, DemandAssumption
<1> QED
  BY <1>1, <1>2, <1>3, <1>4, <1>5

LEMMA SupersedeKeeps ==
  ASSUME DemandAssumption, DemandInd, NEW s \in Demands, NEW q \in Demands, SupersedeDemand(s, q)
  PROVE  DemandInd'
<1> USE DEF DemandInd
<1>1. /\ s # q /\ s \in jobRecords \ demandRunning /\ Target[s] = Target[q] /\ q \notin demandRunning
      /\ pc = "idle" /\ jobRecords' = jobRecords \ {s}
      /\ waits' = Released({s})
      /\ UNCHANGED <<demandRunning, demandActive, demandLeaked, others, subscribed, missed>>
  BY DEF SupersedeDemand, Stale
<1>2. \/ demandLocal' = demandLocal \ {s} /\ pc' = "idle"
      \/ demandLocal' = (demandLocal \ {s}) \cup {q} /\ pc' = q
  BY DEF SupersedeDemand
<1>3. demandRow' \in [Demands -> {"none", "mine", "orphan", "foreign", "running", "done"}]
  <2>1. ASSUME LiveRow(q), demandRow' = IF DemandClaimable(s) THEN [demandRow EXCEPT ![s] = "done"] ELSE demandRow
        PROVE  demandRow' \in [Demands -> {"none", "mine", "orphan", "foreign", "running", "done"}]
    BY <2>1 DEF DemandTypeOK
  <2>2. ASSUME demandRow' = [demandRow EXCEPT ![s] = IF DemandClaimable(s) THEN "done" ELSE @, ![q] = "mine"]
        PROVE  demandRow' \in [Demands -> {"none", "mine", "orphan", "foreign", "running", "done"}]
    BY <2>2 DEF DemandTypeOK
  <2> QED
    BY <2>1, <2>2 DEF SupersedeDemand
<1>4. DemandTypeOK'
  BY <1>1, <1>2, <1>3 DEF DemandTypeOK, Released
<1>5. WaitsTracked'
  BY <1>1 DEF WaitsTracked, Released
<1>6. OneQueuedGeneration' /\ NextGeneration'
  BY <1>1, <1>2 DEF OneQueuedGeneration, NextGeneration, DemandAssumption
<1>7. LeasesExecute' /\ WaitersKnown'
  BY <1>1, <1>2 DEF LeasesExecute, WaitersKnown, DemandAssumption, DemandTypeOK
<1>8. Armed'
  BY <1>1, <1>2 DEF Armed, DemandAssumption
<1> QED
  BY <1>4, <1>5, <1>6, <1>7, <1>8

LEMMA PromoteKeeps ==
  ASSUME DemandAssumption, DemandInd, PromoteDemand
  PROVE  DemandInd'
<1> USE DEF DemandInd
<1>1. /\ pc \in Demands
      /\ UNCHANGED <<demandRow, demandRunning, demandActive, demandLeaked, others, subscribed, waits, missed>>
      /\ \/ jobRecords' = jobRecords \cup {pc} /\ pc' = "drain" /\ UNCHANGED demandLocal
         \/ demandLocal' = demandLocal \ {pc} /\ pc' = "idle" /\ UNCHANGED jobRecords
         \/ "promote" \in DemandMayFail /\ pc' = "idle" /\ UNCHANGED <<demandLocal, jobRecords>>
  BY DEF PromoteDemand
<1>2. DemandTypeOK' /\ WaitsTracked'
  BY <1>1 DEF DemandTypeOK, WaitsTracked
<1>3. OneQueuedGeneration'
  BY <1>1 DEF OneQueuedGeneration, NextGeneration
<1>4. LeasesExecute' /\ WaitersKnown'
  BY <1>1 DEF LeasesExecute, WaitersKnown, DemandAssumption
<1>5. NextGeneration' /\ Armed'
  BY <1>1 DEF NextGeneration, Armed, DemandAssumption
<1> QED
  BY <1>2, <1>3, <1>4, <1>5

-----------------------------------------------------------------------------
(* executePending(), the executors and the other users of the controller.  *)

\* The leases of one pass and the slots others take fit into what was free.
LEMMA PassFits ==
  ASSUME DemandAssumption, DemandTypeOK,
         NEW A, A \subseteq Demands, NEW L, L \subseteq Demands, NEW taken \in Nat,
         Cardinality(A) + Cardinality(L) + taken <= Free,
         demandActive' \subseteq demandActive \cup A, demandLeaked' \subseteq demandLeaked \cup L,
         others' = others + taken
  PROVE  others' \in Nat /\ others' + Cardinality(demandActive') + Cardinality(demandLeaked') <= Slots
<1>1. demandActive \subseteq Demands /\ demandLeaked \subseteq Demands
  BY DEF DemandTypeOK
<1>2. /\ demandActive \cup A \subseteq Demands /\ demandLeaked \cup L \subseteq Demands
      /\ demandActive' \subseteq Demands /\ demandLeaked' \subseteq Demands
  BY <1>1
<1>3. Cardinality(demandActive') <= Cardinality(demandActive \cup A)
  BY <1>2, SubsetBounded
<1>4. Cardinality(demandLeaked') <= Cardinality(demandLeaked \cup L)
  BY <1>2, SubsetBounded
<1>5. Cardinality(demandActive \cup A) <= Cardinality(demandActive) + Cardinality(A)
  BY <1>1, UnionBounded
<1>6. Cardinality(demandLeaked \cup L) <= Cardinality(demandLeaked) + Cardinality(L)
  BY <1>1, UnionBounded
<1>7. /\ Cardinality(demandActive) \in Nat /\ Cardinality(demandActive') \in Nat /\ Cardinality(demandActive \cup A) \in Nat
      /\ Cardinality(demandLeaked) \in Nat /\ Cardinality(demandLeaked') \in Nat /\ Cardinality(demandLeaked \cup L) \in Nat
      /\ Cardinality(A) \in Nat /\ Cardinality(L) \in Nat
  BY <1>1, <1>2, SetsFinite
<1> QED
  BY <1>3, <1>4, <1>5, <1>6, <1>7 DEF Free, DemandTypeOK, DemandAssumption

\* What one pass starts, drops and gives back.
LEMMA PassKeeps ==
  ASSUME DemandAssumption, DemandInd,
         NEW admitted \in SUBSET {q \in Tryable : demandRow[q] = "mine"},
         NEW dropped \in SUBSET {q \in Tryable : demandRow[q] # "mine"},
         NEW failed \in SUBSET (admitted \cap jobRecords),
         NEW settled \in SUBSET failed,
         NEW early \in Nat, Cardinality(admitted) + early <= Free,
         NEW late \in 0 .. Cardinality(failed \cup (admitted \ jobRecords)),
         pc = "drain", DrainPass(admitted, dropped, failed, settled, early + late)
  PROVE  DemandInd'
<1> USE DEF DemandInd, Tryable
<1> DEFINE started == (admitted \cap jobRecords) \ failed
           back == failed \cup (admitted \ jobRecords)
<1>1. /\ demandRow' = [q \in Demands |-> IF q \in settled THEN "done" ELSE IF q \in admitted THEN "running" ELSE demandRow[q]]
      /\ demandLocal' = demandLocal \ (admitted \cup dropped)
      /\ demandRunning' = demandRunning \cup started
      /\ demandActive' = demandActive \cup started
      /\ jobRecords' = jobRecords \ failed
      /\ waits' = Released(failed)
      /\ others' = others + (early + late)
      /\ demandLeaked' = demandLeaked
  BY DEF DrainPass
<1>2. \/ pc' = "drain" /\ UNCHANGED <<subscribed, missed>>
      \/ pc' = "idle" /\ subscribed' = Subscribed(jobRecords', demandRunning') /\ missed' = FALSE
  BY DEF DrainPass
<1>3. admitted \subseteq Demands /\ demandActive \subseteq Demands /\ started \subseteq admitted
  BY DEF DemandTypeOK
<1>4. demandRunning' \subseteq jobRecords' /\ jobRecords' \subseteq Demands
  BY <1>1 DEF DemandTypeOK, LeasesExecute
<1>5. others' \in Nat /\ others' + Cardinality(demandActive') + Cardinality(demandLeaked') <= Slots
  <2>1. started \cup back = admitted /\ started \cap back = {} /\ back \subseteq Demands /\ started \subseteq Demands
    BY <1>3
  <2>2. Cardinality(started \cup back) = Cardinality(started) + Cardinality(back) - Cardinality(started \cap back)
    BY <2>1, SetsFinite, FS_Union
  <2>3. Cardinality({}) = 0
    BY FS_EmptySet
  <2>4. Cardinality(started) \in Nat /\ Cardinality(back) \in Nat /\ Cardinality(admitted) \in Nat
    BY <1>3, <2>1, SetsFinite
  <2>5. Cardinality(admitted) = Cardinality(started) + Cardinality(back)
    BY <2>1, <2>2, <2>3, <2>4
  <2>6. early + late \in Nat
    BY <2>4
  <2>7. Free \in Int
    BY SetsFinite DEF Free, DemandTypeOK, DemandAssumption
  <2>8. Cardinality(started) + Cardinality({}) + (early + late) <= Free
    BY <2>3, <2>4, <2>5, <2>7
  <2>9. demandActive' \subseteq demandActive \cup started /\ demandLeaked' \subseteq demandLeaked \cup {}
    BY <1>1
  <2>10. DemandTypeOK /\ started \subseteq Demands /\ {} \subseteq Demands
    BY <2>1
  <2>11. others' = others + (early + late)
    BY <1>1
  <2> QED
    BY <2>6, <2>8, <2>9, <2>10, <2>11, PassFits
<1>6. demandRow' \in [Demands -> {"none", "mine", "orphan", "foreign", "running", "done"}]
  BY <1>1 DEF DemandTypeOK
<1>7. subscribed' \in BOOLEAN /\ missed' \in BOOLEAN
  <2>1. (Cardinality(jobRecords') > Cardinality(demandRunning')) \in BOOLEAN
    OBVIOUS
  <2> QED
    BY <2>1, <1>2, Zenon DEF DemandTypeOK, Subscribed
<1>8. DemandTypeOK'
  BY <1>1, <1>2, <1>3, <1>4, <1>5, <1>6, <1>7 DEF DemandTypeOK, Released
<1>9. WaitsTracked'
  BY <1>1 DEF WaitsTracked, Released
<1>10. OneQueuedGeneration' /\ LeasesExecute'
  BY <1>1 DEF OneQueuedGeneration, LeasesExecute
<1>11. NextGeneration'
  BY <1>2 DEF NextGeneration, DemandAssumption
<1>12. Armed'
  BY <1>2, <1>4, SubscribedWhenWaiting DEF Armed
<1>13. WaitersKnown'
  BY <1>1 DEF WaitersKnown, DemandTypeOK, DemandAssumption
<1> QED
  BY <1>8, <1>9, <1>10, <1>11, <1>12, <1>13

\* A pass that throws leaks its leases, and says so.
LEMMA ThrowKeeps ==
  ASSUME DemandAssumption, DemandInd,
         NEW admitted \in SUBSET {q \in Tryable : demandRow[q] = "mine"},
         NEW dropped \in SUBSET {q \in Tryable : demandRow[q] # "mine"},
         NEW early \in Nat, Cardinality(admitted) + early < Free,
         NEW t \in Tryable, t \notin admitted,
         pc = "drain", DrainThrows(t, admitted, dropped, early)
  PROVE  DemandInd'
<1> USE DEF DemandInd, Tryable
<1>1. /\ demandRow' = [q \in Demands |-> IF q \in admitted THEN "running" ELSE demandRow[q]]
      /\ demandLocal' = demandLocal \ (admitted \cup dropped)
      /\ demandLeaked' = demandLeaked \cup admitted \cup {t}
      /\ others' = others + early /\ pc' \in {"idle", "drain"} /\ missed' = TRUE
      /\ UNCHANGED <<jobRecords, demandRunning, demandActive, subscribed, waits>>
  BY DEF DrainThrows
<1>2. admitted \cup {t} \subseteq Demands /\ admitted \subseteq Demands /\ {t} \subseteq Demands
  BY DEF DemandTypeOK
<1>3. others' \in Nat /\ others' + Cardinality(demandActive') + Cardinality(demandLeaked') <= Slots
  <2>1. Cardinality(admitted \cup {t}) <= Cardinality(admitted) + Cardinality({t})
    BY <1>2, UnionBounded
  <2>2. Cardinality({t}) = 1 /\ Cardinality({}) = 0
    BY FS_Singleton, FS_EmptySet
  <2>3. Cardinality(admitted) \in Nat /\ Cardinality(admitted \cup {t}) \in Nat
    BY <1>2, SetsFinite
  <2>4. Free \in Int
    BY SetsFinite DEF Free, DemandTypeOK, DemandAssumption
  <2>5. Cardinality({}) + Cardinality(admitted \cup {t}) + early <= Free
    BY <2>1, <2>2, <2>3, <2>4
  <2>6. demandActive' \subseteq demandActive \cup {} /\ demandLeaked' \subseteq demandLeaked \cup (admitted \cup {t})
    BY <1>1
  <2>7. DemandTypeOK /\ {} \subseteq Demands /\ others' = others + early
    BY <1>1
  <2> QED
    BY <1>2, <2>5, <2>6, <2>7, PassFits
<1>4. DemandTypeOK'
  BY <1>1, <1>2, <1>3 DEF DemandTypeOK
<1>5. WaitsTracked' /\ OneQueuedGeneration' /\ LeasesExecute' /\ NextGeneration' /\ Armed'
  BY <1>1 DEF WaitsTracked, OneQueuedGeneration, LeasesExecute, NextGeneration, Armed, DemandAssumption
<1>6. WaitersKnown'
  BY <1>1 DEF WaitersKnown, DemandTypeOK, DemandAssumption
<1> QED
  BY <1>4, <1>5, <1>6

LEMMA DrainKeeps ==
  ASSUME DemandAssumption, DemandInd, Drain
  PROVE  DemandInd'
<1>1. PICK admitted \in SUBSET {q \in Tryable : demandRow[q] = "mine"},
           dropped \in SUBSET {q \in Tryable : demandRow[q] # "mine"} :
        \E early \in 0 .. Cardinality(dropped) :
          /\ Cardinality(admitted) + early <= Free
          /\ \/ \E failed \in SUBSET (admitted \cap jobRecords) :
                  \E settled \in SUBSET failed, late \in 0 .. Cardinality(failed \cup (admitted \ jobRecords)) :
                    DrainPass(admitted, dropped, failed, settled, early + late)
             \/ /\ Cardinality(admitted) + early < Free
                /\ \E t \in Tryable \ (admitted \cup dropped) : DrainThrows(t, admitted, dropped, early)
  BY Zenon DEF Drain
<1>2. PICK early \in 0 .. Cardinality(dropped) :
          /\ Cardinality(admitted) + early <= Free
          /\ \/ \E failed \in SUBSET (admitted \cap jobRecords) :
                  \E settled \in SUBSET failed, late \in 0 .. Cardinality(failed \cup (admitted \ jobRecords)) :
                    DrainPass(admitted, dropped, failed, settled, early + late)
             \/ /\ Cardinality(admitted) + early < Free
                /\ \E t \in Tryable \ (admitted \cup dropped) : DrainThrows(t, admitted, dropped, early)
  BY <1>1
<1>3. pc = "drain" /\ early \in Nat
  <2>1. dropped \subseteq Demands
    BY DEF Tryable, DemandInd, DemandTypeOK
  <2> QED
    BY <2>1, SetsFinite DEF Drain
<1>4. ASSUME NEW failed \in SUBSET (admitted \cap jobRecords), NEW settled \in SUBSET failed,
             NEW late \in 0 .. Cardinality(failed \cup (admitted \ jobRecords)),
             DrainPass(admitted, dropped, failed, settled, early + late)
      PROVE  DemandInd'
  BY <1>2, <1>3, <1>4, PassKeeps
<1>5. ASSUME NEW t \in Tryable \ (admitted \cup dropped), Cardinality(admitted) + early < Free,
             DrainThrows(t, admitted, dropped, early)
      PROVE  DemandInd'
  BY <1>2, <1>3, <1>5, ThrowKeeps
<1> QED
  BY <1>2, <1>4, <1>5

LEMMA FinishKeeps ==
  ASSUME DemandAssumption, DemandInd, NEW q \in Demands, FinishDemand(q)
  PROVE  DemandInd'
<1> USE DEF DemandInd
<1>1. /\ pc = "idle" /\ q \in demandRunning
      /\ demandRunning' = demandRunning \ {q} /\ jobRecords' = jobRecords \ {q} /\ demandActive' = demandActive \ {q}
      /\ demandRow' \in {demandRow, [demandRow EXCEPT ![q] = "done"]}
      /\ waits' = Released({q}) /\ pc' = "drain" /\ others' \in {others, others + 1}
      /\ UNCHANGED <<demandLocal, demandLeaked, subscribed, missed>>
  BY DEF FinishDemand
<1>2. others' + Cardinality(demandActive') + Cardinality(demandLeaked') <= Slots
  <2>1. Cardinality(demandActive') < Cardinality(demandActive)
    BY <1>1, SubsetBounded DEF DemandTypeOK, LeasesExecute
  <2>2. Cardinality(demandActive) \in Nat /\ Cardinality(demandActive') \in Nat /\ Cardinality(demandLeaked) \in Nat
    BY <1>1, SetsFinite DEF DemandTypeOK
  <2> QED
    BY <1>1, <2>1, <2>2 DEF DemandTypeOK, DemandAssumption
<1>3. DemandTypeOK'
  BY <1>1, <1>2 DEF DemandTypeOK, Released
<1>4. WaitsTracked'
  BY <1>1 DEF WaitsTracked, Released
<1>5. OneQueuedGeneration' /\ LeasesExecute' /\ NextGeneration' /\ Armed'
  BY <1>1 DEF OneQueuedGeneration, LeasesExecute, NextGeneration, Armed, DemandAssumption
<1>6. WaitersKnown'
  BY <1>1 DEF WaitersKnown, LeasesExecute, DemandTypeOK, DemandAssumption
<1> QED
  BY <1>3, <1>4, <1>5, <1>6

LEMMA OthersKeep ==
  ASSUME DemandAssumption, DemandInd, OtherAcquires \/ OtherReleases
  PROVE  DemandInd'
<1> USE DEF DemandInd
<1>1. /\ UNCHANGED <<demandRow, demandLocal, jobRecords, demandRunning, demandActive, demandLeaked, subscribed,
                     waits, missed>>
      /\ pc = "idle" /\ pc' \in {"idle", "drain"}
      /\ \/ others' = others + 1 /\ Free > 0
         \/ others' \in {others - 1, others} /\ others > 0
  BY DEF OtherAcquires, OtherReleases
<1>2. Cardinality(demandActive) \in Nat /\ Cardinality(demandLeaked) \in Nat
  BY SetsFinite DEF DemandTypeOK
<1>3. DemandTypeOK'
  BY <1>1, <1>2 DEF DemandTypeOK, Free, DemandAssumption
<1>4. WaitsTracked' /\ OneQueuedGeneration' /\ LeasesExecute' /\ NextGeneration' /\ Armed'
  BY <1>1 DEF WaitsTracked, OneQueuedGeneration, LeasesExecute, NextGeneration, Armed, DemandAssumption
<1>5. WaitersKnown'
  BY <1>1 DEF WaitersKnown, DemandTypeOK, DemandAssumption
<1> QED
  BY <1>3, <1>4, <1>5

LEMMA OutsideKeeps ==
  ASSUME DemandAssumption, DemandInd,
         \/ \E q \in Demands : Elsewhere(q) \/ \E c \in Callers : Wait(c, q)
         \/ \E c \in Callers : GiveUp(c)
  PROVE  DemandInd'
<1> USE DEF DemandInd
<1>1. UNCHANGED <<demandLocal, jobRecords, demandRunning, demandActive, demandLeaked, others, subscribed, pc, missed>>
  BY DEF Elsewhere, Wait, GiveUp
<1>2. DemandTypeOK' /\ WaitsTracked'
  <2>1. ASSUME NEW q \in Demands, Elsewhere(q)
        PROVE  DemandTypeOK' /\ WaitsTracked'
    BY <2>1 DEF Elsewhere, DemandTypeOK, WaitsTracked
  <2>2. ASSUME NEW q \in Demands, NEW c \in Callers, Wait(c, q)
        PROVE  DemandTypeOK' /\ WaitsTracked'
    BY <2>2 DEF Wait, DemandTypeOK, WaitsTracked
  <2>3. ASSUME NEW c \in Callers, GiveUp(c)
        PROVE  DemandTypeOK' /\ WaitsTracked'
    BY <2>3 DEF GiveUp, DemandTypeOK, WaitsTracked
  <2> QED
    BY <2>1, <2>2, <2>3
<1>3. OneQueuedGeneration' /\ LeasesExecute' /\ NextGeneration' /\ Armed' /\ WaitersKnown'
  BY <1>1 DEF OneQueuedGeneration, LeasesExecute, NextGeneration, Armed, WaitersKnown
<1> QED
  BY <1>2, <1>3

LEMMA DemandInvariant ==
  ASSUME DemandAssumption
  PROVE  DemandSpec => []DemandInd
<1>1. DemandInit => DemandInd
  <2> SUFFICES ASSUME DemandInit PROVE DemandInd
    OBVIOUS
  <2>1. DemandTypeOK
    <3>1. Cardinality({}) = 0
      BY FS_EmptySet
    <3>2. subscribed \in BOOLEAN /\ missed \in BOOLEAN
      BY Zenon DEF DemandInit
    <3> QED
      BY <3>1, <3>2 DEF DemandInit, DemandTypeOK, DemandAssumption
  <2>2. WaitsTracked /\ OneQueuedGeneration /\ LeasesExecute /\ NextGeneration /\ Armed /\ WaitersKnown
    BY DEF DemandInit, WaitsTracked, OneQueuedGeneration, LeasesExecute, NextGeneration, Armed, WaitersKnown,
           DemandAssumption
  <2> QED
    BY <2>1, <2>2 DEF DemandInd
<1>2. DemandInd /\ [DemandNext]_demandVars => DemandInd'
  <2> SUFFICES ASSUME DemandInd, [DemandNext]_demandVars PROVE DemandInd'
    OBVIOUS
  <2>1. CASE Drain
    BY <2>1, DrainKeeps
  <2>2. CASE PromoteDemand
    BY <2>2, PromoteKeeps
  <2>3. CASE OtherAcquires \/ OtherReleases
    BY <2>3, OthersKeep
  <2>4. ASSUME NEW q \in Demands, Claim(q) \/ FinishDemand(q) \/ \E s \in Demands : SupersedeDemand(s, q)
        PROVE  DemandInd'
    BY <2>4, ClaimKeeps, FinishKeeps, SupersedeKeeps
  <2>5. CASE \/ \E q \in Demands : Elsewhere(q) \/ \E c \in Callers : Wait(c, q)
             \/ \E c \in Callers : GiveUp(c)
    BY <2>5, OutsideKeeps
  <2>6. CASE UNCHANGED demandVars
    BY <2>6 DEF demandVars, DemandInd, DemandTypeOK, WaitsTracked, OneQueuedGeneration, LeasesExecute, NextGeneration,
                Armed, WaitersKnown
  <2> QED
    BY <2>1, <2>2, <2>3, <2>4, <2>5, <2>6 DEF DemandNext
<1> QED
  BY <1>1, <1>2, PTL DEF DemandSpec

(* Whatever submit(), supersede, drain, finish and the other processes do, *)
(* the runtime stays within the capacity it shares with others, a caller   *)
(* waits only for what is tracked, and a target has one requirement that   *)
(* has not started.                                                        *)
THEOREM DemandIsTracked ==
  ASSUME DemandAssumption
  PROVE  DemandSpec => []DemandTracked
<1>1. DemandInd => DemandTracked
  BY DEF DemandInd, DemandTracked
<1> QED
  BY <1>1, DemandInvariant, PTL

(* syncWakeSubscription() and the extra pass of executePending() leave the *)
(* runtime subscribed whenever a tracked job still waits, whatever store   *)
(* calls throw, until a drain throws itself; the next drain repairs that.  *)
THEOREM WaitersAreWoken ==
  ASSUME DemandAssumption
  PROVE  DemandSpec => []WakeArmed
<1>1. DemandInd => WakeArmed
  BY DEF DemandInd, LeasesExecute, Armed, WakeArmed
<1> QED
  BY <1>1, DemandInvariant, PTL

-----------------------------------------------------------------------------
(* When the store does not fail.                                           *)

\* One drain of a store that answers: nothing throws, and every settle succeeds.
LEMMA DrainAnswers ==
  ASSUME DemandMayFail = {}, Drain
  PROVE  \E admitted \in SUBSET {q \in Tryable : demandRow[q] = "mine"},
            dropped \in SUBSET {q \in Tryable : demandRow[q] # "mine"} :
         \E early \in 0 .. Cardinality(dropped), failed \in SUBSET (admitted \cap jobRecords) :
         \E late \in 0 .. Cardinality(failed \cup (admitted \ jobRecords)) :
           /\ Cardinality(admitted) + early < Free => admitted \cup dropped = Tryable
           /\ DrainPass(admitted, dropped, failed, failed, early + late)
<1>1. PICK admitted \in SUBSET {q \in Tryable : demandRow[q] = "mine"},
           dropped \in SUBSET {q \in Tryable : demandRow[q] # "mine"} :
        \E early \in 0 .. Cardinality(dropped) :
          \/ /\ Cardinality(admitted) + early < Free => admitted \cup dropped = Tryable
             /\ \E failed \in SUBSET (admitted \cap jobRecords) :
                  \E settled \in SUBSET failed, late \in 0 .. Cardinality(failed \cup (admitted \ jobRecords)) :
                    /\ "settle" \notin DemandMayFail => settled = failed
                    /\ DrainPass(admitted, dropped, failed, settled, early + late)
          \/ \E t \in Tryable \ (admitted \cup dropped) : DrainThrows(t, admitted, dropped, early)
  BY Zenon DEF Drain
<1>2. PICK early \in 0 .. Cardinality(dropped) :
        /\ Cardinality(admitted) + early < Free => admitted \cup dropped = Tryable
        /\ \E failed \in SUBSET (admitted \cap jobRecords) :
             \E settled \in SUBSET failed, late \in 0 .. Cardinality(failed \cup (admitted \ jobRecords)) :
               /\ settled = failed
               /\ DrainPass(admitted, dropped, failed, settled, early + late)
  <2>1. \A t, taken : ~DrainThrows(t, admitted, dropped, taken)
    BY DEF DrainThrows
  <2>2. "settle" \notin DemandMayFail
    OBVIOUS
  <2> QED
    BY <1>1, <2>1, <2>2, Zenon
<1>3. PICK failed \in SUBSET (admitted \cap jobRecords) :
        \E late \in 0 .. Cardinality(failed \cup (admitted \ jobRecords)) :
          DrainPass(admitted, dropped, failed, failed, early + late)
  BY <1>2, Zenon
<1> QED
  BY <1>2, <1>3, Zenon

LEMMA ExecutionKept ==
  ASSUME DemandAssumption, DemandMayFail = {}, DemandInd, RunningExecuted, [DemandNext]_demandVars
  PROVE  RunningExecuted'
<1> USE DEF DemandInd
<1>1. ASSUME NEW q \in Demands, Claim(q) \/ \E s \in Demands : SupersedeDemand(s, q)
      PROVE  RunningExecuted'
  <2>1. demandRunning' = demandRunning
    BY <1>1 DEF Claim, SupersedeDemand
  <2>2. \A p \in Demands : demandRow'[p] = "running" => demandRow[p] = "running"
    <3>1. CASE Claim(q)
      BY <3>1 DEF Claim, DemandTypeOK
    <3>2. ASSUME NEW s \in Demands, SupersedeDemand(s, q)
          PROVE  \A p \in Demands : demandRow'[p] = "running" => demandRow[p] = "running"
      BY <3>2 DEF SupersedeDemand, DemandTypeOK
    <3> QED
      BY <3>1, <3>2, <1>1
  <2> QED
    BY <2>1, <2>2 DEF RunningExecuted
<1>2. ASSUME NEW q \in Demands, FinishDemand(q)
      PROVE  RunningExecuted'
  BY <1>2 DEF FinishDemand, RunningExecuted, DemandTypeOK
<1>3. ASSUME NEW q \in Demands, Elsewhere(q)
      PROVE  RunningExecuted'
  BY <1>3 DEF Elsewhere, RunningExecuted, DemandTypeOK
<1>4. CASE Drain
  <2>1. PICK admitted \in SUBSET {q \in Tryable : demandRow[q] = "mine"} :
             \E dropped, failed, taken :
               failed \subseteq admitted \cap jobRecords /\ DrainPass(admitted, dropped, failed, failed, taken)
    BY <1>4, DrainAnswers
  <2>2. admitted \subseteq jobRecords
    BY <1>4 DEF Drain, WaitersKnown, Tryable, DemandTypeOK, DemandAssumption
  <2> QED
    BY <2>1, <2>2 DEF DrainPass, RunningExecuted
<1>5. CASE UNCHANGED <<demandRow, demandRunning>>
  BY <1>5 DEF RunningExecuted
<1> QED
  BY <1>1, <1>2, <1>3, <1>4, <1>5 DEF DemandNext, demandVars, PromoteDemand, OtherAcquires, OtherReleases, Wait, GiveUp

(* With a store that answers, a row this runtime started has a live        *)
(* executor until it is settled: every admission is of a tracked job.      *)
THEOREM RunningIsExecuted ==
  ASSUME DemandAssumption, DemandMayFail = {}
  PROVE  DemandSpec => []RunningExecuted
<1>1. DemandInit => RunningExecuted
  BY DEF DemandInit, RunningExecuted
<1>2. DemandInd /\ RunningExecuted /\ [DemandNext]_demandVars => RunningExecuted'
  BY ExecutionKept
<1> QED
  BY <1>1, <1>2, DemandInvariant, PTL DEF DemandSpec

\* While a requirement is promoted, only it may wait beside a free slot.
OnlyNextWaits == pc # "drain" /\ Free > 0 => demandLocal \cap jobRecords \subseteq {pc}

\* A runtime that drains without being subscribed has one job to start.
OneUnheard ==
  pc = "drain" /\ ~subscribed => \A s, q \in jobRecords \ demandRunning : s = q

WorkInd == demandLeaked = {} /\ missed = FALSE /\ OnlyNextWaits /\ OneUnheard

LEMMA DrainConserves ==
  ASSUME DemandAssumption, DemandMayFail = {}, DemandInd, WorkInd, Drain
  PROVE  WorkInd'
<1> USE DEF DemandInd, WorkInd
<1>0. PICK admitted \in SUBSET {q \in Tryable : demandRow[q] = "mine"},
           dropped \in SUBSET {q \in Tryable : demandRow[q] # "mine"} :
        \E early \in 0 .. Cardinality(dropped), failed \in SUBSET (admitted \cap jobRecords) :
        \E late \in 0 .. Cardinality(failed \cup (admitted \ jobRecords)) :
          /\ Cardinality(admitted) + early < Free => admitted \cup dropped = Tryable
          /\ DrainPass(admitted, dropped, failed, failed, early + late)
  BY DrainAnswers, Zenon
<1>1. PICK early \in 0 .. Cardinality(dropped), failed \in SUBSET (admitted \cap jobRecords) :
        \E late \in 0 .. Cardinality(failed \cup (admitted \ jobRecords)) :
          /\ Cardinality(admitted) + early < Free => admitted \cup dropped = Tryable
          /\ DrainPass(admitted, dropped, failed, failed, early + late)
  BY <1>0, Zenon
<1>2. PICK late \in 0 .. Cardinality(failed \cup (admitted \ jobRecords)) :
        /\ Cardinality(admitted) + early < Free => admitted \cup dropped = Tryable
        /\ DrainPass(admitted, dropped, failed, failed, early + late)
  BY <1>1, Zenon
<1>3. /\ Tryable = demandLocal /\ demandLocal \subseteq jobRecords /\ demandLocal \cap demandRunning = {}
      /\ pc = "drain" /\ admitted \subseteq demandLocal /\ dropped \subseteq demandLocal /\ jobRecords \subseteq Demands
  BY DEF Tryable, WaitersKnown, LeasesExecute, DemandTypeOK, DemandAssumption, Drain
<1>4. /\ demandLocal' = demandLocal \ (admitted \cup dropped)
      /\ jobRecords' = jobRecords \ failed
      /\ demandActive' = demandActive \cup ((admitted \cap jobRecords) \ failed)
      /\ others' = others + (early + late) /\ demandLeaked' = {}
      /\ \/ subscribed /\ pc' = "drain" /\ subscribed' = subscribed /\ missed' = missed
         \/ ~(subscribed /\ dropped \cup failed \cup (admitted \ jobRecords) # {}) /\ pc' = "idle" /\ missed' = FALSE
  BY <1>2 DEF DrainPass, AnotherPass
<1>5. OneUnheard'
  BY <1>4 DEF OneUnheard
<1>6. ASSUME pc' = "idle", Free' > 0
      PROVE  demandLocal' = {}
  <2>1. CASE dropped \cup failed = {}
    <3>1. early = 0 /\ late = 0
      <4>1. dropped = {} /\ failed \cup (admitted \ jobRecords) = {}
        BY <1>3, <2>1
      <4>2. Cardinality(dropped) = 0 /\ Cardinality(failed \cup (admitted \ jobRecords)) = 0
        BY <4>1, FS_EmptySet
      <4> QED
        BY <4>2
    <3>2. /\ admitted \subseteq Demands /\ demandActive \subseteq Demands /\ demandActive \cap admitted = {}
          /\ demandActive' = demandActive \cup admitted
      BY <1>3, <1>4, <2>1 DEF LeasesExecute, DemandTypeOK
    <3>3. Cardinality(demandActive') = Cardinality(demandActive) + Cardinality(admitted) - Cardinality(demandActive \cap admitted)
      BY <3>2, SetsFinite, FS_Union
    <3>4. Cardinality(demandActive \cap admitted) = 0 /\ Cardinality(demandLeaked) = 0 /\ Cardinality(demandLeaked') = 0
      BY <1>4, <3>2, FS_EmptySet
    <3>5. Cardinality(demandActive) \in Nat /\ Cardinality(admitted) \in Nat
      BY <3>2, SetsFinite
    <3>6. Free = Slots - others - Cardinality(demandActive) /\ Free' = Slots - others' - Cardinality(demandActive')
      BY <1>4, <3>2, <3>3, <3>4, <3>5 DEF Free, DemandTypeOK, DemandAssumption
    <3>7. Cardinality(admitted) + early < Free
      BY <1>4, <1>6, <3>1, <3>3, <3>4, <3>5, <3>6 DEF DemandTypeOK, DemandAssumption
    <3> QED
      BY <1>2, <1>3, <1>4, <3>7
  <2>2. CASE dropped \cup failed # {}
    <3>1. ~subscribed
      BY <1>4, <1>6, <2>2
    <3>2. \A s, q \in demandLocal : s = q
      BY <1>3, <3>1 DEF OneUnheard
    <3> QED
      BY <1>3, <1>4, <2>2, <3>2
  <2> QED
    BY <2>1, <2>2
<1>7. OnlyNextWaits'
  BY <1>4, <1>6 DEF OnlyNextWaits
<1> QED
  BY <1>4, <1>5, <1>7

LEMMA WorkKept ==
  ASSUME DemandAssumption, DemandMayFail = {}, DemandInd, WorkInd, [DemandNext]_demandVars
  PROVE  WorkInd'
<1> USE DEF DemandInd, WorkInd
<1>1. ASSUME NEW q \in Demands, Claim(q) \/ \E s \in Demands : SupersedeDemand(s, q)
      PROVE  WorkInd'
  <2>1. /\ pc = "idle" /\ (pc' = q \/ (pc' = "idle" /\ demandLocal' \subseteq demandLocal))
        /\ demandLocal' \subseteq demandLocal \cup {q} /\ jobRecords' \subseteq jobRecords
        /\ UNCHANGED <<demandRunning, demandActive, demandLeaked, others, subscribed, missed>>
    BY <1>1 DEF Claim, SupersedeDemand
  <2>2. Free > 0 => demandLocal \cap jobRecords = {}
    BY <2>1 DEF OnlyNextWaits, DemandTypeOK, DemandAssumption
  <2>3. Free' = Free
    BY <2>1 DEF Free
  <2> QED
    BY <2>1, <2>2, <2>3 DEF OnlyNextWaits, OneUnheard, DemandAssumption
<1>2. CASE PromoteDemand
  BY <1>2 DEF PromoteDemand, OnlyNextWaits, OneUnheard, Armed, Free, DemandAssumption, DemandTypeOK
<1>3. ASSUME NEW q \in Demands, FinishDemand(q)
      PROVE  WorkInd'
  BY <1>3 DEF FinishDemand, OnlyNextWaits, OneUnheard, Armed, DemandAssumption
<1>4. CASE OtherAcquires
  <2>1. Free \in Int /\ Free' = Free - 1
    BY <1>4, SetsFinite DEF OtherAcquires, Free, DemandTypeOK, DemandAssumption
  <2> QED
    BY <1>4, <2>1 DEF OtherAcquires, OnlyNextWaits, OneUnheard
<1>5. CASE OtherReleases
  BY <1>5 DEF OtherReleases, OnlyNextWaits, OneUnheard, Armed, LeasesExecute
<1>6. CASE \/ \E q \in Demands : Elsewhere(q) \/ \E c \in Callers : Wait(c, q)
           \/ \E c \in Callers : GiveUp(c)
           \/ UNCHANGED demandVars
  <2>1. UNCHANGED <<demandLocal, jobRecords, demandRunning, demandActive, demandLeaked, others, subscribed, pc, missed>>
    BY <1>6 DEF Elsewhere, Wait, GiveUp, demandVars
  <2> QED
    BY <2>1 DEF OnlyNextWaits, OneUnheard, Free
<1> QED
  BY <1>1, <1>2, <1>3, <1>4, <1>5, <1>6, DrainConserves DEF DemandNext

(* With a store that answers, no tracked job waits beside a free slot      *)
(* between two turns: the subscription, the extra pass and the drain after *)
(* every executor together lose no wake-up, for any capacity and any other *)
(* users of it.                                                            *)
THEOREM WorkIsConserved ==
  ASSUME DemandAssumption, DemandMayFail = {}
  PROVE  DemandSpec => []WorkConserved
<1>1. DemandInit => WorkInd
  BY DEF DemandInit, WorkInd, OnlyNextWaits, OneUnheard
<1>2. DemandInd /\ WorkInd /\ [DemandNext]_demandVars => WorkInd'
  BY WorkKept
<1>3. DemandInd /\ WorkInd => WorkConserved
  BY DEF DemandInd, WorkInd, OnlyNextWaits, WorkConserved, DemandTypeOK, DemandAssumption
<1> QED
  BY <1>1, <1>2, <1>3, DemandInvariant, PTL DEF DemandSpec

=============================================================================

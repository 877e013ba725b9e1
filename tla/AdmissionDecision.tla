-------------------------- MODULE AdmissionDecision --------------------------
(***************************************************************************)
(* The decision procedure of the process-wide ResourceAdmissionController  *)
(* (packages/workspace/src/resource-admission.ts).  A decision is a pure   *)
(* function of the live leases, the request and one sample of the host, so *)
(* it is a module of operators; HeavyJobQueue drains its waiters through   *)
(* it.                                                                     *)
(*                                                                         *)
(* A lease is [op, ws, session, class, cost]; `active` is the set of live  *)
(* leases, one per op.  A sample is [pressure, extra]: the memory-pressure *)
(* state and the number of extra heavy slots the measured memory and CPU   *)
(* support (heavy-headroom.ts).                                            *)
(***************************************************************************)
EXTENDS Integers, FiniteSets, FiniteSetsExt

CONSTANTS
  GlobalCost,      \* ceiling on the summed cost of live leases
  WorkspaceCost,   \* ceiling per workspace
  SessionCost,     \* ceiling per session
  ClassCost,       \* [class -> ceiling]
  HeavyClasses,    \* classes that share the heavy slots
  MaxHeavy,        \* configured heavy slots
  MaxExtraHeavy,   \* measured slots that may be added under normal pressure
  MaxOperations,   \* ceiling on the number of live leases
  ElevatedPercent, \* share of GlobalCost left under elevated pressure
  CriticalPercent  \* share of GlobalCost left under critical pressure

ASSUME AdmissionAssumption ==
  /\ {GlobalCost, WorkspaceCost, SessionCost, MaxHeavy, MaxOperations} \subseteq Nat \ {0}
  /\ MaxExtraHeavy \in Nat
  /\ HeavyClasses \subseteq DOMAIN ClassCost
  /\ \A c \in DOMAIN ClassCost : ClassCost[c] \in Nat \ {0}
  /\ ElevatedPercent \in 0..100
  /\ CriticalPercent \in 0..ElevatedPercent

Pressures == {"normal", "elevated", "critical"}

\* What the probes may report: extra slots are measured only without pressure.
Samples == [pressure : {"normal"}, extra : 0..MaxExtraHeavy]
             \cup [pressure : Pressures, extra : {0}]

CostOf(leases) == MapThenSumSet(LAMBDA l : l.cost, leases)

EffectiveGlobalCost(pressure) ==
  LET percent == IF pressure = "critical" THEN CriticalPercent ELSE ElevatedPercent
      share   == (GlobalCost * percent) \div 100
  IN  IF pressure = "normal" THEN GlobalCost
      ELSE IF percent > 0 /\ share < 1 THEN 1 ELSE share

HeavyLeases(active) == {l \in active : l.class \in HeavyClasses}

EffectiveMaxHeavy(sample) ==
  IF sample.pressure = "normal" THEN MaxHeavy + sample.extra ELSE MaxHeavy

\* tryAcquire: "admitted", or the first ceiling the request would break.
Decision(active, req, sample) ==
  LET exceeds(scope, limit) == CostOf(scope) + req.cost > limit
  IN  IF \E l \in active : l.op = req.op
        THEN "duplicate_operation"
      ELSE IF exceeds(active, EffectiveGlobalCost(sample.pressure))
        THEN IF sample.pressure = "normal" THEN "global_cost_exhausted" ELSE "memory_pressure"
      ELSE IF exceeds({l \in active : l.ws = req.ws}, WorkspaceCost)
        THEN "workspace_cost_exhausted"
      ELSE IF exceeds({l \in active : l.session = req.session}, SessionCost)
        THEN "session_cost_exhausted"
      ELSE IF exceeds({l \in active : l.class = req.class}, ClassCost[req.class])
        THEN "resource_class_cost_exhausted"
      ELSE IF req.class \in HeavyClasses
              /\ Cardinality(HeavyLeases(active)) >= EffectiveMaxHeavy(sample)
        THEN "heavy_capacity_exhausted"
      ELSE IF Cardinality(active) >= MaxOperations
        THEN "operation_limit_exhausted"
      ELSE "admitted"

\* Denials drain() takes to hold for every waiting job (isGlobalAdmissionDenial).
GlobalDenials == {"memory_pressure", "global_cost_exhausted", "operation_limit_exhausted"}
=============================================================================

-------------------------------- MODULE MCQueue --------------------------------
(***************************************************************************)
(* The heavy-job queue and what is built on it, side by side: one          *)
(* operation tried again and again by two processes; a bounded line of     *)
(* three operations in one process, the other being gone from the start;   *)
(* the fair order of five jobs of three workspaces; the drains that        *)
(* release listeners nest; the pre-edit runtime with three generations of  *)
(* one target.  `part` says which of them a behaviour is about; the others *)
(* stay in their initial state.                                            *)
(***************************************************************************)
EXTENDS MCHeavyJobQueue, HeavyJobFairness, HeavyJobDrain, PreEditDemand, TLC

VARIABLE part

MCMaxAttempts == [q \in Ops |-> IF q = a THEN 3 ELSE 1]

\* The generations of the one target are interchangeable.
OneTarget == [q \in Demands |-> "g"]
DemandSymmetry == Permutations(Demands)

\* Five jobs of three workspaces.
MCWorkspaceOf ==
  [j \in Candidates |-> CASE j \in {"a1", "a2"} -> "wa" [] j \in {"b1", "b2"} -> "wb" [] j = "c1" -> "wc"]

\* The proofs' assumptions on the constants hold here.
ASSUME ConstantsFit == FairnessAssumption /\ DrainAssumption

AllInit ==
  /\ part \in {"fencing", "line", "order", "drain", "pre-edit"}
  /\ Init /\ OrderInit /\ DemandInit
  /\ DrainInit
  /\ part # "drain" => port = "shell"

\* Nobody ever asks for an operation other than a.
OnlyOne == \A q \in Ops \ {a} : row'[q].attempt = 0

\* The second process dies first, every operation has one attempt, and no store
\* call throws, which is the only thing that leaks a lease.
OneProcess ==
  /\ alive' \subseteq OneOwner
  /\ \A q \in Ops : row'[q].attempt <= 1
  /\ LeaseAccounted'

AllNext ==
  \/ part = "fencing" /\ Next /\ OnlyOne /\ UNCHANGED <<part, orderVars, drainVars, demandVars>>
  \/ part = "line" /\ Next /\ OneProcess /\ UNCHANGED <<part, orderVars, drainVars, demandVars>>
  \/ part = "order" /\ OrderNext /\ UNCHANGED <<part, vars, drainVars, demandVars>>
  \/ part = "drain" /\ DrainNext /\ UNCHANGED <<part, vars, orderVars, demandVars>>
  \/ part = "pre-edit" /\ DemandNext /\ UNCHANGED <<part, vars, orderVars, drainVars>>

AllSpec == AllInit /\ [][AllNext]_<<part, vars, orderVars, drainVars, demandVars>>
=============================================================================

------------------------------ MODULE MCBackground ------------------------------
(***************************************************************************)
(* Three parts of the host that work behind the requests, side by side:    *)
(* the pre-edit runtime, the poller that reconciles merges, and the        *)
(* promoters of a canonical ref.  `part` says which of them a behaviour is *)
(* about; the others stay in their initial state.                          *)
(***************************************************************************)
EXTENDS PreEditDemand, MergeReconciliation, CanonicalRefs

CONSTANTS g1, g2, h1, c1

VARIABLE part

vars == <<part, demandVars, reconVars, refVars>>

\* Two generations of one workspace target and one of another.
ThreeDemands == {g1, g2, h1}
MCTarget == [q \in Demands |-> IF q = h1 THEN "h" ELSE "g"]

Init ==
  /\ part \in {"demand", "recon", "refs"}
  /\ DemandInit /\ ReconInit /\ RefInit

\* Of three promoters two promote the same state and one is a rival.
MCTargetOf == [p \in Promoters |-> IF p = "c" THEN "s2" ELSE "s1"]

\* The proofs' assumptions on the constants hold here.
ASSUME ConstantsFit == ReconAssumption /\ RefAssumption

Next ==
  \/ part = "demand" /\ DemandNext /\ UNCHANGED <<part, reconVars, refVars>>
  \/ part = "recon" /\ ReconNext /\ UNCHANGED <<part, demandVars, refVars>>
  \/ part = "refs" /\ RefNext /\ UNCHANGED <<part, demandVars, reconVars>>

\* The fairness of the poller and of the promoters.  In its initial state nothing
\* fair is enabled among promoters; a poller always has a next step.
FairSpec ==
  /\ Init /\ [][Next]_vars
  /\ RefFairness
  /\ \A q \in Pollers : WF_vars(part = "recon" /\ PollStep(q) /\ UNCHANGED <<part, demandVars, refVars>>)
=============================================================================

-------------------------- MODULE MCHeavyJobFairness --------------------------
(* Small instances of the fair order.                                      *)
EXTENDS HeavyJobFairness

CONSTANTS a1, a2, b1, b2

FourJobs == {a1, a2, b1, b2}

MCWorkspaceOf == [j \in Candidates |-> IF j \in {a1, a2} THEN "wa" ELSE "wb"]
AllBlocking == Candidates
=============================================================================

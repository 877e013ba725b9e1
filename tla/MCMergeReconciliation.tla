------------------------- MODULE MCMergeReconciliation -------------------------
(* A small instance of the merge reconciliation.                           *)
EXTENDS MergeReconciliation

OnePoller == {"q1"}
=============================================================================

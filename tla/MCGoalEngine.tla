----------------------------- MODULE MCGoalEngine ------------------------------
(* Small instances of the goal engine.                                     *)
EXTENDS GoalEngine, TLC

CONSTANTS s1, s2, c1

TwoSessions == {s1, s2}
OneCall == {c1}
TwoLengths == {1, 2}

\* A worker, and a rival that takes the goal over, finishes or stops it.
WorkerAndRival == s1 :> {"create"} @@ s2 :> {"run", "wake", "cancel", "reconcile", "completed"}

\* A worker that finishes while another session takes the goal over.
FinisherAndRival == s1 :> {"create", "completed"} @@ s2 :> {"run", "wake"}
=============================================================================

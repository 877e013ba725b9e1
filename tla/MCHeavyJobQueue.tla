---------------------------- MODULE MCHeavyJobQueue ----------------------------
(* Small instances of the durable heavy-job queue.                         *)
EXTENDS HeavyJobQueueRefinement, TLC

CONSTANTS a, b, c, p1, p2

OneOp == {a}
TwoOps == {a, b}
ThreeOps == {a, b, c}
OneOwner == {p1}
TwoOwners == {p1, p2}

Lease(q, ws, class, cost) == [op |-> q, ws |-> ws, session |-> "s", class |-> class, cost |-> cost]

\* One heavy job.
OneRequest == a :> Lease(a, "w1", "heavy", 8)

\* A heavy job and the generation it replaces.
TwoRequests == (a :> Lease(a, "w1", "heavy", 8)) @@ (b :> Lease(b, "w1", "heavy", 8))

\* A heavy job in each of two workspaces and a second one in the first.
ThreeRequests ==
  (a :> Lease(a, "w1", "heavy", 8)) @@ (b :> Lease(b, "w1", "heavy", 8))
    @@ (c :> Lease(c, "w2", "heavy", 8))

\* Two attempts of a job; the generation it replaces has left the queue before.
TwoAttemptsOfOne == [q \in Ops |-> IF q = a THEN 2 ELSE 0]
OneAttempt == [q \in Ops |-> 1]

MCClassCost == [cls \in {"heavy", "light"} |-> 16]
MCHeavyClasses == {"heavy"}
=============================================================================

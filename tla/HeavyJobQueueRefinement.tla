------------------------ MODULE HeavyJobQueueRefinement ------------------------
(***************************************************************************)
(* The durable queue implements HeavyJobLine: the line is the queued rows  *)
(* in the order of their position column, an integer that a claim sets to  *)
(* MAX + 1 over every row ever written, a promotion to MIN - 1 over the    *)
(* queued ones, and a supersede copies.                                    *)
(***************************************************************************)
EXTENDS HeavyJobQueue

\* s lists the rows of Q, each once, in the order of their places.
Lists(s, Q, place) ==
  /\ s \in [1..Cardinality(Q) -> Q]
  /\ \A q \in Q : \E i \in DOMAIN s : s[i] = q
  /\ \A i, j \in DOMAIN s : i < j => place[s[i]] < place[s[j]]

LineOf(Q, place) == CHOOSE s \in [1..Cardinality(Q) -> Q] : Lists(s, Q, place)

RunningRows == {q \in Ops : row[q].state = "running"}

Line == INSTANCE HeavyJobLine WITH
  Jobs <- Ops, line <- LineOf(Queued, position), running <- RunningRows

\* Every step of any process is a step of the waiting line or leaves it alone:
\* joining goes to the tail, promotion to the head without reordering the rest,
\* a successor takes exactly its predecessor's place.
LineImplemented == Line!Spec
=============================================================================

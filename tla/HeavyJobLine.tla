----------------------------- MODULE HeavyJobLine -----------------------------
(***************************************************************************)
(* What the durable queue promises a caller, without owners, positions,    *)
(* leases or recovery: a waiting line.  A job joins at the tail, may jump  *)
(* to the head, may hand its place to a successor, leaves from anywhere,   *)
(* and runs only after it has waited.                                      *)
(***************************************************************************)
EXTENDS Sequences, SequencesExt

CONSTANT Jobs

VARIABLES line, running

Waiting == ToSet(line)

Init == line = <<>> /\ running = {}

Join(q) ==
  /\ q \notin Waiting \cup running
  /\ line' = Append(line, q)
  /\ UNCHANGED running

Jump(q) ==
  /\ \E i \in DOMAIN line : line[i] = q /\ line' = <<q>> \o RemoveAt(line, i)
  /\ UNCHANGED running

HandOver(s, q) ==
  /\ q \notin Waiting \cup running
  /\ \E i \in DOMAIN line : line[i] = s /\ line' = [line EXCEPT ![i] = q]
  /\ UNCHANGED running

Leave(q) ==
  /\ \E i \in DOMAIN line : line[i] = q /\ line' = RemoveAt(line, i)
  /\ UNCHANGED running

Run(q) ==
  /\ \E i \in DOMAIN line : line[i] = q /\ line' = RemoveAt(line, i)
  /\ running' = running \cup {q}

End(q) ==
  /\ q \in running
  /\ running' = running \ {q}
  /\ UNCHANGED line

\* A step that moves nothing (the head jumping to the head) is none.
Next ==
  /\ line' # line \/ running' # running
  /\ \E q \in Jobs :
       \/ Join(q) \/ Jump(q) \/ Leave(q) \/ Run(q) \/ End(q)
       \/ \E s \in Jobs : HandOver(s, q)

Spec == Init /\ [][Next]_<<line, running>>
=============================================================================

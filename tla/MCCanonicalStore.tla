--------------------------- MODULE MCCanonicalStore ----------------------------
(***************************************************************************)
(* The two protocols that protect the canonical store, side by side: the   *)
(* maintenance passes over its manifests and blobs, and the promotions of  *)
(* a canonical ref.  `part` says which of the two a behaviour is about;    *)
(* the other stays in its initial state.                                   *)
(***************************************************************************)
EXTENDS MCCanonicalGc, CanonicalRefs

VARIABLE part

\* Two passes, of which the first may die, over a store of two manifests; an
\* advance brings a third one in that shares a blob with the second.
KindPairs == {<<"prune", "pin">>, <<"maintain", "expire">>, <<"repair", "pin">>}
MCKindsOfPass == {"x" :> k[1] @@ "y" :> k[2] : k \in KindPairs}

\* Of three promoters two promote the same state, which only one of them has
\* verified and which may die; the third is a rival whose heartbeat may fail.
MCTarget == [p \in Promoters |-> IF p = "c" THEN "s2" ELSE "s1"]

ASSUME ConstantsFit == LeaseAssumption /\ StoreAssumption /\ RefAssumption

BothInit ==
  /\ part \in {"passes", "refs"}
  /\ RefInit /\ Init
  /\ part # "passes" => kind["x"] = "prune"

BothNext ==
  \/ part = "passes" /\ Next /\ UNCHANGED <<part, refVars>>
  \/ part = "refs" /\ RefNext /\ UNCHANGED <<part, vars>>

BothSpec == BothInit /\ [][BothNext]_<<part, vars, refVars>>
=============================================================================

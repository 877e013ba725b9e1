----------------------------- MODULE MCCanonicalGc -----------------------------
(* Small instances of the canonical store and its maintenance passes.      *)
EXTENDS CanonicalGc, TLC

\* The second manifest shares a blob with the third, which an advance brings in.
MCContent == "m0" :> {"b0"} @@ "m1" :> {"b1"} @@ "m2" :> {"b1", "b2"}
MCAdvances == "w1" :> "m2"

\* A prune that overlaps an advance.
PruneOnly == {"x" :> "prune"}
=============================================================================

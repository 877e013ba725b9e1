------------------------------- MODULE MCClaims --------------------------------
(***************************************************************************)
(* Two protocols in which sessions and processes claim a piece of work by  *)
(* a row of the database, side by side: the execution lease of a goal (the *)
(* cfg's instance) and the attempts of a merge verification.  `part` says  *)
(* which of the two a behaviour is about; the other stays in its initial   *)
(* state.                                                                  *)
(***************************************************************************)
EXTENDS MCGoalEngine, MergeVerification

VARIABLE part

\* Two runners in two processes; one local gate, which the first head fails, and
\* one check of GitHub's.
TwoProcesses == "r1" :> "p" @@ "r2" :> "q"
FirstHeadFails == "test" :> {"h2"} @@ "ci" :> {"h1", "h2"}

ASSUME ConstantsFit == VerifyAssumption

BothInit == part \in {"goal", "verification"} /\ Init /\ VerifyInit

BothNext ==
  \/ part = "goal" /\ Next /\ UNCHANGED <<part, verifyVars>>
  \/ part = "verification" /\ VerifyNext /\ UNCHANGED <<part, vars>>

BothSpec == BothInit /\ [][BothNext]_<<part, vars, verifyVars>>
=============================================================================

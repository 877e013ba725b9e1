---------------------------- MODULE MCHeavyJobDrain ----------------------------
(* Small instances of the nested drains.                                   *)
EXTENDS HeavyJobDrain, TLC

CONSTANTS a, b, c

MCJobs == {a, b, c}
JobSymmetry == Permutations(MCJobs)
=============================================================================

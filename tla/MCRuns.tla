------------------------------- MODULE MCRuns -------------------------------
(***************************************************************************)
(* Instances of Runs for TLC: one thread, a deep run and a quick run.      *)
(***************************************************************************)
EXTENDS Runs, TLC

CONSTANTS r1, r2, t1

OneThread == [r \in Runs |-> t1]

Once(kinds) == [f \in FaultKinds |-> IF f \in kinds THEN 1 ELSE 0]

Restarts  == Once({"shutdown", "crash", "overrun"})
ApiFaults == Once({"apiCrash", "jobError", "cancelQueued"})
OneCancel == Once({"cancelQueued"})
OneCrash  == Once({"crash"})
OneOverrun == [Once({"overrun"}) EXCEPT !["shutdown"] = 2]

Symmetry == Permutations(Runs)
=============================================================================

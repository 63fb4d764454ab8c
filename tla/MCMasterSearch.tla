--------------------------- MODULE MCMasterSearch ---------------------------
(* Instances of MasterSearch for TLC.                                      *)
EXTENDS MasterSearch, TLC

CONSTANTS r1, r2, r3, r4, s1, s2, c1, c2, t1

Deployment(mode, ready, cof) == [mode |-> mode, ready |-> ready, cof |-> cof]

AllDeployments == {Deployment("required", TRUE, FALSE), Deployment("required", FALSE, FALSE),
                   Deployment("best_effort", TRUE, TRUE)}

(* Time passes or the object is lost, not both in one behaviour.           *)
TickOrCrash == clock = 1 \/ crashes = 0

Interchangeable == Permutations(Requests) \union Permutations(Subjects)
                     \union Permutations(Codes) \union Permutations(Txs)
=============================================================================

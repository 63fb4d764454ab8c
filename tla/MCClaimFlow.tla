---------------------------- MODULE MCClaimFlow ----------------------------
(* Instances of ClaimFlow for TLC.                                          *)
EXTENDS ClaimFlow, TLC

CONSTANTS r1, r2, s1, c1, c2, t1

Deployment(mode, ready, cof) == [mode |-> mode, ready |-> ready, cof |-> cof]

WithJudge == {Deployment("best_effort", TRUE, TRUE)}

Interchangeable == Permutations(Requests) \union Permutations(Subjects)
                     \union Permutations(Codes) \union Permutations(Txs)
=============================================================================

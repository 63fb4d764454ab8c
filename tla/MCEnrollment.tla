---------------------------- MODULE MCEnrollment ----------------------------
(* Instances of Enrollment for TLC.                                         *)
EXTENDS Enrollment, TLC

CONSTANTS r1, r2, r3, school, public, d1, d2, u1, u2, w1

(* The default minimum, and the higher one of a public event.               *)
Thresholds == [e \in {school, public, None} |-> IF e = public THEN 2 ELSE 1]

(* As the deployment guide recommends.                                      *)
Recommended == {[register |-> "open", claim |-> "closed"]}

About == {<<"user_register", None, u1>>, <<"wallet_claim", public, w1>>}

Interchangeable == Permutations(Calls) \union Permutations(Deciders)
=============================================================================

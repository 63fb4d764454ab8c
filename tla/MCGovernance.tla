---------------------------- MODULE MCGovernance ----------------------------
(* Instances of Governance for TLC.                                        *)
EXTENDS Governance, TLC

CONSTANTS o1, o2, o3, a1, u1

Interchangeable == Permutations(Operators)
=============================================================================

---------------------------- MODULE MCAdminConsole ----------------------------
(* Instances of AdminConsole for TLC.                                        *)
EXTENDS AdminConsole, TLC

CONSTANTS c1, c2, p1

Interchangeable == Permutations(Codes)
=============================================================================

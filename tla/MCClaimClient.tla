--------------------------- MODULE MCClaimClient ---------------------------
(* The recipient's device for TLC. *)
EXTENDS ClaimClient, TLC

CONSTANTS u1, u2, e1, f1, f2

Accounts == Permutations({u1, u2}) \cup Permutations({f1, f2})
=============================================================================

----------------------------- MODULE MCTicketIssue -----------------------------
(* Instances of TicketIssue for TLC.                                        *)
EXTENDS TicketIssue, TLC

CONSTANTS a, c1, c2, m1, s1, s2, r1, r2, r3, t1

MCGrants == {<<a, m1, 1>>}

(* A plan that fits and one that does not, with MAX_U64 = 200.              *)
TwoForms ==
  {[ticketTokenAmount |-> 1, claimIntervalDays |-> 1, maxClaimsPerInterval |-> n] : n \in {1, None}}

(* No allowlist, or a tree of one leaf, whose proof is empty.               *)
MCRoots == {ZeroHash, allowlist_leaf(c1)}
MCMerkleProofs == {<<>>}

(* Two signers in turn.                                                     *)
Alternating == [i \in 0..MaxTime |-> IF i % 2 = 0 THEN s1 ELSE s2]

(* The run has two parts, told apart by how the worker is configured.       *)
Used == {r \in Requests : call[r].pc # "idle"}

(* With a rotating signer: the requests of one claimer and a crash, while   *)
(* the organiser does no more than pause and close the grant.               *)
Rotating ==
  /\ \A r \in Used : "claimer" \in DOMAIN call[r] => call[r].claimer = c1
  /\ grant[TheGrant] # None => /\ grant[TheGrant].amount_per_period = 1
                              /\ grant[TheGrant].merkle_root = ZeroHash
  /\ ledger[TheGrant].funded \in {0, 100}

(* With a fixed signer or none: two requests, of two claimers or one, and   *)
(* whatever the organiser and the wallets send.                             *)
Fixed ==
  /\ Cardinality(Used) <= 2 /\ crashes = 0 /\ now <= 1
  /\ pop_config[a] # s2

Parts == IF mode = "rotation" THEN Rotating ELSE Fixed

Interchangeable == Permutations(Requests)
=============================================================================

--------------------------- MODULE MCGrantProgram ---------------------------
(* Instances of GrantProgram for TLC.                                      *)
EXTENDS GrantProgram, TLC

CONSTANTS a, c1, c2, m1, m2, s1, s2, h0, h1

MCGrants == {<<a, m1, 1>>}

Message(v, g, c, n, audit, t) ==
  [version |-> v, grant |-> g, claimer |-> c, period_index |-> n,
   prev_hash |-> h0, stream_prev_hash |-> h0, audit_hash |-> audit, issued_at |-> t]

(* A message whose entry_hash is the hash of its own fields, signed.       *)
Proof(s, m) ==
  [program_id |-> "ed25519", inline |-> TRUE, signer |-> s,
   message |-> [entry_hash |-> pop_entry_hash(m)] @@ m]

Issued == 0..MaxTime

Honest ==
  {Proof(s, Message(2, g, c, n, h1, t)) :
     s \in Signers, g \in Grants, c \in Wallets \ {a}, n \in PeriodIndexes, t \in Issued}

(* One defect each: no ed25519 instruction, a message by reference, v1, an *)
(* unknown version, no audit hash, an entry hash of other fields.          *)
Defective ==
  LET g == <<a, m1, 1>>
      ok == Proof(s1, Message(2, g, c1, 0, h1, 0))
  IN {[ok EXCEPT !.program_id = "other"],
      [ok EXCEPT !.inline = FALSE],
      Proof(s1, Message(1, g, c1, 0, ZeroHash, 0)),
      Proof(s1, Message(3, g, c1, 0, h1, 0)),
      Proof(s1, Message(2, g, c1, 0, ZeroHash, 0)),
      [ok EXCEPT !.message.issued_at = 1]}

(* A tree of two members, and one whose second branch is itself a pair.    *)
Pair      == HashPair(allowlist_leaf(a), allowlist_leaf(c1))
DeepTree  == HashPair(Pair, allowlist_leaf(c2))
MCRoots   == {ZeroHash, Pair, DeepTree}
MCProofs  ==
  LET nodes == {allowlist_leaf(a), allowlist_leaf(c1), allowlist_leaf(c2), Pair}
  IN {<<>>} \union {<<x>> : x \in nodes} \union {<<x, y>> : x, y \in nodes}

TwoGrants == {<<a, m1, 1>>, <<a, m2, 2>>}

MCPopInstructions == Honest \union Defective
=============================================================================

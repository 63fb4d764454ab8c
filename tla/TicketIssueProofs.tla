-------------------------- MODULE TicketIssueProofs --------------------------
(***************************************************************************)
(* Proofs about the grant program, and about the issue of its tickets.     *)
(* First GrantProgram alone, for every set of wallets, mints, grants,      *)
(* proofs and arguments. Then TicketIssue, and so PopIssuer and the part   *)
(* of GrantProgram it uses, for any number of requests, tickets and        *)
(* wallets, any rotation of the signer and any number of crashes: what a   *)
(* proof that was handed out is worth, that a repeated request gets the    *)
(* same one, that whoever is paid is anchored, that the stored chain never *)
(* forks, and that a stored event is backed by its vault.                  *)
(***************************************************************************)
EXTENDS TicketIssue, SequenceTheorems, FiniteSetTheorems, WellFoundedInduction, TLAPS

-----------------------------------------------------------------------------
(* GrantProgram.                                                           *)

(* The parts of a claim that the invariants look at.                       *)
LEMMA ClaimIsPayClaim ==
  ASSUME NEW g \in Grants, NEW w \in Wallets, NEW m \in Mints, NEW n \in PeriodIndexes,
         NEW ix \in PopInstructions,
         \/ claim_grant(g, w, m, n, ix)
         \/ \E proof \in MerkleProofs : claim_grant_with_proof(g, w, m, n, ix, proof)
  PROVE  grant[g] # None /\ PayClaim(g, w, m, n, ix)
BY DEF claim_grant, claim_grant_with_proof

(* Types of the components of a grant's seeds.                             *)
LEMMA SeedTypes ==
  ASSUME NEW g \in Grants
  PROVE  Authority(g) \in Wallets /\ MintOf(g) \in Mints /\ Authority(g) \in Authorities
BY ConstantsAssumption DEF Authority, MintOf, Authorities

-----------------------------------------------------------------------------
LEMMA InitType == Init => TypeOK
BY ConstantsAssumption DEF Init, TypeOK

LEMMA PayClaimType ==
  ASSUME TypeOK, NEW g \in Grants, NEW w \in Wallets, NEW m \in Mints,
         NEW n \in PeriodIndexes, NEW ix \in PopInstructions,
         grant[g] # None, PayClaim(g, w, m, n, ix), vault[g] # None
  PROVE  TypeOK'
<1> DEFINE amount == grant[g].amount_per_period
<1>1. grant[g] \in GrantAccount /\ vault[g] \in Nat
  BY DEF TypeOK
<1>2. /\ amount \in Nat /\ grant[g].start_ts \in Int /\ grant[g].merkle_root \in Roots
      /\ grant[g].period_seconds \in Nat \ {0}
  BY <1>1 DEF GrantAccount
<1>3. /\ n \in Nat /\ ix.message.period_index \in Nat /\ ix.message.issued_at \in Int
      /\ ix.message.entry_hash \in EntryHashes
  BY ConstantsAssumption DEF EntryHashes
<1>4. vault[g] - amount \in Nat
  BY <1>1, <1>2 DEF PayClaim, transfer_from_vault
<1>5. vault' \in [Grants -> Nat \union {None}]
  BY <1>4 DEF PayClaim, transfer_from_vault, TypeOK
<1>6. ata' \in [Wallets -> [Mints -> Nat]]
  BY <1>2 DEF PayClaim, transfer_from_vault, TypeOK
<1>7. record_pop_proof(pop_state[g], ix.message) \in PopStateAccount \union {None}
  BY <1>3 DEF record_pop_proof, PopStateAccount, TypeOK
<1>8. pop_state' \in [Grants -> PopStateAccount \union {None}]
  BY <1>7 DEF PayClaim, TypeOK
<1>9. ledger' \in [Grants -> [funded : Nat, paid : Nat, refunded : Nat]]
  BY <1>2, SMTT(40) DEF PayClaim, TypeOK
<1>10. receipts' \subseteq ClaimReceipt
  BY <1>3 DEF PayClaim, TypeOK, ClaimReceipt
<1>11. payouts' \subseteq Payout
  BY <1>2, <1>3 DEF PayClaim, TypeOK, Payout
<1>12. QED
  BY <1>5, <1>6, <1>8, <1>9, <1>10, <1>11 DEF TypeOK, PayClaim

(* Every disjunct of Next, with the vault of an open grant known to exist. *)
LEMMA NextType == TypeOK /\ VaultAccounting /\ [Next]_vars => TypeOK'
<1> SUFFICES ASSUME TypeOK, VaultAccounting, [Next]_vars
             PROVE  TypeOK'
  OBVIOUS
<1>1. ASSUME NEW g \in Grants, NEW a \in Amounts, NEW p \in Periods, NEW s \in Starts,
             NEW e \in Expiries, create_grant(g, a, p, s, e)
      PROVE  TypeOK'
  <2> DEFINE account == [amount_per_period |-> a, period_seconds |-> p, start_ts |-> s,
                         expires_at |-> e, merkle_root |-> ZeroHash, paused |-> FALSE]
  <2>1. account \in GrantAccount
    BY <1>1, ConstantsAssumption DEF GrantAccount, create_grant
  <2>2. grant' \in [Grants -> GrantAccount \union {None}]
    BY <1>1, <2>1 DEF TypeOK, create_grant
  <2>3. vault' \in [Grants -> Nat \union {None}]
    BY <1>1 DEF TypeOK, create_grant
  <2> QED
    BY <1>1, <2>2, <2>3 DEF TypeOK, create_grant
<1>2. ASSUME NEW g \in Grants, NEW a \in Amounts, NEW p \in Periods, NEW e \in Expiries,
             update_grant(g, a, p, e)
      PROVE  TypeOK'
  <2> DEFINE account == [grant[g] EXCEPT !.amount_per_period = a, !.period_seconds = p,
                                         !.expires_at = e]
  <2>1. grant[g] \in GrantAccount
    BY <1>2 DEF TypeOK, update_grant
  <2>2. a \in Nat /\ p \in Nat \ {0} /\ e \in Int
    BY <1>2, ConstantsAssumption DEF update_grant
  <2>3. account \in GrantAccount
    BY <2>1, <2>2 DEF GrantAccount
  <2>4. grant' = [grant EXCEPT ![g] = account]
    BY <1>2 DEF update_grant
  <2> QED
    BY <1>2, <2>3, <2>4 DEF TypeOK, update_grant
<1>3. ASSUME NEW g \in Grants, NEW b \in BOOLEAN, set_paused(g, b)
      PROVE  TypeOK'
  <2>1. grant[g] \in GrantAccount
    BY <1>3 DEF TypeOK, set_paused
  <2>2. [grant[g] EXCEPT !.paused = b] \in GrantAccount
    BY <2>1 DEF GrantAccount
  <2> QED
    BY <1>3, <2>2 DEF TypeOK, set_paused
<1>4. ASSUME NEW g \in Grants, NEW r \in Roots, set_allowlist_root(g, r)
      PROVE  TypeOK'
  <2>1. grant[g] \in GrantAccount
    BY <1>4 DEF TypeOK, set_allowlist_root
  <2>2. [grant[g] EXCEPT !.merkle_root = r] \in GrantAccount
    BY <2>1 DEF GrantAccount
  <2> QED
    BY <1>4, <2>2 DEF TypeOK, set_allowlist_root
<1>5. ASSUME NEW g \in Grants, close_grant(g)
      PROVE  TypeOK'
  <2>1. vault[g] \in Nat /\ Authority(g) \in Wallets /\ MintOf(g) \in Mints
    BY <1>5, SeedTypes DEF TypeOK, close_grant
  <2>2. ata' \in [Wallets -> [Mints -> Nat]]
    BY <1>5, <2>1 DEF TypeOK, close_grant
  <2>3. ledger' \in [Grants -> [funded : Nat, paid : Nat, refunded : Nat]]
    BY <1>5, <2>1 DEF TypeOK, close_grant
  <2> QED
    BY <1>5, <2>2, <2>3 DEF TypeOK, close_grant
<1>6. ASSUME NEW g \in Grants, NEW w \in Wallets, NEW m \in Mints, NEW a \in Amounts,
             fund_grant(g, w, m, a)
      PROVE  TypeOK'
  <2>1. vault[g] \in Nat /\ a \in Nat /\ ata[w][m] - a \in Nat
    BY <1>6, ConstantsAssumption DEF TypeOK, fund_grant
  <2>2. ata' \in [Wallets -> [Mints -> Nat]]
    BY <1>6, <2>1 DEF TypeOK, fund_grant
  <2>3. ledger' \in [Grants -> [funded : Nat, paid : Nat, refunded : Nat]]
    BY <1>6, <2>1 DEF TypeOK, fund_grant
  <2>4. vault' \in [Grants -> Nat \union {None}]
    BY <1>6, <2>1 DEF TypeOK, fund_grant
  <2> QED
    BY <1>6, <2>2, <2>3, <2>4 DEF TypeOK, fund_grant
<1>7. ASSUME NEW g \in Grants, NEW w \in Wallets, NEW m \in Mints,
             NEW n \in PeriodIndexes, NEW ix \in PopInstructions,
             \/ claim_grant(g, w, m, n, ix)
             \/ \E proof \in MerkleProofs : claim_grant_with_proof(g, w, m, n, ix, proof)
      PROVE  TypeOK'
  <2>1. grant[g] # None /\ PayClaim(g, w, m, n, ix)
    BY <1>7, ClaimIsPayClaim
  <2>2. vault[g] # None
    BY <2>1 DEF VaultAccounting
  <2> QED
    BY <2>1, <2>2, PayClaimType
<1>8. ASSUME NEW w \in Authorities, NEW s \in Signers, upsert_pop_config(w, s)
      PROVE  TypeOK'
  BY <1>8 DEF TypeOK, upsert_pop_config
<1>9. CASE Tick
  BY <1>9 DEF TypeOK, Tick
<1>10. CASE UNCHANGED vars
  BY <1>10 DEF TypeOK, vars
<1> QED
  BY <1>1, <1>2, <1>3, <1>4, <1>5, <1>6, <1>7, <1>8, <1>9, <1>10
     DEF Next, Administer, Use

-----------------------------------------------------------------------------
(* One open grant's bookkeeping: with TypeOK, the body of VaultAccounting. *)
Balanced(g) ==
  /\ (vault[g] = None) <=> (grant[g] = None)
  /\ ledger[g].funded = ledger[g].paid + ledger[g].refunded
                          + (IF vault[g] = None THEN 0 ELSE vault[g])

LEMMA InitVault == Init => VaultAccounting
BY DEF Init, VaultAccounting

(* A step touches the vault, the account and the ledger of one PDA only.   *)
LEMMA NextVault == TypeOK /\ VaultAccounting /\ [Next]_vars => VaultAccounting'
<1> SUFFICES ASSUME TypeOK, VaultAccounting, [Next]_vars, NEW h \in Grants
             PROVE  Balanced(h)'
  <2>1. ASSUME TypeOK, VaultAccounting, [Next]_vars PROVE \A g \in Grants : vault'[g] # None => vault'[g] >= 0
    BY <2>1, NextType DEF TypeOK
  <2> QED
    BY <2>1 DEF VaultAccounting, Balanced
<1>0. /\ Balanced(h)
      /\ vault[h] \in Nat \union {None} /\ ledger[h] \in [funded : Nat, paid : Nat, refunded : Nat]
      /\ grant[h] \in GrantAccount \union {None}
  BY DEF VaultAccounting, Balanced, TypeOK
<1>1. ASSUME NEW g \in Grants, NEW a \in Amounts, NEW p \in Periods, NEW s \in Starts,
             NEW e \in Expiries, create_grant(g, a, p, s, e)
      PROVE  Balanced(h)'
  <2> DEFINE account == [amount_per_period |-> a, period_seconds |-> p, start_ts |-> s,
                         expires_at |-> e, merkle_root |-> ZeroHash, paused |-> FALSE]
  <2>1. account \in GrantAccount
    BY <1>1, ConstantsAssumption DEF GrantAccount, create_grant
  <2>2. account # None /\ 0 # None
    <3> HIDE DEF account
    <3> QED
      BY <2>1, NoneAssumption
  <2>3. grant' = [grant EXCEPT ![g] = account] /\ vault' = [vault EXCEPT ![g] = 0] /\ ledger' = ledger
    BY <1>1 DEF create_grant
  <2>4. CASE h = g
    <3>1. vault[h] = None /\ vault'[h] = 0 /\ grant'[h] = account
      BY <1>1, <2>3, <2>4 DEF create_grant, TypeOK
    <3> QED
      BY <1>0, <2>2, <2>3, <3>1 DEF Balanced
  <2>5. CASE h # g
    BY <1>0, <2>3, <2>5 DEF Balanced, TypeOK
  <2> QED
    BY <2>4, <2>5
<1>2. ASSUME NEW g \in Grants,
             \/ \E a \in Amounts, p \in Periods, e \in Expiries : update_grant(g, a, p, e)
             \/ \E b \in BOOLEAN : set_paused(g, b)
             \/ \E r \in Roots : set_allowlist_root(g, r)
      PROVE  Balanced(h)'
  <2>1. vault' = vault /\ ledger' = ledger /\ grant[g] # None
    BY <1>2 DEF update_grant, set_paused, set_allowlist_root
  <2>2. \A k \in Grants : k # g => grant'[k] = grant[k]
    BY <1>2 DEF update_grant, set_paused, set_allowlist_root, TypeOK
  <2>3. TypeOK'
    BY <1>2, NextType DEF Next, Administer
  <2>4. grant'[g] # None
    <3>1. CASE \E a \in Amounts, p \in Periods, e \in Expiries : update_grant(g, a, p, e)
      <4> PICK a \in Amounts, p \in Periods, e \in Expiries : update_grant(g, a, p, e)
        BY <3>1
      <4>1. grant'[g] = [grant[g] EXCEPT !.amount_per_period = a, !.period_seconds = p, !.expires_at = e]
        BY DEF update_grant, TypeOK
      <4>2. grant[g] \in GrantAccount
        BY <2>1 DEF TypeOK
      <4>3. a \in Nat /\ p \in Nat \ {0} /\ e \in Int
        BY ConstantsAssumption DEF update_grant
      <4>4. grant'[g] \in GrantAccount
        BY <4>1, <4>2, <4>3 DEF GrantAccount
      <4> QED
        BY <4>4, NoneAssumption
    <3>2. CASE \E b \in BOOLEAN : set_paused(g, b)
      <4> PICK b \in BOOLEAN : set_paused(g, b)
        BY <3>2
      <4>1. grant'[g] = [grant[g] EXCEPT !.paused = b] /\ grant[g] \in GrantAccount
        BY <2>1 DEF set_paused, TypeOK
      <4>2. grant'[g] \in GrantAccount
        BY <4>1 DEF GrantAccount
      <4> QED
        BY <4>2, NoneAssumption
    <3>3. CASE \E r \in Roots : set_allowlist_root(g, r)
      <4> PICK r \in Roots : set_allowlist_root(g, r)
        BY <3>3
      <4>1. grant'[g] = [grant[g] EXCEPT !.merkle_root = r] /\ grant[g] \in GrantAccount
        BY <2>1 DEF set_allowlist_root, TypeOK
      <4>2. grant'[g] \in GrantAccount
        BY <4>1 DEF GrantAccount
      <4> QED
        BY <4>2, NoneAssumption
    <3> QED
      BY <1>2, <3>1, <3>2, <3>3
  <2> QED
    BY <1>0, <2>1, <2>2, <2>4 DEF Balanced
<1>3. ASSUME NEW g \in Grants, close_grant(g)
      PROVE  Balanced(h)'
  <2>1. vault[g] \in Nat
    BY <1>3 DEF close_grant, TypeOK
  <2>2. ledger' = [ledger EXCEPT ![g] = [ledger[g] EXCEPT !.refunded = ledger[g].refunded + vault[g]]]
    BY <1>3 DEF close_grant
  <2>3. CASE h = g
    <3>1. /\ ledger'[h] = [ledger[h] EXCEPT !.refunded = ledger[h].refunded + vault[h]]
          /\ vault'[h] = None /\ grant'[h] = None
      BY <1>3, <2>2, <2>3 DEF close_grant, TypeOK
    <3>2. vault[h] # None
      BY <1>3, <2>3 DEF close_grant
    <3> QED
      BY <1>0, <2>1, <2>3, <3>1, <3>2 DEF Balanced
  <2>4. CASE h # g
    BY <1>0, <1>3, <2>2, <2>4 DEF Balanced, close_grant, TypeOK
  <2> QED
    BY <2>3, <2>4
<1>4. ASSUME NEW g \in Grants, NEW w \in Wallets, NEW m \in Mints, NEW a \in Amounts,
             fund_grant(g, w, m, a)
      PROVE  Balanced(h)'
  <2>1. vault[g] \in Nat /\ vault[g] # None /\ a \in Nat /\ vault[g] + a # None
    BY <1>4, ConstantsAssumption, NoneAssumption DEF fund_grant, TypeOK
  <2>2. /\ ledger' = [ledger EXCEPT ![g] = [ledger[g] EXCEPT !.funded = ledger[g].funded + a]]
        /\ vault' = [vault EXCEPT ![g] = @ + a] /\ grant' = grant
    BY <1>4 DEF fund_grant
  <2>3. CASE h = g
    <3>1. /\ ledger'[h] = [ledger[h] EXCEPT !.funded = ledger[h].funded + a] /\ vault'[h] = vault[h] + a
      BY <2>2, <2>3 DEF TypeOK
    <3> QED
      BY <1>0, <2>1, <2>2, <2>3, <3>1 DEF Balanced
  <2>4. CASE h # g
    BY <1>0, <2>2, <2>4 DEF Balanced, TypeOK
  <2> QED
    BY <2>3, <2>4
<1>5. ASSUME NEW g \in Grants, NEW w \in Wallets, NEW m \in Mints,
             NEW n \in PeriodIndexes, NEW ix \in PopInstructions,
             \/ claim_grant(g, w, m, n, ix)
             \/ \E proof \in MerkleProofs : claim_grant_with_proof(g, w, m, n, ix, proof)
      PROVE  Balanced(h)'
  <2> DEFINE amount == grant[g].amount_per_period
  <2>1. grant[g] # None /\ PayClaim(g, w, m, n, ix)
    BY <1>5, ClaimIsPayClaim
  <2>2. vault[g] \in Nat /\ vault[g] # None /\ amount \in Nat
    BY <2>1 DEF VaultAccounting, TypeOK, GrantAccount
  <2>3. /\ ledger' = [ledger EXCEPT ![g] = [ledger[g] EXCEPT !.paid = ledger[g].paid + amount]]
        /\ vault' = [vault EXCEPT ![g] = @ - amount] /\ vault[g] >= amount /\ grant' = grant
    BY <2>1 DEF PayClaim, transfer_from_vault
  <2>4. vault[g] - amount # None
    BY <2>2, <2>3, NoneAssumption
  <2>5. CASE h = g
    <3>1. /\ ledger'[h] = [ledger[h] EXCEPT !.paid = ledger[h].paid + amount] /\ vault'[h] = vault[h] - amount
      BY <2>3, <2>5 DEF TypeOK
    <3> HIDE DEF amount
    <3> QED
      BY <1>0, <2>2, <2>3, <2>4, <2>5, <3>1 DEF Balanced
  <2>6. CASE h # g
    BY <1>0, <2>3, <2>6 DEF Balanced, TypeOK
  <2> QED
    BY <2>5, <2>6
<1>6. CASE \/ \E w \in Authorities, s \in Signers : upsert_pop_config(w, s)
           \/ Tick
           \/ UNCHANGED vars
  BY <1>0, <1>6 DEF Balanced, upsert_pop_config, Tick, vars
<1> QED
  BY <1>1, <1>2, <1>3, <1>4, <1>5, <1>6 DEF Next, Administer, Use

-----------------------------------------------------------------------------
(* Claims. A paid period index is the one the schedule in force gives.     *)
PeriodIndexSound ==
  \A p \in payouts : p.period_index = (p.at - p.start_ts) \div p.period_seconds

(* A paid proof hashes the grant, the claimer and the period it paid for.  *)
HashBindsPayout ==
  \A p \in payouts : \E m \in {ix.message : ix \in PopInstructions} :
    /\ m.version = POP_MESSAGE_VERSION_V2 /\ p.entry_hash = pop_entry_hash(m)
    /\ m.grant = p.grant /\ m.claimer = p.claimer /\ m.period_index = p.period_index

ClaimInv == PaidOncePerReceipt /\ PeriodIndexSound /\ HashBindsPayout /\ HeadIsNewest

IndInv == TypeOK /\ VaultAccounting /\ ClaimInv

NewPayout(g, w, n, ix) ==
  [grant |-> g, claimer |-> w, period_index |-> n, at |-> now,
   start_ts |-> grant[g].start_ts, period_seconds |-> grant[g].period_seconds,
   root |-> grant[g].merkle_root,
   entry_hash |-> ix.message.entry_hash, issued_at |-> ix.message.issued_at]

NewReceipt(g, w, n) ==
  [grant |-> g, claimer |-> w, period_index |-> n, claimed_at |-> now]

(* Only a claim writes receipts, payouts and the PoP heads.                *)
LEMMA OnlyClaimsPay ==
  ASSUME [Next]_vars
  PROVE  \/ UNCHANGED <<receipts, payouts, pop_state>>
         \/ \E g \in Grants, w \in Wallets, m \in Mints, n \in PeriodIndexes,
               ix \in PopInstructions : grant[g] # None /\ PayClaim(g, w, m, n, ix)
<1>1. CASE \E g \in Grants, w \in Wallets, m \in Mints, n \in PeriodIndexes,
             ix \in PopInstructions :
             \/ claim_grant(g, w, m, n, ix)
             \/ \E proof \in MerkleProofs : claim_grant_with_proof(g, w, m, n, ix, proof)
  BY <1>1, ClaimIsPayClaim
<1>2. CASE \/ \E g \in Grants : Administer(g)
           \/ \E g \in Grants, w \in Wallets, m \in Mints, a \in Amounts :
                fund_grant(g, w, m, a)
           \/ \E w \in Authorities, s \in Signers : upsert_pop_config(w, s)
           \/ Tick
           \/ UNCHANGED vars
  BY <1>2, ZenonT(60) DEF Administer, create_grant, update_grant, set_paused, set_allowlist_root,
              close_grant, fund_grant, upsert_pop_config, Tick, vars
<1> QED
  BY <1>1, <1>2 DEF Next, Use

(* What a claim adds, and what its guards establish about it.              *)
LEMMA ClaimFacts ==
  ASSUME TypeOK, NEW g \in Grants, NEW w \in Wallets, NEW m \in Mints,
         NEW n \in PeriodIndexes, NEW ix \in PopInstructions,
         grant[g] # None, PayClaim(g, w, m, n, ix)
  PROVE  /\ payouts' = payouts \union {NewPayout(g, w, n, ix)}
         /\ receipts' = receipts \union {NewReceipt(g, w, n)}
         /\ pop_state' = [pop_state EXCEPT ![g] = record_pop_proof(pop_state[g], ix.message)]
         /\ ReceiptUnused(g, w, n)
         /\ n = (now - grant[g].start_ts) \div grant[g].period_seconds
         /\ ix.message.version = POP_MESSAGE_VERSION_V2
         /\ ix.message.grant = g /\ ix.message.claimer = w /\ ix.message.period_index = n
         /\ ix.message.entry_hash = pop_entry_hash(ix.message)
         /\ ix.message.issued_at \in Int
BY ConstantsAssumption
   DEF PayClaim, NewPayout, NewReceipt, require_claim_timing, verify_pop_proof

(* The receipt a claim creates is new, so no payout with its seeds exists. *)
LEMMA ClaimKeepsPaidOnce ==
  ASSUME PaidOncePerReceipt, NEW g \in Grants, NEW w \in Wallets, NEW n, NEW ix,
         ReceiptUnused(g, w, n),
         payouts' = payouts \union {NewPayout(g, w, n, ix)},
         receipts' = receipts \union {NewReceipt(g, w, n)}
  PROVE  PaidOncePerReceipt'
<1> DEFINE new == NewPayout(g, w, n, ix)
<1>1. new.grant = g /\ new.claimer = w /\ new.period_index = n /\ new.at = now
  BY DEF NewPayout
<1>2. /\ NewReceipt(g, w, n).grant = g /\ NewReceipt(g, w, n).claimer = w
      /\ NewReceipt(g, w, n).period_index = n /\ NewReceipt(g, w, n).claimed_at = now
  BY DEF NewReceipt
<1> HIDE DEF new
<1>3. \A p \in payouts : ~SamePda(p, new) /\ ~SamePda(new, p)
  BY <1>1 DEF PaidOncePerReceipt, ReceiptUnused, SamePda
<1>4. payouts' = payouts \union {new}
  BY DEF new
<1>5. \A p, q \in payouts' : SamePda(p, q) => p = q
  BY <1>3, <1>4 DEF PaidOncePerReceipt
<1>6. SamePda(new, NewReceipt(g, w, n)) /\ NewReceipt(g, w, n).claimed_at = new.at
  BY <1>1, <1>2 DEF SamePda
<1>7. \A p \in payouts' : \E r \in receipts' : SamePda(p, r) /\ r.claimed_at = p.at
  BY <1>4, <1>6 DEF PaidOncePerReceipt
<1> QED
  BY <1>5, <1>7 DEF PaidOncePerReceipt, SamePda

(* The head is replaced by an equally new or newer proof, or kept.         *)
LEMMA ClaimKeepsHead ==
  ASSUME TypeOK, HeadIsNewest, NEW g \in Grants, NEW w, NEW n, NEW ix \in PopInstructions,
         payouts' = payouts \union {NewPayout(g, w, n, ix)},
         pop_state' = [pop_state EXCEPT ![g] = record_pop_proof(pop_state[g], ix.message)]
  PROVE  HeadIsNewest'
<1> DEFINE new == NewPayout(g, w, n, ix)
           HeadOf(h) == IF pop_state[h] = None
                        THEN \A p \in payouts : p.grant # h
                        ELSE /\ \E p \in payouts : /\ p.grant = h
                                                    /\ p.entry_hash = pop_state[h].last_hash
                                                    /\ p.issued_at = pop_state[h].last_issued_at
                             /\ \A p \in payouts : p.grant = h => p.issued_at <= pop_state[h].last_issued_at
<1>1. /\ new.grant = g /\ new.entry_hash = ix.message.entry_hash
      /\ new.issued_at = ix.message.issued_at /\ ix.message.issued_at \in Int
  BY ConstantsAssumption DEF NewPayout
<1> HIDE DEF new
<1>2. \A p \in payouts : p.issued_at \in Int
  BY DEF TypeOK, Payout
<1>3. \A h \in Grants : HeadOf(h)
  BY DEF HeadIsNewest
<1>4. payouts' = payouts \union {new}
  BY DEF new
<1>5. SUFFICES ASSUME NEW h \in Grants PROVE HeadOf(h)'
  BY DEF HeadIsNewest
<1>6. CASE h # g
  <2>1. pop_state'[h] = pop_state[h]
    BY <1>6 DEF TypeOK
  <2> QED
    BY <1>1, <1>3, <1>4, <1>6, <2>1
<1>7. CASE h = g /\ should_advance_head(pop_state[g], ix.message)
  <2> DEFINE head == [last_hash |-> ix.message.entry_hash,
                      last_period_index |-> ix.message.period_index,
                      last_issued_at |-> ix.message.issued_at]
  <2>1. pop_state'[h] = head
    BY <1>7 DEF TypeOK, record_pop_proof
  <2>2. head.last_hash = new.entry_hash /\ head.last_issued_at = new.issued_at
    BY <1>1
  <2>3. \A p \in payouts : p.grant = h => p.issued_at <= new.issued_at
    <3>1. CASE pop_state[h] = None
      BY <1>3, <3>1
    <3>2. CASE pop_state[h] # None
      <4>1. pop_state[h] \in PopStateAccount
        BY <3>2 DEF TypeOK
      <4>2. pop_state[h].last_issued_at \in Int /\ new.issued_at >= pop_state[h].last_issued_at
        BY <1>1, <1>7, <3>2, <4>1 DEF PopStateAccount, should_advance_head
      <4> QED
        BY <1>1, <1>2, <1>3, <3>2, <4>2
    <3> QED
      BY <3>1, <3>2
  <2>4. head \in PopStateAccount
    BY ConstantsAssumption DEF PopStateAccount, EntryHashes
  <2> HIDE DEF head
  <2>5. head # None
    BY <2>4, NoneAssumption
  <2>6. new.grant = h /\ new.issued_at \in Int
    BY <1>1, <1>7
  <2>7. \A p \in payouts' : p.grant = h => p.issued_at <= new.issued_at
    BY <1>4, <2>3, <2>6
  <2> QED
    BY <1>4, <2>1, <2>2, <2>5, <2>6, <2>7
<1>8. CASE h = g /\ ~should_advance_head(pop_state[g], ix.message)
  <2>1. pop_state'[h] = pop_state[h] /\ pop_state[h] # None
    BY <1>8 DEF TypeOK, record_pop_proof, should_advance_head
  <2>2. pop_state[h] \in PopStateAccount
    BY <2>1 DEF TypeOK
  <2>3. new.issued_at <= pop_state[h].last_issued_at
    BY <1>1, <1>8, <2>2 DEF PopStateAccount, should_advance_head
  <2> QED
    BY <1>1, <1>3, <1>4, <2>1, <2>3
<1> QED
  BY <1>6, <1>7, <1>8

LEMMA NextClaimInv == IndInv /\ [Next]_vars => ClaimInv'
<1> SUFFICES ASSUME IndInv, [Next]_vars PROVE ClaimInv'
  OBVIOUS
<1> USE DEF IndInv, ClaimInv
<1>1. CASE UNCHANGED <<receipts, payouts, pop_state>>
  <2>1. PaidOncePerReceipt'
    BY <1>1 DEF PaidOncePerReceipt, SamePda
  <2>2. PeriodIndexSound'
    BY <1>1 DEF PeriodIndexSound
  <2>3. HashBindsPayout'
    BY <1>1 DEF HashBindsPayout
  <2>4. HeadIsNewest'
    BY <1>1 DEF HeadIsNewest
  <2> QED
    BY <2>1, <2>2, <2>3, <2>4
<1>2. ASSUME NEW g \in Grants, NEW w \in Wallets, NEW m \in Mints,
             NEW n \in PeriodIndexes, NEW ix \in PopInstructions,
             grant[g] # None, PayClaim(g, w, m, n, ix)
      PROVE  ClaimInv'
  <2> DEFINE new == NewPayout(g, w, n, ix)
  <2>1. /\ payouts' = payouts \union {new}
        /\ receipts' = receipts \union {NewReceipt(g, w, n)}
        /\ pop_state' = [pop_state EXCEPT ![g] = record_pop_proof(pop_state[g], ix.message)]
        /\ ReceiptUnused(g, w, n)
    BY <1>2, ClaimFacts
  <2>2. PaidOncePerReceipt'
    BY <2>1, ClaimKeepsPaidOnce
  <2>3. PeriodIndexSound'
    <3>1. new.period_index = (new.at - new.start_ts) \div new.period_seconds
      BY <1>2, ClaimFacts DEF NewPayout
    <3> HIDE DEF new
    <3> QED
      BY <2>1, <3>1 DEF PeriodIndexSound
  <2>4. HashBindsPayout'
    <3>1. \E msg \in {i.message : i \in PopInstructions} :
            /\ msg.version = POP_MESSAGE_VERSION_V2 /\ new.entry_hash = pop_entry_hash(msg)
            /\ msg.grant = new.grant /\ msg.claimer = new.claimer
            /\ msg.period_index = new.period_index
      <4>1. /\ new.grant = g /\ new.claimer = w /\ new.period_index = n
            /\ new.entry_hash = ix.message.entry_hash
        BY DEF NewPayout
      <4> WITNESS ix.message \in {i.message : i \in PopInstructions}
      <4> QED
        BY <1>2, <4>1, ClaimFacts
    <3> HIDE DEF new
    <3> QED
      BY <2>1, <3>1 DEF HashBindsPayout
  <2>5. HeadIsNewest'
    BY <2>1, ClaimKeepsHead
  <2> QED
    BY <2>2, <2>3, <2>4, <2>5
<1> QED
  BY <1>1, <1>2, OnlyClaimsPay

LEMMA InitInv == Init => IndInv
<1> SUFFICES ASSUME Init PROVE IndInv
  OBVIOUS
<1>1. ClaimInv
  BY DEF Init, ClaimInv, PaidOncePerReceipt, PeriodIndexSound, HashBindsPayout, HeadIsNewest
<1> QED
  BY <1>1, InitType, InitVault DEF IndInv

LEMMA NextInv == IndInv /\ [Next]_vars => IndInv'
BY NextType, NextVault, NextClaimInv DEF IndInv

-----------------------------------------------------------------------------
(* IndInv holds in every reachable state of the program.                   *)
THEOREM Inductive == Spec => []IndInv
BY InitInv, NextInv, PTL DEF Spec

(* Accounts never leave their types, balances never go negative.           *)
THEOREM TypeCorrect == Spec => []TypeOK
<1>1. IndInv => TypeOK
  BY DEF IndInv
<1> QED
  BY <1>1, Inductive, PTL

(* Vaults hold exactly funded - paid - refunded, across close and create.  *)
THEOREM VaultsBalance == Spec => []VaultAccounting
<1>1. IndInv => VaultAccounting
  BY DEF IndInv
<1> QED
  BY <1>1, Inductive, PTL

(* No PDA, claimer and period index is ever paid twice.                    *)
THEOREM NoDoublePayment == Spec => []PaidOncePerReceipt
<1>1. IndInv => PaidOncePerReceipt
  BY DEF IndInv, ClaimInv
<1> QED
  BY <1>1, Inductive, PTL

(* Under an unchanged schedule one payment per claimer and period: the     *)
(* period index is a function of the schedule and the time of the claim.   *)
THEOREM OnePaymentPerPeriod == Spec => []OncePerScheduledPeriod
<1>1. IndInv => OncePerScheduledPeriod
  BY DEF IndInv, ClaimInv, PaidOncePerReceipt, PeriodIndexSound, OncePerScheduledPeriod,
         SamePda
<1> QED
  BY <1>1, Inductive, PTL

(* The PoP head of a grant is its newest accepted proof, in any order of   *)
(* arrival.                                                                *)
THEOREM HeadTracksNewest == Spec => []HeadIsNewest
<1>1. IndInv => HeadIsNewest
  BY DEF IndInv, ClaimInv
<1> QED
  BY <1>1, Inductive, PTL

(* A v2 entry hash determines the fields it was computed from.             *)
LEMMA HashDeterminesFields ==
  ASSUME NEW m, NEW l, m.version = POP_MESSAGE_VERSION_V2, l.version = POP_MESSAGE_VERSION_V2,
         pop_entry_hash(m) = pop_entry_hash(l)
  PROVE  m.grant = l.grant /\ m.claimer = l.claimer /\ m.period_index = l.period_index
<1>1. /\ pop_entry_hash(m)[5] = m.grant /\ pop_entry_hash(m)[6] = m.claimer
      /\ pop_entry_hash(m)[7] = m.period_index
  BY DEF pop_entry_hash
<1>2. /\ pop_entry_hash(l)[5] = l.grant /\ pop_entry_hash(l)[6] = l.claimer
      /\ pop_entry_hash(l)[7] = l.period_index
  BY DEF pop_entry_hash
<1> QED
  BY <1>1, <1>2

(* A proof pays once: its hash binds grant, claimer and period, and those  *)
(* are paid once.                                                          *)
THEOREM NoProofReplay == Spec => []ProofSingleUse
<1>1. ASSUME IndInv, NEW p \in payouts, NEW q \in payouts, p.entry_hash = q.entry_hash
      PROVE  p = q
  <2> DEFINE messages == {ix.message : ix \in PopInstructions}
  <2>1. PICK m \in messages : /\ m.version = POP_MESSAGE_VERSION_V2
                              /\ p.entry_hash = pop_entry_hash(m) /\ m.grant = p.grant
                              /\ m.claimer = p.claimer /\ m.period_index = p.period_index
    BY <1>1 DEF IndInv, ClaimInv, HashBindsPayout
  <2>2. PICK l \in messages : /\ l.version = POP_MESSAGE_VERSION_V2
                              /\ q.entry_hash = pop_entry_hash(l) /\ l.grant = q.grant
                              /\ l.claimer = q.claimer /\ l.period_index = q.period_index
    BY <1>1 DEF IndInv, ClaimInv, HashBindsPayout
  <2> HIDE DEF messages
  <2>3. m.grant = l.grant /\ m.claimer = l.claimer /\ m.period_index = l.period_index
    BY <1>1, <2>1, <2>2, HashDeterminesFields, ZenonT(60)
  <2> QED
    BY <1>1, <2>1, <2>2, <2>3, ZenonT(60) DEF IndInv, ClaimInv, PaidOncePerReceipt, SamePda
<1>2. IndInv => ProofSingleUse
  BY <1>1 DEF ProofSingleUse
<1> QED
  BY <1>2, Inductive, PTL

-----------------------------------------------------------------------------
(* Sums over finite sets. The fold behind SumFunctionOnSet is a recursive  *)
(* function on the subsets of a set; that there is one is shown for ever   *)
(* larger subsets, and what it computes for the smallest subset for which  *)
(* it would be wrong.                                                      *)

(* Every nonempty set of naturals has a least element.                     *)
LEMMA LeastNatural ==
  ASSUME NEW T, T \subseteq Nat, T # {}
  PROVE  \E n \in T : \A m \in T : n <= m
<1>1. PICK n \in T : \A m \in T : ~ (<<m, n>> \in OpToRel(<, Nat))
  BY NatLessThanWellFounded, WFMin, Zenon
<1>2. \A m \in T : ~ (m < n)
  BY <1>1 DEF OpToRel
<1> QED
  BY <1>2

Sums(f, D, it) ==
  it = [s \in D |-> IF s = {} THEN 0
                    ELSE f[CHOOSE x \in s : TRUE] + it[s \ {CHOOSE x \in s : TRUE}]]

LEMMA SumIsChosen ==
  ASSUME NEW f, NEW S
  PROVE  SumFunctionOnSet(f, S) = (CHOOSE it : Sums(f, SUBSET S, it))[S]
BY DEF SumFunctionOnSet, FoldFunctionOnSet, MapThenFoldSet, Sums

Small(S, n) == {s \in SUBSET S : Cardinality(s) <= n}

LEMMA PartFinite ==
  ASSUME NEW S, IsFiniteSet(S), NEW s \in SUBSET S
  PROVE  /\ IsFiniteSet(s) /\ Cardinality(s) \in Nat /\ Cardinality(s) <= Cardinality(S)
         /\ Cardinality(S) \in Nat
         /\ \A x \in s : /\ s \ {x} \in SUBSET S
                         /\ Cardinality(s \ {x}) = Cardinality(s) - 1 /\ Cardinality(s) > 0
         /\ s # {} => (CHOOSE x \in s : TRUE) \in s
<1>1. IsFiniteSet(s) /\ Cardinality(s) \in Nat /\ Cardinality(s) <= Cardinality(S) /\ Cardinality(S) \in Nat
  BY FS_Subset, FS_CardinalityType
<1>2. ASSUME NEW x \in s
      PROVE  s \ {x} \in SUBSET S /\ Cardinality(s \ {x}) = Cardinality(s) - 1 /\ Cardinality(s) > 0
  <2>1. Cardinality(s \ {x}) = Cardinality(s) - 1
    BY <1>1, FS_RemoveElement
  <2>2. Cardinality(s) # 0
    BY <1>1, FS_EmptySet
  <2> QED
    BY <1>1, <2>1, <2>2
<1>3. s # {} => (CHOOSE x \in s : TRUE) \in s
  OBVIOUS
<1> QED
  BY <1>1, <1>2, <1>3

LEMMA PartLess ==
  ASSUME NEW S, IsFiniteSet(S), NEW s \in SUBSET S, NEW x \in s
  PROVE  /\ s \ {x} \in SUBSET S /\ IsFiniteSet(s \ {x})
         /\ Cardinality(s \ {x}) = Cardinality(s) - 1 /\ Cardinality(s) - 1 \in Nat
<1>1. s \ {x} \in SUBSET S
  OBVIOUS
<1> QED
  BY <1>1, PartFinite, SMTT(30)

LEMMA SumsExist ==
  ASSUME NEW f, NEW S, IsFiniteSet(S) PROVE \E it : Sums(f, SUBSET S, it)
<1> DEFINE T == {n \in Nat : ~ \E it : Sums(f, Small(S, n), it)}
<1>1. T = {}
  <2> SUFFICES ASSUME T # {} PROVE FALSE
    OBVIOUS
  <2>1. PICK n \in T : \A m \in T : n <= m
    BY LeastNatural
  <2>2. n # 0
    <3>1. Small(S, 0) = {{}}
      <4>1. ASSUME NEW s \in Small(S, 0) PROVE s = {}
        <5>1. IsFiniteSet(s) /\ Cardinality(s) \in Nat /\ Cardinality(s) <= 0
          BY PartFinite DEF Small
        <5> QED
          BY <5>1, FS_EmptySet
      <4>2. {} \in Small(S, 0)
        BY FS_EmptySet DEF Small
      <4> QED
        BY <4>1, <4>2
    <3>2. Sums(f, Small(S, 0), [s \in {{}} |-> 0])
      BY <3>1 DEF Sums
    <3> QED
      BY <3>2, <2>1
  <2>3. n - 1 \in Nat /\ n - 1 \notin T
    BY <2>1, <2>2
  <2>4. PICK it : Sums(f, Small(S, n - 1), it)
    BY <2>3
  <2> DEFINE pick(s) == CHOOSE x \in s : TRUE
  <2> DEFINE next == [s \in Small(S, n) |-> IF s = {} THEN 0 ELSE f[pick(s)] + it[s \ {pick(s)}]]
  <2>5. ASSUME NEW s \in Small(S, n), s # {}
        PROVE  s \ {pick(s)} \in Small(S, n - 1) /\ s \ {pick(s)} \in Small(S, n)
    <3> DEFINE y == pick(s)
    <3>1. s \in SUBSET S /\ Cardinality(s) <= n
      BY DEF Small
    <3>2. y \in s
      BY <2>5
    <3> HIDE DEF y
    <3>3. /\ Cardinality(s) \in Nat /\ s \ {y} \in SUBSET S
          /\ Cardinality(s \ {y}) = Cardinality(s) - 1
      BY <3>1, <3>2, PartFinite
    <3>4. n \in Nat
      BY <2>1
    <3>5. s \ {y} \in Small(S, n - 1) /\ s \ {y} \in Small(S, n)
      BY <3>1, <3>3, <3>4 DEF Small
    <3> QED
      BY <3>5 DEF y
  <2>6. ASSUME NEW s \in Small(S, n - 1) PROVE s \in Small(S, n) /\ next[s] = it[s]
    <3>1. s \in Small(S, n)
      BY <2>1, <2>3, PartFinite DEF Small
    <3>2. it[s] = IF s = {} THEN 0 ELSE f[pick(s)] + it[s \ {pick(s)}]
      BY <2>4 DEF Sums
    <3> QED
      BY <3>1, <3>2
  <2>7. Sums(f, Small(S, n), next)
    <3>1. \A s \in Small(S, n) : next[s] = IF s = {} THEN 0 ELSE f[pick(s)] + next[s \ {pick(s)}]
      <4> SUFFICES ASSUME NEW s \in Small(S, n), s # {}
                   PROVE  next[s] = f[pick(s)] + next[s \ {pick(s)}]
        OBVIOUS
      <4>1. next[s] = f[pick(s)] + it[s \ {pick(s)}]
        OBVIOUS
      <4>2. next[s \ {pick(s)}] = it[s \ {pick(s)}]
        BY <2>5, <2>6
      <4> QED
        BY <4>1, <4>2
    <3> HIDE DEF pick
    <3>2. DOMAIN next = Small(S, n) /\ next = [s \in Small(S, n) |-> next[s]]
      OBVIOUS
    <3> HIDE DEF next
    <3>3. next = [s \in Small(S, n) |-> IF s = {} THEN 0 ELSE f[pick(s)] + next[s \ {pick(s)}]]
      BY <3>1, <3>2
    <3> QED
      BY <3>3 DEF Sums, pick
  <2> QED
    BY <2>1, <2>7
<1>2. Cardinality(S) \in Nat /\ Small(S, Cardinality(S)) = SUBSET S
  BY PartFinite, FS_CardinalityType DEF Small
<1> QED
  BY <1>1, <1>2, SMTT(30)

(* Two functions that sum parts agree where both are defined.              *)
LEMMA SumsAgree ==
  ASSUME NEW f, NEW S, IsFiniteSet(S), NEW R \in SUBSET S, NEW it, NEW jt,
         Sums(f, SUBSET S, it), Sums(f, SUBSET R, jt)
  PROVE  it[R] = jt[R]
<1> DEFINE T == {n \in Nat : \E s \in SUBSET R : Cardinality(s) = n /\ it[s] # jt[s]}
<1> SUFFICES ASSUME it[R] # jt[R] PROVE FALSE
  OBVIOUS
<1>0. IsFiniteSet(R) /\ \A s \in SUBSET R : IsFiniteSet(s) /\ Cardinality(s) \in Nat
  BY PartFinite, FS_Subset
<1>1. Cardinality(R) \in T
  BY <1>0
<1>2. PICK n \in T : \A m \in T : n <= m
  BY <1>1, LeastNatural
<1>3. PICK s \in SUBSET R : Cardinality(s) = n /\ it[s] # jt[s]
  BY <1>2
<1> DEFINE y == CHOOSE x \in s : TRUE
<1>4. /\ it[s] = IF s = {} THEN 0 ELSE f[y] + it[s \ {y}]
      /\ jt[s] = IF s = {} THEN 0 ELSE f[y] + jt[s \ {y}]
  <2>1. s \in SUBSET S
    OBVIOUS
  <2> QED
    BY <2>1 DEF Sums
<1>5. s # {}
  BY <1>3, <1>4
<1>6. y \in s
  BY <1>5
<1> HIDE DEF y
<1>7. s \ {y} \in SUBSET R /\ Cardinality(s \ {y}) = n - 1 /\ n - 1 \in Nat
  BY <1>0, <1>3, <1>6, PartLess
<1>8. it[s \ {y}] # jt[s \ {y}]
  BY <1>3, <1>4, <1>5
<1>9. n - 1 \in T
  BY <1>7, <1>8
<1> QED
  BY <1>2, <1>7, <1>9

LEMMA SumSteps ==
  ASSUME NEW f, NEW S, IsFiniteSet(S)
  PROVE  /\ S = {} => SumFunctionOnSet(f, S) = 0
         /\ S # {} => \E x \in S : SumFunctionOnSet(f, S) = f[x] + SumFunctionOnSet(f, S \ {x})
<1> DEFINE it == CHOOSE g : Sums(f, SUBSET S, g)
           y == CHOOSE x \in S : TRUE
           jt == CHOOSE g : Sums(f, SUBSET (S \ {y}), g)
<1>1. Sums(f, SUBSET S, it)
  BY SumsExist
<1>2. Sums(f, SUBSET (S \ {y}), jt)
  <2>1. IsFiniteSet(S \ {y})
    BY FS_Subset
  <2> QED
    BY <2>1, SumsExist
<1>3. SumFunctionOnSet(f, S) = it[S] /\ SumFunctionOnSet(f, S \ {y}) = jt[S \ {y}]
  BY SumIsChosen
<1> HIDE DEF it, jt
<1>4. it[S] = IF S = {} THEN 0 ELSE f[y] + it[S \ {y}]
  BY <1>1 DEF Sums
<1>5. it[S \ {y}] = jt[S \ {y}]
  <2>1. S \ {y} \in SUBSET S
    OBVIOUS
  <2> HIDE DEF y
  <2> QED
    BY <1>1, <1>2, <2>1, SumsAgree
<1> QED
  BY <1>3, <1>4, <1>5

Weighed(f, S) == \A x \in S : f[x] \in Int

LEMMA SumInt ==
  ASSUME NEW f, NEW S, IsFiniteSet(S), Weighed(f, S)
  PROVE  SumFunctionOnSet(f, S) \in Int
<1> DEFINE T == {n \in Nat : \E s \in SUBSET S : Cardinality(s) = n /\ SumFunctionOnSet(f, s) \notin Int}
<1> SUFFICES ASSUME SumFunctionOnSet(f, S) \notin Int PROVE FALSE
  OBVIOUS
<1>1. Cardinality(S) \in T
  BY PartFinite
<1>2. PICK n \in T : \A m \in T : n <= m
  BY <1>1, LeastNatural
<1>3. PICK s \in SUBSET S : Cardinality(s) = n /\ SumFunctionOnSet(f, s) \notin Int
  BY <1>2
<1>4. IsFiniteSet(s) /\ s # {}
  BY <1>3, PartFinite, SumSteps
<1>5. PICK x \in s : SumFunctionOnSet(f, s) = f[x] + SumFunctionOnSet(f, s \ {x})
  BY <1>4, SumSteps
<1>6. s \ {x} \in SUBSET S /\ Cardinality(s \ {x}) = n - 1 /\ n - 1 \in Nat
  <2>1. Cardinality(s) = n
    BY <1>3
  <2> HIDE DEF T
  <2>2. /\ s \ {x} \in SUBSET S /\ Cardinality(s \ {x}) = Cardinality(s) - 1
        /\ Cardinality(s) \in Nat /\ Cardinality(s) > 0
    BY PartFinite
  <2> QED
    BY <2>1, <2>2
<1>7. SumFunctionOnSet(f, s \ {x}) \notin Int
  BY <1>3, <1>5 DEF Weighed
<1> QED
  BY <1>2, <1>6, <1>7

(* Any element may be taken out of a sum.                                  *)
LEMMA SumTake ==
  ASSUME NEW f, NEW S, IsFiniteSet(S), Weighed(f, S), NEW y \in S
  PROVE  SumFunctionOnSet(f, S) = f[y] + SumFunctionOnSet(f, S \ {y})
<1> DEFINE Sum(s) == SumFunctionOnSet(f, s)
           Bad(s) == \E z \in s : Sum(s) # f[z] + Sum(s \ {z})
           T == {n \in Nat : \E s \in SUBSET S : Cardinality(s) = n /\ Bad(s)}
<1> SUFFICES ASSUME Sum(S) # f[y] + Sum(S \ {y}) PROVE FALSE
  OBVIOUS
<1>0. Bad(S)
  OBVIOUS
<1>1. Cardinality(S) \in T
  BY <1>0, PartFinite
<1>2. PICK n \in T : \A m \in T : n <= m
  BY <1>1, LeastNatural
<1>3. PICK s \in SUBSET S : Cardinality(s) = n /\ Bad(s)
  BY <1>2
<1>4. PICK z \in s : Sum(s) # f[z] + Sum(s \ {z})
  BY <1>3
<1>5. PICK x \in s : Sum(s) = f[x] + Sum(s \ {x})
  <2>1. IsFiniteSet(s) /\ s # {}
    BY FS_Subset
  <2> QED
    BY <2>1, SumSteps
<1>6. x # z
  BY <1>4, <1>5
<1>7. /\ s \ {x} \in SUBSET S /\ Cardinality(s \ {x}) = n - 1
      /\ s \ {z} \in SUBSET S /\ Cardinality(s \ {z}) = n - 1 /\ n - 1 \in Nat
  BY <1>3, PartLess
<1>8. ~Bad(s \ {x}) /\ ~Bad(s \ {z})
  <2>1. n - 1 \notin T
    BY <1>2, <1>7
  <2> HIDE DEF Bad
  <2> QED
    BY <1>7, <2>1
<1>9. Sum(s \ {x}) = f[z] + Sum((s \ {x}) \ {z}) /\ Sum(s \ {z}) = f[x] + Sum((s \ {z}) \ {x})
  <2>1. z \in s \ {x} /\ x \in s \ {z}
    BY <1>6
  <2> HIDE DEF Sum
  <2> QED
    BY <1>8, <2>1
<1>10. (s \ {x}) \ {z} = (s \ {z}) \ {x}
  OBVIOUS
<1>11. f[x] \in Int /\ f[z] \in Int
  BY DEF Weighed
<1>12. Sum((s \ {x}) \ {z}) \in Int
  <2>1. (s \ {x}) \ {z} \in SUBSET S
    OBVIOUS
  <2>2. IsFiniteSet((s \ {x}) \ {z}) /\ Weighed(f, (s \ {x}) \ {z})
    <3>1. IsFiniteSet((s \ {x}) \ {z})
      BY <2>1, FS_Subset
    <3> QED
      BY <2>1, <3>1 DEF Weighed
  <2> QED
    BY <2>2, SumInt
<1>13. \A a, b, r \in Int : a + (b + r) = b + (a + r)
  OBVIOUS
<1>14. f[x] + (f[z] + Sum((s \ {x}) \ {z})) = f[z] + (f[x] + Sum((s \ {x}) \ {z}))
  BY <1>11, <1>12, <1>13
<1> HIDE DEF Sum
<1> QED
  BY <1>4, <1>5, <1>9, <1>10, <1>14

(* A sum depends on the values summed only.                                *)
LEMMA SumSame ==
  ASSUME NEW f, NEW g, NEW S, \A x \in S : f[x] = g[x]
  PROVE  SumFunctionOnSet(f, S) = SumFunctionOnSet(g, S)
<1>1. ASSUME NEW it PROVE Sums(f, SUBSET S, it) <=> Sums(g, SUBSET S, it)
  <2>1. \A s \in SUBSET S : s # {} => f[CHOOSE x \in s : TRUE] = g[CHOOSE x \in s : TRUE]
    OBVIOUS
  <2>2. [s \in SUBSET S |-> IF s = {} THEN 0 ELSE f[CHOOSE x \in s : TRUE] + it[s \ {CHOOSE x \in s : TRUE}]]
        = [s \in SUBSET S |-> IF s = {} THEN 0 ELSE g[CHOOSE x \in s : TRUE] + it[s \ {CHOOSE x \in s : TRUE}]]
    BY <2>1
  <2> QED
    BY <2>2 DEF Sums
<1>2. (CHOOSE it : Sums(f, SUBSET S, it)) = (CHOOSE it : Sums(g, SUBSET S, it))
  BY <1>1
<1> QED
  BY <1>2, SumIsChosen

LEMMA SumConstant ==
  ASSUME NEW S, IsFiniteSet(S), NEW f, NEW c \in Int, \A x \in S : f[x] = c
  PROVE  SumFunctionOnSet(f, S) = Cardinality(S) * c
<1> DEFINE Wrong(s) == SumFunctionOnSet(f, s) # Cardinality(s) * c
           T == {n \in Nat : \E s \in SUBSET S : Cardinality(s) = n /\ Wrong(s)}
<1> SUFFICES ASSUME Wrong(S) PROVE FALSE
  OBVIOUS
<1>1. Cardinality(S) \in T
  BY PartFinite
<1>2. PICK n \in T : \A m \in T : n <= m
  BY <1>1, LeastNatural
<1>3. PICK s \in SUBSET S : Cardinality(s) = n /\ Wrong(s)
  BY <1>2
<1>4. IsFiniteSet(s) /\ s # {}
  BY <1>3, PartFinite, SumSteps, FS_EmptySet
<1>5. PICK x \in s : SumFunctionOnSet(f, s) = f[x] + SumFunctionOnSet(f, s \ {x})
  BY <1>4, SumSteps
<1>6. s \ {x} \in SUBSET S /\ Cardinality(s \ {x}) = n - 1 /\ n - 1 \in Nat
  <2>1. Cardinality(s) = n
    BY <1>3
  <2> HIDE DEF T
  <2>2. /\ s \ {x} \in SUBSET S /\ Cardinality(s \ {x}) = Cardinality(s) - 1
        /\ Cardinality(s) \in Nat /\ Cardinality(s) > 0
    BY PartFinite
  <2> QED
    BY <2>1, <2>2
<1>7. ~Wrong(s \ {x})
  <2> HIDE DEF Wrong
  <2> QED
    BY <1>2, <1>6
<1>8. SumFunctionOnSet(f, s) = c + (n - 1) * c
  BY <1>5, <1>6, <1>7
<1>9. c + (n - 1) * c = n * c
  BY <1>2
<1> QED
  BY <1>3, <1>8, <1>9

(* A sum and the same sum without one of its indices, if it is one.        *)
LEMMA SumWithout ==
  ASSUME NEW f, NEW S, IsFiniteSet(S), Weighed(f, S), NEW y
  PROVE  /\ SumFunctionOnSet(f, S \ {y}) \in Int
         /\ SumFunctionOnSet(f, S) = (IF y \in S THEN f[y] ELSE 0) + SumFunctionOnSet(f, S \ {y})
<1>1. IsFiniteSet(S \ {y}) /\ Weighed(f, S \ {y})
  BY FS_Subset DEF Weighed
<1>2. SumFunctionOnSet(f, S \ {y}) \in Int
  BY <1>1, SumInt
<1>3. y \notin S => S \ {y} = S
  OBVIOUS
<1> QED
  BY <1>2, <1>3, SumTake

-----------------------------------------------------------------------------
(* Tokens. What of a mint the wallets and the open vaults hold.            *)
Balances(ba, m)  == [w \in Wallets |-> ba[w][m]]
Open(va, m)      == {h \in Grants : MintOf(h) = m /\ va[h] # None}
Vaults(va, m)    == [g \in Open(va, m) |-> va[g]]
Total(ba, va, m) ==
  SumFunctionOnSet(Balances(ba, m), Wallets) + SumFunctionOnSet(Vaults(va, m), Open(va, m))

LEMMA TokenTotals ==
  TokenConservation <=>
    \A m \in Mints : Total(ata, vault, m) = Cardinality(Wallets) * InitialBalance
BY DEF TokenConservation, Total, Balances, Vaults, Open, SumFunction

Coins(x) == IF x = None THEN 0 ELSE x

(* The total in terms of one wallet and one grant of the mint.             *)
LEMMA TotalApart ==
  ASSUME NEW ba \in [Wallets -> [Mints -> Nat]], NEW va \in [Grants -> Nat \union {None}],
         NEW w \in Wallets, NEW g \in Grants, NEW m \in Mints, m = MintOf(g)
  PROVE  /\ SumFunctionOnSet(Balances(ba, m), Wallets \ {w}) \in Int
         /\ SumFunctionOnSet(Vaults(va, m), Open(va, m) \ {g}) \in Int
         /\ Total(ba, va, m) = ba[w][m] + SumFunctionOnSet(Balances(ba, m), Wallets \ {w})
                                 + Coins(va[g]) + SumFunctionOnSet(Vaults(va, m), Open(va, m) \ {g})
<1> DEFINE f == Balances(ba, m)
           h == Vaults(va, m)
           O == Open(va, m)
<1>1. IsFiniteSet(Wallets) /\ IsFiniteSet(O)
  BY FiniteAssumption, FS_Subset DEF Open
<1>2. Weighed(f, Wallets) /\ Weighed(h, O)
  BY DEF Weighed, Balances, Vaults, Open
<1>3. f[w] = ba[w][m] /\ ba[w][m] \in Int
  BY DEF Balances
<1>4. (IF g \in O THEN h[g] ELSE 0) = Coins(va[g]) /\ Coins(va[g]) \in Int
  BY DEF Open, Vaults, Coins
<1>5. Total(ba, va, m) = SumFunctionOnSet(f, Wallets) + SumFunctionOnSet(h, O)
  BY DEF Total
<1> HIDE DEF f, h, O
<1>6. /\ SumFunctionOnSet(f, Wallets \ {w}) \in Int
      /\ SumFunctionOnSet(f, Wallets) = f[w] + SumFunctionOnSet(f, Wallets \ {w})
  <2>1. SumFunctionOnSet(f, Wallets \ {w}) \in Int
    BY <1>1, <1>2, SumWithout
  <2>2. SumFunctionOnSet(f, Wallets) = (IF w \in Wallets THEN f[w] ELSE 0) + SumFunctionOnSet(f, Wallets \ {w})
    BY <1>1, <1>2, SumWithout
  <2> QED
    BY <2>1, <2>2
<1>7. /\ SumFunctionOnSet(h, O \ {g}) \in Int
      /\ SumFunctionOnSet(h, O) = (IF g \in O THEN h[g] ELSE 0) + SumFunctionOnSet(h, O \ {g})
  <2>1. SumFunctionOnSet(h, O \ {g}) \in Int
    BY <1>1, <1>2, SumWithout
  <2>2. SumFunctionOnSet(h, O) = (IF g \in O THEN h[g] ELSE 0) + SumFunctionOnSet(h, O \ {g})
    <3>1. CASE g \in O
      BY <1>1, <1>2, <3>1, SumTake
    <3>2. CASE g \notin O
      <4>1. O \ {g} = O
        BY <3>2
      <4>2. SumFunctionOnSet(h, O) = 0 + SumFunctionOnSet(h, O)
        BY <1>1, <1>2, SumInt
      <4> QED
        BY <3>2, <4>1, <4>2
    <3> QED
      BY <3>1, <3>2
  <2> QED
    BY <2>1, <2>2
<1>8. Total(ba, va, m) = ba[w][m] + SumFunctionOnSet(f, Wallets \ {w})
                           + Coins(va[g]) + SumFunctionOnSet(h, O \ {g})
  BY <1>3, <1>4, <1>5, <1>6, <1>7
<1> QED
  BY <1>6, <1>7, <1>8 DEF f, h, O

(* A step moves tokens between one wallet and one vault, of one mint.      *)
Transfer(w, g) ==
  /\ \A v \in Wallets, k \in Mints : v # w \/ k # MintOf(g) => ata'[v][k] = ata[v][k]
  /\ \A h \in Grants : h # g => vault'[h] = vault[h]
  /\ ata'[w][MintOf(g)] + Coins(vault'[g]) = ata[w][MintOf(g)] + Coins(vault[g])

LEMMA TransferKeepsTotals ==
  ASSUME TypeOK, TypeOK', NEW w \in Wallets, NEW g \in Grants, Transfer(w, g), NEW m \in Mints
  PROVE  Total(ata', vault', m) = Total(ata, vault, m)
<1>0. /\ ata \in [Wallets -> [Mints -> Nat]] /\ ata' \in [Wallets -> [Mints -> Nat]]
      /\ vault \in [Grants -> Nat \union {None}] /\ vault' \in [Grants -> Nat \union {None}]
  BY DEF TypeOK
<1>1. CASE m # MintOf(g)
  <2>1. Balances(ata', m) = Balances(ata, m)
    BY <1>1 DEF Transfer, Balances
  <2>2. Open(vault', m) = Open(vault, m)
    BY <1>1 DEF Transfer, Open
  <2>3. Vaults(vault', m) = Vaults(vault, m)
    BY <1>1, <2>2 DEF Transfer, Vaults, Open
  <2> QED
    BY <2>1, <2>2, <2>3 DEF Total
<1>2. CASE m = MintOf(g)
  <2>1. \A v \in Wallets \ {w} : Balances(ata', m)[v] = Balances(ata, m)[v]
    BY DEF Transfer, Balances
  <2>2. Open(vault', m) \ {g} = Open(vault, m) \ {g}
    BY DEF Transfer, Open
  <2>3. \A h \in Open(vault, m) \ {g} : Vaults(vault', m)[h] = Vaults(vault, m)[h]
    BY <2>2 DEF Transfer, Vaults, Open
  <2>4. SumFunctionOnSet(Balances(ata', m), Wallets \ {w}) = SumFunctionOnSet(Balances(ata, m), Wallets \ {w})
    BY <2>1, SumSame
  <2>5. SumFunctionOnSet(Vaults(vault', m), Open(vault', m) \ {g})
        = SumFunctionOnSet(Vaults(vault, m), Open(vault, m) \ {g})
    BY <2>2, <2>3, SumSame
  <2> DEFINE rest == SumFunctionOnSet(Balances(ata, m), Wallets \ {w})
             others == SumFunctionOnSet(Vaults(vault, m), Open(vault, m) \ {g})
  <2>a. \A ba \in [Wallets -> [Mints -> Nat]], va \in [Grants -> Nat \union {None}] :
          /\ SumFunctionOnSet(Balances(ba, m), Wallets \ {w}) \in Int
          /\ SumFunctionOnSet(Vaults(va, m), Open(va, m) \ {g}) \in Int
          /\ Total(ba, va, m) = ba[w][m] + SumFunctionOnSet(Balances(ba, m), Wallets \ {w})
                 + Coins(va[g]) + SumFunctionOnSet(Vaults(va, m), Open(va, m) \ {g})
    <3> TAKE ba \in [Wallets -> [Mints -> Nat]], va \in [Grants -> Nat \union {None}]
    <3>1. SumFunctionOnSet(Balances(ba, m), Wallets \ {w}) \in Int
      BY <1>2, TotalApart
    <3>2. SumFunctionOnSet(Vaults(va, m), Open(va, m) \ {g}) \in Int
      BY <1>2, TotalApart
    <3>3. Total(ba, va, m) = ba[w][m] + SumFunctionOnSet(Balances(ba, m), Wallets \ {w})
                 + Coins(va[g]) + SumFunctionOnSet(Vaults(va, m), Open(va, m) \ {g})
      BY <1>2, TotalApart
    <3> QED
      BY <3>1, <3>2, <3>3
  <2>6. /\ rest \in Int /\ others \in Int
        /\ Total(ata, vault, m) = ata[w][m] + rest + Coins(vault[g]) + others
    BY <1>0, <2>a, Zenon
  <2>7. Total(ata', vault', m) = ata'[w][m] + SumFunctionOnSet(Balances(ata', m), Wallets \ {w})
          + Coins(vault'[g]) + SumFunctionOnSet(Vaults(vault', m), Open(vault', m) \ {g})
    BY <1>0, <2>a, Zenon
  <2>8. /\ ata'[w][m] \in Int /\ ata[w][m] \in Int
        /\ Coins(vault'[g]) \in Int /\ Coins(vault[g]) \in Int
    BY <1>0 DEF Coins
  <2>9. ata'[w][m] + Coins(vault'[g]) = ata[w][m] + Coins(vault[g])
    BY <1>2 DEF Transfer
  <2>10. Total(ata', vault', m) = ata'[w][m] + rest + Coins(vault'[g]) + others
    BY <2>4, <2>5, <2>7
  <2> HIDE DEF rest, others
  <2> QED
    BY <2>6, <2>8, <2>9, <2>10
<1> QED
  BY <1>1, <1>2

(* Every step is such a transfer, or touches no balance.                   *)
LEMMA StepsTransfer ==
  ASSUME TypeOK, VaultAccounting, [Next]_vars
  PROVE  UNCHANGED <<ata, vault>> \/ \E w \in Wallets, g \in Grants : Transfer(w, g)
<1>0. \A g \in Grants : vault[g] # None => vault[g] \in Nat
  BY DEF TypeOK
<1>1. ASSUME NEW g \in Grants, NEW a \in Amounts, NEW p \in Periods, NEW s \in Starts,
             NEW e \in Expiries, create_grant(g, a, p, s, e)
      PROVE  Transfer(Authority(g), g)
  <2>1. vault[g] = None /\ vault' = [vault EXCEPT ![g] = 0] /\ ata' = ata /\ 0 # None
    BY <1>1, NoneAssumption DEF create_grant
  <2>2. Coins(vault[g]) = 0 /\ Coins(vault'[g]) = 0
    BY <2>1 DEF Coins, TypeOK
  <2> QED
    BY <2>1, <2>2 DEF Transfer, TypeOK
<1>2. ASSUME NEW g \in Grants, close_grant(g) PROVE Transfer(Authority(g), g)
  <2> DEFINE w == Authority(g)
             m == MintOf(g)
  <2>1. /\ vault[g] \in Nat /\ vault[g] # None /\ vault' = [vault EXCEPT ![g] = None]
        /\ ata' = [ata EXCEPT ![w] = [ata[w] EXCEPT ![m] = ata[w][m] + vault[g]]]
    BY <1>0, <1>2 DEF close_grant
  <2>2. w \in Wallets /\ m \in Mints
    BY SeedTypes
  <2>3. Coins(vault[g]) = vault[g] /\ Coins(vault'[g]) = 0
    BY <2>1 DEF Coins, TypeOK
  <2>4. ata'[w][m] = ata[w][m] + vault[g] /\ ata[w][m] \in Nat
    BY <2>1, <2>2 DEF TypeOK
  <2>5. \A v \in Wallets, k \in Mints : v # w \/ k # m => ata'[v][k] = ata[v][k]
    BY <2>1, <2>2 DEF TypeOK
  <2> QED
    BY <2>1, <2>3, <2>4, <2>5 DEF Transfer, TypeOK
<1>3. ASSUME NEW g \in Grants, NEW w \in Wallets, NEW m \in Mints, NEW a \in Amounts,
             fund_grant(g, w, m, a)
      PROVE  Transfer(w, g)
  <2>1. /\ m = MintOf(g) /\ vault[g] \in Nat /\ vault[g] # None /\ a \in Nat
        /\ vault' = [vault EXCEPT ![g] = vault[g] + a] /\ ata[w][m] >= a
        /\ ata' = [ata EXCEPT ![w] = [ata[w] EXCEPT ![m] = ata[w][m] - a]]
    BY <1>0, <1>3, ConstantsAssumption DEF fund_grant
  <2>2. vault[g] + a # None
    BY <2>1, NoneAssumption
  <2>3. Coins(vault[g]) = vault[g] /\ Coins(vault'[g]) = vault[g] + a
    BY <2>1, <2>2 DEF Coins, TypeOK
  <2>4. ata'[w][m] = ata[w][m] - a /\ ata[w][m] \in Nat
    BY <2>1 DEF TypeOK
  <2>5. \A v \in Wallets, k \in Mints : v # w \/ k # m => ata'[v][k] = ata[v][k]
    BY <2>1 DEF TypeOK
  <2>6. \A h \in Grants : h # g => vault'[h] = vault[h]
    BY <2>1 DEF TypeOK
  <2>7. (ata[w][m] - a) + (vault[g] + a) = ata[w][m] + vault[g]
    BY <2>1, <2>4
  <2> QED
    BY <2>1, <2>3, <2>4, <2>5, <2>6, <2>7 DEF Transfer
<1>4. ASSUME NEW g \in Grants, NEW w \in Wallets, NEW m \in Mints, NEW n \in PeriodIndexes,
             NEW ix \in PopInstructions,
             \/ claim_grant(g, w, m, n, ix)
             \/ \E proof \in MerkleProofs : claim_grant_with_proof(g, w, m, n, ix, proof)
      PROVE  Transfer(w, g)
  <2> DEFINE amount == grant[g].amount_per_period
  <2>1. grant[g] # None /\ PayClaim(g, w, m, n, ix)
    BY <1>4, ClaimIsPayClaim
  <2>2. vault[g] \in Nat /\ vault[g] # None /\ amount \in Nat
    BY <2>1 DEF VaultAccounting, TypeOK, GrantAccount
  <2>3. /\ m = MintOf(g) /\ vault' = [vault EXCEPT ![g] = vault[g] - amount] /\ vault[g] >= amount
        /\ ata' = [ata EXCEPT ![w] = [ata[w] EXCEPT ![m] = ata[w][m] + amount]]
    BY <2>1 DEF PayClaim, transfer_from_vault
  <2> HIDE DEF amount
  <2>4. vault[g] - amount # None
    BY <2>2, <2>3, NoneAssumption
  <2>5. Coins(vault[g]) = vault[g] /\ Coins(vault'[g]) = vault[g] - amount
    BY <2>2, <2>3, <2>4 DEF Coins, TypeOK
  <2>6. ata'[w][m] = ata[w][m] + amount /\ ata[w][m] \in Nat
    BY <2>3 DEF TypeOK
  <2>7. \A v \in Wallets, k \in Mints : v # w \/ k # m => ata'[v][k] = ata[v][k]
    BY <2>3 DEF TypeOK
  <2>8. \A h \in Grants : h # g => vault'[h] = vault[h]
    BY <2>3 DEF TypeOK
  <2>9. (ata[w][m] + amount) + (vault[g] - amount) = ata[w][m] + vault[g]
    BY <2>2, <2>6
  <2> QED
    BY <2>3, <2>5, <2>6, <2>7, <2>8, <2>9 DEF Transfer
<1>5. ASSUME NEW g \in Grants,
             \/ \E a \in Amounts, p \in Periods, e \in Expiries : update_grant(g, a, p, e)
             \/ \E b \in BOOLEAN : set_paused(g, b)
             \/ \E r \in Roots : set_allowlist_root(g, r)
      PROVE  UNCHANGED <<ata, vault>>
  BY <1>5 DEF update_grant, set_paused, set_allowlist_root
<1>6. CASE \/ \E w \in Authorities, s \in Signers : upsert_pop_config(w, s)
           \/ Tick
           \/ UNCHANGED vars
  BY <1>6 DEF upsert_pop_config, Tick, vars
<1>7. \A g \in Grants : Authority(g) \in Wallets
  BY SeedTypes
<1> QED
  BY <1>1, <1>2, <1>3, <1>4, <1>5, <1>6, <1>7 DEF Next, Administer, Use

LEMMA InitTokens == Init => TokenConservation
<1> SUFFICES ASSUME Init, NEW m \in Mints
             PROVE  Total(ata, vault, m) = Cardinality(Wallets) * InitialBalance
  BY TokenTotals
<1>1. \A w \in Wallets : Balances(ata, m)[w] = InitialBalance
  BY DEF Init, Balances
<1>2. SumFunctionOnSet(Balances(ata, m), Wallets) = Cardinality(Wallets) * InitialBalance
  BY <1>1, SumConstant, FiniteAssumption, ConstantsAssumption
<1>3. Open(vault, m) = {}
  BY DEF Init, Open
<1>4. SumFunctionOnSet(Vaults(vault, m), Open(vault, m)) = 0
  BY <1>3, SumSteps, FS_EmptySet
<1>5. Cardinality(Wallets) * InitialBalance \in Int
  BY FS_CardinalityType, FiniteAssumption, ConstantsAssumption
<1> QED
  BY <1>2, <1>4, <1>5 DEF Total

LEMMA NextTokens == IndInv /\ TokenConservation /\ [Next]_vars => TokenConservation'
<1> SUFFICES ASSUME IndInv, TokenConservation, [Next]_vars, NEW m \in Mints
             PROVE  Total(ata', vault', m) = Cardinality(Wallets) * InitialBalance
  <2>1. TokenConservation' <=>
          \A m \in Mints : Total(ata', vault', m) = Cardinality(Wallets) * InitialBalance
    BY DEF TokenConservation, Total, Balances, Vaults, Open, SumFunction
  <2> QED
    BY <2>1
<1>1. TypeOK /\ VaultAccounting /\ TypeOK'
  BY NextType DEF IndInv
<1>2. Total(ata, vault, m) = Cardinality(Wallets) * InitialBalance
  BY TokenTotals
<1>3. Total(ata', vault', m) = Total(ata, vault, m)
  BY <1>1, StepsTransfer, TransferKeepsTotals
<1> QED
  BY <1>2, <1>3

(* Tokens are neither made nor lost: of every mint, what the wallets and   *)
(* the open vaults hold together is what the wallets started with          *)
(* (fund_grant, transfer_from_vault, close_grant).                         *)
THEOREM TokensConserved == Spec => []TokenConservation
BY InitTokens, NextTokens, Inductive, PTL DEF Spec

-----------------------------------------------------------------------------
(* Allowlists. The upward walk of a proof and the downward levels of a     *)
(* tree, each up to n steps.                                               *)
Walk(c, leaf, proof, n) ==
  c = [i \in 0..n |-> IF i = 0 THEN leaf ELSE HashPair(c[i - 1], proof[i])]

Levels(l, root, n) ==
  l = [i \in 0..n |-> IF i = 0 THEN {root} ELSE UNION {Children(t) : t \in l[i - 1]}]

(* Both recursions define something, whatever the number of steps.         *)
LEMMA WalkExists ==
  ASSUME NEW leaf, NEW proof, NEW n \in Nat
  PROVE  \E c : Walk(c, leaf, proof, n)
<1> DEFINE T == {k \in Nat : ~ \E c : Walk(c, leaf, proof, k)}
<1> SUFFICES ASSUME n \in T PROVE FALSE
  OBVIOUS
<1>1. PICK k \in T : \A j \in T : k <= j
  BY LeastNatural
<1>2. k # 0
  <2>1. Walk([i \in 0..0 |-> leaf], leaf, proof, 0)
    BY DEF Walk
  <2> QED
    BY <1>1, <2>1
<1>3. k \in Nat /\ k - 1 \in Nat /\ k - 1 \notin T
  BY <1>1, <1>2
<1>4. PICK c : Walk(c, leaf, proof, k - 1)
  BY <1>3
<1> DEFINE d == [i \in 0..k |-> IF i = k THEN HashPair(c[k - 1], proof[k]) ELSE c[i]]
<1>5. \A i \in 0..k : d[i] = IF i = 0 THEN leaf ELSE HashPair(d[i - 1], proof[i])
  <2> SUFFICES ASSUME NEW i \in 0..k
               PROVE  d[i] = IF i = 0 THEN leaf ELSE HashPair(d[i - 1], proof[i])
    OBVIOUS
  <2>1. CASE i = k
    BY <1>2, <1>3, <2>1
  <2>2. CASE i # k
    <3>1. i \in 0..(k - 1) /\ d[i] = c[i]
      BY <1>3, <2>2
    <3>2. c[i] = IF i = 0 THEN leaf ELSE HashPair(c[i - 1], proof[i])
      BY <1>4, <3>1 DEF Walk
    <3>3. i # 0 => d[i - 1] = c[i - 1]
      BY <1>3, <3>1
    <3> QED
      BY <3>1, <3>2, <3>3
  <2> QED
    BY <2>1, <2>2
<1>6. d = [i \in 0..k |-> IF i = 0 THEN leaf ELSE HashPair(d[i - 1], proof[i])]
  BY <1>5
<1> QED
  BY <1>1, <1>6 DEF Walk

LEMMA LevelsExist ==
  ASSUME NEW root, NEW n \in Nat
  PROVE  \E l : Levels(l, root, n)
<1> DEFINE T == {k \in Nat : ~ \E l : Levels(l, root, k)}
           Below(s) == UNION {Children(t) : t \in s}
<1> SUFFICES ASSUME n \in T PROVE FALSE
  OBVIOUS
<1>1. PICK k \in T : \A j \in T : k <= j
  BY LeastNatural
<1>2. k # 0
  <2>1. Levels([i \in 0..0 |-> {root}], root, 0)
    BY DEF Levels
  <2> QED
    BY <1>1, <2>1
<1>3. k \in Nat /\ k - 1 \in Nat /\ k - 1 \notin T
  BY <1>1, <1>2
<1>4. PICK l : Levels(l, root, k - 1)
  BY <1>3
<1>5. l = [i \in 0..(k - 1) |-> IF i = 0 THEN {root} ELSE Below(l[i - 1])]
  BY <1>4 DEF Levels
<1> DEFINE d == [i \in 0..k |-> IF i = k THEN Below(l[k - 1]) ELSE l[i]]
<1>6. \A i \in 0..k : d[i] = IF i = 0 THEN {root} ELSE Below(d[i - 1])
  <2> HIDE DEF Below
  <2> SUFFICES ASSUME NEW i \in 0..k
               PROVE  d[i] = IF i = 0 THEN {root} ELSE Below(d[i - 1])
    OBVIOUS
  <2>1. CASE i = k
    BY <1>2, <1>3, <2>1
  <2>2. CASE i # k
    <3>1. i \in 0..(k - 1) /\ d[i] = l[i]
      BY <1>3, <2>2
    <3>2. l[i] = IF i = 0 THEN {root} ELSE Below(l[i - 1])
      BY <1>5, <3>1
    <3>3. i # 0 => d[i - 1] = l[i - 1]
      BY <1>3, <3>1
    <3> QED
      BY <3>1, <3>2, <3>3
  <2> QED
    BY <2>1, <2>2
<1>7. d = [i \in 0..k |-> IF i = 0 THEN {root} ELSE Below(d[i - 1])]
  <2> HIDE DEF Below
  <2> QED
    BY <1>6
<1>8. Levels(d, root, k)
  BY <1>7 DEF Levels
<1> QED
  BY <1>1, <1>8

(* A walk that ends in the root visits, k steps before its end, a node of  *)
(* level k: what is hashed into a node is among its children.              *)
LEMMA WalkDescends ==
  ASSUME NEW leaf, NEW proof, NEW root, NEW n \in Nat, NEW max \in Nat, n <= max,
         NEW c, Walk(c, leaf, proof, n), NEW l, Levels(l, root, max), c[n] = root
  PROVE  leaf \in l[n]
<1> DEFINE T == {k \in Nat : k <= n /\ c[n - k] \notin l[k]}
<1>1. T = {}
  <2> SUFFICES ASSUME T # {} PROVE FALSE
    OBVIOUS
  <2>1. PICK k \in T : \A j \in T : k <= j
    BY LeastNatural
  <2>2. l[0] = {root}
    BY DEF Levels
  <2>3. k # 0
    BY <2>1, <2>2
  <2>4. k \in Nat /\ k - 1 \in Nat /\ k <= n /\ k - 1 \notin T
    BY <2>1, <2>3
  <2>5. c[n - (k - 1)] \in l[k - 1]
    BY <2>4
  <2>6. n - (k - 1) \in 0..n /\ n - (k - 1) # 0 /\ n - (k - 1) - 1 = n - k
    BY <2>4
  <2>7. c[n - (k - 1)] = HashPair(c[n - k], proof[n - (k - 1)])
    BY <2>6 DEF Walk
  <2>8. c[n - k] \in Children(c[n - (k - 1)])
    BY <2>7 DEF HashPair, Children
  <2>9. l[k] = UNION {Children(t) : t \in l[k - 1]}
    BY <2>3, <2>4 DEF Levels
  <2> QED
    BY <2>1, <2>5, <2>8, <2>9
<1>2. c[n - n] \in l[n]
  BY <1>1
<1>3. c[n - n] = leaf
  BY DEF Walk
<1> QED
  BY <1>2, <1>3

(* A proof the program accepts is one of a member of the tree.             *)
LEMMA VerifiedIsMember ==
  ASSUME NEW root, NEW w \in Wallets, NEW proof \in MerkleProofs,
         verify_merkle_sorted(root, allowlist_leaf(w), proof)
  PROVE  w \in Members(root)
<1> DEFINE leaf == allowlist_leaf(w)
           n == Len(proof)
           computed == CHOOSE c : Walk(c, leaf, proof, n)
           level == CHOOSE l : Levels(l, root, MaxProof)
<1>1. n \in Nat /\ MaxProof \in Nat /\ n <= MaxProof
  BY ProofsAssumption
<1>2. computed[n] = root
  BY DEF verify_merkle_sorted, Walk
<1>3. Walk(computed, leaf, proof, n)
  BY <1>1, WalkExists
<1>4. Levels(level, root, MaxProof)
  BY <1>1, LevelsExist
<1>5. leaf \in level[n]
  <2> HIDE DEF computed, level, leaf, n
  <2> QED
    BY <1>1, <1>2, <1>3, <1>4, WalkDescends
<1>6. Members(root) = {v \in Wallets : \E k \in 0..MaxProof : allowlist_leaf(v) \in level[k]}
  BY DEF Members, Levels
<1>7. n \in 0..MaxProof
  BY <1>1
<1> HIDE DEF level, n
<1> QED
  BY <1>5, <1>6, <1>7

LEMMA NextAllowlist == IndInv /\ AllowlistRespected /\ [Next]_vars => AllowlistRespected'
<1> SUFFICES ASSUME IndInv, AllowlistRespected, [Next]_vars
             PROVE  AllowlistRespected'
  OBVIOUS
<1>1. ASSUME NEW g \in Grants, NEW w \in Wallets, NEW m \in Mints, NEW n \in PeriodIndexes,
             NEW ix \in PopInstructions, grant[g] # None, PayClaim(g, w, m, n, ix),
             grant[g].merkle_root # ZeroHash => w \in Members(grant[g].merkle_root)
      PROVE  AllowlistRespected'
  <2>1. \A p \in payouts' : p \in payouts \/ (p.claimer = w /\ p.root = grant[g].merkle_root)
    <3>1. payouts' = payouts \union {NewPayout(g, w, n, ix)}
      BY <1>1, ClaimFacts DEF IndInv
    <3>2. NewPayout(g, w, n, ix).claimer = w /\ NewPayout(g, w, n, ix).root = grant[g].merkle_root
      BY DEF NewPayout
    <3> QED
      BY <3>1, <3>2
  <2> QED
    BY <1>1, <2>1 DEF AllowlistRespected
<1>2. ASSUME NEW g \in Grants, NEW w \in Wallets, NEW m \in Mints, NEW n \in PeriodIndexes,
             NEW ix \in PopInstructions, claim_grant(g, w, m, n, ix)
      PROVE  AllowlistRespected'
  BY <1>1, <1>2 DEF claim_grant
<1>3. ASSUME NEW g \in Grants, NEW w \in Wallets, NEW m \in Mints, NEW n \in PeriodIndexes,
             NEW ix \in PopInstructions, NEW proof \in MerkleProofs,
             claim_grant_with_proof(g, w, m, n, ix, proof)
      PROVE  AllowlistRespected'
  BY <1>1, <1>3, VerifiedIsMember DEF claim_grant_with_proof
<1>4. CASE UNCHANGED payouts
  BY <1>4 DEF AllowlistRespected
<1>5. CASE \/ \E g \in Grants : Administer(g)
           \/ \E g \in Grants, w \in Wallets, m \in Mints, a \in Amounts :
                fund_grant(g, w, m, a)
           \/ \E w \in Authorities, s \in Signers : upsert_pop_config(w, s)
           \/ Tick
           \/ UNCHANGED vars
  BY <1>4, <1>5 DEF Administer, create_grant, update_grant, set_paused, set_allowlist_root,
                    close_grant, fund_grant, upsert_pop_config, Tick, vars
<1> QED
  BY <1>2, <1>3, <1>5 DEF Next, Use

(* Whoever was paid while an allowlist root was set has a leaf in the tree *)
(* under that root: no proof convinces verify_merkle_sorted of anyone      *)
(* else, and claim_grant refuses a grant with a root.                      *)
THEOREM AllowlistAlways == Spec => []AllowlistRespected
<1>1. Init => AllowlistRespected
  BY DEF Init, AllowlistRespected
<1> QED
  BY <1>1, NextAllowlist, Inductive, PTL DEF Spec

-----------------------------------------------------------------------------
(* TicketIssue: the inductive invariant.                                   *)

(* The stages of a request: with the lock, after the look at the ticket    *)
(* and the cache, after the anchor.                                        *)
Anchored == {"put_global", "put_stream", "put_history", "put_cache"}
Looked   == Anchored \union {"anchor"}
Held     == Looked \union {"lookup"}
Active   == Held \union {"queued"}

Task(pc, ticket, claimer, period, expected, signer, began, issued_at, prev, stream_prev) ==
  [pc |-> pc, ticket |-> ticket, claimer |-> claimer, period |-> period, expected |-> expected,
   signer |-> signer, began |-> began, issued_at |-> issued_at, prev |-> prev,
   stream_prev |-> stream_prev]

IsTask(x) ==
  x = Task(x.pc, x.ticket, x.claimer, x.period, x.expected, x.signer, x.began, x.issued_at,
           x.prev, x.stream_prev)

(* The signer of the window an instant of the past lies in.                *)
SignerAt(s, t) == t \in Nat /\ t <= now /\ s = SignerOf[rotationIndex(t)]

(* Every kept proof of the same request is too old to be handed out again. *)
NothingFresh(x) ==
  \A e \in cache :
    e.key = proofCacheKey(x) => x.issued_at - e.proof.message.issued_at > ReuseMaxAge

AnchorOf(ticket, claimer, period) == [ticket |-> ticket, claimer |-> claimer, period |-> period]

TaskOK(x) ==
  /\ x.pc \in Active => IsTask(x) /\ x.ticket \in Tickets
  /\ x.pc \in Held => SignerAt(x.signer, x.began)
  /\ x.pc \in Looked => /\ x.issued_at \in Nat /\ x.issued_at <= now
                        /\ x.ticket \in verified /\ NothingFresh(x)
  /\ x.pc \in Anchored => AnchorOf(x.ticket, x.claimer, x.period) \in anchors

(* A proof the program accepts while it is young enough, for a ticket that *)
(* verified and was anchored.                                              *)
Genuine(proof, began) ==
  LET m == proof.message IN
  /\ proof.program_id = "ed25519" /\ proof.inline = TRUE
  /\ SignerAt(proof.signer, began)
  /\ m.version = 2 /\ m.grant = TheGrant /\ m.entry_hash = pop_entry_hash(m)
  /\ m.audit_hash \in Tickets /\ m.audit_hash \in verified
  /\ m.issued_at \in Nat /\ m.issued_at <= now
  /\ AnchorOf(m.audit_hash, m.claimer, m.period_index) \in anchors

CacheOK ==
  /\ \A e \in cache : Genuine(e.proof, e.began)
  /\ \A e, f \in cache : e.key = f.key => e = f

(* The kept proof of the request is the one handed out, or much younger.   *)
StillKept(d) ==
  \E e \in cache :
    /\ e.key = d.key
    /\ \/ e.proof = d.proof
       \/ e.proof.message.issued_at - d.proof.message.issued_at > ReuseMaxAge

DeliveredOK(d) ==
  /\ Genuine(d.proof, d.began) /\ StillKept(d)
  /\ d.reused => d.at \in Nat /\ d.at - d.proof.message.issued_at <= ReuseMaxAge

LockOK ==
  /\ lock \in Seq(Requests) /\ DOMAIN call = Requests
  /\ \A r \in Requests : call[r].pc \in Held => holds(r)

SignerCacheOK == signerCache # None => signerCache.signer = SignerOf[signerCache.index]

IssueInv ==
  /\ now \in Nat /\ now <= MaxTime
  /\ LockOK /\ SignerCacheOK
  /\ \A r \in Requests : TaskOK(call[r])
  /\ CacheOK
  /\ \A d \in delivered : DeliveredOK(d)
  /\ SameProofWhileFresh /\ PayoutAnchored

-----------------------------------------------------------------------------
(* What a step leaves alone or only adds to.                               *)

Grows == mode' = mode /\ verified \subseteq verified' /\ anchors \subseteq anchors'

LEMMA LaterSigner ==
  ASSUME now \in Nat, now' \in Nat, now <= now', mode' = mode, NEW s, NEW t, SignerAt(s, t)
  PROVE  SignerAt(s, t)'
BY DEF SignerAt, rotationIndex

LEMMA LaterGenuine ==
  ASSUME now \in Nat, now' \in Nat, now <= now', Grows, NEW p, NEW began, Genuine(p, began)
  PROVE  Genuine(p, began)'
<1>1. SignerAt(p.signer, began)'
  BY LaterSigner DEF Genuine, Grows
<1> QED
  BY <1>1 DEF Genuine, Grows

LEMMA LaterTask ==
  ASSUME now \in Nat, now' \in Nat, now <= now', Grows, cache' = cache, NEW x, TaskOK(x)
  PROVE  TaskOK(x)'
<1>1. x.pc \in Held => SignerAt(x.signer, x.began)'
  BY LaterSigner DEF TaskOK, Grows
<1>2. x.pc \in Looked => NothingFresh(x)'
  BY DEF TaskOK, NothingFresh
<1>3. x.pc \in Looked => x.issued_at <= now'
  BY DEF TaskOK
<1> QED
  BY <1>1, <1>2, <1>3 DEF TaskOK, Grows

(* What remains to be shown of a step of the request that has the lock.    *)
LEMMA StepInv ==
  ASSUME IssueInv, NEW r \in Requests, holds(r), NEW new, call' = [call EXCEPT ![r] = new],
         lock' = lock \/ (lock' = Tail(lock) /\ new.pc \notin Held),
         now' = now, Grows, payouts' = payouts, SignerCacheOK', TaskOK(new)', CacheOK',
         \A d \in delivered' : DeliveredOK(d)', SameProofWhileFresh'
  PROVE  IssueInv'
<1>1. /\ now \in Nat /\ now <= MaxTime /\ LockOK /\ PayoutAnchored
      /\ \A q \in Requests : TaskOK(call[q])
  BY DEF IssueInv
<1>2. /\ lock \in Seq(Requests) /\ lock # <<>> /\ Head(lock) = r /\ DOMAIN call = Requests
      /\ \A q \in Requests \ {r} : call[q].pc \notin Held
  BY <1>1 DEF LockOK, holds
<1>3. lock' \in Seq(Requests)
  BY <1>2
<1>4. DOMAIN call' = Requests /\ call'[r] = new /\ \A q \in Requests \ {r} : call'[q] = call[q]
  BY <1>2
<1>5. ASSUME NEW q \in Requests, call'[q].pc \in Held PROVE holds(q)'
  <2>1. q = r /\ new.pc \in Held
    BY <1>2, <1>4, <1>5
  <2> QED
    BY <1>2, <2>1 DEF holds
<1>6. ASSUME NEW q \in Requests PROVE TaskOK(call[q])'
  <2>1. CASE q = r
    <3>1. call'[q] = new
      BY <1>4, <2>1
    <3> QED
      BY <3>1
  <2>2. CASE q # r
    <3>1. call'[q] = call[q] /\ call[q].pc \notin Held /\ TaskOK(call[q])
      BY <1>1, <1>2, <1>4, <2>2
    <3> QED
      BY <3>1 DEF TaskOK, Held, Looked
  <2> QED
    BY <2>1, <2>2
<1>7. PayoutAnchored'
  BY <1>1 DEF PayoutAnchored, Grows
<1>8. LockOK'
  BY <1>3, <1>4, <1>5 DEF LockOK
<1> QED
  BY <1>1, <1>6, <1>7, <1>8 DEF IssueInv

(* Kept proofs and deliveries do not change.                               *)
LEMMA ProofsKept ==
  ASSUME IssueInv, cache' = cache, delivered' = delivered, now' \in Nat, now <= now', Grows
  PROVE  CacheOK' /\ (\A d \in delivered' : DeliveredOK(d)') /\ SameProofWhileFresh'
<1>1. /\ now \in Nat /\ CacheOK /\ SameProofWhileFresh
      /\ \A d \in delivered : DeliveredOK(d)
  BY DEF IssueInv
<1>2. ASSUME NEW e \in cache PROVE Genuine(e.proof, e.began)'
  BY <1>1, LaterGenuine DEF CacheOK
<1>3. CacheOK'
  BY <1>1, <1>2 DEF CacheOK
<1>4. ASSUME NEW d \in delivered PROVE DeliveredOK(d)'
  <2>1. DeliveredOK(d)
    BY <1>1
  <2>2. Genuine(d.proof, d.began)'
    BY <1>1, <2>1, LaterGenuine DEF DeliveredOK
  <2>3. StillKept(d)'
    BY <2>1 DEF DeliveredOK, StillKept
  <2> QED
    BY <2>1, <2>2, <2>3 DEF DeliveredOK
<1>5. SameProofWhileFresh'
  BY <1>1 DEF SameProofWhileFresh
<1> QED
  BY <1>3, <1>4, <1>5

(* A step of the request with the lock that neither keeps nor hands out a  *)
(* proof.                                                                  *)
LEMMA ControlStep ==
  ASSUME IssueInv, NEW r \in Requests, holds(r), NEW new, call' = [call EXCEPT ![r] = new],
         lock' = lock \/ (lock' = Tail(lock) /\ new.pc \notin Held),
         UNCHANGED <<now, payouts, cache, delivered>>, Grows, SignerCacheOK', TaskOK(new)'
  PROVE  IssueInv'
<1>1. now \in Nat /\ now' = now /\ now <= now'
  BY DEF IssueInv
<1>2. CacheOK' /\ (\A d \in delivered' : DeliveredOK(d)') /\ SameProofWhileFresh'
  BY <1>1, ProofsKept
<1> QED
  BY <1>1, <1>2, StepInv

(* A step of something else than a request.                                *)
LEMMA WorldStep ==
  ASSUME IssueInv, UNCHANGED <<call, lock, cache, delivered>>, Grows,
         now' \in Nat, now <= now', now' <= MaxTime, SignerCacheOK', PayoutAnchored'
  PROVE  IssueInv'
<1>1. now \in Nat /\ LockOK /\ \A q \in Requests : TaskOK(call[q])
  BY DEF IssueInv
<1>2. CacheOK' /\ (\A d \in delivered' : DeliveredOK(d)') /\ SameProofWhileFresh'
  BY ProofsKept
<1>3. ASSUME NEW q \in Requests PROVE TaskOK(call[q])'
  <2>1. TaskOK(call[q]) /\ call'[q] = call[q]
    BY <1>1
  <2> QED
    BY <1>1, <2>1, LaterTask
<1>4. LockOK'
  BY <1>1 DEF LockOK, holds
<1> QED
  BY <1>2, <1>3, <1>4 DEF IssueInv

LEMMA SettledTask ==
  ASSUME NEW pc \in {"error", "done", "lost", "idle"}
  PROVE  /\ [pc |-> pc].pc \notin Active /\ [pc |-> pc].pc \notin Held
         /\ TaskOK([pc |-> pc])'
BY DEF TaskOK, Active, Held, Looked, Anchored

LEMMA SettleStep ==
  ASSUME IssueInv, NEW r \in Requests, holds(r), NEW pc \in {"error", "done"}, settle(r, pc),
         UNCHANGED <<now, payouts, cache, delivered>>, Grows, SignerCacheOK'
  PROVE  IssueInv'
<1>1. /\ call' = [call EXCEPT ![r] = [pc |-> pc]] /\ lock' = Tail(lock)
      /\ [pc |-> pc].pc \notin Held /\ TaskOK([pc |-> pc])'
  BY SettledTask DEF settle
<1> QED
  BY <1>1, ControlStep

(* The next stage of a task.                                               *)
atStage(x, pc) ==
  Task(pc, x.ticket, x.claimer, x.period, x.expected, x.signer, x.began, x.issued_at,
       x.prev, x.stream_prev)

LEMMA StageFacts ==
  ASSUME NEW x, IsTask(x), NEW pc
  PROVE  /\ [x EXCEPT !.pc = pc] = atStage(x, pc) /\ IsTask(atStage(x, pc))
         /\ atStage(x, pc).pc = pc /\ atStage(x, pc).ticket = x.ticket
         /\ atStage(x, pc).claimer = x.claimer /\ atStage(x, pc).period = x.period
         /\ atStage(x, pc).expected = x.expected /\ atStage(x, pc).signer = x.signer
         /\ atStage(x, pc).began = x.began /\ atStage(x, pc).issued_at = x.issued_at
         /\ atStage(x, pc).prev = x.prev /\ atStage(x, pc).stream_prev = x.stream_prev
BY DEF IsTask, Task, atStage

LEMMA GotoFacts ==
  ASSUME NEW r \in Requests, DOMAIN call = Requests, IsTask(call[r]), NEW pc, goto(r, pc)
  PROVE  call' = [call EXCEPT ![r] = atStage(call[r], pc)] /\ lock' = lock
BY StageFacts DEF goto

(* A task that is anchored and goes on to a later stage.                   *)
LEMMA AnchoredGoesOn ==
  ASSUME NEW x, TaskOK(x), x.pc \in Anchored, NEW pc \in Anchored, now \in Nat,
         UNCHANGED <<now, mode, verified, anchors, cache>>
  PROVE  TaskOK(atStage(x, pc))'
<1>1. IsTask(x) /\ SignerAt(x.signer, x.began) /\ NothingFresh(x)
  BY DEF TaskOK, Active, Held, Looked
<1>2. SignerAt(x.signer, x.began)' /\ NothingFresh(x)'
  BY <1>1, LaterSigner DEF NothingFresh
<1> DEFINE y == atStage(x, pc)
<1>3. /\ IsTask(y) /\ y.pc = pc /\ y.ticket = x.ticket /\ y.claimer = x.claimer
      /\ y.period = x.period /\ y.expected = x.expected /\ y.signer = x.signer
      /\ y.began = x.began /\ y.issued_at = x.issued_at
  BY <1>1, StageFacts
<1> HIDE DEF y
<1>4. NothingFresh(y)'
  BY <1>2, <1>3 DEF NothingFresh, proofCacheKey
<1>5. SignerAt(y.signer, y.began)'
  BY <1>2, <1>3
<1>6. /\ y.ticket \in Tickets /\ y.ticket \in verified /\ y.issued_at \in Nat /\ y.issued_at <= now
      /\ AnchorOf(y.ticket, y.claimer, y.period) \in anchors
  BY <1>3 DEF TaskOK, Active, Held, Looked
<1>7. TaskOK(y)'
  BY <1>3, <1>4, <1>5, <1>6 DEF TaskOK
<1> QED
  BY <1>7 DEF y

-----------------------------------------------------------------------------
(* The steps of a request.                                                 *)

LEMMA RequestInv ==
  ASSUME IssueInv, NEW r \in Requests, NEW t \in Tickets, NEW w, NEW n, NEW h,
         request(r, t, w, n, h)
  PROVE  IssueInv'
<1> DEFINE expected == IF h THEN pop_state[TheGrant].last_hash ELSE None
<1>0. PICK new : new = Task("queued", t, w, n, expected, None, now, now, ZeroHash, ZeroHash)
  OBVIOUS
<1>1. /\ call' = [call EXCEPT ![r] = new] /\ lock' = Append(lock, r) /\ call[r].pc = "idle"
      /\ UNCHANGED <<now, payouts, mode, verified, signerCache, cache, anchors, delivered>>
  BY <1>0 DEF request, vars, store, Task
<1>2. new.pc = "queued" /\ IsTask(new) /\ new.ticket = t
  BY <1>0 DEF IsTask, Task
<1>3. /\ now \in Nat /\ now <= MaxTime /\ LockOK /\ SignerCacheOK /\ PayoutAnchored
      /\ \A q \in Requests : TaskOK(call[q])
  BY DEF IssueInv
<1>4. now' = now /\ now <= now' /\ Grows
  BY <1>1, <1>3 DEF Grows
<1>5. CacheOK' /\ (\A d \in delivered' : DeliveredOK(d)') /\ SameProofWhileFresh'
  BY <1>1, <1>3, <1>4, ProofsKept
<1>6. lock \in Seq(Requests) /\ DOMAIN call = Requests
  BY <1>3 DEF LockOK
<1>7. DOMAIN call' = Requests /\ call'[r] = new /\ \A q \in Requests \ {r} : call'[q] = call[q]
  BY <1>1, <1>6
<1>8. lock' \in Seq(Requests)
  BY <1>1, <1>6
<1>9. ASSUME NEW q \in Requests, call'[q].pc \in Held PROVE holds(q)'
  <2>1. q # r
    BY <1>2, <1>7, <1>9 DEF Held, Looked, Anchored
  <2>2. lock # <<>> /\ Head(lock) = q
    BY <1>3, <1>7, <1>9, <2>1 DEF LockOK, holds
  <2>3. lock' # <<>> /\ Head(lock') = Head(lock)
    BY <1>1, <1>6, <2>2
  <2> QED
    BY <2>2, <2>3 DEF holds
<1>10. ASSUME NEW q \in Requests PROVE TaskOK(call[q])'
  <2>1. CASE q = r
    <3>1. TaskOK(new)'
      BY <1>2 DEF TaskOK, Active, Held, Looked, Anchored
    <3>2. call'[q] = new
      BY <1>7, <2>1
    <3> QED
      BY <3>1, <3>2
  <2>2. CASE q # r
    <3>1. TaskOK(call[q]) /\ call'[q] = call[q]
      BY <1>3, <1>7, <2>2
    <3> QED
      BY <1>1, <1>3, <1>4, <3>1, LaterTask
  <2> QED
    BY <2>1, <2>2
<1>11. LockOK'
  BY <1>7, <1>8, <1>9 DEF LockOK
<1>12. SignerCacheOK' /\ PayoutAnchored'
  BY <1>1, <1>3 DEF SignerCacheOK, PayoutAnchored
<1> QED
  BY <1>3, <1>4, <1>5, <1>10, <1>11, <1>12 DEF IssueInv

LEMMA GetSigner ==
  ASSUME SignerCacheOK
  PROVE  /\ getPopSigner(now).signer = SignerOf[rotationIndex(now)]
         /\ getPopSigner(now).signer = SignerOf[getPopSigner(now).index]
BY DEF getPopSigner, SignerCacheOK

LEMMA BegunFacts ==
  ASSUME NEW x, IsTask(x), NEW s, NEW t
  PROVE  [x EXCEPT !.pc = "lookup", !.signer = s, !.began = t] =
           Task("lookup", x.ticket, x.claimer, x.period, x.expected, s, t, x.issued_at,
                x.prev, x.stream_prev)
<1>1. PICK a, b, c, d, e, f, g, h, i, j : x = Task(a, b, c, d, e, f, g, h, i, j)
  BY DEF IsTask
<1>2. /\ b = x.ticket /\ c = x.claimer /\ d = x.period /\ e = x.expected
      /\ h = x.issued_at /\ i = x.prev /\ j = x.stream_prev
  BY <1>1 DEF Task
<1>3. [x EXCEPT !.pc = "lookup", !.signer = s, !.began = t] =
        Task("lookup", b, c, d, e, s, t, h, i, j)
  <2>1. [x EXCEPT !.pc = "lookup"] = Task("lookup", b, c, d, e, f, g, h, i, j)
    BY <1>1 DEF Task
  <2>2. [Task("lookup", b, c, d, e, f, g, h, i, j) EXCEPT !.signer = s] =
          Task("lookup", b, c, d, e, s, g, h, i, j)
    BY DEF Task
  <2>3. [Task("lookup", b, c, d, e, s, g, h, i, j) EXCEPT !.began = t] =
          Task("lookup", b, c, d, e, s, t, h, i, j)
    BY DEF Task
  <2>4. [x EXCEPT !.pc = "lookup", !.signer = s, !.began = t] =
          [[[x EXCEPT !.pc = "lookup"] EXCEPT !.signer = s] EXCEPT !.began = t]
    OBVIOUS
  <2> QED
    BY <2>1, <2>2, <2>3, <2>4
<1> QED
  BY <1>2, <1>3

LEMMA BeginInv ==
  ASSUME IssueInv, NEW r \in Requests, begin(r)
  PROVE  IssueInv'
<1>1. /\ now \in Nat /\ LockOK /\ SignerCacheOK /\ TaskOK(call[r]) /\ DOMAIN call = Requests
  BY DEF IssueInv, LockOK
<1>2. /\ call[r].pc = "queued" /\ holds(r)
      /\ UNCHANGED <<now, payouts, mode, verified, cache, anchors, delivered>>
  BY DEF begin, at, vars, store
<1>3. Grows
  BY <1>2 DEF Grows
<1>4. CASE settle(r, "error") /\ UNCHANGED signerCache
  <2>1. SignerCacheOK'
    BY <1>1, <1>4 DEF SignerCacheOK
  <2> QED
    BY <1>2, <1>3, <1>4, <2>1, SettleStep
<1>5. CASE /\ signerCache' = getPopSigner(now)
           /\ call' = [call EXCEPT ![r].pc = "lookup", ![r].signer = getPopSigner(now).signer,
                                   ![r].began = now]
           /\ UNCHANGED lock
  <2>0. PICK c, s, t : c = call[r] /\ s = getPopSigner(now).signer /\ t = now
    OBVIOUS
  <2>1. IsTask(c) /\ c.ticket \in Tickets
    BY <1>1, <1>2, <2>0 DEF TaskOK, Active
  <2>2. PICK new : new = Task("lookup", c.ticket, c.claimer, c.period, c.expected, s, t,
                              c.issued_at, c.prev, c.stream_prev)
    OBVIOUS
  <2>3. [c EXCEPT !.pc = "lookup", !.signer = s, !.began = t] = new
    BY <2>1, <2>2, BegunFacts
  <2>4. call' = [call EXCEPT ![r] = new]
    BY <1>1, <1>5, <2>0, <2>3
  <2>5. /\ IsTask(new) /\ new.pc = "lookup" /\ new.ticket = c.ticket
        /\ new.signer = s /\ new.began = t
    BY <2>2 DEF IsTask, Task
  <2>6. SignerAt(s, t)
    BY <1>1, <2>0, GetSigner DEF SignerAt
  <2>7. SignerAt(s, t)'
    BY <1>1, <1>2, <2>6, LaterSigner
  <2>8. SignerAt(new.signer, new.began)'
    BY <2>5, <2>7
  <2>9. TaskOK(new)'
    BY <2>1, <2>5, <2>8 DEF TaskOK, Active, Held, Looked, Anchored
  <2>10. SignerCacheOK'
    BY <1>1, <1>5, GetSigner DEF SignerCacheOK
  <2> QED
    BY <1>2, <1>3, <1>5, <2>4, <2>9, <2>10, ControlStep
<1> QED
  BY <1>4, <1>5 DEF begin

looked(x, t, p, q) == [x EXCEPT !.pc = "anchor", !.issued_at = t, !.prev = p, !.stream_prev = q]

LEMMA LookedFacts ==
  ASSUME NEW x, IsTask(x), NEW t, NEW p, NEW q
  PROVE  looked(x, t, p, q) =
           Task("anchor", x.ticket, x.claimer, x.period, x.expected, x.signer, x.began, t, p, q)
<1>1. PICK a, b, c, d, e, f, g, h, i, j : x = Task(a, b, c, d, e, f, g, h, i, j)
  BY DEF IsTask
<1>2. /\ b = x.ticket /\ c = x.claimer /\ d = x.period /\ e = x.expected
      /\ f = x.signer /\ g = x.began
  BY <1>1 DEF Task
<1>3. [x EXCEPT !.pc = "anchor", !.issued_at = t, !.prev = p, !.stream_prev = q] =
        Task("anchor", b, c, d, e, f, g, t, p, q)
  <2>1. [x EXCEPT !.pc = "anchor"] = Task("anchor", b, c, d, e, f, g, h, i, j)
    BY <1>1 DEF Task
  <2>2. [Task("anchor", b, c, d, e, f, g, h, i, j) EXCEPT !.issued_at = t] =
          Task("anchor", b, c, d, e, f, g, t, i, j)
    BY DEF Task
  <2>3. [Task("anchor", b, c, d, e, f, g, t, i, j) EXCEPT !.prev = p] =
          Task("anchor", b, c, d, e, f, g, t, p, j)
    BY DEF Task
  <2>4. [Task("anchor", b, c, d, e, f, g, t, p, j) EXCEPT !.stream_prev = q] =
          Task("anchor", b, c, d, e, f, g, t, p, q)
    BY DEF Task
  <2>5. [x EXCEPT !.pc = "anchor", !.issued_at = t, !.prev = p, !.stream_prev = q] =
          [[[[x EXCEPT !.pc = "anchor"] EXCEPT !.issued_at = t] EXCEPT !.prev = p]
             EXCEPT !.stream_prev = q]
    OBVIOUS
  <2> QED
    BY <2>1, <2>2, <2>3, <2>4, <2>5
<1> QED
  BY <1>2, <1>3 DEF looked

(* Two deliveries of one request: the later one comes from the cache.      *)
LEMMA DeliverCached ==
  ASSUME IssueInv, NEW e \in cache, isReusablePopClaimProof(e.proof),
         deliver(e.proof, e.key, e.began, TRUE), cache' = cache, now' = now, Grows
  PROVE  CacheOK' /\ (\A d \in delivered' : DeliveredOK(d)') /\ SameProofWhileFresh'
<1>1. /\ now \in Nat /\ CacheOK /\ SameProofWhileFresh
      /\ \A d \in delivered : DeliveredOK(d)
  BY DEF IssueInv
<1>2. PICK x : x = [proof |-> e.proof, key |-> e.key, at |-> now, began |-> e.began, reused |-> TRUE]
  OBVIOUS
<1>3. /\ delivered' = delivered \union {x}
      /\ x.proof = e.proof /\ x.key = e.key /\ x.at = now /\ x.began = e.began
  BY <1>2 DEF deliver
<1>4. \A f \in cache : Genuine(f.proof, f.began)'
  BY <1>1, LaterGenuine DEF CacheOK
<1>5. CacheOK'
  BY <1>1, <1>4 DEF CacheOK
<1>6. /\ e.proof.message.issued_at \in Nat
      /\ now - e.proof.message.issued_at <= ReuseMaxAge
  BY <1>1 DEF CacheOK, Genuine, isReusablePopClaimProof
<1>7. ASSUME NEW d \in delivered' PROVE DeliveredOK(d)'
  <2>1. CASE d \in delivered
    <3>1. DeliveredOK(d)
      BY <1>1, <2>1
    <3>2. Genuine(d.proof, d.began)'
      BY <1>1, <3>1, LaterGenuine DEF DeliveredOK
    <3>3. StillKept(d)'
      BY <3>1 DEF DeliveredOK, StillKept
    <3> QED
      BY <3>1, <3>2, <3>3 DEF DeliveredOK
  <2>2. CASE d = x
    <3>1. Genuine(x.proof, x.began)'
      BY <1>3, <1>4
    <3>2. StillKept(x)'
      BY <1>3 DEF StillKept
    <3>3. x.at \in Nat /\ x.at - x.proof.message.issued_at <= ReuseMaxAge
      BY <1>1, <1>3, <1>6
    <3> QED
      BY <2>2, <3>1, <3>2, <3>3 DEF DeliveredOK
  <2> QED
    BY <1>3, <2>1, <2>2
<1>8. ASSUME NEW d \in delivered, d.key = x.key, d.proof # x.proof
      PROVE  /\ x.proof.message.issued_at \in Nat /\ d.proof.message.issued_at \in Nat
             /\ x.proof.message.issued_at - d.proof.message.issued_at > ReuseMaxAge
  <2>1. PICK f \in cache : /\ f.key = d.key
                           /\ \/ f.proof = d.proof
                              \/ f.proof.message.issued_at - d.proof.message.issued_at > ReuseMaxAge
    BY <1>1 DEF DeliveredOK, StillKept
  <2>2. f = e
    BY <1>1, <1>3, <1>8, <2>1 DEF CacheOK
  <2>3. d.proof.message.issued_at \in Nat
    BY <1>1 DEF DeliveredOK, Genuine
  <2> QED
    BY <1>3, <1>6, <1>8, <2>1, <2>2, <2>3
<1>9. SameProofWhileFresh'
  <2> SUFFICES ASSUME NEW d \in delivered', NEW f \in delivered', d.key = f.key, d.proof # f.proof
               PROVE  absolute_i64_diff(d.proof.message.issued_at, f.proof.message.issued_at)
                        > ReuseMaxAge
    BY DEF SameProofWhileFresh
  <2>1. CASE d \in delivered /\ f \in delivered
    BY <1>1, <2>1 DEF SameProofWhileFresh
  <2>2. CASE d = x /\ f \in delivered
    BY <1>8, <2>2, IssuerAssumption DEF absolute_i64_diff
  <2>3. CASE d \in delivered /\ f = x
    BY <1>8, <2>3, IssuerAssumption DEF absolute_i64_diff
  <2> QED
    BY <1>3, <2>1, <2>2, <2>3
<1> QED
  BY <1>5, <1>7, <1>9

LEMMA LookupInv ==
  ASSUME IssueInv, NEW r \in Requests, lookup(r)
  PROVE  IssueInv'
<1> DEFINE hit == {e \in cachedProofs(proofCacheKey(call[r])) : isReusablePopClaimProof(e.proof)}
<1>1. /\ now \in Nat /\ SignerCacheOK /\ TaskOK(call[r]) /\ DOMAIN call = Requests /\ CacheOK
  BY DEF IssueInv, LockOK
<1>2. /\ call[r].pc = "lookup" /\ holds(r)
      /\ UNCHANGED <<now, payouts, mode, verified, signerCache, cache, anchors>>
  BY DEF lookup, at, vars, store
<1>3. Grows /\ SignerCacheOK'
  BY <1>1, <1>2 DEF Grows, SignerCacheOK
<1>4. CASE settle(r, "error") /\ UNCHANGED delivered
  BY <1>2, <1>3, <1>4, SettleStep
<1>5. CASE /\ \E e \in hit : deliver(e.proof, e.key, e.began, TRUE)
           /\ settle(r, "done")
  <2>1. PICK e \in cache : /\ isReusablePopClaimProof(e.proof)
                           /\ deliver(e.proof, e.key, e.began, TRUE)
    BY <1>5 DEF cachedProofs
  <2>2. CacheOK' /\ (\A d \in delivered' : DeliveredOK(d)') /\ SameProofWhileFresh'
    BY <1>2, <1>3, <2>1, DeliverCached
  <2>3. /\ call' = [call EXCEPT ![r] = [pc |-> "done"]] /\ lock' = Tail(lock)
        /\ [pc |-> "done"].pc \notin Held /\ TaskOK([pc |-> "done"])'
    BY <1>5, SettledTask DEF settle
  <2> QED
    BY <1>2, <1>3, <2>2, <2>3, StepInv
<1>6. CASE /\ call[r].ticket \in verified /\ hit = {}
           /\ call' = [call EXCEPT ![r].pc = "anchor", ![r].issued_at = now,
                ![r].prev = IF call[r].expected = None THEN heads.global ELSE call[r].expected,
                ![r].stream_prev = IF call[r].expected = None THEN heads.stream ELSE call[r].expected]
           /\ UNCHANGED <<lock, delivered>>
  <2>0. PICK c, t, p, q : /\ c = call[r] /\ t = now
                          /\ p = IF c.expected = None THEN heads.global ELSE c.expected
                          /\ q = IF c.expected = None THEN heads.stream ELSE c.expected
    OBVIOUS
  <2>1. IsTask(c) /\ c.ticket \in Tickets /\ SignerAt(c.signer, c.began)
    BY <1>1, <1>2, <2>0 DEF TaskOK, Active, Held
  <2>2. PICK new : new = Task("anchor", c.ticket, c.claimer, c.period, c.expected, c.signer,
                              c.began, t, p, q)
    OBVIOUS
  <2>3. looked(c, t, p, q) = new
    BY <2>1, <2>2, LookedFacts
  <2>4. call' = [call EXCEPT ![r] = new]
    BY <1>1, <1>6, <2>0, <2>3 DEF looked
  <2>5. /\ IsTask(new) /\ new.pc = "anchor" /\ new.ticket = c.ticket /\ new.claimer = c.claimer
        /\ new.period = c.period /\ new.expected = c.expected /\ new.signer = c.signer
        /\ new.began = c.began /\ new.issued_at = t
    BY <2>2 DEF IsTask, Task
  <2>6. SignerAt(new.signer, new.began)'
    BY <1>1, <1>2, <2>1, <2>5, LaterSigner
  <2>7. ASSUME NEW e \in cache, e.key = proofCacheKey(new)
        PROVE  new.issued_at - e.proof.message.issued_at > ReuseMaxAge
    <3>1. e.key = proofCacheKey(c)
      BY <2>5, <2>7 DEF proofCacheKey
    <3>2. ~isReusablePopClaimProof(e.proof)
      BY <1>6, <2>0, <3>1 DEF cachedProofs
    <3>3. e.proof.message.issued_at \in Nat /\ e.proof.message.issued_at <= now
      BY <1>1 DEF CacheOK, Genuine
    <3>4. ReuseMaxAge \in Nat
      BY IssuerAssumption
    <3> QED
      BY <1>1, <2>0, <2>5, <3>2, <3>3, <3>4 DEF isReusablePopClaimProof
  <2>8. NothingFresh(new)'
    BY <1>2, <2>7 DEF NothingFresh, proofCacheKey
  <2>9. new.issued_at \in Nat /\ new.issued_at <= now /\ new.ticket \in verified
    BY <1>1, <1>6, <2>0, <2>5
  <2>10. TaskOK(new)'
    BY <1>2, <2>1, <2>5, <2>6, <2>8, <2>9 DEF TaskOK, Active, Held, Looked, Anchored
  <2> QED
    BY <1>2, <1>3, <1>6, <2>4, <2>10, ControlStep
<1> QED
  BY <1>4, <1>5, <1>6 DEF lookup

LEMMA AnchorInv ==
  ASSUME IssueInv, NEW r \in Requests, anchor(r)
  PROVE  IssueInv'
<1>1. /\ now \in Nat /\ SignerCacheOK /\ TaskOK(call[r]) /\ DOMAIN call = Requests
  BY DEF IssueInv, LockOK
<1>2. /\ call[r].pc = "anchor" /\ holds(r)
      /\ UNCHANGED <<now, payouts, mode, verified, signerCache, cache, delivered>>
  BY DEF anchor, at, vars, store
<1>3. SignerCacheOK'
  BY <1>1, <1>2 DEF SignerCacheOK
<1>4. CASE settle(r, "error") /\ UNCHANGED anchors
  <2>1. Grows
    BY <1>2, <1>4 DEF Grows
  <2> QED
    BY <1>2, <1>3, <1>4, <2>1, SettleStep
<1>5. CASE /\ anchors' = anchors \union {[ticket |-> call[r].ticket, claimer |-> call[r].claimer,
                                          period |-> call[r].period]}
           /\ goto(r, IF call[r].expected = None THEN "put_global" ELSE "put_history")
  <2>0. PICK c, pc : /\ c = call[r]
                     /\ pc = IF c.expected = None THEN "put_global" ELSE "put_history"
    OBVIOUS
  <2>1. pc \in Anchored
    BY <2>0 DEF Anchored
  <2>2. /\ IsTask(c) /\ c.ticket \in Tickets /\ SignerAt(c.signer, c.began)
        /\ c.issued_at \in Nat /\ c.issued_at <= now /\ c.ticket \in verified /\ NothingFresh(c)
    BY <1>1, <1>2, <2>0 DEF TaskOK, Active, Held, Looked
  <2>3. PICK new : new = atStage(c, pc)
    OBVIOUS
  <2>4. call' = [call EXCEPT ![r] = new] /\ lock' = lock
    BY <1>1, <1>5, <2>0, <2>2, <2>3, GotoFacts
  <2>5. /\ IsTask(new) /\ new.pc = pc /\ new.ticket = c.ticket /\ new.claimer = c.claimer
        /\ new.period = c.period /\ new.expected = c.expected /\ new.signer = c.signer
        /\ new.began = c.began /\ new.issued_at = c.issued_at
    BY <2>2, <2>3, StageFacts
  <2>6. SignerAt(new.signer, new.began)'
    BY <1>1, <1>2, <2>2, <2>5, LaterSigner
  <2>7. NothingFresh(new)'
    BY <1>2, <2>2, <2>5 DEF NothingFresh, proofCacheKey
  <2>8. AnchorOf(new.ticket, new.claimer, new.period) \in anchors'
    BY <1>5, <2>0, <2>5 DEF AnchorOf
  <2>9. TaskOK(new)'
    BY <1>2, <2>2, <2>5, <2>6, <2>7, <2>8 DEF TaskOK
  <2>10. Grows
    BY <1>2, <1>5 DEF Grows
  <2> QED
    BY <1>2, <1>3, <2>4, <2>9, <2>10, ControlStep
<1> QED
  BY <1>4, <1>5 DEF anchor

(* The three puts before the cache change nothing the invariant is about.  *)
LEMMA PutInv ==
  ASSUME IssueInv, NEW r \in Requests, NEW from \in Anchored, NEW to \in Anchored,
         at(r, from), goto(r, to),
         UNCHANGED <<now, payouts, mode, verified, signerCache, cache, anchors, delivered>>
  PROVE  IssueInv'
<1>1. /\ now \in Nat /\ SignerCacheOK /\ TaskOK(call[r]) /\ DOMAIN call = Requests
      /\ call[r].pc \in Anchored /\ holds(r)
  BY DEF IssueInv, LockOK, at
<1>2. PICK c : c = call[r]
  OBVIOUS
<1>3. TaskOK(c) /\ c.pc \in Anchored /\ IsTask(c)
  BY <1>1, <1>2 DEF TaskOK, Active, Held, Looked
<1>4. PICK new : new = atStage(c, to)
  OBVIOUS
<1>5. call' = [call EXCEPT ![r] = new] /\ lock' = lock
  BY <1>1, <1>2, <1>3, <1>4, GotoFacts
<1>6. TaskOK(new)'
  BY <1>1, <1>3, <1>4, AnchoredGoesOn
<1>7. Grows /\ SignerCacheOK'
  BY <1>1 DEF Grows, SignerCacheOK
<1> QED
  BY <1>1, <1>5, <1>6, <1>7, ControlStep

(* What an anchored task signs is genuine.                                 *)
LEMMA SignedGenuine ==
  ASSUME NEW x, TaskOK(x), x.pc \in Anchored
  PROVE  /\ Genuine(signedProof(x), x.began)
         /\ signedProof(x).message.issued_at = x.issued_at
<1>1. /\ IsTask(x) /\ x.ticket \in Tickets /\ SignerAt(x.signer, x.began)
      /\ x.issued_at \in Nat /\ x.issued_at <= now /\ x.ticket \in verified
      /\ AnchorOf(x.ticket, x.claimer, x.period) \in anchors
  BY DEF TaskOK, Active, Held, Looked
<1>2. PICK m, p : m = buildPopProofMessage(x) /\ p = signedProof(x)
  OBVIOUS
<1>3. /\ m.version = 2 /\ m.grant = TheGrant /\ m.claimer = x.claimer /\ m.period_index = x.period
      /\ m.prev_hash = x.prev /\ m.stream_prev_hash = x.stream_prev /\ m.audit_hash = x.ticket
      /\ m.issued_at = x.issued_at
  BY <1>2 DEF buildPopProofMessage
<1>4. m.entry_hash = pop_entry_hash(m)
  <2>1. m.entry_hash = <<"we-ne:pop:v2", x.prev, x.stream_prev, x.ticket, TheGrant, x.claimer,
                         x.period, x.issued_at>>
    BY <1>2 DEF buildPopProofMessage, pop_entry_hash, POP_MESSAGE_VERSION_V2
  <2>2. pop_entry_hash(m) = <<"we-ne:pop:v2", x.prev, x.stream_prev, x.ticket, TheGrant, x.claimer,
                              x.period, x.issued_at>>
    BY <1>3 DEF pop_entry_hash, POP_MESSAGE_VERSION_V2
  <2> QED
    BY <2>1, <2>2
<1>5. /\ p.program_id = "ed25519" /\ p.inline = TRUE /\ p.signer = x.signer /\ p.message = m
  BY <1>2 DEF signedProof
<1>6. Genuine(p, x.began)
  BY <1>1, <1>3, <1>4, <1>5 DEF Genuine
<1> QED
  BY <1>2, <1>3, <1>5, <1>6

LEMMA PutCacheInv ==
  ASSUME IssueInv, NEW r \in Requests, putCacheAndAnswer(r)
  PROVE  IssueInv'
<1>1. /\ now \in Nat /\ SignerCacheOK /\ TaskOK(call[r]) /\ CacheOK /\ SameProofWhileFresh
      /\ \A d \in delivered : DeliveredOK(d)
  BY DEF IssueInv
<1>2. /\ call[r].pc = "put_cache" /\ holds(r) /\ settle(r, "done")
      /\ UNCHANGED <<now, payouts, mode, verified, signerCache, anchors>>
  BY DEF putCacheAndAnswer, at, vars
<1>3. Grows /\ SignerCacheOK' /\ now' = now
  BY <1>1, <1>2 DEF Grows, SignerCacheOK
<1>4. PICK key, proof, began :
        key = proofCacheKey(call[r]) /\ proof = signedProof(call[r]) /\ began = call[r].began
  OBVIOUS
<1>5. PICK n : n = [key |-> key, proof |-> proof, began |-> began]
  OBVIOUS
<1>6. n.key = key /\ n.proof = proof /\ n.began = began
  BY <1>5
<1>7. cache' = (cache \ {e \in cache : e.key = key}) \union {n}
  BY <1>4, <1>5 DEF putCacheAndAnswer, cachedProofs
<1>8. Genuine(proof, began) /\ proof.message.issued_at = call[r].issued_at
  BY <1>1, <1>2, <1>4, SignedGenuine DEF Anchored
<1>9. \A e \in cache :
        e.key = key => proof.message.issued_at - e.proof.message.issued_at > ReuseMaxAge
  BY <1>1, <1>2, <1>4, <1>8 DEF TaskOK, Looked, Anchored, NothingFresh
<1>10. \A p, b : Genuine(p, b) => Genuine(p, b)'
  BY <1>1, <1>3, LaterGenuine
<1>11. CacheOK'
  BY <1>1, <1>6, <1>7, <1>8, <1>10 DEF CacheOK
<1>12. ASSUME NEW d \in delivered, d.key = key
       PROVE  /\ proof.message.issued_at \in Nat /\ d.proof.message.issued_at \in Nat
              /\ proof.message.issued_at - d.proof.message.issued_at > ReuseMaxAge
  <2>1. PICK e \in cache : /\ e.key = d.key
                           /\ \/ e.proof = d.proof
                              \/ e.proof.message.issued_at - d.proof.message.issued_at > ReuseMaxAge
    BY <1>1 DEF DeliveredOK, StillKept
  <2>2. proof.message.issued_at - e.proof.message.issued_at > ReuseMaxAge
    BY <1>9, <1>12, <2>1
  <2>3. d.proof.message.issued_at \in Nat
    BY <1>1 DEF DeliveredOK, Genuine
  <2>4. e.proof.message.issued_at \in Nat
    BY <1>1 DEF CacheOK, Genuine
  <2>5. proof.message.issued_at \in Nat
    BY <1>8 DEF Genuine
  <2>6. ReuseMaxAge \in Nat
    BY IssuerAssumption
  <2> QED
    BY <2>1, <2>2, <2>3, <2>4, <2>5, <2>6
<1>13. ASSUME NEW d \in delivered PROVE DeliveredOK(d)'
  <2>1. DeliveredOK(d)
    BY <1>1
  <2>2. StillKept(d)'
    <3>1. CASE d.key = key
      <4>1. n \in cache' /\ n.key = d.key
        BY <1>6, <1>7, <3>1
      <4>2. n.proof.message.issued_at - d.proof.message.issued_at > ReuseMaxAge
        BY <1>6, <1>12, <3>1
      <4> QED
        BY <4>1, <4>2 DEF StillKept
    <3>2. CASE d.key # key
      BY <1>7, <2>1, <3>2 DEF DeliveredOK, StillKept
    <3> QED
      BY <3>1, <3>2
  <2> QED
    BY <1>10, <2>1, <2>2 DEF DeliveredOK
<1>14. (\A d \in delivered' : DeliveredOK(d)') /\ SameProofWhileFresh'
  <2>1. CASE delivered' = delivered
    BY <1>1, <1>13, <2>1 DEF SameProofWhileFresh
  <2>2. CASE deliver(proof, key, began, FALSE)
    <3>1. PICK x : x = [proof |-> proof, key |-> key, at |-> now, began |-> began, reused |-> FALSE]
      OBVIOUS
    <3>2. /\ delivered' = delivered \union {x} /\ x.proof = proof /\ x.key = key
          /\ x.began = began /\ ~x.reused
      BY <2>2, <3>1 DEF deliver
    <3>3. StillKept(x)'
      BY <1>6, <1>7, <3>2 DEF StillKept
    <3>4. DeliveredOK(x)'
      BY <1>8, <1>10, <3>2, <3>3 DEF DeliveredOK
    <3>5. SameProofWhileFresh'
      <4> SUFFICES ASSUME NEW d \in delivered', NEW f \in delivered', d.key = f.key,
                          d.proof # f.proof
                   PROVE  absolute_i64_diff(d.proof.message.issued_at, f.proof.message.issued_at)
                            > ReuseMaxAge
        BY DEF SameProofWhileFresh
      <4>1. CASE d \in delivered /\ f \in delivered
        BY <1>1, <4>1 DEF SameProofWhileFresh
      <4>2. CASE d = x /\ f \in delivered
        BY <1>12, <3>2, <4>2, IssuerAssumption DEF absolute_i64_diff
      <4>3. CASE d \in delivered /\ f = x
        BY <1>12, <3>2, <4>3, IssuerAssumption DEF absolute_i64_diff
      <4> QED
        BY <3>2, <4>1, <4>2, <4>3
    <3> QED
      BY <1>13, <3>2, <3>4, <3>5
  <2> QED
    BY <1>4, <2>1, <2>2 DEF putCacheAndAnswer
<1>15. /\ call' = [call EXCEPT ![r] = [pc |-> "done"]] /\ lock' = Tail(lock)
       /\ [pc |-> "done"].pc \notin Held /\ TaskOK([pc |-> "done"])'
  BY <1>2, SettledTask DEF settle
<1> QED
  BY <1>2, <1>3, <1>11, <1>14, <1>15, StepInv

LEMMA CrashInv ==
  ASSUME IssueInv, Crash
  PROVE  IssueInv'
<1>1. /\ now \in Nat /\ now <= MaxTime /\ PayoutAnchored
      /\ \A q \in Requests : TaskOK(call[q])
  BY DEF IssueInv
<1>2. /\ lock' = <<>> /\ signerCache' = None
      /\ UNCHANGED <<now, payouts, mode, verified, cache, anchors, delivered>>
      /\ call' = [r \in Requests |-> IF call[r].pc = "idle" THEN Idle
                                     ELSE IF call[r].pc \in {"done", "error"} THEN call[r]
                                     ELSE [pc |-> "lost"]]
  BY DEF Crash, vars, store
<1>3. Grows /\ now <= now' /\ SignerCacheOK'
  BY <1>1, <1>2 DEF Grows, SignerCacheOK
<1>4. CacheOK' /\ (\A d \in delivered' : DeliveredOK(d)') /\ SameProofWhileFresh'
  BY <1>1, <1>2, <1>3, ProofsKept
<1>5. \A q \in Requests : call'[q].pc \in {"idle", "done", "error", "lost"}
  BY <1>2 DEF Idle
<1>6. DOMAIN call' = Requests /\ lock' \in Seq(Requests)
  BY <1>2, EmptySeq
<1>7. ASSUME NEW q \in Requests PROVE TaskOK(call[q])'
  BY <1>5 DEF TaskOK, Active, Held, Looked, Anchored
<1>8. LockOK'
  BY <1>5, <1>6 DEF LockOK, Held, Looked, Anchored
<1>9. PayoutAnchored'
  BY <1>1, <1>2 DEF PayoutAnchored
<1> QED
  BY <1>1, <1>2, <1>3, <1>4, <1>7, <1>8, <1>9 DEF IssueInv

(* A claim pays only on a proof that was delivered, hence genuine.         *)
LEMMA ClaimAnchored ==
  ASSUME IssueInv, NEW d \in delivered, NEW w, NEW mint, NEW n, UNCHANGED <<anchors, verified>>,
         PayClaim(TheGrant, w, mint, n, d.proof)
  PROVE  PayoutAnchored' /\ now' = now
<1> DEFINE m == d.proof.message
<1>1. PICK p : /\ payouts' = payouts \union {p} /\ p.claimer = w /\ p.period_index = n
               /\ p.entry_hash = m.entry_hash
  <2>1. PICK p : p = [grant |-> TheGrant, claimer |-> w, period_index |-> n, at |-> now,
                      start_ts |-> grant[TheGrant].start_ts,
                      period_seconds |-> grant[TheGrant].period_seconds,
                      root |-> grant[TheGrant].merkle_root,
                      entry_hash |-> m.entry_hash, issued_at |-> m.issued_at]
    OBVIOUS
  <2>2. payouts' = payouts \union {p}
    BY <2>1 DEF PayClaim
  <2>3. p.claimer = w /\ p.period_index = n /\ p.entry_hash = m.entry_hash
    BY <2>1
  <2> QED
    BY <2>2, <2>3
<1>2. n = m.period_index /\ w = m.claimer /\ now' = now
  BY DEF PayClaim, verify_pop_proof
<1>3. Genuine(d.proof, d.began)
  BY DEF IssueInv, DeliveredOK
<1>4. p.entry_hash[4] = m.audit_hash
  <2>1. m.entry_hash = <<"we-ne:pop:v2", m.prev_hash, m.stream_prev_hash, m.audit_hash,
                         m.grant, m.claimer, m.period_index, m.issued_at>>
    BY <1>3 DEF Genuine, pop_entry_hash, POP_MESSAGE_VERSION_V2
  <2> QED
    BY <1>1, <2>1
<1>5. PICK a : a = AnchorOf(m.audit_hash, m.claimer, m.period_index)
  OBVIOUS
<1>6. /\ a \in anchors /\ m.audit_hash \in verified
      /\ a.claimer = m.claimer /\ a.period = m.period_index /\ a.ticket = m.audit_hash
  BY <1>3, <1>5 DEF Genuine, AnchorOf
<1>7. PayoutAnchored
  BY DEF IssueInv
<1> HIDE DEF m
<1>8. \E b \in anchors : /\ b.claimer = p.claimer /\ b.period = p.period_index
                         /\ b.ticket \in verified /\ b.ticket = p.entry_hash[4]
  BY <1>1, <1>2, <1>4, <1>6
<1>9. PayoutAnchored'
  BY <1>1, <1>7, <1>8 DEF PayoutAnchored
<1> QED
  BY <1>2, <1>9

LEMMA OnchainInv ==
  ASSUME IssueInv, Onchain
  PROVE  IssueInv'
<1>1. /\ now \in Nat /\ now <= MaxTime /\ SignerCacheOK /\ PayoutAnchored
  BY DEF IssueInv
<1>2. /\ UNCHANGED <<mode, verified, signerCache, lock, call, cache, anchors, delivered>>
  BY DEF Onchain, issuer, memory, store
<1>3. Grows /\ SignerCacheOK'
  BY <1>1, <1>2 DEF Grows, SignerCacheOK
<1>4. CASE Tick
  <2>1. now' \in Nat /\ now <= now' /\ now' <= MaxTime /\ payouts' = payouts
    BY <1>1, <1>4, ConstantsAssumption DEF Tick
  <2>2. PayoutAnchored'
    BY <1>1, <1>2, <2>1 DEF PayoutAnchored
  <2> QED
    BY <1>2, <1>3, <2>1, <2>2, WorldStep
<1>5. CASE \E w \in Authorities, s \in Signers : upsert_pop_config(w, s)
  <2>1. now' = now /\ now <= now' /\ payouts' = payouts
    BY <1>1, <1>5 DEF upsert_pop_config
  <2>2. PayoutAnchored'
    BY <1>1, <1>2, <2>1 DEF PayoutAnchored
  <2> QED
    BY <1>1, <1>2, <1>3, <2>1, <2>2, WorldStep
<1>6. ASSUME NEW d \in delivered, NEW w \in Wallets, NEW n \in PeriodIndexes,
             \/ claim_grant(TheGrant, w, MintOf(TheGrant), n, d.proof)
             \/ \E proof \in MerkleProofs :
                  claim_grant_with_proof(TheGrant, w, MintOf(TheGrant), n, d.proof, proof)
      PROVE  IssueInv'
  <2>1. PayClaim(TheGrant, w, MintOf(TheGrant), n, d.proof)
    BY <1>6 DEF claim_grant, claim_grant_with_proof
  <2>2. PayoutAnchored' /\ now' = now
    BY <1>2, <2>1, ClaimAnchored
  <2> QED
    BY <1>1, <1>2, <1>3, <2>2, WorldStep
<1>7. CASE \/ Administer(TheGrant)
           \/ \E w \in Wallets, a \in Amounts : fund_grant(TheGrant, w, MintOf(TheGrant), a)
  <2>1. now' = now /\ payouts' = payouts
    <3>1. ASSUME NEW a, NEW p, NEW s, NEW e,
                 \/ create_grant(TheGrant, a, p, s, e) \/ update_grant(TheGrant, a, p, e)
                 \/ set_paused(TheGrant, a) \/ set_allowlist_root(TheGrant, a)
                 \/ close_grant(TheGrant) \/ fund_grant(TheGrant, p, MintOf(TheGrant), a)
          PROVE  now' = now /\ payouts' = payouts
      BY <3>1 DEF create_grant, update_grant, set_paused, set_allowlist_root, close_grant, fund_grant
    <3> QED
      BY <1>7, <3>1 DEF Administer
  <2>2. PayoutAnchored'
    BY <1>1, <1>2, <2>1 DEF PayoutAnchored
  <2>3. now <= now'
    BY <1>1, <2>1
  <2> QED
    BY <1>1, <1>2, <1>3, <2>1, <2>2, <2>3, WorldStep
<1> QED
  BY <1>4, <1>5, <1>6, <1>7 DEF Onchain

LEMMA IssuerInv ==
  ASSUME IssueInv, IssuerNext
  PROVE  IssueInv'
<1>1. ASSUME NEW r \in Requests, NEW t \in Tickets, NEW w, NEW n, NEW h, request(r, t, w, n, h)
      PROVE  IssueInv'
  BY <1>1, RequestInv
<1>2. ASSUME NEW r \in Requests, Steps(r) PROVE IssueInv'
  <2>1. CASE begin(r) \/ lookup(r) \/ anchor(r) \/ putCacheAndAnswer(r)
    BY <2>1, BeginInv, LookupInv, AnchorInv, PutCacheInv
  <2>2. CASE putGlobal(r)
    <3>1. /\ at(r, "put_global") /\ goto(r, "put_stream")
          /\ UNCHANGED <<now, payouts, mode, verified, signerCache, cache, anchors, delivered>>
      BY <2>2 DEF putGlobal, vars
    <3> QED
      BY <3>1, PutInv DEF Anchored
  <2>3. CASE putStream(r)
    <3>1. /\ at(r, "put_stream") /\ goto(r, "put_history")
          /\ UNCHANGED <<now, payouts, mode, verified, signerCache, cache, anchors, delivered>>
      BY <2>3 DEF putStream, vars
    <3> QED
      BY <3>1, PutInv DEF Anchored
  <2>4. CASE putHistory(r)
    <3>1. /\ at(r, "put_history") /\ goto(r, "put_cache")
          /\ UNCHANGED <<now, payouts, mode, verified, signerCache, cache, anchors, delivered>>
      BY <2>4 DEF putHistory, vars
    <3> QED
      BY <3>1, PutInv DEF Anchored
  <2> QED
    BY <1>2, <2>1, <2>2, <2>3, <2>4 DEF Steps
<1>3. ASSUME (\E t \in Tickets : ticketIssued(t)) \/ eventEnded PROVE IssueInv'
  <2>1. /\ now \in Nat /\ now <= MaxTime /\ SignerCacheOK /\ PayoutAnchored
    BY DEF IssueInv
  <2>2. /\ UNCHANGED <<now, payouts, mode, signerCache, lock, call, cache, anchors, delivered>>
        /\ verified \subseteq verified'
    BY <1>3 DEF ticketIssued, eventEnded, vars, memory, store
  <2>3. Grows /\ SignerCacheOK' /\ now <= now'
    BY <2>1, <2>2 DEF Grows, SignerCacheOK
  <2>4. PayoutAnchored'
    BY <2>1, <2>2 DEF PayoutAnchored
  <2> QED
    BY <2>1, <2>2, <2>3, <2>4, WorldStep
<1> QED
  BY <1>1, <1>2, <1>3, OnchainInv, CrashInv DEF IssuerNext

(* The organiser's device: of all this it only refreshes the kept signer.  *)
LEMMA SetupFacts ==
  ASSUME Setup
  PROVE  /\ UNCHANGED <<now, payouts, mode, verified, lock, call, store, anchors, delivered>>
         /\ signerCache' = signerCache \/ reached
<1>1. CASE refreshRuntimeStatus
  BY <1>1 DEF refreshRuntimeStatus, vars
<1>2. CASE \E form \in Forms : handleCreate(form)
  BY <1>2 DEF handleCreate, vars, issuer, memory
<1>3. CASE resolvePopSignerPubkey
  BY <1>3 DEF resolvePopSignerPubkey, vars
<1>4. CASE readPopConfig \/ ensurePopConfigReadyOrThrow \/ createMetadata \/ revokeAuthorities
  BY <1>4 DEF readPopConfig, ensurePopConfigReadyOrThrow, createMetadata, revokeAuthorities,
              vars, issuer, memory
<1>5. CASE upsertPopConfig
  BY <1>5 DEF upsertPopConfig, upsert_pop_config, vars, issuer, memory
<1>6. CASE mintSupply \/ createAndFundGrant
  BY <1>6 DEF mintSupply, createAndFundGrant, issuer, memory
<1>7. CASE createAdminEvent
  BY <1>7 DEF createAdminEvent, vars, memory
<1> QED
  BY <1>1, <1>2, <1>3, <1>4, <1>5, <1>6, <1>7 DEF Setup

LEMMA SetupInv ==
  ASSUME IssueInv, Setup
  PROVE  IssueInv'
<1>1. /\ now \in Nat /\ now <= MaxTime /\ SignerCacheOK /\ PayoutAnchored
  BY DEF IssueInv
<1>2. /\ UNCHANGED <<now, payouts, mode, verified, lock, call, cache, anchors, delivered>>
      /\ signerCache' = signerCache \/ signerCache' = getPopSigner(now)
  BY SetupFacts DEF store, reached
<1>3. SignerCacheOK'
  BY <1>1, <1>2, GetSigner DEF SignerCacheOK
<1>4. Grows /\ now <= now'
  BY <1>1, <1>2 DEF Grows
<1>5. PayoutAnchored'
  BY <1>1, <1>2 DEF PayoutAnchored
<1> QED
  BY <1>1, <1>2, <1>3, <1>4, <1>5, WorldStep

(* The invariant the theorems below rest on: requests take turns and what  *)
(* each has fixed so far is right, kept proofs are genuine and one per     *)
(* request, and a delivered proof is still kept or long superseded         *)
(* (issuePopClaimProof, getPopSigner, claim_grant).                        *)
THEOREM IssueInvariant == EventSpec => []IssueInv
<1>1. EventInit => IssueInv
  <2> SUFFICES ASSUME EventInit PROVE IssueInv
    OBVIOUS
  <2>1. now = 0 /\ payouts = {}
    BY DEF EventInit, Init
  <2>2. /\ signerCache = None /\ lock = <<>> /\ call = [r \in Requests |-> Idle]
        /\ cache = {} /\ anchors = {} /\ delivered = {}
    BY DEF EventInit, IssuerInit
  <2>3. now \in Nat /\ now <= MaxTime
    BY <2>1, ConstantsAssumption
  <2>4. \A r \in Requests : call[r].pc = "idle"
    BY <2>2 DEF Idle
  <2>5. LockOK
    BY <2>2, <2>4, EmptySeq DEF LockOK, Held, Looked, Anchored
  <2>6. \A r \in Requests : TaskOK(call[r])
    BY <2>4 DEF TaskOK, Active, Held, Looked, Anchored
  <2> QED
    BY <2>1, <2>2, <2>3, <2>5, <2>6
       DEF IssueInv, SignerCacheOK, CacheOK, SameProofWhileFresh, PayoutAnchored
<1>2. IssueInv /\ [EventNext]_<<vars, issuer, setup>> => IssueInv'
  <2> SUFFICES ASSUME IssueInv, [EventNext]_<<vars, issuer, setup>> PROVE IssueInv'
    OBVIOUS
  <2>1. CASE EventNext
    BY <2>1, SetupInv, IssuerInv DEF EventNext, Elsewhere
  <2>2. CASE UNCHANGED <<vars, issuer, setup>>
    <3>1. UNCHANGED <<now, payouts, mode, verified, signerCache, lock, call, cache, anchors, delivered>>
      BY <2>2 DEF vars, issuer, memory, store
    <3>2. /\ now \in Nat /\ now <= MaxTime /\ SignerCacheOK /\ PayoutAnchored
      BY DEF IssueInv
    <3>3. Grows /\ now <= now' /\ SignerCacheOK' /\ PayoutAnchored'
      BY <3>1, <3>2 DEF Grows, SignerCacheOK, PayoutAnchored
    <3> QED
      BY <3>1, <3>2, <3>3, WorldStep
  <2> QED
    BY <2>1, <2>2
<1> QED
  BY <1>1, <1>2, PTL DEF EventSpec

(* A repeated request gets the proof it would have got, also after a       *)
(* crash: two different proofs for identical requests were issued more     *)
(* than ReuseMaxAge apart (isReusablePopClaimProof, popProofLock).         *)
THEOREM SameProofAlways == EventSpec => []SameProofWhileFresh
<1>1. IssueInv => SameProofWhileFresh
  BY DEF IssueInv
<1> QED
  BY <1>1, IssueInvariant, PTL

(* Whoever claim_grant pays has a verified ticket, and the audit log       *)
(* anchors the proof that paid.                                            *)
THEOREM PayoutAnchoredAlways == EventSpec => []PayoutAnchored
<1>1. IssueInv => PayoutAnchored
  BY DEF IssueInv
<1> QED
  BY <1>1, IssueInvariant, PTL

LEMMA DivisionBound ==
  ASSUME NEW a \in Nat, NEW k \in Nat \ {0}
  PROVE  a \div k \in Nat /\ a \div k <= a
OBVIOUS

LEMMA RotationIndexBound ==
  ASSUME NEW t \in Nat, t <= MaxTime
  PROVE  rotationIndex(t) \in 0..MaxTime
<1>1. MaxTime \in Nat /\ RotationStart \in Nat /\ RotationInterval \in Nat \ {0}
  BY ConstantsAssumption, IssuerAssumption
<1>2. CASE t <= RotationStart \/ mode # "rotation"
  BY <1>1, <1>2 DEF rotationIndex
<1>3. CASE ~(t <= RotationStart) /\ mode = "rotation"
  <2>1. t - RotationStart \in Nat /\ t - RotationStart <= MaxTime
    BY <1>1, <1>3
  <2>2. PICK a \in Nat : a = t - RotationStart
    BY <2>1
  <2>3. a \div RotationInterval \in Nat /\ a \div RotationInterval <= a
    BY <1>1, DivisionBound
  <2>4. rotationIndex(t) = a \div RotationInterval
    BY <1>3, <2>2 DEF rotationIndex
  <2> QED
    BY <1>1, <2>1, <2>2, <2>3, <2>4
<1> QED
  BY <1>2, <1>3

(* A proof that was handed out is accepted by verify_pop_proof for MaxSkew *)
(* after it was issued, and one from the cache for at least MaxSkew -      *)
(* ReuseMaxAge after that, if the PopConfig names the signer of its window.*)
THEOREM UsableOnChainAlways == EventSpec => []UsableOnChain
<1>1. IssueInv => UsableOnChain
  <2> SUFFICES ASSUME IssueInv, NEW d \in delivered,
                      now <= MaxSkew + (IF d.reused THEN d.at - ReuseMaxAge
                                        ELSE d.proof.message.issued_at),
                      pop_config[Authority(TheGrant)] = SignerOf[rotationIndex(d.began)]
               PROVE  verify_pop_proof(TheGrant, d.proof.message.claimer,
                                       d.proof.message.period_index, d.proof)
    BY DEF UsableOnChain
  <2> DEFINE m == d.proof.message
  <2>1. DeliveredOK(d) /\ now \in Nat /\ now <= MaxTime
    BY DEF IssueInv
  <2>2. /\ d.proof.program_id = "ed25519" /\ d.proof.inline = TRUE
        /\ SignerAt(d.proof.signer, d.began)
        /\ m.version = 2 /\ m.grant = TheGrant /\ m.entry_hash = pop_entry_hash(m)
        /\ m.audit_hash \in Tickets /\ m.issued_at \in Nat /\ m.issued_at <= now
    BY <2>1 DEF DeliveredOK, Genuine
  <2>3. rotationIndex(d.began) \in 0..MaxTime
    <3>1. d.began \in Nat /\ d.began <= now /\ MaxTime \in Nat
      BY <2>2, ConstantsAssumption DEF SignerAt
    <3>2. d.began <= MaxTime
      BY <2>1, <3>1
    <3> QED
      BY <3>1, <3>2, RotationIndexBound
  <2>4. SignerOf[rotationIndex(d.began)] \in Signers
    BY <2>3, IssuerAssumption
  <2>5. pop_config[Authority(TheGrant)] # None
    BY <2>4, IssuerAssumption
  <2>6. d.proof.signer = pop_config[Authority(TheGrant)]
    BY <2>2 DEF SignerAt
  <2>7. now - m.issued_at <= MaxSkew
    <3>1. MaxSkew \in Nat /\ ReuseMaxAge \in Nat
      BY ConstantsAssumption, IssuerAssumption
    <3>2. CASE d.reused
      <4>1. d.at \in Nat /\ d.at - m.issued_at <= ReuseMaxAge
        BY <2>1, <3>2 DEF DeliveredOK
      <4>2. now <= MaxSkew + (d.at - ReuseMaxAge)
        BY <3>2
      <4> HIDE DEF m
      <4> QED
        BY <2>1, <2>2, <3>1, <4>1, <4>2
    <3>3. CASE ~d.reused
      <4>1. now <= MaxSkew + m.issued_at
        BY <3>3
      <4> HIDE DEF m
      <4> QED
        BY <2>1, <2>2, <3>1, <4>1
    <3> QED
      BY <3>2, <3>3
  <2>8. absolute_i64_diff(now, m.issued_at) <= MaxSkew
    BY <2>1, <2>2, <2>7 DEF absolute_i64_diff
  <2>9. m.audit_hash # ZeroHash
    BY <2>2, IssuerAssumption
  <2> QED
    BY <2>2, <2>5, <2>6, <2>8, <2>9
       DEF verify_pop_proof, extract_ed25519_signer_and_message, parse_pop_message,
           POP_MESSAGE_VERSION_V2
<1> QED
  BY <1>1, IssueInvariant, PTL

-----------------------------------------------------------------------------
(* The chain of proofs. Each proof names two predecessors, of the global   *)
(* and of the stream chain: components 2 and 3 of its hash.                *)

Link(m, i)     == IF i = 2 THEN m.prev_hash ELSE m.stream_prev_hash
TaskLink(x, i) == IF i = 2 THEN x.prev ELSE x.stream_prev
HeadOf(i)      == IF i = 2 THEN heads.global ELSE heads.stream

(* The stages before and after the put of that head.                       *)
Before(i) == IF i = 2 THEN {"anchor", "put_global"} ELSE {"anchor", "put_global", "put_stream"}
After(i)  == IF i = 2 THEN {"put_stream", "put_history"} ELSE {"put_history"}

(* P holds what came before the head, down to the first.                   *)
Ancestry(P, head, i) ==
  head \notin P /\ \A p \in P \union {head} : p = ZeroHash \/ p[i] \in P

Rows(i, l) == \A x \in history : x.popChainAdvanced => Link(x.message, i) # l

(* Only a request that was sent no head moves the worker's own.            *)
ChainTask(P, x, i) ==
  /\ x.pc \in {"put_global", "put_stream"} => x.expected = None
  /\ x.pc \in Before(i) /\ x.expected = None => TaskLink(x, i) = HeadOf(i)
  /\ x.pc \in After(i) /\ x.expected = None => TaskLink(x, i) \in P /\ Rows(i, TaskLink(x, i))

ChainOver(P, i) ==
  /\ Ancestry(P, HeadOf(i), i)
  /\ \A x \in history : x.popChainAdvanced => Link(x.message, i) \in P
  /\ \A x, y \in history :
       x.popChainAdvanced /\ y.popChainAdvanced /\ x # y => Link(x.message, i) # Link(y.message, i)
  /\ \A r \in Requests : ChainTask(P, call[r], i)

Unforked(i) == \E P : ChainOver(P, i)

ChainInv ==
  /\ heads = [global |-> heads.global, stream |-> heads.stream]
  /\ \A i \in {2, 3} : Unforked(i)

(* A new head on top of the old one; no hash is all zeros.                 *)
LEMMA AncestryGrows ==
  ASSUME NEW P, NEW i, NEW h, NEW n, Ancestry(P, h, i), n # ZeroHash, n[i] = h
  PROVE  Ancestry(P \union {h}, n, i)
BY DEF Ancestry

(* Nothing is put and every request stays or leaves the stages of the put. *)
LEMMA ChainStill ==
  ASSUME ChainInv, UNCHANGED <<heads, history>>,
         \A r \in Requests : call'[r] = call[r] \/ call'[r].pc \notin Looked
  PROVE  ChainInv'
<1> SUFFICES ASSUME NEW i \in {2, 3} PROVE Unforked(i)'
  BY DEF ChainInv
<1>1. PICK P : ChainOver(P, i)
  BY DEF ChainInv, Unforked
<1>2. HeadOf(i)' = HeadOf(i)
  BY DEF HeadOf
<1>3. ASSUME NEW r \in Requests PROVE ChainTask(P, call[r], i)'
  <2>1. CASE call'[r] = call[r]
    BY <1>1, <1>2, <2>1 DEF ChainOver, ChainTask, Rows, TaskLink
  <2>2. CASE call'[r].pc \notin Looked
    BY <2>2 DEF ChainTask, Looked, Anchored, Before, After
  <2> QED
    BY <2>1, <2>2
<1>4. ChainOver(P, i)'
  BY <1>1, <1>2, <1>3 DEF ChainOver
<1> QED
  BY <1>4 DEF Unforked

(* The request with the lock moves; the heads or the rows may.             *)
LEMMA ChainMoves ==
  ASSUME IssueInv, NEW r \in Requests, holds(r), NEW new, call' = [call EXCEPT ![r] = new],
         NEW P, NEW i \in {2, 3},
         Ancestry(P, HeadOf(i), i)',
         \A x \in history' : x.popChainAdvanced => Link(x.message, i) \in P,
         \A x, y \in history' :
           x.popChainAdvanced /\ y.popChainAdvanced /\ x # y =>
             Link(x.message, i) # Link(y.message, i),
         ChainTask(P, new, i)'
  PROVE  Unforked(i)'
<1>1. DOMAIN call = Requests /\ \A q \in Requests \ {r} : call[q].pc \notin Held
  BY DEF IssueInv, LockOK, holds
<1>2. ASSUME NEW q \in Requests PROVE ChainTask(P, call[q], i)'
  <2>1. CASE q = r
    <3>1. call'[q] = new
      BY <1>1, <2>1
    <3> QED
      BY <3>1
  <2>2. CASE q # r
    <3>1. call'[q].pc \notin Looked
      BY <1>1, <2>2 DEF Held
    <3> QED
      BY <3>1 DEF ChainTask, Looked, Anchored, Before, After
  <2> QED
    BY <2>1, <2>2
<1>3. ChainOver(P, i)'
  BY <1>2 DEF ChainOver
<1> QED
  BY <1>3 DEF Unforked

(* The request with the lock moves between two puts.                       *)
LEMMA ChainControl ==
  ASSUME IssueInv, ChainInv, NEW r \in Requests, holds(r), NEW new,
         call' = [call EXCEPT ![r] = new], UNCHANGED <<heads, history>>,
         \A P : \A i \in {2, 3} : ChainTask(P, call[r], i) => ChainTask(P, new, i)
  PROVE  ChainInv'
<1> SUFFICES ASSUME NEW i \in {2, 3} PROVE Unforked(i)'
  BY DEF ChainInv
<1>1. PICK P : ChainOver(P, i)
  BY DEF ChainInv, Unforked
<1>2. HeadOf(i)' = HeadOf(i)
  BY DEF HeadOf
<1>3. ChainTask(P, new, i)
  BY <1>1 DEF ChainOver
<1>4. ChainTask(P, new, i)'
  BY <1>2, <1>3 DEF ChainTask, Rows
<1>5. Ancestry(P, HeadOf(i), i)'
  BY <1>1, <1>2 DEF ChainOver
<1> QED
  BY <1>1, <1>4, <1>5, ChainMoves DEF ChainOver

(* The hash of a task's message links to the task's two predecessors.      *)
LEMMA HashLinks ==
  ASSUME NEW x
  PROVE  /\ buildPopProofMessage(x).entry_hash[2] = x.prev
         /\ buildPopProofMessage(x).entry_hash[3] = x.stream_prev
         /\ \E m : buildPopProofMessage(x).entry_hash = pop_entry_hash(m)
         /\ buildPopProofMessage(x).prev_hash = x.prev
         /\ buildPopProofMessage(x).stream_prev_hash = x.stream_prev
<1>1. buildPopProofMessage(x).entry_hash =
        <<"we-ne:pop:v2", x.prev, x.stream_prev, x.ticket, TheGrant, x.claimer, x.period,
          x.issued_at>>
  BY DEF buildPopProofMessage, pop_entry_hash, POP_MESSAGE_VERSION_V2
<1>2. \E m : buildPopProofMessage(x).entry_hash = pop_entry_hash(m)
  BY DEF buildPopProofMessage
<1> QED
  BY <1>1, <1>2 DEF buildPopProofMessage

(* One head is put, and the request that does it goes on.                  *)
LEMMA ChainPut ==
  ASSUME \A m : pop_entry_hash(m) # ZeroHash,
         IssueInv, NEW r \in Requests, holds(r), NEW x, x = call[r], NEW new,
         call' = [call EXCEPT ![r] = new], history' = history, NEW i \in {2, 3}, Unforked(i),
         x.pc \in {"put_global", "put_stream"}, x.pc \in Before(i), new.pc \notin Before(i),
         new.pc \notin {"put_global", "put_stream"} \/ new.expected = None,
         TaskLink(new, i) = TaskLink(x, i),
         HeadOf(i)' = buildPopProofMessage(x).entry_hash
  PROVE  Unforked(i)'
<1>1. PICK P : ChainOver(P, i)
  BY DEF Unforked
<1>2. PICK h : h = HeadOf(i)
  OBVIOUS
<1>3. TaskLink(x, i) = h
  <2>1. ChainTask(P, x, i)
    BY <1>1 DEF ChainOver
  <2> QED
    BY <1>2, <2>1 DEF ChainTask
<1>4. PICK n : n = buildPopProofMessage(x).entry_hash
  OBVIOUS
<1>5. n # ZeroHash /\ n[i] = h
  BY <1>3, <1>4, HashLinks DEF TaskLink
<1>6. Ancestry(P, h, i)
  BY <1>1, <1>2 DEF ChainOver
<1>7. Ancestry(P \union {h}, n, i)
  BY <1>5, <1>6, AncestryGrows
<1>8. Ancestry(P \union {h}, HeadOf(i), i)'
  BY <1>4, <1>7
<1>9. \A y \in history : y.popChainAdvanced => Link(y.message, i) \in P
  BY <1>1 DEF ChainOver
<1>10. Rows(i, h)'
  BY <1>6, <1>9 DEF Rows, Ancestry
<1>11. ChainTask(P \union {h}, new, i)'
  BY <1>3, <1>10 DEF ChainTask
<1>12. PICK Q : Q = P \union {h}
  OBVIOUS
<1>13. /\ Ancestry(Q, HeadOf(i), i)' /\ ChainTask(Q, new, i)'
       /\ \A y \in history' : y.popChainAdvanced => Link(y.message, i) \in Q
  BY <1>8, <1>9, <1>11, <1>12
<1>14. \A y, z \in history' :
         y.popChainAdvanced /\ z.popChainAdvanced /\ y # z => Link(y.message, i) # Link(z.message, i)
  BY <1>1 DEF ChainOver
<1> QED
  BY <1>13, <1>14, ChainMoves, ZenonT(60)

(* The other head stays.                                                   *)
LEMMA ChainStays ==
  ASSUME IssueInv, NEW r \in Requests, holds(r), NEW x, x = call[r], NEW new,
         call' = [call EXCEPT ![r] = new], history' = history, NEW i \in {2, 3}, Unforked(i),
         HeadOf(i)' = HeadOf(i), \A P : ChainTask(P, x, i) => ChainTask(P, new, i)
  PROVE  Unforked(i)'
<1>1. PICK P : ChainOver(P, i)
  BY DEF Unforked
<1>2. ChainTask(P, new, i)
  BY <1>1 DEF ChainOver
<1>3. ChainTask(P, new, i)'
  BY <1>2 DEF ChainTask, Rows
<1>4. Ancestry(P, HeadOf(i), i)'
  BY <1>1 DEF ChainOver
<1> QED
  BY <1>1, <1>3, <1>4, ChainMoves DEF ChainOver

LEMMA PutGlobalChain ==
  ASSUME \A m : pop_entry_hash(m) # ZeroHash,
         IssueInv, ChainInv, NEW r \in Requests, putGlobal(r)
  PROVE  ChainInv'
<1>1. /\ call[r].pc = "put_global" /\ holds(r) /\ goto(r, "put_stream") /\ history' = history
      /\ heads' = [heads EXCEPT !.global = buildPopProofMessage(call[r]).entry_hash]
  BY DEF putGlobal, at
<1>2. PICK x : x = call[r]
  OBVIOUS
<1>3. IsTask(x) /\ DOMAIN call = Requests
  BY <1>1, <1>2 DEF IssueInv, LockOK, TaskOK, Active, Held, Looked, Anchored
<1>4. PICK new : new = atStage(x, "put_stream")
  OBVIOUS
<1>5. call' = [call EXCEPT ![r] = new]
  BY <1>1, <1>2, <1>3, <1>4, GotoFacts
<1>6. /\ new.pc = "put_stream" /\ new.expected = x.expected
      /\ new.prev = x.prev /\ new.stream_prev = x.stream_prev
  BY <1>3, <1>4, StageFacts
<1>7. PICK g, t : heads = [global |-> g, stream |-> t]
  BY DEF ChainInv
<1>8. heads' = [global |-> buildPopProofMessage(x).entry_hash, stream |-> t]
  BY <1>1, <1>2, <1>7
<1>9. HeadOf(2)' = buildPopProofMessage(x).entry_hash /\ HeadOf(3)' = HeadOf(3)
  BY <1>7, <1>8 DEF HeadOf
<1>10. Unforked(2) /\ Unforked(3)
  BY DEF ChainInv
<1>11. x.expected = None
  BY <1>1, <1>2, <1>10 DEF Unforked, ChainOver, ChainTask
<1>12. Unforked(2)'
  <2>1. x.pc \in Before(2) /\ new.pc \notin Before(2) /\ TaskLink(new, 2) = TaskLink(x, 2)
    BY <1>1, <1>2, <1>6 DEF Before, TaskLink
  <2>2. x.pc \in {"put_global", "put_stream"} /\ new.expected = None
    BY <1>1, <1>2, <1>6, <1>11
  <2> QED
    BY <1>1, <1>2, <1>5, <1>9, <1>10, <2>1, <2>2, ChainPut
<1>13. Unforked(3)'
  <2>1. \A P : ChainTask(P, x, 3) => ChainTask(P, new, 3)
    BY <1>1, <1>2, <1>6, <1>11 DEF ChainTask, Before, After, TaskLink
  <2> QED
    BY <1>1, <1>2, <1>5, <1>9, <1>10, <2>1, ChainStays
<1> QED
  BY <1>8, <1>12, <1>13 DEF ChainInv

LEMMA PutStreamChain ==
  ASSUME \A m : pop_entry_hash(m) # ZeroHash,
         IssueInv, ChainInv, NEW r \in Requests, putStream(r)
  PROVE  ChainInv'
<1>1. /\ call[r].pc = "put_stream" /\ holds(r) /\ goto(r, "put_history") /\ history' = history
      /\ heads' = [heads EXCEPT !.stream = buildPopProofMessage(call[r]).entry_hash]
  BY DEF putStream, at
<1>2. PICK x : x = call[r]
  OBVIOUS
<1>3. IsTask(x) /\ DOMAIN call = Requests
  BY <1>1, <1>2 DEF IssueInv, LockOK, TaskOK, Active, Held, Looked, Anchored
<1>4. PICK new : new = atStage(x, "put_history")
  OBVIOUS
<1>5. call' = [call EXCEPT ![r] = new]
  BY <1>1, <1>2, <1>3, <1>4, GotoFacts
<1>6. /\ new.pc = "put_history" /\ new.expected = x.expected
      /\ new.prev = x.prev /\ new.stream_prev = x.stream_prev
  BY <1>3, <1>4, StageFacts
<1>7. PICK g, t : heads = [global |-> g, stream |-> t]
  BY DEF ChainInv
<1>8. heads' = [global |-> g, stream |-> buildPopProofMessage(x).entry_hash]
  BY <1>1, <1>2, <1>7
<1>9. HeadOf(3)' = buildPopProofMessage(x).entry_hash /\ HeadOf(2)' = HeadOf(2)
  BY <1>7, <1>8 DEF HeadOf
<1>10. Unforked(2) /\ Unforked(3)
  BY DEF ChainInv
<1>11. Unforked(3)'
  <2>1. x.pc \in Before(3) /\ new.pc \notin Before(3) /\ TaskLink(new, 3) = TaskLink(x, 3)
    BY <1>1, <1>2, <1>6 DEF Before, TaskLink
  <2>2. x.pc \in {"put_global", "put_stream"} /\ new.pc \notin {"put_global", "put_stream"}
    BY <1>1, <1>2, <1>6
  <2> QED
    BY <1>1, <1>2, <1>5, <1>9, <1>10, <2>1, <2>2, ChainPut
<1>12. Unforked(2)'
  <2>1. \A P : ChainTask(P, x, 2) => ChainTask(P, new, 2)
    BY <1>1, <1>2, <1>6 DEF ChainTask, Before, After, TaskLink
  <2> QED
    BY <1>1, <1>2, <1>5, <1>9, <1>10, <2>1, ChainStays
<1> QED
  BY <1>8, <1>11, <1>12 DEF ChainInv

LEMMA PutHistoryChain ==
  ASSUME IssueInv, ChainInv, NEW r \in Requests, putHistory(r)
  PROVE  ChainInv'
<1>1. /\ call[r].pc = "put_history" /\ holds(r) /\ goto(r, "put_cache") /\ heads' = heads
  BY DEF putHistory, at
<1>2. PICK x, m : x = call[r] /\ m = buildPopProofMessage(x)
  OBVIOUS
<1>3. PICK row : row = [message |-> m, popChainAdvanced |-> x.expected = None]
  OBVIOUS
<1>4. history' = history \union {row} /\ row.message = m /\ (row.popChainAdvanced <=> x.expected = None)
  BY <1>2, <1>3 DEF putHistory
<1>5. IsTask(x) /\ DOMAIN call = Requests
  BY <1>1, <1>2 DEF IssueInv, LockOK, TaskOK, Active, Held, Looked, Anchored
<1>6. PICK new : new = atStage(x, "put_cache")
  OBVIOUS
<1>7. call' = [call EXCEPT ![r] = new]
  BY <1>1, <1>2, <1>5, <1>6, GotoFacts
<1>8. new.pc = "put_cache"
  BY <1>5, <1>6, StageFacts
<1>9. ASSUME NEW i \in {2, 3} PROVE Unforked(i)'
  <2>1. PICK P : ChainOver(P, i)
    BY DEF ChainInv, Unforked
  <2>2. HeadOf(i)' = HeadOf(i)
    BY <1>1 DEF HeadOf
  <2>3. Link(m, i) = TaskLink(x, i)
    BY <1>2, HashLinks DEF Link, TaskLink
  <2>4. ChainTask(P, x, i)
    BY <1>2, <2>1 DEF ChainOver
  <2>5. x.expected = None => TaskLink(x, i) \in P /\ Rows(i, TaskLink(x, i))
    BY <1>1, <1>2, <2>4 DEF ChainTask, After
  <2>6. \A y \in history' : y.popChainAdvanced => Link(y.message, i) \in P
    BY <1>4, <2>1, <2>3, <2>5 DEF ChainOver
  <2>7. \A y, z \in history' :
          y.popChainAdvanced /\ z.popChainAdvanced /\ y # z => Link(y.message, i) # Link(z.message, i)
    <3> SUFFICES ASSUME NEW y \in history', NEW z \in history', y.popChainAdvanced,
                        z.popChainAdvanced, y # z
                 PROVE  Link(y.message, i) # Link(z.message, i)
      OBVIOUS
    <3>1. CASE y \in history /\ z \in history
      BY <2>1, <3>1 DEF ChainOver
    <3>2. CASE y = row /\ z \in history
      BY <1>4, <2>3, <2>5, <3>2 DEF Rows
    <3>3. CASE z = row /\ y \in history
      BY <1>4, <2>3, <2>5, <3>3 DEF Rows
    <3> QED
      BY <1>4, <3>1, <3>2, <3>3
  <2>8. ChainTask(P, new, i)'
    BY <1>8 DEF ChainTask, Before, After
  <2>9. Ancestry(P, HeadOf(i), i)'
    BY <2>1, <2>2 DEF ChainOver
  <2> QED
    BY <1>1, <1>7, <2>6, <2>7, <2>8, <2>9, ChainMoves
<1> QED
  BY <1>1, <1>9 DEF ChainInv

LEMMA LookupChain ==
  ASSUME IssueInv, ChainInv, NEW r \in Requests, lookup(r)
  PROVE  ChainInv'
<1>1. /\ call[r].pc = "lookup" /\ holds(r) /\ UNCHANGED <<heads, history>>
      /\ TaskOK(call[r]) /\ DOMAIN call = Requests
  BY DEF lookup, at, store, IssueInv, LockOK
<1>2. CASE settle(r, "error") \/ settle(r, "done")
  <2>1. \A q \in Requests : call'[q] = call[q] \/ call'[q].pc \in {"error", "done"}
    BY <1>1, <1>2 DEF settle
  <2>2. \A q \in Requests : call'[q] = call[q] \/ call'[q].pc \notin Looked
    BY <2>1 DEF Looked, Anchored
  <2> QED
    BY <1>1, <2>2, ChainStill
<1>3. CASE call' = [call EXCEPT ![r].pc = "anchor", ![r].issued_at = now,
                ![r].prev = IF call[r].expected = None THEN heads.global ELSE call[r].expected,
                ![r].stream_prev = IF call[r].expected = None THEN heads.stream ELSE call[r].expected]
  <2>0. PICK c, t, p, q : /\ c = call[r] /\ t = now
                          /\ p = IF c.expected = None THEN heads.global ELSE c.expected
                          /\ q = IF c.expected = None THEN heads.stream ELSE c.expected
    OBVIOUS
  <2>1. IsTask(c)
    BY <1>1, <2>0 DEF TaskOK, Active, Held
  <2>2. PICK new : new = Task("anchor", c.ticket, c.claimer, c.period, c.expected, c.signer,
                              c.began, t, p, q)
    OBVIOUS
  <2>3. looked(c, t, p, q) = new
    BY <2>1, <2>2, LookedFacts
  <2>4. call' = [call EXCEPT ![r] = new]
    BY <1>1, <1>3, <2>0, <2>3 DEF looked
  <2>5. new.pc = "anchor" /\ new.expected = c.expected /\ new.prev = p /\ new.stream_prev = q
    BY <2>2 DEF Task
  <2>6. \A P : \A i \in {2, 3} : ChainTask(P, new, i)
    BY <2>0, <2>5 DEF ChainTask, Before, After, TaskLink, HeadOf
  <2> QED
    BY <1>1, <2>4, <2>6, ChainControl
<1> QED
  BY <1>2, <1>3 DEF lookup

LEMMA AnchorChain ==
  ASSUME IssueInv, ChainInv, NEW r \in Requests, anchor(r)
  PROVE  ChainInv'
<1>1. /\ call[r].pc = "anchor" /\ holds(r) /\ UNCHANGED <<heads, history>>
      /\ TaskOK(call[r]) /\ DOMAIN call = Requests
  BY DEF anchor, at, store, IssueInv, LockOK
<1>2. CASE settle(r, "error")
  <2>1. \A q \in Requests : call'[q] = call[q] \/ call'[q].pc \notin Looked
    BY <1>1, <1>2 DEF settle, Looked, Anchored
  <2> QED
    BY <1>1, <2>1, ChainStill
<1>3. CASE goto(r, IF call[r].expected = None THEN "put_global" ELSE "put_history")
  <2>0. PICK c, pc : /\ c = call[r]
                     /\ pc = IF c.expected = None THEN "put_global" ELSE "put_history"
    OBVIOUS
  <2>1. IsTask(c)
    BY <1>1, <2>0 DEF TaskOK, Active, Held, Looked
  <2>2. PICK new : new = atStage(c, pc)
    OBVIOUS
  <2>3. call' = [call EXCEPT ![r] = new]
    BY <1>1, <1>3, <2>0, <2>1, <2>2, GotoFacts
  <2>4. /\ new.pc = pc /\ new.expected = c.expected
        /\ new.prev = c.prev /\ new.stream_prev = c.stream_prev
    BY <2>1, <2>2, StageFacts
  <2>5. \A P : \A i \in {2, 3} : ChainTask(P, call[r], i) => ChainTask(P, new, i)
    BY <1>1, <2>0, <2>4 DEF ChainTask, Before, After, TaskLink
  <2> QED
    BY <1>1, <2>3, <2>5, ChainControl
<1> QED
  BY <1>2, <1>3 DEF anchor

(* Every other step leaves heads and rows alone, and no request enters the *)
(* stages in which they are put.                                           *)
LEMMA ElsewhereChain ==
  ASSUME IssueInv, ChainInv, NEW r \in Requests,
         \/ \E t \in Tickets, w \in Wallets \ Authorities, n \in PeriodIndexes, h \in BOOLEAN :
              request(r, t, w, n, h)
         \/ begin(r)
         \/ putCacheAndAnswer(r)
  PROVE  ChainInv'
<1>1. DOMAIN call = Requests
  BY DEF IssueInv, LockOK
<1>2. UNCHANGED <<heads, history>>
  BY DEF request, begin, putCacheAndAnswer, store
<1>3. \A q \in Requests : call'[q] = call[q] \/ call'[q].pc \notin Looked
  <2>1. ASSUME NEW t, NEW w, NEW n, NEW h, request(r, t, w, n, h)
        PROVE  \A q \in Requests : call'[q] = call[q] \/ call'[q].pc \notin Looked
    BY <1>1, <2>1 DEF request, Looked, Anchored
  <2>2. CASE begin(r)
    <3>1. CASE settle(r, "error")
      BY <1>1, <3>1 DEF settle, Looked, Anchored
    <3>2. CASE call' = [call EXCEPT ![r].pc = "lookup", ![r].signer = getPopSigner(now).signer,
                                    ![r].began = now]
      <4>1. "pc" \in DOMAIN call[r]
        <5>1. call[r].pc = "queued" /\ TaskOK(call[r])
          BY <2>2 DEF begin, at, IssueInv
        <5>2. PICK x : x = call[r] /\ IsTask(x)
          BY <5>1 DEF TaskOK, Active
        <5>3. PICK a, b, c, d, e, f, g, h, i, j : x = Task(a, b, c, d, e, f, g, h, i, j)
          BY <5>2 DEF IsTask
        <5> QED
          BY <5>2, <5>3 DEF Task
      <4>2. \A q \in Requests : q # r => call'[q] = call[q]
        BY <1>1, <3>2
      <4>3. call'[r].pc = "lookup"
        BY <1>1, <3>2, <4>1
      <4> QED
        BY <4>2, <4>3 DEF Looked, Anchored
    <3> QED
      BY <2>2, <3>1, <3>2 DEF begin
  <2>3. CASE putCacheAndAnswer(r)
    <3>1. settle(r, "done")
      BY <2>3 DEF putCacheAndAnswer
    <3> QED
      BY <1>1, <3>1 DEF settle, Looked, Anchored
  <2> QED
    BY <2>1, <2>2, <2>3
<1> QED
  BY <1>2, <1>3, ChainStill

LEMMA ChainNext ==
  ASSUME \A m : pop_entry_hash(m) # ZeroHash,
         IssueInv, ChainInv, [EventNext]_<<vars, issuer, setup>>
  PROVE  ChainInv'
<1>1. ASSUME NEW r \in Requests, Steps(r) PROVE ChainInv'
  BY <1>1, LookupChain, AnchorChain, PutGlobalChain, PutStreamChain, PutHistoryChain, ElsewhereChain
     DEF Steps
<1>2. ASSUME \/ Setup \/ (\E t \in Tickets : ticketIssued(t)) \/ eventEnded \/ Onchain
             \/ UNCHANGED <<vars, issuer, setup>>
      PROVE  ChainInv'
  <2>1. UNCHANGED <<heads, history, call>>
    <3>1. CASE Setup
      BY <3>1, SetupFacts DEF store
    <3>2. CASE (\E t \in Tickets : ticketIssued(t)) \/ eventEnded
      BY <3>2 DEF ticketIssued, eventEnded, memory, store
    <3>3. CASE Onchain
      BY <3>3 DEF Onchain, issuer, memory, store
    <3>4. CASE UNCHANGED <<vars, issuer, setup>>
      BY <3>4 DEF issuer, memory, store
    <3> QED
      BY <1>2, <3>1, <3>2, <3>3, <3>4
  <2> QED
    BY <2>1, ChainStill
<1>3. ASSUME Crash PROVE ChainInv'
  <2>1. UNCHANGED <<heads, history>>
    BY <1>3 DEF Crash, store
  <2>2. \A q \in Requests : call'[q].pc \in {"idle", "done", "error", "lost"}
    BY <1>3 DEF Crash, Idle
  <2>3. \A q \in Requests : call'[q].pc \notin Looked
    BY <2>2 DEF Looked, Anchored
  <2> QED
    BY <2>1, <2>3, ChainStill
<1>4. ASSUME NEW r \in Requests,
             \E t \in Tickets, w \in Wallets \ Authorities, n \in PeriodIndexes, h \in BOOLEAN :
               request(r, t, w, n, h)
      PROVE  ChainInv'
  BY <1>4, ElsewhereChain
<1> QED
  BY <1>1, <1>2, <1>3, <1>4 DEF EventNext, Elsewhere, IssuerNext

(* The proofs of the stored chain never share a predecessor, whatever      *)
(* requests overlap and wherever the object is lost, given that SHA-256    *)
(* yields no hash of 32 zero bytes: the head before the first proof is     *)
(* that value (issuePopClaimProof, POP_HASH_GENESIS_HEX).                  *)
THEOREM PopChainNeverForks ==
  ASSUME \A m : pop_entry_hash(m) # ZeroHash
  PROVE  EventSpec => []NoPopFork
<1>1. EventInit => ChainInv
  <2> SUFFICES ASSUME EventInit PROVE ChainInv
    OBVIOUS
  <2>1. /\ heads = [global |-> ZeroHash, stream |-> ZeroHash] /\ history = {}
        /\ \A r \in Requests : call[r].pc = "idle"
    BY DEF EventInit, IssuerInit, Idle
  <2>2. ASSUME NEW i \in {2, 3} PROVE ChainOver({}, i)
    <3>1. HeadOf(i) = ZeroHash
      BY <2>1 DEF HeadOf
    <3>2. \A r \in Requests : ChainTask({}, call[r], i)
      BY <2>1 DEF ChainTask, Before, After
    <3> QED
      BY <2>1, <3>1, <3>2 DEF ChainOver, Ancestry
  <2> QED
    BY <2>1, <2>2 DEF ChainInv, Unforked
<1>2. IssueInv /\ ChainInv /\ [EventNext]_<<vars, issuer, setup>> => ChainInv'
  BY ChainNext
<1>3. ChainInv => NoPopFork
  <2> SUFFICES ASSUME ChainInv, NEW x \in history, NEW y \in history,
                      x.popChainAdvanced, y.popChainAdvanced, x # y
               PROVE  /\ x.message.prev_hash # y.message.prev_hash
                      /\ x.message.stream_prev_hash # y.message.stream_prev_hash
    BY DEF NoPopFork
  <2>1. Link(x.message, 2) # Link(y.message, 2) /\ Link(x.message, 3) # Link(y.message, 3)
    BY DEF ChainInv, Unforked, ChainOver
  <2> QED
    BY <2>1 DEF Link
<1> QED
  BY <1>1, <1>2, <1>3, IssueInvariant, PTL DEF EventSpec

-----------------------------------------------------------------------------
(* The setup. Each stage of the device knows what the transactions before  *)
(* it left on chain. Before tx2 nobody touches the grant; afterwards the   *)
(* tokens only move between the vault and a wallet, and what the vault was *)
(* funded for holds until the authority revises the grant.                 *)

LEMMA MaxFacts ==
  ASSUME NEW a \in Int, NEW b \in Int
  PROVE  Max({a, b}) \in {a, b} /\ Max({a, b}) >= a /\ Max({a, b}) >= b
<1>1. \E x \in {a, b} : \A y \in {a, b} : x >= y
  <2>1. CASE a >= b
    BY <2>1
  <2>2. CASE ~(a >= b)
    BY <2>2
  <2> QED
    BY <2>1, <2>2
<1>2. Max({a, b}) \in {a, b} /\ \A y \in {a, b} : Max({a, b}) >= y
  BY <1>1 DEF Max
<1> QED
  BY <1>2

Bare ==
  /\ grant[TheGrant] = None /\ ledger[TheGrant].funded = 0 /\ payouts = {}

Plan(form) == computeIssueMintPlan(form).bootstrap

FormOK(form) ==
  /\ form.ticketTokenAmount \in Nat
  /\ form.claimIntervalDays * TicksPerDay \in Nat \ {0}
  /\ Plan(form) \in Nat /\ Plan(form) >= MIN_PREFUND_MULTIPLIER * form.ticketTokenAmount

Funded ==
  /\ token.supply \in Nat /\ Accounted
  /\ ~revised => grant[TheGrant] # None /\ Prefunded

IsToken == token = [authority |-> token.authority, supply |-> token.supply, metadata |-> token.metadata]

Accounts ==
  /\ grant \in [Grants -> GrantAccount \union {None}]
  /\ vault \in [Grants -> Nat \union {None}]
  /\ ata \in [Wallets -> [Mints -> Nat]]
  /\ ledger \in [Grants -> [funded : Nat, paid : Nat, refunded : Nat]]
  /\ (vault[TheGrant] = None) <=> (grant[TheGrant] = None)
  /\ DOMAIN pop_config = Authorities
  /\ IsFiniteSet(payouts)
  /\ \A p \in payouts : \E r \in receipts :
       r.grant = p.grant /\ r.claimer = p.claimer /\ r.period_index = p.period_index

Unfunded == {"form", "signer", "config", "tx0", "verify", "tx1"}
Funding  == {"tx3", "tx4", "post"}
Chosen   == {"config", "tx0", "verify", "tx1", "tx2"} \union Funding

StageOK ==
  /\ device.pc \in Unfunded \union Funding \union {"tx2", "over"}
  /\ device.pc \in Unfunded => Bare /\ \A w \in Wallets : ata[w][Mint] = 0
  /\ device.pc \in {"signer"} \union Chosen =>
       /\ device = [pc |-> device.pc, form |-> device.form, signer |-> device.signer]
       /\ FormOK(device.form)
  /\ device.pc \in Chosen => device.signer \in Signers
  /\ device.pc \in {"tx1", "tx2"} \union Funding => pop_config[Organiser] # None
  /\ device.pc = "tx2" =>
       /\ Bare /\ IsToken /\ token.supply = Plan(device.form)
       /\ \A w \in Wallets : ata[w][Mint] = IF w = Organiser THEN token.supply ELSE 0
  /\ device.pc \in Funding => Funded /\ IsToken
  /\ device.pc \in {"tx4", "post"} => token.metadata = TRUE
  /\ device.pc = "post" => token.authority = None

Stored ==
  event # "none" =>
    /\ device.pc = "over" /\ Funded /\ pop_config[Organiser] # None
    /\ token.metadata = TRUE /\ token.authority = None

BackInv == Accounts /\ StageOK /\ Stored

LEMMA TheGrantFacts ==
  /\ TheGrant \in Grants /\ Organiser \in Wallets /\ Mint \in Mints /\ Organiser \in Authorities
<1>1. TheGrant \in Grants
  BY SetupAssumption DEF TheGrant
<1>2. TheGrant \in Wallets \X Mints \X Nat
  BY <1>1, ConstantsAssumption
<1> QED
  BY <1>1, <1>2 DEF Organiser, Mint, Authority, MintOf, Authorities

LEMMA InitBack == EventInit => BackInv
<1> SUFFICES ASSUME EventInit PROVE BackInv
  OBVIOUS
<1>1. InitialBalance = 0
  BY SetupAssumption
<1>2. /\ grant = [g \in Grants |-> None] /\ vault = [g \in Grants |-> None]
      /\ ata = [w \in Wallets |-> [m \in Mints |-> 0]] /\ receipts = {} /\ payouts = {}
      /\ pop_config = [w \in Authorities |-> None]
      /\ ledger = [g \in Grants |-> [funded |-> 0, paid |-> 0, refunded |-> 0]]
      /\ event = "none" /\ device.pc = "form"
  BY <1>1 DEF EventInit, Init, IssuerInit
<1>3. Accounts
  BY <1>2, TheGrantFacts, FS_EmptySet DEF Accounts
<1>4. StageOK
  BY <1>2, TheGrantFacts DEF StageOK, Unfunded, Funding, Chosen, Bare
<1> QED
  BY <1>2, <1>3, <1>4 DEF BackInv, Stored

LEMMA FormFacts ==
  ASSUME NEW form \in Forms, toPositiveU64(form.claimIntervalDays * TicksPerDay)
  PROVE  FormOK(form)
<1>1. /\ form.ticketTokenAmount \in Nat /\ form.claimIntervalDays \in Nat /\ TicksPerDay \in Nat
      /\ form.maxClaimsPerInterval \in Nat \union {None} /\ MAX_U64 \in Nat
  BY SetupAssumption
<1>2. form.claimIntervalDays * TicksPerDay \in Nat \ {0}
  BY <1>1 DEF toPositiveU64
<1>3. PICK amount, limit : amount = form.ticketTokenAmount /\ limit = form.maxClaimsPerInterval
  OBVIOUS
<1>4. PICK base : base = IF limit = None THEN amount * 100 * 30 ELSE amount * Max({1, limit}) * 60
  OBVIOUS
<1>5. base \in Int
  <2>1. CASE limit = None
    BY <1>1, <1>3, <1>4, <2>1
  <2>2. CASE limit # None
    <3>1. PICK n : n = Max({1, limit})
      OBVIOUS
    <3>2. n \in Int
      <4>1. 1 \in Int /\ limit \in Int
        BY <1>1, <1>3, <2>2
      <4>2. n \in {1, limit}
        BY <3>1, <4>1, MaxFacts
      <4> QED
        BY <4>1, <4>2
    <3>3. amount * n \in Int
      BY <1>1, <1>3, <3>2
    <3>4. base = amount * n * 60
      BY <1>4, <2>2, <3>1
    <3> QED
      BY <3>3, <3>4
  <2> QED
    BY <2>1, <2>2
<1>6. Plan(form) = Max({base, amount * 100})
  BY <1>3, <1>4 DEF Plan, computeIssueMintPlan, computeBootstrapAmount, MIN_PREFUND_MULTIPLIER
<1>7. Plan(form) \in Int /\ Plan(form) >= amount * 100
  <2>1. PICK least : least = amount * 100
    OBVIOUS
  <2>2. least \in Int
    BY <1>1, <1>3, <2>1
  <2>3. Plan(form) \in {base, least} /\ Plan(form) >= least
    <3>1. Plan(form) = Max({base, least})
      BY <1>6, <2>1
    <3>2. Max({base, least}) \in {base, least} /\ Max({base, least}) >= least
      BY <1>5, <2>2, MaxFacts
    <3> QED
      BY <3>1, <3>2
  <2> QED
    BY <1>5, <2>1, <2>2, <2>3
<1> QED
  BY <1>1, <1>2, <1>3, <1>7 DEF FormOK, MIN_PREFUND_MULTIPLIER

(* Steps that leave the chain alone, and that only move the device on.     *)
LEMMA ChainUntouched ==
  ASSUME BackInv, UNCHANGED <<grant, vault, ata, receipts, pop_config, ledger, payouts, token, device>>,
         revised' <=> revised, event' = "none" <=> event = "none"
  PROVE  BackInv'
<1>1. (Funded' <=> Funded) /\ (Bare' <=> Bare) /\ (IsToken' <=> IsToken)
  BY DEF Bare, Funded, Accounted, Prefunded, IsToken
<1> QED
  BY <1>1 DEF BackInv, Accounts, StageOK, Stored

LEMMA AccountsStay ==
  ASSUME Accounts, UNCHANGED <<grant, vault, ata, receipts, pop_config, ledger, payouts>>
  PROVE  Accounts'
BY DEF Accounts

LEMMA DeviceLeft ==
  ASSUME BackInv, Accounts', event = "none", event' = "none", device' = Over
  PROVE  BackInv'
BY DEF BackInv, StageOK, Stored, Over, Unfunded, Funding, Chosen

LEMMA RefreshBack ==
  ASSUME BackInv, refreshRuntimeStatus PROVE BackInv'
<1>1. /\ device.pc = "form" /\ UNCHANGED <<grant, vault, ata, receipts, pop_config, ledger, payouts, token, event>>
      /\ \E b : device' = [device EXCEPT !.ready = b]
  BY DEF refreshRuntimeStatus, vars, on
<1>2. event = "none" /\ Accounts /\ StageOK
  BY <1>1 DEF BackInv, Stored
<1>3. device'.pc = "form"
  BY <1>1
<1>4. Accounts'
  BY <1>1, <1>2, AccountsStay
<1>5. StageOK'
  BY <1>1, <1>2, <1>3 DEF StageOK, Unfunded, Funding, Chosen, Bare
<1> QED
  BY <1>1, <1>2, <1>4, <1>5 DEF BackInv, Stored

LEMMA CreateBack ==
  ASSUME BackInv, NEW form \in Forms, handleCreate(form) PROVE BackInv'
<1>1. /\ device.pc = "form"
      /\ UNCHANGED <<grant, vault, ata, receipts, pop_config, ledger, payouts, token, event>>
  BY DEF handleCreate, vars, on, issuer
<1>2. event = "none" /\ Accounts /\ StageOK
  BY <1>1 DEF BackInv, Stored
<1>3. Accounts'
  BY <1>1, <1>2, AccountsStay
<1>4. CASE device' = Over
  BY <1>1, <1>2, <1>3, <1>4, DeviceLeft
<1>5. CASE /\ device' = [pc |-> "signer", form |-> form, signer |-> None]
           /\ toPositiveU64(form.claimIntervalDays * TicksPerDay)
  <2>1. FormOK(form)
    BY <1>5, FormFacts
  <2>2. /\ device'.pc = "signer" /\ device'.form = form /\ device'.signer = None
        /\ device' = [pc |-> device'.pc, form |-> device'.form, signer |-> device'.signer]
    BY <1>5
  <2>3. FormOK(device.form)'
    BY <2>1, <2>2
  <2>4. StageOK'
    BY <1>1, <1>2, <2>2, <2>3 DEF StageOK, Unfunded, Funding, Chosen, Bare
  <2> QED
    BY <1>1, <1>2, <1>3, <2>4 DEF BackInv, Stored
<1> QED
  BY <1>4, <1>5 DEF handleCreate, leave

(* A device that has its form moves on to the stage pc with the signer s.  *)
LEMMA MovesOn ==
  ASSUME StageOK, device.pc \in {"signer"} \union Chosen, NEW pc, NEW s,
         device' = [pc |-> pc, form |-> device.form, signer |-> s]
  PROVE  /\ device'.pc = pc /\ device'.signer = s /\ device'.form = device.form /\ FormOK(device.form)'
         /\ device' = [pc |-> device'.pc, form |-> device'.form, signer |-> device'.signer]
<1>1. /\ device'.pc = pc /\ device'.signer = s /\ device'.form = device.form
      /\ device' = [pc |-> device'.pc, form |-> device'.form, signer |-> device'.signer]
  OBVIOUS
<1>2. FormOK(device.form)
  BY DEF StageOK
<1> QED
  BY <1>1, <1>2

LEMMA GoesTo ==
  ASSUME StageOK, device.pc \in {"signer"} \union Chosen, NEW pc, goTo(pc)
  PROVE  device' = [pc |-> pc, form |-> device.form, signer |-> device.signer]
<1>1. device = [pc |-> device.pc, form |-> device.form, signer |-> device.signer]
  BY DEF StageOK
<1> QED
  BY <1>1 DEF goTo

LEMMA SignerBack ==
  ASSUME IssueInv, BackInv, resolvePopSignerPubkey PROVE BackInv'
<1>1. /\ device.pc = "signer"
      /\ UNCHANGED <<grant, vault, ata, receipts, pop_config, ledger, payouts, token, event>>
  BY DEF resolvePopSignerPubkey, vars, on
<1>2. event = "none" /\ Accounts /\ StageOK
  BY <1>1 DEF BackInv, Stored
<1>3. Accounts'
  BY <1>1, <1>2, AccountsStay
<1>4. PICK runtime \in {None, getRuntimeStatus(TRUE, FALSE).popSignerPubkey}, env \in EnvSigners :
        LET raw == IF runtime # None THEN runtime ELSE env
        IN IF raw = None THEN leave ELSE device' = [device EXCEPT !.pc = "config", !.signer = raw]
  BY DEF resolvePopSignerPubkey
<1>5. PICK raw : raw = IF runtime # None THEN runtime ELSE env
  OBVIOUS
<1>6. raw \in Signers \union {None}
  <2>1. now \in Nat /\ now <= MaxTime /\ SignerCacheOK
    BY DEF IssueInv
  <2>2. getPopSigner(now).signer = SignerOf[rotationIndex(now)]
    BY <2>1 DEF getPopSigner, SignerCacheOK
  <2>3. getPopSigner(now).signer \in Signers
    BY <2>1, <2>2, RotationIndexBound, IssuerAssumption
  <2>4. runtime \in Signers \union {None}
    BY <2>3 DEF getRuntimeStatus
  <2> QED
    BY <1>5, <2>4, SetupAssumption
<1>7. CASE raw = None
  BY <1>1, <1>2, <1>3, <1>4, <1>5, <1>7, DeviceLeft DEF leave
<1>8. CASE raw # None
  <2>1. device' = [pc |-> "config", form |-> device.form, signer |-> raw]
    <3>1. device' = [device EXCEPT !.pc = "config", !.signer = raw]
      BY <1>4, <1>5, <1>8
    <3>2. device = [pc |-> device.pc, form |-> device.form, signer |-> device.signer]
      BY <1>1, <1>2 DEF StageOK
    <3> QED
      BY <3>1, <3>2
  <2>2. /\ device'.pc = "config" /\ device'.signer = raw /\ FormOK(device.form)'
        /\ device' = [pc |-> device'.pc, form |-> device'.form, signer |-> device'.signer]
    BY <1>1, <1>2, <2>1, MovesOn
  <2>3. StageOK'
    BY <1>1, <1>2, <1>6, <1>8, <2>2 DEF StageOK, Unfunded, Funding, Chosen, Bare
  <2> QED
    BY <1>1, <1>2, <1>3, <2>3 DEF BackInv, Stored
<1> QED
  BY <1>7, <1>8

(* The PopConfig: read, put in order, and verified before anything else.   *)
LEMMA ConfigBack ==
  ASSUME BackInv, readPopConfig \/ upsertPopConfig \/ ensurePopConfigReadyOrThrow PROVE BackInv'
<1>1. /\ device.pc \in {"config", "tx0", "verify"}
      /\ UNCHANGED <<grant, vault, ata, receipts, ledger, payouts, token, event>>
  BY DEF readPopConfig, upsertPopConfig, upsert_pop_config, ensurePopConfigReadyOrThrow, vars, on, issuer
<1>2. event = "none" /\ Accounts /\ StageOK
  BY <1>1 DEF BackInv, Stored
<1>3. pop_config' = pop_config \/ pop_config' = [pop_config EXCEPT ![Organiser] = device.signer]
  BY DEF readPopConfig, upsertPopConfig, upsert_pop_config, ensurePopConfigReadyOrThrow, vars
<1>4. Accounts'
  BY <1>1, <1>2, <1>3 DEF Accounts
<1>5. CASE leave
  BY <1>1, <1>2, <1>4, <1>5, DeviceLeft DEF leave
<1>6. ASSUME NEW pc \in {"verify", "tx0", "tx1"}, goTo(pc), pc = "tx1" => pop_config'[Organiser] # None
      PROVE  BackInv'
  <2>1. /\ device'.pc = pc /\ device'.signer = device.signer /\ FormOK(device.form)'
        /\ device' = [pc |-> device'.pc, form |-> device'.form, signer |-> device'.signer]
    BY <1>1, <1>2, <1>6, GoesTo, MovesOn DEF Chosen
  <2>2. StageOK'
    BY <1>1, <1>2, <1>6, <2>1 DEF StageOK, Unfunded, Funding, Chosen, Bare
  <2> QED
    BY <1>1, <1>2, <1>4, <2>2 DEF BackInv, Stored
<1>7. CASE readPopConfig
  BY <1>6, <1>7 DEF readPopConfig
<1>8. CASE upsertPopConfig
  BY <1>5, <1>6, <1>8 DEF upsertPopConfig, landed
<1>9. CASE ensurePopConfigReadyOrThrow
  <2>1. CASE goTo("tx1") /\ isPopConfigStateReady
    <3>1. device.signer \in Signers
      BY <1>1, <1>2 DEF StageOK, Chosen
    <3>2. pop_config'[Organiser] # None
      BY <1>9, <2>1, <3>1, IssuerAssumption DEF isPopConfigStateReady, ensurePopConfigReadyOrThrow, vars
    <3> QED
      BY <1>6, <2>1, <3>2
  <2> QED
    BY <1>5, <1>9, <2>1 DEF ensurePopConfigReadyOrThrow
<1> QED
  BY <1>7, <1>8, <1>9

LEMMA MintBack ==
  ASSUME BackInv, mintSupply PROVE BackInv'
<1>1. PICK supply : supply = Plan(device.form)
  OBVIOUS
<1>2. /\ device.pc = "tx1"
      /\ UNCHANGED <<grant, vault, receipts, pop_config, ledger, payouts, event>>
      /\ \/ /\ token' = [authority |-> Organiser, supply |-> supply, metadata |-> FALSE]
            /\ ata' = [ata EXCEPT ![Organiser][Mint] = @ + supply]
            /\ goTo("tx2") \/ leave
         \/ UNCHANGED <<token, ata>> /\ leave
  BY <1>1 DEF mintSupply, on, landed, issuer, Plan, computeIssueMintPlan
<1>3. event = "none" /\ Accounts /\ StageOK
  BY <1>2 DEF BackInv, Stored
<1>4. ata \in [Wallets -> [Mints -> Nat]] /\ supply \in Nat
  BY <1>1, <1>2, <1>3 DEF Accounts, StageOK, Chosen, FormOK
<1>5. ata' \in [Wallets -> [Mints -> Nat]]
  BY <1>2, <1>4, TheGrantFacts
<1>6. Accounts'
  BY <1>2, <1>3, <1>5 DEF Accounts
<1>7. CASE leave
  BY <1>2, <1>3, <1>6, <1>7, DeviceLeft DEF leave
<1>8. CASE /\ token' = [authority |-> Organiser, supply |-> supply, metadata |-> FALSE]
           /\ ata' = [ata EXCEPT ![Organiser][Mint] = @ + supply]
           /\ goTo("tx2")
  <2>1. /\ device'.pc = "tx2" /\ device'.signer = device.signer /\ FormOK(device.form)'
        /\ device'.form = device.form
        /\ device' = [pc |-> device'.pc, form |-> device'.form, signer |-> device'.signer]
    BY <1>2, <1>3, <1>8, GoesTo, MovesOn DEF Chosen
  <2>2. supply \in Nat /\ \A w \in Wallets : ata[w][Mint] = 0
    BY <1>1, <1>2, <1>3 DEF StageOK, Unfunded, Chosen, FormOK
  <2>3. token'.supply = supply /\ IsToken'
    BY <1>8 DEF IsToken
  <2>4. ASSUME NEW w \in Wallets PROVE ata'[w][Mint] = IF w = Organiser THEN supply ELSE 0
    BY <1>4, <1>8, <2>2, TheGrantFacts
  <2>5. Plan(device.form)' = supply
    BY <1>1, <2>1
  <2>6. pop_config'[Organiser] # None /\ device.signer \in Signers /\ Bare'
    BY <1>2, <1>3 DEF StageOK, Unfunded, Chosen, Bare
  <2>7. StageOK'
    BY <2>1, <2>3, <2>4, <2>5, <2>6 DEF StageOK, Unfunded, Funding, Chosen
  <2> QED
    BY <1>2, <1>3, <1>6, <2>7 DEF BackInv, Stored
<1> QED
  BY <1>2, <1>7, <1>8

(* What the wallets hold of the mint.                                      *)
Purse(ba) == SumFunctionOnSet(Balances(ba, Mint), Wallets)

LEMMA AccountedPurse == Accounted <=> Purse(ata) + Coins(vault[TheGrant]) = token.supply
BY DEF Accounted, Purse, Balances, Coins, SumFunction

LEMMA AccountedPurseNext == Accounted' <=> Purse(ata') + Coins(vault'[TheGrant]) = token'.supply
BY DEF Accounted, Purse, Balances, Coins, SumFunction

LEMMA FundBack ==
  ASSUME IssueInv, BackInv, revised' = revised, createAndFundGrant PROVE BackInv'
<1>1. PICK amount, form : amount = Plan(device.form) /\ form = device.form
  OBVIOUS
<1>2. PICK account :
        account = [amount_per_period |-> form.ticketTokenAmount,
                   period_seconds    |-> form.claimIntervalDays * TicksPerDay,
                   start_ts          |-> Max({0, now - StartBehind}),
                   expires_at        |-> 0,
                   merkle_root       |-> ZeroHash,
                   paused            |-> FALSE]
  OBVIOUS
<1> DEFINE lands == /\ grant' = [grant EXCEPT ![TheGrant] = account]
                    /\ vault' = [vault EXCEPT ![TheGrant] = amount]
                    /\ ata' = [ata EXCEPT ![Organiser][Mint] = @ - amount]
                    /\ ledger' = [ledger EXCEPT ![TheGrant].funded = @ + amount]
<1>3. /\ device.pc = "tx2"
      /\ UNCHANGED <<now, receipts, pop_config, payouts, event, token>>
      /\ \/ lands /\ (goTo("tx3") \/ leave)
         \/ UNCHANGED <<grant, vault, ata, ledger>> /\ leave
  BY <1>1, <1>2 DEF createAndFundGrant, on, landed, issuer, Plan
<1>4. event = "none" /\ Accounts /\ StageOK
  BY <1>3 DEF BackInv, Stored
<1>5. /\ FormOK(form) /\ Bare /\ token.supply = amount /\ IsToken
      /\ pop_config[Organiser] # None /\ device.signer \in Signers
      /\ \A w \in Wallets : ata[w][Mint] = IF w = Organiser THEN amount ELSE 0
  BY <1>1, <1>3, <1>4 DEF StageOK, Chosen
<1>6. amount \in Nat /\ amount >= MIN_PREFUND_MULTIPLIER * form.ticketTokenAmount
      /\ form.ticketTokenAmount \in Nat
  BY <1>1, <1>5 DEF FormOK
<1>7. account \in GrantAccount /\ account # None /\ account.amount_per_period = form.ticketTokenAmount
  <2>1. PICK start : start = Max({0, now - StartBehind})
    OBVIOUS
  <2>2. now \in Int
    BY DEF IssueInv
  <2>3. 0 \in Int /\ now - StartBehind \in Int
    BY <2>2, SetupAssumption
  <2>4. start \in {0, now - StartBehind}
    BY <2>1, <2>3, MaxFacts
  <2>5. account \in GrantAccount
    BY <1>2, <1>5, <2>1, <2>3, <2>4, ConstantsAssumption DEF GrantAccount, FormOK
  <2> QED
    BY <1>2, <2>5, NoneAssumption
<1>8. /\ grant \in [Grants -> GrantAccount \union {None}] /\ vault \in [Grants -> Nat \union {None}]
      /\ ata \in [Wallets -> [Mints -> Nat]]
      /\ ledger \in [Grants -> [funded : Nat, paid : Nat, refunded : Nat]]
  BY <1>4 DEF Accounts
<1>9. ASSUME lands
      PROVE  /\ Accounts' /\ grant'[TheGrant] = account /\ vault'[TheGrant] = amount
             /\ ledger'[TheGrant].funded = amount /\ \A w \in Wallets : ata'[w][Mint] = 0
  <2>1. grant'[TheGrant] = account /\ vault'[TheGrant] = amount /\ amount # None
    BY <1>6, <1>8, <1>9, TheGrantFacts, NoneAssumption
  <2>2. grant' \in [Grants -> GrantAccount \union {None}] /\ vault' \in [Grants -> Nat \union {None}]
    BY <1>6, <1>7, <1>8, <1>9
  <2>3. ASSUME NEW w \in Wallets PROVE ata'[w][Mint] = 0
    BY <1>5, <1>6, <1>8, <1>9, TheGrantFacts
  <2>4. ata' \in [Wallets -> [Mints -> Nat]]
    <3>1. ata[Organiser][Mint] - amount \in Nat
      BY <1>5, <1>6, TheGrantFacts
    <3>2. ata' = [ata EXCEPT ![Organiser] = [ata[Organiser] EXCEPT ![Mint] = ata[Organiser][Mint] - amount]]
      BY <1>9
    <3> QED
      BY <1>8, <3>1, <3>2
  <2>5. /\ ledger' \in [Grants -> [funded : Nat, paid : Nat, refunded : Nat]]
        /\ ledger'[TheGrant].funded = amount
    <3>1. ledger[TheGrant] \in [funded : Nat, paid : Nat, refunded : Nat] /\ ledger[TheGrant].funded = 0
      BY <1>5, <1>8, TheGrantFacts DEF Bare
    <3>2. ledger' = [ledger EXCEPT ![TheGrant] = [ledger[TheGrant] EXCEPT !.funded = ledger[TheGrant].funded + amount]]
      BY <1>9
    <3>3. PICK row : row = [ledger[TheGrant] EXCEPT !.funded = ledger[TheGrant].funded + amount]
      OBVIOUS
    <3>4. row \in [funded : Nat, paid : Nat, refunded : Nat] /\ row.funded = amount
      BY <1>6, <3>1, <3>3
    <3> QED
      BY <1>8, <3>2, <3>3, <3>4, TheGrantFacts
  <2>6. Accounts'
    BY <1>3, <1>4, <1>7, <2>1, <2>2, <2>4, <2>5 DEF Accounts
  <2> QED
    BY <2>1, <2>3, <2>5, <2>6
<1>10. Accounts'
  BY <1>3, <1>4, <1>9, AccountsStay
<1>11. CASE leave
  BY <1>3, <1>4, <1>10, <1>11, DeviceLeft DEF leave
<1>12. CASE lands /\ goTo("tx3")
  <2>1. /\ device'.pc = "tx3" /\ device'.signer = device.signer /\ FormOK(device.form)'
        /\ device' = [pc |-> device'.pc, form |-> device'.form, signer |-> device'.signer]
    BY <1>3, <1>4, <1>12, GoesTo, MovesOn DEF Chosen
  <2>2. /\ grant'[TheGrant] = account /\ vault'[TheGrant] = amount
        /\ ledger'[TheGrant].funded = amount /\ \A w \in Wallets : ata'[w][Mint] = 0
    BY <1>9, <1>12
  <2>3. token'.supply = amount
    BY <1>3, <1>5
  <2>4. Accounted'
    <3>1. \A w \in Wallets : Balances(ata', Mint)[w] = 0
      BY <2>2 DEF Balances
    <3>2. Purse(ata') = Cardinality(Wallets) * 0
      BY <3>1, SumConstant, FiniteAssumption DEF Purse
    <3>3. Purse(ata') = 0
      BY <3>2, FS_CardinalityType, FiniteAssumption
    <3>4. Coins(vault'[TheGrant]) = amount
      BY <1>6, <2>2, NoneAssumption DEF Coins
    <3> QED
      BY <1>6, <2>3, <3>3, <3>4, AccountedPurseNext
  <2>5. Prefunded'
    <3>1. PICK each : each = form.ticketTokenAmount
      OBVIOUS
    <3>2. each * 0 = 0 /\ amount - each * 0 = amount /\ amount >= amount
      BY <1>6, <3>1
    <3>3. Cardinality(payouts') = 0
      BY <1>3, <1>5, FS_EmptySet DEF Bare
    <3>4. grant'[TheGrant].amount_per_period = each
      BY <1>7, <2>2, <3>1
    <3> QED
      BY <1>6, <2>2, <2>3, <3>1, <3>2, <3>3, <3>4 DEF Prefunded
  <2>6. Funded'
    BY <1>6, <1>7, <2>2, <2>3, <2>4, <2>5 DEF Funded
  <2>7. IsToken' /\ pop_config'[Organiser] # None
    BY <1>3, <1>5 DEF IsToken
  <2>8. StageOK'
    BY <1>5, <2>1, <2>6, <2>7 DEF StageOK, Unfunded, Funding, Chosen
  <2> QED
    BY <1>3, <1>4, <1>10, <2>8 DEF BackInv, Stored
<1> QED
  BY <1>3, <1>11, <1>12

(* The metadata, and the authorities given up.                             *)
LEMMA FinishBack ==
  ASSUME BackInv, revised' = revised, createMetadata \/ revokeAuthorities PROVE BackInv'
<1>1. /\ device.pc \in {"tx3", "tx4"}
      /\ UNCHANGED <<grant, vault, ata, receipts, pop_config, ledger, payouts, event>>
  BY DEF createMetadata, revokeAuthorities, vars, on, issuer
<1>2. event = "none" /\ Accounts /\ StageOK
  BY <1>1 DEF BackInv, Stored
<1>3. Accounts'
  BY <1>1, <1>2, AccountsStay
<1>4. CASE leave
  BY <1>1, <1>2, <1>3, <1>4, DeviceLeft DEF leave
<1>5. /\ IsToken /\ Funded /\ pop_config[Organiser] # None /\ device.signer \in Signers
      /\ device.pc = "tx4" => token.metadata = TRUE
  BY <1>1, <1>2 DEF StageOK, Funding, Chosen
<1>6. ASSUME NEW pc \in {"tx4", "post"}, goTo(pc), IsToken', token'.supply = token.supply,
             token'.metadata = TRUE, pc = "post" => token'.authority = None
      PROVE  BackInv'
  <2>1. /\ device'.pc = pc /\ device'.signer = device.signer /\ FormOK(device.form)'
        /\ device' = [pc |-> device'.pc, form |-> device'.form, signer |-> device'.signer]
    BY <1>1, <1>2, <1>6, GoesTo, MovesOn DEF Chosen, Funding
  <2>2. Funded'
    BY <1>1, <1>5, <1>6 DEF Funded, Accounted, Prefunded
  <2>3. StageOK'
    BY <1>1, <1>5, <1>6, <2>1, <2>2 DEF StageOK, Unfunded, Funding, Chosen
  <2> QED
    BY <1>1, <1>2, <1>3, <2>3 DEF BackInv, Stored
<1>7. CASE device.pc = "tx3" /\ token' = [token EXCEPT !.metadata = TRUE] /\ goTo("tx4")
  <2>1. token' = [authority |-> token.authority, supply |-> token.supply, metadata |-> TRUE]
    BY <1>5, <1>7 DEF IsToken
  <2> QED
    BY <1>6, <1>7, <2>1 DEF IsToken
<1>8. CASE device.pc = "tx4" /\ token' = [token EXCEPT !.authority = None] /\ goTo("post")
  <2>1. token' = [authority |-> None, supply |-> token.supply, metadata |-> TRUE]
    BY <1>5, <1>8 DEF IsToken
  <2>2. /\ token'.supply = token.supply /\ token'.metadata = TRUE /\ token'.authority = None
        /\ token' = [authority |-> token'.authority, supply |-> token'.supply, metadata |-> token'.metadata]
    BY <2>1
  <2>3. IsToken'
    BY <2>2 DEF IsToken
  <2> QED
    BY <1>6, <1>8, <2>2, <2>3
<1> QED
  BY <1>4, <1>7, <1>8 DEF createMetadata, revokeAuthorities, landed, on

(* The event is stored only by a device whose every transaction landed.    *)
LEMMA PostBack ==
  ASSUME BackInv, revised' = revised, createAdminEvent PROVE BackInv'
<1>1. /\ device.pc = "post" /\ device' = Over
      /\ UNCHANGED <<grant, vault, ata, receipts, pop_config, ledger, payouts, token>>
  BY DEF createAdminEvent, vars, on, leave
<1>2. Accounts /\ StageOK
  BY DEF BackInv
<1>3. Accounts'
  BY <1>1, <1>2, AccountsStay
<1>4. /\ Funded /\ pop_config[Organiser] # None /\ token.metadata = TRUE /\ token.authority = None
  BY <1>1, <1>2 DEF StageOK, Funding
<1>5. Funded'
  BY <1>1, <1>4 DEF Funded, Accounted, Prefunded
<1>6. StageOK'
  BY <1>1 DEF StageOK, Over, Unfunded, Funding, Chosen
<1> QED
  BY <1>1, <1>3, <1>4, <1>5, <1>6 DEF BackInv, Stored, Over

LEMMA SetupBack ==
  ASSUME IssueInv, BackInv, Setup, revised' = revised PROVE BackInv'
BY RefreshBack, CreateBack, SignerBack, ConfigBack, MintBack, FundBack, FinishBack, PostBack DEF Setup

-----------------------------------------------------------------------------
(* The chain after tx2. A step that moves tokens between the vault and one *)
(* wallet loses none.                                                      *)
LEMMA Conserves ==
  ASSUME Accounts, ata' \in [Wallets -> [Mints -> Nat]], vault' \in [Grants -> Nat \union {None}],
         NEW w \in Wallets, \A v \in Wallets \ {w} : ata'[v][Mint] = ata[v][Mint],
         ata'[w][Mint] + Coins(vault'[TheGrant]) = ata[w][Mint] + Coins(vault[TheGrant]),
         token' = token, Accounted
  PROVE  Accounted'
<1>0. ata \in [Wallets -> [Mints -> Nat]] /\ vault \in [Grants -> Nat \union {None}]
  BY DEF Accounts
<1>1. ASSUME NEW ba \in [Wallets -> [Mints -> Nat]]
      PROVE  /\ SumFunctionOnSet(Balances(ba, Mint), Wallets \ {w}) \in Int
             /\ Purse(ba) = ba[w][Mint] + SumFunctionOnSet(Balances(ba, Mint), Wallets \ {w})
  <2>1. PICK f : f = Balances(ba, Mint)
    OBVIOUS
  <2>2. Weighed(f, Wallets) /\ f[w] = ba[w][Mint]
    BY <2>1, TheGrantFacts DEF Weighed, Balances
  <2>3. SumFunctionOnSet(f, Wallets \ {w}) \in Int
    BY <2>2, FiniteAssumption, SumWithout
  <2>4. SumFunctionOnSet(f, Wallets) = (IF w \in Wallets THEN f[w] ELSE 0) + SumFunctionOnSet(f, Wallets \ {w})
    BY <2>2, FiniteAssumption, SumWithout
  <2> QED
    BY <2>1, <2>2, <2>3, <2>4 DEF Purse
<1>2. SumFunctionOnSet(Balances(ata', Mint), Wallets \ {w}) = SumFunctionOnSet(Balances(ata, Mint), Wallets \ {w})
  <2>1. \A v \in Wallets \ {w} : Balances(ata', Mint)[v] = Balances(ata, Mint)[v]
    BY DEF Balances
  <2> QED
    BY <2>1, SumSame
<1>3. PICK rest : rest = SumFunctionOnSet(Balances(ata, Mint), Wallets \ {w})
  OBVIOUS
<1>4. rest \in Int /\ Purse(ata) = ata[w][Mint] + rest
  BY <1>0, <1>1, <1>3
<1>5. Purse(ata') = ata'[w][Mint] + rest
  BY <1>1, <1>2, <1>3
<1>6. /\ ata'[w][Mint] \in Int /\ ata[w][Mint] \in Int
      /\ Coins(vault'[TheGrant]) \in Int /\ Coins(vault[TheGrant]) \in Int
  BY <1>0, TheGrantFacts DEF Coins
<1>7. Purse(ata') + Coins(vault'[TheGrant]) = Purse(ata) + Coins(vault[TheGrant])
  BY <1>4, <1>5, <1>6
<1> QED
  BY <1>7, AccountedPurse, AccountedPurseNext

LEMMA Onward ==
  ASSUME BackInv, Accounts', ~Bare, UNCHANGED <<device, token, event, pop_config>>, Funded => Funded'
  PROVE  BackInv'
BY DEF BackInv, StageOK, Stored, IsToken

LEMMA ChainTypes ==
  ASSUME Accounts
  PROVE  /\ grant \in [Grants -> GrantAccount \union {None}] /\ vault \in [Grants -> Nat \union {None}]
         /\ ata \in [Wallets -> [Mints -> Nat]]
         /\ ledger \in [Grants -> [funded : Nat, paid : Nat, refunded : Nat]]
         /\ ledger[TheGrant] \in [funded : Nat, paid : Nat, refunded : Nat]
         /\ grant[TheGrant] # None =>
              /\ grant[TheGrant] \in GrantAccount /\ vault[TheGrant] \in Nat /\ vault[TheGrant] # None
              /\ grant[TheGrant].amount_per_period \in Nat
<1>1. /\ grant \in [Grants -> GrantAccount \union {None}] /\ vault \in [Grants -> Nat \union {None}]
      /\ ata \in [Wallets -> [Mints -> Nat]]
      /\ ledger \in [Grants -> [funded : Nat, paid : Nat, refunded : Nat]]
      /\ (vault[TheGrant] = None) <=> (grant[TheGrant] = None)
  BY DEF Accounts
<1>2. /\ ledger[TheGrant] \in [funded : Nat, paid : Nat, refunded : Nat]
      /\ grant[TheGrant] \in GrantAccount \union {None} /\ vault[TheGrant] \in Nat \union {None}
  BY <1>1, TheGrantFacts
<1>3. \A account \in GrantAccount : account.amount_per_period \in Nat
  BY DEF GrantAccount
<1> QED
  BY <1>1, <1>2, <1>3

(* A claim takes one amount out of the vault and gives it to its claimer.  *)
LEMMA OneMore ==
  ASSUME NEW a \in Nat, NEW n \in Nat PROVE a * (n + 1) = a * n + a /\ a * n \in Nat
OBVIOUS

LEMMA ClaimBack ==
  ASSUME BackInv, UNCHANGED <<device, token, event>>, revised' <=> revised,
         NEW claimer \in Wallets, NEW n, NEW ix,
         grant[TheGrant] # None, PayClaim(TheGrant, claimer, Mint, n, ix)
  PROVE  BackInv'
<1>1. Accounts
  BY DEF BackInv
<1>2. PICK amount : amount = grant[TheGrant].amount_per_period
  OBVIOUS
<1>3. PICK receipt, p :
        /\ receipt.grant = TheGrant /\ receipt.claimer = claimer /\ receipt.period_index = n
        /\ p.grant = TheGrant /\ p.claimer = claimer /\ p.period_index = n
        /\ receipts' = receipts \union {receipt} /\ payouts' = payouts \union {p}
  <2>1. PICK receipt : receipt = [grant |-> TheGrant, claimer |-> claimer, period_index |-> n, claimed_at |-> now]
    OBVIOUS
  <2>2. PICK p : p = [grant |-> TheGrant, claimer |-> claimer, period_index |-> n, at |-> now,
                      start_ts |-> grant[TheGrant].start_ts, period_seconds |-> grant[TheGrant].period_seconds,
                      root |-> grant[TheGrant].merkle_root,
                      entry_hash |-> ix.message.entry_hash, issued_at |-> ix.message.issued_at]
    OBVIOUS
  <2>3. receipts' = receipts \union {receipt} /\ payouts' = payouts \union {p}
    BY <2>1, <2>2 DEF PayClaim
  <2> QED
    BY <2>1, <2>2, <2>3
<1>4. /\ ReceiptUnused(TheGrant, claimer, n) /\ vault[TheGrant] >= amount
      /\ vault' = [vault EXCEPT ![TheGrant] = @ - amount]
      /\ ata' = [ata EXCEPT ![claimer][Mint] = @ + amount]
      /\ ledger' = [ledger EXCEPT ![TheGrant].paid = @ + amount]
      /\ UNCHANGED <<grant, pop_config>>
  BY <1>2 DEF PayClaim, transfer_from_vault
<1>5. /\ vault \in [Grants -> Nat \union {None}] /\ ata \in [Wallets -> [Mints -> Nat]]
      /\ ledger \in [Grants -> [funded : Nat, paid : Nat, refunded : Nat]]
      /\ ledger[TheGrant] \in [funded : Nat, paid : Nat, refunded : Nat]
      /\ vault[TheGrant] \in Nat /\ vault[TheGrant] # None /\ amount \in Nat
  BY <1>1, <1>2, ChainTypes
<1>6. vault[TheGrant] - amount \in Nat /\ vault[TheGrant] - amount # None
  BY <1>4, <1>5, NoneAssumption
<1>7. vault' \in [Grants -> Nat \union {None}] /\ vault'[TheGrant] = vault[TheGrant] - amount
  BY <1>4, <1>5, <1>6, TheGrantFacts
<1>8. /\ ata' \in [Wallets -> [Mints -> Nat]] /\ ata'[claimer][Mint] = ata[claimer][Mint] + amount
      /\ \A v \in Wallets \ {claimer} : ata'[v][Mint] = ata[v][Mint]
  <2>1. ata' = [ata EXCEPT ![claimer] = [ata[claimer] EXCEPT ![Mint] = ata[claimer][Mint] + amount]]
    BY <1>4
  <2>2. ata[claimer][Mint] + amount \in Nat
    BY <1>5, TheGrantFacts
  <2> QED
    BY <1>5, <2>1, <2>2, TheGrantFacts
<1>9. /\ ledger' \in [Grants -> [funded : Nat, paid : Nat, refunded : Nat]]
      /\ ledger'[TheGrant].funded = ledger[TheGrant].funded
  <2>1. PICK row : row = [ledger[TheGrant] EXCEPT !.paid = ledger[TheGrant].paid + amount]
    OBVIOUS
  <2>2. row \in [funded : Nat, paid : Nat, refunded : Nat] /\ row.funded = ledger[TheGrant].funded
    BY <1>5, <2>1
  <2>3. ledger' = [ledger EXCEPT ![TheGrant] = row]
    BY <1>4, <2>1
  <2> QED
    BY <1>5, <2>2, <2>3, TheGrantFacts
<1>10. p \notin payouts /\ IsFiniteSet(payouts)
  BY <1>1, <1>3, <1>4 DEF Accounts, ReceiptUnused
<1>11. /\ IsFiniteSet(payouts') /\ Cardinality(payouts') = Cardinality(payouts) + 1
       /\ Cardinality(payouts) \in Nat
  <2>1. Cardinality(payouts \union {p}) = Cardinality(payouts) + 1 /\ IsFiniteSet(payouts \union {p})
    BY <1>10, FS_AddElement
  <2>2. Cardinality(payouts) \in Nat
    BY <1>10, FS_CardinalityType
  <2> QED
    BY <1>3, <2>1, <2>2
<1>12. Accounts'
  <2>1. \A q \in payouts' : \E r \in receipts' :
          r.grant = q.grant /\ r.claimer = q.claimer /\ r.period_index = q.period_index
    BY <1>1, <1>3 DEF Accounts
  <2>2. grant' \in [Grants -> GrantAccount \union {None}] /\ DOMAIN pop_config' = Authorities
    BY <1>1, <1>4 DEF Accounts
  <2>3. (vault'[TheGrant] = None) <=> (grant'[TheGrant] = None)
    BY <1>4, <1>6, <1>7
  <2> QED
    BY <1>7, <1>8, <1>9, <1>11, <2>1, <2>2, <2>3 DEF Accounts
<1>13. ASSUME Funded PROVE Funded'
  <2>1. Coins(vault[TheGrant]) = vault[TheGrant] /\ Coins(vault'[TheGrant]) = vault[TheGrant] - amount
    BY <1>5, <1>6, <1>7 DEF Coins
  <2>2. ata[claimer][Mint] \in Nat
    BY <1>5, TheGrantFacts
  <2>3. ata'[claimer][Mint] + Coins(vault'[TheGrant]) = ata[claimer][Mint] + Coins(vault[TheGrant])
    BY <1>5, <1>8, <2>1, <2>2
  <2>4. Accounted'
    BY <1>1, <1>7, <1>8, <1>13, <2>3, Conserves DEF Funded
  <2>5. ASSUME ~revised PROVE grant'[TheGrant] # None /\ Prefunded'
    <3>1. PICK k, x : k = Cardinality(payouts) /\ x = amount * k
      OBVIOUS
    <3>2. vault[TheGrant] = ledger[TheGrant].funded - x /\ ledger[TheGrant].funded \in Nat
      BY <1>2, <1>5, <1>13, <2>5, <3>1 DEF Funded, Prefunded
    <3>3. x \in Nat /\ amount * Cardinality(payouts') = x + amount
      BY <1>5, <1>11, <3>1, OneMore
    <3>4. vault'[TheGrant] = ledger'[TheGrant].funded - amount * Cardinality(payouts')
      BY <1>5, <1>7, <1>9, <3>2, <3>3
    <3> QED
      BY <1>2, <1>4, <1>9, <1>13, <2>5, <3>4 DEF Funded, Prefunded
  <2> QED
    BY <1>13, <2>4, <2>5 DEF Funded
<1> QED
  BY <1>4, <1>12, <1>13, Onward DEF Bare

(* Someone adds tokens to the vault.                                       *)
LEMMA TopUpBack ==
  ASSUME BackInv, UNCHANGED <<device, token, event>>, revised' <=> revised,
         NEW w \in Wallets, NEW a \in Amounts,
         fund_grant(TheGrant, w, Mint, a)
  PROVE  BackInv'
<1>1. Accounts /\ a \in Nat
  BY ConstantsAssumption DEF BackInv
<1>2. /\ grant[TheGrant] # None /\ ata[w][Mint] >= a
      /\ ata' = [ata EXCEPT ![w][Mint] = @ - a]
      /\ vault' = [vault EXCEPT ![TheGrant] = @ + a]
      /\ ledger' = [ledger EXCEPT ![TheGrant].funded = @ + a]
      /\ UNCHANGED <<grant, receipts, pop_config, payouts>>
  BY DEF fund_grant
<1>3. /\ vault \in [Grants -> Nat \union {None}] /\ ata \in [Wallets -> [Mints -> Nat]]
      /\ ledger \in [Grants -> [funded : Nat, paid : Nat, refunded : Nat]]
      /\ ledger[TheGrant] \in [funded : Nat, paid : Nat, refunded : Nat]
      /\ vault[TheGrant] \in Nat /\ vault[TheGrant] # None
      /\ grant[TheGrant].amount_per_period \in Nat
  BY <1>1, <1>2, ChainTypes
<1>4. vault[TheGrant] + a \in Nat /\ vault[TheGrant] + a # None
  BY <1>1, <1>3, NoneAssumption
<1>5. vault' \in [Grants -> Nat \union {None}] /\ vault'[TheGrant] = vault[TheGrant] + a
  BY <1>2, <1>3, <1>4, TheGrantFacts
<1>6. /\ ata' \in [Wallets -> [Mints -> Nat]] /\ ata'[w][Mint] = ata[w][Mint] - a
      /\ \A v \in Wallets \ {w} : ata'[v][Mint] = ata[v][Mint]
  <2>1. ata' = [ata EXCEPT ![w] = [ata[w] EXCEPT ![Mint] = ata[w][Mint] - a]]
    BY <1>2
  <2>2. ata[w][Mint] - a \in Nat
    BY <1>1, <1>2, <1>3, TheGrantFacts
  <2> QED
    BY <1>3, <2>1, <2>2, TheGrantFacts
<1>7. /\ ledger' \in [Grants -> [funded : Nat, paid : Nat, refunded : Nat]]
      /\ ledger'[TheGrant].funded = ledger[TheGrant].funded + a
  <2>1. PICK row : row = [ledger[TheGrant] EXCEPT !.funded = ledger[TheGrant].funded + a]
    OBVIOUS
  <2>2. row \in [funded : Nat, paid : Nat, refunded : Nat] /\ row.funded = ledger[TheGrant].funded + a
    <3>1. PICK old : old = ledger[TheGrant]
      OBVIOUS
    <3>2. old \in [funded : Nat, paid : Nat, refunded : Nat] /\ row = [old EXCEPT !.funded = old.funded + a]
      BY <1>3, <2>1, <3>1
    <3>3. old.funded + a \in Nat
      BY <1>1, <3>2
    <3>4. row \in [funded : Nat, paid : Nat, refunded : Nat] /\ row.funded = old.funded + a
      BY <3>2, <3>3
    <3> QED
      BY <3>1, <3>4
  <2>3. ledger' = [ledger EXCEPT ![TheGrant] = row]
    BY <1>2, <2>1
  <2> QED
    BY <1>3, <2>2, <2>3, TheGrantFacts
<1>8. Accounts'
  BY <1>1, <1>2, <1>4, <1>5, <1>6, <1>7 DEF Accounts
<1>9. ASSUME Funded PROVE Funded'
  <2>1. Coins(vault[TheGrant]) = vault[TheGrant] /\ Coins(vault'[TheGrant]) = vault[TheGrant] + a
    BY <1>3, <1>4, <1>5 DEF Coins
  <2>2. ata[w][Mint] \in Nat
    BY <1>3, TheGrantFacts
  <2>3. ata'[w][Mint] + Coins(vault'[TheGrant]) = ata[w][Mint] + Coins(vault[TheGrant])
    BY <1>1, <1>3, <1>6, <2>1, <2>2
  <2>4. Accounted'
    BY <1>1, <1>5, <1>6, <1>9, <2>3, Conserves DEF Funded
  <2>5. ASSUME ~revised PROVE grant'[TheGrant] # None /\ Prefunded'
    <3>1. PICK x, f : x = grant[TheGrant].amount_per_period * Cardinality(payouts) /\ f = ledger[TheGrant].funded
      OBVIOUS
    <3>2. x \in Nat /\ f \in Nat /\ token.supply \in Nat
      <4>1. Cardinality(payouts) \in Nat
        BY <1>1, FS_CardinalityType DEF Accounts
      <4> QED
        BY <1>3, <1>9, <3>1, <4>1 DEF Funded
    <3>3. vault[TheGrant] = f - x /\ f >= token.supply
      BY <1>9, <2>5, <3>1 DEF Funded, Prefunded
    <3>4. vault'[TheGrant] = (f + a) - x /\ f + a >= token.supply /\ ledger'[TheGrant].funded = f + a
      BY <1>1, <1>5, <1>7, <3>1, <3>2, <3>3
    <3> QED
      BY <1>2, <1>9, <2>5, <3>1, <3>4 DEF Funded, Prefunded
  <2> QED
    BY <1>9, <2>4, <2>5 DEF Funded
<1> QED
  BY <1>2, <1>8, <1>9, Onward DEF Bare

(* The account of the grant changes, not its tokens.                       *)
LEMMA ReviseBack ==
  ASSUME BackInv, UNCHANGED <<device, token, event>>, grant[TheGrant] # None,
         NEW account \in GrantAccount, grant' = [grant EXCEPT ![TheGrant] = account],
         UNCHANGED <<vault, ata, receipts, pop_config, ledger, payouts>>,
         revised' = (revised \/ revises)
  PROVE  BackInv'
<1>1. Accounts /\ account # None
  BY NoneAssumption DEF BackInv
<1>2. grant \in [Grants -> GrantAccount \union {None}]
  BY <1>1, ChainTypes
<1>3. grant' \in [Grants -> GrantAccount \union {None}] /\ grant'[TheGrant] = account
  BY <1>2, TheGrantFacts
<1>4. Accounts'
  BY <1>1, <1>3 DEF Accounts
<1>5. ASSUME Funded PROVE Funded'
  <2>1. Accounted'
    BY <1>5 DEF Funded, Accounted
  <2>2. ASSUME ~revised' PROVE grant'[TheGrant] # None /\ Prefunded'
    <3>1. ~revised /\ account.amount_per_period = grant[TheGrant].amount_per_period
      BY <1>3, <2>2 DEF revises
    <3> QED
      BY <1>1, <1>3, <1>5, <3>1 DEF Funded, Prefunded
  <2> QED
    BY <1>5, <2>1, <2>2 DEF Funded
<1> QED
  BY <1>4, <1>5, Onward DEF Bare

LEMMA AdministerBack ==
  ASSUME BackInv, UNCHANGED <<device, token, event>>, Administer(TheGrant),
         ledger[TheGrant].funded = 0 => grant' = grant,
         revised' = (revised \/ revises)
  PROVE  BackInv'
<1>1. Accounts
  BY DEF BackInv
<1>2. ASSUME NEW a \in Amounts, NEW p \in Periods, NEW s \in Starts, NEW e \in Expiries,
             create_grant(TheGrant, a, p, s, e)
      PROVE  BackInv'
  <2>1. PICK account : account = [amount_per_period |-> a, period_seconds |-> p, start_ts |-> s,
                                  expires_at |-> e, merkle_root |-> ZeroHash, paused |-> FALSE]
    OBVIOUS
  <2>2. account \in GrantAccount
    BY <1>2, <2>1, ConstantsAssumption DEF create_grant, GrantAccount
  <2>3. /\ grant[TheGrant] = None /\ vault[TheGrant] = None
        /\ grant' = [grant EXCEPT ![TheGrant] = account] /\ vault' = [vault EXCEPT ![TheGrant] = 0]
        /\ UNCHANGED <<ata, receipts, pop_config, ledger, payouts>>
    BY <1>2, <2>1 DEF create_grant
  <2>4. /\ grant \in [Grants -> GrantAccount \union {None}] /\ vault \in [Grants -> Nat \union {None}]
        /\ ata \in [Wallets -> [Mints -> Nat]]
    BY <1>1, ChainTypes
  <2>5. /\ grant' \in [Grants -> GrantAccount \union {None}] /\ grant'[TheGrant] = account
        /\ vault' \in [Grants -> Nat \union {None}] /\ vault'[TheGrant] = 0
    BY <2>2, <2>3, <2>4, TheGrantFacts
  <2>6. account # None /\ 0 # None
    BY <2>2, NoneAssumption
  <2>7. Accounts'
    BY <1>1, <2>3, <2>5, <2>6 DEF Accounts
  <2>8. ~Bare
    BY <2>3, <2>5, <2>6 DEF Bare
  <2>9. ASSUME Funded PROVE Funded'
    <3>1. revised'
      BY <2>3, <2>9 DEF Funded
    <3>2. Coins(vault[TheGrant]) = 0 /\ Coins(vault'[TheGrant]) = 0
      BY <2>3, <2>5 DEF Coins
    <3>3. Accounted'
      BY <1>1, <2>3, <2>4, <2>5, <2>9, <3>2, TheGrantFacts, Conserves DEF Funded
    <3> QED
      BY <2>9, <3>1, <3>3 DEF Funded
  <2> QED
    BY <2>3, <2>7, <2>8, <2>9, Onward
<1>3. ASSUME NEW a \in Amounts, NEW p \in Periods, NEW e \in Expiries, update_grant(TheGrant, a, p, e)
      PROVE  BackInv'
  <2>1. grant[TheGrant] # None /\ grant[TheGrant] \in GrantAccount
    BY <1>1, <1>3, ChainTypes DEF update_grant
  <2>2. PICK account : account = [grant[TheGrant] EXCEPT !.amount_per_period = a, !.period_seconds = p,
                                                         !.expires_at = e]
    OBVIOUS
  <2>3. account \in GrantAccount
    <3>1. [grant[TheGrant] EXCEPT !.amount_per_period = a] \in GrantAccount
      BY <2>1, ConstantsAssumption DEF GrantAccount
    <3>2. [[grant[TheGrant] EXCEPT !.amount_per_period = a] EXCEPT !.period_seconds = p] \in GrantAccount
      <4>1. p \in Nat \ {0}
        BY <1>3, ConstantsAssumption DEF update_grant
      <4> QED
        BY <3>1, <4>1 DEF GrantAccount
    <3> QED
      BY <2>2, <3>2, ConstantsAssumption DEF GrantAccount
  <2>4. grant' = [grant EXCEPT ![TheGrant] = account] /\ UNCHANGED <<vault, ata, receipts, pop_config, ledger, payouts>>
    BY <1>3, <2>2 DEF update_grant
  <2> QED
    BY <2>1, <2>3, <2>4, ReviseBack
<1>4. ASSUME NEW b \in BOOLEAN, set_paused(TheGrant, b) PROVE BackInv'
  <2>1. grant[TheGrant] # None /\ grant[TheGrant] \in GrantAccount
    BY <1>1, <1>4, ChainTypes DEF set_paused
  <2>2. PICK account : account = [grant[TheGrant] EXCEPT !.paused = b]
    OBVIOUS
  <2>3. account \in GrantAccount
    BY <2>1, <2>2 DEF GrantAccount
  <2>4. grant' = [grant EXCEPT ![TheGrant] = account] /\ UNCHANGED <<vault, ata, receipts, pop_config, ledger, payouts>>
    BY <1>4, <2>2 DEF set_paused
  <2> QED
    BY <2>1, <2>3, <2>4, ReviseBack
<1>5. ASSUME NEW r \in Roots, set_allowlist_root(TheGrant, r) PROVE BackInv'
  <2>1. grant[TheGrant] # None /\ grant[TheGrant] \in GrantAccount
    BY <1>1, <1>5, ChainTypes DEF set_allowlist_root
  <2>2. PICK account : account = [grant[TheGrant] EXCEPT !.merkle_root = r]
    OBVIOUS
  <2>3. account \in GrantAccount
    BY <2>1, <2>2 DEF GrantAccount
  <2>4. grant' = [grant EXCEPT ![TheGrant] = account] /\ UNCHANGED <<vault, ata, receipts, pop_config, ledger, payouts>>
    BY <1>5, <2>2 DEF set_allowlist_root
  <2> QED
    BY <2>1, <2>3, <2>4, ReviseBack
<1>6. ASSUME close_grant(TheGrant) PROVE BackInv'
  <2>1. PICK v : v = vault[TheGrant]
    OBVIOUS
  <2>2. /\ grant[TheGrant] # None /\ v # None
        /\ ata' = [ata EXCEPT ![Organiser][Mint] = @ + v]
        /\ ledger' = [ledger EXCEPT ![TheGrant].refunded = @ + v]
        /\ vault' = [vault EXCEPT ![TheGrant] = None] /\ grant' = [grant EXCEPT ![TheGrant] = None]
        /\ UNCHANGED <<receipts, pop_config, payouts>>
    BY <1>6, <2>1 DEF close_grant, Organiser, Mint
  <2>3. /\ grant \in [Grants -> GrantAccount \union {None}] /\ vault \in [Grants -> Nat \union {None}]
        /\ ata \in [Wallets -> [Mints -> Nat]] /\ v \in Nat
        /\ ledger \in [Grants -> [funded : Nat, paid : Nat, refunded : Nat]]
        /\ ledger[TheGrant] \in [funded : Nat, paid : Nat, refunded : Nat]
    BY <1>1, <2>1, <2>2, ChainTypes
  <2>4. /\ grant' \in [Grants -> GrantAccount \union {None}] /\ grant'[TheGrant] = None
        /\ vault' \in [Grants -> Nat \union {None}] /\ vault'[TheGrant] = None
    BY <2>2, <2>3, TheGrantFacts
  <2>5. /\ ata' \in [Wallets -> [Mints -> Nat]] /\ ata'[Organiser][Mint] = ata[Organiser][Mint] + v
        /\ \A u \in Wallets \ {Organiser} : ata'[u][Mint] = ata[u][Mint]
    <3>1. ata' = [ata EXCEPT ![Organiser] = [ata[Organiser] EXCEPT ![Mint] = ata[Organiser][Mint] + v]]
      BY <2>2
    <3>2. ata[Organiser][Mint] + v \in Nat
      BY <2>3, TheGrantFacts
    <3> QED
      BY <2>3, <3>1, <3>2, TheGrantFacts
  <2>6. ledger' \in [Grants -> [funded : Nat, paid : Nat, refunded : Nat]]
    <3>1. PICK row : row = [ledger[TheGrant] EXCEPT !.refunded = ledger[TheGrant].refunded + v]
      OBVIOUS
    <3>2. row \in [funded : Nat, paid : Nat, refunded : Nat]
      BY <2>3, <3>1
    <3>3. ledger' = [ledger EXCEPT ![TheGrant] = row]
      BY <2>2, <3>1
    <3> QED
      BY <2>3, <3>2, <3>3
  <2>7. Accounts'
    BY <1>1, <2>2, <2>4, <2>5, <2>6 DEF Accounts
  <2>8. ASSUME Funded PROVE Funded'
    <3>1. revised'
      BY <2>2, <2>4 DEF revises
    <3>2. Coins(vault[TheGrant]) = v /\ Coins(vault'[TheGrant]) = 0
      BY <2>1, <2>2, <2>4 DEF Coins
    <3>3. ata'[Organiser][Mint] + Coins(vault'[TheGrant]) = ata[Organiser][Mint] + Coins(vault[TheGrant])
      <4>1. ata[Organiser][Mint] \in Nat
        BY <2>3, TheGrantFacts
      <4> QED
        BY <2>3, <2>5, <3>2, <4>1
    <3>4. Accounted'
      BY <1>1, <2>4, <2>5, <2>8, <3>3, TheGrantFacts, Conserves DEF Funded
    <3> QED
      BY <2>8, <3>1, <3>4 DEF Funded
  <2> QED
    BY <2>2, <2>7, <2>8, Onward DEF Bare
<1> QED
  BY <1>2, <1>3, <1>4, <1>5, <1>6 DEF Administer

LEMMA OnchainBack ==
  ASSUME BackInv, Onchain, Elsewhere PROVE BackInv'
<1>0. Accounts /\ StageOK /\ Stored
  BY DEF BackInv
<1>1. UNCHANGED <<device, token, event>> /\ revised' = (revised \/ revises)
  BY DEF Onchain, Elsewhere, issuer
<1>2. grant' = grant => (revised' <=> revised)
  BY <1>1 DEF revises
<1>3. CASE Tick
  BY <1>1, <1>2, <1>3, ChainUntouched DEF Tick
<1>4. ASSUME NEW w \in Authorities, NEW s \in Signers, upsert_pop_config(w, s) PROVE BackInv'
  <2>1. UNCHANGED <<grant, vault, ata, receipts, ledger, payouts>> /\ pop_config' = [pop_config EXCEPT ![w] = s]
    BY <1>4 DEF upsert_pop_config
  <2>2. DOMAIN pop_config = Authorities
    BY <1>0 DEF Accounts
  <2>3. pop_config[Organiser] # None => pop_config'[Organiser] # None
    BY <2>1, <2>2, TheGrantFacts, IssuerAssumption
  <2>4. Accounts'
    BY <1>0, <2>1, <2>2 DEF Accounts
  <2>5. (Funded' <=> Funded) /\ (Bare' <=> Bare) /\ (IsToken' <=> IsToken)
    <3>1. (Accounted' <=> Accounted) /\ (Prefunded' <=> Prefunded)
      BY <1>1, <2>1 DEF Accounted, Prefunded
    <3> QED
      BY <1>1, <1>2, <2>1, <3>1 DEF Funded, Bare, IsToken
  <2>6. StageOK'
    BY <1>0, <1>1, <2>1, <2>3, <2>5 DEF StageOK
  <2>7. Stored'
    BY <1>0, <1>1, <2>3, <2>5 DEF Stored
  <2> QED
    BY <2>4, <2>6, <2>7 DEF BackInv
<1>5. CASE Administer(TheGrant)
  BY <1>1, <1>5, AdministerBack DEF Elsewhere
<1>6. ASSUME NEW w \in Wallets, NEW a \in Amounts, fund_grant(TheGrant, w, MintOf(TheGrant), a)
      PROVE  BackInv'
  <2>1. fund_grant(TheGrant, w, Mint, a) /\ (revised' <=> revised)
    BY <1>2, <1>6 DEF Mint, fund_grant
  <2> QED
    BY <1>1, <2>1, TopUpBack
<1>7. ASSUME NEW d \in delivered, NEW w \in Wallets, NEW n \in PeriodIndexes,
             \/ claim_grant(TheGrant, w, MintOf(TheGrant), n, d.proof)
             \/ \E proof \in MerkleProofs :
                  claim_grant_with_proof(TheGrant, w, MintOf(TheGrant), n, d.proof, proof)
      PROVE  BackInv'
  <2>1. grant[TheGrant] # None /\ PayClaim(TheGrant, w, Mint, n, d.proof)
    BY <1>7 DEF claim_grant, claim_grant_with_proof, Mint
  <2>2. revised' <=> revised
    BY <1>2, <2>1 DEF PayClaim
  <2> QED
    BY <1>1, <2>1, <2>2, ClaimBack
<1> QED
  BY <1>3, <1>4, <1>5, <1>6, <1>7 DEF Onchain

LEMMA IssuerBack ==
  ASSUME BackInv, Elsewhere PROVE BackInv'
<1>1. CASE Onchain
  BY <1>1, OnchainBack
<1>2. CASE ~Onchain
  <2>1. UNCHANGED vars /\ (event' = "none" <=> event = "none")
    <3>1. ASSUME NEW r, NEW t, NEW w, NEW n, NEW h, request(r, t, w, n, h)
          PROVE  UNCHANGED vars /\ event' = event
      BY <3>1 DEF request
    <3>2. ASSUME NEW r, Steps(r) PROVE UNCHANGED vars /\ event' = event
      BY <3>2 DEF Steps, begin, lookup, anchor, putGlobal, putStream, putHistory, putCacheAndAnswer
    <3>3. CASE (\E t \in Tickets : ticketIssued(t)) \/ Crash
      BY <3>3 DEF ticketIssued, Crash
    <3>4. CASE eventEnded
      BY <3>4 DEF eventEnded, published
    <3> QED
      BY <1>2, <3>1, <3>2, <3>3, <3>4 DEF Elsewhere, IssuerNext
  <2>2. UNCHANGED <<device, token>> /\ (revised' <=> revised)
    BY <2>1 DEF Elsewhere, revises, vars
  <2> QED
    BY <2>1, <2>2, ChainUntouched DEF vars
<1> QED
  BY <1>1, <1>2

(* A stored event is backed by the chain, whatever failed or was lost      *)
(* while it was set up: no token is ever lost and none can be added, and   *)
(* until its authority closes the grant or changes its amount, the vault   *)
(* holds all that was funded, a hundred claims at least, less one amount   *)
(* for each claim (issueEventTicketToken, createEvent, fund_grant,         *)
(* close_grant, claim_grant).                                              *)
THEOREM EventBackedAlways == EventSpec => []EventBacked
<1>1. IssueInv /\ BackInv /\ [EventNext]_<<vars, issuer, setup>> => BackInv'
  <2> SUFFICES ASSUME IssueInv, BackInv, [EventNext]_<<vars, issuer, setup>> PROVE BackInv'
    OBVIOUS
  <2>1. CASE Setup /\ UNCHANGED revised
    BY <2>1, SetupBack
  <2>2. CASE Elsewhere
    BY <2>2, IssuerBack
  <2>3. CASE UNCHANGED <<vars, issuer, setup>>
    BY <2>3, ChainUntouched DEF vars, issuer, setup
  <2> QED
    BY <2>1, <2>2, <2>3 DEF EventNext
<1>2. BackInv => EventBacked
  BY DEF BackInv, Stored, EventBacked, Funded
<1> QED
  BY <1>1, <1>2, InitBack, IssueInvariant, PTL DEF EventSpec
=============================================================================

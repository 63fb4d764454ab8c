---------------------------- MODULE GrantProgram ----------------------------
(***************************************************************************)
(* The Solana program grant_program: grants, their vaults, the receipts    *)
(* that stop a second claim, and the PoP (Proof of Process) state.         *)
(*                                                                         *)
(* A transaction is atomic: a handler whose require! fails leaves no       *)
(* trace, so each instruction is one action and its requires are guards.   *)
(* Accounts found by their PDA seeds are entries of functions indexed by   *)
(* those seeds; an account that does not exist is the value None.          *)
(***************************************************************************)
EXTENDS Integers, FiniteSets, Sequences, Functions

CONSTANTS
  Wallets,          (* every key that can sign: authorities, funders, claimers *)
  Mints,            (* SPL token mints                                         *)
  Grants,           (* grant PDAs, as their seeds <<authority, mint, grant_id>> *)
  Signers,          (* ed25519 public keys usable as PoP signers               *)
  PopInstructions,  (* what the instruction before a claim can be              *)
  Roots,            (* Merkle roots an authority may set, ZeroHash included    *)
  MerkleProofs,     (* proofs a claimer may present                            *)
  Amounts, Periods, Starts, Expiries, PeriodIndexes,  (* instruction arguments *)
  InitialBalance,   (* tokens every wallet holds of every mint at the start    *)
  StartAhead,       (* 365 * 24 * 60 * 60 in the code                          *)
  MaxSkew,          (* POP_MAX_SKEW_SECONDS                                    *)
  MaxTime,          (* bound: the last instant of the model's clock            *)
  MaxFunded,        (* bound: tokens ever funded into one PDA                  *)
  MaxProof,         (* bound: nodes of a Merkle proof                          *)
  ZeroHash,         (* [0u8; 32]                                               *)
  None              (* an account that does not exist                          *)

ASSUME ConstantsAssumption ==
  /\ Grants \subseteq Wallets \X Mints \X Nat
  /\ ZeroHash \in Roots
  /\ Amounts \subseteq Nat /\ Periods \subseteq Int
  /\ Starts \subseteq Int /\ Expiries \subseteq Int /\ PeriodIndexes \subseteq Nat
  /\ InitialBalance \in Nat /\ StartAhead \in Nat
  /\ MaxSkew \in Nat /\ MaxTime \in Nat /\ MaxFunded \in Nat
  /\ \A ix \in PopInstructions :
       /\ ix.message.period_index \in Nat
       /\ ix.message.issued_at \in Int

ASSUME FiniteAssumption == IsFiniteSet(Wallets) /\ IsFiniteSet(Grants)

ASSUME ProofsAssumption ==
  MaxProof \in Nat /\ \A proof \in MerkleProofs : Len(proof) \in 0..MaxProof

VARIABLES
  now,         (* Clock::get()?.unix_timestamp                               *)
  grant,       (* grant PDA -> Grant account                                 *)
  vault,       (* grant PDA -> balance of its vault token account            *)
  ata,         (* wallet, mint -> balance of the wallet's token account      *)
  receipts,    (* the ClaimReceipt accounts that exist                       *)
  pop_state,   (* grant PDA -> PopState account                              *)
  pop_config,  (* authority -> signer_pubkey of its PopConfig account        *)
  ledger,      (* history: tokens funded, paid and refunded per grant PDA    *)
  payouts      (* history: one record per accepted claim                     *)

vars == <<now, grant, vault, ata, receipts, pop_state, pop_config, ledger, payouts>>

Authority(g) == g[1]
MintOf(g)    == g[2]

(* A PopConfig of any other wallet is never read by a claim.               *)
Authorities == {Authority(g) : g \in Grants}

-----------------------------------------------------------------------------
(* Hashes are terms over their inputs, so they are free of collisions.     *)

POP_MESSAGE_VERSION_V1 == 1
POP_MESSAGE_VERSION_V2 == 2

pop_entry_hash(m) ==
  IF m.version = POP_MESSAGE_VERSION_V2
    THEN <<"we-ne:pop:v2", m.prev_hash, m.stream_prev_hash, m.audit_hash,
           m.grant, m.claimer, m.period_index, m.issued_at>>
    ELSE <<"we-ne:pop:v1", m.prev_hash, m.stream_prev_hash,
           m.grant, m.claimer, m.period_index, m.issued_at>>

allowlist_leaf(claimer) == <<"leaf", {claimer}>>

(* sha256(min(a,b) || max(a,b)) depends on the unordered pair only.        *)
HashPair(a, b) == <<"node", {a, b}>>

verify_merkle_sorted(root, leaf, proof) ==
  LET computed[i \in 0..Len(proof)] ==
        IF i = 0 THEN leaf ELSE HashPair(computed[i - 1], proof[i])
  IN computed[Len(proof)] = root

-----------------------------------------------------------------------------
Init ==
  /\ now = 0
  /\ grant = [g \in Grants |-> None]
  /\ vault = [g \in Grants |-> None]
  /\ ata = [w \in Wallets |-> [m \in Mints |-> InitialBalance]]
  /\ receipts = {}
  /\ pop_state = [g \in Grants |-> None]
  /\ pop_config = [w \in Authorities |-> None]
  /\ ledger = [g \in Grants |-> [funded |-> 0, paid |-> 0, refunded |-> 0]]
  /\ payouts = {}

(* init of the grant and vault PDAs fails when either account exists.      *)
create_grant(g, amount_per_period, period_seconds, start_ts, expires_at) ==
  /\ grant[g] = None /\ vault[g] = None
  /\ amount_per_period > 0
  /\ period_seconds > 0
  /\ start_ts <= now + StartAhead
  /\ grant' = [grant EXCEPT ![g] =
                 [amount_per_period |-> amount_per_period,
                  period_seconds    |-> period_seconds,
                  start_ts          |-> start_ts,
                  expires_at        |-> expires_at,
                  merkle_root       |-> ZeroHash,
                  paused            |-> FALSE]]
  /\ vault' = [vault EXCEPT ![g] = 0]
  /\ UNCHANGED <<now, ata, receipts, pop_state, pop_config, ledger, payouts>>

(* has_one = authority: only the grant's authority signs the next four.    *)
update_grant(g, amount_per_period, period_seconds, expires_at) ==
  /\ grant[g] # None
  /\ amount_per_period > 0
  /\ period_seconds > 0
  /\ grant' = [grant EXCEPT ![g] = [@ EXCEPT !.amount_per_period = amount_per_period,
                                             !.period_seconds = period_seconds,
                                             !.expires_at = expires_at]]
  /\ UNCHANGED <<now, vault, ata, receipts, pop_state, pop_config, ledger, payouts>>

set_paused(g, paused) ==
  /\ grant[g] # None
  /\ grant' = [grant EXCEPT ![g] = [@ EXCEPT !.paused = paused]]
  /\ UNCHANGED <<now, vault, ata, receipts, pop_state, pop_config, ledger, payouts>>

set_allowlist_root(g, merkle_root) ==
  /\ grant[g] # None
  /\ grant' = [grant EXCEPT ![g] = [@ EXCEPT !.merkle_root = merkle_root]]
  /\ UNCHANGED <<now, vault, ata, receipts, pop_state, pop_config, ledger, payouts>>

upsert_pop_config(authority, signer_pubkey) ==
  /\ pop_config' = [pop_config EXCEPT ![authority] = signer_pubkey]
  /\ UNCHANGED <<now, grant, vault, ata, receipts, pop_state, ledger, payouts>>

(* Mutant: fund_grant without the two MintMismatch requires.               *)
FundAnyMint(g, funder, mint, amount) ==
  /\ grant[g] # None /\ vault[g] # None
  /\ amount > 0
  /\ ata[funder][mint] >= amount
  /\ ledger[g].funded + amount <= MaxFunded
  /\ ata' = [ata EXCEPT ![funder][mint] = @ - amount]
  /\ vault' = [vault EXCEPT ![g] = @ + amount]
  /\ ledger' = [ledger EXCEPT ![g].funded = @ + amount]
  /\ UNCHANGED <<now, grant, receipts, pop_state, pop_config, payouts>>

(* Anyone holding the grant's mint may fund it.                            *)
fund_grant(g, funder, mint, amount) ==
  /\ grant[g] # None /\ vault[g] # None
  /\ amount > 0
  /\ mint = MintOf(g)
  /\ ata[funder][mint] >= amount
  /\ ledger[g].funded + amount <= MaxFunded
  /\ ata' = [ata EXCEPT ![funder][mint] = @ - amount]
  /\ vault' = [vault EXCEPT ![g] = @ + amount]
  /\ ledger' = [ledger EXCEPT ![g].funded = @ + amount]
  /\ UNCHANGED <<now, grant, receipts, pop_state, pop_config, payouts>>

(* Mutant: close_grant that refunds and closes the grant, not the vault.   *)
CloseGrantOnly(g) ==
  /\ grant[g] # None /\ vault[g] # None
  /\ ata' = [ata EXCEPT ![Authority(g)][MintOf(g)] = @ + vault[g]]
  /\ ledger' = [ledger EXCEPT ![g].refunded = @ + vault[g]]
  /\ vault' = [vault EXCEPT ![g] = 0]
  /\ grant' = [grant EXCEPT ![g] = None]
  /\ UNCHANGED <<now, receipts, pop_state, pop_config, payouts>>

(* Refund the vault to the authority, then close vault and grant. The      *)
(* receipts and the PopState of the PDA stay behind.                       *)
close_grant(g) ==
  /\ grant[g] # None /\ vault[g] # None
  /\ ata' = [ata EXCEPT ![Authority(g)][MintOf(g)] = @ + vault[g]]
  /\ ledger' = [ledger EXCEPT ![g].refunded = @ + vault[g]]
  /\ vault' = [vault EXCEPT ![g] = None]
  /\ grant' = [grant EXCEPT ![g] = None]
  /\ UNCHANGED <<now, receipts, pop_state, pop_config, payouts>>

-----------------------------------------------------------------------------
(* Claims.                                                                 *)

absolute_i64_diff(a, b) == IF a >= b THEN a - b ELSE b - a

(* Mutant: any period already begun may be claimed, not the current only.  *)
AnyBegunPeriod(account, period_index) ==
  /\ account.expires_at # 0 => now <= account.expires_at
  /\ now >= account.start_ts
  /\ period_index <= (now - account.start_ts) \div account.period_seconds

require_claim_timing(account, period_index) ==
  /\ account.expires_at # 0 => now <= account.expires_at
  /\ now >= account.start_ts
  /\ period_index = (now - account.start_ts) \div account.period_seconds

(* The instruction before the claim must be the native ed25519 one over an *)
(* inline message; the runtime has verified its signature.                 *)
extract_ed25519_signer_and_message(ix) ==
  ix.program_id = "ed25519" /\ ix.inline

parse_pop_message(m) == m.version \in {POP_MESSAGE_VERSION_V1, POP_MESSAGE_VERSION_V2}

(* Mutant: the PopProofGrantMismatch require is missing.                   *)
ProofOfAnyGrant(g, claimer, period_index, ix) ==
  LET m == ix.message IN
  /\ pop_config[Authority(g)] # None
  /\ extract_ed25519_signer_and_message(ix)
  /\ ix.signer = pop_config[Authority(g)]
  /\ parse_pop_message(m)
  /\ m.version = POP_MESSAGE_VERSION_V2
  /\ m.claimer = claimer
  /\ m.period_index = period_index
  /\ m.audit_hash # ZeroHash
  /\ m.entry_hash = pop_entry_hash(m)
  /\ absolute_i64_diff(now, m.issued_at) <= MaxSkew

verify_pop_proof(g, claimer, period_index, ix) ==
  LET m == ix.message IN
  /\ pop_config[Authority(g)] # None
  /\ extract_ed25519_signer_and_message(ix)
  /\ ix.signer = pop_config[Authority(g)]
  /\ parse_pop_message(m)
  /\ m.version = POP_MESSAGE_VERSION_V2
  /\ m.grant = g
  /\ m.claimer = claimer
  /\ m.period_index = period_index
  /\ m.audit_hash # ZeroHash
  /\ m.entry_hash = pop_entry_hash(m)
  /\ absolute_i64_diff(now, m.issued_at) <= MaxSkew

(* Mutant: the head follows the order of arrival.                          *)
AlwaysAdvance(old, m) == TRUE

(* The head only ever moves to a proof issued no earlier.                  *)
should_advance_head(old, m) == old = None \/ m.issued_at >= old.last_issued_at

record_pop_proof(old, m) ==
  IF should_advance_head(old, m)
    THEN [last_hash |-> m.entry_hash, last_period_index |-> m.period_index,
          last_issued_at |-> m.issued_at]
    ELSE old

(* Mutant: init_if_needed instead of init.                                 *)
ReceiptReusable(g, claimer, period_index) == TRUE

(* init of the receipt PDA.                                                *)
ReceiptUnused(g, claimer, period_index) ==
  ~ \E r \in receipts : r.grant = g /\ r.claimer = claimer /\ r.period_index = period_index

(* transfer_from_vault: the balance check of the program, and the mint     *)
(* check of SPL Token's transfer_checked.                                  *)
transfer_from_vault(g, mint, claimer, amount) ==
  /\ vault[g] >= amount
  /\ mint = MintOf(g)
  /\ vault' = [vault EXCEPT ![g] = @ - amount]
  /\ ata' = [ata EXCEPT ![claimer][mint] = @ + amount]

PayClaim(g, claimer, mint, period_index, ix) ==
  LET amount == grant[g].amount_per_period
      receipt == [grant |-> g, claimer |-> claimer, period_index |-> period_index,
                  claimed_at |-> now]
  IN
  /\ ~grant[g].paused
  /\ ReceiptUnused(g, claimer, period_index)
  /\ verify_pop_proof(g, claimer, period_index, ix)
  /\ pop_state' = [pop_state EXCEPT ![g] = record_pop_proof(@, ix.message)]
  /\ require_claim_timing(grant[g], period_index)
  /\ transfer_from_vault(g, mint, claimer, amount)
  /\ receipts' = receipts \union {receipt}
  /\ ledger' = [ledger EXCEPT ![g].paid = @ + amount]
  /\ payouts' = payouts \union
       {[grant |-> g, claimer |-> claimer, period_index |-> period_index, at |-> now,
         start_ts |-> grant[g].start_ts, period_seconds |-> grant[g].period_seconds,
         root |-> grant[g].merkle_root,
         entry_hash |-> ix.message.entry_hash, issued_at |-> ix.message.issued_at]}
  /\ UNCHANGED <<now, grant, pop_config>>

(* Mutant: no AllowlistRequired require.                                   *)
ClaimIgnoringRoot(g, claimer, mint, period_index, ix) ==
  /\ grant[g] # None
  /\ PayClaim(g, claimer, mint, period_index, ix)

claim_grant(g, claimer, mint, period_index, ix) ==
  /\ grant[g] # None
  /\ grant[g].merkle_root = ZeroHash
  /\ PayClaim(g, claimer, mint, period_index, ix)

claim_grant_with_proof(g, claimer, mint, period_index, ix, proof) ==
  /\ grant[g] # None
  /\ grant[g].merkle_root # ZeroHash
  /\ verify_merkle_sorted(grant[g].merkle_root, allowlist_leaf(claimer), proof)
  /\ PayClaim(g, claimer, mint, period_index, ix)

(* The cluster's clock advances.                                           *)
Tick ==
  /\ now < MaxTime
  /\ now' = now + 1
  /\ UNCHANGED <<grant, vault, ata, receipts, pop_state, pop_config, ledger, payouts>>

-----------------------------------------------------------------------------
Administer(g) ==
  \/ \E a \in Amounts, p \in Periods, s \in Starts, e \in Expiries :
        create_grant(g, a, p, s, e)
  \/ \E a \in Amounts, p \in Periods, e \in Expiries : update_grant(g, a, p, e)
  \/ \E b \in BOOLEAN : set_paused(g, b)
  \/ \E r \in Roots : set_allowlist_root(g, r)
  \/ close_grant(g)

Use(g) ==
  \/ \E w \in Wallets, m \in Mints, a \in Amounts : fund_grant(g, w, m, a)
  \/ \E w \in Wallets, m \in Mints, n \in PeriodIndexes, ix \in PopInstructions :
        \/ claim_grant(g, w, m, n, ix)
        \/ \E proof \in MerkleProofs : claim_grant_with_proof(g, w, m, n, ix, proof)

Next ==
  \/ \E g \in Grants : Administer(g) \/ Use(g)
  \/ \E w \in Authorities, s \in Signers : upsert_pop_config(w, s)
  \/ Tick

Spec == Init /\ [][Next]_vars

-----------------------------------------------------------------------------
(* Properties.                                                             *)

GrantAccount ==
  [amount_per_period : Nat, period_seconds : Nat \ {0}, start_ts : Int, expires_at : Int,
   merkle_root : Roots, paused : BOOLEAN]

EntryHashes == {ix.message.entry_hash : ix \in PopInstructions}

PopStateAccount ==
  [last_hash : EntryHashes, last_period_index : Nat, last_issued_at : Int]

ClaimReceipt ==
  [grant : Grants, claimer : Wallets, period_index : Nat, claimed_at : Int]

Payout ==
  [grant : Grants, claimer : Wallets, period_index : Nat, at : Int, start_ts : Int,
   period_seconds : Nat \ {0}, root : Roots, entry_hash : EntryHashes, issued_at : Int]

ASSUME NoneAssumption == None \notin Nat \union GrantAccount \union PopStateAccount

(* Every account holds what its Rust type admits: amounts and periods are  *)
(* positive, balances never negative, receipts and payouts name existing   *)
(* PDAs and wallets.                                                       *)
TypeOK ==
  /\ now \in Int
  /\ grant \in [Grants -> GrantAccount \union {None}]
  /\ vault \in [Grants -> Nat \union {None}]
  /\ ata \in [Wallets -> [Mints -> Nat]]
  /\ receipts \subseteq ClaimReceipt
  /\ pop_state \in [Grants -> PopStateAccount \union {None}]
  /\ pop_config \in [Authorities -> Signers \union {None}]
  /\ ledger \in [Grants -> [funded : Nat, paid : Nat, refunded : Nat]]
  /\ payouts \subseteq Payout

(* A vault exists exactly as long as its grant, is never overdrawn, and    *)
(* holds what was funded into the PDA minus what claims paid and closes    *)
(* refunded, over every incarnation of the grant (fund_grant, claim_grant, *)
(* close_grant).                                                           *)
VaultAccounting ==
  \A g \in Grants :
    /\ (vault[g] = None) <=> (grant[g] = None)
    /\ vault[g] # None => vault[g] >= 0
    /\ ledger[g].funded = ledger[g].paid + ledger[g].refunded
                            + (IF vault[g] = None THEN 0 ELSE vault[g])

(* No instruction creates or destroys tokens of any mint, whichever mint   *)
(* account the transaction passes.                                         *)
TokenConservation ==
  \A m \in Mints :
    SumFunction([w \in Wallets |-> ata[w][m]])
      + SumFunction([g \in {h \in Grants : MintOf(h) = m /\ vault[h] # None} |-> vault[g]])
      = Cardinality(Wallets) * InitialBalance

SamePda(p, q) == p.grant = q.grant /\ p.claimer = q.claimer /\ p.period_index = q.period_index

(* The init of the receipt PDA is the only double-claim guard (lib.rs:42): *)
(* a PDA, claimer and period index are paid at most once, even when the    *)
(* grant was closed and created again in between.                          *)
PaidOncePerReceipt ==
  /\ \A p, q \in payouts : SamePda(p, q) => p = q
  /\ \A p \in payouts : \E r \in receipts : SamePda(p, r) /\ r.claimed_at = p.at

(* As long as start_ts and period_seconds stay the same, no claimer is     *)
(* paid twice in one period of the schedule (require_claim_timing and the  *)
(* receipt together).                                                      *)
OncePerScheduledPeriod ==
  \A p, q \in payouts :
    /\ p.grant = q.grant /\ p.claimer = q.claimer
    /\ p.start_ts = q.start_ts /\ p.period_seconds = q.period_seconds
    /\ (p.at - p.start_ts) \div p.period_seconds = (q.at - q.start_ts) \div q.period_seconds
    => p = q

(* The PopState head is an accepted proof for that PDA and none accepted   *)
(* was issued later, although proofs may arrive in any order               *)
(* (verify_and_record_pop_proof).                                          *)
HeadIsNewest ==
  \A g \in Grants :
    LET accepted == {p \in payouts : p.grant = g} IN
    IF pop_state[g] = None
      THEN accepted = {}
      ELSE /\ \E p \in accepted : /\ p.entry_hash = pop_state[g].last_hash
                                  /\ p.issued_at = pop_state[g].last_issued_at
           /\ \A p \in accepted : p.issued_at <= pop_state[g].last_issued_at

(* One signed proof pays at most once: replaying it, for another grant,    *)
(* another claimer, or after a close and a new create, never pays again.   *)
ProofSingleUse ==
  \A p, q \in payouts : p.entry_hash = q.entry_hash => p = q

(* The wallets whose leaf lies in the tree, found from the root downwards: *)
(* the reference the Merkle walk, which goes upwards, is compared with.    *)
Children(t) == IF t[1] = "node" THEN t[2] ELSE {}

Members(root) ==
  LET level[n \in 0..MaxProof] ==
        IF n = 0 THEN {root} ELSE UNION {Children(t) : t \in level[n - 1]}
  IN {w \in Wallets : \E n \in 0..MaxProof : allowlist_leaf(w) \in level[n]}

(* While an allowlist root was set, only its members were paid, whatever   *)
(* proof they presented (verify_merkle_sorted, claim_grant refusing).      *)
AllowlistRespected ==
  \A p \in payouts : p.root # ZeroHash => p.claimer \in Members(p.root)
=============================================================================

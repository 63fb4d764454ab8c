---------------------------- MODULE TicketIssue ----------------------------
(***************************************************************************)
(* How an event comes to be: the organiser's device sets up its ticket     *)
(* token and grant in up to five transactions (issueEventTicketToken) and  *)
(* then posts the event to the worker (AdminCreateEventScreen), whose      *)
(* issuer and whose claimers are those of PopIssuer.                       *)
(*                                                                         *)
(* Any transaction may fail, or land although the device gives up on it,   *)
(* and the post may be refused or its answer lost. One setup is modelled:  *)
(* a retry makes a new mint and a new grant id, so all it finds of earlier *)
(* ones is the PopConfig, which here anyone who holds the authority's key  *)
(* may replace at any time.                                                *)
(***************************************************************************)
EXTENDS PopIssuer, FiniteSetsExt

CONSTANTS
  Forms,          (* ticketTokenAmount, claimIntervalDays, maxClaimsPerInterval *)
  EnvSigners,     (* EXPO_PUBLIC_POP_SIGNER_PUBKEY of a build, None if not set  *)
  TicksPerDay,    (* the model's ticks in 24 * 60 * 60 seconds                  *)
  StartBehind,    (* 120 seconds in the code                                    *)
  MAX_U64

ASSUME SetupAssumption ==
  /\ Forms \subseteq [ticketTokenAmount : Nat, claimIntervalDays : Nat,
                      maxClaimsPerInterval : Nat \union {None}]
  /\ EnvSigners \subseteq Signers \union {None}
  /\ TicksPerDay \in Nat \ {0} /\ StartBehind \in Nat /\ MAX_U64 \in Nat
  /\ Grants # {} /\ InitialBalance = 0  (* the mint is new *)

VARIABLES
  device,  (* the screen: where it is, the readiness it saw, the form, the signer *)
  token,   (* the SPL mint of this setup                                          *)
  revised  (* history: the authority closed the grant or changed its amount       *)

setup == <<device, token, revised>>

Organiser == Authority(TheGrant)
Mint      == MintOf(TheGrant)

Over == [pc |-> "over"]

EventInit ==
  /\ Init
  /\ IssuerInit
  /\ device = [pc |-> "form", ready |-> FALSE]
  /\ token = None /\ revised = FALSE

-----------------------------------------------------------------------------
(* What the setup mints, all of it for the vault; the plan must fit u64.   *)

MIN_PREFUND_MULTIPLIER == 100

computeBootstrapAmount(amountPerPeriod, maxClaimsPerInterval) ==
  LET base == IF maxClaimsPerInterval = None
                THEN amountPerPeriod * 100 * 30
                ELSE amountPerPeriod * Max({1, maxClaimsPerInterval}) * 60
  IN Max({base, amountPerPeriod * MIN_PREFUND_MULTIPLIER})

toPositiveU64(value) == value \in 1..MAX_U64

computeIssueMintPlan(form) ==
  LET bootstrap == computeBootstrapAmount(form.ticketTokenAmount, form.maxClaimsPerInterval)
  IN [bootstrap |-> bootstrap, initialMint |-> bootstrap]

canSubmit(form) ==
  /\ form.ticketTokenAmount > 0 /\ form.claimIntervalDays > 0
  /\ form.maxClaimsPerInterval # None => form.maxClaimsPerInterval > 0

-----------------------------------------------------------------------------
on(pc) == device.pc = pc
goTo(pc) == device' = [device EXCEPT !.pc = pc]
leave == device' = Over

(* A transaction that landed: confirmed, or the device gave up on it.      *)
landed(pc) == goTo(pc) \/ leave

(* GET /v1/school/runtime-status: ready unless proofs are enforced and     *)
(* there is no signer, or something else blocks.                           *)
getRuntimeStatus(enforced, blocked) ==
  [ready |-> ~blocked /\ (enforced => mode # "none"),
   popSignerPubkey |-> IF mode = "none" THEN None ELSE getPopSigner(now).signer]

(* A call that reaches the worker caches the signer there.                 *)
reached == signerCache' = IF mode = "none" THEN signerCache ELSE getPopSigner(now)

(* The screen asks when it is opened and on request; a failure is "no".    *)
refreshRuntimeStatus ==
  /\ on("form")
  /\ \/ \E enforced, blocked \in BOOLEAN :
          /\ device' = [device EXCEPT !.ready = getRuntimeStatus(enforced, blocked).ready]
          /\ reached
     \/ /\ device' = [device EXCEPT !.ready = FALSE]
        /\ reached \/ UNCHANGED signerCache
  /\ UNCHANGED <<vars, mode, event, verified, lock, call, store, anchors, delivered, crashes, token>>

(* The organiser submits the form; a plan beyond u64 throws.               *)
handleCreate(form) ==
  /\ on("form") /\ device.ready
  /\ canSubmit(form)
  /\ IF /\ toPositiveU64(form.ticketTokenAmount)
        /\ toPositiveU64(computeIssueMintPlan(form).bootstrap)
        /\ toPositiveU64(form.claimIntervalDays * TicksPerDay)
       THEN device' = [pc |-> "signer", form |-> form, signer |-> None]
       ELSE leave
  /\ UNCHANGED <<vars, issuer, token>>

(* The signer of the worker, or the build's when the worker has none or    *)
(* does not answer.                                                        *)
resolvePopSignerPubkey ==
  /\ on("signer")
  /\ \E runtime \in {None, getRuntimeStatus(TRUE, FALSE).popSignerPubkey}, env \in EnvSigners :
       LET raw == IF runtime # None THEN runtime ELSE env
       IN /\ IF raw = None THEN leave
             ELSE device' = [device EXCEPT !.pc = "config", !.signer = raw]
          /\ reached \/ (runtime = None /\ UNCHANGED signerCache)
  /\ UNCHANGED <<vars, mode, event, verified, lock, call, store, anchors, delivered, crashes, token>>

isPopConfigStateReady == pop_config[Organiser] = device.signer

(* tx0 is skipped when it is switched off or nothing is to be done.        *)
readPopConfig ==
  /\ on("config")
  /\ \/ goTo("verify")
     \/ ~isPopConfigStateReady /\ goTo("tx0")
  /\ UNCHANGED <<vars, issuer, token>>

(* tx0. After a failure the account is read again: it decides. That the    *)
(* deployed program lacks the instruction is left out: this one has it.    *)
upsertPopConfig ==
  /\ on("tx0")
  /\ \/ upsert_pop_config(Organiser, device.signer) /\ landed("verify")
     \/ UNCHANGED vars /\ (IF isPopConfigStateReady THEN goTo("verify") ELSE leave)
  /\ UNCHANGED <<issuer, token>>

(* Mutant: a PopConfig that is not ready is not noticed.                   *)
VerifyNothing ==
  /\ on("verify")
  /\ goTo("tx1")
  /\ UNCHANGED <<vars, issuer, token>>

ensurePopConfigReadyOrThrow ==
  /\ on("verify")
  /\ IF isPopConfigStateReady THEN goTo("tx1") ELSE leave
  /\ UNCHANGED <<vars, issuer, token>>

(* tx1: the mint, the organiser's account and the whole supply in it.      *)
mintSupply ==
  LET supply == computeIssueMintPlan(device.form).initialMint IN
  /\ on("tx1")
  /\ \/ /\ token' = [authority |-> Organiser, supply |-> supply, metadata |-> FALSE]
        /\ ata' = [ata EXCEPT ![Organiser][Mint] = @ + supply]
        /\ landed("tx2")
     \/ UNCHANGED <<token, ata>> /\ leave
  /\ UNCHANGED <<now, grant, vault, receipts, pop_state, pop_config, ledger, payouts, issuer>>

(* tx2: create_grant and fund_grant of GrantProgram in one transaction.    *)
createAndFundGrant ==
  LET amount == computeIssueMintPlan(device.form).bootstrap IN
  /\ on("tx2")
  /\ \/ /\ grant[TheGrant] = None /\ ata[Organiser][Mint] >= amount
        /\ grant' = [grant EXCEPT ![TheGrant] =
             [amount_per_period |-> device.form.ticketTokenAmount,
              period_seconds    |-> device.form.claimIntervalDays * TicksPerDay,
              start_ts          |-> Max({0, now - StartBehind}),
              expires_at        |-> 0,
              merkle_root       |-> ZeroHash,
              paused            |-> FALSE]]
        /\ vault' = [vault EXCEPT ![TheGrant] = amount]
        /\ ata' = [ata EXCEPT ![Organiser][Mint] = @ - amount]
        /\ ledger' = [ledger EXCEPT ![TheGrant].funded = @ + amount]
        /\ landed("tx3")
     \/ UNCHANGED <<grant, vault, ata, ledger>> /\ leave
  /\ UNCHANGED <<now, receipts, pop_state, pop_config, payouts, issuer, token>>

(* tx3: only the mint authority can add the metadata.                      *)
createMetadata ==
  /\ on("tx3")
  /\ \/ /\ token.authority = Organiser
        /\ token' = [token EXCEPT !.metadata = TRUE]
        /\ landed("tx4")
     \/ UNCHANGED token /\ leave
  /\ UNCHANGED <<vars, issuer>>

(* tx4: mint and freeze authority are given up for good.                   *)
revokeAuthorities ==
  /\ on("tx4")
  /\ \/ /\ token.authority = Organiser
        /\ token' = [token EXCEPT !.authority = None]
        /\ landed("post")
     \/ UNCHANGED token /\ leave
  /\ UNCHANGED <<vars, issuer>>

(* POST /v1/school/events: stored, answered or not, or refused (warning,   *)
(* freeze, limit, no connection). AdminConsole has the worker's side.      *)
createAdminEvent ==
  /\ on("post")
  /\ event' \in {event, "published"}
  /\ leave
  /\ UNCHANGED <<vars, mode, verified, memory, store, anchors, delivered, crashes, token>>

Setup ==
  \/ refreshRuntimeStatus
  \/ \E form \in Forms : handleCreate(form)
  \/ resolvePopSignerPubkey \/ readPopConfig \/ upsertPopConfig \/ ensurePopConfigReadyOrThrow
  \/ mintSupply \/ createAndFundGrant \/ createMetadata \/ revokeAuthorities
  \/ createAdminEvent

(* The authority's key is not only in this device: update_grant with       *)
(* another amount, or close_grant.                                         *)
revises ==
  /\ grant[TheGrant] # None
  /\ \/ grant'[TheGrant] = None
     \/ grant'[TheGrant].amount_per_period # grant[TheGrant].amount_per_period

(* The mint's key and the grant's id are the device's alone until tx2      *)
(* lands: nobody else creates this grant before.                           *)
Elsewhere ==
  /\ IssuerNext
  /\ ledger[TheGrant].funded = 0 => grant' = grant
  /\ revised' = (revised \/ revises)
  /\ UNCHANGED <<device, token>>

EventNext == (Setup /\ UNCHANGED revised) \/ Elsewhere

EventSpec == EventInit /\ [][EventNext]_<<vars, issuer, setup>>

-----------------------------------------------------------------------------
(* Every token that was ever minted is in the vault or with a wallet.      *)
Accounted ==
  SumFunction([w \in Wallets |-> ata[w][Mint]])
    + (IF vault[TheGrant] = None THEN 0 ELSE vault[TheGrant]) = token.supply

(* All of them went into the vault, enough for a hundred claims, and what  *)
(* is not there any more was paid out, one amount for each claim.          *)
Prefunded ==
  LET amount == grant[TheGrant].amount_per_period
      funded == ledger[TheGrant].funded
  IN
  /\ funded >= token.supply /\ token.supply >= MIN_PREFUND_MULTIPLIER * amount
  /\ vault[TheGrant] = funded - amount * Cardinality(payouts)

(* An event the worker stores is backed by the chain, whatever failed or   *)
(* was lost on the way: nobody can mint more of its token, none is lost,   *)
(* and the authority has a PopConfig, without which no claim is accepted.  *)
(* As long as the authority itself neither closes the grant nor changes    *)
(* its amount (close_grant takes back the whole vault), the grant exists,  *)
(* and its tokens went into the vault and leave it only by a claim         *)
(* (issueEventTicketToken, fund_grant, transfer_from_vault).               *)
EventBacked ==
  event # "none" =>
    /\ pop_config[Organiser] # None
    /\ token.authority = None /\ token.metadata /\ Accounted
    /\ ~revised => grant[TheGrant] # None /\ Prefunded
=============================================================================

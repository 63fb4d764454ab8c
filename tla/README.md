# Verification of instant-grant-core

TLA+ models of the grant program on Solana, of the API worker that feeds it, of
the recipient's device and of the governance routes of the development server;
the TLC configurations that check them, and TLAPS proofs about them. Paths are
relative to the repository root (`src/` here); line numbers are those of the
commit the models were written from. `PROJECT.json` lists the runs, the map
from definitions to source lines, the mutants, the hazards and the theorems.

## 1. The system

A school (or another issuer) opens an event; participants claim a ticket off
chain and may then claim tokens on chain with a proof that the off-chain
process took place.

| part | state | operations | interacts with | module |
|---|---|---|---|---|
| `grant_program` (Anchor, `lib.rs`) | per grant PDA: parameters, vault, PopState; receipts per claimer and period; PopConfig per authority | create, update, fund, claim (plain / Merkle), close, pause, set root, set PoP signer | SPL Token, the ed25519 instruction before the claim | `GrantProgram` |
| audit log (`appendAuditLog`, `audit/immutable.ts`) | global and stream heads, history rows, by-hash index, copies in R2, KV, webhook | append, integrity report | every other handler of the store | `AuditLog`, `AuditIntegrity` |
| claims (claim handlers, `claimLogic.ts`) | claim per event and subject with its pending code, code index, ticket receipts | claim, confirm with a transaction, close event | audit log, cost-of-forgery service | `ClaimFlow` |
| search and disclosures | index in SQL and in memory | search, transfer logs | claims, audit history, admin codes | `MasterSearch` |
| PoP issuer (`issuePopClaimProof`, `getPopSigner`) | PoP heads and history per grant, proof cache, derived signer of the rotation window | issue or reuse a proof | ticket receipts, audit log, the program | `PopIssuer` |
| event setup (`AdminCreateEventScreen`, `issueEventTicketToken`) | the readiness last seen, the running setup; on chain the new mint, grant, vault and the PopConfig | check readiness, set up in up to five transactions, post the event | runtime status and event creation of the worker, the program, SPL Token | `TicketIssue` |
| admin codes, security, events | codes, invite proposals, warnings, freezes, revocations, reports, moderation, events and owners, issue limits | invite, approve, reject, revoke; create and close an event; nine sanctions | issue limits, claims | `AdminConsole` |
| registration, cost of forgery | users, id index, id hash chain; wallet decision cache, remediation requests, overrides | register, claim check, remediate, approve, reject | external risk service | `Enrollment` |
| rate limit, random anchor | bucket per client and per policy; the anchored window | every request; cron trigger | audit log | `RequestGate` |
| `wene-mobile` client | ticket list in memory and in AsyncStorage, pending signature; on the web the return path and two sync contexts | claim, sign, send, record, sync, change account | worker, wallet, chain | `ClaimClient` |
| `wene-mobile/server` (development server) | operator community, proposals, sanctions, reports, events | nine sanctions by unanimous proposal, create and close an event | | `Governance` |

What is hard in it: all requests share one Durable Object, so handlers
interleave wherever they wait for something outside it, and the object can be
lost between two storage writes; the audit log must stay one chain under that;
a claim consists of five writes and an append that may throw; proofs reach the
chain late, out of order or again, around a rotation of their signer; an event
is set up in six steps, on a device that may miss the outcome of any of them; grants
are updated, closed and created again under existing receipts; operators
sanction those who vote with them; the device waits for a wallet in another
app, with one slot for all its screens.

## 2. Modules

A module `M` that TLC runs has an `MCM` with its instances; eight modules
`MProofs` hold the theorems: `TicketIssueProofs` (for `GrantProgram`,
`PopIssuer` and `TicketIssue`), `AuditLogProofs` (`AuditLog`,
`AuditIntegrity`), `ClaimFlowProofs` (`ClaimFlow`, `MasterSearch`),
`AdminConsoleProofs`, `EnrollmentProofs`, `RequestGateProofs`,
`ClaimClientProofs` and `GovernanceProofs`. Compositions: `PopIssuer` extends
`GrantProgram` (the issuer and the program that accepts its proofs share a
clock and the PopConfig), `TicketIssue` extends `PopIssuer` (the device that
sets up the grant and creates the event the issuer serves) and has the
specification of the three, `MasterSearch` extends `ClaimFlow` (searches run
between the steps of claims), `AuditIntegrity` extends `AuditLog`.
`AppendOnlyLog` is the abstract specification `AuditLog` implements.

### The execution model of the worker

The Durable Object's input gate delivers no other event while a request waits
for storage. A request loses control only where it waits for something else:
its own body (`request.json()`), the cost-of-forgery service, the immutable
sinks behind `appendAuditLog`, or a promise chain used as a lock. These are the
steps of the worker modules. One assumption about the runtime goes into them:
that it computes a digest of the Web Crypto API before it returns the promise,
so that awaiting one delivers no other event. It matters where a digest falls
between a read and its use: `createEvent` reads the security state, appends to
the admin security log, which hashes the entry, and then acts on what it read
(`storeDO.ts:8055`, `:8072`). Storage puts that are awaited one after the other can be
separated by the loss of the object, so every put that another step depends on
is a point where `Crash` can strike: as separate actions (`AuditLog`,
`ClaimFlow`, `PopIssuer`, `Enrollment`) or as the prefixes of the sequence of
storage contents an operation goes through (`AdminConsole`).

### GrantProgram

A transaction is atomic and a failing `require!` leaves no trace, so an
instruction is one action and its requires are conjuncts; account constraints
(seeds, `has_one`, `init`, `init_if_needed`) are guards too. Accounts found by
PDA seeds are entries of functions over those seeds, absent accounts are
`None`. Hashes are terms over their inputs, hence free of collisions;
the loop of `verify_merkle_sorted` is a recursive function that pairs the leaf
with one sibling after the other, a pair being unordered; proofs have at most
`MaxProof` siblings. `extract_ed25519...` and
`parse_pop_message` keep the tests that decide acceptance (program id, inline
message, version); offsets and lengths are left out. `last_global_hash` and
`last_stream_hash` are always assigned together and are one field. `ledger`
and `payouts` are history variables. u64 overflow cannot occur below the
supply of a mint, and i64 subtraction is guarded by the program, so integers
are unbounded. Direct SPL transfers into a vault, which the program does not
see, and burns by a wallet are not modelled.

### AuditLog, AppendOnlyLog, AuditIntegrity

Every `await` in `appendAuditLog` and `persistImmutableAuditEntry` is a step of
its own. `auditLock` is the queue of calls chained on the promise; `settle` is
the handler that passes it on. A sink write may be stored although the caller
sees an error. A call stands for its entry and the hash of it. `Crash` loses
every pending promise and keeps what is stored. The input gate would forbid
some of these interleavings; the log does not depend on it, so it is checked
without.

`AppendOnlyLog` says what readers rely on: calls are recorded once, in one
order, and only the newest recorded one can become visible. `AuditLog`
implements it with `log <- chain` (the hashes put as global head) and
`visible <- history`.

`AuditIntegrity` adds `verifyAuditIntegrity` over the rows of the history: each
row against its immutable copy in the modes off and required (`rowHolds`), and
children, heads, references out of the window and the walk from the head, for
the global chain and each stream (`linksHold`). The report
of best-effort mode, where a row may lack its copy, is not modelled; the
properties speak of the two other modes (`Reported`).

### ClaimFlow, MasterSearch

One event. `gate` is the request waiting for storage; no other request runs
while it is set, so handlers interleave only at the cost-of-forgery call
(`judge`) and at audit appends. The lock `withConfirmationCodeLock` holds only
storage operations and follows from the gate. The wallet handler and the user
handler have the same control flow and share the actions. The audit log
appears as a sequence of entries with the guarantees shown for `AuditLog`:
appended in one order, each with its predecessor in the global chain and in its
stream. `lastHash` has the head of both chains, the stream of the event and the
stream `system` that refused bodies and searches are written to; a crash inside
an append may move a head to an entry that is not in the history, and the next
entry of that chain then follows one that is missing. `chainLinksValid` looks
for both predecessors, so an entry of another stream in between does not mend
the stream of the event. Preflight refusals (size, rate) are not audited, other
refusals are.

`MasterSearch` adds `GET /api/master/search`: the key of the index (the audit
head and the options), its copy in SQL with `pruneMasterSearchSqlIndexes`, its
copy in memory with its lifetime, the disclosures it is built from, and the
revocation of an admin code, which a search shows. An answer is the set of
documents it could be chosen from. Two history variables say why an answer may
differ from the data: `behind` (something a search shows changed since the log
last moved) and `squeezed` (since then, as many indexes as are kept were built
in one millisecond).

### PopIssuer

A proof request looks the ticket up, takes `popProofLock`, reads the heads,
signs, puts global head, stream head, history row and cache entry one after the
other, and appends the anchor; each is a step. The lock is the queue of waiting
requests, and the one that is served leaves at its head. `getPopSigner` derives the
signer of the rotation window, with its cache. What was delivered is presented
to the program at any later time, while every other instruction on the grant is
sent too (`Onchain`): the authority sets another PopConfig, updates, pauses,
restricts, funds, closes or re-creates the grant, and any wallet claims with or
without a Merkle proof. `prev_hash` of a message is the issuer's head; the program accepts
any.

### TicketIssue

One action per step of the organiser's device: `refreshRuntimeStatus`,
`handleCreate` (with `computeIssueMintPlan` over amounts that may exceed u64),
the signer, the PopConfig (`tx0` and its verification), `tx1` to `tx4`, and
the post. A transaction fails, or lands and is confirmed, or lands and the
device gives up on it; the post is stored, answered or not, or refused. `tx2`
is `create_grant` and `fund_grant` in one transaction, written out with the
effects those actions have. `token` is the SPL mint (external): supply,
authority, metadata. One setup is modelled: a retry makes a new mint and a new
grant id and meets of its predecessors only the PopConfig, which in the model
anyone with the authority's key may replace at any time. `revised` is a history
variable: the authority has closed the grant or given it another amount, after
which what the vault should hold is the authority's affair.

### AdminConsole

`db` is the storage; an operation is the sequence of its contents after each
put, and `Handler` takes the last of them or, with a crash, any prefix.
`createEvent` has two steps, authentication and body. In the worker only the
master approves invites and executes sanctions, so a proposal is made and
executed in one call. `reported` and `lifted` are the two halves of every
sanction: state and report. `rejectInvite` answers a proposal without a code. The
lists the console shows (`listInvites`, `freezeStatus`, `securityUsers`,
`reportObligations`, `governanceProposals`) are views of `db`. An event is stored under its millisecond, as
`createEvent` of `claimLogic.ts` does. `SanctionsInForce` are the warnings,
freezes and revocations of admins and operators and the freezes and deletions of
users; a deletion counts while the freeze it brought stands, since
`unfreeze_user` resolves the report both share (section 5).

### Enrollment

Registrations and claims wait for the risk service (`evaluate...`), whose
answer is any verdict and score, or a failure; then claims are admitted and
registrations take the lock and make their three puts. `chainHash` is the
sequence of the subjects of the chain, newest first: a hash without collisions. Wallet decisions are
cached per wallet and minimum score; an override made by an approved
remediation comes first until it expires. Approve and reject look the request
up, lose control while they wait for their body, and then write. `contested`
and `torn` are history variables: requests on which a rejection overlapped with
an approval, and requests whose approval was cut off between its two puts.

### RequestGate

A request names a route; `getSecurityRatePolicy` gives the policy of the route,
or none, and a body that is too large is refused before anything is charged.
`enforceSecurityRateLimit` charges the bucket of the client and then the one
all clients share; `consumeSecurityRateState` is translated with its window,
its block and the doubling of it. `maybeAppendRandomPeriodicAnchor(t)` is a cron
trigger scheduled for `t`, delivered at some later moment; the append is its
second step. The clock may be set back. `served`, `refusals`, `turned` and
`anchored` are history variables: the requests let through with their times, for
each client the refusals by its own bucket and by the shared one since it was
last served, and the scheduled times whose entry is in the log.

### ClaimClient

An action is the code between two awaits of the JavaScript thread. A store
operation takes effect on AsyncStorage when it is issued and on the list in
memory when its promise resolves (`jobs`). A screen that was left keeps
running, so two flows overlap; `pending` is the one slot of
`phantomSignTxPending`. Native builds return through the deep link. On the web
the callback page runs in a popup, which answers the screen, or replaces the
tab (`callback`); `web` is what the browser keeps for the second case: the
return path, one slot, written by the screen that asked last and taken by the
first page that opens, and a sync context for each of the two screens, saved
before the wallet is asked, cleared when the screen ends, and void after ten
minutes or for another event (`taken`). The page sends the transaction and
completes the claim of `UserConfirmScreen` (`resumeUser`: scope the account,
tell the worker, store) or of `ReceiveScreen` (`resumeWallet`: store), or, when
it knows no event, nothing (`resumeNothing`). Chain and worker are reduced to
what the device observes, as established by `ClaimFlow` and `GrantProgram`.
`ReceiptsKept` and `ScopesSeparate` excuse, by the history variables `excused`
and `overlapped`, what section 5 lists under the client: a record that was
interrupted, whose page knew no event, or that was filed under another account
because the account changed under a flow, a login was overtaken by another, or
a flow was answered with the signature of another account's; and all receipts
once a store write was issued while another write, or a load, of the account was
in flight. Simplifications: a login fetches, clears and scopes in one step; a
popup keeps its own copy of the return path; connecting to Phantom, which also
writes that path, two tabs at a time and failures of AsyncStorage
(`UserConfirmScreen.tsx:552`, `:683`: the claim goes on without the record) are
left out; the reasons to rebuild a transaction (expired blockhash, recoverable
error, a program without proofs) are counted and not told apart.

### Governance

The development server keeps everything in memory and its handlers do not wait:
a request is an action. `processGovernanceAction` is the common path of the
nine sanctions; a revoked or unknown operator is turned away by
`ensureGovernanceOperatorContext`. What depends on the clock (an expired
warning, a burst of attempts) is an input.

## 3. Runs that pass

| run | instance | shows |
|---|---|---|
| `grant_claims` | one grant, an authority and two claimers, two signers, four instants, two values of every parameter | `PaidOncePerReceipt`, `OncePerScheduledPeriod`: nobody is paid twice, through pause, update, close and re-creation; `HeadIsNewest`: the PopState head never moves back |
| `grant_two` | two grants over two mints, any mint passed, roots of two trees, every proof of at most two nodes | `VaultAccounting`, `TokenConservation`, `ProofSingleUse`, `AllowlistRespected` |
| `audit_chain` | three calls (two streams, one aliasing the global key), six deployments, two crashes, fairness | `NoFork`, `NoStreamFork`, `ImmutableFirst`, `GapsBoundedByCrashes`, `ImplementsAppendOnlyLog`, `CallsSettle` |
| `audit_links` | four calls, two streams, hash ranks against the order of time, one crash, every subset of rows | `DetectsRemoval`: the report says ok exactly for an unbroken stretch; `UntouchedWindowPasses` |
| `claim_search` | three requests (claims, close, revocation, searches), two subjects, two codes, three deployments, a crash, one index kept | `CodesBelong`, `TicketBacked`, `OneOpenTicketUnjudged`, `IssuedWithinPolicy`, `SearchCurrent` |
| `gov_sanctions` | three operators, an admin, a user, three proposals and reports | `SanctionsByConsensus`, `NeverLeaderless`, `ReportsMatchSanctions` |
| `event_life` | one setup with every transaction failing or landing unnoticed, a plan that fits and one that does not, with and without a signer. With two signers rotating every two instants: three proof requests of one claimer, a crash, an organiser who pauses and closes. With a fixed signer: two requests of two claimers, an organiser who changes, pauses, restricts, closes and re-creates, wallets that fund and claim | `EventBacked`: a stored event has a PopConfig, no mint authority and every token accounted for; until the organiser closes the grant or changes its amount, the vault holds what was funded less one amount for each payout; `NoPopFork`, `UsableOnChain`, `SameProofWhileFresh`, `PayoutAnchored` |
| `console_sanctions` | the master, two codes, a user, two events, a report, a crash at any put | `SanctionedDoNothing`, `IssueLimitsHold`, `StraysBoundedByCrashes`, `SanctionsReported`: a sanction in force, deletions included, without the report it owes takes a crash |
| `enrollment` | two calls, two users, a wallet, events of two thresholds, two decisions at a time, a crash | `RegistryGapsBoundedByCrashes`, `AdmittedOnFreshVerdict`, `DecidedOnce` |
| `gate_limits` | two clients, two routes of one policy, window 3, limit 2, block 1, a wider shared bucket; two triggers per period, late and overlapping | `BurstBounded`, `PatientServed`, `ExtraAnchorsBounded` |
| `client_store` | two accounts, one event, two screens, both builds, two transactions, two periods, an account change | `ReceiptsKept`, `ScopesSeparate` |

Bounds (all of them constants named `Max...`, and the finite sets of calls and
requests) and why they are enough to meet the cases: two claimers and four
instants give proofs out of order, two periods and a claim on each side of a
boundary; two fundings give a vault that runs dry between two claims; three
calls give a queue with a waiting call behind a failing one; three requests
give a claim, its confirmation or a close, and a search on each side of it;
three operators give a revocation of one approver while another proposal is
pending, and a last one who cannot be revoked; three proof requests give a
retry behind an overlapping pair, across a rotation; `MAX_U64` is small so that
a plan exceeds it; the two parts of `event_life` (the state constraint `Parts`)
keep the orders of proofs and the orders of the organiser's instructions from
multiplying, and `TickOrCrash` of `claim_search` does the same for time and the
crash; the theorems hold without either; one index kept makes the new one the one
that is pruned, and the next search meets its remembered key; proofs of two
siblings (`MaxProof`) are longer than the trees are deep; one set-back of the
clock and one account change meet each case once, and the theorems of section
6 hold for any number of them; one crash suffices where
the claim is per crash, and two in `audit_chain` show that the losses add up
and do no more; two screens overlap in every way one slot allows. Symmetry is
used only where no liveness is checked. Deadlock is not checked: calls,
requests and instants are finite and the system may rest when they are used
up; that nothing waits for ever in the queue of the log is `CallsSettle`.

Fairness is stated in `audit_chain` only: weak fairness of each call's own
steps. A Durable Object goes on with a task whose storage operation or R2/KV
write has answered, and the webhook is aborted after
`AUDIT_IMMUTABLE_FETCH_TIMEOUT_MS`. Callers, crashes and the clock are not
fair.

## 4. A run that shows a disagreement

`claim_race`: the claim handler reads the pending claim and the quota, waits
for the cost-of-forgery service and issues a code without reading them again,
so two claims of one subject both get one (`OneOpenTicket`). The service is
switched off in `api-worker/wrangler.toml`; `OneOpenTicketUnjudged` and
`IssuedWithinPolicy` in `claim_search` show that without it the handler keeps
its promise.

## 5. Known divergences

Behaviour met while modelling that a reader of the docs would not expect. The
models contain it; the properties are stated so that they say what holds beside
it (the exception is named in the property's comment).

Grant program
- `update_grant` with another `period_seconds` renumbers the periods under
  existing receipts, so a claimer can be paid twice in one period of the new
  length (`lib.rs:94`; `lib.rs:25`, `:131`). `OncePerScheduledPeriod` speaks of
  an unchanged schedule; `PaidOncePerReceipt` holds across the change.
- `close_grant` refunds the whole vault and `update_grant` changes the amount
  while proofs for the grant are out, so an event is backed only as long as its
  authority leaves the grant alone. `EventBacked` names both.

Audit log
- An entry whose eventId is `global` shares the key of the global head
  (`storeDO.ts:4533`, `:186`), and the report on an untouched log is then not ok.
  `audit_links` has no such stream; `audit_chain` has.
- Rows of one millisecond are listed by hash and not by age, so
  `UntouchedWindowPasses` is stated for distinct timestamps.

Claims
- The check before side effects looks only at which sinks are configured
  (`storeDO.ts:10169`); one that fails at the append leaves a pending code
  without a receipt behind a 500/503 answer. `TicketBacked` names the case.
- After a crash inside an append the next entry of the event may have a
  predecessor that is not in the history; the receipt of its claim never verifies
  (`storeDO.ts:5300`), also when entries of other events or of `system` were
  written in between.
- Quota and pending resolution scan the last 5000 audit rows of all events
  (`storeDO.ts:6199`); an older claim of the interval no longer counts.
- With sinks down, a revocation is answered 200 without an audit entry
  (`storeDO.ts:2680`), and a search goes on showing the admin as active.
- When more than `MASTER_SEARCH_SQL_KEEP_KEYS` indexes share a millisecond, or
  the clock was set back, the new one is pruned at once (`storeDO.ts:6753`) and
  the search finds nothing; nor do the following ones, as
  `masterSearchSqlMetaCache` remembers the key, until the log moves or the
  object is restarted.

Admin side and registration
- A crash between the put of a code and of its proposal leaves a live code that
  the proposal does not name, and a second one can be issued.
- A code revoked between authentication and body still creates its event
  (`storeDO.ts:7981`); a frozen actor does not, since the security state is read
  after the body.
- Two events of one millisecond are one record (`claimLogic.ts:525`).
- Deleting a frozen user leaves the report of the freeze required for good;
  `unfreeze_user` does not ask whether the user is deleted, and lifts the freeze
  of a deletion together with the report of the deletion
  (`storeDO.ts:8922-8956`); the deletion then stands with a resolved report.
- Overlapping approve and reject can leave a rejected request whose override is
  in force. Moderation of a user is checked before the wait for the risk service
  (`storeDO.ts:9832`). A failing audit append after the three puts of a
  registration answers 500 for a user who is registered.

Event setup
- A setup that stops half way leaves its mint, and perhaps a funded grant,
  behind: the retry makes new ones (`adminTicketIssuer.ts:353`). Going on after
  a security warning sets up everything on chain once more before the post,
  which then freezes the account and creates no event.
- The screen asks for readiness when it opens; a signer that is gone by the
  time of the setup is replaced by the build's `EXPO_PUBLIC_POP_SIGNER_PUBKEY`,
  which need not be the worker's. A PopConfig names one signer and does not
  follow the rotation; `UsableOnChain` speaks of a PopConfig that does.

Limits and anchor
- A block of `admin_login` and `user_auth` (5 min) ends inside the window (10 min) that
  overflowed, so the first request after it is refused again, with a longer
  block; violations never decay; a request the shared bucket refuses is still
  charged to the client (`storeDO.ts:1817`), so other clients can keep a patient
  one from being served. `PatientServed` bounds the refusals of its own bucket.
- A target drawn after the last cron tick of its period is never anchored, and a
  late trigger puts the state back to an older window.

Client
- The launch URL is processed again whenever the app becomes active, and
  answers a newer signature request with the old transaction; the sign timer of
  `ReceiveScreen` is not cleared (`:673`); overlapping flows overwrite the one
  pending slot; the "already in use" path of `UserConfirmScreen` (`:719`) records a
  transaction that did not land; a lost confirmation leaves a payout without a
  receipt; `addTicket` from a stale list loses what another operation added, and
  goes to the account active when it runs; a new login replaces receipts that
  were not synced, and one that is overtaken by another login replaces the list
  of the account active by then; a signature that answers another account's
  flow is synced for that account; the proof of an old code can be kept for a new one.
- There is one return path, which the first callback page consumes, and a screen
  that gives up clears its context. With two requests open in the wallet, the
  second page sends its transaction, sees it confirmed and, knowing no event,
  records nothing (`[action].tsx:433`; the comment at `:206` says the page
  completes the ticket and the sync). `ReceiptsKept` excuses such a payout. A page that completes a claim of `ReceiveScreen` tells the worker
  the proof without the code, which the worker refuses (`storeDO.ts:9512`, 409),
  so that the receipt is on the device only.

Development server
- Deleting a frozen user drops the report of the freeze, unfreezing a deleted
  user resolves the report of the deletion, and a pending proposal whose required
  approver was revoked blocks its action on that target.

## 6. Proofs

Checked by TLAPS for every value of the constants, from the assumptions named
in the modules that declare the constants. Apart from typing these say that
`None` is not one of the values it is compared with, that the limits counted
against are not zero, and what is quoted below.

**`TicketIssueProofs`**, the program alone (`ConstantsAssumption`,
`NoneAssumption`, `FiniteAssumption`: finitely many wallets and grants,
`ProofsAssumption`: proofs of bounded length)

- `TypeCorrect` (stated only here: no run checks a type invariant that is
  proved), `VaultsBalance`, `NoDoublePayment`, `OnePaymentPerPeriod`,
  `HeadTracksNewest`, `NoProofReplay`.
- The inductive invariant is `IndInv`: `TypeOK`, `VaultAccounting` and
  `ClaimInv`. `ClaimInv` joins `PaidOncePerReceipt` and `HeadIsNewest` with two
  facts that are not goals themselves: `PeriodIndexSound` (the index of a
  payout is the period of its instant in the schedule it was paid under), from
  which `OncePerScheduledPeriod` follows, and `HashBindsPayout` (the entry hash
  of a payout is the hash of a message naming its grant, claimer and index),
  from which `ProofSingleUse` follows. Neither goal is inductive alone: a step
  sees only the receipts, so the invariant has to tie every payout to its
  receipt.
- `TokensConserved`: the sum over all wallets and open vaults of a mint stays
  what it was. Sums over finite sets are taken apart by lemmas of their own
  (one summand out, equal functions, an added or a removed vault), proved with
  the least-number principle (`WFMin`) in place of induction; each instruction
  is then a transfer between one wallet and one vault.
- `AllowlistAlways`: a claimer who is paid while a root is set is a member of
  its tree. The walk goes up from the leaf and the levels of the tree are
  counted down from the root; the lemmas show that when a walk of n siblings
  ends at the root, its value k siblings before the end is in level k.

**`AuditLogProofs`** (`StreamsAssumption`, `NoneAssumption`, `RankAssumption`)

- `TypeCorrect` includes the discipline of the lock: the queue has no
  duplicates and only its head is past the lock.
- `ChainNeverForks` rests on `ChainInv`: the stored head is the last element of
  `chain`, consecutive elements are linked by `prev_hash`, the running call has
  computed its entry on the current head, and the history lies within the
  chain. A fork would be two elements of the chain after the same element.
- `StreamsNeverFork` rests on `StreamInv`. A crash between the two head puts
  leaves a stream head behind the entry, so the stream is not a chain of heads;
  what is kept is that only heads that were put are named as predecessors, that
  the current head is named by no entry that got past its own head put, and that
  a call still before that put was computed on the current head. The stream
  that aliases the global key falls under `ChainNeverForks`.
- `GapsBounded` rests on `GapInv`: a call past its history put is in the
  history, so a missing one belongs to the running call or to a crash, and each
  crash ends at most one call between its head put and its history put.
- `RequiredMeansImmutable` rests on `SinkInv`: per step of a call, which sinks
  already hold its entry as long as it is not blocked.
- `Refinement`: `Spec => ImplementsAppendOnlyLog`, with `ChainInv` for the
  freshness of the recorded call and for the visible one being the newest.
- `RemovalDetected`: rows are places of the chain. A hole between two of them
  leaves two rows without a successor among the rows, so there is not one head;
  without a hole each row is the predecessor of the next, and the walk from the
  newest reaches all of them. For a stream `OrderInv` takes the place of the
  links: an entry names an earlier entry of its stream, and none that lies
  before one that became the stream's head in between.
- `UntouchedPasses` adds `TimeInv` (the chain is in the order of its
  timestamps, so the newest rows listed are its last places) and that without a
  crash the history is the chain up to the entry being written.

**`ClaimFlowProofs`** (`ClaimFlowAssumption`)

- `CodesBelongAlways`, `TicketBackedAlways`, `OneOpenTicketAlways` rest on
  `ClaimInv`: at most the request at the gate is between two storage
  operations; what a request carries agrees with the store as long as it is
  (`RequestOK`); a reserved code occurs nowhere but in the index; receipts
  point to the audit entry of their code (`ReceiptsRecorded`); a pending claim
  without a receipt has a request that still works on it, or one that failed or
  was lost (`PendingAttended`); an issued code that was not confirmed is the
  pending one of its subject (`OpenIsPending`). `ChainInv` has the two chains:
  every predecessor an entry names, and every head, is an entry of that chain, its
  beginning, or one lost in a crash; a lost one is named at most once, and by no
  entry while it is a head. The goals speak of stored data
  only and are lost by a step of a request whose memory is arbitrary.
- `IssuedWithinQuota` adds `PolicyInv`: between the check and the issue of a
  code nothing is appended that the quota counts. Its hypothesis
  `[](Len(audit) <= ScanLimit)` is the condition under which the code's scan
  sees the whole interval; section 5 says what happens beyond it.
- `SearchesLeaveClaims`: the three goals of `ClaimInv` also hold of
  `SearchSpec`, in which searches and revocations run between the steps of the
  claims.
- `SearchesCurrent`, an action property, rests on `SearchInv`
  (`SearchInvariant`, with `MasterSearchAssumption`): an index, stored or in
  memory, has a key the log has had, and the head of the log only moves
  forward, so one with the current key was built after the log last moved
  and shows the data unless `behind`; a remembered key has its index or was
  `squeezed`; and whatever is behind has a request that is still working, was
  lost or failed, or is a revocation.

**`TicketIssueProofs`**, the issue of tickets (also `IssuerAssumption` and
`SetupAssumption`: the mint is new, so no wallet has a balance of it)

- `SameProofAlways`, `PayoutAnchoredAlways`, `UsableOnChainAlways` rest on
  `IssueInv` (`IssueInvariant`): the lock is a queue whose head alone has read
  the PoP heads; the cached signer is the one of its window; the ticket and the
  signer a request fixed before it waited are still right; a cached proof was
  issued by the worker for that request; a delivered proof is anchored, and is
  still cached or was replaced after `ReuseMaxAge`. Signatures are not
  forged: the program is presented with delivered proofs only.
- `PopChainNeverForks` rests on `ChainInv`. A crash can lose a row whose head
  was put, so rows need not be linked to each other; the invariant instead has a
  set of ancestors of the current head that contains every predecessor named by
  a row and not the head itself. Its hypothesis is that no message hashes to
  the all-zero genesis value.
- `EventBackedAlways` rests on `BackInv`: each stage of the device knows what
  its earlier transactions left on chain, whether or not their confirmation
  arrived and whatever the authority did since (`StageOK`); no instruction makes
  or loses a token of the mint (`Accounts`); while the grant was not revised, the
  vault lacks one amount for each payout of the ledger, and a payout is counted
  once because it has its receipt; and the stored event keeps it (`Stored`).

**`EnrollmentProofs`** (`EnrollmentAssumption`)

- `FreshVerdict` rests on `CheckInv`: every cached decision comes from a
  verdict of that wallet and threshold at the instant it carries, and a waiting
  call asks about its own subject.
- `OverridesApproved` rests on `DecisionInv`: two deciders that hold one
  request make it contested, and one that holds a request alone finds it
  pending.
- `RegistryGapsBounded` rests on `RegistryInv`: only the holder of the lock
  writes and has read the current head; users without an index entry and links
  with a second successor are debts, and a crash makes at most one
  (`DebtOK`). A link names only the genesis or a user whose registration is over
  (`Rooted`), so the hash a running registration is about to put as head is new
  and has no successor yet.

**`AdminConsoleProofs`** (`ConsoleAssumption`, `NoneAssumption`)

- `IssueLimitsAlways` rests on `LimitInv` (`LimitInvariant`): an issue counter
  is put before what it counts, so a crash leaves it ahead and never behind, and
  everything an actor made lies before the end of the counter's window.
- `SanctionedNever`, an action property: an event is stored only by the second
  step of `createEvent`, which reads the sanctions after the body arrived.
- `StraysBounded` and `SanctionsAlwaysReported` rest on `DebtInv`
  (`DebtInvariant`): every content of the storage that a handler goes through
  is settled, with no more debts than before it, or half way, with at most one
  more, and the last one is settled; so a crash adds one debt and a handler that
  ends none (`Settled`, `Halfway`). For this `SanctionInv` keeps that the report
  a sanction names is its own, and that a deletion stands alone or with the
  freeze it brought, under the same report.

**`RequestGateProofs`** (`GateAssumption`; `BackoffAssumption`: blocks doubled
up to the cap outlast the window, which the smallest block of each policy
guarantees, `storeDO.ts:1547`)

- `ServiceBounded` rests on `BurstInv`, a bound for every interval of the length
  of a window by where it lies to the current window of the bucket: one that
  ends after the window started holds at most what the window has counted and,
  if it began before, one request less than the limit. Setting the clock back
  starts anew, with the old bound as an allowance. An earlier form of
  `BurstBounded` allowed only `max` more for each set-back; the proof did not go
  through, and two of them do serve more than that.
- `PatienceRewarded` rests on `PatientInv`: after `r` refusals in a row by its
  own bucket, each after the block of the one before, the block lasts until
  `block * (2^r - 1)` after the start of the window; once that is past the
  window, the next request opens a new one and gets past the bucket. A request
  the shared bucket then refuses begins the count anew, hence the factor
  `1 + turned`. `power` doubles and
  grows by the least-number principle again.
- `ExtraAnchors` rests on `AnchorInv`, which counts the entries that are in the
  log or on their way to it and, unless a later trigger is sure not to anchor
  the newest window again (`Good`), one more in advance. A disturbed trigger
  costs at most two: its own entry and `Good`.

**`ClaimClientProofs`** (`ClientAssumption`)

- `ScopesStaySeparate` and `ReceiptsAlwaysKept` rest on `ClientInvariant`.
  `ScopeInv`: what the stored lists, the list in memory, a store operation in
  flight, a login under way and the worker hold for an account is that
  account's, or excused. `KeepInv`: while no two store writes overlapped, a list
  about to be written, and the list in memory when none is, contain what is
  stored for their account; and a payout that is not on record has a flow that
  is still to record it, the callback page being one as long as it may know its
  event. Lemmas on the filtered and merged lists say which
  transactions they hold.

**`GovernanceProofs`** (`GovernanceAssumption`)

- `TypeCorrect`, `AlwaysLed`, `ReportsMatch` and the action property
  `SanctionedByConsensus` rest on `GovernanceInv`: whoever a proposal asked is a
  required approver or its target (`AskedRequired`), so the approval of the
  required ones is the approval of all; nobody is revoked before the first
  operator was seen (`Quiet`); and each standing sanction has a report of its
  own (`Matched`), so lifting one never resolves the report of another.

Only model-checked:

- `CallsSettle`: liveness under fairness is out of the prover's reach.
- `OneOpenTicket` is refuted by `claim_race`; what holds instead is proved.

Sums, powers, walks along a chain and folds over a proof would ask for an
induction over data, whose library theorems take an operator as a parameter. The
proofs use the least-number principle instead: the smallest place at which the
claim fails is not the first, and the step from the place before it
contradicts the choice.

## 7. Mutants

Every property of a passing run has a mutated definition, kept beside the
original and marked as such, that makes it fail: the change is the bug the
property is there for (a dropped `require!`, `init_if_needed` for `init`, a
lock that is not passed on after a failure or not taken, writes in another
order, a quota off by one, a swallowed audit error, an index key without the
audit head, a signer cached past its window, a decision cached for any
threshold, a status not checked, a PopConfig not verified, a merge that forgets the proof).

## 8. Not modelled

- Routing, CORS and the audit endpoint: stateless plumbing whose calls into the
  store are the requests of the models. The admin security log
  (`appendAdminSecurityLog`, `storeDO.ts:3604`): one chain written entry first,
  head second, whose entries nothing else reads back; a crash between the two
  puts forks it. Admin login and rename change no state
  another operation depends on. Matching and ranking of searches, and the
  privacy views per role, choose from documents the model compares.
- Screens other than the two that claim, the success screen and the one that
  creates an event, theming, the rest of the admin UI and API clients: rendering and HTTP calls over the state of the worker.
- The fallback of the setup for a deployed program without `upsert_pop_config`:
  the program of this repository has it.
- Connecting to Phantom and the encryption of its messages: data the client
  model does not tell apart.
- The claim and participant routes of the development server: an in-memory
  copy of the worker's, used for development only.
- The Pages proxy, scripts and vendored crates: pure I/O, build tooling and
  third-party code.

## 9. Plan

Every component of the plan is modelled, and every safety property of a passing
run is a theorem. What is left, should the code move there:

1. The report on the audit log in best-effort mode, with the immutable failures
   it counts.
2. Two setups of one organiser at a time, which meet in the PopConfig.
3. The admin security log, if its entries are ever read back.

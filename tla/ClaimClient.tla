---------------------------- MODULE ClaimClient ----------------------------
(***************************************************************************)
(* The recipient's device: the ticket store with its persisted copy, the   *)
(* two screens that claim on chain (UserConfirmScreen, ReceiveScreen), the *)
(* single slot a Phantom signature is awaited in, the deep link and the    *)
(* same-tab callback that answer it, sending and confirming, and the sync  *)
(* of the on-chain proof to the worker.                                    *)
(*                                                                         *)
(* JavaScript runs one thread; an action is the code between two awaits.   *)
(* A store operation takes effect on AsyncStorage when it is issued and on *)
(* the in-memory list when its promise resolves; the continuation waits in *)
(* "jobs".  A screen that was left keeps running, so two flows overlap.    *)
(* The chain and the worker are reduced to what the device can observe:    *)
(* one payout per user, event and period; a new confirmation code only     *)
(* once the previous one has its proof (ClaimFlow, GrantProgram).          *)
(***************************************************************************)
EXTENDS Naturals, FiniteSets, Sequences

CONSTANTS
    Users, Events, Flows,   \* accounts used on the device, events, screens running
    Nobody,                 \* the signed-out scope, and "no flow"
    Platforms,              \* the builds: a subset of {"native", "web"}
    MaxPeriod, MaxTx,       \* bounds: distribution periods, transactions built
    MaxJobs, MaxLogins,     \* bounds: store continuations waiting, account changes
    MaxClaims               \* bound: times a claim button is pressed

ASSUME ClientAssumption ==
    /\ Nobody \notin Users \cup Events \cup Flows
    /\ Platforms \subseteq {"native", "web"}
    /\ MaxPeriod \in Nat /\ MaxTx \in Nat /\ MaxJobs \in Nat /\ MaxLogins \in Nat /\ MaxClaims \in Nat

VARIABLES
    platform,   \* which build runs
    user,       \* activeUserId
    tickets,    \* the list in memory: event -> ticket
    storage,    \* AsyncStorage: scope -> event -> ticket
    jobs,       \* continuations of store operations
    flow,       \* the claim screens
    pending,    \* phantomSignTxPending: the flow awaiting a signature
    timers,     \* flows whose signing timer was left armed
    requests,   \* transactions Phantom has been asked to sign
    launchUrl,  \* the sign callback the app was launched by, 0 if none
    web,        \* browser storage: the return path and the two sync contexts
    issued,     \* worker: latest code of a user for an event, 0 if none
    synced,     \* worker: proofs it was told, newest last
    txs,        \* transactions built, a transaction is its index
    landed,     \* transactions that were executed
    period,     \* the distribution period
    logins,     \* account changes so far
    claims,     \* claims started so far
    excused,    \* transactions whose record was interrupted or misfiled
    overlapped  \* a store write was issued while another, or a load, was in flight

device == <<user, tickets, storage, jobs, overlapped>>
signing == <<pending, timers, requests, launchUrl>>
world == <<issued, synced, txs, landed, period>>
counts == <<logins, claims>>
vars == <<platform, device, flow, signing, web, world, counts, excused>>

Scopes == Users \cup {Nobody}
NoCode == <<>>
NoTicket == [code |-> NoCode, proof |-> 0, receipts |-> <<>>]
NoTickets == [e \in Events |-> NoTicket]
NoPath == [screen |-> "none", event |-> Nobody]
NoContext == [user |-> Nobody, event |-> Nobody, code |-> NoCode]
NoWeb == [path |-> NoPath, user |-> NoContext, wallet |-> NoContext]
Idle == [pc |-> "idle", screen |-> "none", user |-> Nobody, event |-> Nobody,
         code |-> NoCode, seen |-> NoCode, signed |-> 0, retries |-> 0, list |-> NoTickets]

Init ==
    /\ platform \in Platforms
    /\ user \in Scopes /\ tickets = NoTickets
    /\ storage = [s \in Scopes |-> NoTickets]
    /\ jobs = {} /\ overlapped = FALSE
    /\ flow = [f \in Flows |-> Idle]
    /\ pending = Nobody /\ timers = {} /\ requests = {} /\ launchUrl = 0
    /\ web = NoWeb
    /\ issued = [u \in Users |-> [e \in Events |-> 0]]
    /\ synced = <<>> /\ txs = <<>> /\ landed = {} /\ period = 1
    /\ logins = 0 /\ claims = 0 /\ excused = {}

---------------------------------------------------------------------------
(* Tickets *)

\* The receipts other than tx, in their order.
others(tx, receipts) ==
    LET kept[i \in 0..Len(receipts)] ==
            IF i = 0 THEN <<>>
            ELSE IF receipts[i] = tx THEN kept[i - 1] ELSE Append(kept[i - 1], receipts[i])
    IN  kept[Len(receipts)]

\* normalizeOnchainReceipts: deduplicated, the one just (re)claimed first.
normalizeOnchainReceipts(tx, receipts) ==
    IF tx = 0 THEN receipts ELSE <<tx>> \o others(tx, receipts)

\* normalizeTicketOnchainFields: the current proof is the newest receipt.
normalizeTicketOnchainFields(t) ==
    LET all == normalizeOnchainReceipts(t.proof, t.receipts)
    IN  [t EXCEPT !.receipts = all, !.proof = IF all = <<>> THEN 0 ELSE Head(all)]

\* A new code without a proof resets the current proof; the receipts stay.
shouldResetCurrentOnchainProof(old, new) ==
    new.code # NoCode /\ new.code # old.code /\ new.proof = 0

\* A merge that keeps the incoming ticket's receipts only.
MergeForgets(old, new) ==
    [code |-> new.code, proof |-> new.proof, receipts |-> new.receipts]

mergeTicket(old, new) ==
    LET all == normalizeOnchainReceipts(new.proof,
                   normalizeOnchainReceipts(old.proof, old.receipts))
    IN  [code |-> IF new.code = NoCode THEN old.code ELSE new.code,
         proof |-> IF shouldResetCurrentOnchainProof(old, new) \/ all = <<>> THEN 0 ELSE Head(all),
         receipts |-> all]

\* A ticket as a screen hands it to the store, and the list with it added.
ticketOf(code, tx) == normalizeTicketOnchainFields([code |-> code, proof |-> tx, receipts |-> <<>>])

withTicket(list, e, t) ==
    [list EXCEPT ![e] = IF @ = NoTicket THEN t ELSE mergeTicket(@, t)]

loadFromStorage(s) == [e \in Events |-> normalizeTicketOnchainFields(storage[s][e])]

\* The first half of a save: AsyncStorage now, the list in memory when the
\* promise resolves.  "by" is the flow that awaits it, Nobody if none does.
save(list, by) ==
    /\ Cardinality(jobs) < MaxJobs
    /\ storage' = [storage EXCEPT ![user] = list]
    /\ jobs' = jobs \cup {[user |-> user, list |-> list, by |-> by]}
    /\ overlapped' = (overlapped \/ \E j \in jobs : j.user = user)

addTicket(e, t, by) == save(withTicket(tickets, e, t), by)

load(s, by) == [user |-> s, list |-> loadFromStorage(s), by |-> by]

\* setActiveUser: the list is emptied at once, the stored one follows.
setActiveUser(s, loading) ==
    /\ Cardinality(jobs) < MaxJobs
    /\ user' = s /\ tickets' = NoTickets
    /\ jobs' = jobs \cup {loading}

\* What a flow does once the store operation it awaits is done.
afterStore(fl, list) ==
    CASE fl.pc = "saving" -> {[fl EXCEPT !.pc = "check"]}
      [] fl.pc = "scoping" -> {[fl EXCEPT !.pc = "sync", !.seen = list[fl.event].code]}
      [] fl.pc = "recording" /\ fl.screen = "confirm" -> {[fl EXCEPT !.pc = "sync"]}
      [] fl.pc = "recording" /\ fl.screen = "callback" -> {[fl EXCEPT !.pc = "success"]}
      [] fl.pc = "recordingDead" -> {[fl EXCEPT !.pc = "success"], Idle}
      [] fl.pc = "switching" -> {[fl EXCEPT !.pc = "replace"]}
      [] OTHER -> {Idle}

\* The browser's storage after the flows in fs ended: each screen clears the
\* context it saves.
cleared(fs) ==
    [path |-> web.path,
     user |-> IF \E f \in fs : flow[f].screen = "confirm" THEN NoContext ELSE web.user,
     wallet |-> IF \E f \in fs : flow[f].screen = "receive" THEN NoContext ELSE web.wallet]

\* The context the same-tab callback resumes from is persisted on the web,
\* that of UserConfirmScreen and that of ReceiveScreen each in its own slot.
savedContext(fl) ==
    LET context == [user |-> fl.user, event |-> fl.event, code |-> fl.code]
    IN  IF fl.screen = "confirm" THEN [web EXCEPT !.user = context] ELSE [web EXCEPT !.wallet = context]

\* What its continuation does to the browser's storage.
webAfterStore(f) ==
    CASE flow[f].pc = "saving" /\ platform = "web" -> savedContext(flow[f])
      [] flow[f].pc = "recordingDead" -> cleared({f})
      [] OTHER -> web

\* The account not compared.
AnyAccount(j) == TRUE

\* A store operation resolves: its list is shown unless the account changed.
stillActive(j) == user = j.user

storeDone(j) ==
    /\ j \in jobs
    /\ jobs' = jobs \ {j}
    /\ tickets' = IF stillActive(j) THEN j.list ELSE tickets
    /\ \/ j.by \notin Flows /\ UNCHANGED <<flow, web>>
       \/ /\ j.by \in Flows
          /\ \E next \in afterStore(flow[j.by], j.list) : flow' = [flow EXCEPT ![j.by] = next]
          /\ web' = webAfterStore(j.by)
    /\ UNCHANGED <<platform, user, storage, overlapped, signing, world, counts, excused>>

\* UserSuccessScreen polls the stored list every 15 s.
loadTickets ==
    /\ user # Nobody
    /\ Cardinality(jobs) < MaxJobs
    /\ jobs' = jobs \cup {load(user, Nobody)}
    /\ UNCHANGED <<platform, user, tickets, storage, overlapped, flow, signing, web, world,
                   counts, excused>>

---------------------------------------------------------------------------
(* Accounts *)

Range(s) == {s[i] : i \in DOMAIN s}
told(tx) == \E r \in Range(synced) : r.tx = tx
held(list) == UNION {Range(list[e].receipts) : e \in Events}
heldIn(s) == held(storage[s])

\* The latest proof the worker has for an event, 0 if none, and those for a code.
latestProof(u, e) ==
    LET known == {i \in DOMAIN synced : synced[i].user = u /\ synced[i].event = e}
    IN  IF known = {} THEN 0 ELSE synced[CHOOSE i \in known : \A j \in known : j <= i].tx
proofOfCode(u, e, c) == {r.tx : r \in {q \in Range(synced) : q.user = u /\ q.event = e /\ q.code = c}}

\* buildUserTicketSyncItems: the latest code with the latest transfer of the event.
buildUserTicketSyncItems(u) ==
    [e \in Events |->
        IF issued[u][e] = 0 THEN NoTicket ELSE ticketOf(<<u, issued[u][e]>>, latestProof(u, e))]

\* resetSessionArtifactsOnLogout removes the account's list, the anonymous
\* one and what the browser keeps of a claim.
clearUserTickets(s) ==
    /\ storage' = [t \in Scopes |-> IF t \in {s, Nobody} THEN NoTickets ELSE storage[t]]
    /\ excused' = excused \cup {tx \in heldIn(s) \cup heldIn(Nobody) : ~told(tx)}
    /\ web' = NoWeb

clearUser ==
    /\ user # Nobody
    /\ logins < MaxLogins /\ logins' = logins + 1
    /\ clearUserTickets(user)
    /\ setActiveUser(Nobody, [user |-> Nobody, list |-> NoTickets, by |-> Nobody])
    /\ UNCHANGED <<platform, overlapped, flow, signing, world, claims>>

\* handleVerify (UserLoginScreen): the worker's list is fetched, the old
\* account cleared, the new one scoped, and the fetched list put over it.
handleVerify(f, u) ==
    /\ flow[f].pc = "idle"
    /\ logins < MaxLogins /\ logins' = logins + 1
    /\ clearUserTickets(user)
    /\ setActiveUser(u, [user |-> u, list |-> IF u = user THEN NoTickets ELSE loadFromStorage(u), by |-> f])
    /\ flow' = [flow EXCEPT ![f] = [Idle EXCEPT !.pc = "switching", !.user = u,
                                                !.list = buildUserTicketSyncItems(u)]]
    /\ UNCHANGED <<platform, overlapped, signing, world, claims>>

\* replaceTickets, for the account active by then: a login that was left and
\* overtaken by another puts its list there.
replaceTickets(f) ==
    /\ flow[f].pc = "replace"
    /\ save(flow[f].list, f)
    /\ flow' = [flow EXCEPT ![f] = [Idle EXCEPT !.pc = "replacing"]]
    /\ excused' = excused \cup {tx \in heldIn(user) : ~told(tx)}
                           \cup {tx \in held(flow[f].list) : user # flow[f].user}
    /\ UNCHANGED <<platform, user, tickets, signing, web, world, counts>>

---------------------------------------------------------------------------
(* Claiming *)

\* The worker answers with the open code, or with a new one once the open
\* code has its proof and the period allows another.
codeFor(u, e) ==
    IF issued[u][e] = 0 \/ (proofOfCode(u, e, <<u, issued[u][e]>>) # {} /\ issued[u][e] < period)
    THEN issued[u][e] + 1
    ELSE issued[u][e]

start(f, screen, e, c) ==
    /\ claims < MaxClaims /\ claims' = claims + 1
    /\ flow' = [flow EXCEPT ![f] = [Idle EXCEPT !.pc = "claimed", !.screen = screen, !.user = user,
                                                !.event = e, !.code = <<user, c>>]]

\* handleParticipate up to the worker's answer: PIN, off-chain claim, receipt check.
handleParticipate(f, e) ==
    /\ flow[f].pc = "idle" /\ user # Nobody
    /\ start(f, "confirm", e, codeFor(user, e))
    /\ issued' = [issued EXCEPT ![user][e] = codeFor(user, e)]
    /\ web' = [web EXCEPT !.user = NoContext]
    /\ UNCHANGED <<platform, device, signing, synced, txs, landed, period, logins, excused>>

\* hasStoredOnchainProofForCurrentCode / selectCodeScopedStoredOnchainProof.
storedProof(e, c) == IF tickets[e].code = c THEN tickets[e].proof ELSE 0

\* handleClaimSolana of ReceiveScreen, opened with an issued code.
handleClaimSolana(f, e) ==
    /\ flow[f].pc = "idle" /\ user # Nobody
    /\ issued[user][e] # 0
    /\ storedProof(e, <<user, issued[user][e]>>) = 0
    /\ start(f, "receive", e, issued[user][e])
    /\ web' = [web EXCEPT !.wallet = NoContext]
    /\ UNCHANGED <<platform, device, signing, world, logins, excused>>

\* The off-chain ticket is stored before anything is signed.
storeOffchain(f) ==
    /\ flow[f].pc = "claimed"
    /\ addTicket(flow[f].event, ticketOf(flow[f].code, 0), f)
    /\ flow' = [flow EXCEPT ![f].pc = "saving"]
    /\ UNCHANGED <<platform, user, tickets, signing, web, world, counts, excused>>

\* A flow that cannot claim on chain: the confirm screen goes on off chain
\* (or, in forced mode, stops), the receive screen stops.
given(fl) == IF fl.screen = "confirm" THEN {[fl EXCEPT !.pc = "success", !.signed = 0], Idle} ELSE {Idle}

\* A proof known for this code, from the worker or from the stored ticket.
existingProofs(fl) ==
    proofOfCode(fl.user, fl.event, fl.code)
        \cup {tx \in {storedProof(fl.event, fl.code)} : tx # 0}

reuseProof(f) ==
    /\ flow[f].pc = "check" /\ flow[f].screen = "confirm"
    /\ \E tx \in existingProofs(flow[f]) :
         flow' = [flow EXCEPT ![f].pc = "success", ![f].signed = tx]
    /\ web' = cleared({f})
    /\ UNCHANGED <<platform, device, signing, world, counts, excused>>

mayAttempt(f) ==
    \/ flow[f].pc = "check" /\ (flow[f].screen = "confirm" => existingProofs(flow[f]) = {})
    \/ flow[f].pc = "build"

\* fetchPopConfigReadiness says no, a popup is blocked (ReceiveScreen keeps
\* its context in both cases), the build fails.
notReady(f) ==
    /\ mayAttempt(f)
    /\ \E next \in given(flow[f]) : flow' = [flow EXCEPT ![f] = next]
    /\ \/ web' = cleared({f})
       \/ flow[f].screen = "receive" /\ flow[f].pc = "check" /\ UNCHANGED web
    /\ UNCHANGED <<platform, device, signing, world, counts, excused>>

paid(u, e, p) == \E tx \in landed : txs[tx].user = u /\ txs[tx].event = e /\ txs[tx].period = p

\* buildClaimTx: the transaction for the code, in the current period.
buildClaimTx(fl) == [user |-> fl.user, event |-> fl.event, code |-> fl.code, period |-> period]

\* setPhantomWebReturnPath: the screen that asks for the signature.
returnPath(fl) == IF platform = "web" THEN [screen |-> fl.screen, event |-> fl.event] ELSE web.path

\* The transaction goes to Phantom; the slot is (over)written.
askPhantom(f, tx) ==
    /\ requests' = requests \cup {tx}
    /\ pending' = f

\* signTransaction: the receipt of the period must not exist; the
\* transaction is signed, and the return path (over)written.
signTransaction(f) ==
    /\ mayAttempt(f)
    /\ Len(txs) < MaxTx
    /\ ~paid(flow[f].user, flow[f].event, period)
    /\ txs' = Append(txs, buildClaimTx(flow[f]))
    /\ askPhantom(f, Len(txs) + 1)
    /\ flow' = [flow EXCEPT ![f].pc = "sign", ![f].signed = 0]
    /\ web' = [web EXCEPT !.path = returnPath(flow[f])]
    /\ UNCHANGED <<platform, device, timers, launchUrl, issued, synced, landed, period, counts,
                   excused>>

---------------------------------------------------------------------------
(* The signature *)

\* ReceiveScreen leaves the timer of a settled signature armed.
leftArmed(f) == IF f # Nobody /\ flow[f].screen = "receive" THEN {f} ELSE {}

resolvePendingSignTx(tx) ==
    /\ flow' = IF pending = Nobody THEN flow
               ELSE [flow EXCEPT ![pending].pc = "send", ![pending].signed = tx]
    /\ timers' = timers \cup leftArmed(pending)
    /\ pending' = Nobody

\* The slot's flow is rejected, and with it the flows in also.
rejectPendingSignTx(also) ==
    /\ \E next \in [({pending} \cup also) \ {Nobody} -> {"off", "stop"}] :
         /\ \A f \in DOMAIN next : flow[f].screen = "receive" => next[f] = "stop"
         /\ flow' = [f \in Flows |-> IF f \notin DOMAIN next THEN flow[f]
                                     ELSE IF next[f] = "stop" THEN Idle
                                     ELSE [flow[f] EXCEPT !.pc = "success", !.signed = 0]]
    /\ web' = cleared(({pending} \cup also) \ {Nobody})
    /\ pending' = Nobody

\* The user approves: the deep link, or the message of the callback page in a
\* popup (which clears its own copy of the return path), reaches the slot.
handleRedirect(tx) ==
    /\ tx \in requests
    /\ requests' = requests \ {tx}
    /\ resolvePendingSignTx(tx)
    /\ UNCHANGED <<platform, device, launchUrl, web, world, counts, excused>>

\* The user declines: an error code comes back.
declined(tx) ==
    /\ tx \in requests
    /\ requests' = requests \ {tx}
    /\ rejectPendingSignTx({})
    /\ timers' = timers \cup leftArmed(pending)
    /\ UNCHANGED <<platform, device, launchUrl, world, counts, excused>>

\* handleCancelPhantomWait: whoever holds the slot is rejected; the request
\* stays open in the wallet.
handleCancelPhantomWait(f) ==
    /\ flow[f].pc = "sign" /\ flow[f].screen = "confirm" /\ pending # Nobody
    /\ rejectPendingSignTx({})
    /\ timers' = timers \cup leftArmed(pending)
    /\ UNCHANGED <<platform, device, requests, launchUrl, world, counts, excused>>

\* AppState becomes active: the launch URL is processed once more.
reprocessInitialUrl ==
    /\ launchUrl # 0 /\ pending # Nobody
    /\ resolvePendingSignTx(launchUrl)
    /\ UNCHANGED <<platform, device, requests, launchUrl, web, world, counts, excused>>

\* SIGN_TIMEOUT_MS: the timer rejects its own flow and whoever holds the slot.
timedOut(f) == {f}

signTimeout(f) ==
    /\ \/ flow[f].pc = "sign" /\ rejectPendingSignTx(timedOut(f))
       \/ f \in timers /\ flow[f].pc # "sign" /\ rejectPendingSignTx({})
    /\ timers' = timers \ {f}
    /\ UNCHANGED <<platform, device, requests, launchUrl, world, counts, excused>>

---------------------------------------------------------------------------
(* Sending, recording, syncing *)

after(f, pc) == flow' = [flow EXCEPT ![f].pc = pc]

\* What comes after a confirmed payout on each screen.
onConfirmed(fl) == CASE fl.screen = "confirm" -> "record"
                     [] fl.screen = "receive" -> "sync"
                     [] OTHER -> "resume"

executable(tx) ==
    tx \notin landed /\ txs[tx].period = period /\ ~paid(txs[tx].user, txs[tx].event, period)

\* sendSignedTx: executed and confirmed.
sendConfirmed(f) ==
    /\ flow[f].pc = "send" /\ executable(flow[f].signed)
    /\ landed' = landed \cup {flow[f].signed}
    /\ after(f, onConfirmed(flow[f]))
    /\ UNCHANGED <<platform, device, signing, web, issued, synced, txs, period, counts,
                   excused>>

\* The reasons a screen rebuilds and signs again for, each once: the expired
\* blockhash and the recoverable build error, on the confirm screen also the
\* program that knows no proofs.
retriesOf(screen) == CASE screen = "confirm" -> 3 [] screen = "receive" -> 2 [] OTHER -> 0

\* A send that failed: rebuilt and signed again, or given up.
retryOrGiveUp(f) ==
    \/ /\ flow[f].retries < retriesOf(flow[f].screen)
       /\ flow' = [flow EXCEPT ![f].pc = "build", ![f].retries = @ + 1]
       /\ UNCHANGED web
    \/ /\ \E next \in given(flow[f]) : flow' = [flow EXCEPT ![f] = next]
       /\ web' = cleared({f})

\* Executed, but the confirmation was lost (also after the status polls).
sendUnconfirmed(f) ==
    /\ flow[f].pc = "send" /\ executable(flow[f].signed)
    /\ landed' = landed \cup {flow[f].signed}
    /\ excused' = excused \cup {flow[f].signed}
    /\ retryOrGiveUp(f)
    /\ UNCHANGED <<platform, device, signing, issued, synced, txs, period, counts>>

\* Not executed: the period moved on, the blockhash expired, the network failed.
sendFailed(f) ==
    /\ flow[f].pc = "send"
    /\ retryOrGiveUp(f)
    /\ UNCHANGED <<platform, device, signing, world, counts, excused>>

\* The receipt of the period exists ("already in use"): the confirm screen
\* records the refused transaction as the proof of the code.
sendAlreadyInUse(f) ==
    /\ flow[f].pc = "send" /\ flow[f].signed \notin landed
    /\ paid(txs[flow[f].signed].user, txs[flow[f].signed].event, txs[flow[f].signed].period)
    /\ flow' = [flow EXCEPT ![f] = IF @.screen = "confirm" THEN [@ EXCEPT !.pc = "recordDead"] ELSE Idle]
    /\ web' = IF flow[f].screen = "confirm" THEN web ELSE cleared({f})
    /\ UNCHANGED <<platform, device, signing, world, counts, excused>>

\* Recording under another account than the claim's.
misfiled(f) == {tx \in {flow[f].signed} \ {0} : user # txs[tx].user}

\* The callback page prefers the code it was answered, then that of the
\* ticket it saw, then that of its context; a screen uses its own.
recordedCode(fl) == IF fl.seen # NoCode THEN fl.seen ELSE fl.code

\* addTicket with the proof; ReceiveScreen does not wait for it.
recordProof(f) ==
    /\ flow[f].pc \in {"record", "recordDead"}
    /\ LET code == recordedCode(flow[f])
           awaited == flow[f].screen # "receive"
       IN  /\ addTicket(flow[f].event, ticketOf(code, flow[f].signed), IF awaited THEN f ELSE Nobody)
           /\ flow' = [flow EXCEPT ![f] = CASE ~awaited -> Idle
                                            [] @.pc = "recordDead" -> [@ EXCEPT !.pc = "recordingDead"]
                                            [] OTHER -> [@ EXCEPT !.pc = "recording", !.code = code]]
    /\ excused' = excused \cup misfiled(f)
    /\ web' = IF flow[f].screen = "receive" THEN cleared({f}) ELSE web
    /\ UNCHANGED <<platform, user, tickets, signing, world, counts>>

\* Telling the worker under another account than the claim's: the slot was
\* answered with the transaction of an earlier screen.
misattributed(f) == {tx \in {flow[f].signed} : flow[f].user # txs[tx].user}

\* claimEventWithUser / submitSchoolClaim with the proof: the worker stores
\* it, or the call fails and only the device knows.
syncProof(f) ==
    /\ flow[f].pc = "sync"
    /\ LET next == [flow[f] EXCEPT !.pc = IF flow[f].screen = "confirm" THEN "success" ELSE "record"]
       IN  \/ /\ synced' = Append(synced, [user |-> flow[f].user, event |-> flow[f].event,
                                           code |-> flow[f].code, tx |-> flow[f].signed])
              /\ flow' = [flow EXCEPT ![f] = [next EXCEPT !.seen = NoCode]]
              /\ excused' = excused \cup misattributed(f)
           \/ /\ UNCHANGED <<synced, excused>>
              /\ flow' = [flow EXCEPT ![f] = next]
           \/ /\ UNCHANGED <<synced, excused>> /\ flow[f].screen = "confirm"   \* 401 in forced mode
              /\ flow' = [flow EXCEPT ![f] = Idle]
    /\ web' = IF flow[f].screen = "confirm" THEN cleared({f}) ELSE web
    /\ UNCHANGED <<platform, device, signing, issued, txs, landed, period, counts>>

\* UserSuccessScreen adds the ticket it shows once more, without waiting.
showSuccess(f) ==
    /\ flow[f].pc = "success"
    /\ LET tx == IF flow[f].signed # 0 THEN flow[f].signed ELSE storedProof(flow[f].event, flow[f].code)
       IN  addTicket(flow[f].event, ticketOf(flow[f].code, tx), Nobody)
    /\ excused' = excused \cup misfiled(f)
    /\ flow' = [flow EXCEPT ![f] = Idle]
    /\ UNCHANGED <<platform, user, tickets, signing, web, world, counts>>

---------------------------------------------------------------------------
(* Reloads *)

\* Transactions whose outcome only a running flow knows.
carried(fs) == {flow[f].signed : f \in {g \in fs : flow[g].pc \in
    {"send", "record", "recording", "recordDead", "recordingDead", "resume", "scoping", "sync"}}} \ {0}

reload ==
    /\ tickets' = NoTickets
    /\ jobs' = {load(user, Nobody)}
    /\ pending' = Nobody /\ timers' = {}

\* The app is killed while the user is in Phantom and the sign callback
\* starts it again: nobody awaits the signature any more.
coldStart(tx) ==
    /\ platform = "native" /\ tx \in requests
    /\ requests' = requests \ {tx}
    /\ launchUrl' = tx
    /\ reload
    /\ excused' = excused \cup carried(Flows)
    /\ flow' = [f \in Flows |-> Idle]
    /\ UNCHANGED <<platform, user, storage, overlapped, web, world, counts>>

\* The web build without a popup: Phantom replaces the tab, and the callback
\* page sends the transaction and finishes what the screen would have done.
\* consumePhantomWebReturnPath: of the claim it knows only the return path,
\* which is taken when the page opens, that of the last screen that asked.
callback(f, tx) ==
    /\ platform = "web" /\ tx \in requests
    /\ requests' = requests \ {tx}
    /\ reload
    /\ excused' = excused \cup carried(Flows)
    /\ flow' = [g \in Flows |-> IF g # f THEN Idle
                                ELSE [Idle EXCEPT !.pc = "send", !.signed = tx, !.event = web.path.event,
                                                  !.screen = IF web.path.screen = "receive" THEN "wallet" ELSE "callback"]]
    /\ web' = [web EXCEPT !.path = NoPath]
    /\ UNCHANGED <<platform, user, storage, overlapped, launchUrl, world, counts>>

\* The tab is replaced by the page of a declined request: only an error to show.
callbackDeclined(tx) ==
    /\ platform = "web" /\ tx \in requests
    /\ requests' = requests \ {tx}
    /\ reload
    /\ excused' = excused \cup carried(Flows)
    /\ flow' = [f \in Flows |-> Idle]
    /\ web' = [web EXCEPT !.path = NoPath]
    /\ UNCHANGED <<platform, user, storage, overlapped, launchUrl, world, counts>>

\* consumePhantomWebUserOnchainSyncContext, consumePhantomWebWalletOnchainSyncContext:
\* both are taken and cleared; void when older than ten minutes, or of
\* another event than the one known already.
taken(context, e) == {NoContext} \cup {c \in {context} : e \in {Nobody, c.event}}

\* The claim of UserConfirmScreen (shouldHandleUser): the return path or the
\* context names the event; with the context its account is made active and
\* the worker told, without it only the ticket is stored.
resumeUser(f, context) ==
    LET e == IF flow[f].event = Nobody THEN context.event ELSE flow[f].event
        next == [flow[f] EXCEPT !.event = e, !.user = context.user, !.code = context.code]
    IN  /\ flow[f].screen = "callback" /\ e # Nobody
        /\ \/ /\ context # NoContext /\ context.user # user
              /\ setActiveUser(context.user, load(context.user, f))
              /\ flow' = [flow EXCEPT ![f] = [next EXCEPT !.pc = "scoping"]]
           \/ /\ context = NoContext \/ context.user = user
              /\ flow' = [flow EXCEPT ![f] = [next EXCEPT !.pc = IF context = NoContext THEN "record" ELSE "sync",
                                                          !.seen = tickets[e].code]]
              /\ UNCHANGED <<user, tickets, jobs>>
        /\ UNCHANGED excused

\* The claim of ReceiveScreen (shouldHandleWallet), for the account that is
\* active.  submitSchoolClaim is called without the code, so the worker
\* refuses the proof (409) and the ticket is all that is stored.
resumeWallet(f, context) ==
    LET e == IF flow[f].event = Nobody THEN context.event ELSE flow[f].event
    IN  /\ flow[f].screen = "wallet" \/ flow[f].event = Nobody
        /\ e # Nobody
        /\ flow' = [flow EXCEPT ![f] = [@ EXCEPT !.pc = "record", !.screen = "wallet", !.event = e,
                                                 !.code = context.code, !.seen = tickets[e].code]]
        /\ UNCHANGED <<user, tickets, jobs, excused>>

\* Neither event nor campaign is known: the payout is not recorded anywhere.
resumeNothing(f) ==
    /\ flow[f].event = Nobody
    /\ flow' = [flow EXCEPT ![f] = Idle]
    /\ excused' = excused \cup {flow[f].signed}
    /\ UNCHANGED <<user, tickets, jobs>>

resume(f) ==
    /\ flow[f].pc = "resume"
    /\ web' = [NoWeb EXCEPT !.path = web.path]
    /\ \/ \E context \in taken(web.user, flow[f].event) : resumeUser(f, context)
       \/ \E context \in taken(web.wallet, flow[f].event) : resumeWallet(f, context)
       \/ resumeNothing(f)
    /\ UNCHANGED <<platform, storage, overlapped, signing, world, counts>>

\* The next distribution period begins.
nextPeriod ==
    /\ period < MaxPeriod
    /\ period' = period + 1
    /\ UNCHANGED <<platform, device, flow, signing, web, issued, synced, txs, landed, counts,
                   excused>>

Next ==
    \/ \E j \in jobs : storeDone(j)
    \/ loadTickets \/ clearUser \/ reprocessInitialUrl \/ nextPeriod
    \/ \E f \in Flows :
         \/ \E u \in Users : handleVerify(f, u)
         \/ replaceTickets(f)
         \/ \E e \in Events : handleParticipate(f, e) \/ handleClaimSolana(f, e)
         \/ storeOffchain(f) \/ reuseProof(f) \/ notReady(f) \/ signTransaction(f)
         \/ signTimeout(f) \/ handleCancelPhantomWait(f)
         \/ sendConfirmed(f) \/ sendUnconfirmed(f) \/ sendFailed(f) \/ sendAlreadyInUse(f)
         \/ recordProof(f) \/ syncProof(f) \/ showSuccess(f) \/ resume(f)
         \/ \E tx \in requests : callback(f, tx)
    \/ \E tx \in requests : handleRedirect(tx) \/ declined(tx) \/ coldStart(tx) \/ callbackDeclined(tx)

Spec == Init /\ [][Next]_vars

---------------------------------------------------------------------------
(* Properties *)

\* A payout the device made is on record: the worker was told of it or it is
\* among the receipts stored for the account that claimed, whatever screens,
\* polls, code changes and account changes happened since - unless its own
\* confirmation, process or account was lost on the way, its callback page
\* knew no event, or a store write was issued while another write or a load
\* of the same account was in flight (recipientTicketStore.ts, [action].tsx).
ReceiptsKept ==
    overlapped \/ \A tx \in landed \ (carried(Flows) \cup excused) :
                     told(tx) \/ tx \in heldIn(txs[tx].user)

\* The list stored for an account holds receipts of that account only, except
\* those of a flow that outlived the account change or was answered with the
\* signature of another account's.
ScopesSeparate ==
    \A u \in Users : \A tx \in heldIn(u) \ excused : txs[tx].user = u
=============================================================================

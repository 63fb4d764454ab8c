------------------------------ MODULE ClaimFlow ------------------------------
(***************************************************************************)
(* Claiming a ticket of one event: POST /v1/school/claims (wallet or join  *)
(* token), POST /api/events/:id/claim (user id) and the close of the       *)
(* event, with the claim store, the confirmation codes, the audit entries  *)
(* and the ticket receipts they write, from SchoolStore.fetch to the       *)
(* answer.                                                                 *)
(*                                                                         *)
(* Requests run in one Durable Object. Its input gate delivers no other    *)
(* event while a request waits for storage, so a request loses control     *)
(* only where it waits for something outside: the cost-of-forgery service  *)
(* and the immutable sinks behind appendAuditLog. The object can be lost   *)
(* between any two storage writes. The audit log is used as an append-only *)
(* log of entries, each with its predecessor in the global chain and in    *)
(* the chain of its stream. A crash inside an append can lose an entry     *)
(* that is already the head of the global chain, or of both; the next      *)
(* entry of that chain then names a missing predecessor.                   *)
(***************************************************************************)
EXTENDS Integers, Sequences, FiniteSets

CONSTANTS
  Requests,      (* requests, each used once                                *)
  Subjects,      (* users, wallets or join tokens                           *)
  Codes,         (* the confirmation codes genConfirmationCode can return   *)
  Txs,           (* transaction signatures a client can report              *)
  MaxClaims,     (* maxClaimsPerInterval of the event                       *)
  Interval,      (* claimIntervalDays of the event, in ticks                *)
  ScanLimit,     (* AUDIT_ENTRY_SCAN_LIMIT                                  *)
  MaxStored,     (* MAX_STORED_CLAIM_HISTORY                                *)
  Environments,  (* deployments: mode, ready (a primary sink is bound), cof *)
  MaxTime,       (* bound: last instant of the clock                        *)
  MaxCrashes,    (* bound: crashes of the object                            *)
  None

ASSUME ClaimFlowAssumption ==
  /\ MaxClaims \in Nat \ {0} /\ Interval \in Nat /\ ScanLimit \in Nat \ {0}
  /\ MaxStored \in Nat \ {0} /\ MaxTime \in Nat /\ MaxCrashes \in Nat
  /\ None \notin Subjects \union Codes \union Txs \union Requests
  /\ None \notin [code : Codes, subject : Subjects, entry : Nat]

VARIABLES
  env, clock, crashes,
  published,   (* the event's state is published                             *)
  claims,      (* storage: claim:<event>:<subject>                           *)
  index,       (* storage: the owner of each confirmation code               *)
  byCode,      (* storage: ticket receipts by code                           *)
  bySubject,   (* storage: latest ticket receipt of each subject             *)
  audit,       (* the audit history, oldest first                            *)
  lastHash,    (* storage: the heads of the audit chains                     *)
  gate,        (* the request that is waiting for storage                    *)
  req          (* the requests in progress                                   *)

stored == <<published, claims, index, byCode, bySubject>>
auditLog == <<audit, lastHash>>
vars == <<env, clock, crashes, stored, auditLog, gate, req>>

Appending == {"audit", "audit_close", "answer", "answer_open"}
Outside == {"judge"} \union Appending
Inside == {"reserve", "add", "release", "ensure", "store_code", "store_subject", "resolve"}
Working == Outside \union Inside

(* eventIdForAudit: the event of the path or the body; "system" stands for *)
(* every other stream, the one of a request that names no event included.  *)
Streams == {"event", "system"}
Chains == {"global"} \union Streams

(* The hash of audit[i] is i, and the hash of the entry that was lost in   *)
(* the k-th crash is -k.                                                   *)
GENESIS == 0

Idle == [pc |-> "idle", subject |-> None, code |-> None, tx |-> None, entry |-> 0,
         backfill |-> FALSE, stream |-> "event", reply |-> "none"]

noClaims == [history |-> <<>>, pending |-> None]

Init ==
  /\ env \in Environments
  /\ clock = 1 /\ crashes = 0 /\ published = TRUE
  /\ claims = [s \in Subjects |-> noClaims]
  /\ index = [c \in Codes |-> None]
  /\ byCode = [c \in Codes |-> None]
  /\ bySubject = [s \in Subjects |-> None]
  /\ audit = <<>> /\ lastHash = [k \in Chains |-> GENESIS]
  /\ gate = None
  /\ req = [r \in Requests |-> Idle]

-----------------------------------------------------------------------------
(* Reads.                                                                  *)

(* The confirmed on-chain claims of a subject: the entries with a          *)
(* transaction among the last ScanLimit ones, the newest for each of them. *)
collectConfirmedOnchainClaims(s) ==
  LET mine == {i \in DOMAIN audit :
                 i > Len(audit) - ScanLimit /\ audit[i].subject = s /\ audit[i].tx # None}
  IN {i \in mine : \A j \in mine : audit[j].tx = audit[i].tx => j <= i}

confirmedForCode(s, c) == \E i \in collectConfirmedOnchainClaims(s) : audit[i].code = c

(* Mutant: the quota allows one claim too many.                            *)
AllowOneMore(s) ==
  Cardinality({i \in collectConfirmedOnchainClaims(s) : audit[i].at >= clock - Interval})
    <= MaxClaims

canClaimNow(s) ==
  Cardinality({i \in collectConfirmedOnchainClaims(s) : audit[i].at >= clock - Interval})
    < MaxClaims

(* The pending claim, unless its code turns out to be confirmed on chain.  *)
openPending(s) ==
  IF claims[s].pending # None /\ confirmedForCode(s, claims[s].pending)
    THEN None ELSE claims[s].pending

latestCode(s) == LET h == claims[s].history IN IF h = <<>> THEN None ELSE h[Len(h)]

(* The code an answer to a subject that may not claim now carries.         *)
heldCode(s) == IF openPending(s) # None THEN openPending(s) ELSE latestCode(s)

getParticipationTicketReceipt(s, c) ==
  IF byCode[c] # None THEN byCode[c]
  ELSE IF bySubject[s] # None /\ bySubject[s].code = c THEN bySubject[s] ELSE None

confirmationCodeBelongsToSubject(s, c) == index[c] = s

getAuditEntryByHash(e) == e \in DOMAIN audit

globalChainLinkValid(e) == audit[e].prev = GENESIS \/ getAuditEntryByHash(audit[e].prev)

streamChainLinkValid(e) ==
  LET prev == audit[e].stream_prev IN
  \/ prev = GENESIS
  \/ getAuditEntryByHash(prev) /\ audit[prev].stream = audit[e].stream

chainLinksValid(e) == globalChainLinkValid(e) /\ streamChainLinkValid(e)

(* The entry exists and carries the code. What a receipt copies from its   *)
(* entry, the hashes and the sinks, never changes.                         *)
receiptMatchesEntry(t) == getAuditEntryByHash(t.entry) /\ audit[t.entry].code = t.code

verifyParticipationTicketReceipt(t) == receiptMatchesEntry(t) /\ chainLinksValid(t.entry)

-----------------------------------------------------------------------------
(* Control.                                                                *)

MayRun(r) == gate \in {None, r}

at(r, pc) == req[r].pc = pc /\ MayRun(r)

(* The request goes on at pc; it keeps the gate while it waits for storage. *)
goto(r, pc, changes) ==
  /\ req' = [req EXCEPT ![r] = [changes EXCEPT !.pc = pc]]
  /\ gate' = IF pc \in Inside THEN r ELSE None

reply(r, what, changes) == goto(r, "answer", [changes EXCEPT !.reply = what])

failClosed == env.mode = "required"

(* Required mode without a primary sink serves no mutating request.        *)
serving == failClosed => env.ready

-----------------------------------------------------------------------------
(* fetch answers 413 or 429 before anything else and 503 when required     *)
(* mode has no primary sink; these are not audited.                        *)
turnAway(r) ==
  /\ at(r, "idle")
  /\ \/ goto(r, "done", [req[r] EXCEPT !.reply = "error"])
     \/ ~serving /\ goto(r, "done", [req[r] EXCEPT !.reply = "503"])
  /\ UNCHANGED <<env, clock, crashes, stored, auditLog>>

(* Any other refusal (body, PIN, moderation, unknown or ended event,       *)
(* malformed proof) leaves the claim state alone and is audited, in the    *)
(* stream of the event if the request names it.                            *)
refuse(r) ==
  /\ at(r, "idle") /\ serving
  /\ \E stream \in Streams : reply(r, "error", [req[r] EXCEPT !.stream = stream])
  /\ UNCHANGED <<env, clock, crashes, stored, auditLog>>

(* POST /api/audit/receipts/verify-code, which names the event, and        *)
(* POST /api/audit/receipts/verify, which sends the receipt.               *)
verifyCode(r, c) ==
  /\ at(r, "idle") /\ serving
  /\ byCode[c] # None
  /\ \E stream \in Streams :
       reply(r, IF verifyParticipationTicketReceipt(byCode[c]) THEN "verified" ELSE "error",
             [req[r] EXCEPT !.stream = stream])
  /\ UNCHANGED <<env, clock, crashes, stored, auditLog>>

accepted(r) == at(r, "idle") /\ published /\ serving

resolvePendingClaim(s, c) ==
  claims' = IF claims[s].pending = c THEN [claims EXCEPT ![s].pending = None] ELSE claims

(* Mutant: a pending claim is ignored.                                     *)
ClaimIgnoringPending(r, s) ==
  LET mine == [req[r] EXCEPT !.subject = s] IN
  /\ accepted(r)
  /\ IF ~canClaimNow(s) THEN reply(r, "already", mine)
     ELSE goto(r, IF env.cof THEN "judge" ELSE "reserve", mine)
  /\ UNCHANGED <<env, clock, crashes, stored, auditLog>>

(* A claim without an on-chain proof.                                      *)
claim(r, s) ==
  LET mine == [req[r] EXCEPT !.subject = s]
  IN
  /\ accepted(r)
  /\ claims' = [claims EXCEPT ![s].pending = openPending(s)]
  /\ IF openPending(s) # None \/ ~canClaimNow(s)
       THEN reply(r, "already", [mine EXCEPT !.code = heldCode(s)])
       ELSE goto(r, IF env.cof THEN "judge" ELSE "reserve", mine)
  /\ UNCHANGED <<env, clock, crashes, published, index, byCode, bySubject, auditLog>>

(* A claim that reports transaction t for the code c.                      *)
claimWithProof(r, s, c, t) ==
  LET receipt == getParticipationTicketReceipt(s, c)
      mine == [req[r] EXCEPT !.subject = s, !.code = c, !.tx = t,
                 !.backfill = receipt = None \/ ~verifyParticipationTicketReceipt(receipt)]
  IN
  /\ accepted(r)
  /\ claims' = [claims EXCEPT ![s].pending = openPending(s)]
  /\ IF confirmationCodeBelongsToSubject(s, c)
       THEN goto(r, "audit", mine) ELSE reply(r, "error", [req[r] EXCEPT !.subject = s])
  /\ UNCHANGED <<env, clock, crashes, published, index, byCode, bySubject, auditLog>>

(* The cost-of-forgery service answers, or does not (fail open or closed). *)
enforceCostOfForgeryRisk(r) ==
  /\ at(r, "judge")
  /\ \/ goto(r, "reserve", req[r])
     \/ reply(r, "error", req[r])
  /\ UNCHANGED <<env, clock, crashes, stored, auditLog>>

(* Mutant: the index is not consulted.                                     *)
ReserveAnyCode(r) ==
  /\ at(r, "reserve")
  /\ \E c \in Codes :
       /\ index' = [index EXCEPT ![c] = req[r].subject]
       /\ goto(r, "add", [req[r] EXCEPT !.code = c])
  /\ UNCHANGED <<env, clock, crashes, published, claims, byCode, bySubject, auditLog>>

(* A free code, or an error after CONFIRMATION_CODE_MAX_ATTEMPTS.          *)
reserveUniqueConfirmationCode(r) ==
  /\ at(r, "reserve")
  /\ \/ \E c \in Codes :
          /\ index[c] = None /\ byCode[c] = None
          /\ index' = [index EXCEPT ![c] = req[r].subject]
          /\ goto(r, "add", [req[r] EXCEPT !.code = c])
     \/ reply(r, "error", req[r]) /\ UNCHANGED index
  /\ UNCHANGED <<env, clock, crashes, published, claims, byCode, bySubject, auditLog>>

keepLast(h) == IF Len(h) > MaxStored THEN SubSeq(h, Len(h) - MaxStored + 1, Len(h)) ELSE h

(* addClaim, or a storage error that leads to the release of the code.     *)
addClaim(r) ==
  LET s == req[r].subject
      c == req[r].code
  IN
  /\ at(r, "add")
  /\ \/ /\ claims' = [claims EXCEPT ![s] = [history |-> keepLast(Append(claims[s].history, c)),
                                            pending |-> c]]
        /\ goto(r, "ensure", req[r])
     \/ goto(r, "release", req[r]) /\ UNCHANGED claims
  /\ UNCHANGED <<env, clock, crashes, published, index, byCode, bySubject, auditLog>>

releaseReservedConfirmationCode(r) ==
  LET c == req[r].code IN
  /\ at(r, "release")
  /\ index' = IF index[c] = req[r].subject THEN [index EXCEPT ![c] = None] ELSE index
  /\ reply(r, "error", [req[r] EXCEPT !.code = None])
  /\ UNCHANGED <<env, clock, crashes, published, claims, byCode, bySubject, auditLog>>

indexed(r) ==
  LET c == req[r].code IN
  IF index[c] = None THEN [index EXCEPT ![c] = req[r].subject] ELSE index

ensureConfirmationCodeIndexed(r) ==
  /\ at(r, "ensure")
  /\ index' = indexed(r)
  /\ goto(r, "audit", req[r])
  /\ UNCHANGED <<env, clock, crashes, published, claims, byCode, bySubject, auditLog>>

append(stream, subject, code, tx) ==
  /\ audit' = Append(audit, [subject |-> subject, code |-> code, tx |-> tx, at |-> clock,
                             stream |-> stream, prev |-> lastHash["global"],
                             stream_prev |-> lastHash[stream]])
  /\ lastHash' = [lastHash EXCEPT !["global"] = Len(audit) + 1, ![stream] = Len(audit) + 1]

(* Mutant: a failing audit append is swallowed and the ticket goes on.     *)
SwallowAuditError(r) ==
  /\ at(r, "audit")
  /\ \/ /\ append("event", req[r].subject, req[r].code, req[r].tx)
        /\ goto(r, IF req[r].tx = None \/ req[r].backfill THEN "store_code" ELSE "resolve",
                [req[r] EXCEPT !.entry = Len(audit) + 1])
     \/ /\ failClosed
        /\ goto(r, "store_code", req[r])
        /\ UNCHANGED auditLog
  /\ UNCHANGED <<env, clock, crashes, stored>>

(* The claim's own audit entry. In required mode the append can throw, and *)
(* fetch turns the exception into a 500.                                   *)
auditClaim(r) ==
  /\ at(r, "audit")
  /\ \/ /\ append("event", req[r].subject, req[r].code, req[r].tx)
        /\ goto(r, IF req[r].tx = None \/ req[r].backfill THEN "store_code" ELSE "resolve",
                [req[r] EXCEPT !.entry = Len(audit) + 1])
     \/ /\ failClosed
        /\ reply(r, "500", req[r])
        /\ UNCHANGED auditLog
  /\ UNCHANGED <<env, clock, crashes, stored>>

ticketReceipt(r) == [code |-> req[r].code, subject |-> req[r].subject, entry |-> req[r].entry]

(* storeParticipationTicketReceipt: the index if need be and two puts.     *)
storeReceiptByCode(r) ==
  /\ at(r, "store_code")
  /\ index' = indexed(r)
  /\ byCode' = [byCode EXCEPT ![req[r].code] = ticketReceipt(r)]
  /\ goto(r, "store_subject", req[r])
  /\ UNCHANGED <<env, clock, crashes, published, claims, bySubject, auditLog>>

storeReceiptBySubject(r) ==
  /\ at(r, "store_subject")
  /\ bySubject' = [bySubject EXCEPT ![req[r].subject] = ticketReceipt(r)]
  /\ IF req[r].tx = None THEN reply(r, "created", req[r]) ELSE goto(r, "resolve", req[r])
  /\ UNCHANGED <<env, clock, crashes, published, claims, index, byCode, auditLog>>

resolveConfirmed(r) ==
  /\ at(r, "resolve")
  /\ resolvePendingClaim(req[r].subject, req[r].code)
  /\ reply(r, "already", req[r])
  /\ UNCHANGED <<env, clock, crashes, published, index, byCode, bySubject, auditLog>>

(* The entry of a request in the API trail: route, actor and sanitized     *)
(* body, and never a claim's.                                              *)
trail(r) == append(req[r].stream, None, None, None)

(* appendApiAuditTrail: every request is audited before it is answered.    *)
answer(r) ==
  /\ at(r, "answer")
  /\ \/ trail(r) /\ goto(r, "done", req[r])
     \/ /\ failClosed
        /\ goto(r, "done", [req[r] EXCEPT !.reply = "503"])
        /\ UNCHANGED auditLog
  /\ UNCHANGED <<env, clock, crashes, stored>>

(* An admin ends the event; the entry about it is appended afterwards.     *)
closeEvent(r) ==
  /\ accepted(r)
  /\ published' = FALSE
  /\ goto(r, "audit_close", req[r])
  /\ UNCHANGED <<env, clock, crashes, claims, index, byCode, bySubject, auditLog>>

auditClose(r) ==
  /\ at(r, "audit_close")
  /\ \/ append("event", None, None, None) /\ reply(r, "ended", req[r])
     \/ failClosed /\ reply(r, "500", req[r]) /\ UNCHANGED auditLog
  /\ UNCHANGED <<env, clock, crashes, stored>>

(* The stream of the append a request is waiting for.                      *)
appendsTo(r) == IF req[r].pc \in {"audit", "audit_close"} THEN "event" ELSE req[r].stream

(* The object is lost. An append in flight may have put the global head,   *)
(* or that and the head of its stream, and not the history.                *)
Crash ==
  /\ crashes < MaxCrashes /\ crashes' = crashes + 1
  /\ req' = [r \in Requests |-> IF req[r].pc \in Working THEN [req[r] EXCEPT !.pc = "lost"]
                                ELSE req[r]]
  /\ gate' = None
  /\ \/ UNCHANGED lastHash
     \/ \E r \in Requests :
          /\ req[r].pc \in Appending
          /\ \E put \in {{"global"}, {"global", appendsTo(r)}} :
               lastHash' = [k \in Chains |-> IF k \in put THEN -crashes' ELSE lastHash[k]]
  /\ UNCHANGED <<env, clock, stored, audit>>

Tick ==
  /\ clock < MaxTime /\ clock' = clock + 1
  /\ UNCHANGED <<env, crashes, stored, auditLog, gate, req>>

-----------------------------------------------------------------------------
Receive(r) ==
  \/ turnAway(r) \/ refuse(r) \/ closeEvent(r) \/ \E c \in Codes : verifyCode(r, c)
  \/ \E s \in Subjects : claim(r, s) \/ \E c \in Codes, t \in Txs : claimWithProof(r, s, c, t)

Proceed(r) ==
  \/ enforceCostOfForgeryRisk(r) \/ reserveUniqueConfirmationCode(r) \/ addClaim(r)
  \/ releaseReservedConfirmationCode(r) \/ ensureConfirmationCodeIndexed(r) \/ auditClaim(r)
  \/ storeReceiptByCode(r) \/ storeReceiptBySubject(r) \/ resolveConfirmed(r)
  \/ auditClose(r) \/ answer(r)

Next ==
  \/ \E r \in Requests : Receive(r) \/ Proceed(r)
  \/ Crash \/ Tick

Spec == Init /\ [][Next]_vars

-----------------------------------------------------------------------------
(* Properties.                                                             *)

Receipt == [code : Codes, subject : Subjects, entry : Nat]

(* Types, and the gate: at most one request waits for storage.             *)
TypeOK ==
  /\ env \in Environments /\ clock \in Nat /\ crashes \in Nat
  /\ published \in BOOLEAN
  /\ lastHash \in [Chains -> -crashes..Len(audit)]
  /\ claims \in [Subjects -> [history : Seq(Codes), pending : Codes \union {None}]]
  /\ index \in [Codes -> Subjects \union {None}]
  /\ byCode \in [Codes -> Receipt \union {None}]
  /\ bySubject \in [Subjects -> Receipt \union {None}]
  /\ \A i \in DOMAIN audit : audit[i].at \in 1..clock
  /\ \A r \in Requests : req[r].pc \in Inside => gate = r /\ req[r].subject \in Subjects

codesOf(s) == {claims[s].history[i] : i \in DOMAIN claims[s].history}

(* A confirmation code belongs to one subject for good: the index, the     *)
(* claim histories and the receipts agree on it, whatever was released or  *)
(* lost on the way.                                                        *)
CodesBelong ==
  /\ \A s \in Subjects : \A c \in codesOf(s) : index[c] = s
  /\ \A c \in Codes : byCode[c] # None => index[c] = byCode[c].subject /\ byCode[c].code = c
  /\ \A i \in DOMAIN audit : audit[i].code # None => index[audit[i].code] = audit[i].subject

workingOn(c) == \E r \in Requests : req[r].code = c /\ req[r].pc \in Working

(* The entry follows one that a crash removed, in one of its two chains.   *)
followsLost(e) == audit[e].prev < 0 \/ audit[e].stream_prev < 0

(* A pending ticket has a receipt that verifies, unless a request for it   *)
(* is still running, was lost in a crash or answered an audit failure, or  *)
(* the receipt's entry follows one that a crash removed from the history.  *)
(* A crash spoils at most one entry of the global chain and one of a       *)
(* stream that way.                                                        *)
TicketBacked ==
  /\ \A e, f \in DOMAIN audit :
       e # f => /\ audit[e].prev < 0 => audit[e].prev # audit[f].prev
                /\ audit[e].stream_prev < 0 => audit[e].stream_prev # audit[f].stream_prev
  /\ \A s \in Subjects :
       LET c == claims[s].pending IN
       c # None =>
         \/ workingOn(c)
         \/ \E r \in Requests :
              req[r].code = c /\ (req[r].pc = "lost" \/ req[r].reply \in {"500", "503"})
         \/ /\ byCode[c] # None
            /\ \/ verifyParticipationTicketReceipt(byCode[c])
               \/ receiptMatchesEntry(byCode[c]) /\ followsLost(byCode[c].entry)

(* A subject never holds two open tickets: the codes of its history other  *)
(* than one are confirmed on chain.                                        *)
OneOpenTicket ==
  \A s \in Subjects :
    Cardinality({c \in codesOf(s) : ~\E i \in DOMAIN audit : audit[i].code = c /\ audit[i].tx # None})
      <= 1

(* Without a cost-of-forgery service there is nothing to wait for between  *)
(* the check of the pending claim and the new code, and it holds.          *)
OneOpenTicketUnjudged == ~env.cof => OneOpenTicket

(* The distinct transactions confirmed for a subject in the interval.      *)
usedInInterval(s) ==
  {audit[i].tx : i \in {k \in DOMAIN audit : /\ audit[k].subject = s /\ audit[k].tx # None
                                             /\ audit[k].at >= clock - Interval}}

(* A code is issued only while the event is published and the subject has  *)
(* confirmed fewer than MaxClaims claims in the interval: what the handler *)
(* read at its start still holds when it writes the claim, as long as it   *)
(* did not have to wait for a cost-of-forgery service.                     *)
IssuedWithinPolicy ==
  [][\A s \in Subjects :
       claims'[s].history # claims[s].history /\ ~env.cof =>
         published /\ Cardinality(usedInInterval(s)) < MaxClaims]_vars
=============================================================================

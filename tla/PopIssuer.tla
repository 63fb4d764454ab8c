----------------------------- MODULE PopIssuer -----------------------------
(***************************************************************************)
(* The worker's PoP proof issuer (issuePopClaimProof, getPopSigner)        *)
(* composed with the program that accepts the proofs (GrantProgram): a     *)
(* client with a ticket asks for a proof, keeps it, and presents it to     *)
(* claim_grant at some later time, while the HD signer rotates, the        *)
(* authority replaces its PopConfig, and the object is lost between two    *)
(* writes. One grant, one event; worker and cluster share a clock.         *)
(* TicketIssue sets the event up and completes the specification.          *)
(***************************************************************************)
EXTENDS GrantProgram

CONSTANTS
  Requests,          (* calls of POST /v1/school/pop-proof, each used once   *)
  Tickets,           (* confirmation codes; also their receipt hashes        *)
  Modes,             (* configurations: "rotation", "fixed" or "none"        *)
  SignerOf,          (* the signer derived for each rotation index           *)
  RotationStart,     (* POP_SIGNER_HD_ROTATION_START_UNIX                    *)
  RotationInterval,  (* POP_SIGNER_HD_ROTATION_INTERVAL_DAYS, in ticks       *)
  ReuseMaxAge,       (* POP_PROOF_REUSE_MAX_AGE_SECONDS                      *)
  MaxCrashes         (* bound: crashes of the object                         *)

ASSUME IssuerAssumption ==
  /\ RotationStart \in Nat /\ RotationInterval \in Nat \ {0}
  /\ ReuseMaxAge \in Nat /\ ReuseMaxAge <= MaxSkew /\ MaxCrashes \in Nat
  /\ ZeroHash \notin Tickets
  /\ SignerOf \in [0..MaxTime -> Signers] /\ None \notin Signers

VARIABLES
  mode,         (* the configured signer                                     *)
  event,        (* the event in the worker's store: none, published or ended *)
  verified,     (* tickets whose receipt is stored and verifies              *)
  signerCache,  (* memory: popSignerCache                                    *)
  lock,         (* memory: the requests chained on popProofLock              *)
  call,         (* memory: the requests in progress                          *)
  heads,        (* storage: global and stream head of the grant's PoP chain  *)
  history,      (* storage: pop_chain:history rows                           *)
  cache,        (* storage: proofs by request fingerprint                    *)
  anchors,      (* audit entries POP_CLAIM_PROOF_ANCHOR                      *)
  delivered,    (* history: proofs returned to clients, and when             *)
  crashes

memory == <<signerCache, lock, call>>
store  == <<heads, history, cache>>
issuer == <<mode, event, verified, memory, store, anchors, delivered, crashes>>

TheGrant == CHOOSE g \in Grants : TRUE

Idle == [pc |-> "idle"]

published == event = "published"

IssuerInit ==
  /\ mode \in Modes
  /\ event = "none" /\ verified = {}
  /\ signerCache = None /\ lock = <<>>
  /\ call = [r \in Requests |-> Idle]
  /\ heads = [global |-> ZeroHash, stream |-> ZeroHash]
  /\ history = {} /\ cache = {} /\ anchors = {} /\ delivered = {}
  /\ crashes = 0

-----------------------------------------------------------------------------
(* The signer of the rotation window an instant lies in.                   *)
rotationIndex(t) ==
  IF mode # "rotation" \/ t <= RotationStart THEN 0 ELSE (t - RotationStart) \div RotationInterval

(* Mutant: the cached signer is not keyed by the rotation index.           *)
CachedSigner(t) ==
  IF signerCache # None THEN signerCache
  ELSE [index |-> rotationIndex(t), signer |-> SignerOf[rotationIndex(t)]]

(* Derived anew unless the cached one is of the same window.               *)
getPopSigner(t) ==
  IF signerCache # None /\ signerCache.index = rotationIndex(t) THEN signerCache
  ELSE [index |-> rotationIndex(t), signer |-> SignerOf[rotationIndex(t)]]

isReusablePopClaimProof(proof) ==
  now - proof.message.issued_at >= 0 /\ now - proof.message.issued_at <= ReuseMaxAge

cachedProofs(key) == {e \in cache : e.key = key}

proofCacheKey(c) == <<c.ticket, c.claimer, c.period, c.expected>>

buildPopProofMessage(c) ==
  LET m == [version |-> 2, grant |-> TheGrant, claimer |-> c.claimer, period_index |-> c.period,
            prev_hash |-> c.prev, stream_prev_hash |-> c.stream_prev,
            audit_hash |-> c.ticket, issued_at |-> c.issued_at]
  IN [version |-> 2, grant |-> TheGrant, claimer |-> c.claimer, period_index |-> c.period,
      prev_hash |-> c.prev, stream_prev_hash |-> c.stream_prev, audit_hash |-> c.ticket,
      issued_at |-> c.issued_at, entry_hash |-> pop_entry_hash(m)]

(* The answer as the client puts it before the claim instruction.          *)
signedProof(c) ==
  [program_id |-> "ed25519", inline |-> TRUE, signer |-> c.signer,
   message |-> buildPopProofMessage(c)]

-----------------------------------------------------------------------------
(* Mutant: requests do not wait for each other.                            *)
Unlocked(r) == call[r].pc # "idle"

(* r has the lock.                                                         *)
holds(r) == lock # <<>> /\ Head(lock) = r

at(r, pc) == call[r].pc = pc /\ holds(r)

goto(r, pc) == call' = [call EXCEPT ![r].pc = pc] /\ UNCHANGED lock

(* The task settles, either way, and the next one starts.                  *)
settle(r, pc) ==
  /\ call' = [call EXCEPT ![r] = [pc |-> pc]]
  /\ lock' = Tail(lock)

deliver(proof, key, began, reused) ==
  delivered' = delivered \union
    {[proof |-> proof, key |-> key, at |-> now, began |-> began, reused |-> reused]}

(* A request arrives. Clients send the on-chain head when there is one.    *)
request(r, ticket, claimer, period, withHead) ==
  LET head == pop_state[TheGrant] IN
  /\ call[r].pc = "idle" /\ event # "none"
  /\ withHead => head # None
  /\ call' = [call EXCEPT ![r] =
       [pc |-> "queued", ticket |-> ticket, claimer |-> claimer, period |-> period,
        expected |-> IF withHead THEN head.last_hash ELSE None,
        signer |-> None, began |-> now, issued_at |-> now,
        prev |-> ZeroHash, stream_prev |-> ZeroHash]]
  /\ lock' = Append(lock, r)
  /\ UNCHANGED <<vars, mode, event, verified, signerCache, store, anchors, delivered, crashes>>

(* The signer is fixed first, before anything is read.                     *)
begin(r) ==
  /\ at(r, "queued")
  /\ IF mode = "none" THEN settle(r, "error") /\ UNCHANGED signerCache
     ELSE /\ signerCache' = getPopSigner(now)
          /\ call' = [call EXCEPT ![r].pc = "lookup", ![r].signer = getPopSigner(now).signer,
                                  ![r].began = now]
          /\ UNCHANGED lock
  /\ UNCHANGED <<vars, mode, event, verified, store, anchors, delivered, crashes>>

(* Mutant: the receipt is not looked at.                                   *)
LookupAnyTicket(r) ==
  /\ at(r, "lookup")
  /\ call' = [call EXCEPT ![r].pc = "anchor", ![r].issued_at = now,
                          ![r].prev = heads.global, ![r].stream_prev = heads.stream]
  /\ UNCHANGED <<vars, mode, event, verified, signerCache, lock, store, anchors, delivered, crashes>>

(* The event, the ticket and the cache are looked up, then the heads.      *)
lookup(r) ==
  LET c == call[r]
      hit == {e \in cachedProofs(proofCacheKey(c)) : isReusablePopClaimProof(e.proof)}
  IN
  /\ at(r, "lookup")
  /\ \/ /\ ~published \/ c.ticket \notin verified
        /\ settle(r, "error")
        /\ UNCHANGED delivered
     \/ /\ published /\ c.ticket \in verified
        /\ \E e \in hit : deliver(e.proof, e.key, e.began, TRUE)
        /\ settle(r, "done")
     \/ /\ published /\ c.ticket \in verified /\ hit = {}
        /\ call' = [call EXCEPT ![r].pc = "anchor", ![r].issued_at = now,
                      ![r].prev = IF c.expected = None THEN heads.global ELSE c.expected,
                      ![r].stream_prev = IF c.expected = None THEN heads.stream ELSE c.expected]
        /\ UNCHANGED <<lock, delivered>>
  /\ UNCHANGED <<vars, mode, event, verified, signerCache, store, anchors, crashes>>

(* appendAuditLog, which may throw.                                        *)
anchor(r) ==
  LET c == call[r] IN
  /\ at(r, "anchor")
  /\ \/ /\ anchors' = anchors \union {[ticket |-> c.ticket, claimer |-> c.claimer, period |-> c.period]}
        /\ goto(r, IF c.expected = None THEN "put_global" ELSE "put_history")
     \/ settle(r, "error") /\ UNCHANGED anchors
  /\ UNCHANGED <<vars, mode, event, verified, signerCache, store, delivered, crashes>>

putGlobal(r) ==
  /\ at(r, "put_global")
  /\ heads' = [heads EXCEPT !.global = buildPopProofMessage(call[r]).entry_hash]
  /\ goto(r, "put_stream")
  /\ UNCHANGED <<vars, mode, event, verified, signerCache, history, cache, anchors, delivered, crashes>>

putStream(r) ==
  /\ at(r, "put_stream")
  /\ heads' = [heads EXCEPT !.stream = buildPopProofMessage(call[r]).entry_hash]
  /\ goto(r, "put_history")
  /\ UNCHANGED <<vars, mode, event, verified, signerCache, history, cache, anchors, delivered, crashes>>

putHistory(r) ==
  /\ at(r, "put_history")
  /\ history' = history \union
       {[message |-> buildPopProofMessage(call[r]), popChainAdvanced |-> call[r].expected = None]}
  /\ goto(r, "put_cache")
  /\ UNCHANGED <<vars, mode, event, verified, signerCache, heads, cache, anchors, delivered, crashes>>

(* Mutant: the proof is returned and not kept.                             *)
AnswerWithoutCache(r) ==
  /\ at(r, "put_cache")
  /\ deliver(signedProof(call[r]), proofCacheKey(call[r]), call[r].began, FALSE)
  /\ settle(r, "done")
  /\ UNCHANGED <<vars, mode, event, verified, signerCache, store, anchors, crashes>>

(* The proof is signed, kept for reuse and returned.                       *)
putCacheAndAnswer(r) ==
  LET c == call[r]
      key == proofCacheKey(c)
  IN
  /\ at(r, "put_cache")
  /\ cache' = (cache \ cachedProofs(key)) \union
       {[key |-> key, proof |-> signedProof(c), began |-> c.began]}
  /\ \/ deliver(signedProof(c), key, c.began, FALSE)
     \/ UNCHANGED delivered
  /\ settle(r, "done")
  /\ UNCHANGED <<vars, mode, event, verified, signerCache, heads, history, anchors, crashes>>

(* The object is lost; what was put stays.                                 *)
Crash ==
  /\ crashes < MaxCrashes /\ crashes' = crashes + 1
  /\ call' = [r \in Requests |-> IF call[r].pc = "idle" THEN Idle
                                 ELSE IF call[r].pc \in {"done", "error"} THEN call[r]
                                 ELSE [pc |-> "lost"]]
  /\ lock' = <<>> /\ signerCache' = None
  /\ UNCHANGED <<vars, mode, event, verified, store, anchors, delivered>>

-----------------------------------------------------------------------------
(* Around the issuer: tickets are issued, the event ends, the authority    *)
(* follows the rotation, changes, pauses, restricts or closes its grant,   *)
(* holders of the token fund it, and clients claim with proofs they were   *)
(* given.                                                                  *)

ticketIssued(t) ==
  /\ published
  /\ verified' = verified \union {t}
  /\ UNCHANGED <<vars, mode, event, memory, store, anchors, delivered, crashes>>

eventEnded ==
  /\ published /\ event' = "ended"
  /\ UNCHANGED <<vars, mode, verified, memory, store, anchors, delivered, crashes>>

Onchain ==
  /\ \/ Tick
     \/ \E w \in Authorities, s \in Signers : upsert_pop_config(w, s)
     \/ Administer(TheGrant)
     \/ \E w \in Wallets, a \in Amounts : fund_grant(TheGrant, w, MintOf(TheGrant), a)
     \/ \E d \in delivered, w \in Wallets, n \in PeriodIndexes :
          \/ claim_grant(TheGrant, w, MintOf(TheGrant), n, d.proof)
          \/ \E proof \in MerkleProofs :
               claim_grant_with_proof(TheGrant, w, MintOf(TheGrant), n, d.proof, proof)
  /\ UNCHANGED issuer

Steps(r) ==
  begin(r) \/ lookup(r) \/ anchor(r) \/ putGlobal(r) \/ putStream(r) \/ putHistory(r)
    \/ putCacheAndAnswer(r)

IssuerNext ==
  \/ \E r \in Requests :
       \/ \E t \in Tickets, w \in Wallets \ Authorities, n \in PeriodIndexes, h \in BOOLEAN :
            request(r, t, w, n, h)
       \/ Steps(r)
  \/ \E t \in Tickets : ticketIssued(t)
  \/ eventEnded
  \/ Onchain
  \/ Crash

-----------------------------------------------------------------------------
(* The proofs of the stored chain never share a predecessor, whatever      *)
(* overlaps or is lost (eventCreate.test.ts: "serializes concurrent PoP    *)
(* proof requests without forking the chain").                             *)
NoPopFork ==
  \A x, y \in history :
    x.popChainAdvanced /\ y.popChainAdvanced /\ x # y =>
      /\ x.message.prev_hash # y.message.prev_hash
      /\ x.message.stream_prev_hash # y.message.stream_prev_hash

(* A proof handed out again from the cache is still accepted by the        *)
(* program for at least MaxSkew - ReuseMaxAge, a new one for MaxSkew after *)
(* it was issued, provided the authority's PopConfig names the signer of   *)
(* the window the proof was begun in.                                      *)
UsableOnChain ==
  \A d \in delivered :
    LET m == d.proof.message IN
    ( /\ now <= MaxSkew + (IF d.reused THEN d.at - ReuseMaxAge ELSE m.issued_at)
      /\ pop_config[Authority(TheGrant)] = SignerOf[rotationIndex(d.began)] )
    => verify_pop_proof(TheGrant, m.claimer, m.period_index, d.proof)

(* Two different proofs handed out for identical requests were issued more *)
(* than ReuseMaxAge apart: a retry, also after a crash, gets the proof it  *)
(* would have got ("reuses a fresh PoP proof for identical repeated        *)
(* requests").                                                             *)
SameProofWhileFresh ==
  \A d, e \in delivered :
    d.key = e.key /\ d.proof # e.proof =>
      absolute_i64_diff(d.proof.message.issued_at, e.proof.message.issued_at) > ReuseMaxAge

(* Whoever is paid on chain has a verified ticket, and the audit log       *)
(* anchors the proof that paid.                                            *)
PayoutAnchored ==
  \A p \in payouts :
    \E a \in anchors :
      /\ a.claimer = p.claimer /\ a.period = p.period_index
      /\ a.ticket \in verified /\ a.ticket = p.entry_hash[4]
=============================================================================

----------------------------- MODULE Enrollment -----------------------------
(***************************************************************************)
(* Who may register and claim: POST /api/users/register with its chain of  *)
(* user ids, the cost-of-forgery check in front of registrations and       *)
(* claims with its cache of wallet decisions, and the remediation requests *)
(* whose approval overrides it. A request loses control while it waits for *)
(* the risk service, for the registration lock, or for the body of a       *)
(* decision that was already looked up; the object may be lost between     *)
(* two puts.                                                               *)
(***************************************************************************)
EXTENDS Integers, Sequences, FiniteSets

CONSTANTS
  None,
  Calls,          (* registrations and claims, each used once                *)
  Users, Wallets,
  Events,
  MinScore,       (* resolveCostOfForgeryMinScore: of None (registration)    *)
                  (* and of each event's risk profile                        *)
  Scores,         (* scores the service may return                           *)
  Policies,       (* deployments: [register, claim : "off", "open", "closed"]*)
  CacheTTL,       (* COST_OF_FORGERY_CACHE_TTL_SECONDS                       *)
  OverrideTTL,    (* COST_OF_FORGERY_REMEDIATION_OVERRIDE_TTL_MINUTES        *)
  RemediationIds, (* remediation requests                                    *)
  Remediable,     (* what they are about: action, event and subject          *)
  Deciders,       (* approve and reject calls in progress                    *)
  MaxTime,        (* bound: clock                                            *)
  MaxCrashes      (* bound: crashes                                          *)

Keys == ({"user_register"} \X {None} \X Users) \union ({"user_claim"} \X Events \X Users)
          \union ({"wallet_claim"} \X Events \X Wallets)

ASSUME EnrollmentAssumption ==
  /\ CacheTTL \in Nat /\ OverrideTTL \in Nat \ {0} /\ MaxTime \in Nat /\ MaxCrashes \in Nat
  /\ None \notin Users \union Wallets \union Events
  /\ DOMAIN MinScore = Events \union {None}
  /\ Remediable \subseteq Keys
  /\ None \notin [prev : Seq(Users), hash : Seq(Users)]

VARIABLES
  now, crashes, policy,
  call,       (* memory: registrations and claims                           *)
  lock,       (* memory: the calls chained on userIdRegistrationLock        *)
  decider,    (* memory: approvals and rejections waiting for their body    *)
  user,       (* storage: accounts, by the call that made each              *)
  index,      (* storage: user id chain records                             *)
  head,       (* storage: the last chain hash                               *)
  cache,      (* storage: wallet decisions by wallet and minimum score      *)
  ticket,     (* storage: remediation requests                              *)
  override,   (* storage: overrides by action, event and subject            *)
  verdicts,   (* history: the minima the service's answers passed           *)
  admitted,   (* history: claims let through                                *)
  contested,  (* history: remediation requests on which an approval and a   *)
              (* rejection overlapped                                       *)
  torn        (* history: those whose approval was lost between its puts    *)

registry == <<lock, user, index, head>>
remediation == <<decider, ticket, override, contested, torn>>
history == <<verdicts, admitted>>
vars == <<now, crashes, policy, call, registry, cache, remediation, history>>

Genesis == <<>>
Idle == [pc |-> "idle"]
noRequest == [status |-> "none"]
Minima == {MinScore[e] : e \in Events}

Init ==
  /\ now = 0 /\ crashes = 0 /\ policy \in Policies
  /\ call = [r \in Calls |-> Idle] /\ lock = <<>> /\ decider = [d \in Deciders |-> None]
  /\ user = [u \in Users |-> None] /\ index = [u \in Users |-> None] /\ head = Genesis
  /\ cache = [w \in Wallets |-> [m \in Minima |-> None]]
  /\ ticket = [q \in RemediationIds |-> noRequest]
  /\ override = [k \in Keys |-> None]
  /\ verdicts = {} /\ admitted = {} /\ contested = {} /\ torn = {}

-----------------------------------------------------------------------------
(* The cost-of-forgery check.                                              *)

(* An answer: an explicit verdict or none, and a score or none. An         *)
(* explicit refusal or a low score refuses; no word at all lets through.   *)
parseCostOfForgeryDecision(answer, minScore) ==
  /\ answer.verdict # "deny"
  /\ answer.score # None => answer.score >= minScore

(* Mutant: one decision for every minimum score.                           *)
CachedForAnyScore(w, minScore) ==
  LET valid == {m \in Minima : cache[w][m] # None /\ cache[w][m].expires > now}
  IN IF valid = {} THEN None ELSE cache[w][CHOOSE m \in valid : TRUE]

getCachedWalletCostOfForgeryDecision(w, minScore) ==
  LET c == cache[w][minScore]
  IN IF CacheTTL > 0 /\ c # None /\ c.expires > now THEN c ELSE None

cacheWalletCostOfForgeryDecision(c, allow) ==
  IF c.subject \in Wallets /\ CacheTTL > 0
  THEN [cache EXCEPT ![c.subject][MinScore[c.event]] =
          [allow |-> allow, expires |-> c.began + CacheTTL]]
  ELSE cache

findActiveCostOfForgeryRemediationOverride(key) ==
  override[key] # None /\ override[key].expires > now

keyOf(c) ==
  <<IF c.event = None THEN "user_register"
    ELSE IF c.subject \in Wallets THEN "wallet_claim" ELSE "user_claim", c.event, c.subject>>

(* "off": not enforced; "open" and "closed": what a failure means.         *)
failClosedFor(c) == IF c.event = None THEN policy.register ELSE policy.claim

(* The call is let through: a registration goes to the lock, a claim on to *)
(* the claim flow.                                                         *)
letThrough(r, c) ==
  IF c.event = None
  THEN /\ call' = [call EXCEPT ![r] = [c EXCEPT !.pc = "check"]]
       /\ lock' = Append(lock, r)
       /\ UNCHANGED admitted
  ELSE /\ call' = [call EXCEPT ![r] = [pc |-> "done"]]
       /\ admitted' = admitted \union {[subject |-> c.subject, event |-> c.event, began |-> c.began,
                                        overridden |-> override[keyOf(c)]]}
       /\ UNCHANGED lock

refuse(r) ==
  call' = [call EXCEPT ![r] = [pc |-> "refused"]] /\ UNCHANGED <<lock, admitted>>

(* Up to the call of the service.                                          *)
enforceCostOfForgeryRisk(r, subject, event) ==
  LET c == [pc |-> "judge", subject |-> subject, event |-> event, began |-> now,
            prev |-> Genesis]
      cached == IF subject \in Wallets
                THEN getCachedWalletCostOfForgeryDecision(subject, MinScore[event]) ELSE None
  IN \/ /\ failClosedFor(c) = "off" \/ findActiveCostOfForgeryRemediationOverride(keyOf(c))
        /\ letThrough(r, c)
     \/ /\ failClosedFor(c) # "off" /\ ~findActiveCostOfForgeryRemediationOverride(keyOf(c))
        /\ \/ cached # None /\ cached.allow /\ letThrough(r, c)
           \/ cached # None /\ ~cached.allow /\ refuse(r)
           \/ /\ cached = None
              /\ call' = [call EXCEPT ![r] = c]
              /\ UNCHANGED <<lock, admitted>>

(* The service answers; a wallet's decision is kept from when it was asked *)
(* for.                                                                    *)
evaluateCostOfForgeryDecision(r, answer) ==
  LET c == call[r]
      allow == parseCostOfForgeryDecision(answer, MinScore[c.event])
  IN
  /\ c.pc = "judge"
  /\ cache' = cacheWalletCostOfForgeryDecision(c, allow)
  /\ verdicts' = verdicts \union
       {[subject |-> c.subject, began |-> c.began, minScore |-> m] :
          m \in {n \in Minima : parseCostOfForgeryDecision(answer, n)}}
  /\ IF allow THEN letThrough(r, c) ELSE refuse(r)
  /\ UNCHANGED <<now, crashes, policy, user, index, head, remediation>>

(* It times out, fails, or is not configured.                              *)
serviceFails(r) ==
  LET c == call[r] IN
  /\ c.pc = "judge"
  /\ \/ failClosedFor(c) = "open" /\ letThrough(r, c)
     \/ failClosedFor(c) = "closed" /\ refuse(r)
  /\ UNCHANGED <<now, crashes, policy, user, index, head, cache, remediation, verdicts>>

-----------------------------------------------------------------------------
(* Claims and registrations. One that is refused before the check (body,   *)
(* moderated user, PIN, event) changes nothing.                            *)

claim(r, subject, event) ==
  /\ call[r].pc = "idle"
  /\ enforceCostOfForgeryRisk(r, subject, event)
  /\ UNCHANGED <<now, crashes, policy, user, index, head, cache, remediation, verdicts>>

register(r, u) ==
  /\ call[r].pc = "idle"
  /\ enforceCostOfForgeryRisk(r, u, None)
  /\ UNCHANGED <<now, crashes, policy, user, index, head, cache, remediation, verdicts>>

(* Mutant: nobody waits.                                                   *)
Unlocked(r) == TRUE

holdsRegistrationLock(r) == lock # <<>> /\ Head(lock) = r

at(r, pc) == call[r].pc = pc /\ holdsRegistrationLock(r)

(* The task of r, which has the lock, is over and the next one starts.     *)
settle(r, pc) ==
  /\ call' = [call EXCEPT ![r] = [pc |-> pc]]
  /\ lock' = Tail(lock)

(* A hash stands for the ids it was computed from, the newest first.       *)
chainHash(c) == <<c.subject>> \o c.prev

(* registerUserWithUniqueId: the account, its index record and the chain   *)
(* head are read, then put one after the other.                            *)
checkUserId(r) ==
  LET c == call[r] IN
  /\ at(r, "check")
  /\ IF user[c.subject] # None \/ index[c.subject] # None THEN settle(r, "duplicate")
     ELSE call' = [call EXCEPT ![r].pc = "put_user", ![r].prev = head] /\ UNCHANGED lock
  /\ UNCHANGED <<now, crashes, policy, user, index, head, cache, remediation, history>>

putUser(r) ==
  /\ at(r, "put_user")
  /\ user' = [user EXCEPT ![call[r].subject] = r]
  /\ call' = [call EXCEPT ![r].pc = "put_index"]
  /\ UNCHANGED <<now, crashes, policy, lock, index, head, cache, remediation, history>>

putUserIdIndex(r) ==
  LET c == call[r] IN
  /\ at(r, "put_index")
  /\ index' = [index EXCEPT ![c.subject] = [prev |-> c.prev, hash |-> chainHash(c)]]
  /\ call' = [call EXCEPT ![r].pc = "put_head"]
  /\ UNCHANGED <<now, crashes, policy, lock, user, head, cache, remediation, history>>

putChainHead(r) ==
  /\ at(r, "put_head")
  /\ head' = chainHash(call[r])
  /\ settle(r, "done")
  /\ UNCHANGED <<now, crashes, policy, user, index, cache, remediation, history>>

-----------------------------------------------------------------------------
(* Remediation.                                                            *)

requestRemediation(q, key) ==
  /\ ticket[q].status = "none"
  /\ ticket' = [ticket EXCEPT ![q] = [status |-> "pending", key |-> key]]
  /\ UNCHANGED <<now, crashes, policy, call, registry, cache, decider, override,
                 contested, torn, history>>

(* Mutant: a request may be decided again.                                 *)
LookUpAny(d, q, verdict) ==
  /\ decider[d] = None /\ ticket[q].status # "none"
  /\ decider' = [decider EXCEPT ![d] = [q |-> q, verdict |-> verdict]]
  /\ UNCHANGED <<now, crashes, policy, call, registry, cache, ticket, override,
                 contested, torn, history>>

(* An operator decides: the request is looked up, and is still pending ... *)
lookUpRemediation(d, q, verdict) ==
  /\ decider[d] = None /\ ticket[q].status = "pending"
  /\ decider' = [decider EXCEPT ![d] = [q |-> q, verdict |-> verdict]]
  /\ contested' = IF \E e \in Deciders : /\ decider[e] # None /\ decider[e].q = q
                                         /\ decider[e].verdict # verdict
                  THEN contested \union {q} ELSE contested
  /\ UNCHANGED <<now, crashes, policy, call, registry, cache, ticket, override, torn, history>>

crash ==
  /\ crashes < MaxCrashes /\ crashes' = crashes + 1
  /\ call' = [r \in Calls |-> IF call[r].pc \in {"idle", "done", "refused", "duplicate"}
                              THEN call[r] ELSE [pc |-> "lost"]]
  /\ lock' = <<>> /\ decider' = [d \in Deciders |-> None]

(* ... and its body has arrived. An approval puts the override, then the   *)
(* request as it was looked up.                                            *)
approveRemediation(d) ==
  LET q == decider[d].q
      key == ticket[q].key
  IN
  /\ decider[d] # None /\ decider[d].verdict = "approved"
  /\ override' = [override EXCEPT ![key] = [q |-> q, expires |-> now + OverrideTTL]]
  /\ \/ /\ ticket' = [ticket EXCEPT ![q].status = "approved"]
        /\ decider' = [decider EXCEPT ![d] = None]
        /\ UNCHANGED <<call, lock, crashes, torn>>
     \/ crash /\ torn' = torn \union {q} /\ UNCHANGED ticket
  /\ UNCHANGED <<now, policy, user, index, head, cache, contested, history>>

rejectRemediation(d) ==
  LET q == decider[d].q IN
  /\ decider[d] # None /\ decider[d].verdict = "rejected"
  /\ ticket' = [ticket EXCEPT ![q].status = "rejected"]
  /\ decider' = [decider EXCEPT ![d] = None]
  /\ UNCHANGED <<now, crashes, policy, call, registry, cache, override, contested, torn, history>>

-----------------------------------------------------------------------------
Tick == now < MaxTime /\ now' = now + 1
        /\ UNCHANGED <<crashes, policy, call, registry, cache, remediation, history>>

Crash ==
  /\ crash
  /\ UNCHANGED <<now, policy, user, index, head, cache, ticket, override, contested, torn, history>>

Registering(r) == checkUserId(r) \/ putUser(r) \/ putUserIdIndex(r) \/ putChainHead(r)

Next ==
  \/ Tick \/ Crash
  \/ \E r \in Calls :
       \/ \E u \in Users : register(r, u)
       \/ \E s \in Users \union Wallets, e \in Events : claim(r, s, e)
       \/ \E v \in {"allow", "deny", "none"}, s \in Scores \union {None} :
            evaluateCostOfForgeryDecision(r, [verdict |-> v, score |-> s])
       \/ serviceFails(r)
       \/ Registering(r)
  \/ \E q \in RemediationIds, k \in Remediable : requestRemediation(q, k)
  \/ \E d \in Deciders :
       \/ \E q \in RemediationIds, v \in {"approved", "rejected"} : lookUpRemediation(d, q, v)
       \/ approveRemediation(d) \/ rejectRemediation(d)

Spec == Init /\ [][Next]_vars

-----------------------------------------------------------------------------
(* Accounts without a chain record, and points where the chain forks.      *)
Unindexed ==
  {u \in Users : user[u] # None /\ index[u] = None /\ call[user[u]].pc # "put_index"}
Forks ==
  {p \in {index[u].prev : u \in {v \in Users : index[v] # None}} :
     Cardinality({u \in Users : index[u] # None /\ index[u].prev = p}) > 1}

(* The chain of user ids has every account and no fork, but for one of     *)
(* either for each crash: overlapping registrations never disturb it.      *)
RegistryGapsBoundedByCrashes ==
  Cardinality(Unindexed) + Cardinality(Forks) <= crashes

(* Where claims are enforced fail-closed, a claim is let through only on   *)
(* an override that had not expired, or on an answer of the service about  *)
(* this subject that passes the minimum of this event and was asked for    *)
(* by this request or less than CacheTTL before it (api-worker/README.md,  *)
(* 214 the decision cache, 218 fail-closed, 219 the override's lifetime).  *)
AdmittedOnFreshVerdict ==
  policy.claim = "closed" =>
    \A a \in admitted :
      \/ a.overridden # None /\ a.overridden.expires > a.began
      \/ \E v \in verdicts :
           /\ v.subject = a.subject
           /\ v.began = a.began \/ (a.subject \in Wallets /\ v.began + CacheTTL > a.began
                                      /\ v.began <= a.began)
           /\ v.minScore = MinScore[a.event]

(* An override stands only for a request whose last word is an approval,   *)
(* however approvals, repeats of them and crashes interleave: but for a    *)
(* request on which a rejection overlapped with an approval (both looked   *)
(* it up while it was pending, and either may write last), and one whose   *)
(* own approval was cut off between its two puts, which may be rejected    *)
(* afterwards (api-worker/README.md:230).                                  *)
DecidedOnce ==
  \A k \in Keys :
    override[k] # None /\ ticket[override[k].q].status # "approved" =>
      override[k].q \in contested \union torn
=============================================================================

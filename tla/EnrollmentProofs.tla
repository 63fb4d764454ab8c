-------------------------- MODULE EnrollmentProofs --------------------------
(***************************************************************************)
(* Proofs about Enrollment for any number of calls, subjects, events,      *)
(* scores and operators: a claim enforced fail-closed goes through only on *)
(* a fresh verdict, and an override stands only for an approved request.   *)
(***************************************************************************)
EXTENDS Enrollment, SequenceTheorems, FiniteSetTheorems, TLAPS

(* A call before its answer, and one on its way through a registration.    *)
Judged(c) ==
  /\ c = [pc |-> "judge", subject |-> c.subject, event |-> c.event, began |-> c.began,
          prev |-> c.prev]
  /\ c.event \in Events \union {None} /\ c.began \in Nat /\ c.began <= now

Entry == [allow : BOOLEAN, expires : Nat]

(* A kept decision comes from an answer about that wallet that passed that *)
(* minimum, asked for when its lifetime began.                             *)
Sourced(w, m) ==
  cache[w][m] # None /\ cache[w][m].allow =>
    \E v \in verdicts : /\ v.subject = w /\ v.minScore = m
                        /\ v.began \in Nat /\ v.began <= now
                        /\ v.began + CacheTTL = cache[w][m].expires

CheckInv ==
  /\ now \in Nat
  /\ DOMAIN call = Calls
  /\ \A r \in Calls : "pc" \in DOMAIN call[r] /\ (call[r].pc = "judge" => Judged(call[r]))
  /\ cache \in [Wallets -> [Minima -> Entry \union {None}]]
  /\ \A w \in Wallets, m \in Minima : Sourced(w, m)

(* What AdmittedOnFreshVerdict says of one admission.                      *)
OnFreshVerdict(a) ==
  \/ a.overridden # None /\ a.overridden.expires > a.began
  \/ \E v \in verdicts :
       /\ v.subject = a.subject
       /\ v.began = a.began \/ (a.subject \in Wallets /\ v.began + CacheTTL > a.began
                                  /\ v.began <= a.began)
       /\ v.minScore = MinScore[a.event]

Request == {noRequest} \union [status : {"pending", "approved", "rejected"}, key : Keys]

Holds(d, q) == decider[d] # None /\ decider[d].q = q

(* A decision under way is about a pending request, or one decided the     *)
(* same way, unless a contrary one overlapped with it.                     *)
DecisionInv ==
  /\ ticket \in [RemediationIds -> Request]
  /\ DOMAIN decider = Deciders /\ DOMAIN override = Keys
  /\ \A d \in Deciders : decider[d] # None =>
       /\ decider[d].q \in RemediationIds /\ ticket[decider[d].q].status # "none"
       /\ ticket[decider[d].q].status \in {"pending", decider[d].verdict} \/ decider[d].q \in contested
  /\ \A d, e \in Deciders, q \in RemediationIds :
       Holds(d, q) /\ Holds(e, q) /\ decider[d].verdict # decider[e].verdict => q \in contested
  /\ DecidedOnce

-----------------------------------------------------------------------------
(* The cost-of-forgery check.                                              *)

(* What the history records of a claim that goes through.                  *)
Admission(c) ==
  [subject |-> c.subject, event |-> c.event, began |-> c.began, overridden |-> override[keyOf(c)]]

(* A step of call r: no other call moves.                                  *)
MovesOnly(r) ==
  /\ DOMAIN call' = Calls /\ "pc" \in DOMAIN call'[r]
  /\ \A s \in Calls : s # r => call'[s] = call[s]

LEMMA LetThroughFacts ==
  ASSUME DOMAIN call = Calls, NEW r \in Calls, NEW subject, NEW event, NEW began, NEW prev, NEW c,
         c = [pc |-> "judge", subject |-> subject, event |-> event, began |-> began, prev |-> prev],
         letThrough(r, c)
  PROVE  /\ MovesOnly(r) /\ call'[r].pc # "judge"
         /\ admitted' = IF event = None THEN admitted ELSE admitted \union {Admission(c)}
<1>1. CASE event = None
  <2>1. call' = [call EXCEPT ![r] = [c EXCEPT !.pc = "check"]] /\ admitted' = admitted
    BY <1>1 DEF letThrough
  <2> QED
    BY <1>1, <2>1 DEF MovesOnly
<1>2. CASE event # None
  <2>1. call' = [call EXCEPT ![r] = [pc |-> "done"]] /\ admitted' = admitted \union {Admission(c)}
    BY <1>2 DEF letThrough, Admission
  <2> QED
    BY <1>2, <2>1 DEF MovesOnly
<1> QED
  BY <1>1, <1>2

LEMMA RefuseFacts ==
  ASSUME DOMAIN call = Calls, NEW r \in Calls, refuse(r)
  PROVE  MovesOnly(r) /\ call'[r].pc # "judge" /\ admitted' = admitted
BY DEF refuse, MovesOnly

(* What a claim or a registration does before it asks the service.         *)
LEMMA EnforceFacts ==
  ASSUME CheckInv, NEW r \in Calls, NEW subject \in Users \union Wallets,
         NEW event \in Events \union {None}, enforceCostOfForgeryRisk(r, subject, event)
  PROVE  /\ MovesOnly(r) /\ (call'[r].pc = "judge" => Judged(call'[r]))
         /\ \A a \in admitted' :
              a \in admitted \/ (policy.claim = "closed" => OnFreshVerdict(a))
<1> DEFINE c == [pc |-> "judge", subject |-> subject, event |-> event, began |-> now,
                 prev |-> Genesis]
           cached == IF subject \in Wallets
                     THEN getCachedWalletCostOfForgeryDecision(subject, MinScore[event]) ELSE None
           overridden == findActiveCostOfForgeryRemediationOverride(keyOf(c))
<1>1. now \in Nat /\ DOMAIN call = Calls
  BY DEF CheckInv
<1>2. ASSUME letThrough(r, c)
      PROVE  /\ MovesOnly(r) /\ call'[r].pc # "judge"
             /\ admitted' = IF event = None THEN admitted ELSE admitted \union {Admission(c)}
  BY <1>1, <1>2, LetThroughFacts
<1>3. CASE /\ failClosedFor(c) = "off" \/ overridden
           /\ letThrough(r, c)
  <2>1. ASSUME event # None, policy.claim = "closed" PROVE OnFreshVerdict(Admission(c))
    <3>1. overridden
      BY <1>3, <2>1 DEF failClosedFor
    <3> QED
      BY <3>1 DEF findActiveCostOfForgeryRemediationOverride, OnFreshVerdict, Admission
  <2> QED
    BY <1>2, <1>3, <2>1
<1>4. CASE cached # None /\ cached.allow /\ letThrough(r, c)
  <2>1. ASSUME event # None PROVE OnFreshVerdict(Admission(c))
    <3>1. subject \in Wallets /\ MinScore[event] \in Minima
      BY <1>4, <2>1 DEF Minima
    <3>2. /\ cached = cache[subject][MinScore[event]] /\ cached.expires > now
          /\ Sourced(subject, MinScore[event])
      BY <1>4, <3>1 DEF getCachedWalletCostOfForgeryDecision, CheckInv
    <3>3. PICK v \in verdicts : /\ v.subject = subject /\ v.minScore = MinScore[event]
                                /\ v.began \in Nat /\ v.began <= now
                                /\ v.began + CacheTTL = cached.expires
      BY <1>4, <3>2 DEF Sourced
    <3>4. /\ Admission(c).subject = subject /\ Admission(c).event = event /\ Admission(c).began = now
      BY DEF Admission
    <3> HIDE DEF c, cached
    <3> QED
      BY <3>1, <3>2, <3>3, <3>4 DEF OnFreshVerdict
  <2> QED
    BY <1>2, <1>4, <2>1
<1>5. CASE refuse(r)
  BY <1>1, <1>5, RefuseFacts
<1>6. CASE /\ call' = [call EXCEPT ![r] = c]
           /\ UNCHANGED <<lock, admitted>>
  BY <1>1, <1>6 DEF MovesOnly, Judged
<1> QED
  BY <1>3, <1>4, <1>5, <1>6 DEF enforceCostOfForgeryRisk

(* A step that keeps the cache and loses no verdict keeps CheckInv, if it  *)
(* leaves a call before its answer well formed.                            *)
LEMMA KeepsCheck ==
  ASSUME CheckInv, now' \in Nat, now <= now', cache' = cache, verdicts' = verdicts,
         DOMAIN call' = Calls,
         \A r \in Calls : "pc" \in DOMAIN call'[r],
         \A r \in Calls : call'[r].pc = "judge" => call'[r] = call[r] \/ Judged(call'[r])
  PROVE  CheckInv'
<1>1. \A r \in Calls : call'[r].pc = "judge" => Judged(call[r])'
  BY EnrollmentAssumption DEF CheckInv, Judged
<1>2. \A w \in Wallets, m \in Minima : Sourced(w, m)'
  BY DEF CheckInv, Sourced
<1> QED
  BY <1>1, <1>2 DEF CheckInv

(* The service answers: what is kept and what is admitted comes from the   *)
(* answer of this step.                                                    *)
LEMMA AnswerStep ==
  ASSUME CheckInv, AdmittedOnFreshVerdict, NEW r \in Calls, NEW answer,
         evaluateCostOfForgeryDecision(r, answer)
  PROVE  CheckInv' /\ AdmittedOnFreshVerdict'
<1> DEFINE c == call[r]
           allow == parseCostOfForgeryDecision(answer, MinScore[c.event])
           new == {[subject |-> c.subject, began |-> c.began, minScore |-> m] :
                     m \in {n \in Minima : parseCostOfForgeryDecision(answer, n)}}
<1>1. /\ Judged(c) /\ now \in Nat /\ DOMAIN call = Calls
      /\ cache \in [Wallets -> [Minima -> Entry \union {None}]]
      /\ CacheTTL \in Nat
  BY EnrollmentAssumption DEF CheckInv, evaluateCostOfForgeryDecision
<1>2. /\ cache' = cacheWalletCostOfForgeryDecision(c, allow)
      /\ verdicts' = verdicts \union new
      /\ IF allow THEN letThrough(r, c) ELSE refuse(r)
      /\ now' = now /\ policy' = policy
  BY DEF evaluateCostOfForgeryDecision
<1>3. allow \in BOOLEAN
  BY DEF parseCostOfForgeryDecision
<1>4. \A m \in Minima : parseCostOfForgeryDecision(answer, m) =>
        \E v \in new : v.subject = c.subject /\ v.began = c.began /\ v.minScore = m
  <2> SUFFICES ASSUME NEW m \in Minima, parseCostOfForgeryDecision(answer, m)
               PROVE  \E v \in new : v.subject = c.subject /\ v.began = c.began /\ v.minScore = m
    OBVIOUS
  <2>1. [subject |-> c.subject, began |-> c.began, minScore |-> m] \in new
    OBVIOUS
  <2> HIDE DEF new
  <2> QED
    BY <2>1
<1>5. /\ MovesOnly(r) /\ call'[r].pc # "judge"
      /\ admitted' = IF allow /\ c.event # None THEN admitted \union {Admission(c)} ELSE admitted
  <2>1. CASE allow
    <3>1. letThrough(r, c)
      BY <1>2, <2>1
    <3>2. c = [pc |-> "judge", subject |-> c.subject, event |-> c.event, began |-> c.began,
               prev |-> c.prev]
      BY <1>1 DEF Judged
    <3> HIDE DEF c, allow
    <3> QED
      BY <1>1, <2>1, <3>1, <3>2, LetThroughFacts
  <2>2. CASE ~allow
    BY <1>1, <1>2, <2>2, RefuseFacts
  <2> QED
    BY <2>1, <2>2, <1>3
<1>6. /\ c.event \in Events \union {None} /\ c.began \in Nat /\ c.began <= now
      /\ allow <=> parseCostOfForgeryDecision(answer, MinScore[c.event])
  BY <1>1 DEF Judged
<1> HIDE DEF c, allow, new
<1>7. \A s \in Calls : call'[s].pc = "judge" => Judged(call[s])'
  BY <1>2, <1>5 DEF MovesOnly, CheckInv, Judged
<1>8. /\ cache' \in [Wallets -> [Minima -> Entry \union {None}]]
      /\ \A w \in Wallets, m \in Minima : Sourced(w, m)'
  <2>1. CASE c.subject \in Wallets /\ CacheTTL > 0
    <3> DEFINE entry == [allow |-> allow, expires |-> c.began + CacheTTL]
    <3>1. cache' = [cache EXCEPT ![c.subject][MinScore[c.event]] = entry]
      BY <1>2, <2>1 DEF cacheWalletCostOfForgeryDecision
    <3>2. entry \in Entry /\ entry.allow = allow /\ entry.expires = c.began + CacheTTL
      BY <1>1, <1>3, <1>6 DEF Entry
    <3> HIDE DEF entry
    <3>3. /\ cache' \in [Wallets -> [Minima -> Entry \union {None}]]
          /\ \A w \in Wallets, m \in Minima :
               cache'[w][m] = IF w = c.subject /\ m = MinScore[c.event] THEN entry ELSE cache[w][m]
      BY <1>1, <2>1, <3>1, <3>2
    <3>4. ASSUME NEW w \in Wallets, NEW m \in Minima PROVE Sourced(w, m)'
      <4>1. CASE w = c.subject /\ m = MinScore[c.event]
        <5>1. cache'[w][m] = entry
          BY <3>3, <4>1
        <5>2. ASSUME entry.allow
              PROVE  \E v \in verdicts' : /\ v.subject = w /\ v.minScore = m
                                          /\ v.began \in Nat /\ v.began <= now'
                                          /\ v.began + CacheTTL = entry.expires
          <6>1. parseCostOfForgeryDecision(answer, m)
            BY <1>6, <3>2, <4>1, <5>2
          <6>2. PICK v \in new : v.subject = c.subject /\ v.began = c.began /\ v.minScore = m
            BY <1>4, <6>1
          <6> QED
            BY <1>2, <1>6, <3>2, <4>1, <6>2
        <5> QED
          BY <5>1, <5>2 DEF Sourced
      <4>2. CASE ~(w = c.subject /\ m = MinScore[c.event])
        <5>1. cache'[w][m] = cache[w][m] /\ Sourced(w, m)
          BY <3>3, <4>2 DEF CheckInv
        <5> QED
          BY <1>2, <5>1 DEF Sourced
      <4> QED
        BY <4>1, <4>2
    <3> QED
      BY <3>3, <3>4
  <2>2. CASE ~(c.subject \in Wallets /\ CacheTTL > 0)
    <3>1. cache' = cache
      BY <1>2, <2>2 DEF cacheWalletCostOfForgeryDecision
    <3> QED
      BY <1>1, <1>2, <3>1 DEF CheckInv, Sourced
  <2> QED
    BY <2>1, <2>2
<1>9. CheckInv'
  BY <1>1, <1>2, <1>5, <1>7, <1>8 DEF CheckInv, MovesOnly
<1>10. ASSUME policy.claim = "closed", NEW a \in admitted' PROVE OnFreshVerdict(a)'
  <2>1. CASE a \in admitted
    BY <1>2, <1>10, <2>1 DEF AdmittedOnFreshVerdict, OnFreshVerdict
  <2>2. CASE a \notin admitted
    <3>1. /\ a.subject = c.subject /\ a.event = c.event /\ a.began = c.began
          /\ allow /\ c.event # None
      BY <1>5, <2>2 DEF Admission
    <3>2. MinScore[c.event] \in Minima
      BY <1>6, <3>1 DEF Minima
    <3>3. PICK v \in new : v.subject = c.subject /\ v.began = c.began /\ v.minScore = MinScore[c.event]
      BY <1>4, <1>6, <3>1, <3>2
    <3> QED
      BY <1>2, <3>1, <3>3 DEF OnFreshVerdict
  <2> QED
    BY <2>1, <2>2
<1> QED
  BY <1>2, <1>9, <1>10 DEF AdmittedOnFreshVerdict, OnFreshVerdict

(* It fails: a claim enforced fail-closed is refused.                      *)
LEMMA ServiceFailsStep ==
  ASSUME CheckInv, AdmittedOnFreshVerdict, NEW r \in Calls, serviceFails(r)
  PROVE  CheckInv' /\ AdmittedOnFreshVerdict'
<1> DEFINE c == call[r]
<1>1. /\ now \in Nat /\ now' = now /\ policy' = policy /\ cache' = cache /\ verdicts' = verdicts
      /\ DOMAIN call = Calls
      /\ c = [pc |-> "judge", subject |-> c.subject, event |-> c.event, began |-> c.began,
              prev |-> c.prev]
  BY DEF serviceFails, CheckInv, Judged
<1>2. CASE failClosedFor(c) = "open" /\ letThrough(r, c)
  <2> HIDE DEF c
  <2>1. /\ MovesOnly(r) /\ call'[r].pc # "judge"
        /\ admitted' = IF c.event = None THEN admitted ELSE admitted \union {Admission(c)}
    BY <1>1, <1>2, LetThroughFacts
  <2>2. CheckInv'
    BY <1>1, <2>1, KeepsCheck DEF MovesOnly, CheckInv
  <2>3. policy.claim = "closed" => admitted' = admitted
    BY <1>2, <2>1 DEF failClosedFor
  <2> QED
    BY <1>1, <2>2, <2>3 DEF AdmittedOnFreshVerdict
<1>3. CASE refuse(r)
  <2>1. MovesOnly(r) /\ call'[r].pc # "judge" /\ admitted' = admitted
    BY <1>1, <1>3, RefuseFacts
  <2>2. CheckInv'
    BY <1>1, <2>1, KeepsCheck DEF MovesOnly, CheckInv
  <2> QED
    BY <1>1, <2>1, <2>2 DEF AdmittedOnFreshVerdict
<1> QED
  BY <1>2, <1>3 DEF serviceFails

LEMMA EnforceStep ==
  ASSUME CheckInv, AdmittedOnFreshVerdict, NEW r \in Calls, NEW subject \in Users \union Wallets,
         NEW event \in Events \union {None}, enforceCostOfForgeryRisk(r, subject, event),
         UNCHANGED <<now, policy, cache, verdicts>>
  PROVE  CheckInv' /\ AdmittedOnFreshVerdict'
<1>1. /\ MovesOnly(r) /\ (call'[r].pc = "judge" => Judged(call'[r]))
      /\ \A a \in admitted' : a \in admitted \/ (policy.claim = "closed" => OnFreshVerdict(a))
  BY EnforceFacts
<1>2. now \in Nat
  BY DEF CheckInv
<1>3. CheckInv'
  BY <1>1, <1>2, KeepsCheck DEF MovesOnly, CheckInv
<1>4. AdmittedOnFreshVerdict'
  BY <1>1 DEF AdmittedOnFreshVerdict, OnFreshVerdict
<1> QED
  BY <1>3, <1>4

(* The rest of a registration, the clock, crashes and remediation ask the  *)
(* service nothing and admit no claim.                                     *)
LEMMA QuietStep ==
  ASSUME CheckInv, AdmittedOnFreshVerdict, now' \in Nat, now <= now',
         policy' = policy, cache' = cache, verdicts' = verdicts, admitted' = admitted,
         DOMAIN call' = Calls, \A r \in Calls : "pc" \in DOMAIN call'[r],
         \A r \in Calls : call'[r].pc = "judge" => call'[r] = call[r]
  PROVE  CheckInv' /\ AdmittedOnFreshVerdict'
<1>1. CheckInv'
  BY KeepsCheck
<1> QED
  BY <1>1 DEF AdmittedOnFreshVerdict

LEMMA RegisteringStep ==
  ASSUME CheckInv, AdmittedOnFreshVerdict, NEW r \in Calls, Registering(r)
  PROVE  CheckInv' /\ AdmittedOnFreshVerdict'
<1>1. /\ now \in Nat /\ now' = now /\ policy' = policy /\ cache' = cache
      /\ verdicts' = verdicts /\ admitted' = admitted /\ DOMAIN call = Calls
  BY DEF CheckInv, Registering, checkUserId, putUser, putUserIdIndex, putChainHead, history
<1>2. call[r].pc # "judge"
  BY DEF Registering, checkUserId, putUser, putUserIdIndex, putChainHead, at
<1>3. "pc" \in DOMAIN call[r]
  BY DEF CheckInv
<1>4. MovesOnly(r) /\ call'[r].pc # "judge"
  <2>1. ASSUME NEW pc, pc # "judge", settle(r, pc) PROVE MovesOnly(r) /\ call'[r].pc # "judge"
    BY <1>1, <2>1 DEF settle, MovesOnly
  <2>2. ASSUME NEW pc, pc # "judge", call' = [call EXCEPT ![r].pc = pc]
        PROVE  MovesOnly(r) /\ call'[r].pc # "judge"
    BY <1>1, <1>3, <2>2 DEF MovesOnly
  <2>3. CASE checkUserId(r)
    <3>1. CASE settle(r, "duplicate")
      BY <2>1, <3>1
    <3>2. CASE call' = [call EXCEPT ![r].pc = "put_user", ![r].prev = head]
      BY <1>1, <1>3, <3>2 DEF MovesOnly
    <3> QED
      BY <2>3, <3>1, <3>2 DEF checkUserId
  <2>4. CASE putUser(r) \/ putUserIdIndex(r)
    BY <2>2, <2>4 DEF putUser, putUserIdIndex
  <2>5. CASE putChainHead(r)
    BY <2>1, <2>5 DEF putChainHead
  <2> QED
    BY <2>3, <2>4, <2>5 DEF Registering
<1> QED
  BY <1>1, <1>4, QuietStep DEF MovesOnly, CheckInv

LEMMA NextCheck ==
  ASSUME CheckInv, AdmittedOnFreshVerdict, [Next]_vars
  PROVE  CheckInv' /\ AdmittedOnFreshVerdict'
<1>1. now \in Nat /\ DOMAIN call = Calls /\ \A r \in Calls : "pc" \in DOMAIN call[r]
  BY DEF CheckInv
<1>2. ASSUME UNCHANGED <<policy, cache, verdicts, admitted, call>>, now' \in Nat, now <= now'
      PROVE  CheckInv' /\ AdmittedOnFreshVerdict'
  BY <1>1, <1>2, QuietStep
<1>3. ASSUME UNCHANGED <<now, policy, cache, verdicts, admitted>>, crash
      PROVE  CheckInv' /\ AdmittedOnFreshVerdict'
  <2>1. call' = [r \in Calls |-> IF call[r].pc \in {"idle", "done", "refused", "duplicate"}
                                THEN call[r] ELSE [pc |-> "lost"]]
    BY <1>3 DEF crash
  <2>2. /\ DOMAIN call' = Calls
        /\ \A r \in Calls : "pc" \in DOMAIN call'[r] /\ call'[r].pc # "judge"
    BY <1>1, <2>1
  <2> QED
    BY <1>1, <1>3, <2>2, QuietStep
<1>4. CASE Tick
  BY <1>1, <1>2, <1>4 DEF Tick, history
<1>5. CASE Crash
  BY <1>3, <1>5 DEF Crash, history
<1>6. ASSUME NEW r \in Calls, NEW u \in Users, register(r, u)
      PROVE  CheckInv' /\ AdmittedOnFreshVerdict'
  BY <1>6, EnforceStep DEF register
<1>7. ASSUME NEW r \in Calls, NEW s \in Users \union Wallets, NEW e \in Events, claim(r, s, e)
      PROVE  CheckInv' /\ AdmittedOnFreshVerdict'
  BY <1>7, EnforceStep DEF claim
<1>8. CASE \E q \in RemediationIds, k \in Remediable : requestRemediation(q, k)
  BY <1>1, <1>2, <1>8 DEF requestRemediation, history
<1>9. ASSUME NEW d \in Deciders, NEW q \in RemediationIds, NEW v, lookUpRemediation(d, q, v)
      PROVE  CheckInv' /\ AdmittedOnFreshVerdict'
  BY <1>1, <1>2, <1>9 DEF lookUpRemediation, history
<1>10. ASSUME NEW d \in Deciders, approveRemediation(d)
       PROVE  CheckInv' /\ AdmittedOnFreshVerdict'
  <2>1. now' = now /\ policy' = policy /\ cache' = cache /\ verdicts' = verdicts /\ admitted' = admitted
    BY <1>10 DEF approveRemediation, history
  <2>2. crash \/ call' = call
    BY <1>10 DEF approveRemediation
  <2> QED
    BY <1>1, <1>2, <1>3, <2>1, <2>2
<1>11. ASSUME NEW d \in Deciders, rejectRemediation(d)
       PROVE  CheckInv' /\ AdmittedOnFreshVerdict'
  BY <1>1, <1>2, <1>11 DEF rejectRemediation, history
<1>12. CASE UNCHANGED vars
  BY <1>1, <1>2, <1>12 DEF vars, history
<1> QED
  BY <1>4, <1>5, <1>6, <1>7, <1>8, <1>9, <1>10, <1>11, <1>12, AnswerStep, ServiceFailsStep,
     RegisteringStep DEF Next

LEMMA InitCheck == Init => CheckInv /\ AdmittedOnFreshVerdict
<1> SUFFICES ASSUME Init PROVE CheckInv /\ AdmittedOnFreshVerdict
  OBVIOUS
<1>1. \A r \in Calls : "pc" \in DOMAIN call[r] /\ call[r].pc # "judge"
  BY DEF Init, Idle
<1>2. AdmittedOnFreshVerdict
  BY DEF Init, AdmittedOnFreshVerdict
<1> QED
  BY <1>1, <1>2 DEF Init, CheckInv, Sourced

(* Where claims are enforced fail-closed, whatever the interleaving of     *)
(* requests with the answers of the service, the clock and crashes, no     *)
(* claim goes through without an override in force or a verdict on its own *)
(* subject and minimum score that was not older than the cache allows      *)
(* (enforceCostOfForgeryRisk).                                             *)
THEOREM FreshVerdict == Spec => []AdmittedOnFreshVerdict
<1>1. CheckInv /\ AdmittedOnFreshVerdict /\ [Next]_vars => CheckInv' /\ AdmittedOnFreshVerdict'
  BY NextCheck
<1> QED
  BY InitCheck, <1>1, PTL DEF Spec

-----------------------------------------------------------------------------
(* Remediation.                                                            *)

(* A step that neither decides nor looks up, and may crash: then nobody    *)
(* decides any more.                                                       *)
LEMMA UndecidedStep ==
  ASSUME DecisionInv, UNCHANGED <<ticket, override, contested, torn>>,
         decider' = decider \/ decider' = [d \in Deciders |-> None]
  PROVE  DecisionInv'
<1>1. CASE decider' = decider
  BY <1>1 DEF DecisionInv, DecidedOnce, Holds
<1>2. CASE decider' = [d \in Deciders |-> None]
  BY <1>2 DEF DecisionInv, DecidedOnce, Holds
<1> QED
  BY <1>1, <1>2

LEMMA RequestStep ==
  ASSUME DecisionInv, NEW q \in RemediationIds, NEW k \in Remediable, requestRemediation(q, k)
  PROVE  DecisionInv'
<1>1. /\ ticket[q].status = "none" /\ k \in Keys
      /\ ticket' = [ticket EXCEPT ![q] = [status |-> "pending", key |-> k]]
      /\ decider' = decider /\ override' = override /\ contested' = contested /\ torn' = torn
  BY EnrollmentAssumption DEF requestRemediation
<1>2. /\ ticket' \in [RemediationIds -> Request]
      /\ ticket'[q].status = "pending"
      /\ \A p \in RemediationIds : p # q => ticket'[p] = ticket[p]
  BY <1>1 DEF DecisionInv, Request
<1>3. DecidedOnce'
  BY <1>1, <1>2 DEF DecisionInv, DecidedOnce
<1> QED
  BY <1>1, <1>2, <1>3 DEF DecisionInv, Holds

(* A decision on a request that a contrary one is about is contested.      *)
LEMMA LookUpStep ==
  ASSUME DecisionInv, NEW d \in Deciders, NEW q \in RemediationIds, NEW verdict,
         lookUpRemediation(d, q, verdict)
  PROVE  DecisionInv'
<1>1. /\ decider[d] = None /\ ticket[q].status = "pending"
      /\ decider' = [decider EXCEPT ![d] = [q |-> q, verdict |-> verdict]]
      /\ contested' = IF \E e \in Deciders : Holds(e, q) /\ decider[e].verdict # verdict
                      THEN contested \union {q} ELSE contested
      /\ ticket' = ticket /\ override' = override /\ torn' = torn
  BY DEF lookUpRemediation, Holds
<1>2. /\ DOMAIN decider' = Deciders /\ decider'[d].q = q /\ decider'[d].verdict = verdict
      /\ \A e \in Deciders : e # d => decider'[e] = decider[e]
  BY <1>1 DEF DecisionInv
<1>3. /\ contested \subseteq contested'
      /\ (\E e \in Deciders : Holds(e, q) /\ decider[e].verdict # verdict) => q \in contested'
  BY <1>1
<1>4. \A e \in Deciders : decider'[e] # None =>
        /\ decider'[e].q \in RemediationIds /\ ticket[decider'[e].q].status # "none"
        /\ ticket[decider'[e].q].status \in {"pending", decider'[e].verdict} \/ decider'[e].q \in contested'
  BY <1>1, <1>2, <1>3 DEF DecisionInv
<1>5. ASSUME NEW e \in Deciders, NEW f \in Deciders, NEW p \in RemediationIds,
             Holds(e, p)', Holds(f, p)', decider'[e].verdict # decider'[f].verdict
      PROVE  p \in contested'
  <2>1. CASE e = d
    BY <1>2, <1>3, <1>5, <2>1 DEF Holds
  <2>2. CASE f = d
    BY <1>2, <1>3, <1>5, <2>2 DEF Holds
  <2>3. CASE e # d /\ f # d
    BY <1>2, <1>3, <1>5, <2>3 DEF Holds, DecisionInv
  <2> QED
    BY <2>1, <2>2, <2>3
<1>6. DecidedOnce'
  BY <1>1, <1>3 DEF DecisionInv, DecidedOnce
<1> QED
  BY <1>1, <1>2, <1>4, <1>5, <1>6 DEF DecisionInv

(* A decision closes its request; a contrary one about it is contested.    *)
LEMMA DecideStep ==
  ASSUME DecisionInv, NEW d \in Deciders, decider[d] # None, NEW q, q = decider[d].q,
         NEW status \in {"approved", "rejected"}, status = decider[d].verdict,
         ticket' = [ticket EXCEPT ![q].status = status],
         decider' = [decider EXCEPT ![d] = None],
         contested' = contested, torn' = torn, DOMAIN override' = Keys,
         \A k \in Keys : override'[k] = override[k] \/ (override'[k].q = q /\ status = "approved")
  PROVE  DecisionInv'
<1>1. /\ q \in RemediationIds
      /\ ticket[q] \in [status : {"pending", "approved", "rejected"}, key : Keys]
  BY DEF DecisionInv, Request, noRequest
<1>2. ticket[q].status \in {"pending", status} \/ q \in contested
  BY DEF DecisionInv
<1>3. /\ ticket' \in [RemediationIds -> Request]
      /\ ticket'[q].status = status
      /\ \A p \in RemediationIds : p # q => ticket'[p] = ticket[p]
  BY <1>1 DEF DecisionInv, Request
<1>4. DecidedOnce'
  BY <1>1, <1>2, <1>3 DEF DecisionInv, DecidedOnce
<1>5. /\ DOMAIN decider' = Deciders /\ decider'[d] = None
      /\ \A e \in Deciders : e # d => decider'[e] = decider[e]
  BY DEF DecisionInv
<1>6. ASSUME NEW e \in Deciders, decider'[e] # None
      PROVE  /\ decider'[e].q \in RemediationIds /\ ticket'[decider'[e].q].status # "none"
             /\ \/ ticket'[decider'[e].q].status \in {"pending", decider'[e].verdict}
                \/ decider'[e].q \in contested
  <2>1. e # d /\ decider'[e] = decider[e]
    BY <1>5, <1>6
  <2>2. /\ decider[e].q \in RemediationIds /\ ticket[decider[e].q].status # "none"
        /\ ticket[decider[e].q].status \in {"pending", decider[e].verdict} \/ decider[e].q \in contested
    BY <1>6, <2>1 DEF DecisionInv
  <2>3. decider[e].q = q => q \in contested \/ status = decider[e].verdict
    BY <1>1, <1>6, <2>1 DEF DecisionInv, Holds
  <2> QED
    BY <1>3, <2>1, <2>2, <2>3
<1> QED
  BY <1>3, <1>4, <1>5, <1>6 DEF DecisionInv, Holds

LEMMA NextDecision ==
  ASSUME DecisionInv, [Next]_vars
  PROVE  DecisionInv'
<1>1. ASSUME UNCHANGED <<decider, ticket, override, contested, torn>> PROVE DecisionInv'
  BY <1>1, UndecidedStep
<1>2. ASSUME crash, UNCHANGED <<ticket, override, contested, torn>> PROVE DecisionInv'
  BY <1>2, UndecidedStep DEF crash
<1>3. CASE Tick
  BY <1>1, <1>3 DEF Tick, remediation
<1>4. CASE Crash
  BY <1>2, <1>4 DEF Crash
<1>5. ASSUME NEW r \in Calls, NEW u, register(r, u) PROVE DecisionInv'
  BY <1>1, <1>5 DEF register, remediation
<1>6. ASSUME NEW r \in Calls, NEW s, NEW e, claim(r, s, e) PROVE DecisionInv'
  BY <1>1, <1>6 DEF claim, remediation
<1>7. ASSUME NEW r \in Calls, NEW answer, evaluateCostOfForgeryDecision(r, answer)
      PROVE  DecisionInv'
  BY <1>1, <1>7 DEF evaluateCostOfForgeryDecision, remediation
<1>8. ASSUME NEW r \in Calls, serviceFails(r) \/ Registering(r) PROVE DecisionInv'
  BY <1>1, <1>8 DEF serviceFails, Registering, checkUserId, putUser, putUserIdIndex, putChainHead,
     remediation
<1>9. ASSUME NEW d \in Deciders, approveRemediation(d) PROVE DecisionInv'
  <2> DEFINE q == decider[d].q
             key == ticket[q].key
  <2>1. /\ decider[d] # None /\ decider[d].verdict = "approved" /\ contested' = contested
        /\ override' = [override EXCEPT ![key] = [q |-> q, expires |-> now + OverrideTTL]]
    BY <1>9 DEF approveRemediation
  <2>2. /\ DOMAIN override' = Keys
        /\ \A k \in Keys : override'[k] = override[k] \/ override'[k].q = q
    BY <2>1 DEF DecisionInv
  <2>3. CASE /\ ticket' = [ticket EXCEPT ![q].status = "approved"]
             /\ decider' = [decider EXCEPT ![d] = None] /\ torn' = torn
    <3> HIDE DEF q, key
    <3> QED
      BY <2>1, <2>2, <2>3, DecideStep DEF q
  <2>4. CASE crash /\ ticket' = ticket /\ torn' = torn \union {q}
    <3>1. decider' = [e \in Deciders |-> None]
      BY <2>4 DEF crash
    <3> HIDE DEF q, key
    <3>2. DecidedOnce'
      BY <2>1, <2>2, <2>4 DEF DecisionInv, DecidedOnce
    <3> QED
      BY <2>1, <2>2, <2>4, <3>1, <3>2 DEF DecisionInv, Holds
  <2> QED
    BY <1>9, <2>3, <2>4 DEF approveRemediation
<1>10. ASSUME NEW d \in Deciders, rejectRemediation(d) PROVE DecisionInv'
  <2>1. DOMAIN override = Keys
    BY DEF DecisionInv
  <2> QED
    BY <1>10, <2>1, DecideStep DEF rejectRemediation
<1>11. CASE UNCHANGED vars
  BY <1>1, <1>11 DEF vars, remediation
<1> QED
  BY <1>3, <1>4, <1>5, <1>6, <1>7, <1>8, <1>9, <1>10, <1>11, RequestStep, LookUpStep DEF Next

LEMMA InitDecision == Init => DecisionInv
BY DEF Init, DecisionInv, Request, Holds, DecidedOnce

(* An override stands only for a request whose last word is an approval,   *)
(* however approvals and rejections interleave: unless contrary ones were  *)
(* under way on the same request at once, or its own approval was lost     *)
(* between the two puts (approveRemediation, rejectRemediation).           *)
THEOREM OverridesApproved == Spec => []DecidedOnce
<1>1. DecisionInv /\ [Next]_vars => DecisionInv'
  BY NextDecision
<1>2. DecisionInv => DecidedOnce
  BY DEF DecisionInv
<1> QED
  BY InitDecision, <1>1, <1>2, PTL DEF Spec

-----------------------------------------------------------------------------
(* The chain of user ids.                                                  *)

Writing == {"put_user", "put_index", "put_head"}

Shaped(c) ==
  c = [pc |-> c.pc, subject |-> c.subject, event |-> c.event, began |-> c.began, prev |-> c.prev]

CallOK(c) ==
  /\ c.pc \in {"judge", "check"} \union Writing => Shaped(c)
  /\ c.pc = "judge" /\ c.event = None => c.subject \in Users
  /\ c.pc \in {"check"} \union Writing => c.subject \in Users
  /\ c.pc \in Writing => c.prev = head
  /\ c.pc \in {"put_user", "put_index"} => index[c.subject] = None
  /\ c.pc = "put_head" => index[c.subject] # None

(* The record of u is put, the head that follows from it not yet.          *)
Closing(u) == \E r \in Calls : call[r].pc = "put_head" /\ call[r].subject = u

(* What a record may name as its predecessor: the genesis or the hash of a *)
(* user whose registration is over, so that the hash of one that is not    *)
(* can be new.                                                             *)
Rooted(p) == p = Genesis \/ (p[1] \in Users /\ index[p[1]] # None /\ ~Closing(p[1]))

(* An account was put by a call for that user.                             *)
Owned(u) ==
  user[u] # None =>
    /\ user[u] \in Calls /\ call[user[u]].pc \in {"put_index", "put_head", "done", "lost"}
    /\ call[user[u]].pc = "put_index" => call[user[u]].subject = u

Names(u, p) == index[u] # None /\ index[u].prev = p

(* Where the chain forks, or will at the next registration.                *)
Twice(p)  == \E u, v \in Users : u # v /\ Names(u, p) /\ Names(v, p)
Latent(p) == p = head /\ \E u \in Users : Names(u, p) /\ ~Closing(u)
Spoilt ==
  {p \in {index[u].prev : u \in {v \in Users : index[v] # None}} : Twice(p) \/ Latent(p)}

DebtOK ==
  /\ crashes \in Nat /\ IsFiniteSet(Unindexed) /\ IsFiniteSet(Spoilt)
  /\ Cardinality(Unindexed) + Cardinality(Spoilt) <= crashes

RegistryInv ==
  /\ lock \in Seq(Calls) /\ DOMAIN call = Calls
  /\ DOMAIN user = Users /\ DOMAIN index = Users /\ head \in Seq(Users)
  /\ \A r \in Calls : call[r].pc \in Writing => holdsRegistrationLock(r)
  /\ \A r \in Calls : CallOK(call[r])
  /\ Rooted(head) /\ \A u \in Users : (index[u] # None => Rooted(index[u].prev)) /\ Owned(u)
  /\ DebtOK

(* Debts that do not grow stay covered.                                    *)
LEMMA DebtKept ==
  ASSUME DebtOK, Unindexed' \subseteq Unindexed, Spoilt' \subseteq Spoilt, crashes' = crashes
  PROVE  DebtOK'
<1>1. PICK A, B, C, D : A = Unindexed /\ B = Spoilt /\ C = Unindexed' /\ D = Spoilt'
  OBVIOUS
<1>2. IsFiniteSet(A) /\ IsFiniteSet(B) /\ C \subseteq A /\ D \subseteq B
  BY <1>1 DEF DebtOK
<1>3. /\ IsFiniteSet(C) /\ Cardinality(C) <= Cardinality(A)
      /\ IsFiniteSet(D) /\ Cardinality(D) <= Cardinality(B)
  BY <1>2, FS_Subset
<1>4. /\ Cardinality(A) \in Nat /\ Cardinality(B) \in Nat
      /\ Cardinality(C) \in Nat /\ Cardinality(D) \in Nat
  BY <1>2, <1>3, FS_CardinalityType
<1>5. Cardinality(C) + Cardinality(D) <= crashes
  BY <1>1, <1>3, <1>4 DEF DebtOK
<1> QED
  BY <1>1, <1>3, <1>5 DEF DebtOK

(* A set grows by one element at most.                                     *)
LEMMA GrowsByOne ==
  ASSUME NEW S, NEW T, NEW x, IsFiniteSet(S), T \subseteq S \union {x}
  PROVE  IsFiniteSet(T) /\ Cardinality(T) \in Nat /\ Cardinality(T) <= Cardinality(S) + 1
<1>1. /\ IsFiniteSet(S \union {x})
      /\ Cardinality(S \union {x}) = Cardinality(S) \/ Cardinality(S \union {x}) = Cardinality(S) + 1
  BY FS_AddElement
<1>2. IsFiniteSet(T) /\ Cardinality(T) <= Cardinality(S \union {x})
  BY <1>1, FS_Subset
<1>3. Cardinality(T) \in Nat /\ Cardinality(S) \in Nat
  BY <1>2, FS_CardinalityType
<1> QED
  BY <1>1, <1>2, <1>3

(* A crash adds one debt at most.                                          *)
LEMMA DebtPaid ==
  ASSUME DebtOK, crashes' = crashes + 1, NEW x,
         \/ Unindexed' \subseteq Unindexed \union {x} /\ Spoilt' \subseteq Spoilt
         \/ Unindexed' \subseteq Unindexed /\ Spoilt' \subseteq Spoilt \union {x}
  PROVE  DebtOK'
<1>1. PICK A, B, C, D : A = Unindexed /\ B = Spoilt /\ C = Unindexed' /\ D = Spoilt'
  OBVIOUS
<1>2. /\ IsFiniteSet(A) /\ IsFiniteSet(B) /\ crashes \in Nat
      /\ Cardinality(A) + Cardinality(B) <= crashes
      /\ \/ C \subseteq A \union {x} /\ D \subseteq B
         \/ C \subseteq A /\ D \subseteq B \union {x}
  BY <1>1 DEF DebtOK
<1>3. Cardinality(A) \in Nat /\ Cardinality(B) \in Nat
  BY <1>2, FS_CardinalityType
<1>4. CASE C \subseteq A \union {x} /\ D \subseteq B
  <2>1. IsFiniteSet(C) /\ Cardinality(C) \in Nat /\ Cardinality(C) <= Cardinality(A) + 1
    BY <1>2, <1>4, GrowsByOne
  <2>2. IsFiniteSet(D) /\ Cardinality(D) <= Cardinality(B)
    BY <1>2, <1>4, FS_Subset
  <2>3. Cardinality(D) \in Nat
    BY <2>2, FS_CardinalityType
  <2>4. Cardinality(C) + Cardinality(D) <= crashes + 1 /\ crashes + 1 \in Nat
    BY <1>2, <1>3, <2>1, <2>2, <2>3
  <2> QED
    BY <1>1, <2>1, <2>2, <2>4 DEF DebtOK
<1>5. CASE C \subseteq A /\ D \subseteq B \union {x}
  <2>1. IsFiniteSet(D) /\ Cardinality(D) \in Nat /\ Cardinality(D) <= Cardinality(B) + 1
    BY <1>2, <1>5, GrowsByOne
  <2>2. IsFiniteSet(C) /\ Cardinality(C) <= Cardinality(A)
    BY <1>2, <1>5, FS_Subset
  <2>3. Cardinality(C) \in Nat
    BY <2>2, FS_CardinalityType
  <2>4. Cardinality(C) + Cardinality(D) <= crashes + 1 /\ crashes + 1 \in Nat
    BY <1>2, <1>3, <2>1, <2>2, <2>3
  <2> QED
    BY <1>1, <2>1, <2>2, <2>4 DEF DebtOK
<1> QED
  BY <1>2, <1>4, <1>5

(* A step of a call that has put nothing yet.                              *)
Early == {"idle", "judge", "check"}

LEMMA EarlyStep ==
  ASSUME RegistryInv, NEW r \in Calls, NEW new, call' = [call EXCEPT ![r] = new],
         call[r].pc \in Early, new.pc \notin {"put_index", "put_head", "lost"}, CallOK(new),
         UNCHANGED <<crashes, user, index, head>>, lock' \in Seq(Calls),
         \A q \in Calls \ {r} : holdsRegistrationLock(q) => holdsRegistrationLock(q)',
         new.pc \in Writing => holdsRegistrationLock(r)'
  PROVE  RegistryInv'
<1>1. /\ DOMAIN call = Calls /\ DOMAIN user = Users /\ DOMAIN index = Users /\ head \in Seq(Users)
      /\ \A q \in Calls : CallOK(call[q])
      /\ \A q \in Calls : call[q].pc \in Writing => holdsRegistrationLock(q)
      /\ Rooted(head) /\ DebtOK
      /\ \A u \in Users : (index[u] # None => Rooted(index[u].prev)) /\ Owned(u)
  BY DEF RegistryInv
<1>2. DOMAIN call' = Calls /\ call'[r] = new /\ \A q \in Calls \ {r} : call'[q] = call[q]
  BY <1>1
<1>3. call[r].pc \notin {"put_index", "put_head", "done", "lost"}
  BY DEF Early
<1>4. ASSUME NEW q \in Calls PROVE CallOK(call[q])'
  <2>1. CASE q = r
    <3>1. call'[q] = new
      BY <1>2, <2>1
    <3> QED
      BY <3>1 DEF CallOK, Shaped
  <2>2. CASE q # r
    <3>1. call'[q] = call[q] /\ CallOK(call[q])
      BY <1>1, <1>2, <2>2
    <3> QED
      BY <3>1 DEF CallOK, Shaped
  <2> QED
    BY <2>1, <2>2
<1>5. \A u : Closing(u)' <=> Closing(u)
  <2>1. \A q \in Calls : call'[q].pc = "put_head" <=> call[q].pc = "put_head"
    BY <1>2, <1>3
  <2>2. \A q \in Calls : call[q].pc = "put_head" => call'[q] = call[q]
    BY <1>2, <1>3
  <2> QED
    BY <2>1, <2>2 DEF Closing
<1>6. \A p : Rooted(p)' <=> Rooted(p)
  BY <1>5 DEF Rooted
<1>7. ASSUME NEW u \in Users PROVE Owned(u)'
  <2>1. Owned(u) /\ (user[u] # None => user[u] # r)
    BY <1>1, <1>3 DEF Owned
  <2> QED
    BY <1>2, <2>1 DEF Owned
<1>8. Spoilt' \subseteq Spoilt
  BY <1>5 DEF Spoilt, Twice, Latent, Names
<1>9. Unindexed' \subseteq Unindexed
  <2> SUFFICES ASSUME NEW u \in Users, user'[u] # None, index'[u] = None, call'[user'[u]].pc # "put_index"
               PROVE  call[user[u]].pc # "put_index"
    BY DEF Unindexed
  <2>1. Owned(u) /\ user[u] # r
    BY <1>1, <1>3 DEF Owned
  <2> QED
    BY <1>2, <2>1 DEF Owned
<1>10. DebtOK'
  BY <1>1, <1>8, <1>9, DebtKept
<1>11. ASSUME NEW q \in Calls, call'[q].pc \in Writing PROVE holdsRegistrationLock(q)'
  BY <1>1, <1>2, <1>11
<1>12. \A u \in Users : (index'[u] # None => Rooted(index[u].prev)') /\ Owned(u)'
  BY <1>1, <1>6, <1>7
<1>13. Rooted(head)'
  BY <1>1, <1>6
<1> QED
  BY <1>1, <1>2, <1>4, <1>10, <1>11, <1>12, <1>13 DEF RegistryInv

LEMMA LockKept ==
  ASSUME lock \in Seq(Calls), NEW r \in Calls,
         \/ lock' = lock
         \/ lock' = Append(lock, r)
         \/ lock' = Tail(lock) /\ holdsRegistrationLock(r)
  PROVE  /\ lock' \in Seq(Calls)
         /\ \A q \in Calls \ {r} : holdsRegistrationLock(q) => holdsRegistrationLock(q)'
<1>1. CASE lock' = lock
  BY <1>1 DEF holdsRegistrationLock
<1>2. CASE lock' = Append(lock, r)
  <2>1. lock' \in Seq(Calls) /\ (lock # <<>> => lock' # <<>> /\ Head(lock') = Head(lock))
    BY <1>2
  <2> QED
    BY <2>1 DEF holdsRegistrationLock
<1>3. CASE lock' = Tail(lock) /\ holdsRegistrationLock(r)
  <2>1. lock # <<>> /\ Head(lock) = r
    BY <1>3 DEF holdsRegistrationLock
  <2>2. lock' \in Seq(Calls)
    BY <1>3, <2>1
  <2>3. \A q \in Calls \ {r} : ~holdsRegistrationLock(q)
    BY <2>1 DEF holdsRegistrationLock
  <2> QED
    BY <1>3, <2>2, <2>3
<1> QED
  BY <1>1, <1>2, <1>3

(* A call is let through or refused.                                       *)
LEMMA LetThroughRegistry ==
  ASSUME RegistryInv, NEW r \in Calls, call[r].pc \in Early, NEW c, Shaped(c),
         c.event = None => c.subject \in Users,
         letThrough(r, c) \/ refuse(r), UNCHANGED <<crashes, user, index, head>>
  PROVE  RegistryInv'
<1>1. lock \in Seq(Calls)
  BY DEF RegistryInv
<1>2. CASE letThrough(r, c) /\ c.event = None
  <2>1. PICK new : new = [pc |-> "check", subject |-> c.subject, event |-> c.event,
                          began |-> c.began, prev |-> c.prev]
    OBVIOUS
  <2>2. [c EXCEPT !.pc = "check"] = new
    BY <2>1 DEF Shaped
  <2>3. call' = [call EXCEPT ![r] = new] /\ lock' = Append(lock, r)
    BY <1>2, <2>2 DEF letThrough
  <2>4. new.pc = "check" /\ new.subject \in Users /\ Shaped(new)
    BY <1>2, <2>1 DEF Shaped
  <2>5. CallOK(new) /\ new.pc \notin {"put_index", "put_head", "lost"} /\ new.pc \notin Writing
    BY <2>4 DEF CallOK, Writing
  <2> QED
    BY <1>1, <2>3, <2>5, LockKept, EarlyStep
<1>3. CASE (letThrough(r, c) /\ c.event # None) \/ refuse(r)
  <2>1. PICK new : /\ new \in {[pc |-> "done"], [pc |-> "refused"]}
                   /\ call' = [call EXCEPT ![r] = new] /\ lock' = lock
    BY <1>3 DEF letThrough, refuse
  <2>2. new.pc \in {"done", "refused"}
    BY <2>1
  <2>3. CallOK(new) /\ new.pc \notin {"put_index", "put_head", "lost"} /\ new.pc \notin Writing
    BY <2>2 DEF CallOK, Writing
  <2> QED
    BY <1>1, <2>1, <2>3, LockKept, EarlyStep
<1> QED
  BY <1>2, <1>3

LEMMA EnforceRegistry ==
  ASSUME RegistryInv, NEW r \in Calls, call[r].pc = "idle", NEW subject, NEW event,
         event = None => subject \in Users,
         enforceCostOfForgeryRisk(r, subject, event), UNCHANGED <<crashes, user, index, head>>
  PROVE  RegistryInv'
<1>1. PICK c : c = [pc |-> "judge", subject |-> subject, event |-> event, began |-> now,
                    prev |-> Genesis]
  OBVIOUS
<1>2. letThrough(r, c) \/ refuse(r) \/ (call' = [call EXCEPT ![r] = c] /\ lock' = lock)
  BY <1>1 DEF enforceCostOfForgeryRisk
<1>3. Shaped(c) /\ c.pc = "judge" /\ c.event = event /\ c.subject = subject
  BY <1>1 DEF Shaped
<1>4. call[r].pc \in Early /\ lock \in Seq(Calls)
  BY DEF Early, RegistryInv
<1>5. CASE letThrough(r, c) \/ refuse(r)
  BY <1>3, <1>4, <1>5, LetThroughRegistry
<1>6. CASE call' = [call EXCEPT ![r] = c] /\ lock' = lock
  <2>1. CallOK(c) /\ c.pc \notin {"put_index", "put_head", "lost"} /\ c.pc \notin Writing
    BY <1>3 DEF CallOK, Writing
  <2> QED
    BY <1>4, <1>6, <2>1, LockKept, EarlyStep
<1> QED
  BY <1>2, <1>5, <1>6

LEMMA JudgeRegistry ==
  ASSUME RegistryInv, NEW r \in Calls,
         serviceFails(r) \/ \E answer : evaluateCostOfForgeryDecision(r, answer)
  PROVE  RegistryInv'
<1>1. PICK c : c = call[r]
  OBVIOUS
<1>2. /\ c.pc = "judge" /\ (letThrough(r, c) \/ refuse(r)) /\ UNCHANGED <<crashes, user, index, head>>
  BY <1>1 DEF serviceFails, evaluateCostOfForgeryDecision
<1>3. Shaped(c) /\ (c.event = None => c.subject \in Users)
  BY <1>1, <1>2 DEF RegistryInv, CallOK
<1>4. call[r].pc \in Early
  BY <1>1, <1>2 DEF Early
<1> QED
  BY <1>2, <1>3, <1>4, LetThroughRegistry

LEMMA CheckRegistry ==
  ASSUME RegistryInv, NEW r \in Calls, checkUserId(r)
  PROVE  RegistryInv'
<1>1. PICK c, h : c = call[r] /\ h = head
  OBVIOUS
<1>2. /\ c.pc = "check" /\ holdsRegistrationLock(r) /\ UNCHANGED <<crashes, user, index, head>>
  BY <1>1 DEF checkUserId, at
<1>3. /\ Shaped(c) /\ c.subject \in Users /\ lock \in Seq(Calls) /\ call[r].pc \in Early
      /\ DOMAIN call = Calls
  BY <1>1, <1>2 DEF RegistryInv, CallOK, Early
<1>4. CASE settle(r, "duplicate")
  <2>1. PICK new : new = [pc |-> "duplicate"]
    OBVIOUS
  <2>2. call' = [call EXCEPT ![r] = new] /\ lock' = Tail(lock)
    BY <1>4, <2>1 DEF settle
  <2>3. CallOK(new) /\ new.pc \notin {"put_index", "put_head", "lost"} /\ new.pc \notin Writing
    BY <2>1 DEF CallOK, Writing
  <2> QED
    BY <1>2, <1>3, <2>2, <2>3, LockKept, EarlyStep
<1>5. CASE /\ index[c.subject] = None /\ lock' = lock
           /\ call' = [call EXCEPT ![r].pc = "put_user", ![r].prev = head]
  <2>1. PICK new : new = [pc |-> "put_user", subject |-> c.subject, event |-> c.event,
                          began |-> c.began, prev |-> h]
    OBVIOUS
  <2>2. [c EXCEPT !.pc = "put_user", !.prev = h] = new
    <3>1. PICK a, s, e, b, p : c = [pc |-> a, subject |-> s, event |-> e, began |-> b, prev |-> p]
      BY <1>3 DEF Shaped
    <3>2. s = c.subject /\ e = c.event /\ b = c.began
      BY <3>1
    <3>3. [c EXCEPT !.pc = "put_user"] =
            [pc |-> "put_user", subject |-> s, event |-> e, began |-> b, prev |-> p]
      BY <3>1
    <3>4. [[pc |-> "put_user", subject |-> s, event |-> e, began |-> b, prev |-> p]
             EXCEPT !.prev = h] =
            [pc |-> "put_user", subject |-> s, event |-> e, began |-> b, prev |-> h]
      OBVIOUS
    <3>5. [c EXCEPT !.pc = "put_user", !.prev = h] =
            [[c EXCEPT !.pc = "put_user"] EXCEPT !.prev = h]
      OBVIOUS
    <3> QED
      BY <2>1, <3>2, <3>3, <3>4, <3>5
  <2>3. call' = [call EXCEPT ![r] = new]
    BY <1>1, <1>3, <1>5, <2>2
  <2>4. new.pc = "put_user" /\ new.subject = c.subject /\ new.prev = head /\ Shaped(new)
    BY <1>1, <2>1 DEF Shaped
  <2>5. CallOK(new) /\ new.pc \notin {"put_index", "put_head", "lost"}
    BY <1>3, <1>5, <2>4 DEF CallOK, Writing
  <2>6. holdsRegistrationLock(r)'
    BY <1>2, <1>5 DEF holdsRegistrationLock
  <2> QED
    BY <1>2, <1>3, <1>5, <2>3, <2>5, <2>6, LockKept, EarlyStep
<1> QED
  BY <1>1, <1>4, <1>5 DEF checkUserId

(* A step of the call that writes: nobody else does.                       *)
LEMMA WriterFacts ==
  ASSUME RegistryInv, NEW r \in Calls, call[r].pc \in Writing, NEW c, c = call[r]
  PROVE  /\ holdsRegistrationLock(r) /\ Shaped(c) /\ c.subject \in Users /\ c.prev = head
         /\ DOMAIN call = Calls /\ \A q \in Calls \ {r} : call[q].pc \notin Writing
BY DEF RegistryInv, CallOK, holdsRegistrationLock, Writing

(* The writer becomes new; no other call depends on what is put.           *)
LEMMA WriterStep ==
  ASSUME RegistryInv, NEW r \in Calls, call[r].pc \in Writing, NEW new,
         call' = [call EXCEPT ![r] = new],
         \/ lock' = lock
         \/ lock' = Tail(lock) /\ new.pc \notin Writing,
         DOMAIN user' = Users, DOMAIN index' = Users, head' \in Seq(Users), CallOK(new)',
         Rooted(head)',
         \A u \in Users : (index'[u] # None => Rooted(index[u].prev)') /\ Owned(u)', DebtOK'
  PROVE  RegistryInv'
<1>1. /\ holdsRegistrationLock(r) /\ DOMAIN call = Calls /\ lock \in Seq(Calls)
      /\ \A q \in Calls \ {r} : call[q].pc \notin Writing
  BY WriterFacts DEF RegistryInv
<1>2. DOMAIN call' = Calls /\ call'[r] = new /\ \A q \in Calls \ {r} : call'[q] = call[q]
  BY <1>1
<1>3. lock' \in Seq(Calls)
  BY <1>1, LockKept
<1>4. ASSUME NEW q \in Calls, call'[q].pc \in Writing PROVE holdsRegistrationLock(q)'
  <2>1. q = r /\ new.pc \in Writing
    BY <1>1, <1>2, <1>4
  <2> QED
    BY <1>1, <2>1 DEF holdsRegistrationLock
<1>5. ASSUME NEW q \in Calls PROVE CallOK(call[q])'
  <2>1. CASE q = r
    <3>1. call'[q] = new
      BY <1>2, <2>1
    <3> QED
      BY <3>1
  <2>2. CASE q # r
    <3>1. call'[q] = call[q] /\ CallOK(call[q]) /\ call[q].pc \notin Writing
      BY <1>1, <1>2, <2>2 DEF RegistryInv
    <3> QED
      BY <3>1 DEF CallOK, Shaped, Writing
  <2> QED
    BY <2>1, <2>2
<1> QED
  BY <1>2, <1>3, <1>4, <1>5 DEF RegistryInv

atPut(c, pc) ==
  [pc |-> pc, subject |-> c.subject, event |-> c.event, began |-> c.began, prev |-> c.prev]

LEMMA AtPutFacts ==
  ASSUME NEW c, Shaped(c), NEW pc
  PROVE  /\ [c EXCEPT !.pc = pc] = atPut(c, pc) /\ Shaped(atPut(c, pc))
         /\ atPut(c, pc).pc = pc /\ atPut(c, pc).subject = c.subject /\ atPut(c, pc).prev = c.prev
BY DEF Shaped, atPut

LEMMA HashFacts ==
  ASSUME NEW c, c.subject \in Users, c.prev \in Seq(Users)
  PROVE  chainHash(c) \in Seq(Users) /\ chainHash(c) # Genesis /\ chainHash(c)[1] = c.subject
BY DEF chainHash, Genesis

LEMMA PutUserRegistry ==
  ASSUME RegistryInv, NEW r \in Calls, putUser(r)
  PROVE  RegistryInv'
<1>1. PICK c : c = call[r]
  OBVIOUS
<1>2. /\ c.pc = "put_user" /\ user' = [user EXCEPT ![c.subject] = r]
      /\ call' = [call EXCEPT ![r].pc = "put_index"] /\ UNCHANGED <<crashes, lock, index, head>>
  BY <1>1 DEF putUser, at
<1>3. /\ Shaped(c) /\ c.subject \in Users /\ c.prev = head /\ DOMAIN call = Calls
      /\ \A q \in Calls \ {r} : call[q].pc \notin Writing
  BY <1>1, <1>2, WriterFacts DEF Writing
<1>4. PICK new : new = atPut(c, "put_index")
  OBVIOUS
<1>5. /\ call' = [call EXCEPT ![r] = new] /\ Shaped(new) /\ new.pc = "put_index"
      /\ new.subject = c.subject /\ new.prev = c.prev
  <2>1. /\ [c EXCEPT !.pc = "put_index"] = new /\ Shaped(new) /\ new.pc = "put_index"
        /\ new.subject = c.subject /\ new.prev = c.prev
    BY <1>3, <1>4, AtPutFacts
  <2>2. call' = [call EXCEPT ![r] = [c EXCEPT !.pc = "put_index"]]
    BY <1>1, <1>2
  <2> QED
    BY <2>1, <2>2
<1>6. /\ DOMAIN user = Users /\ DOMAIN index = Users /\ head \in Seq(Users)
      /\ CallOK(c) /\ Rooted(head) /\ DebtOK
      /\ \A u \in Users : (index[u] # None => Rooted(index[u].prev)) /\ Owned(u)
  BY <1>1 DEF RegistryInv
<1>7. call'[r] = new /\ \A q \in Calls \ {r} : call'[q] = call[q]
  BY <1>3, <1>5
<1>8. /\ DOMAIN user' = Users /\ user'[c.subject] = r
      /\ \A u \in Users \ {c.subject} : user'[u] = user[u]
  BY <1>2, <1>3, <1>6
<1>9. CallOK(new)'
  BY <1>2, <1>3, <1>5, <1>6 DEF CallOK, Shaped, Writing
<1>10. \A u : Closing(u)' <=> Closing(u)
  BY <1>1, <1>2, <1>5, <1>7 DEF Closing
<1>11. \A p : Rooted(p)' <=> Rooted(p)
  BY <1>2, <1>10 DEF Rooted
<1>12. ASSUME NEW u \in Users PROVE Owned(u)'
  <2>1. CASE u = c.subject
    BY <1>5, <1>7, <1>8, <2>1 DEF Owned
  <2>2. CASE u # c.subject
    <3>1. Owned(u) /\ user'[u] = user[u] /\ (user[u] # None => user[u] # r)
      BY <1>1, <1>2, <1>6, <1>8, <2>2 DEF Owned
    <3> QED
      BY <1>7, <3>1 DEF Owned
  <2> QED
    BY <2>1, <2>2
<1>13. Spoilt' \subseteq Spoilt
  BY <1>2, <1>10 DEF Spoilt, Twice, Latent, Names
<1>14. Unindexed' \subseteq Unindexed
  <2> SUFFICES ASSUME NEW u \in Users, user'[u] # None, index'[u] = None,
                      call'[user'[u]].pc # "put_index"
               PROVE  user[u] # None /\ index[u] = None /\ call[user[u]].pc # "put_index"
    BY DEF Unindexed
  <2>1. u # c.subject
    BY <1>5, <1>7, <1>8
  <2>2. user[u] # None /\ Owned(u) /\ user'[u] = user[u]
    BY <1>6, <1>8, <2>1
  <2>3. user[u] # r /\ user[u] \in Calls
    BY <1>1, <1>2, <2>2 DEF Owned
  <2> QED
    BY <1>2, <1>7, <2>2, <2>3
<1>15. DebtOK'
  BY <1>2, <1>6, <1>13, <1>14, DebtKept
<1>16. Rooted(head)' /\ \A u \in Users : (index'[u] # None => Rooted(index[u].prev)') /\ Owned(u)'
  BY <1>2, <1>6, <1>11, <1>12
<1>17. call[r].pc \in Writing /\ DOMAIN index' = Users /\ lock' = lock /\ head' \in Seq(Users)
  BY <1>1, <1>2, <1>6 DEF Writing
<1> QED
  BY <1>5, <1>8, <1>9, <1>15, <1>16, <1>17, WriterStep

LEMMA PutIndexRegistry ==
  ASSUME RegistryInv, NEW r \in Calls, putUserIdIndex(r)
  PROVE  RegistryInv'
<1>1. PICK c, rec : c = call[r] /\ rec = [prev |-> call[r].prev, hash |-> chainHash(call[r])]
  OBVIOUS
<1>2. /\ c.pc = "put_index" /\ index' = [index EXCEPT ![c.subject] = rec] /\ rec.prev = c.prev
      /\ call' = [call EXCEPT ![r].pc = "put_head"] /\ UNCHANGED <<crashes, lock, user, head>>
  BY <1>1 DEF putUserIdIndex, at
<1>3. /\ Shaped(c) /\ c.subject \in Users /\ c.prev = head /\ DOMAIN call = Calls
      /\ \A q \in Calls \ {r} : call[q].pc \notin Writing
  BY <1>1, <1>2, WriterFacts DEF Writing
<1>4. PICK new : new = atPut(c, "put_head")
  OBVIOUS
<1>5. /\ call' = [call EXCEPT ![r] = new] /\ Shaped(new) /\ new.pc = "put_head"
      /\ new.subject = c.subject /\ new.prev = c.prev
  <2>1. /\ [c EXCEPT !.pc = "put_head"] = new /\ Shaped(new) /\ new.pc = "put_head"
        /\ new.subject = c.subject /\ new.prev = c.prev
    BY <1>3, <1>4, AtPutFacts
  <2>2. call' = [call EXCEPT ![r] = [c EXCEPT !.pc = "put_head"]]
    BY <1>1, <1>2
  <2> QED
    BY <2>1, <2>2
<1>6. /\ DOMAIN user = Users /\ DOMAIN index = Users /\ head \in Seq(Users)
      /\ CallOK(c) /\ Rooted(head) /\ DebtOK
      /\ \A u \in Users : (index[u] # None => Rooted(index[u].prev)) /\ Owned(u)
  BY <1>1 DEF RegistryInv
<1>7. call'[r] = new /\ \A q \in Calls \ {r} : call'[q] = call[q]
  BY <1>3, <1>5
<1>8. /\ DOMAIN index' = Users /\ index'[c.subject] = rec /\ index[c.subject] = None
      /\ \A u \in Users \ {c.subject} : index'[u] = index[u]
  BY <1>2, <1>3, <1>6 DEF CallOK
<1>9. rec # None
  BY <1>1, <1>3, <1>6, EnrollmentAssumption, HashFacts
<1>10. CallOK(new)'
  BY <1>2, <1>3, <1>5, <1>8, <1>9 DEF CallOK, Shaped, Writing
<1>11. \A u : Closing(u)' <=> u = c.subject
  BY <1>3, <1>5, <1>7 DEF Closing, Writing
<1>12. \A u : ~Closing(u)
  BY <1>1, <1>2, <1>3 DEF Closing, Writing
<1>13. \A p : Rooted(p) => Rooted(p)'
  BY <1>8, <1>11, <1>12 DEF Rooted
<1>14. ASSUME NEW u \in Users PROVE index'[u] # None => Rooted(index[u].prev)'
  <2>1. CASE u = c.subject
    BY <1>2, <1>3, <1>6, <1>8, <1>13, <2>1
  <2>2. CASE u # c.subject
    BY <1>6, <1>8, <1>13, <2>2
  <2> QED
    BY <2>1, <2>2
<1>15. ASSUME NEW u \in Users PROVE Owned(u)'
  BY <1>2, <1>5, <1>6, <1>7 DEF Owned
<1>16. Spoilt' \subseteq Spoilt
  <2> SUFFICES ASSUME NEW p, p \in Spoilt' PROVE p \in Spoilt
    OBVIOUS
  <2>1. \A u \in Users \ {c.subject} : Names(u, p)' <=> Names(u, p)
    BY <1>8 DEF Names
  <2>2. Names(c.subject, p)' <=> p = head
    BY <1>2, <1>3, <1>8, <1>9 DEF Names
  <2>3. (Twice(p) \/ Latent(p))'
    BY DEF Spoilt
  <2>4. Twice(p) \/ (p = head /\ \E u \in Users : Names(u, p))
    <3>1. CASE Twice(p)'
      <4>1. PICK u, v \in Users : u # v /\ Names(u, p)' /\ Names(v, p)'
        BY <3>1 DEF Twice
      <4> QED
        BY <2>1, <2>2, <4>1 DEF Twice
    <3>2. CASE Latent(p)'
      <4>1. PICK u \in Users : p = head' /\ Names(u, p)' /\ ~Closing(u)'
        BY <3>2 DEF Latent
      <4> QED
        BY <1>2, <1>11, <2>1, <4>1
    <3> QED
      BY <2>3, <3>1, <3>2
  <2>5. Twice(p) \/ Latent(p)
    BY <1>12, <2>4 DEF Latent
  <2>6. \E u \in Users : Names(u, p)
    BY <2>4 DEF Twice
  <2> QED
    BY <2>5, <2>6 DEF Spoilt, Names
<1>17. Unindexed' \subseteq Unindexed
  <2> SUFFICES ASSUME NEW u \in Users, user'[u] # None, index'[u] = None
               PROVE  user[u] # None /\ index[u] = None /\ call[user[u]].pc # "put_index"
    BY DEF Unindexed
  <2>1. u # c.subject
    BY <1>8, <1>9
  <2>2. user[u] # None /\ Owned(u) /\ index[u] = None
    BY <1>2, <1>6, <1>8, <2>1
  <2>3. call[user[u]].pc # "put_index"
    BY <1>1, <1>2, <1>3, <2>1, <2>2 DEF Owned, Writing
  <2> QED
    BY <2>2, <2>3
<1>18. DebtOK'
  BY <1>2, <1>6, <1>16, <1>17, DebtKept
<1>19. /\ Rooted(head)' /\ DOMAIN user' = Users /\ lock' = lock /\ call[r].pc \in Writing
       /\ head' \in Seq(Users)
  BY <1>1, <1>2, <1>6, <1>13 DEF Writing
<1> QED
  BY <1>5, <1>8, <1>10, <1>14, <1>15, <1>18, <1>19, WriterStep

LEMMA PutHeadRegistry ==
  ASSUME RegistryInv, NEW r \in Calls, putChainHead(r)
  PROVE  RegistryInv'
<1>1. PICK c, h : c = call[r] /\ h = chainHash(call[r])
  OBVIOUS
<1>2. /\ c.pc = "put_head" /\ head' = h /\ settle(r, "done") /\ UNCHANGED <<crashes, user, index>>
  BY <1>1 DEF putChainHead, at
<1>3. /\ Shaped(c) /\ c.subject \in Users /\ c.prev = head /\ DOMAIN call = Calls
      /\ \A q \in Calls \ {r} : call[q].pc \notin Writing
  BY <1>1, <1>2, WriterFacts DEF Writing
<1>4. PICK new : new = [pc |-> "done"]
  OBVIOUS
<1>5. call' = [call EXCEPT ![r] = new] /\ lock' = Tail(lock) /\ new.pc = "done"
  BY <1>2, <1>4 DEF settle
<1>6. /\ DOMAIN user = Users /\ DOMAIN index = Users /\ head \in Seq(Users)
      /\ CallOK(c) /\ Rooted(head) /\ DebtOK
      /\ \A u \in Users : (index[u] # None => Rooted(index[u].prev)) /\ Owned(u)
  BY <1>1 DEF RegistryInv
<1>7. call'[r] = new /\ \A q \in Calls \ {r} : call'[q] = call[q]
  BY <1>3, <1>5
<1>8. h \in Seq(Users) /\ h # Genesis /\ h[1] = c.subject
  BY <1>1, <1>3, <1>6, HashFacts
<1>9. CallOK(new)' /\ new.pc \notin Writing
  BY <1>5 DEF CallOK, Writing
<1>10. (\A u : ~Closing(u)') /\ Closing(c.subject)
  BY <1>1, <1>2, <1>3, <1>5, <1>7 DEF Closing, Writing
<1>11. \A p : Rooted(p) => Rooted(p)'
  BY <1>2, <1>10 DEF Rooted
<1>12. Rooted(h)'
  BY <1>2, <1>3, <1>6, <1>8, <1>10 DEF Rooted, CallOK
<1>13. ASSUME NEW u \in Users PROVE Owned(u)'
  BY <1>1, <1>2, <1>5, <1>6, <1>7 DEF Owned
<1>14. \A u \in Users : ~Names(u, h)
  <2>1. ~Rooted(h)
    BY <1>8, <1>10 DEF Rooted
  <2> QED
    BY <1>6, <2>1 DEF Names
<1>15. Spoilt' \subseteq Spoilt
  <2> SUFFICES ASSUME NEW p, p \in Spoilt' PROVE p \in Spoilt
    OBVIOUS
  <2>1. \A u \in Users : Names(u, p)' <=> Names(u, p)
    BY <1>2 DEF Names
  <2>2. (Twice(p) \/ Latent(p))'
    BY DEF Spoilt
  <2>3. ~Latent(p)'
    BY <1>2, <1>14, <2>1 DEF Latent
  <2>4. Twice(p)
    BY <2>1, <2>2, <2>3 DEF Twice
  <2> QED
    BY <2>4 DEF Spoilt, Twice, Names
<1>16. Unindexed' \subseteq Unindexed
  <2> SUFFICES ASSUME NEW u \in Users, user[u] # None, index[u] = None,
                      call'[user[u]].pc # "put_index"
               PROVE  call[user[u]].pc # "put_index"
    BY <1>2 DEF Unindexed
  <2>1. user[u] \in Calls
    BY <1>6 DEF Owned
  <2> QED
    BY <1>1, <1>2, <1>7, <2>1
<1>17. DebtOK'
  BY <1>2, <1>6, <1>15, <1>16, DebtKept
<1>18. \A u \in Users : (index'[u] # None => Rooted(index[u].prev)') /\ Owned(u)'
  BY <1>2, <1>6, <1>11, <1>13
<1>19. /\ Rooted(head)' /\ head' \in Seq(Users) /\ DOMAIN user' = Users /\ DOMAIN index' = Users
       /\ call[r].pc \in Writing
  BY <1>1, <1>2, <1>6, <1>8, <1>12 DEF Writing
<1> QED
  BY <1>5, <1>9, <1>17, <1>18, <1>19, WriterStep

(* The call that was writing leaves an account without its record, or a    *)
(* record without its head.                                                *)
LEMMA CrashRegistry ==
  ASSUME RegistryInv, crash, UNCHANGED <<user, index, head>>
  PROVE  RegistryInv'
<1>1. /\ crashes' = crashes + 1 /\ lock' = <<>>
      /\ call' = [r \in Calls |-> IF call[r].pc \in {"idle", "done", "refused", "duplicate"}
                                  THEN call[r] ELSE [pc |-> "lost"]]
  BY DEF crash
<1>2. /\ DOMAIN user = Users /\ DOMAIN index = Users /\ head \in Seq(Users)
      /\ Rooted(head) /\ DebtOK
      /\ \A u \in Users : (index[u] # None => Rooted(index[u].prev)) /\ Owned(u)
      /\ \A q \in Calls : call[q].pc \in Writing => holdsRegistrationLock(q)
  BY DEF RegistryInv
<1>3. DOMAIN call' = Calls /\ lock' \in Seq(Calls)
  BY <1>1, EmptySeq
<1>4. \A q \in Calls : call'[q].pc \in {"idle", "done", "refused", "duplicate", "lost"}
  BY <1>1
<1>5. \A q \in Calls : CallOK(call[q])' /\ call'[q].pc \notin Writing
  BY <1>4 DEF CallOK, Writing
<1>6. \A u : ~Closing(u)'
  BY <1>4 DEF Closing
<1>7. \A p : Rooted(p) => Rooted(p)'
  BY <1>6 DEF Rooted
<1>8. ASSUME NEW u \in Users PROVE Owned(u)'
  <2>1. Owned(u)
    BY <1>2
  <2> QED
    BY <1>1, <2>1 DEF Owned
<1>9. \A p : \A u \in Users : Names(u, p)' <=> Names(u, p)
  BY DEF Names
<1>10. Spoilt' \subseteq Spoilt \union {head}
  <2> SUFFICES ASSUME NEW p, p \in Spoilt', p # head PROVE p \in Spoilt
    OBVIOUS
  <2>1. Twice(p)'
    BY DEF Spoilt, Latent
  <2>2. Twice(p)
    BY <1>9, <2>1 DEF Twice
  <2> QED
    BY <2>2 DEF Spoilt, Twice, Names
<1>11. CASE \E r \in Calls : call[r].pc = "put_index"
  <2>1. PICK r \in Calls : call[r].pc = "put_index"
    BY <1>11
  <2>2. PICK s : s = call[r].subject
    OBVIOUS
  <2>3. \A q \in Calls \ {r} : call[q].pc \notin Writing
    BY <2>1, WriterFacts DEF Writing
  <2>4. \A u : ~Closing(u)
    BY <2>1, <2>3 DEF Closing, Writing
  <2>5. Spoilt' \subseteq Spoilt
    BY <1>6, <1>9, <2>4 DEF Spoilt, Twice, Latent, Names
  <2>6. Unindexed' \subseteq Unindexed \union {s}
    <3> SUFFICES ASSUME NEW u \in Users, user[u] # None, index[u] = None, u # s
                 PROVE  call[user[u]].pc # "put_index"
      BY DEF Unindexed
    <3>1. Owned(u)
      BY <1>2
    <3> QED
      BY <2>2, <2>3, <3>1 DEF Owned, Writing
  <2>7. DebtOK'
    BY <1>1, <1>2, <2>5, <2>6, DebtPaid
  <2> QED
    BY <1>2, <1>3, <1>5, <1>7, <1>8, <2>7 DEF RegistryInv
<1>12. CASE ~ \E r \in Calls : call[r].pc = "put_index"
  <2>1. Unindexed' \subseteq Unindexed
    <3> SUFFICES ASSUME NEW u \in Users, user[u] # None, index[u] = None
                 PROVE  call[user[u]].pc # "put_index"
      BY DEF Unindexed
    <3> QED
      BY <1>2, <1>12 DEF Owned
  <2>2. DebtOK'
    BY <1>1, <1>2, <1>10, <2>1, DebtPaid
  <2> QED
    BY <1>2, <1>3, <1>5, <1>7, <1>8, <2>2 DEF RegistryInv
<1> QED
  BY <1>11, <1>12

LEMMA NextRegistry ==
  ASSUME RegistryInv, [Next]_vars
  PROVE  RegistryInv'
<1>1. ASSUME UNCHANGED <<crashes, call, lock, user, index, head>> PROVE RegistryInv'
  BY <1>1 DEF RegistryInv, CallOK, Shaped, Rooted, Owned, Closing, DebtOK, Unindexed, Spoilt, Twice,
     Latent, Names, holdsRegistrationLock
<1>2. CASE Tick
  BY <1>1, <1>2 DEF Tick, registry
<1>3. CASE Crash
  BY <1>3, CrashRegistry DEF Crash
<1>4. ASSUME NEW r \in Calls, NEW u \in Users, register(r, u) PROVE RegistryInv'
  BY <1>4, EnforceRegistry DEF register
<1>5. ASSUME NEW r \in Calls, NEW s, NEW e \in Events, claim(r, s, e) PROVE RegistryInv'
  <2>1. e # None
    BY EnrollmentAssumption
  <2> QED
    BY <1>5, <2>1, EnforceRegistry DEF claim
<1>6. ASSUME NEW r \in Calls, Registering(r) PROVE RegistryInv'
  BY <1>6, CheckRegistry, PutUserRegistry, PutIndexRegistry, PutHeadRegistry DEF Registering
<1>7. ASSUME \/ \E q \in RemediationIds, k \in Remediable : requestRemediation(q, k)
             \/ \E d \in Deciders, q \in RemediationIds, v \in {"approved", "rejected"} :
                  lookUpRemediation(d, q, v)
             \/ \E d \in Deciders : rejectRemediation(d)
             \/ UNCHANGED vars
      PROVE  RegistryInv'
  <2>1. UNCHANGED <<crashes, call, lock, user, index, head>>
    BY <1>7 DEF requestRemediation, lookUpRemediation, rejectRemediation, vars, registry
  <2> QED
    BY <1>1, <2>1
<1>8. ASSUME NEW d \in Deciders, approveRemediation(d) PROVE RegistryInv'
  <2>1. UNCHANGED <<user, index, head>> /\ (crash \/ UNCHANGED <<call, lock, crashes>>)
    BY <1>8 DEF approveRemediation
  <2> QED
    BY <1>1, <2>1, CrashRegistry
<1>9. ASSUME NEW r \in Calls, NEW answer, evaluateCostOfForgeryDecision(r, answer)
      PROVE  RegistryInv'
  BY <1>9, JudgeRegistry
<1>10. ASSUME NEW r \in Calls, serviceFails(r) PROVE RegistryInv'
  BY <1>10, JudgeRegistry
<1> QED
  BY <1>2, <1>3, <1>4, <1>5, <1>6, <1>7, <1>8, <1>9, <1>10 DEF Next

(* The chain of user ids has every account and no fork, but for one of     *)
(* either for each crash, however many registrations wait for each other   *)
(* (registerUserWithUniqueId, userIdRegistrationLock).                     *)
THEOREM RegistryGapsBounded == Spec => []RegistryGapsBoundedByCrashes
<1>1. Init => RegistryInv
  <2> SUFFICES ASSUME Init PROVE RegistryInv
    OBVIOUS
  <2>1. /\ crashes = 0 /\ call = [r \in Calls |-> Idle] /\ lock = <<>> /\ head = Genesis
        /\ user = [u \in Users |-> None] /\ index = [u \in Users |-> None]
    BY DEF Init
  <2>2. \A r \in Calls : call[r].pc = "idle"
    BY <2>1 DEF Idle
  <2>3. Unindexed = {} /\ Spoilt = {}
    BY <2>1 DEF Unindexed, Spoilt
  <2>4. DebtOK
    <3>1. IsFiniteSet({}) /\ Cardinality({}) = 0
      BY FS_EmptySet
    <3> QED
      BY <2>1, <2>3, <3>1 DEF DebtOK
  <2>5. lock \in Seq(Calls) /\ head \in Seq(Users)
    BY <2>1, EmptySeq DEF Genesis
  <2> QED
    BY <2>1, <2>2, <2>4, <2>5 DEF RegistryInv, CallOK, Writing, Rooted, Owned
<1>2. RegistryInv /\ [Next]_vars => RegistryInv'
  BY NextRegistry
<1>3. RegistryInv => RegistryGapsBoundedByCrashes
  <2> SUFFICES ASSUME RegistryInv PROVE Cardinality(Unindexed) + Cardinality(Forks) <= crashes
    BY DEF RegistryGapsBoundedByCrashes
  <2>1. Forks \subseteq Spoilt
    <3> SUFFICES ASSUME NEW p, p \in Forks PROVE Twice(p)
      BY DEF Forks, Spoilt
    <3>1. PICK S : S = {u \in Users : index[u] # None /\ index[u].prev = p}
      OBVIOUS
    <3>2. Cardinality(S) > 1 /\ \E u \in Users : u \in S
      BY <3>1 DEF Forks
    <3>3. PICK u \in Users : u \in S
      BY <3>2
    <3>4. S # {u}
      <4>1. Cardinality({u}) = 1
        BY FS_Singleton
      <4> QED
        BY <3>2, <4>1
    <3>5. PICK v \in Users : v \in S /\ v # u
      BY <3>1, <3>3, <3>4
    <3> QED
      BY <3>1, <3>3, <3>5 DEF Twice, Names
  <2>2. PICK A, B, C : A = Unindexed /\ B = Spoilt /\ C = Forks
    OBVIOUS
  <2>3. /\ IsFiniteSet(A) /\ IsFiniteSet(B) /\ C \subseteq B /\ crashes \in Nat
        /\ Cardinality(A) + Cardinality(B) <= crashes
    BY <2>1, <2>2 DEF RegistryInv, DebtOK
  <2>4. IsFiniteSet(C) /\ Cardinality(C) <= Cardinality(B)
    BY <2>3, FS_Subset
  <2>5. Cardinality(A) \in Nat /\ Cardinality(B) \in Nat /\ Cardinality(C) \in Nat
    BY <2>3, <2>4, FS_CardinalityType
  <2>6. Cardinality(A) + Cardinality(C) <= crashes
    BY <2>3, <2>4, <2>5
  <2> QED
    BY <2>2, <2>6
<1> QED
  BY <1>1, <1>2, <1>3, PTL DEF Spec
=============================================================================

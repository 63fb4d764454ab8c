---------------------------- MODULE RequestGate ----------------------------
(***************************************************************************)
(* What stands in front of the handlers of the object, and the one handler *)
(* that no client calls. Every API request is first charged to the bucket  *)
(* of its client and then to the bucket all clients share; a bucket that   *)
(* overflows blocks, for longer each time. The cron triggers the random    *)
(* periodic anchor: each trigger carries the time it was scheduled for, is *)
(* delivered at some later moment, and loses control while the anchor      *)
(* entry is appended to the audit log.                                     *)
(***************************************************************************)
EXTENDS Integers, Sequences, FiniteSets, FiniteSetsExt

CONSTANTS
  None,
  Clients,      (* client addresses                                          *)
  Routes,       (* the routes in use                                         *)
  Policy,       (* of each: window, limit, block length                      *)
  GlobalPolicy, (* window and limit of the shared bucket of each policy      *)
  ScaleCap,     (* 16: the longest block, in multiples of the first          *)
  ViolationCap, (* 12                                                        *)
  Deployments,  (* SECURITY_RATE_LIMIT_ENABLED, AUDIT_RANDOM_ANCHOR_ENABLED  *)
  Period,       (* AUDIT_RANDOM_ANCHOR_PERIOD_MINUTES                        *)
  CronEvery,    (* the cron's interval, 5 minutes                            *)
  MaxTime,      (* bound: clock                                              *)
  MaxSkews,     (* bound: times the clock is set back                        *)
  MaxRequests,  (* bound: requests                                           *)
  MaxCrashes    (* bound: crashes and failed appends                         *)

(* What getSecurityRatePolicy and the body check tell apart: a path of its  *)
(* own where the source names it, else the kind of method.                  *)
Writes == {"admin_login", "auth_verify", "tickets_sync", "register", "claim",
           "receipt_verify", "receipt_verify_code", "other_write"}
Uncounted == {"preflight", "page", "metadata"}

(* The four routes that prove who a user is share a policy.                *)
getSecurityRatePolicy(r) ==
  CASE r \in Uncounted -> None
    [] r = "admin_login" -> "admin_login"
    [] r \in {"auth_verify", "tickets_sync", "register", "claim"} -> "user_auth"
    [] r \in {"receipt_verify", "receipt_verify_code"} -> "receipt_verify"
    [] r = "other_write" -> "mutating"
    [] r = "other_read" -> "read"

Policies == {getSecurityRatePolicy(r) : r \in Routes} \ {None}

(* 2 ** n, as far as violations are counted.                               *)
power[n \in 0..ViolationCap] == IF n = 0 THEN 1 ELSE 2 * power[n - 1]

RateState == [windowStart : Nat, count : Nat, blockedUntil : Nat, violations : Nat]
AnchorState == [window : Nat, target : Nat, anchored : BOOLEAN]

ASSUME GateAssumption ==
  /\ Routes \subseteq Writes \union Uncounted \union {"other_read"}
  /\ \A p \in Policies : {Policy[p].window, Policy[p].max, Policy[p].block} \subseteq Nat \ {0}
  /\ {Period, CronEvery, ScaleCap, ViolationCap} \subseteq Nat \ {0}
  /\ {MaxTime, MaxSkews, MaxRequests, MaxCrashes} \subseteq Nat
  /\ None \notin Clients /\ None \notin RateState /\ None \notin AnchorState

VARIABLES
  now, deployment, skews, requests, crashes,
  bucket,    (* storage: security_rate_limit states                         *)
  served,    (* history: requests let through, with their times              *)
  refusals,  (* history: refusals, since it was last let through, of a      *)
             (* client that came back only when its own block was over      *)
  turned,    (* history: requests the shared bucket refused since then      *)
  anchor,    (* storage: audit:random_anchor:state                          *)
  trigger,   (* memory: anchor triggers waiting for their append            *)
  delivered, (* history: scheduled times that reached the object            *)
  anchored,  (* history: scheduled times whose anchor entry is in the log   *)
  disturbed  (* history: triggers that overlapped or were overtaken         *)

limits == <<skews, requests, bucket, served, refusals, turned>>
anchoring == <<anchor, trigger, delivered, anchored, disturbed>>
vars == <<now, deployment, crashes, limits, anchoring>>

Buckets == Clients \union {None}    (* None stands for the shared bucket *)
Times == 0..MaxTime
windowOf(t) == (t \div Period) * Period

Init ==
  /\ now = 0 /\ deployment \in Deployments
  /\ skews = 0 /\ requests = 0 /\ crashes = 0
  /\ bucket = [p \in Policies |-> [b \in Buckets |-> None]]
  /\ served = [p \in Policies |-> [c \in Clients |-> {}]]
  /\ refusals = [p \in Policies |-> [c \in Clients |-> 0]]
  /\ turned = [p \in Policies |-> [c \in Clients |-> 0]]
  /\ anchor = None /\ trigger = [t \in {} |-> None] /\ delivered = {}
  /\ anchored = {} /\ disturbed = 0

(* The clock moves on, or is set back while the object lives. *)
Tick ==
  /\ now < MaxTime /\ now' = now + 1
  /\ UNCHANGED <<deployment, crashes, limits, anchoring>>

SetBack ==
  /\ now > 0 /\ skews < MaxSkews /\ deployment.rate
  /\ now' = now - 1 /\ skews' = skews + 1
  /\ UNCHANGED <<deployment, crashes, requests, bucket, served, refusals, turned, anchoring>>

-----------------------------------------------------------------------------
(* The rate limit *)

blocked(state, t) == state # None /\ state.blockedUntil > t

opened(state, t, policy) ==
  IF state = None \/ t < state.windowStart \/ t - state.windowStart >= policy.window
    THEN [windowStart |-> t, count |-> 0,
          blockedUntil |-> IF state = None THEN 0 ELSE state.blockedUntil,
          violations |-> IF state = None THEN 0 ELSE state.violations]
    ELSE state

(* No backoff. *)
FlatScale(violations) == 1

scale(violations) == Min({power[violations - 1], ScaleCap})

(* The limit compared before the request is counted. *)
CountedLate(state, t, policy) ==
  LET open == opened(state, t, policy)
  IN [state |-> [open EXCEPT !.count = @ + 1], limited |-> open.count > policy.max]

(* The bucket after one more request, and whether the request is refused. *)
consumeSecurityRateState(state, t, policy) ==
  LET open == [opened(state, t, policy) EXCEPT !.count = @ + 1]
      violations == Min({open.violations + 1, ViolationCap})
  IN CASE blocked(state, t) -> [state |-> state, limited |-> TRUE]
       [] ~blocked(state, t) /\ open.count > policy.max ->
            [state |-> [open EXCEPT !.violations = violations,
                                    !.blockedUntil = t + policy.block * scale(violations)],
             limited |-> TRUE]
       [] OTHER -> [state |-> open, limited |-> FALSE]

(* Whether the body is larger than allowed, by its declared length or, when *)
(* none is declared, by the bytes that arrive: asked of a write only.       *)
enforceSecurityBodySizeLimit(r, large) == r \in Writes /\ large

(* A request the client made no earlier than it was told to. *)
Patient(p, c) == ~blocked(bucket[p][c], now)

(* One API request: the client's bucket, then the shared one. A request     *)
(* whose body is too large is refused before it is charged to either, and   *)
(* one without a policy is let through; neither changes anything.           *)
enforceSecurityRateLimit(r, c, large) ==
  LET p == getSecurityRatePolicy(r)
      own == consumeSecurityRateState(bucket[p][c], now, Policy[p])
      all == consumeSecurityRateState(bucket[p][None], now,
                                      [window |-> GlobalPolicy[p].window, max |-> GlobalPolicy[p].max,
                                       block |-> Policy[p].block])
  IN /\ ~enforceSecurityBodySizeLimit(r, large)
     /\ deployment.rate /\ p # None
     /\ requests < MaxRequests /\ requests' = requests + 1
     /\ \/ /\ own.limited
           /\ bucket' = [bucket EXCEPT ![p][c] = own.state]
           /\ refusals' = [refusals EXCEPT ![p][c] = IF Patient(p, c) THEN @ + 1 ELSE @]
           /\ UNCHANGED <<served, turned>>
        \/ /\ ~own.limited /\ all.limited
           /\ bucket' = [bucket EXCEPT ![p][c] = own.state, ![p][None] = all.state]
           /\ turned' = [turned EXCEPT ![p][c] = @ + 1]
           /\ UNCHANGED <<served, refusals>>
        \/ /\ ~own.limited /\ ~all.limited
           /\ bucket' = [bucket EXCEPT ![p][c] = own.state, ![p][None] = all.state]
           /\ served' = [served EXCEPT ![p][c] = @ \union {<<now, requests'>>}]
           /\ refusals' = [refusals EXCEPT ![p][c] = 0]
           /\ turned' = [turned EXCEPT ![p][c] = 0]
     /\ UNCHANGED <<now, deployment, skews, crashes, anchoring>>

-----------------------------------------------------------------------------
(* The random periodic anchor *)

(* buildRandomPeriodicAnchorState: the target is anywhere in the window. *)
fresh(w, offset) == [window |-> w, target |-> w + offset, anchored |-> FALSE]

current(t) == anchor # None /\ anchor.window = windowOf(t)

(* The anchored mark ignored. *)
DueAgain(state, t) == t >= state.target

due(state, t) == ~state.anchored /\ t >= state.target

(* A trigger: its state of the window is read or drawn, and the append of  *)
(* the anchor starts if the target is reached. Nothing of the clock is     *)
(* read but the scheduled time that the cron put in the body.              *)
maybeAppendRandomPeriodicAnchor(t) ==
  /\ deployment.anchor
  /\ t % CronEvery = 0 /\ t <= now /\ t \notin delivered
  /\ delivered' = delivered \union {t}
  /\ disturbed' = disturbed + (IF DOMAIN trigger # {} \/ \E d \in delivered : d > t THEN 1 ELSE 0)
  /\ \E offset \in 0..(Period - 1) :
       LET active == IF current(t) THEN anchor ELSE fresh(windowOf(t), offset)
       IN /\ current(t) => offset = 0
          /\ anchor' = active
          /\ trigger' = IF due(active, t)
                          THEN [d \in DOMAIN trigger \union {t} |->
                                  IF d = t THEN active ELSE trigger[d]]
                          ELSE trigger
  /\ UNCHANGED <<now, deployment, crashes, limits, anchored>>

without(t) == [d \in DOMAIN trigger \ {t} |-> trigger[d]]

(* The entry is in the log: the state read before the append is put back.  *)
putAnchored(t) ==
  /\ anchored' = anchored \union {t}
  /\ anchor' = [trigger[t] EXCEPT !.anchored = TRUE]
  /\ trigger' = without(t)
  /\ UNCHANGED <<now, deployment, crashes, limits, delivered, disturbed>>

(* The append throws or the object is lost, before or after the entry was  *)
(* put, and before the state is.                                           *)
failAppend(t) ==
  /\ crashes < MaxCrashes /\ crashes' = crashes + 1
  /\ anchored' \in {anchored, anchored \union {t}}
  /\ trigger' = without(t)
  /\ UNCHANGED <<now, deployment, limits, anchor, delivered, disturbed>>

Next ==
  \/ Tick
  \/ SetBack
  \/ \E r \in Routes, c \in Clients, large \in BOOLEAN : enforceSecurityRateLimit(r, c, large)
  \/ \E t \in Times : maybeAppendRandomPeriodicAnchor(t)
  \/ \E t \in DOMAIN trigger : putAnchored(t) \/ failAppend(t)

Spec == Init /\ [][Next]_vars

-----------------------------------------------------------------------------

(* What client c was served by p within the length of a window from t on.  *)
servedFrom(p, c, t) == {x \in served[p][c] : t <= x[1] /\ x[1] < t + Policy[p].window}

(* However its requests fall on the edges of the windows, through blocks   *)
(* that end inside a window and with a shared bucket that refuses some,    *)
(* no client is served twice the limit of a policy, by all of its routes   *)
(* together, within the length of its window; each time the clock is set   *)
(* back buys at most as much again (storeDO.ts consumeSecurityRateState).  *)
BurstBounded ==
  \A p \in Policies, c \in Clients, t \in Times :
    Cardinality(servedFrom(p, c, t)) <= (1 + skews) * (2 * Policy[p].max - 1)

(* The refusals that fit in one window when each block is twice as long.   *)
RefusalBound(p) ==
  CHOOSE k \in 1..ViolationCap :
    /\ Policy[p].block * (power[k] - 1) >= Policy[p].window
    /\ \A j \in 1..(k - 1) : Policy[p].block * (power[j] - 1) < Policy[p].window

(* Before a block is as long as its cap allows, the window is over: a      *)
(* block is at least 10 s for a window of a minute and 5 minutes for one   *)
(* of ten (getSecurityRatePolicy).                                         *)
ASSUME BackoffAssumption ==
  \A p \in Policies :
    LET k == RefusalBound(p) IN
    /\ k \in 1..ViolationCap /\ power[k - 1] <= ScaleCap
    /\ Policy[p].block * (power[k] - 1) >= Policy[p].window

(* A block may end inside the window that overflowed, and the first        *)
(* request after it is then refused again. A client that always waits for  *)
(* the end of its own block is refused by its own bucket at most as often  *)
(* as doubling blocks fit in a window before it gets past it, as long as   *)
(* the clock is not set back: it is then let through, unless the shared    *)
(* bucket turns it away. Since a request the shared bucket refuses stays   *)
(* charged to the client, every such refusal can cost it as many refusals  *)
(* of its own again; how often the shared bucket refuses is up to the      *)
(* other clients, and nothing bounds it (enforceSecurityRateLimit).        *)
PatientServed ==
  skews = 0 => \A p \in Policies, c \in Clients :
                 refusals[p][c] <= RefusalBound(p) * (1 + turned[p][c])

(* A window is anchored more than once only by triggers that overlapped or *)
(* were delivered out of order (two entries each at the most: the window   *)
(* that is put back, and the one it displaced) or by appends that failed   *)
(* half way; in particular triggers that come one after the other never    *)
(* anchor twice.                                                           *)
ExtraAnchorsBounded ==
  Cardinality(anchored) <= Cardinality({windowOf(t) : t \in anchored}) + 2 * disturbed + crashes
=============================================================================

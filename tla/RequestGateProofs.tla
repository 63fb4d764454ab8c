------------------------- MODULE RequestGateProofs -------------------------
(***************************************************************************)
(* Proofs about RequestGate for every number of clients, routes, requests, *)
(* triggers and crashes and every policy: how much a client can be served  *)
(* within the length of a window, how often a patient one can be refused,  *)
(* and how many anchor entries a window can get.                           *)
(***************************************************************************)
EXTENDS RequestGate, FiniteSetTheorems, WellFoundedInduction, TLAPS

LEMMA Constants ==
  /\ Period \in Nat /\ Period > 0 /\ MaxTime \in Nat
  /\ ScaleCap \in Nat /\ ScaleCap > 0 /\ ViolationCap \in Nat /\ ViolationCap > 0
  /\ \A p \in Policies : /\ Policy[p].window \in Nat /\ Policy[p].window > 0
                         /\ Policy[p].max \in Nat /\ Policy[p].max > 0
                         /\ Policy[p].block \in Nat /\ Policy[p].block > 0
BY GateAssumption

LEMMA LeastNatural ==
  ASSUME NEW T, T \subseteq Nat, T # {}
  PROVE  \E n \in T : \A m \in T : n <= m
<1>1. PICK n \in T : \A m \in T : ~ (<<m, n>> \in OpToRel(<, Nat))
  BY NatLessThanWellFounded, WFMin, Zenon
<1>2. \A m \in T : ~ (m < n)
  BY <1>1 DEF OpToRel
<1> QED
  BY <1>2

LEMMA GreatestNatural ==
  ASSUME NEW n \in Nat, NEW T, T \subseteq 0..n, T # {}
  PROVE  \E i \in T : \A j \in T : j <= i
<1> DEFINE D == {n - i : i \in T}
<1>1. D \subseteq Nat /\ D # {}
  <2>1. \A i \in T : i \in 0..n
    OBVIOUS
  <2>2. \A i \in 0..n : n - i \in Nat
    OBVIOUS
  <2> QED
    BY <2>1, <2>2
<1>2. PICK d \in D : \A m \in D : d <= m
  BY <1>1, LeastNatural
<1>3. PICK i \in T : d = n - i
  BY <1>2
<1>4. \A j \in T : n - i <= n - j
  BY <1>2, <1>3
<1> QED
  BY <1>3, <1>4

-----------------------------------------------------------------------------
(* The random periodic anchor.                                             *)

LEMMA WindowOrder ==
  ASSUME NEW s \in Nat, NEW t \in Nat, s <= t
  PROVE  windowOf(s) \in Nat /\ windowOf(t) \in Nat /\ windowOf(s) <= windowOf(t)
<1>1. s \div Period \in Nat /\ t \div Period \in Nat /\ s \div Period <= t \div Period
  BY Constants
<1>2. \A a, b \in Nat : a <= b => a * Period \in Nat /\ b * Period \in Nat /\ a * Period <= b * Period
  BY Constants
<1> QED
  BY <1>1, <1>2 DEF windowOf

windowsOf(S) == {windowOf(t) : t \in S}

(* The triggers whose entry is in the log or on its way.                   *)
Entries == anchored \union DOMAIN trigger

Newest(m) == m \in delivered /\ \A d \in delivered : d <= m

(* A later trigger of window w, delivered alone, does not anchor it again. *)
Done(w) ==
  \/ w \notin windowsOf(Entries)
  \/ IF DOMAIN trigger = {} THEN anchor # None /\ anchor.window = w /\ anchor.anchored = TRUE
     ELSE \A t \in DOMAIN trigger : windowOf(t) = w

Good == \A m \in delivered : Newest(m) => Done(windowOf(m))

AnchorTyped ==
  /\ delivered \subseteq Times /\ DOMAIN trigger \subseteq delivered /\ anchored \subseteq delivered
  /\ anchored \intersect DOMAIN trigger = {}
  /\ \A t \in DOMAIN trigger : trigger[t] \in AnchorState /\ trigger[t].window = windowOf(t)
  /\ anchor # None => anchor \in AnchorState
  /\ disturbed \in Nat /\ crashes \in Nat

AnchorInv ==
  /\ AnchorTyped
  /\ Cardinality(Entries) + (IF Good THEN 0 ELSE 1)
       <= Cardinality(windowsOf(Entries)) + 2 * disturbed + crashes

LEMMA SomeTimes ==
  ASSUME NEW S, S \subseteq Times
  PROVE  /\ S \subseteq Nat /\ IsFiniteSet(S) /\ Cardinality(S) \in Nat
         /\ IsFiniteSet(windowsOf(S)) /\ Cardinality(windowsOf(S)) \in Nat
         /\ Cardinality(windowsOf(S)) <= Cardinality(S)
         /\ S # {} => \E m \in S : \A d \in S : d <= m
<1>1. S \subseteq Nat /\ S \subseteq 0..MaxTime
  BY Constants DEF Times
<1>2. IsFiniteSet(S)
  <2>1. IsFiniteSet(0..MaxTime)
    BY Constants, FS_Interval
  <2> QED
    BY <1>1, <2>1, FS_Subset
<1>3. IsFiniteSet(windowsOf(S)) /\ Cardinality(windowsOf(S)) <= Cardinality(S)
  <2> DEFINE f == [t \in S |-> windowOf(t)]
  <2>1. f \in Surjection(S, windowsOf(S))
    BY DEF windowsOf, Surjection
  <2> QED
    BY <1>2, <2>1, FS_Surjection
<1>4. S # {} => \E m \in S : \A d \in S : d <= m
  BY <1>1, Constants, GreatestNatural
<1> QED
  BY <1>1, <1>2, <1>3, <1>4, FS_CardinalityType

(* One trigger more: one entry more, and at most one window more.          *)
LEMMA OneMore ==
  ASSUME NEW S, S \subseteq Times, NEW t \in Times, t \notin S
  PROVE  /\ Cardinality(S \union {t}) = Cardinality(S) + 1
         /\ windowOf(t) \in windowsOf(S) => windowsOf(S \union {t}) = windowsOf(S)
         /\ windowOf(t) \notin windowsOf(S) =>
              Cardinality(windowsOf(S \union {t})) = Cardinality(windowsOf(S)) + 1
<1>1. windowsOf(S \union {t}) = windowsOf(S) \union {windowOf(t)}
  BY DEF windowsOf
<1>2. IsFiniteSet(S) /\ IsFiniteSet(windowsOf(S))
  BY SomeTimes
<1> QED
  BY <1>1, <1>2, FS_AddElement

LEMMA StepDeliver ==
  ASSUME AnchorInv, NEW t \in Times, maybeAppendRandomPeriodicAnchor(t)
  PROVE  AnchorInv'
<1>0. AnchorTyped /\ t \in Nat /\ windowOf(t) \in Nat
  BY Constants, WindowOrder DEF AnchorInv, Times
<1>1. /\ t \notin delivered /\ delivered' = delivered \union {t} /\ UNCHANGED <<anchored, crashes>>
      /\ disturbed' = disturbed + (IF DOMAIN trigger # {} \/ \E d \in delivered : d > t THEN 1 ELSE 0)
  BY DEF maybeAppendRandomPeriodicAnchor
<1>2. PICK offset \in 0..(Period - 1) :
        LET active == IF current(t) THEN anchor ELSE fresh(windowOf(t), offset)
        IN /\ anchor' = active
           /\ trigger' = IF due(active, t)
                           THEN [d \in DOMAIN trigger \union {t} |->
                                   IF d = t THEN active ELSE trigger[d]]
                           ELSE trigger
  BY DEF maybeAppendRandomPeriodicAnchor
<1>3. PICK active : active = IF current(t) THEN anchor ELSE fresh(windowOf(t), offset)
  OBVIOUS
<1>4. /\ anchor' = active
      /\ trigger' = IF due(active, t)
                      THEN [d \in DOMAIN trigger \union {t} |->
                              IF d = t THEN active ELSE trigger[d]]
                      ELSE trigger
  BY <1>2, <1>3
<1>5. active \in AnchorState /\ active.window = windowOf(t) /\ active # None
  <2>1. CASE current(t)
    BY <1>0, <1>3, <2>1, GateAssumption DEF current, AnchorTyped
  <2>2. CASE ~current(t)
    <3>1. active = [window |-> windowOf(t), target |-> windowOf(t) + offset, anchored |-> FALSE]
      BY <1>3, <2>2 DEF fresh
    <3>2. windowOf(t) + offset \in Nat
      BY <1>0, Constants
    <3>3. active \in AnchorState /\ active.window = windowOf(t)
      BY <1>0, <3>1, <3>2 DEF AnchorState
    <3> QED
      BY <3>3, GateAssumption
  <2> QED
    BY <2>1, <2>2
<1>6. /\ DOMAIN trigger' = IF due(active, t) THEN DOMAIN trigger \union {t} ELSE DOMAIN trigger
      /\ \A d \in DOMAIN trigger' : trigger'[d] = IF d = t THEN active ELSE trigger[d]
  BY <1>0, <1>1, <1>4 DEF AnchorTyped
<1>7. disturbed' \in Nat
  BY <1>0, <1>1 DEF AnchorTyped
<1>8. AnchorTyped'
  BY <1>0, <1>1, <1>4, <1>5, <1>6, <1>7 DEF AnchorTyped
<1>9. Entries' = IF due(active, t) THEN Entries \union {t} ELSE Entries
  BY <1>1, <1>6 DEF Entries
<1>10. Entries \subseteq delivered /\ Entries \subseteq Times /\ t \notin Entries
  BY <1>0, <1>1 DEF Entries, AnchorTyped
<1>11. /\ Cardinality(Entries) \in Nat /\ Cardinality(windowsOf(Entries)) \in Nat
       /\ Cardinality(Entries \union {t}) = Cardinality(Entries) + 1
       /\ windowOf(t) \in windowsOf(Entries) => windowsOf(Entries \union {t}) = windowsOf(Entries)
       /\ windowOf(t) \notin windowsOf(Entries) =>
            Cardinality(windowsOf(Entries \union {t})) = Cardinality(windowsOf(Entries)) + 1
  BY <1>10, SomeTimes, OneMore
<1>12. windowsOf(Entries)' = windowsOf(Entries')
  BY DEF windowsOf, windowOf
<1>13. CASE DOMAIN trigger # {} \/ \E d \in delivered : d > t
  <2>1. disturbed' = disturbed + 1 /\ disturbed \in Nat /\ crashes' = crashes /\ crashes \in Nat
    BY <1>0, <1>1, <1>13 DEF AnchorTyped
  <2>2. Cardinality(Entries') <= Cardinality(windowsOf(Entries')) + 2 * disturbed + crashes + 1
    BY <1>9, <1>11, <2>1 DEF AnchorInv
  <2>3. Cardinality(Entries') \in Nat /\ Cardinality(windowsOf(Entries')) \in Nat
    BY <1>9, <1>11
  <2> QED
    BY <1>8, <1>12, <2>1, <2>2, <2>3 DEF AnchorInv
<1>14. CASE DOMAIN trigger = {} /\ \A d \in delivered : d <= t
  <2>1. disturbed' = disturbed /\ disturbed \in Nat /\ crashes' = crashes /\ crashes \in Nat
    <3>1. \A d \in delivered : ~(d > t)
      BY <1>0, <1>14, Constants DEF AnchorTyped, Times
    <3> QED
      BY <1>0, <1>1, <1>14, <3>1 DEF AnchorTyped
  <2>2. \A m \in delivered' : Newest(m)' => m = t
    BY <1>0, <1>1, <1>14, Constants DEF Newest, AnchorTyped, Times
  <2>3. Good' <=> Done(windowOf(t))'
    <3>1. Newest(t)'
      BY <1>0, <1>1, <1>14, Constants DEF Newest
    <3> QED
      BY <1>1, <2>2, <3>1 DEF Good, Done, windowOf
  (* The window has entries already: it is the newest, and then Good says  *)
  (* that it is anchored.                                                  *)
  <2>4. ASSUME windowOf(t) \in windowsOf(Entries), Good
        PROVE  ~due(active, t) /\ Done(windowOf(t))'
    <3>1. PICK e \in Entries : windowOf(e) = windowOf(t)
      BY <2>4 DEF windowsOf
    <3>2. e \in delivered /\ delivered # {}
      BY <1>10, <3>1
    <3>3. PICK m \in delivered : \A d \in delivered : d <= m
      BY <1>0, <3>2, SomeTimes DEF AnchorTyped
    <3>4. windowOf(m) = windowOf(t)
      <4>1. e \in Nat /\ m \in Nat /\ e <= m /\ m <= t
        BY <1>0, <1>14, <3>2, <3>3, Constants DEF AnchorTyped, Times
      <4>2. windowOf(e) <= windowOf(m) /\ windowOf(m) <= windowOf(t) /\ windowOf(m) \in Nat
        BY <1>0, <4>1, WindowOrder
      <4> QED
        BY <1>0, <3>1, <4>2
    <3>5. Done(windowOf(t))
      BY <2>4, <3>3, <3>4 DEF Good, Newest
    <3>6. anchor # None /\ anchor.window = windowOf(t) /\ anchor.anchored = TRUE
      BY <1>14, <2>4, <3>5 DEF Done
    <3>7. active = anchor
      BY <1>3, <3>6 DEF current
    <3>8. ~due(active, t)
      BY <3>6, <3>7 DEF due
    <3>9. DOMAIN trigger' = {} /\ anchor' = anchor
      BY <1>4, <1>6, <1>14, <3>7, <3>8
    <3>10. (anchor # None /\ anchor.window = windowOf(t) /\ anchor.anchored = TRUE)'
      BY <3>6, <3>9 DEF windowOf
    <3> QED
      BY <3>8, <3>9, <3>10 DEF Done
  <2>5. CASE windowOf(t) \in windowsOf(Entries)
    <3>1. CASE Good
      BY <1>8, <1>9, <1>12, <2>1, <2>3, <2>4, <2>5, <3>1 DEF AnchorInv
    <3>2. CASE ~Good /\ due(active, t)
      <4>1. DOMAIN trigger' = {t}
        BY <1>6, <1>14, <3>2
      <4>2. Good'
        BY <2>3, <4>1 DEF Done, windowOf
      <4> QED
        BY <1>8, <1>9, <1>11, <1>12, <2>1, <2>5, <3>2, <4>2 DEF AnchorInv
    <3>3. CASE ~Good /\ ~due(active, t)
      BY <1>8, <1>9, <1>11, <1>12, <2>1, <3>3 DEF AnchorInv
    <3> QED
      BY <3>1, <3>2, <3>3
  <2>6. CASE windowOf(t) \notin windowsOf(Entries)
    <3>1. Done(windowOf(t))'
      <4>1. CASE due(active, t)
        <5>1. DOMAIN trigger' = {t}
          BY <1>6, <1>14, <4>1
        <5> QED
          BY <5>1 DEF Done, windowOf
      <4>2. CASE ~due(active, t)
        <5>1. windowOf(t)' \notin windowsOf(Entries)'
          BY <1>9, <1>12, <2>6, <4>2 DEF windowOf
        <5> QED
          BY <5>1 DEF Done
      <4> QED
        BY <4>1, <4>2
    <3>2. Cardinality(Entries) <= Cardinality(windowsOf(Entries)) + 2 * disturbed + crashes
      BY <1>11, <2>1 DEF AnchorInv
    <3>3. Cardinality(Entries') <= Cardinality(windowsOf(Entries')) + 2 * disturbed + crashes
      BY <1>9, <1>11, <2>1, <2>6, <3>2
    <3>4. Good'
      BY <2>3, <3>1
    <3>5. PICK a \in Nat : a = Cardinality(Entries')
      BY <1>9, <1>11
    <3>6. PICK b \in Nat : b = Cardinality(windowsOf(Entries'))
      BY <1>9, <1>11
    <3>7. a <= b + 2 * disturbed + crashes
      BY <3>3, <3>5, <3>6
    <3> QED
      BY <1>8, <1>12, <2>1, <3>4, <3>5, <3>6, <3>7 DEF AnchorInv
  <2> QED
    BY <2>5, <2>6
<1> QED
  <2>1. \A d \in delivered : d > t \/ d <= t
    BY <1>0, Constants DEF AnchorTyped, Times
  <2> QED
    BY <1>13, <1>14, <2>1

(* The entry is put: it was on its way before.                             *)
LEMMA StepPut ==
  ASSUME AnchorInv, NEW t \in DOMAIN trigger, putAnchored(t)
  PROVE  AnchorInv'
<1>0. AnchorTyped
  BY DEF AnchorInv
<1>1. /\ anchored' = anchored \union {t} /\ UNCHANGED <<delivered, disturbed, crashes>>
      /\ anchor' = [trigger[t] EXCEPT !.anchored = TRUE]
      /\ trigger' = [d \in DOMAIN trigger \ {t} |-> trigger[d]]
  BY DEF putAnchored, without
<1>2. /\ DOMAIN trigger' = DOMAIN trigger \ {t}
      /\ \A d \in DOMAIN trigger' : trigger'[d] = trigger[d]
  BY <1>1
<1>3. trigger[t] \in AnchorState /\ trigger[t].window = windowOf(t)
  BY <1>0 DEF AnchorTyped
<1>4. /\ anchor' \in AnchorState /\ anchor'.window = windowOf(t) /\ anchor'.anchored = TRUE
      /\ anchor' # None
  <2>1. anchor' \in AnchorState /\ anchor'.window = windowOf(t) /\ anchor'.anchored = TRUE
    BY <1>1, <1>3 DEF AnchorState
  <2> QED
    BY <2>1, GateAssumption
<1>5. AnchorTyped'
  <2>1. anchored' \subseteq delivered' /\ anchored' \intersect DOMAIN trigger' = {}
    BY <1>0, <1>1, <1>2 DEF AnchorTyped
  <2> QED
    BY <1>0, <1>1, <1>2, <1>4, <2>1 DEF AnchorTyped, windowOf
<1>6. Entries' = Entries /\ windowsOf(Entries)' = windowsOf(Entries)
  <2>1. Entries' = Entries
    BY <1>1, <1>2 DEF Entries
  <2> QED
    BY <2>1 DEF windowsOf, windowOf
<1>7. Good => Good'
  <2> SUFFICES ASSUME Good, NEW m \in delivered, Newest(m) PROVE Done(windowOf(m))'
    BY <1>1 DEF Good, Newest
  <2>1. Done(windowOf(m)) /\ windowOf(m)' = windowOf(m)
    BY DEF Good, windowOf
  <2>2. CASE windowOf(m) \notin windowsOf(Entries)
    BY <1>6, <2>1, <2>2 DEF Done
  <2>3. CASE \A d \in DOMAIN trigger : windowOf(d) = windowOf(m)
    <3>1. CASE DOMAIN trigger' = {}
      BY <1>4, <2>1, <2>3, <3>1 DEF Done
    <3>2. CASE DOMAIN trigger' # {}
      <4>1. \A d \in DOMAIN trigger' : windowOf(d) = windowOf(m)
        BY <1>2, <2>3
      <4> QED
        BY <2>1, <3>2, <4>1 DEF Done, windowOf
    <3> QED
      BY <3>1, <3>2
  <2> QED
    BY <2>1, <2>2, <2>3 DEF Done
<1>8. PICK a \in Nat : a = Cardinality(Entries)
  BY <1>0, SomeTimes DEF Entries, AnchorTyped
<1>9. PICK b \in Nat : b = Cardinality(windowsOf(Entries))
  BY <1>0, SomeTimes DEF Entries, AnchorTyped
<1>10. a + (IF Good' THEN 0 ELSE 1) <= b + 2 * disturbed + crashes
  BY <1>0, <1>7, <1>8, <1>9 DEF AnchorInv, AnchorTyped
<1> QED
  BY <1>1, <1>5, <1>6, <1>8, <1>9, <1>10 DEF AnchorInv

(* The append fails, with its entry in the log or not.                     *)
LEMMA StepFail ==
  ASSUME AnchorInv, NEW t \in DOMAIN trigger, failAppend(t)
  PROVE  AnchorInv'
<1>0. AnchorTyped
  BY DEF AnchorInv
<1>1. /\ anchored' = anchored \/ anchored' = anchored \union {t}
      /\ UNCHANGED <<delivered, disturbed, anchor>> /\ crashes' = crashes + 1
      /\ trigger' = [d \in DOMAIN trigger \ {t} |-> trigger[d]]
  BY DEF failAppend, without
<1>2. /\ DOMAIN trigger' = DOMAIN trigger \ {t}
      /\ \A d \in DOMAIN trigger' : trigger'[d] = trigger[d]
  BY <1>1
<1>3. AnchorTyped'
  <2>1. anchored' \subseteq delivered' /\ anchored' \intersect DOMAIN trigger' = {}
    BY <1>0, <1>1, <1>2 DEF AnchorTyped
  <2> QED
    BY <1>0, <1>1, <1>2, <2>1 DEF AnchorTyped, windowOf
<1>4. PICK S : S = Entries'
  OBVIOUS
<1>5. (S = Entries \/ S = Entries \ {t}) /\ t \in Entries /\ Entries \subseteq Times
  BY <1>0, <1>1, <1>2, <1>4 DEF Entries, AnchorTyped
<1>6. windowsOf(Entries)' = windowsOf(S)
  BY <1>4 DEF windowsOf, windowOf
<1>7. PICK a \in Nat : a = Cardinality(Entries)
  BY <1>5, SomeTimes
<1>8. PICK b \in Nat : b = Cardinality(windowsOf(Entries))
  BY <1>5, SomeTimes
<1>9. a <= b + 2 * disturbed + crashes /\ disturbed \in Nat /\ crashes \in Nat
  BY <1>0, <1>7, <1>8 DEF AnchorInv, AnchorTyped
<1>10. PICK c \in Nat : c = Cardinality(S)
  BY <1>5, SomeTimes
<1>11. PICK e \in Nat : e = Cardinality(windowsOf(S))
  BY <1>5, SomeTimes
<1>12. c <= e + 2 * disturbed + crashes
  <2>1. CASE S = Entries
    BY <1>7, <1>8, <1>9, <1>10, <1>11, <2>1
  <2>2. CASE S = Entries \ {t}
    <3>1. S \subseteq Times /\ t \in Times /\ t \notin S /\ S \union {t} = Entries
      BY <1>5, <2>2
    <3>2. a = c + 1
      BY <1>7, <1>10, <3>1, OneMore
    <3>3. b = e \/ b = e + 1
      BY <1>8, <1>11, <3>1, OneMore
    <3> QED
      BY <1>9, <3>2, <3>3
  <2> QED
    BY <1>5, <2>1, <2>2
<1>13. c + (IF Good' THEN 0 ELSE 1) <= e + 2 * disturbed' + crashes'
  BY <1>1, <1>9, <1>12
<1> QED
  BY <1>3, <1>4, <1>6, <1>10, <1>11, <1>13 DEF AnchorInv

LEMMA AnchorElsewhere ==
  ASSUME AnchorInv, UNCHANGED <<anchoring, crashes>>
  PROVE  AnchorInv'
BY DEF anchoring, AnchorInv, AnchorTyped, Entries, windowsOf, windowOf, Good, Newest, Done

LEMMA NextAnchorInv == ASSUME AnchorInv, [Next]_vars PROVE AnchorInv'
<1>1. Tick \/ SetBack => UNCHANGED <<anchoring, crashes>>
  BY DEF Tick, SetBack
<1>2. ASSUME NEW r, NEW c, NEW large, enforceSecurityRateLimit(r, c, large)
      PROVE  UNCHANGED <<anchoring, crashes>>
  BY <1>2 DEF enforceSecurityRateLimit
<1>3. UNCHANGED vars => UNCHANGED <<anchoring, crashes>>
  BY DEF vars
<1> QED
  BY <1>1, <1>2, <1>3, AnchorElsewhere, StepDeliver, StepPut, StepFail DEF Next

LEMMA InitAnchorInv == ASSUME Init PROVE AnchorInv
<1>1. /\ anchor = None /\ DOMAIN trigger = {} /\ delivered = {} /\ anchored = {}
      /\ disturbed = 0 /\ crashes = 0
  BY DEF Init
<1>2. Entries = {} /\ windowsOf(Entries) = {} /\ Good
  BY <1>1 DEF Entries, windowsOf, Good
<1> QED
  BY <1>1, <1>2, FS_EmptySet DEF AnchorInv, AnchorTyped

(* maybeAppendRandomPeriodicAnchor, whose state is read before the append  *)
(* and written after it: for any period, any late, reordered or            *)
(* overlapping triggers and any failures of the append, a window is        *)
(* anchored again at most twice for each trigger that overlapped or was    *)
(* overtaken and once for each failure.                                    *)
THEOREM ExtraAnchors == Spec => []ExtraAnchorsBounded
<1>1. ASSUME AnchorInv PROVE ExtraAnchorsBounded
  <2>1. /\ Entries \subseteq Times /\ anchored \subseteq Times /\ DOMAIN trigger \subseteq Times
        /\ disturbed \in Nat /\ crashes \in Nat /\ anchored \intersect DOMAIN trigger = {}
    BY <1>1 DEF AnchorInv, AnchorTyped, Entries
  <2>2. /\ Cardinality(Entries) \in Nat /\ Cardinality(windowsOf(Entries)) \in Nat
        /\ Cardinality(anchored) \in Nat /\ Cardinality(windowsOf(anchored)) \in Nat
    BY <2>1, SomeTimes
  <2>3. Cardinality(Entries) <= Cardinality(windowsOf(Entries)) + 2 * disturbed + crashes
    BY <1>1, <2>1, <2>2 DEF AnchorInv
  <2>4. /\ Cardinality(Entries) = Cardinality(anchored) + Cardinality(DOMAIN trigger)
        /\ Cardinality(windowsOf(Entries)) <= Cardinality(windowsOf(anchored)) + Cardinality(DOMAIN trigger)
        /\ Cardinality(DOMAIN trigger) \in Nat
    <3>1. /\ IsFiniteSet(anchored) /\ IsFiniteSet(DOMAIN trigger)
          /\ IsFiniteSet(windowsOf(anchored)) /\ IsFiniteSet(windowsOf(DOMAIN trigger))
          /\ Cardinality(windowsOf(DOMAIN trigger)) <= Cardinality(DOMAIN trigger)
          /\ Cardinality(DOMAIN trigger) \in Nat /\ Cardinality(windowsOf(DOMAIN trigger)) \in Nat
      BY <2>1, SomeTimes
    <3>2. Cardinality(Entries) = Cardinality(anchored) + Cardinality(DOMAIN trigger)
      <4>1. Cardinality({}) = 0
        BY FS_EmptySet
      <4>2. Cardinality(Entries) = Cardinality(anchored) + Cardinality(DOMAIN trigger)
                                     - Cardinality(anchored \intersect DOMAIN trigger)
        BY <3>1, FS_Union DEF Entries
      <4> QED
        BY <2>1, <2>2, <3>1, <4>1, <4>2
    <3>3. windowsOf(Entries) = windowsOf(anchored) \union windowsOf(DOMAIN trigger)
      BY DEF windowsOf, Entries
    <3>4. PICK both : both = windowsOf(anchored) \intersect windowsOf(DOMAIN trigger)
      OBVIOUS
    <3>5. Cardinality(both) \in Nat
      BY <3>1, <3>4, FS_Subset, FS_CardinalityType
    <3>6. Cardinality(windowsOf(Entries)) =
            Cardinality(windowsOf(anchored)) + Cardinality(windowsOf(DOMAIN trigger)) - Cardinality(both)
      BY <3>1, <3>3, <3>4, FS_Union
    <3> QED
      BY <2>2, <3>1, <3>2, <3>5, <3>6
  <2> QED
    BY <2>1, <2>2, <2>3, <2>4 DEF ExtraAnchorsBounded, windowsOf
<1> QED
  BY <1>1, InitAnchorInv, NextAnchorInv, PTL DEF Spec

-----------------------------------------------------------------------------
(* Powers.                                                                 *)

Powers(f, n) == f = [i \in 0..n |-> IF i = 0 THEN 1 ELSE 2 * f[i - 1]]

LEMMA PowersExist == ASSUME NEW n \in Nat PROVE \E f : Powers(f, n)
<1> DEFINE T == {m \in Nat : ~\E f : Powers(f, m)}
<1> SUFFICES ASSUME n \in T PROVE FALSE
  OBVIOUS
<1>1. PICK m \in T : \A k \in T : m <= k
  BY LeastNatural
<1>2. m # 0
  <2>1. PICK f : f = [i \in 0..0 |-> 1]
    OBVIOUS
  <2>2. Powers(f, 0)
    BY <2>1 DEF Powers
  <2> QED
    BY <1>1, <2>2
<1>3. PICK f : Powers(f, m - 1)
  BY <1>1, <1>2
<1>4. PICK g : g = [i \in 0..m |-> IF i = m THEN 2 * f[m - 1] ELSE f[i]]
  OBVIOUS
<1>5. \A i \in 0..m : g[i] = IF i = 0 THEN 1 ELSE 2 * g[i - 1]
  <2> SUFFICES ASSUME NEW i \in 0..m PROVE g[i] = IF i = 0 THEN 1 ELSE 2 * g[i - 1]
    OBVIOUS
  <2>1. \A j \in 0..(m - 1) : f[j] = IF j = 0 THEN 1 ELSE 2 * f[j - 1]
    BY <1>3 DEF Powers
  <2>2. \A j \in 0..(m - 1) : g[j] = f[j]
    BY <1>1, <1>2, <1>4
  <2>3. CASE i = m
    BY <1>1, <1>2, <1>4, <2>2, <2>3
  <2>4. CASE i # m
    BY <1>1, <1>2, <2>1, <2>2, <2>4
  <2> QED
    BY <2>3, <2>4
<1>6. Powers(g, m)
  BY <1>4, <1>5 DEF Powers
<1> QED
  BY <1>1, <1>6

LEMMA PowerSteps ==
  /\ power[0] = 1
  /\ \A n \in 1..ViolationCap : power[n] = 2 * power[n - 1]
<1>1. power = CHOOSE f : Powers(f, ViolationCap)
  BY DEF power, Powers
<1>2. Powers(power, ViolationCap)
  BY <1>1, PowersExist, Constants
<1>3. \A n \in 0..ViolationCap : power[n] = IF n = 0 THEN 1 ELSE 2 * power[n - 1]
  BY <1>2 DEF Powers
<1> QED
  BY <1>3, Constants

LEMMA PowerPositive == \A n \in 0..ViolationCap : power[n] \in Nat /\ power[n] >= 1
<1> DEFINE T == {n \in 0..ViolationCap : ~(power[n] \in Nat /\ power[n] >= 1)}
<1> SUFFICES ASSUME T # {} PROVE FALSE
  OBVIOUS
<1>0. T \subseteq Nat
  BY Constants
<1>1. PICK n \in T : \A m \in T : n <= m
  <2> HIDE DEF T
  <2> QED
    BY <1>0, LeastNatural
<1>2. n # 0 /\ n \in 1..ViolationCap
  BY <1>1, PowerSteps, Constants
<1>3. power[n - 1] \in Nat /\ power[n - 1] >= 1
  BY <1>1, <1>2, Constants
<1>4. power[n] = 2 * power[n - 1]
  BY <1>2, PowerSteps
<1> QED
  BY <1>1, <1>3, <1>4

LEMMA PowerGrows ==
  ASSUME NEW i \in 0..ViolationCap, NEW j \in 0..ViolationCap, i <= j
  PROVE  power[i] <= power[j]
<1> DEFINE T == {n \in 0..ViolationCap : i <= n /\ ~(power[i] <= power[n])}
<1> SUFFICES ASSUME j \in T PROVE FALSE
  OBVIOUS
<1>0. T \subseteq Nat
  BY Constants
<1>1. PICK n \in T : \A m \in T : n <= m
  <2> HIDE DEF T
  <2> QED
    BY <1>0, LeastNatural
<1>2. power[i] \in Nat /\ n # i /\ n \in 1..ViolationCap
  BY <1>1, PowerPositive, Constants
<1>3. power[i] <= power[n - 1] /\ power[n - 1] \in Nat
  BY <1>1, <1>2, PowerPositive, Constants
<1>4. power[n] = 2 * power[n - 1]
  BY <1>2, PowerSteps
<1> QED
  BY <1>1, <1>2, <1>3, <1>4

(* Min of FiniteSetsExt on two numbers.                                    *)
LEMMA MinOfTwo ==
  ASSUME NEW a \in Int, NEW b \in Int
  PROVE  Min({a, b}) = IF a <= b THEN a ELSE b
<1>1. PICK m : m = Min({a, b})
  OBVIOUS
<1>2. m = CHOOSE x \in {a, b} : \A y \in {a, b} : x <= y
  BY <1>1 DEF Min
<1>3. \E x \in {a, b} : \A y \in {a, b} : x <= y
  OBVIOUS
<1>4. m \in {a, b} /\ \A y \in {a, b} : m <= y
  BY <1>2, <1>3
<1> QED
  BY <1>1, <1>4

LEMMA ScaleFacts ==
  ASSUME NEW v \in 1..ViolationCap
  PROVE  /\ scale(v) \in Nat /\ scale(v) >= 1
         /\ \A r \in 0..(v - 1) : power[r] <= ScaleCap => power[r] <= scale(v)
<1>1. v - 1 \in 0..ViolationCap
  BY Constants
<1>2. power[v - 1] \in Nat /\ power[v - 1] >= 1
  BY <1>1, PowerPositive
<1>3. scale(v) = IF power[v - 1] <= ScaleCap THEN power[v - 1] ELSE ScaleCap
  BY <1>2, Constants, MinOfTwo DEF scale
<1>4. \A r \in 0..(v - 1) : power[r] <= power[v - 1] /\ power[r] \in Nat
  BY <1>1, PowerGrows, PowerPositive, Constants
<1> QED
  BY <1>2, <1>3, <1>4, Constants

-----------------------------------------------------------------------------
(* One request charged to a bucket.                                        *)

Doubled(s) == IF s.violations + 1 <= ViolationCap THEN s.violations + 1 ELSE ViolationCap

(* The window of the bucket is over, not yet begun, or was never opened.   *)
Reopens(s, t, window) == s = None \/ t < s.windowStart \/ t - s.windowStart >= window

LEMMA OpenedFacts ==
  ASSUME NEW s \in RateState \union {None}, NEW t \in Nat, NEW policy
  PROVE  /\ opened(s, t, policy) \in RateState
         /\ Reopens(s, t, policy.window) =>
              opened(s, t, policy).windowStart = t /\ opened(s, t, policy).count = 0
         /\ ~Reopens(s, t, policy.window) => s \in RateState /\ opened(s, t, policy) = s
<1>1. CASE Reopens(s, t, policy.window)
  <2>1. opened(s, t, policy) =
          [windowStart |-> t, count |-> 0,
           blockedUntil |-> IF s = None THEN 0 ELSE s.blockedUntil,
           violations |-> IF s = None THEN 0 ELSE s.violations]
    BY <1>1 DEF opened, Reopens
  <2>2. (IF s = None THEN 0 ELSE s.blockedUntil) \in Nat
    BY DEF RateState
  <2>3. (IF s = None THEN 0 ELSE s.violations) \in Nat
    BY DEF RateState
  <2> QED
    BY <1>1, <2>1, <2>2, <2>3 DEF RateState
<1>2. CASE ~Reopens(s, t, policy.window)
  BY <1>2 DEF opened, Reopens
<1> QED
  BY <1>1, <1>2

LEMMA DoubledFacts ==
  ASSUME NEW s \in RateState
  PROVE  /\ Doubled(s) \in 1..ViolationCap
         /\ Min({s.violations + 1, ViolationCap}) = Doubled(s)
BY Constants, MinOfTwo DEF Doubled, RateState

(* What becomes of the bucket s, and whether the request is refused.       *)
Charge(s, t, policy, next, limited) ==
  \/ blocked(s, t) /\ limited = TRUE /\ next = s
  \/ /\ ~blocked(s, t) /\ limited = TRUE
     /\ ~Reopens(s, t, policy.window) /\ s.count + 1 > policy.max
     /\ next = [s EXCEPT !.count = @ + 1, !.violations = Doubled(s),
                         !.blockedUntil = t + policy.block * scale(Doubled(s))]
  \/ /\ ~blocked(s, t) /\ limited = FALSE /\ ~Reopens(s, t, policy.window)
     /\ s.count + 1 <= policy.max /\ next = [s EXCEPT !.count = @ + 1]
  \/ /\ ~blocked(s, t) /\ limited = FALSE /\ Reopens(s, t, policy.window)
     /\ next \in RateState /\ next.windowStart = t /\ next.count = 1

(* The two results of a request that is not blocked.                       *)
LEMMA ConsumeTyped ==
  ASSUME NEW s \in RateState \union {None}, NEW t \in Nat, NEW policy, policy.block \in Nat
  PROVE  consumeSecurityRateState(s, t, policy).state \in RateState \union {None}
<1>1. PICK o \in RateState : o = opened(s, t, policy)
  BY OpenedFacts
<1>2. PICK open : open = [o EXCEPT !.count = @ + 1]
  OBVIOUS
<1>3. open \in RateState
  BY <1>2 DEF RateState
<1>4. PICK v : v = Min({open.violations + 1, ViolationCap})
  OBVIOUS
<1>5. v \in 1..ViolationCap
  BY <1>3, <1>4, DoubledFacts
<1>6. PICK u : u = t + policy.block * scale(v)
  OBVIOUS
<1>7. u \in Nat
  BY <1>5, <1>6, ScaleFacts
<1>8. [open EXCEPT !.violations = v, !.blockedUntil = u] \in RateState
  <2>1. v \in Nat
    BY <1>5, Constants
  <2> QED
    BY <1>3, <1>7, <2>1 DEF RateState
<1>9. consumeSecurityRateState(s, t, policy) =
        CASE blocked(s, t) -> [state |-> s, limited |-> TRUE]
          [] ~blocked(s, t) /\ open.count > policy.max ->
               [state |-> [open EXCEPT !.violations = v, !.blockedUntil = u], limited |-> TRUE]
          [] OTHER -> [state |-> open, limited |-> FALSE]
  BY <1>1, <1>2, <1>4, <1>6 DEF consumeSecurityRateState
<1> QED
  BY <1>3, <1>8, <1>9

LEMMA ConsumeCharges ==
  ASSUME NEW s \in RateState \union {None}, NEW t \in Nat, NEW policy,
         policy.block \in Nat, policy.max \in Nat, policy.max > 0
  PROVE  Charge(s, t, policy, consumeSecurityRateState(s, t, policy).state,
                consumeSecurityRateState(s, t, policy).limited)
<1>1. PICK o \in RateState : o = opened(s, t, policy)
  BY OpenedFacts
<1>2. PICK open : open = [o EXCEPT !.count = @ + 1]
  OBVIOUS
<1>3. open \in RateState /\ open.count = o.count + 1 /\ open.violations = o.violations
      /\ open.windowStart = o.windowStart
  BY <1>2 DEF RateState
<1>4. PICK v : v = Min({open.violations + 1, ViolationCap})
  OBVIOUS
<1>5. v = Doubled(open) /\ v = Doubled(o)
  BY <1>3, <1>4, DoubledFacts DEF Doubled
<1>6. PICK u : u = t + policy.block * scale(v)
  OBVIOUS
<1>7. PICK r : r = consumeSecurityRateState(s, t, policy)
  OBVIOUS
<1>8. r = CASE blocked(s, t) -> [state |-> s, limited |-> TRUE]
            [] ~blocked(s, t) /\ open.count > policy.max ->
                 [state |-> [open EXCEPT !.violations = v, !.blockedUntil = u], limited |-> TRUE]
            [] OTHER -> [state |-> open, limited |-> FALSE]
  BY <1>1, <1>2, <1>4, <1>6, <1>7 DEF consumeSecurityRateState
<1> SUFFICES Charge(s, t, policy, r.state, r.limited)
  BY <1>7
<1>a. CASE blocked(s, t)
  <2>1. r = [state |-> s, limited |-> TRUE]
    BY <1>8, <1>a
  <2>2. r.state = s /\ r.limited = TRUE
    BY <2>1, Zenon
  <2> QED
    BY <1>a, <2>2 DEF Charge
<1>b. CASE ~blocked(s, t) /\ open.count > policy.max
  <2>1. r = [state |-> [open EXCEPT !.violations = v, !.blockedUntil = u], limited |-> TRUE]
    BY <1>8, <1>b
  <2>2. r.state = [open EXCEPT !.violations = v, !.blockedUntil = u] /\ r.limited = TRUE
    BY <2>1, Zenon
  <2>3. ~Reopens(s, t, policy.window)
    <3>1. CASE Reopens(s, t, policy.window)
      <4>1. o.windowStart = t /\ o.count = 0
        BY <1>1, <3>1, OpenedFacts
      <4>2. open.count = 1
        BY <1>3, <4>1
      <4> QED
        BY <1>b, <4>2
    <3> QED
      BY <3>1
  <2>4. s \in RateState /\ o = s
    BY <1>1, <2>3, OpenedFacts
  <2>5. s.count + 1 > policy.max
    BY <1>3, <1>b, <2>4
  <2>6. r.state = [s EXCEPT !.count = @ + 1, !.violations = v, !.blockedUntil = u]
    BY <1>2, <2>2, <2>4 DEF RateState
  <2> QED
    BY <1>5, <1>6, <1>b, <2>2, <2>3, <2>4, <2>5, <2>6 DEF Charge
<1>c. CASE ~blocked(s, t) /\ ~(open.count > policy.max)
  <2>1. r = [state |-> open, limited |-> FALSE]
    BY <1>8, <1>c
  <2>2. r.state = open /\ r.limited = FALSE
    BY <2>1, Zenon
  <2>3. CASE Reopens(s, t, policy.window)
    <3>1. o.windowStart = t /\ o.count = 0
      BY <1>1, <2>3, OpenedFacts
    <3>2. open.windowStart = t /\ open.count = 1
      BY <1>3, <3>1
    <3> QED
      BY <1>3, <1>c, <2>2, <2>3, <3>2 DEF Charge
  <2>4. CASE ~Reopens(s, t, policy.window)
    <3>1. s \in RateState /\ o = s
      BY <1>1, <2>4, OpenedFacts
    <3>2. s.count + 1 <= policy.max
      BY <1>3, <1>c, <3>1 DEF RateState
    <3> QED
      BY <1>2, <1>c, <2>2, <2>4, <3>1, <3>2 DEF Charge
  <2> QED
    BY <2>3, <2>4
<1> QED
  BY <1>a, <1>b, <1>c

-----------------------------------------------------------------------------
(* The steps of the rate limit.                                            *)

RateTyped ==
  /\ now \in Nat /\ skews \in Nat /\ requests \in Nat
  /\ bucket \in [Policies -> [Buckets -> RateState \union {None}]]
  /\ refusals \in [Policies -> [Clients -> Nat]] /\ turned \in [Policies -> [Clients -> Nat]]
  /\ DOMAIN served = Policies
  /\ \A p \in Policies : DOMAIN served[p] = Clients
  /\ \A p \in Policies, c \in Clients : IsFiniteSet(served[p][c])

(* A request under p of client c, seen from the bucket of c.               *)
Asked(p, c, limited) ==
  /\ Charge(bucket[p][c], now, Policy[p], bucket'[p][c], limited)
  /\ limited = TRUE => /\ served' = served
                       /\ refusals'[p][c] = IF blocked(bucket[p][c], now)
                                              THEN refusals[p][c] ELSE refusals[p][c] + 1
                       /\ turned'[p][c] = turned[p][c]
  /\ limited = FALSE => /\ served'[p][c] \in {served[p][c], served[p][c] \union {<<now, requests'>>}}
                        /\ \/ refusals'[p][c] = refusals[p][c] /\ turned'[p][c] = turned[p][c] + 1
                           \/ refusals'[p][c] = 0 /\ turned'[p][c] = 0

(* Nothing of q and d moves.                                               *)
Spared(q, d) ==
  /\ bucket'[q][d] = bucket[q][d] /\ served'[q][d] = served[q][d]
  /\ refusals'[q][d] = refusals[q][d] /\ turned'[q][d] = turned[q][d]

LEMMA GateStep ==
  ASSUME RateTyped, NEW r \in Routes, NEW k \in Clients, NEW large \in BOOLEAN,
         enforceSecurityRateLimit(r, k, large)
  PROVE  /\ RateTyped' /\ now' = now /\ skews' = skews
         /\ \E p \in Policies :
              /\ \E limited \in BOOLEAN : Asked(p, k, limited)
              /\ \A q \in Policies, d \in Clients : <<q, d>> # <<p, k>> => Spared(q, d)
<1>0. k \in Buckets /\ None \in Buckets /\ k # None /\ Clients \subseteq Buckets
  BY GateAssumption DEF Buckets
<1>1. PICK p : p = getSecurityRatePolicy(r)
  OBVIOUS
<1>2. p \in Policies
  BY <1>1 DEF enforceSecurityRateLimit, Policies
<1>3. bucket[p][k] \in RateState \union {None} /\ bucket[p][None] \in RateState \union {None}
  BY <1>0, <1>2 DEF RateTyped
<1>4. PICK own : own = consumeSecurityRateState(bucket[p][k], now, Policy[p])
  OBVIOUS
<1>5. PICK all : all = consumeSecurityRateState(bucket[p][None], now,
                                                [window |-> GlobalPolicy[p].window, max |-> GlobalPolicy[p].max,
                                                 block |-> Policy[p].block])
  OBVIOUS
<1>6. own.state \in RateState \union {None}
  BY <1>2, <1>3, <1>4, ConsumeTyped, Constants DEF RateTyped
<1>7. all.state \in RateState \union {None}
  <2>1. PICK shared : shared = [window |-> GlobalPolicy[p].window, max |-> GlobalPolicy[p].max,
                                block |-> Policy[p].block]
    OBVIOUS
  <2>2. shared.block \in Nat
    BY <1>2, <2>1, Constants
  <2>3. now \in Nat
    BY DEF RateTyped
  <2> QED
    BY <1>3, <1>5, <2>1, <2>2, <2>3, ConsumeTyped
<1>8. Charge(bucket[p][k], now, Policy[p], own.state, own.limited)
  BY <1>2, <1>3, <1>4, ConsumeCharges, Constants DEF RateTyped
<1>9. own.limited \in BOOLEAN
  BY <1>8 DEF Charge
<1>10. /\ requests' = requests + 1 /\ now' = now /\ skews' = skews
       /\ \/ /\ own.limited
             /\ bucket' = [bucket EXCEPT ![p][k] = own.state]
             /\ refusals' = [refusals EXCEPT ![p][k] = IF Patient(p, k) THEN @ + 1 ELSE @]
             /\ UNCHANGED <<served, turned>>
          \/ /\ ~own.limited
             /\ bucket' = [bucket EXCEPT ![p][k] = own.state, ![p][None] = all.state]
             /\ \/ /\ turned' = [turned EXCEPT ![p][k] = @ + 1]
                   /\ UNCHANGED <<served, refusals>>
                \/ /\ served' = [served EXCEPT ![p][k] = @ \union {<<now, requests'>>}]
                   /\ refusals' = [refusals EXCEPT ![p][k] = 0]
                   /\ turned' = [turned EXCEPT ![p][k] = 0]
  BY <1>1, <1>4, <1>5 DEF enforceSecurityRateLimit
<1>11. requests' \in Nat
  BY <1>10 DEF RateTyped
<1>a. CASE own.limited
  <2>1. own.limited = TRUE
    BY <1>9, <1>a
  <2>2. /\ bucket' = [bucket EXCEPT ![p][k] = own.state]
        /\ refusals' = [refusals EXCEPT ![p][k] = IF Patient(p, k) THEN @ + 1 ELSE @]
        /\ served' = served /\ turned' = turned
    BY <1>10, <1>a
  <2>3. bucket' \in [Policies -> [Buckets -> RateState \union {None}]] /\ bucket'[p][k] = own.state
    BY <1>0, <1>2, <1>6, <2>2 DEF RateTyped
  <2>4. \A q \in Policies, d \in Buckets : <<q, d>> # <<p, k>> => bucket'[q][d] = bucket[q][d]
    BY <1>0, <1>2, <2>2 DEF RateTyped
  <2>5. refusals[p][k] \in Nat
    BY <1>2 DEF RateTyped
  <2>6. PICK more \in Nat : more = IF blocked(bucket[p][k], now)
                                     THEN refusals[p][k] ELSE refusals[p][k] + 1
    BY <2>5
  <2>7. refusals' = [refusals EXCEPT ![p][k] = more]
    BY <2>2, <2>6 DEF Patient
  <2>8. refusals' \in [Policies -> [Clients -> Nat]] /\ refusals'[p][k] = more
    BY <1>2, <2>7 DEF RateTyped
  <2>9. \A q \in Policies, d \in Clients : <<q, d>> # <<p, k>> => refusals'[q][d] = refusals[q][d]
    BY <1>2, <2>7 DEF RateTyped
  <2>10. RateTyped'
    BY <1>10, <1>11, <2>2, <2>3, <2>8 DEF RateTyped
  <2>11. Asked(p, k, TRUE)
    BY <1>8, <2>1, <2>2, <2>3, <2>6, <2>8 DEF Asked
  <2>12. \A q \in Policies, d \in Clients : <<q, d>> # <<p, k>> => Spared(q, d)
    BY <1>0, <2>2, <2>4, <2>9 DEF Spared
  <2> QED
    BY <1>2, <1>10, <2>10, <2>11, <2>12
<1>b. CASE ~own.limited
  <2>1. own.limited = FALSE
    BY <1>9, <1>b
  <2>2. /\ bucket' = [bucket EXCEPT ![p][k] = own.state, ![p][None] = all.state]
        /\ \/ /\ turned' = [turned EXCEPT ![p][k] = @ + 1]
              /\ UNCHANGED <<served, refusals>>
           \/ /\ served' = [served EXCEPT ![p][k] = @ \union {<<now, requests'>>}]
              /\ refusals' = [refusals EXCEPT ![p][k] = 0]
              /\ turned' = [turned EXCEPT ![p][k] = 0]
    BY <1>10, <1>b
  <2>3. bucket' \in [Policies -> [Buckets -> RateState \union {None}]] /\ bucket'[p][k] = own.state
    BY <1>0, <1>2, <1>6, <1>7, <2>2 DEF RateTyped
  <2>4. \A q \in Policies, d \in Clients : <<q, d>> # <<p, k>> => bucket'[q][d] = bucket[q][d]
    <3> SUFFICES ASSUME NEW q \in Policies, NEW d \in Clients, <<q, d>> # <<p, k>>
                 PROVE  bucket'[q][d] = bucket[q][d]
      OBVIOUS
    <3>1. d # None /\ d \in Buckets
      BY <1>0, GateAssumption
    <3> QED
      BY <1>0, <1>2, <2>2, <3>1 DEF RateTyped
  <2>5. /\ refusals' \in [Policies -> [Clients -> Nat]] /\ turned' \in [Policies -> [Clients -> Nat]]
        /\ \/ refusals'[p][k] = refusals[p][k] /\ turned'[p][k] = turned[p][k] + 1
           \/ refusals'[p][k] = 0 /\ turned'[p][k] = 0
    <3>1. turned[p][k] \in Nat
      BY <1>2 DEF RateTyped
    <3>2. CASE turned' = [turned EXCEPT ![p][k] = @ + 1] /\ refusals' = refusals
      <4>1. PICK more \in Nat : more = turned[p][k] + 1
        BY <3>1
      <4>2. turned' = [turned EXCEPT ![p][k] = more]
        BY <3>2, <4>1
      <4> QED
        BY <1>2, <3>2, <4>1, <4>2 DEF RateTyped
    <3>3. CASE refusals' = [refusals EXCEPT ![p][k] = 0] /\ turned' = [turned EXCEPT ![p][k] = 0]
      BY <1>2, <3>3 DEF RateTyped
    <3> QED
      BY <2>2, <3>2, <3>3
  <2>6. \A q \in Policies, d \in Clients :
          <<q, d>> # <<p, k>> => refusals'[q][d] = refusals[q][d] /\ turned'[q][d] = turned[q][d]
    <3>1. CASE turned' = [turned EXCEPT ![p][k] = @ + 1] /\ refusals' = refusals
      BY <1>2, <3>1 DEF RateTyped
    <3>2. CASE refusals' = [refusals EXCEPT ![p][k] = 0] /\ turned' = [turned EXCEPT ![p][k] = 0]
      BY <1>2, <3>2 DEF RateTyped
    <3> QED
      BY <2>2, <3>1, <3>2
  <2>7. /\ DOMAIN served' = Policies
        /\ \A q \in Policies : DOMAIN served'[q] = Clients
        /\ served'[p][k] \in {served[p][k], served[p][k] \union {<<now, requests'>>}}
        /\ \A q \in Policies, d \in Clients : <<q, d>> # <<p, k>> => served'[q][d] = served[q][d]
    <3>1. CASE served' = served
      BY <3>1 DEF RateTyped
    <3>2. CASE served' = [served EXCEPT ![p][k] = @ \union {<<now, requests'>>}]
      <4>1. PICK more : more = served[p][k] \union {<<now, requests'>>}
        OBVIOUS
      <4>2. served' = [served EXCEPT ![p][k] = more]
        BY <3>2, <4>1
      <4> QED
        BY <1>2, <4>1, <4>2 DEF RateTyped
    <3> QED
      BY <2>2, <3>1, <3>2
  <2>8. \A q \in Policies, d \in Clients : IsFiniteSet(served'[q][d])
    <3>1. IsFiniteSet(served[p][k] \union {<<now, requests'>>})
      BY <1>2, FS_AddElement DEF RateTyped
    <3>2. IsFiniteSet(served'[p][k])
      BY <1>2, <2>7, <3>1 DEF RateTyped
    <3> SUFFICES ASSUME NEW q \in Policies, NEW d \in Clients PROVE IsFiniteSet(served'[q][d])
      OBVIOUS
    <3>3. CASE <<q, d>> = <<p, k>>
      BY <3>2, <3>3
    <3>4. CASE <<q, d>> # <<p, k>>
      BY <2>7, <3>4 DEF RateTyped
    <3> QED
      BY <3>3, <3>4
  <2>9. RateTyped'
    BY <1>10, <1>11, <2>3, <2>5, <2>7, <2>8 DEF RateTyped
  <2>10. Asked(p, k, FALSE)
    BY <1>8, <2>1, <2>3, <2>5, <2>7 DEF Asked
  <2>11. \A q \in Policies, d \in Clients : <<q, d>> # <<p, k>> => Spared(q, d)
    BY <2>4, <2>6, <2>7 DEF Spared
  <2> QED
    BY <1>2, <1>10, <2>9, <2>10, <2>11
<1> QED
  BY <1>a, <1>b

(* Every other step leaves the buckets alone.                              *)
LEMMA OtherStep ==
  ASSUME RateTyped, [Next]_vars,
         ~\E r \in Routes, c \in Clients, large \in BOOLEAN : enforceSecurityRateLimit(r, c, large)
  PROVE  /\ RateTyped'
         /\ bucket' = bucket /\ served' = served /\ refusals' = refusals /\ turned' = turned
         /\ \/ now' = now /\ skews' = skews
            \/ now' = now + 1 /\ skews' = skews
            \/ now > 0 /\ now' = now - 1 /\ skews' = skews + 1
<1>1. CASE Tick
  BY <1>1 DEF Tick, limits, RateTyped
<1>2. CASE SetBack
  BY <1>2 DEF SetBack, RateTyped
<1>3. ASSUME NEW t \in Times, maybeAppendRandomPeriodicAnchor(t)
      PROVE  now' = now /\ limits' = limits
  BY <1>3 DEF maybeAppendRandomPeriodicAnchor
<1>4. ASSUME NEW t \in DOMAIN trigger, putAnchored(t) \/ failAppend(t)
      PROVE  now' = now /\ limits' = limits
  BY <1>4 DEF putAnchored, failAppend
<1>5. CASE vars' = vars
  BY <1>5 DEF vars, limits, RateTyped
<1>6. CASE now' = now /\ limits' = limits
  BY <1>6 DEF limits, RateTyped
<1> QED
  BY <1>1, <1>2, <1>3, <1>4, <1>5, <1>6 DEF Next

-----------------------------------------------------------------------------
(* How much a client is served.                                            *)

Counted(s, max) == IF s.count <= max THEN s.count ELSE max

(* The n requests served in the length of a window from t on, when the     *)
(* bucket is s, the clock shows clock and earlier set-backs account for    *)
(* extra of them: before the window of s is reached again, none is from    *)
(* now; in it, as many as it counts are, and before it one less than a     *)
(* whole window.                                                           *)
Within(n, t, s, clock, extra, max, window) ==
  /\ n <= extra + 2 * max - 1
  /\ (s = None \/ clock < s.windowStart) => n <= extra
  /\ (s # None /\ s.windowStart <= clock) =>
       /\ (t <= s.windowStart /\ s.windowStart < t + window) => n <= extra + max - 1 + Counted(s, max)
       /\ s.windowStart < t => n <= extra + Counted(s, max) - 1
       /\ s.windowStart + window <= t => n <= extra

Opened(s) == s \in RateState /\ s.count >= 1

LEMMA WithinLater ==
  ASSUME NEW n \in Nat, NEW t \in Nat, NEW s, s = None \/ Opened(s), NEW clock \in Nat,
         NEW extra \in Nat, NEW max \in Nat, max > 0, NEW window \in Nat, window > 0,
         Within(n, t, s, clock, extra, max, window)
  PROVE  /\ Within(n, t, s, clock + 1, extra, max, window)
         /\ Within(n, t, s, clock - 1, extra + (2 * max - 1), max, window)
<1>1. CASE s = None
  BY <1>1 DEF Within
<1>2. CASE s # None
  <2>1. s.windowStart \in Nat /\ s.count \in Nat /\ s.count >= 1
    BY <1>2 DEF Opened, RateState
  <2>2. PICK k \in Nat : k = Counted(s, max)
    BY <2>1 DEF Counted
  <2>3. k >= 1 /\ k <= max
    BY <2>1, <2>2 DEF Counted
  <2> QED
    BY <1>2, <2>1, <2>2, <2>3 DEF Within
<1> QED
  BY <1>1, <1>2

(* Whatever the answer, the bucket has counted a request.                  *)
LEMMA ChargeOpens ==
  ASSUME NEW s, s = None \/ Opened(s), NEW clock \in Nat, NEW policy, policy.block \in Nat,
         NEW next, NEW limited, Charge(s, clock, policy, next, limited)
  PROVE  Opened(next)
<1>1. CASE blocked(s, clock) /\ next = s
  BY <1>1 DEF blocked
<1>2. CASE Reopens(s, clock, policy.window) /\ next \in RateState /\ next.count = 1
  BY <1>2 DEF Opened
<1>3. CASE ~Reopens(s, clock, policy.window)
  <2>1. s \in RateState /\ s.count \in Nat
    BY <1>3 DEF Reopens, Opened, RateState
  <2>2. CASE next = [s EXCEPT !.count = @ + 1]
    <3>1. next \in RateState /\ next.count = s.count + 1
      BY <2>1, <2>2 DEF RateState
    <3> QED
      BY <2>1, <3>1 DEF Opened
  <2>3. CASE next = [s EXCEPT !.count = @ + 1, !.violations = Doubled(s),
                              !.blockedUntil = clock + policy.block * scale(Doubled(s))]
    <3>1. PICK v \in 1..ViolationCap : v = Doubled(s)
      BY <2>1, DoubledFacts
    <3>2. PICK u : u = clock + policy.block * scale(v)
      OBVIOUS
    <3>3. u \in Nat /\ v \in Nat
      BY <3>1, <3>2, ScaleFacts, Constants
    <3>4. next = [s EXCEPT !.count = @ + 1, !.violations = v, !.blockedUntil = u]
      BY <2>3, <3>1, <3>2
    <3>5. next \in RateState /\ next.count = s.count + 1
      <4>1. PICK o : o = [s EXCEPT !.count = @ + 1]
        OBVIOUS
      <4>2. o \in RateState /\ o.count = s.count + 1
        BY <2>1, <4>1 DEF RateState
      <4>3. next = [o EXCEPT !.violations = v, !.blockedUntil = u]
        BY <2>1, <3>4, <4>1 DEF RateState
      <4> QED
        BY <3>3, <4>2, <4>3 DEF RateState
    <3> QED
      BY <2>1, <3>5 DEF Opened
  <2> QED
    BY <1>3, <1>1, <2>2, <2>3 DEF Charge
<1> QED
  BY <1>1, <1>2, <1>3 DEF Charge

LEMMA WithinRefused ==
  ASSUME NEW n \in Nat, NEW t \in Nat, NEW s, s = None \/ Opened(s), NEW clock \in Nat, NEW next,
         NEW extra \in Nat, NEW policy, policy.max \in Nat, policy.max > 0, policy.window \in Nat,
         policy.block \in Nat, Charge(s, clock, policy, next, TRUE),
         Within(n, t, s, clock, extra, policy.max, policy.window)
  PROVE  Within(n, t, next, clock, extra, policy.max, policy.window)
<1>1. CASE next = s
  BY <1>1
<1>2. CASE next # s
  <2>1. /\ ~Reopens(s, clock, policy.window) /\ s.count + 1 > policy.max
        /\ next = [s EXCEPT !.count = @ + 1, !.violations = Doubled(s),
                            !.blockedUntil = clock + policy.block * scale(Doubled(s))]
    BY <1>2 DEF Charge
  <2>2. s # None /\ s \in RateState
    BY <2>1 DEF Reopens, Opened
  <2>3. next.windowStart = s.windowStart /\ next.count = s.count + 1 /\ next # None
    <3>1. next.windowStart = s.windowStart /\ next.count = s.count + 1
      BY <2>1, <2>2 DEF RateState
    <3>2. next # None
      BY GateAssumption, ChargeOpens DEF Opened
    <3> QED
      BY <3>1, <3>2
  <2>4. s.windowStart \in Nat /\ s.count \in Nat
    BY <2>2 DEF RateState
  <2>5. Counted(s, policy.max) <= Counted(next, policy.max)
        /\ Counted(s, policy.max) \in Nat /\ Counted(next, policy.max) \in Nat
    BY <2>3, <2>4 DEF Counted
  <2> QED
    BY <2>2, <2>3, <2>4, <2>5 DEF Within
<1> QED
  BY <1>1, <1>2

(* m of them after a request was served, or refused by the shared bucket.  *)
LEMMA WithinServed ==
  ASSUME NEW n \in Nat, NEW t \in Nat, NEW s, s = None \/ Opened(s), NEW clock \in Nat, NEW next,
         NEW extra \in Nat, NEW policy, policy.max \in Nat, policy.max > 0,
         policy.window \in Nat, policy.window > 0, next # None,
         Charge(s, clock, policy, next, FALSE),
         Within(n, t, s, clock, extra, policy.max, policy.window),
         NEW m \in Nat, m <= n + 1, ~(t <= clock /\ clock < t + policy.window) => m <= n
  PROVE  Within(m, t, next, clock, extra, policy.max, policy.window)
<1> DEFINE M == policy.max
           W == policy.window
<1>1. CASE Reopens(s, clock, W)
  <2>1. next.windowStart = clock /\ next.count = 1
    BY <1>1 DEF Charge
  <2>2. Counted(next, M) = 1
    BY <2>1 DEF Counted
  <2>3. CASE s = None \/ clock < s.windowStart
    <3>1. n <= extra
      BY <2>3 DEF Within
    <3> QED
      BY <2>1, <2>2, <3>1 DEF Within
  <2>4. CASE ~(s = None \/ clock < s.windowStart)
    <3>1. s # None /\ s.windowStart \in Nat /\ s.count \in Nat
      BY <2>4 DEF Opened, RateState
    <3>2. s.windowStart + W <= clock
      BY <1>1, <2>4, <3>1 DEF Reopens
    <3>3. PICK k \in Nat : k = Counted(s, M)
      BY <3>1 DEF Counted
    <3>4. k <= M
      BY <3>1, <3>3 DEF Counted
    <3>5. /\ n <= extra + 2 * M - 1
          /\ s.windowStart < t => n <= extra + k - 1
          /\ s.windowStart + W <= t => n <= extra
      BY <2>4, <3>1, <3>3 DEF Within
    <3> HIDE DEF M, W
    <3>6. m <= extra + 2 * M - 1
      BY <3>1, <3>2, <3>4, <3>5 DEF M, W
    <3>7. (t <= clock /\ clock < t + W) => m <= extra + M - 1 + 1
      BY <3>1, <3>2, <3>4, <3>5 DEF M, W
    <3>8. clock < t => m <= extra + 1 - 1
      BY <3>1, <3>2, <3>4, <3>5 DEF M, W
    <3>9. clock + W <= t => m <= extra
      BY <3>1, <3>2, <3>4, <3>5 DEF M, W
    <3> QED
      BY <2>1, <2>2, <3>6, <3>7, <3>8, <3>9 DEF Within, M, W
  <2> QED
    BY <2>3, <2>4
<1>2. CASE ~Reopens(s, clock, W)
  <2>1. s # None /\ s \in RateState
    BY <1>2 DEF Reopens, Opened
  <2>2. s.windowStart \in Nat /\ s.count \in Nat
    BY <2>1 DEF RateState
  <2>3. s.windowStart <= clock /\ clock < s.windowStart + W
    BY <1>2, <2>2 DEF Reopens
  <2>4. s.count + 1 <= M /\ next = [s EXCEPT !.count = @ + 1]
    BY <1>2 DEF Charge
  <2>5. next.windowStart = s.windowStart /\ next.count = s.count + 1
    BY <2>1, <2>4 DEF RateState
  <2>6. Counted(s, M) = s.count /\ Counted(next, M) = s.count + 1
    BY <2>2, <2>4, <2>5 DEF Counted
  <2>7. /\ n <= extra + 2 * M - 1
        /\ (t <= s.windowStart /\ s.windowStart < t + W) => n <= extra + M - 1 + s.count
        /\ s.windowStart < t => n <= extra + s.count - 1
        /\ s.windowStart + W <= t => n <= extra
    BY <2>1, <2>3, <2>6 DEF Within
  <2> QED
    BY <2>1, <2>2, <2>3, <2>4, <2>5, <2>6, <2>7 DEF Within
<1> QED
  BY <1>1, <1>2

BurstOf(p, c) ==
  /\ bucket[p][c] = None \/ Opened(bucket[p][c])
  /\ \A t \in Nat : Within(Cardinality(servedFrom(p, c, t)), t, bucket[p][c], now,
                           skews * (2 * Policy[p].max - 1), Policy[p].max, Policy[p].window)

BurstInv == RateTyped /\ \A p \in Policies, c \in Clients : BurstOf(p, c)

LEMMA ServedFinite ==
  ASSUME RateTyped, NEW p \in Policies, NEW c \in Clients, NEW t \in Nat
  PROVE  IsFiniteSet(servedFrom(p, c, t)) /\ Cardinality(servedFrom(p, c, t)) \in Nat
<1>1. servedFrom(p, c, t) \subseteq served[p][c] /\ IsFiniteSet(served[p][c])
  BY DEF RateTyped, servedFrom
<1> QED
  BY <1>1, FS_Subset, FS_CardinalityType

LEMMA ExtraTyped ==
  ASSUME NEW p \in Policies, NEW k \in Nat
  PROVE  /\ k * (2 * Policy[p].max - 1) \in Nat
         /\ (k + 1) * (2 * Policy[p].max - 1) = k * (2 * Policy[p].max - 1) + (2 * Policy[p].max - 1)
         /\ (1 + k) * (2 * Policy[p].max - 1) = k * (2 * Policy[p].max - 1) + (2 * Policy[p].max - 1)
<1>1. PICK d \in Nat : d = 2 * Policy[p].max - 1
  BY Constants
<1>2. k * d \in Nat /\ (k + 1) * d = k * d + d /\ (1 + k) * d = k * d + d
  OBVIOUS
<1> QED
  BY <1>1, <1>2

(* A client whose bucket does not move.                                    *)
LEMMA BurstSpared ==
  ASSUME RateTyped, RateTyped', NEW p \in Policies, NEW c \in Clients, BurstOf(p, c),
         bucket'[p][c] = bucket[p][c], served'[p][c] = served[p][c],
         \/ now' = now /\ skews' = skews
         \/ now' = now + 1 /\ skews' = skews
         \/ now > 0 /\ now' = now - 1 /\ skews' = skews + 1
  PROVE  BurstOf(p, c)'
<1> SUFFICES ASSUME NEW t \in Nat
             PROVE  Within(Cardinality(servedFrom(p, c, t)'), t, bucket'[p][c], now',
                           skews' * (2 * Policy[p].max - 1), Policy[p].max, Policy[p].window)
  BY DEF BurstOf
<1>1. servedFrom(p, c, t)' = servedFrom(p, c, t)
  BY DEF servedFrom
<1>2. PICK n \in Nat : n = Cardinality(servedFrom(p, c, t))
  BY ServedFinite
<1>3. PICK s : s = bucket[p][c]
  OBVIOUS
<1>4. PICK extra \in Nat : extra = skews * (2 * Policy[p].max - 1)
  BY ExtraTyped DEF RateTyped
<1>5. PICK max \in Nat, window \in Nat : max = Policy[p].max /\ window = Policy[p].window
                                         /\ max > 0 /\ window > 0
  BY Constants
<1>6. (s = None \/ Opened(s)) /\ Within(n, t, s, now, extra, max, window)
  BY <1>2, <1>3, <1>4, <1>5 DEF BurstOf
<1>7. now \in Nat /\ skews \in Nat
  BY DEF RateTyped
<1>a. CASE now' = now /\ skews' = skews
  BY <1>1, <1>2, <1>3, <1>4, <1>5, <1>6, <1>a
<1>b. CASE now' = now + 1 /\ skews' = skews
  <2>1. Within(n, t, s, now + 1, extra, max, window)
    BY <1>5, <1>6, <1>7, WithinLater
  <2> QED
    BY <1>1, <1>2, <1>3, <1>4, <1>5, <1>b, <2>1
<1>c. CASE now > 0 /\ now' = now - 1 /\ skews' = skews + 1
  <2>1. Within(n, t, s, now - 1, extra + (2 * max - 1), max, window)
    BY <1>5, <1>6, <1>7, WithinLater
  <2>2. skews' * (2 * Policy[p].max - 1) = extra + (2 * max - 1)
    BY <1>4, <1>5, <1>7, <1>c, ExtraTyped
  <2> QED
    BY <1>1, <1>2, <1>3, <1>5, <1>c, <2>1, <2>2
<1> QED
  BY <1>a, <1>b, <1>c

LEMMA BurstAsked ==
  ASSUME RateTyped, RateTyped', NEW p \in Policies, NEW c \in Clients, BurstOf(p, c),
         NEW limited \in BOOLEAN, Asked(p, c, limited), now' = now, skews' = skews
  PROVE  BurstOf(p, c)'
<1>1. PICK s : s = bucket[p][c]
  OBVIOUS
<1>2. PICK next : next = bucket'[p][c]
  OBVIOUS
<1>3. s = None \/ Opened(s)
  BY <1>1 DEF BurstOf
<1>4. Charge(s, now, Policy[p], next, limited)
  BY <1>1, <1>2 DEF Asked
<1>5. now \in Nat
  BY DEF RateTyped
<1>6. Opened(next)
  BY <1>3, <1>4, <1>5, Constants, ChargeOpens
<1>7. next # None
  BY <1>6, GateAssumption DEF Opened
<1>8. now \in Nat /\ skews \in Nat
  BY DEF RateTyped
<1> SUFFICES ASSUME NEW t \in Nat
             PROVE  Within(Cardinality(servedFrom(p, c, t)'), t, next, now,
                           skews * (2 * Policy[p].max - 1), Policy[p].max, Policy[p].window)
  BY <1>2, <1>6 DEF BurstOf
<1>9. PICK n \in Nat : n = Cardinality(servedFrom(p, c, t))
  BY ServedFinite
<1>10. PICK extra \in Nat : extra = skews * (2 * Policy[p].max - 1)
  BY <1>8, ExtraTyped
<1>11. PICK policy : policy = Policy[p]
  OBVIOUS
<1>12. policy.max \in Nat /\ policy.max > 0 /\ policy.window \in Nat /\ policy.window > 0
       /\ policy.block \in Nat
  BY <1>11, Constants
<1>13. Within(n, t, s, now, extra, policy.max, policy.window)
  BY <1>1, <1>9, <1>10, <1>11 DEF BurstOf
<1>14. Charge(s, now, policy, next, limited)
  BY <1>4, <1>11
<1>a. CASE limited = TRUE
  <2>1. servedFrom(p, c, t)' = servedFrom(p, c, t)
    BY <1>a DEF Asked, servedFrom
  <2>2. Within(n, t, next, now, extra, policy.max, policy.window)
    BY <1>3, <1>8, <1>12, <1>13, <1>14, <1>a, WithinRefused
  <2> QED
    BY <1>9, <1>10, <1>11, <2>1, <2>2
<1>b. CASE limited = FALSE
  <2>1. PICK F : F = servedFrom(p, c, t)
    OBVIOUS
  <2>2. IsFiniteSet(F)
    BY <2>1, ServedFinite
  <2>3. PICK x : x = <<now, requests'>>
    OBVIOUS
  <2>4. x[1] = now
    BY <2>3
  <2>5. PICK G : G = servedFrom(p, c, t)'
    OBVIOUS
  <2>6. served'[p][c] \in {served[p][c], served[p][c] \union {x}}
    BY <1>b, <2>3 DEF Asked
  <2>7. G \subseteq F \union {x}
    BY <2>1, <2>5, <2>6 DEF servedFrom
  <2>8. ~(t <= now /\ now < t + policy.window) => G \subseteq F
    BY <1>11, <2>1, <2>4, <2>5, <2>6 DEF servedFrom
  <2>9. IsFiniteSet(F \union {x}) /\ Cardinality(F \union {x}) <= n + 1
    <3>1. /\ IsFiniteSet(F \union {x})
          /\ Cardinality(F \union {x}) = IF x \in F THEN Cardinality(F) ELSE Cardinality(F) + 1
      BY <2>2, FS_AddElement
    <3>2. Cardinality(F) = n
      BY <1>9, <2>1
    <3> QED
      BY <3>1, <3>2
  <2>10. PICK m \in Nat : m = Cardinality(G)
    BY <2>7, <2>9, FS_Subset, FS_CardinalityType
  <2>11. m <= n + 1
    <3>1. Cardinality(F \union {x}) \in Nat
      BY <2>9, FS_CardinalityType
    <3> QED
      BY <2>7, <2>9, <2>10, <3>1, FS_Subset
  <2>12. ~(t <= now /\ now < t + policy.window) => m <= n
    BY <1>9, <2>1, <2>2, <2>8, <2>10, FS_Subset
  <2>13. Within(m, t, next, now, extra, policy.max, policy.window)
    BY <1>3, <1>7, <1>8, <1>12, <1>13, <1>14, <1>b, <2>11, <2>12, WithinServed
  <2> QED
    BY <1>10, <1>11, <2>5, <2>10, <2>13
<1> QED
  BY <1>a, <1>b

LEMMA NextBurstInv == ASSUME BurstInv, [Next]_vars PROVE BurstInv'
<1>1. ASSUME NEW r \in Routes, NEW k \in Clients, NEW large \in BOOLEAN,
             enforceSecurityRateLimit(r, k, large)
      PROVE  BurstInv'
  <2>1. RateTyped /\ RateTyped' /\ now' = now /\ skews' = skews
    BY <1>1, GateStep DEF BurstInv
  <2>2. PICK p \in Policies :
          /\ \E limited \in BOOLEAN : Asked(p, k, limited)
          /\ \A q \in Policies, d \in Clients : <<q, d>> # <<p, k>> => Spared(q, d)
    BY <1>1, GateStep DEF BurstInv
  <2>3. PICK limited \in BOOLEAN : Asked(p, k, limited)
    BY <2>2
  <2> SUFFICES ASSUME NEW q \in Policies, NEW d \in Clients PROVE BurstOf(q, d)'
    BY <2>1 DEF BurstInv
  <2>4. BurstOf(q, d)
    BY DEF BurstInv
  <2>5. CASE q = p /\ d = k
    BY <2>1, <2>3, <2>4, <2>5, BurstAsked
  <2>6. CASE ~(q = p /\ d = k)
    <3>1. Spared(q, d)
      BY <2>2, <2>6
    <3> QED
      BY <2>1, <2>4, <3>1, BurstSpared DEF Spared
  <2> QED
    BY <2>5, <2>6
<1>2. CASE ~\E r \in Routes, c \in Clients, large \in BOOLEAN : enforceSecurityRateLimit(r, c, large)
  BY <1>2, OtherStep, BurstSpared DEF BurstInv
<1> QED
  BY <1>1, <1>2

LEMMA InitBurstInv == ASSUME Init PROVE BurstInv
<1>1. RateTyped
  BY FS_EmptySet DEF Init, RateTyped
<1>2. ASSUME NEW p \in Policies, NEW c \in Clients PROVE BurstOf(p, c)
  <2>1. bucket[p][c] = None
    BY DEF Init, Buckets
  <2>2. ASSUME NEW t \in Nat PROVE Cardinality(servedFrom(p, c, t)) = 0
    <3>1. servedFrom(p, c, t) = {}
      BY DEF Init, servedFrom
    <3> QED
      BY <3>1, FS_EmptySet
  <2>3. skews * (2 * Policy[p].max - 1) = 0
    BY Constants DEF Init
  <2> QED
    BY <2>1, <2>2, <2>3, Constants DEF BurstOf, Within
<1> QED
  BY <1>1, <1>2 DEF BurstInv

(* No client is served twice the limit of a policy within the length of    *)
(* its window, for any limits, windows and blocks: however the requests    *)
(* fall on the edges of the windows (consumeSecurityRateState), and with   *)
(* at most as much again for each time the clock is set back.              *)
THEOREM ServiceBounded == Spec => []BurstBounded
<1>1. Init => BurstInv
  BY InitBurstInv
<1>2. BurstInv /\ [Next]_vars => BurstInv'
  BY NextBurstInv
<1>3. BurstInv => BurstBounded
  <2> SUFFICES ASSUME BurstInv, NEW p \in Policies, NEW c \in Clients, NEW t \in Times
               PROVE  Cardinality(servedFrom(p, c, t)) <= (1 + skews) * (2 * Policy[p].max - 1)
    BY DEF BurstBounded
  <2>1. t \in Nat /\ skews \in Nat
    BY DEF Times, BurstInv, RateTyped
  <2>2. PICK extra \in Nat : extra = skews * (2 * Policy[p].max - 1)
    BY <2>1, ExtraTyped
  <2>3. Cardinality(servedFrom(p, c, t)) <= extra + 2 * Policy[p].max - 1
    BY <2>1, <2>2 DEF BurstInv, BurstOf, Within
  <2>4. (1 + skews) * (2 * Policy[p].max - 1) = extra + (2 * Policy[p].max - 1)
    BY <2>1, <2>2, ExtraTyped
  <2> QED
    BY <2>1, <2>2, <2>3, <2>4, Constants, ServedFinite DEF BurstInv
<1> QED
  BY <1>1, <1>2, <1>3, PTL DEF Spec

-----------------------------------------------------------------------------
(* How often a patient client is refused.                                  *)

(* r refusals in a row, each after the block of the one before: the block  *)
(* that the last one set ends no earlier than all of them would.           *)
Waits(r, s, clock, p) ==
  /\ s # None => s \in RateState /\ s.windowStart <= clock
  /\ r > 0 => /\ s # None /\ r <= RefusalBound(p) /\ s.violations >= r
              /\ s.blockedUntil >= s.windowStart + Policy[p].block * (power[r] - 1)

LEMMA Bounds ==
  ASSUME NEW p \in Policies
  PROVE  /\ RefusalBound(p) \in Nat /\ RefusalBound(p) >= 1 /\ RefusalBound(p) <= ViolationCap
         /\ power[RefusalBound(p) - 1] <= ScaleCap
         /\ Policy[p].block * (power[RefusalBound(p)] - 1) >= Policy[p].window
<1>1. PICK k : k = RefusalBound(p)
  OBVIOUS
<1>2. /\ k \in 1..ViolationCap /\ power[k - 1] <= ScaleCap
      /\ Policy[p].block * (power[k] - 1) >= Policy[p].window
  BY <1>1, BackoffAssumption
<1> QED
  BY <1>1, <1>2, Constants

(* The block of one more refusal.                                          *)
LEMMA BlocksAddUp ==
  ASSUME NEW block \in Nat, NEW ws \in Nat, NEW t \in Nat, NEW x \in Nat, x >= 1, NEW y \in Nat, x <= y,
         t >= ws + block * (x - 1)
  PROVE  t + block * y >= ws + block * (2 * x - 1)
<1>1. block * (x - 1) \in Nat /\ block * x \in Nat /\ block * y \in Nat
  OBVIOUS
<1>2. block * x <= block * y
  OBVIOUS
<1>3. block * (2 * x - 1) = block * (x - 1) + block * x
  OBVIOUS
<1> QED
  BY <1>1, <1>2, <1>3

LEMMA PatientRefused ==
  ASSUME NEW p \in Policies, NEW r \in Nat, NEW s, NEW t \in Nat, NEW next,
         Waits(r, s, t, p), ~blocked(s, t), Charge(s, t, Policy[p], next, TRUE)
  PROVE  Waits(r + 1, next, t, p)
<1>1. /\ ~Reopens(s, t, Policy[p].window)
      /\ next = [s EXCEPT !.count = @ + 1, !.violations = Doubled(s),
                          !.blockedUntil = t + Policy[p].block * scale(Doubled(s))]
  BY DEF Charge
<1>2. s # None /\ s \in RateState /\ s.windowStart <= t
  BY <1>1 DEF Reopens, Waits
<1>3. s.windowStart \in Nat /\ s.violations \in Nat /\ s.blockedUntil \in Nat /\ s.count \in Nat
  BY <1>2 DEF RateState
<1>4. t < s.windowStart + Policy[p].window /\ s.blockedUntil <= t
  BY <1>1, <1>2, <1>3, Constants DEF Reopens, blocked
<1>5. PICK K \in Nat : K = RefusalBound(p)
  BY Bounds
<1>6. /\ K >= 1 /\ K <= ViolationCap /\ power[K - 1] <= ScaleCap
      /\ Policy[p].block * (power[K] - 1) >= Policy[p].window
  BY <1>5, Bounds
<1>7. r <= K
  BY <1>5 DEF Waits
<1>8. r \in 0..ViolationCap
  BY <1>6, <1>7, Constants
<1>9. power[r] \in Nat /\ power[r] >= 1
  BY <1>8, PowerPositive
<1>10. t >= s.windowStart + Policy[p].block * (power[r] - 1)
  <2>1. CASE r = 0
    <3>1. Policy[p].block * (power[r] - 1) = 0
      BY <2>1, PowerSteps, Constants
    <3> QED
      BY <1>2, <1>3, <3>1
  <2>2. CASE r > 0
    <3>1. PICK b \in Nat : b = Policy[p].block * (power[r] - 1)
      BY <1>9, Constants
    <3>2. s.blockedUntil >= s.windowStart + b
      BY <2>2, <3>1 DEF Waits
    <3> QED
      BY <1>3, <1>4, <3>1, <3>2
  <2> QED
    BY <2>1, <2>2
<1>11. r < K
  <2>1. CASE r = K
    <3>1. PICK b \in Nat : b = Policy[p].block * (power[r] - 1)
      BY <1>9, Constants
    <3>2. b >= Policy[p].window
      BY <1>6, <2>1, <3>1
    <3> QED
      BY <1>3, <1>4, <1>10, <3>1, <3>2, Constants
  <2> QED
    BY <1>7, <2>1
<1>12. r + 1 \in 1..ViolationCap /\ power[r + 1] = 2 * power[r]
  <2>1. r + 1 \in 1..ViolationCap
    BY <1>6, <1>11, Constants
  <2>2. power[r + 1] = 2 * power[r + 1 - 1]
    BY <2>1, PowerSteps
  <2>3. r + 1 - 1 = r
    OBVIOUS
  <2> QED
    BY <2>1, <2>2, <2>3
<1>13. PICK v \in 1..ViolationCap : v = Doubled(s)
  BY <1>2, DoubledFacts
<1>14. v >= r + 1
  <2>1. s.violations >= r
    BY <1>3 DEF Waits
  <2> QED
    BY <1>3, <1>12, <1>13, <2>1, Constants DEF Doubled
<1>15. power[r] <= ScaleCap
  <2>1. r <= K - 1 /\ K - 1 \in 0..ViolationCap
    BY <1>6, <1>11, Constants
  <2>2. power[r] <= power[K - 1] /\ power[K - 1] \in Nat
    BY <1>8, <2>1, PowerGrows, PowerPositive
  <2> QED
    BY <1>6, <1>9, <2>2, Constants
<1>16. power[r] <= scale(v) /\ scale(v) \in Nat
  <2>1. r \in 0..(v - 1)
    BY <1>13, <1>14, Constants
  <2> QED
    BY <1>13, <1>15, <2>1, ScaleFacts
<1>17. PICK u : u = t + Policy[p].block * scale(v)
  OBVIOUS
<1>18. u >= s.windowStart + Policy[p].block * (2 * power[r] - 1) /\ u \in Nat
  <2>1. PICK x \in Nat : x = power[r]
    BY <1>9
  <2>2. PICK y \in Nat : y = scale(v)
    BY <1>16
  <2>3. PICK block \in Nat : block = Policy[p].block
    BY Constants
  <2>4. t + block * y >= s.windowStart + block * (2 * x - 1)
    BY <1>3, <1>9, <1>10, <1>16, <2>1, <2>2, <2>3, BlocksAddUp
  <2> QED
    BY <1>17, <2>1, <2>2, <2>3, <2>4
<1>19. next = [s EXCEPT !.count = @ + 1, !.violations = v, !.blockedUntil = u]
  BY <1>1, <1>13, <1>17
<1>20. next \in RateState /\ next.windowStart = s.windowStart /\ next.violations = v /\ next.blockedUntil = u
  <2>1. PICK o : o = [s EXCEPT !.count = @ + 1]
    OBVIOUS
  <2>2. o \in RateState /\ o.windowStart = s.windowStart
    BY <1>2, <2>1 DEF RateState
  <2>3. next = [o EXCEPT !.violations = v, !.blockedUntil = u]
    BY <1>2, <1>19, <2>1 DEF RateState
  <2>4. v \in Nat
    BY <1>13, Constants
  <2> QED
    BY <1>18, <2>2, <2>3, <2>4 DEF RateState
<1>21. next # None
  BY <1>20, GateAssumption
<1>22. r + 1 <= RefusalBound(p)
  BY <1>5, <1>11
<1>23. next.blockedUntil >= next.windowStart + Policy[p].block * (power[r + 1] - 1)
  BY <1>12, <1>18, <1>20
<1> QED
  BY <1>2, <1>13, <1>14, <1>20, <1>21, <1>22, <1>23 DEF Waits

LEMMA PatientServedNow ==
  ASSUME NEW p \in Policies, NEW r \in Nat, NEW s, NEW t \in Nat, NEW next,
         Waits(r, s, t, p), Charge(s, t, Policy[p], next, FALSE)
  PROVE  Waits(0, next, t, p)
<1>1. CASE Reopens(s, t, Policy[p].window)
  BY <1>1 DEF Charge, Waits
<1>2. CASE ~Reopens(s, t, Policy[p].window)
  <2>1. s # None /\ s \in RateState /\ s.windowStart <= t
    BY <1>2 DEF Reopens, Waits
  <2>2. next = [s EXCEPT !.count = @ + 1]
    BY <1>2 DEF Charge
  <2>3. next \in RateState /\ next.windowStart = s.windowStart
    BY <2>1, <2>2 DEF RateState
  <2> QED
    BY <2>1, <2>3 DEF Waits
<1> QED
  BY <1>1, <1>2

(* All but the last r of n refusals were before one of the k requests that *)
(* the shared bucket refused.                                              *)
Counts(n, k, r, p) == n <= RefusalBound(p) * k + r

PatientOf(p, n, k, s, clock) ==
  \E r \in Nat : Waits(r, s, clock, p) /\ Counts(n, k, r, p)

PatientInv ==
  /\ RateTyped
  /\ skews = 0 => \A p \in Policies, c \in Clients :
                    PatientOf(p, refusals[p][c], turned[p][c], bucket[p][c], now)

(* After a refusal of the shared bucket the count of its own starts anew.  *)
LEMMA CountsTurned ==
  ASSUME NEW p \in Policies, NEW n \in Nat, NEW k \in Nat, NEW r \in Nat,
         Counts(n, k, r, p), r > 0 => r <= RefusalBound(p)
  PROVE  Counts(n, k + 1, 0, p) /\ n <= RefusalBound(p) * (1 + k)
<1>1. PICK b \in Nat : b = RefusalBound(p)
  BY Bounds
<1>2. r <= b
  BY <1>1
<1>3. b * (k + 1) = b * k + b /\ b * (1 + k) = b * k + b /\ b * k \in Nat
  BY <1>1
<1>4. n <= b * k + r
  BY <1>1 DEF Counts
<1>5. n <= b * k + b
  BY <1>2, <1>3, <1>4
<1>6. n <= b * (k + 1) + 0 /\ n <= b * (1 + k)
  BY <1>3, <1>5
<1> QED
  BY <1>1, <1>6 DEF Counts

LEMMA NextPatientInv == ASSUME PatientInv, [Next]_vars PROVE PatientInv'
<1>1. ASSUME NEW r \in Routes, NEW k \in Clients, NEW large \in BOOLEAN,
             enforceSecurityRateLimit(r, k, large)
      PROVE  PatientInv'
  <2>1. RateTyped /\ RateTyped' /\ now' = now /\ skews' = skews
    BY <1>1, GateStep DEF PatientInv
  <2>2. PICK p \in Policies :
          /\ \E limited \in BOOLEAN : Asked(p, k, limited)
          /\ \A q \in Policies, d \in Clients : <<q, d>> # <<p, k>> => Spared(q, d)
    BY <1>1, GateStep DEF PatientInv
  <2>3. PICK limited \in BOOLEAN : Asked(p, k, limited)
    BY <2>2
  <2> SUFFICES ASSUME skews = 0, NEW q \in Policies, NEW d \in Clients
               PROVE  PatientOf(q, refusals'[q][d], turned'[q][d], bucket'[q][d], now)
    BY <2>1 DEF PatientInv
  <2>4. PatientOf(q, refusals[q][d], turned[q][d], bucket[q][d], now)
    BY DEF PatientInv
  <2>5. CASE q = p /\ d = k
    <3>0. PICK m \in Nat, k2 \in Nat : m = refusals[q][d] /\ k2 = turned[q][d]
      BY <2>1 DEF RateTyped
    <3>1. PICK n \in Nat : Waits(n, bucket[q][d], now, q) /\ Counts(m, k2, n, q)
      BY <2>4, <3>0 DEF PatientOf
    <3>2. PICK s : s = bucket[q][d]
      OBVIOUS
    <3>3. PICK next : next = bucket'[q][d]
      OBVIOUS
    <3>4. Waits(n, s, now, q) /\ Charge(s, now, Policy[q], next, limited) /\ now \in Nat
      BY <2>1, <2>3, <2>4, <2>5, <3>1, <3>2, <3>3 DEF Asked, RateTyped
    <3>5. CASE limited = TRUE /\ blocked(s, now)
      <4>1. refusals'[q][d] = m /\ turned'[q][d] = k2
        BY <2>3, <2>5, <3>0, <3>2, <3>5 DEF Asked
      <4>2. next = s
        BY <3>4, <3>5 DEF Charge
      <4> QED
        BY <3>1, <3>3, <3>4, <4>1, <4>2 DEF PatientOf
    <3>6. CASE limited = TRUE /\ ~blocked(s, now)
      <4>1. refusals'[q][d] = m + 1 /\ turned'[q][d] = k2
        BY <2>3, <2>5, <3>0, <3>2, <3>6 DEF Asked
      <4>2. Waits(n + 1, next, now, q)
        BY <3>4, <3>6, PatientRefused
      <4>3. Counts(m + 1, k2, n + 1, q)
        <5>1. PICK b \in Nat : b = RefusalBound(q)
          BY Bounds
        <5>2. b * k2 \in Nat /\ m <= b * k2 + n
          BY <3>1, <5>1 DEF Counts
        <5>3. m + 1 <= b * k2 + (n + 1)
          BY <5>2
        <5> QED
          BY <5>1, <5>3 DEF Counts
      <4>4. n + 1 \in Nat
        OBVIOUS
      <4> QED
        BY <3>3, <4>1, <4>2, <4>3, <4>4 DEF PatientOf
    <3>7. CASE limited = FALSE
      <4>1. \/ refusals'[q][d] = m /\ turned'[q][d] = k2 + 1
            \/ refusals'[q][d] = 0 /\ turned'[q][d] = 0
        BY <2>3, <2>5, <3>0, <3>7 DEF Asked
      <4>2. Waits(0, next, now, q)
        BY <3>4, <3>7, PatientServedNow
      <4>3. n > 0 => n <= RefusalBound(q)
        BY <3>1 DEF Waits
      <4>4. Counts(m, k2 + 1, 0, q)
        BY <3>1, <4>3, CountsTurned
      <4>5. Counts(0, 0, 0, q)
        BY Bounds DEF Counts
      <4> QED
        BY <3>3, <4>1, <4>2, <4>4, <4>5 DEF PatientOf
    <3> QED
      BY <3>5, <3>6, <3>7
  <2>6. CASE ~(q = p /\ d = k)
    <3>1. Spared(q, d)
      BY <2>2, <2>6
    <3> QED
      BY <2>4, <3>1 DEF Spared
  <2> QED
    BY <2>5, <2>6
<1>2. CASE ~\E r \in Routes, c \in Clients, large \in BOOLEAN : enforceSecurityRateLimit(r, c, large)
  <2>1. /\ RateTyped /\ RateTyped'
        /\ bucket' = bucket /\ refusals' = refusals /\ turned' = turned
        /\ \/ now' = now /\ skews' = skews
           \/ now' = now + 1 /\ skews' = skews
           \/ now > 0 /\ now' = now - 1 /\ skews' = skews + 1
    BY <1>2, OtherStep DEF PatientInv
  <2> SUFFICES ASSUME skews' = 0, NEW p \in Policies, NEW c \in Clients
               PROVE  PatientOf(p, refusals[p][c], turned[p][c], bucket[p][c], now')
    BY <2>1 DEF PatientInv
  <2>2. skews = 0 /\ (now' = now \/ now' = now + 1) /\ now \in Nat
    BY <2>1 DEF RateTyped
  <2>3. PICK r \in Nat : Waits(r, bucket[p][c], now, p) /\ Counts(refusals[p][c], turned[p][c], r, p)
    BY <2>2 DEF PatientInv, PatientOf
  <2>4. PICK s : s = bucket[p][c]
    OBVIOUS
  <2>5. s # None => s.windowStart \in Nat
    BY <2>3, <2>4 DEF Waits, RateState
  <2>6. Waits(r, s, now', p)
    BY <2>2, <2>3, <2>4, <2>5 DEF Waits
  <2> QED
    BY <2>3, <2>4, <2>6 DEF PatientOf
<1> QED
  BY <1>1, <1>2

LEMMA InitPatientInv == ASSUME Init PROVE PatientInv
<1>1. RateTyped
  BY InitBurstInv DEF BurstInv
<1>2. ASSUME NEW p \in Policies, NEW c \in Clients
      PROVE  PatientOf(p, refusals[p][c], turned[p][c], bucket[p][c], now)
  <2>1. bucket[p][c] = None /\ refusals[p][c] = 0 /\ turned[p][c] = 0
    BY DEF Init, Buckets
  <2>2. Waits(0, bucket[p][c], now, p)
    BY <2>1 DEF Waits
  <2>3. Counts(0, 0, 0, p)
    BY Bounds DEF Counts
  <2> QED
    BY <2>1, <2>2, <2>3 DEF PatientOf
<1> QED
  BY <1>1, <1>2 DEF PatientInv

(* With a clock that is never set back, a client that waits for the end of *)
(* its own block gets past its own bucket after at most as many refusals   *)
(* as doubling blocks fit in a window, whatever the policy, and is then    *)
(* let through unless the shared bucket refuses it; each such refusal can  *)
(* cost as many again (consumeSecurityRateState, enforceSecurityRateLimit).*)
THEOREM PatienceRewarded == Spec => []PatientServed
<1>1. Init => PatientInv
  BY InitPatientInv
<1>2. PatientInv /\ [Next]_vars => PatientInv'
  BY NextPatientInv
<1>3. PatientInv => PatientServed
  <2> SUFFICES ASSUME PatientInv, skews = 0, NEW p \in Policies, NEW c \in Clients
               PROVE  refusals[p][c] <= RefusalBound(p) * (1 + turned[p][c])
    BY DEF PatientServed
  <2>1. PICK n \in Nat, k \in Nat : n = refusals[p][c] /\ k = turned[p][c]
    BY DEF PatientInv, RateTyped
  <2>2. PICK r \in Nat : Waits(r, bucket[p][c], now, p) /\ Counts(n, k, r, p)
    BY <2>1 DEF PatientInv, PatientOf
  <2>3. r > 0 => r <= RefusalBound(p)
    BY <2>2 DEF Waits
  <2>4. n <= RefusalBound(p) * (1 + k)
    BY <2>2, <2>3, CountsTurned
  <2> QED
    BY <2>1, <2>4
<1> QED
  BY <1>1, <1>2, <1>3, PTL DEF Spec
=============================================================================

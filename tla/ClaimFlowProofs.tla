--------------------------- MODULE ClaimFlowProofs ---------------------------
(***************************************************************************)
(* Proofs about ClaimFlow for any number of requests, subjects and codes,  *)
(* any deployment and any number of crashes: a confirmation code belongs   *)
(* to one subject, a pending ticket is backed by a receipt, and without a  *)
(* cost-of-forgery service a subject holds at most one open ticket. Then   *)
(* about MasterSearch: a search shows the data as they are, whatever is    *)
(* cached, for any number of options, kept indexes and instants.           *)
(***************************************************************************)
EXTENDS MasterSearch, SequenceTheorems, FiniteSetTheorems, WellFoundedInduction, TLAPS

-----------------------------------------------------------------------------
(* Types.                                                                  *)

PCs == Working \union {"idle", "done", "lost"}
Replies == {"none", "error", "verified", "already", "created", "ended", "found", "revoked",
            "500", "503"}

Request ==
  [pc : PCs, subject : Subjects \union {None}, code : Codes \union {None},
   tx : Txs \union {None}, entry : Nat, backfill : BOOLEAN,
   stream : Streams, reply : Replies]

(* An entry with a code is about a subject.                                *)
Entry ==
  {e \in [subject : Subjects \union {None}, code : Codes \union {None}, tx : Txs \union {None},
          at : Nat, stream : Streams, prev : Int, stream_prev : Int] : e.code # None => e.subject # None}

StoreTyped ==
  /\ clock \in Nat \ {0} /\ lastHash \in [Chains -> Int]
  /\ claims \in [Subjects -> [history : Seq(Codes), pending : Codes \union {None}]]
  /\ index \in [Codes -> Subjects \union {None}]
  /\ byCode \in [Codes -> Receipt \union {None}]
  /\ bySubject \in [Subjects -> Receipt \union {None}]
  /\ audit \in Seq(Entry)

-----------------------------------------------------------------------------
(* The inductive invariant.                                                *)

(* From here to its answer a request has a code that is its subject's.     *)
Settling == {"ensure", "audit", "store_code", "store_subject", "resolve"}
Reserved == {"add", "release"}

Recorded(e, c) == e \in DOMAIN audit /\ audit[e].code = c

Confirmed(c) == \E i \in DOMAIN audit : audit[i].code = c /\ audit[i].tx # None

RequestOK(x) ==
  /\ x.pc \in Inside \union {"judge", "audit"} => x.subject \in Subjects
  /\ x.pc \in Reserved \union Settling => x.code \in Codes /\ index[x.code] = x.subject
  /\ x.pc \in {"idle", "judge", "reserve", "add", "release", "ensure"} => x.tx = None
  /\ x.pc = "idle" => x.code = None
  /\ x.pc \in Inside \union {"idle", "judge", "audit", "audit_close"} => x.reply = "none"
  /\ x.pc \in {"store_code", "store_subject"} => Recorded(x.entry, x.code)
  /\ x.pc = "resolve" \/ (x.pc \in {"store_code", "store_subject"} /\ x.tx # None) =>
       Confirmed(x.code)
  /\ ~env.cof => /\ x.pc # "judge"
                 /\ x.pc \in {"reserve", "add"} => claims[x.subject].pending = None

(* A code that is reserved and not yet handed out is used by nobody, so    *)
(* that it can be released.                                                *)
Unused(c) ==
  /\ byCode[c] = None
  /\ \A s \in Subjects : \A i \in DOMAIN claims[s].history : claims[s].history[i] # c
  /\ \A i \in DOMAIN audit : audit[i].code # c
  /\ \A q \in Requests : req[q].pc \in Settling => req[q].code # c

ReceiptsRecorded == \A c \in Codes : byCode[c] # None => Recorded(byCode[c].entry, c)

(* A request that will store the receipt of its code, or never can.        *)
Attends(x) ==
  \/ x.pc \in {"ensure", "audit", "store_code"} /\ x.tx = None
  \/ x.pc = "lost"
  \/ x.reply \in {"500", "503"}

PendingAttended ==
  \A s \in Subjects :
    claims[s].pending # None =>
      \/ byCode[claims[s].pending] # None
      \/ \E q \in Requests : req[q].code = claims[s].pending /\ Attends(req[q])

(* Without a service to wait for, what is not pending is confirmed.        *)
OpenIsPending ==
  ~env.cof =>
    \A s \in Subjects : \A i \in DOMAIN claims[s].history :
      Confirmed(claims[s].history[i]) \/ claims[s].history[i] = claims[s].pending

ClaimInv ==
  /\ StoreTyped
  /\ req \in [Requests -> Request] /\ gate \in Requests \union {None}
  /\ \A r \in Requests : req[r].pc \in Inside => gate = r
  /\ \A r \in Requests : RequestOK(req[r])
  /\ \A r \in Requests : req[r].pc \in Reserved => Unused(req[r].code)
  /\ CodesBelong /\ ReceiptsRecorded /\ PendingAttended /\ OpenIsPending

(* The chains of the audit log: a link names an earlier entry, one of the  *)
(* same stream in a stream, or an entry lost in a crash so far, and no     *)
(* lost entry is named twice, or named already while it is a head.         *)
LinkOK(e) ==
  /\ audit[e].prev \in Int /\ audit[e].stream_prev \in Int /\ audit[e].stream \in Streams
  /\ -crashes <= audit[e].prev /\ audit[e].prev < e
  /\ -crashes <= audit[e].stream_prev /\ audit[e].stream_prev < e
  /\ audit[e].stream_prev > 0 => audit[audit[e].stream_prev].stream = audit[e].stream

HeadOK(k) ==
  /\ lastHash[k] \in Int /\ -crashes <= lastHash[k] /\ lastHash[k] <= Len(audit)
  /\ k \in Streams /\ lastHash[k] > 0 => audit[lastHash[k]].stream = k

LostOnce ==
  /\ \A e, f \in DOMAIN audit :
       e # f => /\ audit[e].prev < 0 => audit[e].prev # audit[f].prev
                /\ audit[e].stream_prev < 0 => audit[e].stream_prev # audit[f].stream_prev
  /\ \A e \in DOMAIN audit :
       /\ audit[e].prev < 0 => audit[e].prev # lastHash["global"]
       /\ \A k \in Streams : audit[e].stream_prev < 0 => audit[e].stream_prev # lastHash[k]
  /\ lastHash["event"] < 0 => lastHash["event"] # lastHash["system"]

ChainInv ==
  /\ crashes \in Nat
  /\ \A e \in DOMAIN audit : LinkOK(e)
  /\ \A k \in Chains : HeadOK(k)
  /\ LostOnce

-----------------------------------------------------------------------------
(* Control.                                                                *)

(* A step of request r that leaves it as new.                              *)
Becomes(r, new) ==
  /\ req' = [req EXCEPT ![r] = new]
  /\ gate' = IF new.pc \in Inside THEN r ELSE None

at_pc(x, pc) ==
  [pc |-> pc, subject |-> x.subject, code |-> x.code, tx |-> x.tx, entry |-> x.entry,
   backfill |-> x.backfill, stream |-> x.stream, reply |-> x.reply]

LEMMA GotoFacts ==
  ASSUME NEW r \in Requests, NEW x \in Request, NEW pc \in PCs, goto(r, pc, x)
  PROVE  Becomes(r, at_pc(x, pc)) /\ at_pc(x, pc) \in Request
<1>1. [x EXCEPT !.pc = pc] = at_pc(x, pc) /\ at_pc(x, pc).pc = pc
  BY DEF Request, at_pc
<1>2. at_pc(x, pc) \in Request
  BY DEF Request, at_pc
<1> QED
  BY <1>1, <1>2 DEF goto, Becomes

answered(x, what) ==
  [pc |-> "answer", subject |-> x.subject, code |-> x.code, tx |-> x.tx, entry |-> x.entry,
   backfill |-> x.backfill, stream |-> x.stream, reply |-> what]

LEMMA ReplyFacts ==
  ASSUME NEW r \in Requests, NEW x \in Request, NEW what \in Replies, reply(r, what, x)
  PROVE  Becomes(r, answered(x, what)) /\ answered(x, what) \in Request
<1>1. [x EXCEPT !.reply = what] \in Request
  BY DEF Request
<1>2. "answer" \in PCs
  BY DEF PCs, Working, Outside, Appending
<1>3. goto(r, "answer", [x EXCEPT !.reply = what])
  BY DEF reply
<1>4. at_pc([x EXCEPT !.reply = what], "answer") = answered(x, what)
  BY DEF at_pc, answered, Request
<1> QED
  BY <1>1, <1>2, <1>3, <1>4, GotoFacts

(* While r may run, no other request waits for storage.                    *)
LEMMA OthersOutside ==
  ASSUME ClaimInv, NEW r \in Requests, MayRun(r)
  PROVE  \A q \in Requests \ {r} : req[q].pc \notin Inside
BY ClaimFlowAssumption DEF ClaimInv, MayRun

(* What remains to be shown of a step of r: others are at most about to    *)
(* append their entry.                                                     *)
LEMMA StepInv ==
  ASSUME ClaimInv, NEW r \in Requests, MayRun(r), NEW new \in Request, Becomes(r, new),
         StoreTyped', env' = env,
         \A q \in Requests \ {r} : req[q].pc = "audit" => index'[req[q].code] = req[q].subject,
         RequestOK(new)',
         new.pc \in Reserved =>
           /\ byCode'[new.code] = None
           /\ \A s \in Subjects : \A i \in DOMAIN claims'[s].history :
                claims'[s].history[i] # new.code
           /\ \A i \in DOMAIN audit' : audit'[i].code # new.code
           /\ \A q \in Requests \ {r} : req[q].pc = "audit" => req[q].code # new.code,
         CodesBelong', ReceiptsRecorded', PendingAttended', OpenIsPending'
  PROVE  ClaimInv'
<1>1. /\ req \in [Requests -> Request] /\ req' \in [Requests -> Request] /\ req'[r] = new
      /\ \A q \in Requests \ {r} : req'[q] = req[q] /\ req[q].pc \notin Inside
  BY OthersOutside DEF ClaimInv, Becomes
<1>2. gate' = IF new.pc \in Inside THEN r ELSE None
  BY DEF Becomes
<1>3. \A q \in Requests : req'[q].pc \in Inside => gate' = q
  BY <1>1, <1>2
<1>4. ASSUME NEW q \in Requests PROVE RequestOK(req[q])'
  <2>1. CASE q = r
    BY <1>1, <2>1 DEF RequestOK, Recorded, Confirmed
  <2>2. CASE q # r
    <3>1. /\ RequestOK(req[q]) /\ req'[q] = req[q] /\ req[q].pc \notin Inside
          /\ req[q].pc = "audit" => index'[req[q].code] = req[q].subject
      BY <1>1, <2>2 DEF ClaimInv
    <3>2. \A p \in {"reserve", "add", "release", "ensure", "store_code", "store_subject", "resolve"} :
            req[q].pc # p
      BY <3>1 DEF Inside
    <3> QED
      BY <3>1, <3>2 DEF RequestOK, Reserved, Settling, Inside
  <2> QED
    BY <2>1, <2>2
<1>5. ASSUME NEW q \in Requests, req'[q].pc \in Reserved PROVE Unused(req[q].code)'
  <2>1. q = r
    BY <1>1, <1>5 DEF Reserved, Inside
  <2>2. req'[q].code = new.code /\ new.pc \in Reserved
    BY <1>1, <1>5, <2>1
  <2>3. \A p \in Requests : req'[p].pc \in Settling => req'[p].code # new.code
    BY <1>1, <2>2 DEF Settling, Inside, Reserved
  <2> QED
    BY <2>2, <2>3 DEF Unused
<1>6. gate' \in Requests \union {None}
  BY <1>2
<1> QED
  BY <1>1, <1>3, <1>4, <1>5, <1>6 DEF ClaimInv

(* The history of the audit log keeps its entries and may get one more.    *)
AuditKept ==
  /\ audit' \in Seq(Entry) /\ lastHash' \in [Chains -> Int]
  /\ \A i \in DOMAIN audit : i \in DOMAIN audit' /\ audit'[i] = audit[i]

AuditQuiet == AuditKept /\ \A i \in DOMAIN audit' : i \in DOMAIN audit \/ audit'[i].code = None

LEMMA UnchangedAudit ==
  ASSUME StoreTyped, audit' = audit, lastHash' = lastHash
  PROVE  AuditQuiet
BY DEF StoreTyped, AuditQuiet, AuditKept

LEMMA AppendAudit ==
  ASSUME StoreTyped, NEW k \in Streams, NEW s \in Subjects \union {None},
         NEW c \in Codes \union {None}, NEW t \in Txs \union {None}, append(k, s, c, t),
         c # None => s # None
  PROVE  /\ AuditKept /\ Len(audit) + 1 \in DOMAIN audit'
         /\ audit'[Len(audit) + 1].subject = s /\ audit'[Len(audit) + 1].code = c
         /\ audit'[Len(audit) + 1].tx = t
         /\ \A i \in DOMAIN audit' : i \in DOMAIN audit \/ i = Len(audit) + 1
<1> DEFINE e == [subject |-> s, code |-> c, tx |-> t, at |-> clock, stream |-> k,
                 prev |-> lastHash["global"], stream_prev |-> lastHash[k]]
<1>1. audit' = Append(audit, e) /\ audit \in Seq(Entry)
  BY DEF append, StoreTyped
<1>2. /\ lastHash["global"] \in Int /\ lastHash[k] \in Int /\ clock \in Nat
      /\ lastHash' \in [Chains -> Int]
  <2>1. lastHash \in [Chains -> Int] /\ clock \in Nat /\ "global" \in Chains /\ k \in Chains
    BY DEF StoreTyped, Chains
  <2>2. Len(audit) + 1 \in Int
    BY <1>1
  <2> QED
    BY <2>1, <2>2 DEF append
<1>3. e \in Entry /\ e.subject = s /\ e.code = c /\ e.tx = t
  BY <1>2 DEF Entry
<1> HIDE DEF e
<1>4. /\ audit' \in Seq(Entry) /\ Len(audit') = Len(audit) + 1 /\ Len(audit) \in Nat
      /\ DOMAIN audit = 1..Len(audit) /\ DOMAIN audit' = 1..(Len(audit) + 1)
      /\ \A i \in 1..Len(audit) : audit'[i] = audit[i]
      /\ audit'[Len(audit) + 1] = e
  BY <1>1, <1>3
<1>5. \A i \in DOMAIN audit : i \in DOMAIN audit' /\ audit'[i] = audit[i]
  BY <1>4
<1>6. /\ Len(audit) + 1 \in DOMAIN audit'
      /\ \A i \in DOMAIN audit' : i \in DOMAIN audit \/ i = Len(audit) + 1
  BY <1>4
<1>7. AuditKept
  BY <1>2, <1>4, <1>5 DEF AuditKept
<1> QED
  BY <1>3, <1>4, <1>6, <1>7

LEMMA KeptFacts ==
  ASSUME AuditKept
  PROVE  /\ \A c : Confirmed(c) => Confirmed(c)'
         /\ \A e, c : Recorded(e, c) => Recorded(e, c)'
BY DEF AuditKept, Confirmed, Recorded

(* Pending claims stay attended if r goes on attending its code.           *)
LEMMA PendingStep ==
  ASSUME ClaimInv, NEW r \in Requests, NEW new \in Request, Becomes(r, new),
         \A c \in Codes : byCode[c] # None => byCode'[c] # None,
         \A s \in Subjects : claims'[s].pending # None => claims'[s].pending = claims[s].pending,
         Attends(req[r]) => \/ Attends(new) /\ new.code = req[r].code
                            \/ req[r].code # None /\ byCode'[req[r].code] # None
  PROVE  PendingAttended'
<1>1. /\ \A s \in Subjects : claims[s].pending \in Codes \union {None}
      /\ req'[r] = new /\ \A q \in Requests : q # r => req'[q] = req[q]
  BY DEF ClaimInv, StoreTyped, Becomes
<1> SUFFICES ASSUME NEW s \in Subjects, claims'[s].pending # None
             PROVE  \/ byCode'[claims'[s].pending] # None
                    \/ \E q \in Requests : req'[q].code = claims'[s].pending /\ Attends(req'[q])
  BY DEF PendingAttended, Attends
<1>2. claims'[s].pending = claims[s].pending /\ claims[s].pending \in Codes
  BY <1>1
<1>3. CASE byCode[claims[s].pending] # None
  BY <1>2, <1>3
<1>4. ASSUME NEW q \in Requests, req[q].code = claims[s].pending, Attends(req[q])
      PROVE  \/ byCode'[claims'[s].pending] # None
             \/ \E p \in Requests : req'[p].code = claims'[s].pending /\ Attends(req'[p])
  <2>1. CASE q = r
    BY <1>1, <1>2, <1>4, <2>1
  <2>2. CASE q # r
    BY <1>1, <1>2, <1>4, <2>2
  <2> QED
    BY <2>1, <2>2
<1> QED
  BY <1>2, <1>3, <1>4 DEF ClaimInv, PendingAttended

(* A pending claim is dropped only when its code is confirmed.             *)
ClaimsKept ==
  /\ claims' \in [Subjects -> [history : Seq(Codes), pending : Codes \union {None}]]
  /\ \A s \in Subjects :
       /\ claims'[s].history = claims[s].history
       /\ \/ claims'[s].pending = claims[s].pending
          \/ claims'[s].pending = None /\ Confirmed(claims[s].pending)

(* A step that hands out no code and stores no receipt under its code.     *)
LEMMA ControlStep ==
  ASSUME ClaimInv, NEW r \in Requests, MayRun(r), NEW new \in Request, Becomes(r, new),
         UNCHANGED <<env, clock, index, byCode>>, AuditQuiet, ClaimsKept,
         bySubject' \in [Subjects -> Receipt \union {None}],
         RequestOK(new)', new.pc \in Reserved => req[r].pc \in Reserved /\ new.code = req[r].code,
         Attends(req[r]) => Attends(new) /\ new.code = req[r].code
  PROVE  ClaimInv'
<1>c. /\ claims' \in [Subjects -> [history : Seq(Codes), pending : Codes \union {None}]]
      /\ \A s \in Subjects :
           /\ claims'[s].history = claims[s].history
           /\ \/ claims'[s].pending = claims[s].pending
              \/ claims'[s].pending = None /\ Confirmed(claims[s].pending)
  BY DEF ClaimsKept
<1>1. /\ StoreTyped /\ CodesBelong /\ ReceiptsRecorded /\ OpenIsPending
      /\ req \in [Requests -> Request]
      /\ \A q \in Requests : RequestOK(req[q])
      /\ \A q \in Requests : req[q].pc \in Reserved => Unused(req[q].code)
  BY DEF ClaimInv
<1>2. AuditKept /\ \A i \in DOMAIN audit' : i \in DOMAIN audit \/ audit'[i].code = None
  BY DEF AuditQuiet
<1>3. StoreTyped'
  BY <1>c, <1>1, <1>2 DEF StoreTyped, AuditKept
<1>4. \A q \in Requests \ {r} : req[q].pc = "audit" => index'[req[q].code] = req[q].subject
  BY <1>1 DEF RequestOK, Settling
<1>5. CodesBelong'
  <2>1. \A i \in DOMAIN audit' :
          audit'[i].code # None => index[audit'[i].code] = audit'[i].subject
    BY <1>1, <1>2 DEF CodesBelong, AuditKept
  <2>2. \A s \in Subjects : codesOf(s)' = codesOf(s)
    BY <1>c DEF codesOf
  <2> QED
    BY <1>1, <2>1, <2>2 DEF CodesBelong
<1>6. ReceiptsRecorded'
  BY <1>1, <1>2, KeptFacts DEF ReceiptsRecorded
<1>7. PendingAttended'
  BY <1>c, PendingStep
<1>8. OpenIsPending'
  <2> SUFFICES ASSUME ~env.cof, NEW s \in Subjects, NEW i \in DOMAIN claims'[s].history
               PROVE  (Confirmed(claims[s].history[i]) \/ claims[s].history[i] = claims[s].pending)'
    BY DEF OpenIsPending
  <2>1. claims'[s].history = claims[s].history
    BY <1>c
  <2>2. Confirmed(claims[s].history[i]) \/ claims[s].history[i] = claims[s].pending
    BY <1>1, <2>1 DEF OpenIsPending
  <2>3. CASE claims'[s].pending = claims[s].pending
    BY <1>2, <2>1, <2>2, <2>3 DEF Confirmed, AuditKept
  <2>4. CASE Confirmed(claims[s].pending)
    BY <1>2, <2>1, <2>2, <2>4 DEF Confirmed, AuditKept
  <2> QED
    BY <1>c, <2>3, <2>4
<1>9. ASSUME new.pc \in Reserved
      PROVE  /\ byCode'[new.code] = None
             /\ \A s \in Subjects : \A i \in DOMAIN claims'[s].history :
                  claims'[s].history[i] # new.code
             /\ \A i \in DOMAIN audit' : audit'[i].code # new.code
             /\ \A q \in Requests \ {r} : req[q].pc = "audit" => req[q].code # new.code
  <2>1. Unused(new.code) /\ new.code \in Codes
    BY <1>1, <1>9 DEF RequestOK
  <2>2. new.code # None
    BY <2>1, ClaimFlowAssumption
  <2> QED
    BY <1>c, <1>2, <2>1, <2>2 DEF Unused, Settling, AuditKept
<1> QED
  BY <1>3, <1>4, <1>5, <1>6, <1>7, <1>8, <1>9, StepInv

(* The request goes on to its answer.                                      *)
LEMMA QuietStep ==
  ASSUME ClaimInv, NEW r \in Requests, MayRun(r), NEW new \in Request, Becomes(r, new),
         new.pc \in {"answer", "answer_open", "done"},
         UNCHANGED <<env, clock, index, byCode>>, AuditQuiet, ClaimsKept,
         bySubject' \in [Subjects -> Receipt \union {None}],
         Attends(req[r]) => Attends(new) /\ new.code = req[r].code
  PROVE  ClaimInv'
<1>1. RequestOK(new)'
  BY DEF RequestOK, Inside, Reserved, Settling
<1>2. new.pc \notin Reserved
  BY DEF Reserved
<1> QED
  BY <1>1, <1>2, ControlStep

LEMMA ReplyStep ==
  ASSUME ClaimInv, NEW r \in Requests, MayRun(r), NEW x \in Request, NEW what \in Replies,
         reply(r, what, x),
         UNCHANGED <<env, clock, index, byCode>>, AuditQuiet, ClaimsKept,
         bySubject' \in [Subjects -> Receipt \union {None}],
         Attends(req[r]) => what \in {"500", "503"} /\ x.code = req[r].code
  PROVE  ClaimInv'
<1>1. Becomes(r, answered(x, what)) /\ answered(x, what) \in Request
  BY ReplyFacts
<1>2. PICK new \in Request : new = answered(x, what)
  BY <1>1
<1>3. new.pc = "answer" /\ new.reply = what /\ new.code = x.code
  BY <1>2 DEF answered
<1>4. Attends(req[r]) => Attends(new) /\ new.code = req[r].code
  BY <1>3 DEF Attends
<1>5. Becomes(r, new)
  BY <1>1, <1>2
<1> QED
  BY <1>3, <1>4, <1>5, QuietStep

LEMMA DoneStep ==
  ASSUME ClaimInv, NEW r \in Requests, MayRun(r), NEW x \in Request, goto(r, "done", x),
         UNCHANGED <<env, clock, index, byCode>>, AuditQuiet, ClaimsKept,
         bySubject' \in [Subjects -> Receipt \union {None}],
         Attends(req[r]) => x.reply \in {"500", "503"} /\ x.code = req[r].code
  PROVE  ClaimInv'
<1>0. "done" \in PCs
  BY DEF PCs
<1>1. Becomes(r, at_pc(x, "done")) /\ at_pc(x, "done") \in Request
  BY <1>0, GotoFacts
<1>2. PICK new \in Request : new = at_pc(x, "done")
  BY <1>1
<1>3. new.pc = "done" /\ new.reply = x.reply /\ new.code = x.code
  BY <1>2 DEF at_pc
<1>4. Attends(req[r]) => Attends(new) /\ new.code = req[r].code
  BY <1>3 DEF Attends
<1>5. Becomes(r, new)
  BY <1>1, <1>2
<1> QED
  BY <1>3, <1>4, <1>5, QuietStep

(* Where the claim store and the receipts are left alone.                  *)
LEMMA NothingStored ==
  ASSUME ClaimInv, UNCHANGED <<claims, bySubject>>
  PROVE  ClaimsKept /\ bySubject' \in [Subjects -> Receipt \union {None}]
BY DEF ClaimInv, StoreTyped, ClaimsKept

(* A request at a step, and one that has not started.                      *)
LEMMA AtFacts ==
  ASSUME ClaimInv, NEW r \in Requests, NEW pc, at(r, pc)
  PROVE  /\ req[r] \in Request /\ req[r].pc = pc /\ MayRun(r) /\ RequestOK(req[r])
         /\ pc \in Inside \union {"idle", "judge", "audit", "audit_close"} =>
              req[r].reply = "none"
         /\ pc \in Inside \union {"idle", "judge", "audit_close"} /\ pc # "ensure" /\ pc # "store_code" =>
              ~Attends(req[r])
BY DEF at, ClaimInv, RequestOK, Attends, Inside

(* The pending claim of s after a look at the confirmed claims.            *)
LEMMA OpenPendingKept ==
  ASSUME ClaimInv, NEW s \in Subjects,
         claims' = [claims EXCEPT ![s].pending = openPending(s)]
  PROVE  ClaimsKept
<1>1. claims \in [Subjects -> [history : Seq(Codes), pending : Codes \union {None}]]
  BY DEF ClaimInv, StoreTyped
<1>2. \/ openPending(s) = claims[s].pending
      \/ openPending(s) = None /\ confirmedForCode(s, claims[s].pending)
  BY DEF openPending
<1>3. confirmedForCode(s, claims[s].pending) => Confirmed(claims[s].pending)
  BY DEF confirmedForCode, collectConfirmedOnchainClaims, Confirmed
<1>4. openPending(s) \in Codes \union {None}
  BY <1>1, <1>2
<1> QED
  BY <1>1, <1>2, <1>3, <1>4 DEF ClaimsKept

-----------------------------------------------------------------------------
(* One lemma per action.                                                   *)

LEMMA StepTurnAway == ASSUME ClaimInv, NEW r \in Requests, turnAway(r) PROVE ClaimInv'
<1>1. /\ at(r, "idle") /\ UNCHANGED <<env, clock, index, byCode, claims, bySubject, auditLog>>
      /\ \/ goto(r, "done", [req[r] EXCEPT !.reply = "error"])
         \/ goto(r, "done", [req[r] EXCEPT !.reply = "503"])
  BY DEF turnAway, stored
<1>2. req[r] \in Request /\ MayRun(r) /\ ~Attends(req[r])
  BY <1>1, AtFacts
<1>3. [req[r] EXCEPT !.reply = "error"] \in Request /\ [req[r] EXCEPT !.reply = "503"] \in Request
  BY <1>2 DEF Request, Replies
<1>4. AuditQuiet
  BY <1>1, UnchangedAudit DEF ClaimInv, auditLog
<1>5. ClaimsKept /\ bySubject' \in [Subjects -> Receipt \union {None}]
  BY <1>1, NothingStored
<1> QED
  BY <1>1, <1>2, <1>3, <1>4, <1>5, DoneStep

LEMMA InStream ==
  ASSUME NEW x \in Request, NEW k \in Streams
  PROVE  [x EXCEPT !.stream = k] \in Request
BY DEF Request

LEMMA StepRefuse == ASSUME ClaimInv, NEW r \in Requests, refuse(r) PROVE ClaimInv'
<1>1. /\ at(r, "idle") /\ UNCHANGED <<env, clock, index, byCode, claims, bySubject, auditLog>>
  BY DEF refuse, stored
<1>2. req[r] \in Request /\ MayRun(r) /\ ~Attends(req[r]) /\ "error" \in Replies
  BY <1>1, AtFacts DEF Replies
<1>5. PICK x \in Request : reply(r, "error", x)
  BY <1>2, InStream DEF refuse
<1>3. AuditQuiet
  BY <1>1, UnchangedAudit DEF ClaimInv, auditLog
<1>4. ClaimsKept /\ bySubject' \in [Subjects -> Receipt \union {None}]
  BY <1>1, NothingStored
<1> QED
  BY <1>1, <1>2, <1>3, <1>4, <1>5, ReplyStep

LEMMA StepVerifyCode ==
  ASSUME ClaimInv, NEW r \in Requests, NEW c \in Codes, verifyCode(r, c) PROVE ClaimInv'
<1>1. /\ at(r, "idle") /\ UNCHANGED <<env, clock, index, byCode, claims, bySubject, auditLog>>
  BY DEF verifyCode, stored
<1>2. /\ req[r] \in Request /\ MayRun(r) /\ ~Attends(req[r])
      /\ "error" \in Replies /\ "verified" \in Replies
  BY <1>1, AtFacts DEF Replies
<1>3. AuditQuiet
  BY <1>1, UnchangedAudit DEF ClaimInv, auditLog
<1>4. ClaimsKept /\ bySubject' \in [Subjects -> Receipt \union {None}]
  BY <1>1, NothingStored
<1>5. PICK x \in Request : reply(r, "verified", x) \/ reply(r, "error", x)
  BY <1>2, InStream DEF verifyCode
<1> QED
  BY <1>1, <1>2, <1>3, <1>4, <1>5, ReplyStep

(* A request that goes on at pc without writing.                           *)
LEMMA GoStep ==
  ASSUME ClaimInv, NEW r \in Requests, MayRun(r), NEW x \in Request, NEW pc \in PCs,
         goto(r, pc, x), pc \notin Reserved,
         UNCHANGED <<env, clock, index, byCode, audit, lastHash>>, ClaimsKept,
         bySubject' \in [Subjects -> Receipt \union {None}],
         ~Attends(req[r]) \/ (Attends(at_pc(x, pc)) /\ x.code = req[r].code),
         pc # "reserve" => RequestOK(at_pc(x, pc)), x.reply = "none",
         pc = "reserve" => /\ x.subject \in Subjects /\ x.tx = None
                           /\ ~env.cof => claims'[x.subject].pending = None
  PROVE  ClaimInv'
<1>1. Becomes(r, at_pc(x, pc)) /\ at_pc(x, pc) \in Request
  BY GotoFacts
<1>2. PICK new \in Request : new = at_pc(x, pc)
  BY <1>1
<1>3. /\ new.pc = pc /\ new.code = x.code /\ new.subject = x.subject /\ Becomes(r, new)
      /\ new.tx = x.tx /\ new.reply = x.reply
  BY <1>1, <1>2 DEF at_pc
<1>4. AuditQuiet
  BY UnchangedAudit DEF ClaimInv
<1>5. RequestOK(new)'
  <2>1. CASE pc = "reserve"
    BY <1>3, <2>1 DEF RequestOK, Inside, Reserved, Settling
  <2>2. CASE pc # "reserve"
    <3>1. RequestOK(new) /\ new.pc \notin {"reserve", "add"}
      BY <1>2, <1>3, <2>2 DEF Reserved
    <3> QED
      BY <1>3, <3>1 DEF RequestOK, Recorded, Confirmed
  <2> QED
    BY <2>1, <2>2
<1>6. Attends(req[r]) => Attends(new) /\ new.code = req[r].code
  BY <1>2, <1>3
<1> QED
  BY <1>3, <1>4, <1>5, <1>6, ControlStep

LEMMA StepCloseEvent == ASSUME ClaimInv, NEW r \in Requests, closeEvent(r) PROVE ClaimInv'
<1>1. /\ at(r, "idle") /\ goto(r, "audit_close", req[r])
      /\ UNCHANGED <<env, clock, claims, index, byCode, bySubject, audit, lastHash>>
  BY DEF closeEvent, accepted, auditLog
<1>2. /\ req[r] \in Request /\ req[r].pc = "idle" /\ MayRun(r) /\ RequestOK(req[r])
      /\ req[r].reply = "none" /\ ~Attends(req[r])
  BY <1>1, AtFacts
<1>3. "audit_close" \in PCs /\ "audit_close" \notin Reserved
  BY DEF PCs, Working, Outside, Appending, Reserved
<1>4. RequestOK(at_pc(req[r], "audit_close"))
  BY <1>2 DEF RequestOK, at_pc, Inside, Reserved, Settling
<1>5. ClaimsKept /\ bySubject' \in [Subjects -> Receipt \union {None}]
  BY <1>1, NothingStored
<1> QED
  BY <1>1, <1>2, <1>3, <1>4, <1>5, GoStep

LEMMA StepClaim ==
  ASSUME ClaimInv, NEW r \in Requests, NEW s \in Subjects, claim(r, s) PROVE ClaimInv'
<1> DEFINE mine == [req[r] EXCEPT !.subject = s]
<1>1. /\ at(r, "idle") /\ claims' = [claims EXCEPT ![s].pending = openPending(s)]
      /\ UNCHANGED <<env, clock, index, byCode, bySubject, audit, lastHash>>
  BY DEF claim, accepted, auditLog
<1>2. /\ req[r] \in Request /\ req[r].pc = "idle" /\ MayRun(r) /\ RequestOK(req[r])
      /\ req[r].reply = "none" /\ ~Attends(req[r])
  BY <1>1, AtFacts
<1>3. ClaimsKept /\ bySubject' \in [Subjects -> Receipt \union {None}]
  BY <1>1, OpenPendingKept DEF ClaimInv, StoreTyped
<1>4. mine \in Request /\ mine.subject = s /\ mine.reply = "none" /\ mine.tx = None
  BY <1>2 DEF Request, RequestOK
<1>5. CASE reply(r, "already", [mine EXCEPT !.code = heldCode(s)])
  <2>1. heldCode(s) \in Codes \union {None}
    <3>1. claims[s].pending \in Codes \union {None} /\ claims[s].history \in Seq(Codes)
      BY DEF ClaimInv, StoreTyped
    <3>2. openPending(s) \in Codes \union {None}
      BY <3>1 DEF openPending
    <3>3. latestCode(s) \in Codes \union {None}
      BY <3>1 DEF latestCode
    <3> QED
      BY <3>2, <3>3 DEF heldCode
  <2>2. [mine EXCEPT !.code = heldCode(s)] \in Request
    BY <1>4, <2>1 DEF Request
  <2>3. AuditQuiet /\ "already" \in Replies
    BY <1>1, UnchangedAudit DEF ClaimInv, Replies
  <2> QED
    BY <1>1, <1>2, <1>3, <1>5, <2>2, <2>3, ReplyStep
<1>6. CASE /\ openPending(s) = None
           /\ goto(r, IF env.cof THEN "judge" ELSE "reserve", mine)
  <2>1. \A pc \in {"judge", "reserve"} : pc \in PCs /\ pc \notin Reserved
    BY DEF PCs, Working, Outside, Inside, Reserved
  <2>2. claims'[s].pending = None
    BY <1>1, <1>6 DEF ClaimInv, StoreTyped
  <2>3. CASE env.cof
    <3>1. goto(r, "judge", mine)
      BY <1>6, <2>3
    <3>2. RequestOK(at_pc(mine, "judge"))
      BY <1>4, <2>3 DEF RequestOK, at_pc, Inside, Reserved, Settling
    <3> QED
      BY <1>1, <1>2, <1>3, <1>4, <2>1, <2>3, <3>1, <3>2, GoStep
  <2>4. CASE ~env.cof
    <3>1. goto(r, "reserve", mine)
      BY <1>6, <2>4
    <3> QED
      BY <1>1, <1>2, <1>3, <1>4, <2>1, <2>2, <3>1, GoStep
  <2> QED
    BY <2>3, <2>4
<1> QED
  BY <1>5, <1>6 DEF claim

LEMMA StepClaimWithProof ==
  ASSUME ClaimInv, NEW r \in Requests, NEW s \in Subjects, NEW c \in Codes, NEW t \in Txs,
         claimWithProof(r, s, c, t)
  PROVE  ClaimInv'
<1>1. /\ at(r, "idle") /\ claims' = [claims EXCEPT ![s].pending = openPending(s)]
      /\ UNCHANGED <<env, clock, index, byCode, bySubject, audit, lastHash>>
  BY DEF claimWithProof, accepted, auditLog
<1>2. /\ req[r] \in Request /\ req[r].pc = "idle" /\ MayRun(r) /\ RequestOK(req[r])
      /\ req[r].reply = "none" /\ ~Attends(req[r])
  BY <1>1, AtFacts
<1>3. ClaimsKept /\ bySubject' \in [Subjects -> Receipt \union {None}]
  BY <1>1, OpenPendingKept DEF ClaimInv, StoreTyped
<1>4. \/ reply(r, "error", [req[r] EXCEPT !.subject = s])
      \/ index[c] = s /\ \E b \in BOOLEAN :
           goto(r, "audit", [req[r] EXCEPT !.subject = s, !.code = c, !.tx = t, !.backfill = b])
  BY DEF claimWithProof, confirmationCodeBelongsToSubject
<1>5. CASE reply(r, "error", [req[r] EXCEPT !.subject = s])
  <2>1. [req[r] EXCEPT !.subject = s] \in Request
    BY <1>2 DEF Request
  <2>2. AuditQuiet /\ "error" \in Replies
    BY <1>1, UnchangedAudit DEF ClaimInv, Replies
  <2> QED
    BY <1>1, <1>2, <1>3, <1>5, <2>1, <2>2, ReplyStep
<1>6. ASSUME index[c] = s, NEW b \in BOOLEAN,
             goto(r, "audit", [req[r] EXCEPT !.subject = s, !.code = c, !.tx = t, !.backfill = b])
      PROVE  ClaimInv'
  <2> DEFINE mine == [req[r] EXCEPT !.subject = s, !.code = c, !.tx = t, !.backfill = b]
  <2>1. mine \in Request /\ mine.subject = s /\ mine.code = c /\ mine.reply = "none"
    BY <1>2 DEF Request
  <2>2. "audit" \in PCs /\ "audit" \notin Reserved
    BY DEF PCs, Working, Outside, Appending, Reserved
  <2> HIDE DEF mine
  <2>3. RequestOK(at_pc(mine, "audit"))
    BY <1>6, <2>1 DEF RequestOK, at_pc, Inside, Reserved, Settling
  <2>4. goto(r, "audit", mine)
    BY <1>6 DEF mine
  <2> QED
    BY <1>1, <1>2, <1>3, <2>1, <2>2, <2>3, <2>4, GoStep
<1> QED
  BY <1>4, <1>5, <1>6

LEMMA StepJudge == ASSUME ClaimInv, NEW r \in Requests, enforceCostOfForgeryRisk(r) PROVE ClaimInv'
<1>1. /\ at(r, "judge") /\ UNCHANGED <<env, clock, index, byCode, claims, bySubject, audit, lastHash>>
      /\ goto(r, "reserve", req[r]) \/ reply(r, "error", req[r])
  BY DEF enforceCostOfForgeryRisk, stored, auditLog
<1>2. /\ req[r] \in Request /\ req[r].pc = "judge" /\ MayRun(r) /\ RequestOK(req[r])
      /\ req[r].reply = "none" /\ ~Attends(req[r])
  BY <1>1, AtFacts
<1>3. ClaimsKept /\ bySubject' \in [Subjects -> Receipt \union {None}]
  BY <1>1, NothingStored
<1>4. req[r].subject \in Subjects /\ req[r].tx = None /\ env.cof
  BY <1>2 DEF RequestOK
<1>5. "reserve" \in PCs /\ "reserve" \notin Reserved /\ "error" \in Replies
  BY DEF PCs, Working, Inside, Reserved, Replies
<1>6. AuditQuiet
  BY <1>1, UnchangedAudit DEF ClaimInv
<1>7. CASE goto(r, "reserve", req[r])
  BY <1>1, <1>2, <1>3, <1>4, <1>5, <1>7, GoStep
<1>8. CASE reply(r, "error", req[r])
  BY <1>1, <1>2, <1>3, <1>5, <1>6, <1>8, ReplyStep
<1> QED
  BY <1>1, <1>7, <1>8

LEMMA StepResolve == ASSUME ClaimInv, NEW r \in Requests, resolveConfirmed(r) PROVE ClaimInv'
<1>1. /\ at(r, "resolve") /\ UNCHANGED <<env, clock, index, byCode, bySubject, audit, lastHash>>
      /\ reply(r, "already", req[r]) /\ resolvePendingClaim(req[r].subject, req[r].code)
  BY DEF resolveConfirmed, auditLog
<1>2. /\ req[r] \in Request /\ req[r].pc = "resolve" /\ MayRun(r) /\ RequestOK(req[r])
      /\ ~Attends(req[r])
  BY <1>1, AtFacts DEF Inside
<1>3. req[r].subject \in Subjects /\ Confirmed(req[r].code)
  BY <1>2 DEF RequestOK, Inside
<1>4. claims \in [Subjects -> [history : Seq(Codes), pending : Codes \union {None}]]
  BY DEF ClaimInv, StoreTyped
<1>5. ClaimsKept
  BY <1>1, <1>3, <1>4 DEF ClaimsKept, resolvePendingClaim
<1>6. bySubject' \in [Subjects -> Receipt \union {None}] /\ AuditQuiet /\ "already" \in Replies
  BY <1>1, UnchangedAudit DEF ClaimInv, StoreTyped, Replies
<1> QED
  BY <1>1, <1>2, <1>5, <1>6, ReplyStep

(* An entry of the trail is no claim's.                                    *)
LEMMA TrailQuiet ==
  ASSUME StoreTyped, NEW k \in Streams, append(k, None, None, None)
  PROVE  AuditQuiet
BY AppendAudit DEF AuditQuiet

LEMMA StepAnswer == ASSUME ClaimInv, NEW r \in Requests, answer(r) PROVE ClaimInv'
<1>1. /\ at(r, "answer") /\ UNCHANGED <<env, clock, index, byCode, claims, bySubject>>
      /\ \/ append(req[r].stream, None, None, None) /\ goto(r, "done", req[r])
         \/ goto(r, "done", [req[r] EXCEPT !.reply = "503"]) /\ UNCHANGED <<audit, lastHash>>
  BY DEF answer, stored, auditLog, trail
<1>2. req[r] \in Request /\ req[r].pc = "answer" /\ MayRun(r)
  BY <1>1, AtFacts
<1>3. Attends(req[r]) => req[r].reply \in {"500", "503"}
  BY <1>2 DEF Attends
<1>4. ClaimsKept /\ bySubject' \in [Subjects -> Receipt \union {None}]
  BY <1>1, NothingStored
<1>5. CASE append(req[r].stream, None, None, None) /\ goto(r, "done", req[r])
  <2>1. AuditQuiet
    BY <1>2, <1>5, TrailQuiet DEF ClaimInv, Request
  <2> QED
    BY <1>1, <1>2, <1>3, <1>4, <1>5, <2>1, DoneStep
<1>6. CASE goto(r, "done", [req[r] EXCEPT !.reply = "503"]) /\ UNCHANGED <<audit, lastHash>>
  <2>1. AuditQuiet
    BY <1>6, UnchangedAudit DEF ClaimInv
  <2>2. /\ [req[r] EXCEPT !.reply = "503"] \in Request
        /\ [req[r] EXCEPT !.reply = "503"].reply = "503"
        /\ [req[r] EXCEPT !.reply = "503"].code = req[r].code
    BY <1>2 DEF Request, Replies
  <2> QED
    BY <1>1, <1>2, <1>4, <1>6, <2>1, <2>2, DoneStep
<1> QED
  BY <1>1, <1>5, <1>6

LEMMA StepAuditClose == ASSUME ClaimInv, NEW r \in Requests, auditClose(r) PROVE ClaimInv'
<1>1. /\ at(r, "audit_close") /\ UNCHANGED <<env, clock, index, byCode, claims, bySubject>>
      /\ \/ append("event", None, None, None) /\ reply(r, "ended", req[r])
         \/ reply(r, "500", req[r]) /\ UNCHANGED <<audit, lastHash>>
  BY DEF auditClose, stored, auditLog
<1>2. req[r] \in Request /\ MayRun(r) /\ ~Attends(req[r])
  BY <1>1, AtFacts
<1>3. ClaimsKept /\ bySubject' \in [Subjects -> Receipt \union {None}]
  BY <1>1, NothingStored
<1>4. AuditQuiet
  BY <1>1, TrailQuiet, UnchangedAudit DEF ClaimInv, Streams
<1>5. "ended" \in Replies /\ "500" \in Replies
  BY DEF Replies
<1> QED
  BY <1>1, <1>2, <1>3, <1>4, <1>5, ReplyStep

(* A code nobody is indexed for is used by nobody.                         *)
LEMMA FreeCodeUnused ==
  ASSUME ClaimInv, NEW c \in Codes, index[c] = None
  PROVE  /\ \A s \in Subjects : \A i \in DOMAIN claims[s].history : claims[s].history[i] # c
         /\ \A i \in DOMAIN audit : audit[i].code # c
         /\ byCode[c] = None
         /\ \A q \in Requests : req[q].pc = "audit" => req[q].code # c
<1>1. CodesBelong /\ StoreTyped /\ \A q \in Requests : RequestOK(req[q])
  BY DEF ClaimInv
<1>2. None \notin Subjects /\ None \notin Codes
  BY ClaimFlowAssumption
<1>3. \A s \in Subjects : \A i \in DOMAIN claims[s].history : claims[s].history[i] # c
  BY <1>1, <1>2 DEF CodesBelong, codesOf
<1>4. \A i \in DOMAIN audit : audit[i].code # c
  <2>1. \A i \in DOMAIN audit : audit[i] \in Entry
    BY <1>1 DEF StoreTyped
  <2> QED
    BY <1>1, <1>2, <2>1 DEF CodesBelong, Entry
<1>5. byCode[c] = None
  BY <1>1, <1>2 DEF CodesBelong, StoreTyped, Receipt
<1>6. \A q \in Requests : req[q].pc = "audit" => req[q].code # c
  BY <1>1, <1>2 DEF RequestOK, Settling
<1> QED
  BY <1>3, <1>4, <1>5, <1>6

LEMMA StepReserve ==
  ASSUME ClaimInv, NEW r \in Requests, reserveUniqueConfirmationCode(r) PROVE ClaimInv'
<1>1. /\ at(r, "reserve") /\ UNCHANGED <<env, clock, claims, byCode, bySubject, audit, lastHash>>
      /\ \/ reply(r, "error", req[r]) /\ UNCHANGED index
         \/ \E c \in Codes : /\ index[c] = None
                             /\ index' = [index EXCEPT ![c] = req[r].subject]
                             /\ goto(r, "add", [req[r] EXCEPT !.code = c])
  BY DEF reserveUniqueConfirmationCode, auditLog
<1>2. /\ req[r] \in Request /\ req[r].pc = "reserve" /\ MayRun(r) /\ RequestOK(req[r])
      /\ ~Attends(req[r]) /\ req[r].reply = "none"
  BY <1>1, AtFacts DEF Inside
<1>3. /\ req[r].subject \in Subjects /\ req[r].tx = None
      /\ ~env.cof => claims[req[r].subject].pending = None
  BY <1>2 DEF RequestOK, Inside
<1>4. CASE reply(r, "error", req[r]) /\ UNCHANGED index
  <2>1. ClaimsKept /\ bySubject' \in [Subjects -> Receipt \union {None}]
    BY <1>1, NothingStored
  <2>2. AuditQuiet /\ "error" \in Replies
    BY <1>1, UnchangedAudit DEF ClaimInv, Replies
  <2> QED
    BY <1>1, <1>2, <1>4, <2>1, <2>2, ReplyStep
<1>5. ASSUME NEW c \in Codes, index[c] = None,
             index' = [index EXCEPT ![c] = req[r].subject],
             goto(r, "add", [req[r] EXCEPT !.code = c])
      PROVE  ClaimInv'
  <2>1. [req[r] EXCEPT !.code = c] \in Request /\ "add" \in PCs
    BY <1>2 DEF Request, PCs, Working, Inside
  <2>2. PICK new \in Request : /\ Becomes(r, new) /\ new.pc = "add" /\ new.code = c
                               /\ new.subject = req[r].subject /\ new.tx = None
                               /\ new.reply = "none"
    <3>1. [req[r] EXCEPT !.code = c].code = c /\ [req[r] EXCEPT !.code = c].subject = req[r].subject
      BY <1>2 DEF Request
    <3>2. [req[r] EXCEPT !.code = c].tx = None /\ [req[r] EXCEPT !.code = c].reply = "none"
      BY <1>2, <1>3 DEF Request
    <3> QED
      BY <1>5, <2>1, <3>1, <3>2, GotoFacts DEF at_pc
  <2>3. StoreTyped /\ CodesBelong /\ None \notin Subjects /\ index'[c] = req[r].subject
    BY <1>5, ClaimFlowAssumption DEF ClaimInv, StoreTyped
  <2>4. \A d \in Codes : d # c => index'[d] = index[d]
    BY <1>5, <2>3 DEF StoreTyped
  <2>5. StoreTyped'
    BY <1>1, <1>3, <1>5, <2>3 DEF StoreTyped
  <2>6. /\ \A s \in Subjects : \A i \in DOMAIN claims[s].history : claims[s].history[i] # c
        /\ \A i \in DOMAIN audit : audit[i].code # c
        /\ byCode[c] = None
        /\ \A q \in Requests : req[q].pc = "audit" => req[q].code # c
    BY <1>5, FreeCodeUnused
  <2>7. \A q \in Requests \ {r} : req[q].pc = "audit" => index'[req[q].code] = req[q].subject
    BY <2>4, <2>6 DEF ClaimInv, RequestOK, Settling
  <2>8. RequestOK(new)'
    BY <1>1, <1>3, <2>2, <2>3 DEF RequestOK, Inside, Reserved, Settling
  <2>9. CodesBelong'
    <3>1. \A s \in Subjects : \A i \in DOMAIN claims[s].history : claims[s].history[i] \in Codes
      BY <2>3 DEF StoreTyped
    <3>2. \A i \in DOMAIN audit : audit[i].code \in Codes \union {None}
      BY <2>3 DEF StoreTyped, Entry
    <3> QED
      BY <1>1, <2>3, <2>4, <2>6, <3>1, <3>2 DEF CodesBelong, codesOf
  <2>10. ReceiptsRecorded' /\ OpenIsPending'
    BY <1>1 DEF ClaimInv, ReceiptsRecorded, OpenIsPending, Recorded, Confirmed
  <2>11. PendingAttended'
    BY <1>1, <1>2, <2>2, PendingStep
  <2> QED
    BY <1>1, <1>2, <2>2, <2>5, <2>6, <2>7, <2>8, <2>9, <2>10, <2>11, StepInv
<1> QED
  BY <1>1, <1>4, <1>5

LEMMA KeepLastFacts ==
  ASSUME NEW h \in Seq(Codes), NEW c \in Codes
  PROVE  /\ keepLast(Append(h, c)) \in Seq(Codes)
         /\ \A i \in DOMAIN keepLast(Append(h, c)) :
              \/ keepLast(Append(h, c))[i] = c
              \/ \E j \in DOMAIN h : keepLast(Append(h, c))[i] = h[j]
<1> DEFINE a == Append(h, c)
<1>1. /\ a \in Seq(Codes) /\ Len(a) \in Nat /\ Len(a) = Len(h) + 1 /\ DOMAIN a = 1..Len(a)
      /\ DOMAIN h = 1..Len(h) /\ Len(h) \in Nat
      /\ a[Len(h) + 1] = c /\ \A i \in 1..Len(h) : a[i] = h[i]
  OBVIOUS
<1>2. \A i \in DOMAIN a : a[i] = c \/ \E j \in DOMAIN h : a[i] = h[j]
  BY <1>1
<1> HIDE DEF a
<1>3. CASE Len(a) > MaxStored
  <2>1. MaxStored \in Nat \ {0}
    BY ClaimFlowAssumption
  <2> DEFINE m == Len(a) - MaxStored + 1
  <2>2. m \in 1..Len(a) /\ m \in Int /\ Len(a) \in Int
    BY <1>1, <1>3, <2>1
  <2> HIDE DEF m
  <2>3. \A k \in m..Len(a) : a[k] \in Codes
    BY <1>1, <2>2
  <2>4. /\ SubSeq(a, m, Len(a)) \in Seq(Codes)
        /\ Len(SubSeq(a, m, Len(a))) = Len(a) - m + 1
        /\ \A i \in 1..(Len(a) - m + 1) : SubSeq(a, m, Len(a))[i] = a[m + i - 1]
    BY <1>1, <2>2, <2>3, SubSeqProperties
  <2>5. DOMAIN SubSeq(a, m, Len(a)) = 1..(Len(a) - m + 1)
    BY <2>4
  <2>6. \A i \in 1..(Len(a) - m + 1) : m + i - 1 \in DOMAIN a
    BY <1>1, <2>2
  <2>7. keepLast(a) = SubSeq(a, m, Len(a))
    BY <1>3 DEF keepLast, m
  <2> QED
    BY <1>2, <2>4, <2>5, <2>6, <2>7 DEF a
<1>4. CASE ~(Len(a) > MaxStored)
  <2>1. keepLast(a) = a
    BY <1>4 DEF keepLast
  <2> QED
    BY <1>1, <1>2, <2>1 DEF a
<1> QED
  BY <1>3, <1>4

LEMMA StepAddClaim == ASSUME ClaimInv, NEW r \in Requests, addClaim(r) PROVE ClaimInv'
<1> DEFINE s == req[r].subject
           c == req[r].code
           h == keepLast(Append(claims[s].history, c))
<1>1. /\ at(r, "add") /\ UNCHANGED <<env, clock, index, byCode, bySubject, audit, lastHash>>
      /\ \/ goto(r, "release", req[r]) /\ UNCHANGED claims
         \/ /\ claims' = [claims EXCEPT ![s] = [history |-> h, pending |-> c]]
            /\ goto(r, "ensure", req[r])
  BY DEF addClaim, auditLog
<1>2. /\ req[r] \in Request /\ req[r].pc = "add" /\ MayRun(r) /\ RequestOK(req[r])
      /\ ~Attends(req[r]) /\ req[r].reply = "none"
  BY <1>1, AtFacts DEF Inside
<1>3. /\ s \in Subjects /\ c \in Codes /\ index[c] = s /\ req[r].tx = None
      /\ ~env.cof => claims[s].pending = None
  BY <1>2 DEF RequestOK, Inside, Reserved
<1>4. StoreTyped /\ CodesBelong /\ ReceiptsRecorded /\ PendingAttended /\ OpenIsPending
  BY DEF ClaimInv
<1>5. CASE goto(r, "release", req[r]) /\ UNCHANGED claims
  <2>1. "release" \in PCs
    BY DEF PCs, Working, Inside
  <2>2. PICK new \in Request : /\ Becomes(r, new) /\ new.pc = "release" /\ new.code = c
                               /\ new.subject = s /\ new.tx = None /\ new.reply = "none"
    BY <1>2, <1>3, <1>5, <2>1, GotoFacts DEF at_pc
  <2>3. RequestOK(new)'
    BY <1>1, <1>3, <2>2 DEF RequestOK, Inside, Reserved, Settling
  <2>4. ClaimsKept /\ bySubject' \in [Subjects -> Receipt \union {None}] /\ AuditQuiet
    BY <1>1, <1>4, <1>5, NothingStored, UnchangedAudit
  <2>5. new.pc \in Reserved => req[r].pc \in Reserved /\ new.code = req[r].code
    BY <1>2, <2>2 DEF Reserved
  <2> QED
    BY <1>1, <1>2, <2>2, <2>3, <2>4, <2>5, ControlStep
<1>6. CASE /\ claims' = [claims EXCEPT ![s] = [history |-> h, pending |-> c]]
           /\ goto(r, "ensure", req[r])
  <2>1. "ensure" \in PCs
    BY DEF PCs, Working, Inside
  <2>2. PICK new \in Request : /\ Becomes(r, new) /\ new.pc = "ensure" /\ new.code = c
                               /\ new.subject = s /\ new.tx = None /\ new.reply = "none"
    BY <1>2, <1>3, <1>6, <2>1, GotoFacts DEF at_pc
  <2>3. /\ claims[s].history \in Seq(Codes)
        /\ h \in Seq(Codes)
        /\ \A i \in DOMAIN h : h[i] = c \/ \E j \in DOMAIN claims[s].history : h[i] = claims[s].history[j]
    <3>1. claims[s].history \in Seq(Codes)
      BY <1>3, <1>4 DEF StoreTyped
    <3> QED
      BY <1>3, <3>1, KeepLastFacts
  <2> HIDE DEF h
  <2>4. /\ claims'[s].history = h /\ claims'[s].pending = c
        /\ \A u \in Subjects \ {s} : claims'[u] = claims[u]
    BY <1>3, <1>4, <1>6 DEF StoreTyped
  <2>5. StoreTyped'
    BY <1>1, <1>3, <1>4, <1>6, <2>3 DEF StoreTyped
  <2>6. \A q \in Requests \ {r} : req[q].pc = "audit" => index'[req[q].code] = req[q].subject
    BY <1>1 DEF ClaimInv, RequestOK, Settling
  <2>7. RequestOK(new)' /\ new.pc \notin Reserved
    BY <1>1, <1>3, <2>2 DEF RequestOK, Inside, Reserved, Settling
  <2>8. CodesBelong'
    <3>1. ASSUME NEW u \in Subjects, NEW i \in DOMAIN claims'[u].history
          PROVE  index[claims'[u].history[i]] = u
      BY <1>3, <1>4, <2>3, <2>4 DEF CodesBelong, codesOf
    <3> QED
      BY <1>1, <1>4, <3>1 DEF CodesBelong, codesOf
  <2>9. ReceiptsRecorded'
    BY <1>1, <1>4 DEF ReceiptsRecorded, Recorded
  <2>10. OpenIsPending'
    <3> SUFFICES ASSUME ~env.cof, NEW u \in Subjects, NEW i \in DOMAIN claims'[u].history
                 PROVE  (Confirmed(claims[u].history[i]) \/ claims[u].history[i] = claims[u].pending)'
      BY <1>1 DEF OpenIsPending
    <3>1. CASE u # s
      BY <1>1, <1>4, <2>4, <3>1 DEF OpenIsPending, Confirmed
    <3>2. CASE u = s
      <4>1. CASE h[i] = c
        BY <2>4, <3>2, <4>1
      <4>2. CASE \E j \in DOMAIN claims[s].history : h[i] = claims[s].history[j]
        <5>1. PICK j \in DOMAIN claims[s].history : h[i] = claims[s].history[j]
          BY <4>2
        <5>2. claims[s].history[j] # None
          BY <2>3, ClaimFlowAssumption
        <5>3. Confirmed(claims[s].history[j])
          BY <1>3, <1>4, <5>2 DEF OpenIsPending
        <5> QED
          BY <1>1, <2>4, <3>2, <5>1, <5>3 DEF Confirmed
      <4> QED
        BY <2>3, <2>4, <3>2, <4>1, <4>2
    <3> QED
      BY <3>1, <3>2
  <2>11. PendingAttended'
    <3>1. req'[r] = new /\ \A q \in Requests : q # r => req'[q] = req[q]
      BY <2>2 DEF ClaimInv, Becomes
    <3> SUFFICES ASSUME NEW u \in Subjects, claims'[u].pending # None
                 PROVE  \/ byCode'[claims'[u].pending] # None
                        \/ \E q \in Requests : req'[q].code = claims'[u].pending /\ Attends(req'[q])
      BY DEF PendingAttended, Attends
    <3>2. CASE u = s
      BY <2>2, <2>4, <3>1, <3>2 DEF Attends
    <3>3. CASE u # s
      BY <1>1, <1>2, <1>4, <2>4, <3>1, <3>3 DEF PendingAttended
    <3> QED
      BY <3>2, <3>3
  <2> QED
    BY <1>1, <1>2, <2>2, <2>5, <2>6, <2>7, <2>8, <2>9, <2>10, <2>11, StepInv
<1> QED
  BY <1>1, <1>5, <1>6

(* The code goes back to the pool: nobody uses it.                         *)
LEMMA StepRelease ==
  ASSUME ClaimInv, NEW r \in Requests, releaseReservedConfirmationCode(r) PROVE ClaimInv'
<1> DEFINE c == req[r].code
<1>1. /\ at(r, "release") /\ UNCHANGED <<env, clock, claims, byCode, bySubject, audit, lastHash>>
      /\ index' = IF index[c] = req[r].subject THEN [index EXCEPT ![c] = None] ELSE index
      /\ reply(r, "error", [req[r] EXCEPT !.code = None])
  BY DEF releaseReservedConfirmationCode, auditLog
<1>2. /\ req[r] \in Request /\ req[r].pc = "release" /\ MayRun(r) /\ RequestOK(req[r])
      /\ ~Attends(req[r]) /\ Unused(c)
  BY <1>1, AtFacts DEF Inside, ClaimInv, Reserved
<1>3. c \in Codes /\ StoreTyped /\ CodesBelong
  BY <1>2 DEF RequestOK, Reserved, ClaimInv
<1>4. [req[r] EXCEPT !.code = None] \in Request /\ "error" \in Replies
  BY <1>2 DEF Request, Replies
<1>5. PICK new \in Request : Becomes(r, new) /\ new.pc = "answer"
  BY <1>1, <1>4, ReplyFacts DEF answered
<1>6. \A d \in Codes : d # c => index'[d] = index[d]
  BY <1>1, <1>3 DEF StoreTyped
<1>7. StoreTyped'
  BY <1>1, <1>3 DEF StoreTyped
<1>8. \A q \in Requests \ {r} : req[q].pc = "audit" => index'[req[q].code] = req[q].subject
  BY <1>2, <1>6 DEF ClaimInv, RequestOK, Settling, Unused
<1>9. RequestOK(new)' /\ new.pc \notin Reserved
  BY <1>5 DEF RequestOK, Inside, Reserved, Settling
<1>10. CodesBelong'
  <2>1. \A s \in Subjects : \A i \in DOMAIN claims[s].history : claims[s].history[i] \in Codes
    BY <1>3 DEF StoreTyped
  <2>2. \A i \in DOMAIN audit : audit[i].code \in Codes \union {None}
    BY <1>3 DEF StoreTyped, Entry
  <2> QED
    BY <1>1, <1>2, <1>3, <1>6, <2>1, <2>2 DEF CodesBelong, codesOf, Unused
<1>11. ReceiptsRecorded' /\ OpenIsPending'
  BY <1>1 DEF ClaimInv, ReceiptsRecorded, OpenIsPending, Recorded, Confirmed
<1>12. PendingAttended'
  BY <1>1, <1>2, <1>5, PendingStep
<1> QED
  BY <1>1, <1>2, <1>5, <1>7, <1>8, <1>9, <1>10, <1>11, <1>12, StepInv

(* While it settles its code is already indexed.                           *)
LEMMA AlreadyIndexed ==
  ASSUME ClaimInv, NEW r \in Requests, req[r].pc \in {"ensure", "store_code"}
  PROVE  indexed(r) = index
<1>1. req[r].code \in Codes /\ index[req[r].code] = req[r].subject /\ req[r].subject \in Subjects
  BY DEF ClaimInv, RequestOK, Settling, Inside
<1> QED
  BY <1>1, ClaimFlowAssumption DEF indexed

LEMMA StepEnsure ==
  ASSUME ClaimInv, NEW r \in Requests, ensureConfirmationCodeIndexed(r) PROVE ClaimInv'
<1>1. /\ at(r, "ensure") /\ goto(r, "audit", req[r]) /\ index' = indexed(r)
      /\ UNCHANGED <<env, clock, claims, byCode, bySubject, audit, lastHash>>
  BY DEF ensureConfirmationCodeIndexed, auditLog
<1>2. /\ req[r] \in Request /\ req[r].pc = "ensure" /\ MayRun(r) /\ RequestOK(req[r])
      /\ req[r].reply = "none"
  BY <1>1, AtFacts DEF Inside
<1>3. index' = index
  BY <1>1, <1>2, AlreadyIndexed
<1>4. "audit" \in PCs /\ "audit" \notin Reserved
  BY DEF PCs, Working, Outside, Appending, Reserved
<1>5. RequestOK(at_pc(req[r], "audit")) /\ Attends(at_pc(req[r], "audit"))
  BY <1>2 DEF RequestOK, at_pc, Inside, Reserved, Settling, Attends
<1>6. ClaimsKept /\ bySubject' \in [Subjects -> Receipt \union {None}]
  BY <1>1, NothingStored
<1> QED
  BY <1>1, <1>2, <1>3, <1>4, <1>5, <1>6, GoStep

LEMMA StepAuditClaim == ASSUME ClaimInv, NEW r \in Requests, auditClaim(r) PROVE ClaimInv'
<1> DEFINE next == IF req[r].tx = None \/ req[r].backfill THEN "store_code" ELSE "resolve"
           x == [req[r] EXCEPT !.entry = Len(audit) + 1]
<1>1. /\ at(r, "audit") /\ UNCHANGED <<env, clock, index, claims, byCode, bySubject>>
      /\ \/ reply(r, "500", req[r]) /\ UNCHANGED <<audit, lastHash>>
         \/ /\ append("event", req[r].subject, req[r].code, req[r].tx)
            /\ goto(r, next, x)
  BY DEF auditClaim, auditLog, stored
<1>2. /\ req[r] \in Request /\ req[r].pc = "audit" /\ MayRun(r) /\ RequestOK(req[r])
      /\ req[r].reply = "none"
  BY <1>1, AtFacts
<1>3. /\ req[r].subject \in Subjects /\ req[r].code \in Codes /\ index[req[r].code] = req[r].subject
      /\ req[r].tx \in Txs \union {None}
  BY <1>2 DEF RequestOK, Settling, Request
<1>4. StoreTyped /\ CodesBelong /\ ReceiptsRecorded /\ OpenIsPending
  BY DEF ClaimInv
<1>5. CASE reply(r, "500", req[r]) /\ UNCHANGED <<audit, lastHash>>
  <2>1. ClaimsKept /\ bySubject' \in [Subjects -> Receipt \union {None}]
    BY <1>1, NothingStored
  <2>2. AuditQuiet /\ "500" \in Replies
    BY <1>4, <1>5, UnchangedAudit DEF Replies
  <2> QED
    BY <1>1, <1>2, <1>5, <2>1, <2>2, ReplyStep
<1>6. CASE append("event", req[r].subject, req[r].code, req[r].tx) /\ goto(r, next, x)
  <2>1. Len(audit) + 1 \in Nat /\ next \in PCs /\ next \in {"store_code", "resolve"}
    BY <1>4 DEF StoreTyped, PCs, Working, Inside
  <2>2. /\ x \in Request /\ x.code = req[r].code /\ x.subject = req[r].subject /\ x.tx = req[r].tx
        /\ x.reply = "none" /\ x.entry = Len(audit) + 1
    BY <1>2, <2>1 DEF Request
  <2>3. next = "resolve" => req[r].tx # None
    OBVIOUS
  <2>9. Attends(req[r]) => next = "store_code" /\ req[r].tx = None
    BY <1>2 DEF Attends
  <2> HIDE DEF next, x
  <2>4. PICK new \in Request : /\ Becomes(r, new) /\ new.pc = next /\ new.code = req[r].code
                               /\ new.subject = req[r].subject /\ new.tx = req[r].tx
                               /\ new.reply = "none" /\ new.entry = Len(audit) + 1
    BY <1>6, <2>1, <2>2, GotoFacts DEF at_pc
  <2>5. /\ AuditKept /\ Len(audit) + 1 \in DOMAIN audit'
        /\ audit'[Len(audit) + 1].subject = req[r].subject
        /\ audit'[Len(audit) + 1].code = req[r].code
        /\ audit'[Len(audit) + 1].tx = req[r].tx
        /\ \A i \in DOMAIN audit' : i \in DOMAIN audit \/ i = Len(audit) + 1
    <3>1. req[r].code # None => req[r].subject # None
      BY <1>3, ClaimFlowAssumption
    <3> QED
      BY <1>3, <1>4, <1>6, <3>1, AppendAudit DEF Streams
  <2>6. StoreTyped'
    BY <1>1, <1>4, <2>5 DEF StoreTyped, AuditKept
  <2>7. \A q \in Requests \ {r} : req[q].pc = "audit" => index'[req[q].code] = req[q].subject
    BY <1>1 DEF ClaimInv, RequestOK, Settling
  <2>8. RequestOK(new)' /\ new.pc \notin Reserved
    <3>1. Recorded(new.entry, new.code)'
      BY <2>4, <2>5 DEF Recorded
    <3>2. new.tx # None => Confirmed(new.code)'
      BY <2>4, <2>5 DEF Confirmed
    <3> QED
      BY <1>1, <1>3, <2>1, <2>3, <2>4, <3>1, <3>2 DEF RequestOK, Inside, Reserved, Settling
  <2>10. CodesBelong'
    <3>1. \A i \in DOMAIN audit' : audit'[i].code # None => index[audit'[i].code] = audit'[i].subject
      BY <1>3, <1>4, <2>5 DEF CodesBelong, AuditKept
    <3> QED
      BY <1>1, <1>4, <3>1 DEF CodesBelong, codesOf
  <2>11. ReceiptsRecorded'
    BY <1>1, <1>4, <2>5 DEF ReceiptsRecorded, Recorded, AuditKept
  <2>12. OpenIsPending'
    BY <1>1, <1>4, <2>5 DEF OpenIsPending, Confirmed, AuditKept
  <2>13. PendingAttended'
    <3>1. Attends(req[r]) => Attends(new) /\ new.code = req[r].code
      BY <2>4, <2>9 DEF Attends
    <3> QED
      BY <1>1, <2>4, <3>1, PendingStep
  <2> QED
    BY <1>1, <1>2, <2>4, <2>6, <2>7, <2>8, <2>10, <2>11, <2>12, <2>13, StepInv
<1> QED
  BY <1>1, <1>5, <1>6

LEMMA StepStoreByCode == ASSUME ClaimInv, NEW r \in Requests, storeReceiptByCode(r) PROVE ClaimInv'
<1> DEFINE c == req[r].code
<1>1. /\ at(r, "store_code") /\ goto(r, "store_subject", req[r]) /\ index' = indexed(r)
      /\ byCode' = [byCode EXCEPT ![c] = ticketReceipt(r)]
      /\ UNCHANGED <<env, clock, claims, bySubject, audit, lastHash>>
  BY DEF storeReceiptByCode, auditLog
<1>2. /\ req[r] \in Request /\ req[r].pc = "store_code" /\ MayRun(r) /\ RequestOK(req[r])
      /\ req[r].reply = "none" /\ index' = index
  BY <1>1, AtFacts, AlreadyIndexed DEF Inside
<1>3. /\ req[r].subject \in Subjects /\ c \in Codes /\ index[c] = req[r].subject
      /\ Recorded(req[r].entry, c) /\ req[r].entry \in Nat
      /\ req[r].tx # None => Confirmed(c)
  BY <1>2 DEF RequestOK, Settling, Inside, Request
<1>4. StoreTyped /\ CodesBelong /\ ReceiptsRecorded /\ OpenIsPending
  BY DEF ClaimInv
<1>5. /\ ticketReceipt(r) \in Receipt /\ ticketReceipt(r).code = c
      /\ ticketReceipt(r).subject = req[r].subject /\ ticketReceipt(r).entry = req[r].entry
  BY <1>3 DEF ticketReceipt, Receipt
<1>6. ticketReceipt(r) # None
  BY <1>5, ClaimFlowAssumption DEF Receipt
<1>7. byCode'[c] = ticketReceipt(r) /\ \A d \in Codes : d # c => byCode'[d] = byCode[d]
  BY <1>1, <1>3, <1>4 DEF StoreTyped
<1>8. "store_subject" \in PCs
  BY DEF PCs, Working, Inside
<1>9. PICK new \in Request : /\ Becomes(r, new) /\ new.pc = "store_subject" /\ new.code = c
                             /\ new.subject = req[r].subject /\ new.tx = req[r].tx
                             /\ new.reply = "none" /\ new.entry = req[r].entry
  BY <1>1, <1>2, <1>8, GotoFacts DEF at_pc
<1>10. StoreTyped'
  BY <1>1, <1>2, <1>3, <1>4, <1>5 DEF StoreTyped
<1>11. \A q \in Requests \ {r} : req[q].pc = "audit" => index'[req[q].code] = req[q].subject
  BY <1>2 DEF ClaimInv, RequestOK, Settling
<1>12. RequestOK(new)' /\ new.pc \notin Reserved
  BY <1>1, <1>2, <1>3, <1>9 DEF RequestOK, Inside, Reserved, Settling, Recorded, Confirmed
<1>13. CodesBelong'
  BY <1>1, <1>2, <1>3, <1>4, <1>5, <1>7 DEF CodesBelong, codesOf
<1>14. ReceiptsRecorded'
  BY <1>1, <1>3, <1>4, <1>5, <1>7 DEF ReceiptsRecorded, Recorded
<1>15. OpenIsPending'
  BY <1>1, <1>4 DEF OpenIsPending, Confirmed
<1>16. PendingAttended'
  <2>1. c # None
    BY <1>3, ClaimFlowAssumption
  <2>2. \A d \in Codes : byCode[d] # None => byCode'[d] # None
    BY <1>6, <1>7
  <2> QED
    BY <1>1, <1>6, <1>7, <1>9, <2>1, <2>2, PendingStep
<1> QED
  BY <1>1, <1>2, <1>9, <1>10, <1>11, <1>12, <1>13, <1>14, <1>15, <1>16, StepInv

LEMMA StepStoreBySubject ==
  ASSUME ClaimInv, NEW r \in Requests, storeReceiptBySubject(r) PROVE ClaimInv'
<1>1. /\ at(r, "store_subject") /\ UNCHANGED <<env, clock, claims, index, byCode, audit, lastHash>>
      /\ bySubject' = [bySubject EXCEPT ![req[r].subject] = ticketReceipt(r)]
      /\ IF req[r].tx = None THEN reply(r, "created", req[r]) ELSE goto(r, "resolve", req[r])
  BY DEF storeReceiptBySubject, auditLog
<1>2. /\ req[r] \in Request /\ req[r].pc = "store_subject" /\ MayRun(r) /\ RequestOK(req[r])
      /\ req[r].reply = "none" /\ ~Attends(req[r])
  BY <1>1, AtFacts DEF Inside
<1>3. /\ req[r].subject \in Subjects /\ req[r].code \in Codes
      /\ index[req[r].code] = req[r].subject /\ req[r].entry \in Nat
      /\ req[r].tx # None => Confirmed(req[r].code)
  BY <1>2 DEF RequestOK, Settling, Inside, Request
<1>4. ticketReceipt(r) \in Receipt
  BY <1>3 DEF ticketReceipt, Receipt
<1>5. bySubject' \in [Subjects -> Receipt \union {None}]
  BY <1>1, <1>4 DEF ClaimInv, StoreTyped
<1>6. ClaimsKept /\ AuditQuiet
  BY <1>1, UnchangedAudit DEF ClaimInv, StoreTyped, ClaimsKept
<1>7. CASE reply(r, "created", req[r])
  <2>1. "created" \in Replies
    BY DEF Replies
  <2> QED
    BY <1>1, <1>2, <1>5, <1>6, <1>7, <2>1, ReplyStep
<1>8. CASE req[r].tx # None /\ goto(r, "resolve", req[r])
  <2>1. "resolve" \in PCs /\ "resolve" \notin Reserved
    BY DEF PCs, Working, Inside, Reserved
  <2>2. RequestOK(at_pc(req[r], "resolve"))
    BY <1>2, <1>3, <1>8 DEF RequestOK, at_pc, Inside, Reserved, Settling
  <2> QED
    BY <1>1, <1>2, <1>5, <1>6, <1>8, <2>1, <2>2, GoStep
<1> QED
  BY <1>1, <1>7, <1>8

(* A lost request attends its code for good: nobody will store its receipt. *)
LEMMA StepCrash == ASSUME ClaimInv, ChainInv, Crash PROVE ClaimInv'
<1>1. /\ UNCHANGED <<env, clock, claims, index, byCode, bySubject, audit>> /\ gate' = None
      /\ lastHash' \in [Chains -> Int]
      /\ req' = [r \in Requests |-> IF req[r].pc \in Working THEN [req[r] EXCEPT !.pc = "lost"]
                                    ELSE req[r]]
  <2>1. lastHash \in [Chains -> Int] /\ crashes \in Nat /\ crashes' = crashes + 1
    BY DEF Crash, ClaimInv, StoreTyped, ChainInv
  <2>2. -crashes' \in Int
    BY <2>1
  <2> QED
    BY <2>1, <2>2 DEF Crash, stored
<1>2. req \in [Requests -> Request] /\ StoreTyped /\ CodesBelong /\ PendingAttended
  BY DEF ClaimInv
<1>3. ASSUME NEW q \in Requests
      PROVE  /\ req'[q] \in Request /\ req'[q].pc \in {"idle", "done", "lost"}
             /\ req'[q].code = req[q].code /\ RequestOK(req[q])'
             /\ Attends(req[q]) => Attends(req[q])'
  <2>1. CASE req[q].pc \in Working
    <3>1. /\ req'[q] = [req[q] EXCEPT !.pc = "lost"] /\ req'[q] \in Request
          /\ req'[q].pc = "lost" /\ req'[q].code = req[q].code
      BY <1>1, <1>2, <2>1 DEF Request, PCs
    <3> QED
      BY <3>1 DEF RequestOK, Inside, Reserved, Settling, Attends
  <2>2. CASE req[q].pc \notin Working
    <3>1. /\ req'[q] = req[q] /\ req[q] \in Request /\ req[q].pc \in {"idle", "done", "lost"}
      BY <1>1, <1>2, <2>2 DEF Request, PCs
    <3>2. RequestOK(req[q])
      BY DEF ClaimInv
    <3> QED
      BY <1>1, <3>1, <3>2 DEF RequestOK, Inside, Reserved, Settling, Attends
  <2> QED
    BY <2>1, <2>2
<1>4. req' \in [Requests -> Request]
  BY <1>1, <1>3
<1>5. StoreTyped'
  BY <1>1, <1>2 DEF StoreTyped
<1>6. \A r \in Requests : req'[r].pc \notin Inside /\ req'[r].pc \notin Reserved
  BY <1>3 DEF Inside, Reserved
<1>7. CodesBelong' /\ ReceiptsRecorded' /\ OpenIsPending'
  BY <1>1 DEF ClaimInv, CodesBelong, codesOf, ReceiptsRecorded, OpenIsPending, Recorded, Confirmed
<1>8. PendingAttended'
  <2> SUFFICES ASSUME NEW s \in Subjects, claims[s].pending # None, byCode[claims[s].pending] = None
               PROVE  \E q \in Requests : req'[q].code = claims[s].pending /\ Attends(req[q])'
    BY <1>1 DEF PendingAttended
  <2>1. PICK q \in Requests : req[q].code = claims[s].pending /\ Attends(req[q])
    BY <1>2 DEF PendingAttended
  <2> QED
    BY <1>3, <2>1
<1> QED
  BY <1>1, <1>3, <1>4, <1>5, <1>6, <1>7, <1>8 DEF ClaimInv

LEMMA StepTick == ASSUME ClaimInv, Tick PROVE ClaimInv'
<1>1. /\ UNCHANGED <<env, claims, index, byCode, bySubject, audit, lastHash, gate, req>>
      /\ clock' = clock + 1
  BY DEF Tick, stored, auditLog
<1> QED
  BY <1>1 DEF ClaimInv, StoreTyped, RequestOK, Unused, CodesBelong, codesOf, ReceiptsRecorded,
              PendingAttended, OpenIsPending, Recorded, Confirmed, Attends

LEMMA StepStutter == ASSUME ClaimInv, UNCHANGED vars PROVE ClaimInv'
BY DEF vars, stored, auditLog, ClaimInv, StoreTyped, RequestOK, Unused, CodesBelong, codesOf,
       ReceiptsRecorded, PendingAttended, OpenIsPending, Recorded, Confirmed, Attends

LEMMA InitClaimInv == ASSUME Init PROVE ClaimInv
<1>1. Idle \in Request /\ RequestOK(Idle) /\ Idle.pc \notin Inside /\ Idle.pc \notin Reserved
  BY DEF Idle, Request, PCs, Replies, Streams, RequestOK, Inside, Reserved, Settling
<1>2. StoreTyped
  <2>1. noClaims \in [history : Seq(Codes), pending : Codes \union {None}]
    BY DEF noClaims
  <2>2. audit \in Seq(Entry) /\ lastHash \in [Chains -> Int] /\ clock \in Nat \ {0}
    <3>1. audit = <<>> /\ lastHash = [k \in Chains |-> 0] /\ clock = 1
      BY DEF Init, GENESIS
    <3>2. <<>> \in Seq(Entry)
      BY EmptySeq
    <3>3. lastHash \in [Chains -> Int]
      BY <3>1
    <3> QED
      BY <3>1, <3>2, <3>3
  <2>3. claims \in [Subjects -> [history : Seq(Codes), pending : Codes \union {None}]]
    BY <2>1 DEF Init
  <2>4. /\ index \in [Codes -> Subjects \union {None}]
        /\ byCode \in [Codes -> Receipt \union {None}]
        /\ bySubject \in [Subjects -> Receipt \union {None}]
    BY DEF Init
  <2> QED
    BY <2>2, <2>3, <2>4 DEF StoreTyped
<1>3. \A r \in Requests : req[r] = Idle
  BY DEF Init
<1>4. CodesBelong /\ ReceiptsRecorded /\ PendingAttended /\ OpenIsPending
  BY DEF Init, CodesBelong, codesOf, ReceiptsRecorded, PendingAttended, OpenIsPending, noClaims
<1> QED
  BY <1>1, <1>2, <1>3, <1>4 DEF ClaimInv, Init

-----------------------------------------------------------------------------
(* The log.                                                                *)
LogStays == audit' = audit /\ lastHash' = lastHash

(* A new entry of stream k.                                                *)
GrowsIn(k) ==
  /\ Len(audit') = Len(audit) + 1 /\ DOMAIN audit' = 1..(Len(audit) + 1)
  /\ \A i \in DOMAIN audit : audit'[i] = audit[i]
  /\ audit'[Len(audit) + 1].stream = k
  /\ audit'[Len(audit) + 1].prev = lastHash["global"]
  /\ audit'[Len(audit) + 1].stream_prev = lastHash[k]
  /\ \A h \in Chains : lastHash'[h] = IF h \in {"global", k} THEN Len(audit) + 1 ELSE lastHash[h]

LogGrows == \E k \in Streams : GrowsIn(k)

(* A crash lost an entry that is the head of the chains put.               *)
HeadIsLost ==
  /\ audit' = audit /\ crashes' = crashes + 1
  /\ \E k \in Streams : \E put \in {{"global"}, {"global", k}} :
       lastHash' = [h \in Chains |-> IF h \in put THEN -crashes' ELSE lastHash[h]]

LEMMA Appends ==
  ASSUME ClaimInv, NEW k \in Streams, NEW s, NEW c, NEW t, append(k, s, c, t)
  PROVE  GrowsIn(k)
<1>1. audit \in Seq(Entry) /\ lastHash \in [Chains -> Int] /\ k \in Chains /\ "global" \in Chains
  BY DEF ClaimInv, StoreTyped, Chains
<1>2. PICK e : /\ audit' = Append(audit, e)
               /\ e.stream = k /\ e.prev = lastHash["global"] /\ e.stream_prev = lastHash[k]
  BY DEF append
<1>3. PICK n \in Nat : n = Len(audit)
  BY <1>1
<1>4. /\ Len(audit') = n + 1 /\ DOMAIN audit' = 1..(n + 1) /\ DOMAIN audit = 1..n
      /\ audit'[n + 1] = e /\ \A i \in DOMAIN audit : audit'[i] = audit[i]
  BY <1>1, <1>2, <1>3
<1>5. \A h \in Chains : lastHash'[h] = IF h \in {"global", k} THEN n + 1 ELSE lastHash[h]
  BY <1>1, <1>3 DEF append
<1> QED
  BY <1>2, <1>3, <1>4, <1>5 DEF GrowsIn

(* A request's step leaves the log alone or appends to it.                 *)
LEMMA RequestLog ==
  ASSUME ClaimInv, NEW r \in Requests, Receive(r) \/ Proceed(r)
  PROVE  (LogStays \/ LogGrows) /\ crashes' = crashes
<1>0. "event" \in Streams /\ req[r].stream \in Streams
  BY DEF ClaimInv, Request, Streams
<1>1. Receive(r) => LogStays /\ crashes' = crashes
  BY DEF Receive, turnAway, refuse, closeEvent, verifyCode, claim, claimWithProof, auditLog, LogStays
<1>2. \/ enforceCostOfForgeryRisk(r) \/ reserveUniqueConfirmationCode(r) \/ addClaim(r)
      \/ releaseReservedConfirmationCode(r) \/ ensureConfirmationCodeIndexed(r)
      \/ storeReceiptByCode(r) \/ storeReceiptBySubject(r) \/ resolveConfirmed(r)
      => LogStays /\ crashes' = crashes
  BY DEF enforceCostOfForgeryRisk, reserveUniqueConfirmationCode, addClaim,
         releaseReservedConfirmationCode, ensureConfirmationCodeIndexed, storeReceiptByCode,
         storeReceiptBySubject, resolveConfirmed, auditLog, LogStays
<1>3. auditClaim(r) \/ auditClose(r) \/ answer(r) =>
        /\ LogStays \/ \E k \in Streams : \E s, c, t : append(k, s, c, t)
        /\ crashes' = crashes
  BY <1>0 DEF auditClaim, auditClose, answer, trail, auditLog, LogStays
<1> QED
  BY <1>1, <1>2, <1>3, Appends DEF Proceed, LogGrows

LEMMA CrashLog ==
  ASSUME ClaimInv, Crash
  PROVE  crashes' = crashes + 1 /\ (LogStays \/ HeadIsLost)
<1>1. \A r \in Requests : appendsTo(r) \in Streams
  BY DEF ClaimInv, Request, appendsTo, Streams
<1>2. audit' = audit /\ crashes' = crashes + 1
  BY DEF Crash
<1>3. \/ lastHash' = lastHash
      \/ \E r \in Requests : \E put \in {{"global"}, {"global", appendsTo(r)}} :
           lastHash' = [h \in Chains |-> IF h \in put THEN -crashes' ELSE lastHash[h]]
  BY DEF Crash
<1> QED
  BY <1>1, <1>2, <1>3 DEF LogStays, HeadIsLost

LEMMA ChainsStay ==
  ASSUME ClaimInv, ChainInv, LogStays, crashes' = crashes \/ crashes' = crashes + 1
  PROVE  ChainInv'
<1>1. crashes \in Nat /\ crashes' \in Nat /\ -crashes' <= -crashes
  BY DEF ChainInv
<1>2. \A e \in DOMAIN audit : LinkOK(e)'
  BY <1>1 DEF ChainInv, LinkOK, LogStays
<1>3. \A k \in Chains : HeadOK(k)'
  <2>1. Len(audit) \in Nat
    BY DEF ClaimInv, StoreTyped
  <2> QED
    BY <1>1, <2>1 DEF ChainInv, HeadOK, LogStays
<1> QED
  BY <1>1, <1>2, <1>3 DEF ChainInv, LostOnce, LogStays

LEMMA ChainsGrow ==
  ASSUME ClaimInv, ChainInv, NEW k \in Streams, GrowsIn(k), crashes' = crashes
  PROVE  ChainInv'
<1>1. PICK n \in Nat : n = Len(audit) /\ DOMAIN audit = 1..n
  BY DEF ClaimInv, StoreTyped
<1>2. /\ DOMAIN audit' = 1..(n + 1) /\ Len(audit') = n + 1
      /\ \A i \in 1..n : audit'[i] = audit[i]
      /\ audit'[n + 1].stream = k /\ audit'[n + 1].prev = lastHash["global"]
      /\ audit'[n + 1].stream_prev = lastHash[k]
      /\ \A h \in Chains : lastHash'[h] = IF h \in {"global", k} THEN n + 1 ELSE lastHash[h]
  BY <1>1 DEF GrowsIn
<1>3. /\ crashes \in Nat /\ "global" \in Chains /\ k \in Chains /\ k # "global"
      /\ \A h \in Streams : h \in Chains
  BY DEF ChainInv, Chains, Streams
<1>4. /\ \A e \in 1..n : LinkOK(e)
      /\ \A h \in Chains : HeadOK(h)
  BY <1>1 DEF ChainInv
<1>5. ASSUME NEW e \in 1..(n + 1) PROVE LinkOK(e)'
  <2>1. CASE e \in 1..n
    <3>1. LinkOK(e) /\ audit'[e] = audit[e]
      BY <1>2, <1>4, <2>1
    <3>2. audit[e].stream_prev > 0 => audit[e].stream_prev \in 1..n
      BY <2>1, <3>1 DEF LinkOK
    <3> QED
      BY <1>2, <3>1, <3>2 DEF LinkOK
  <2>2. CASE e = n + 1
    <3>1. HeadOK("global") /\ HeadOK(k)
      BY <1>3, <1>4
    <3>2. lastHash[k] > 0 => lastHash[k] \in 1..n
      BY <1>1, <3>1 DEF HeadOK
    <3> QED
      BY <1>1, <1>2, <2>2, <3>1, <3>2 DEF LinkOK, HeadOK
  <2> QED
    BY <2>1, <2>2
<1>6. ASSUME NEW h \in Chains PROVE HeadOK(h)'
  <2>1. CASE h \in {"global", k}
    BY <1>2, <1>3, <2>1 DEF HeadOK, Streams
  <2>2. CASE h \notin {"global", k}
    <3>1. HeadOK(h) /\ lastHash'[h] = lastHash[h]
      BY <1>2, <1>4, <2>2
    <3>2. lastHash[h] > 0 => lastHash[h] \in 1..n
      BY <1>1, <3>1 DEF HeadOK
    <3> QED
      BY <1>1, <1>2, <3>1, <3>2 DEF HeadOK
  <2> QED
    BY <2>1, <2>2
<1>7. LostOnce'
  <2>1. /\ lastHash["global"] \in Int /\ lastHash[k] \in Int
        /\ \A e \in 1..n : audit[e].prev \in Int /\ audit[e].stream_prev \in Int
        /\ \A h \in Streams : lastHash[h] \in Int
    BY <1>3, <1>4 DEF HeadOK, LinkOK
  <2>2. /\ \A e, f \in 1..n :
             e # f => /\ audit[e].prev < 0 => audit[e].prev # audit[f].prev
                      /\ audit[e].stream_prev < 0 => audit[e].stream_prev # audit[f].stream_prev
        /\ \A e \in 1..n : audit[e].prev < 0 => audit[e].prev # lastHash["global"]
        /\ \A e \in 1..n : \A h \in Streams :
             audit[e].stream_prev < 0 => audit[e].stream_prev # lastHash[h]
        /\ lastHash["event"] < 0 => lastHash["event"] # lastHash["system"]
    BY <1>1 DEF ChainInv, LostOnce
  <2>3. ASSUME NEW e \in 1..(n + 1), NEW f \in 1..(n + 1), e # f
        PROVE  /\ audit'[e].prev < 0 => audit'[e].prev # audit'[f].prev
               /\ audit'[e].stream_prev < 0 => audit'[e].stream_prev # audit'[f].stream_prev
    <3>1. CASE e \in 1..n /\ f \in 1..n
      BY <1>2, <2>2, <2>3, <3>1
    <3>2. CASE e = n + 1 /\ f \in 1..n
      <4>1. audit'[f] = audit[f]
        BY <1>2, <3>2
      <4> QED
        BY <1>2, <2>1, <2>2, <3>2, <4>1
    <3>3. CASE f = n + 1 /\ e \in 1..n
      <4>1. audit'[e] = audit[e]
        BY <1>2, <3>3
      <4> QED
        BY <1>2, <2>1, <2>2, <3>3, <4>1
    <3> QED
      BY <2>3, <3>1, <3>2, <3>3
  <2>4. lastHash'["global"] = n + 1 /\ lastHash'[k] = n + 1
    BY <1>2, <1>3
  <2>5. \A h \in Streams : lastHash'[h] = n + 1 \/ (h # k /\ lastHash'[h] = lastHash[h])
    BY <1>2, <1>3, <2>4
  <2>6. ASSUME NEW e \in 1..(n + 1), NEW h \in Streams
        PROVE  /\ audit'[e].prev < 0 => audit'[e].prev # lastHash'["global"]
               /\ audit'[e].stream_prev < 0 => audit'[e].stream_prev # lastHash'[h]
    <3>1. CASE e \in 1..n
      <4>1. audit'[e] = audit[e]
        BY <1>2, <3>1
      <4> QED
        BY <2>1, <2>2, <2>4, <2>5, <3>1, <4>1
    <3>2. CASE e = n + 1
      <4>1. audit'[e].prev < 0 => audit'[e].prev # lastHash'["global"]
        BY <1>2, <2>1, <2>4, <3>2
      <4>2. h # k /\ lastHash[k] < 0 => lastHash[k] # lastHash[h]
        BY <2>2 DEF Streams
      <4> QED
        BY <1>2, <2>1, <2>5, <3>2, <4>1, <4>2
    <3> QED
      BY <3>1, <3>2
  <2>7. lastHash'["event"] < 0 => lastHash'["event"] # lastHash'["system"]
    BY <2>2, <2>5 DEF Streams
  <2> QED
    BY <1>2, <2>3, <2>6, <2>7 DEF LostOnce
<1> QED
  BY <1>2, <1>3, <1>5, <1>6, <1>7 DEF ChainInv

LEMMA ChainsLose == ASSUME ClaimInv, ChainInv, HeadIsLost PROVE ChainInv'
<1>1. PICK c \in Nat : c = crashes /\ audit' = audit /\ crashes' = c + 1
  BY DEF HeadIsLost, ChainInv
<1>2. PICK k \in Streams : \E put \in {{"global"}, {"global", k}} :
        lastHash' = [h \in Chains |-> IF h \in put THEN -crashes' ELSE lastHash[h]]
  BY DEF HeadIsLost
<1>3. PICK put \in {{"global"}, {"global", k}} :
        lastHash' = [h \in Chains |-> IF h \in put THEN -crashes' ELSE lastHash[h]]
  BY <1>2
<1>4. PICK lost \in Int : lost = -crashes' /\ lost < -c /\ lost < 0 /\ lost = -(c + 1)
  BY <1>1
<1>5. \A h \in Chains : lastHash'[h] = IF h \in put THEN lost ELSE lastHash[h]
  BY <1>3, <1>4
<1>6. Len(audit) \in Nat /\ \A h \in Chains : HeadOK(h)
  BY DEF ClaimInv, StoreTyped, ChainInv
<1>7. \A h \in Chains : HeadOK(h)'
  <2> SUFFICES ASSUME NEW h \in Chains PROVE HeadOK(h)'
    OBVIOUS
  <2>1. CASE h \in put
    BY <1>1, <1>4, <1>5, <1>6, <2>1 DEF HeadOK
  <2>2. CASE h \notin put
    BY <1>1, <1>4, <1>5, <1>6, <2>2 DEF HeadOK
  <2> QED
    BY <2>1, <2>2
<1>8. \A e \in DOMAIN audit : LinkOK(e) /\ LinkOK(e)'
  <2>1. \A e \in DOMAIN audit : e \in Nat
    BY DEF ClaimInv, StoreTyped
  <2> QED
    BY <1>1, <2>1 DEF ChainInv, LinkOK
<1>9. LostOnce'
  <2>1. \A e \in DOMAIN audit : lost # audit[e].prev /\ lost # audit[e].stream_prev
    BY <1>1, <1>4, <1>8 DEF LinkOK
  <2>2. "global" \in put /\ "global" \in Chains /\ \A h \in Streams : h \in Chains
    BY <1>3 DEF Chains
  <2>3. /\ lastHash["event"] # lost /\ lastHash["system"] # lost
    BY <1>1, <1>4, <1>6, <2>2 DEF HeadOK, Streams
  <2>4. \A e \in DOMAIN audit : audit[e].prev < 0 => audit[e].prev # lastHash'["global"]
    BY <1>5, <2>1, <2>2
  <2>5. \A e \in DOMAIN audit : \A h \in Streams :
          audit[e].stream_prev < 0 => audit[e].stream_prev # lastHash'[h]
    BY <1>5, <2>1, <2>2 DEF ChainInv, LostOnce
  <2>6. lastHash'["event"] < 0 => lastHash'["event"] # lastHash'["system"]
    <3>1. put = {"global"} \/ put = {"global", "event"} \/ put = {"global", "system"}
      BY <1>3 DEF Streams
    <3>2. "event" \in Chains /\ "system" \in Chains
      BY DEF Chains, Streams
    <3>3. /\ lastHash'["event"] = IF "event" \in put THEN lost ELSE lastHash["event"]
          /\ lastHash'["system"] = IF "system" \in put THEN lost ELSE lastHash["system"]
      BY <1>5, <3>2
    <3>4. lastHash["event"] < 0 => lastHash["event"] # lastHash["system"]
      BY DEF ChainInv, LostOnce
    <3> QED
      BY <2>3, <3>1, <3>3, <3>4
  <2> QED
    BY <1>1, <2>4, <2>5, <2>6 DEF ChainInv, LostOnce
<1> QED
  BY <1>1, <1>7, <1>8, <1>9 DEF ChainInv

LEMMA NextChainInv == ASSUME ClaimInv, ChainInv, [Next]_vars PROVE ChainInv'
<1>1. ASSUME NEW r \in Requests, Receive(r) \/ Proceed(r) PROVE ChainInv'
  BY <1>1, RequestLog, ChainsStay, ChainsGrow DEF LogGrows
<1>2. CASE Crash
  BY <1>2, CrashLog, ChainsStay, ChainsLose
<1>3. CASE Tick \/ UNCHANGED vars
  BY <1>3, ChainsStay DEF Tick, vars, auditLog, LogStays
<1> QED
  BY <1>1, <1>2, <1>3 DEF Next

LEMMA InitChainInv == ASSUME Init PROVE ChainInv
<1>1. /\ crashes = 0 /\ audit = <<>> /\ \A k \in Chains : lastHash[k] = 0
      /\ "event" \in Chains /\ DOMAIN audit = {} /\ Len(audit) = 0
  BY DEF Init, GENESIS, Chains, Streams
<1>2. \A k \in Chains : HeadOK(k)
  BY <1>1 DEF HeadOK
<1> QED
  BY <1>1, <1>2 DEF ChainInv, LostOnce

-----------------------------------------------------------------------------
LEMMA NextClaimInv == ASSUME ClaimInv, ChainInv, [Next]_vars PROVE ClaimInv'
<1>1. ASSUME NEW r \in Requests, Receive(r) PROVE ClaimInv'
  BY <1>1, StepTurnAway, StepRefuse, StepCloseEvent, StepVerifyCode, StepClaim, StepClaimWithProof
     DEF Receive
<1>2. ASSUME NEW r \in Requests, Proceed(r) PROVE ClaimInv'
  BY <1>2, StepJudge, StepReserve, StepAddClaim, StepRelease, StepEnsure, StepAuditClaim,
     StepStoreByCode, StepStoreBySubject, StepResolve, StepAuditClose, StepAnswer
     DEF Proceed
<1> QED
  BY <1>1, <1>2, StepCrash, StepTick, StepStutter DEF Next

(* The invariant holds in every state of every behaviour.                  *)
THEOREM ClaimInvariant == Spec => [](ClaimInv /\ ChainInv)
BY InitClaimInv, InitChainInv, NextClaimInv, NextChainInv, PTL DEF Spec

-----------------------------------------------------------------------------
(* What it implies.                                                        *)

(* genConfirmationCode, the index and the release of a reserved code: at   *)
(* every instant, between any two writes and after any crash, the index,   *)
(* the histories, the receipts and the audit entries name one owner for    *)
(* each code.                                                              *)
THEOREM CodesBelongAlways == Spec => []CodesBelong
<1>1. ClaimInv => CodesBelong
  BY DEF ClaimInv
<1> QED
  BY <1>1, ClaimInvariant, PTL

LEMMA BackedNow == ClaimInv /\ ChainInv => TicketBacked
<1> SUFFICES ASSUME ClaimInv, ChainInv, NEW s \in Subjects, NEW c, c = claims[s].pending, c # None
             PROVE  \/ workingOn(c)
                    \/ \E r \in Requests :
                         req[r].code = c /\ (req[r].pc = "lost" \/ req[r].reply \in {"500", "503"})
                    \/ /\ byCode[c] # None
                       /\ \/ verifyParticipationTicketReceipt(byCode[c])
                          \/ receiptMatchesEntry(byCode[c]) /\ followsLost(byCode[c].entry)
  BY DEF TicketBacked, ChainInv, LostOnce
<1>1. c \in Codes /\ CodesBelong /\ ReceiptsRecorded
  BY DEF ClaimInv, StoreTyped
<1>2. CASE byCode[c] # None
  <2>1. Recorded(byCode[c].entry, c) /\ byCode[c].code = c
    BY <1>1, <1>2 DEF CodesBelong, ReceiptsRecorded
  <2>2. PICK e : e = byCode[c].entry
    OBVIOUS
  <2>3. receiptMatchesEntry(byCode[c]) /\ e \in DOMAIN audit
    BY <2>1, <2>2 DEF receiptMatchesEntry, getAuditEntryByHash, Recorded
  <2>4. LinkOK(e) /\ DOMAIN audit = 1..Len(audit) /\ Len(audit) \in Nat
    BY <2>3 DEF ChainInv, ClaimInv, StoreTyped
  <2>5. ~followsLost(e) => chainLinksValid(e)
    BY <2>3, <2>4 DEF LinkOK, followsLost, chainLinksValid, globalChainLinkValid,
                      streamChainLinkValid, getAuditEntryByHash, GENESIS
  <2> QED
    BY <1>2, <2>2, <2>3, <2>5 DEF verifyParticipationTicketReceipt
<1>3. ASSUME NEW q \in Requests, req[q].code = c, Attends(req[q])
      PROVE  \/ workingOn(c)
             \/ \E r \in Requests :
                  req[r].code = c /\ (req[r].pc = "lost" \/ req[r].reply \in {"500", "503"})
  BY <1>3 DEF Attends, workingOn, Working, Outside, Inside, Appending
<1> QED
  BY <1>2, <1>3 DEF ClaimInv, PendingAttended

(* POST /api/events/:id/claim: a pending ticket has a receipt that         *)
(* verifies, or the request that is to store it is still running, was lost *)
(* or answered an audit failure, or its entry follows, in the global chain *)
(* or in the event's, one that a crash lost; a crash spoils at most one    *)
(* entry of each.                                                          *)
THEOREM TicketBackedAlways == Spec => []TicketBacked
BY BackedNow, ClaimInvariant, PTL

LEMMA OneOpenNow == ClaimInv => OneOpenTicketUnjudged
<1> SUFFICES ASSUME ClaimInv, ~env.cof, NEW s \in Subjects
             PROVE  Cardinality({c \in codesOf(s) :
                      ~\E i \in DOMAIN audit : audit[i].code = c /\ audit[i].tx # None}) <= 1
  BY DEF OneOpenTicketUnjudged, OneOpenTicket
<1> DEFINE open == {c \in codesOf(s) :
                      ~\E i \in DOMAIN audit : audit[i].code = c /\ audit[i].tx # None}
<1>1. open \subseteq {claims[s].pending}
  BY DEF ClaimInv, OpenIsPending, Confirmed, codesOf
<1>2. IsFiniteSet({claims[s].pending}) /\ Cardinality({claims[s].pending}) = 1
  BY FS_Singleton
<1> HIDE DEF open
<1>3. Cardinality(open) <= 1
  BY <1>1, <1>2, FS_Subset
<1> QED
  BY <1>3 DEF open

(* claim and addClaim: in a deployment without a cost-of-forgery service   *)
(* nobody gets a second code before the first one is confirmed on chain,   *)
(* for any number of requests and any number of crashes between the        *)
(* writes.                                                                 *)
THEOREM OneOpenTicketAlways == Spec => []OneOpenTicketUnjudged
BY OneOpenNow, ClaimInvariant, PTL

-----------------------------------------------------------------------------
(* The quota.                                                              *)

(* A non-empty set of indices has a largest one.                           *)
LEMMA LargestIndex ==
  ASSUME NEW n \in Nat, NEW T, T \subseteq 1..n, T # {}
  PROVE  \E m \in T : \A j \in T : j <= m
<1> DEFINE D == {n - i : i \in T}
<1>1. D \subseteq Nat /\ D # {}
  <2>1. \A i \in T : i \in 1..n /\ n - i \in Nat
    OBVIOUS
  <2>2. PICK i : i \in T
    OBVIOUS
  <2>3. n - i \in D
    BY <2>2
  <2> QED
    BY <2>1, <2>3
<1>2. PICK d \in D : \A e \in D : ~(<<e, d>> \in OpToRel(<, Nat))
  BY <1>1, NatLessThanWellFounded, WFMin
<1>3. \A e \in D : ~(e < d)
  BY <1>1, <1>2 DEF OpToRel
<1>4. PICK m \in T : d = n - m
  OBVIOUS
<1>5. ASSUME NEW j \in T PROVE j <= m
  <2>1. n - j \in D /\ j \in Int /\ m \in Int
    OBVIOUS
  <2>2. ~(n - j < d)
    BY <1>3, <2>1
  <2> HIDE DEF D
  <2> QED
    BY <1>4, <2>1, <2>2
<1> QED
  BY <1>5

(* The entries are stamped in the order of the log.                        *)
Stamped ==
  /\ \A i \in DOMAIN audit : audit[i].at \in Nat /\ audit[i].at <= clock
  /\ \A i, j \in DOMAIN audit : i <= j => audit[i].at <= audit[j].at

WithinQuota(s) == IsFiniteSet(usedInInterval(s)) /\ Cardinality(usedInInterval(s)) < MaxClaims

(* canClaimNow counts the newest entry of each transaction: while the scan *)
(* reaches the whole log, no transaction of the interval escapes it.       *)
LEMMA QuotaCounts ==
  ASSUME StoreTyped, Stamped, Len(audit) <= ScanLimit, NEW s \in Subjects, canClaimNow(s)
  PROVE  WithinQuota(s)
<1> DEFINE mine == {i \in DOMAIN audit : audit[i].subject = s /\ audit[i].tx # None}
           N == {i \in collectConfirmedOnchainClaims(s) : audit[i].at >= clock - Interval}
           f == [i \in N |-> audit[i].tx]
<1>1. /\ Len(audit) \in Nat /\ DOMAIN audit = 1..Len(audit) /\ ScanLimit \in Nat
      /\ Interval \in Nat /\ clock \in Nat /\ MaxClaims \in Nat
  BY ClaimFlowAssumption DEF StoreTyped
<1>2. collectConfirmedOnchainClaims(s) =
        {i \in mine : \A j \in mine : audit[j].tx = audit[i].tx => j <= i}
  <2>1. \A i \in DOMAIN audit : i > Len(audit) - ScanLimit
    BY <1>1
  <2> QED
    BY <2>1 DEF collectConfirmedOnchainClaims
<1>3. ASSUME NEW t \in usedInInterval(s) PROVE \E i \in N : audit[i].tx = t
  <2>1. PICK k \in mine : audit[k].tx = t /\ audit[k].at >= clock - Interval
    BY <1>3 DEF usedInInterval
  <2> DEFINE T == {j \in mine : audit[j].tx = t}
  <2>2. T \subseteq 1..Len(audit) /\ k \in T
    BY <1>1, <2>1
  <2>3. PICK m \in T : \A j \in T : j <= m
    BY <1>1, <2>2, LargestIndex
  <2>4. m \in collectConfirmedOnchainClaims(s) /\ audit[m].tx = t
    BY <1>2, <2>3
  <2>5. audit[k].at <= audit[m].at /\ audit[k].at \in Nat /\ audit[m].at \in Nat
    BY <2>2, <2>3 DEF Stamped
  <2>6. audit[m].at >= clock - Interval
    BY <1>1, <2>1, <2>5
  <2> QED
    BY <2>4, <2>6
<1>4. \A i \in N : audit[i].tx \in usedInInterval(s)
  BY <1>2 DEF usedInInterval
<1>5. N \subseteq 1..Len(audit)
  BY <1>1, <1>2
<1>6. IsFiniteSet(N) /\ Cardinality(N) \in Nat
  <2>1. IsFiniteSet(1..Len(audit))
    BY <1>1, FS_Interval
  <2> HIDE DEF N
  <2>2. IsFiniteSet(N)
    BY <1>5, <2>1, FS_Subset
  <2> QED
    BY <2>2, FS_CardinalityType
<1>7. f \in Surjection(N, usedInInterval(s))
  BY <1>3, <1>4 DEF Surjection
<1>8. IsFiniteSet(usedInInterval(s)) /\ Cardinality(usedInInterval(s)) <= Cardinality(N)
  BY <1>6, <1>7, FS_Surjection
<1>9. Cardinality(N) < MaxClaims
  BY DEF canClaimNow
<1> QED
  BY <1>1, <1>6, <1>8, <1>9, FS_CardinalityType DEF WithinQuota

(* What the handler read of the policy still holds when it writes.         *)
PolicyInv ==
  /\ Stamped
  /\ ~env.cof => \A r \in Requests :
       req[r].pc \in {"reserve", "add"} => published /\ WithinQuota(req[r].subject)

(* Where a request goes, and what it may do to the log on the way.         *)
Moves(r) ==
  /\ MayRun(r) /\ env' = env /\ clock' = clock
  /\ \A q \in Requests : q # r => req'[q] = req[q]
  /\ \/ audit' = audit
     \/ \E s \in Subjects \union {None}, c \in Codes \union {None}, t \in Txs \union {None} :
          (\E k \in Streams : append(k, s, c, t)) /\ (c # None => s # None)

Elsewhere(r) == req'[r].pc \notin {"reserve", "add"}

LEMMA GotoMoves ==
  ASSUME ClaimInv, NEW r \in Requests, NEW x \in Request, NEW pc, goto(r, pc, x)
  PROVE  /\ req'[r].pc = pc /\ req'[r].subject = x.subject
         /\ \A q \in Requests : q # r => req'[q] = req[q]
BY DEF ClaimInv, goto, Request

LEMMA GotoElsewhere ==
  ASSUME ClaimInv, NEW r \in Requests, NEW x \in Request, NEW pc, goto(r, pc, x),
         pc # "reserve", pc # "add"
  PROVE  Elsewhere(r) /\ \A q \in Requests : q # r => req'[q] = req[q]
BY GotoMoves DEF Elsewhere

LEMMA ReplyMoves ==
  ASSUME ClaimInv, NEW r \in Requests, NEW x \in Request, NEW what, reply(r, what, x)
  PROVE  Elsewhere(r) /\ \A q \in Requests : q # r => req'[q] = req[q]
BY DEF ClaimInv, goto, reply, Request, Elsewhere

LEMMA ReceiveMoves ==
  ASSUME ClaimInv, NEW r \in Requests, Receive(r)
  PROVE  /\ Moves(r)
         /\ Elsewhere(r) \/ (/\ audit' = audit /\ published' = published
                             /\ env.cof \/ (/\ published /\ req'[r].subject \in Subjects
                                            /\ canClaimNow(req'[r].subject)))
<1>0. req[r] \in Request /\ req \in [Requests -> Request]
  BY DEF ClaimInv
<1>1. CASE turnAway(r)
  BY <1>0, <1>1 DEF turnAway, goto, at, Request, Moves, Elsewhere, auditLog
<1>2. CASE refuse(r)
  BY <1>0, <1>2, InStream, ReplyMoves DEF refuse, at, Moves, auditLog
<1>3. CASE closeEvent(r)
  <2>1. goto(r, "audit_close", req[r]) /\ MayRun(r) /\ UNCHANGED <<env, clock, audit>>
    BY <1>3 DEF closeEvent, accepted, at, auditLog
  <2>2. Elsewhere(r) /\ \A q \in Requests : q # r => req'[q] = req[q]
    BY <1>0, <2>1, GotoElsewhere
  <2> QED
    BY <2>1, <2>2 DEF Moves
<1>4. ASSUME NEW c \in Codes, verifyCode(r, c) PROVE Moves(r) /\ Elsewhere(r)
  BY <1>0, <1>4, InStream, ReplyMoves DEF verifyCode, at, Moves, auditLog
<1>5. ASSUME NEW s \in Subjects, claim(r, s)
      PROVE  /\ Moves(r)
             /\ Elsewhere(r) \/ (/\ audit' = audit /\ published' = published
                                 /\ env.cof \/ (/\ published /\ req'[r].subject \in Subjects
                                                /\ canClaimNow(req'[r].subject)))
  <2> DEFINE mine == [req[r] EXCEPT !.subject = s]
  <2>1. mine \in Request /\ mine.subject = s
    BY <1>0 DEF Request
  <2> HIDE DEF mine
  <2>2. UNCHANGED <<env, clock, audit, published>> /\ MayRun(r) /\ published
    BY <1>5 DEF claim, accepted, at, auditLog
  <2>3. CASE reply(r, "already", [mine EXCEPT !.code = heldCode(s)])
    <3>1. req'[r].pc = "answer" /\ \A q \in Requests : q # r => req'[q] = req[q]
      BY <1>0, <2>1, <2>3 DEF reply, goto, Request
    <3> QED
      BY <2>2, <3>1 DEF Moves, Elsewhere
  <2>4. CASE canClaimNow(s) /\ goto(r, IF env.cof THEN "judge" ELSE "reserve", mine)
    <3>1. /\ req'[r].subject = s /\ \A q \in Requests : q # r => req'[q] = req[q]
      BY <2>1, <2>4, GotoMoves
    <3> QED
      BY <2>2, <2>4, <3>1 DEF Moves
  <2> QED
    BY <1>5, <2>3, <2>4 DEF claim, mine
<1>6. ASSUME NEW s \in Subjects, NEW c \in Codes, NEW t \in Txs, claimWithProof(r, s, c, t)
      PROVE  Moves(r) /\ Elsewhere(r)
  <2>1. UNCHANGED <<env, clock, audit>> /\ MayRun(r)
    BY <1>6 DEF claimWithProof, accepted, at, auditLog
  <2>2. \/ reply(r, "error", [req[r] EXCEPT !.subject = s])
        \/ \E b \in BOOLEAN :
             goto(r, "audit", [req[r] EXCEPT !.subject = s, !.code = c, !.tx = t, !.backfill = b])
    BY <1>6 DEF claimWithProof
  <2>3. [req[r] EXCEPT !.subject = s] \in Request
    BY <1>0 DEF Request
  <2>4. \A b \in BOOLEAN :
          [req[r] EXCEPT !.subject = s, !.code = c, !.tx = t, !.backfill = b] \in Request
    BY <1>0 DEF Request
  <2>5. CASE reply(r, "error", [req[r] EXCEPT !.subject = s])
    BY <2>1, <2>3, <2>5, ReplyMoves DEF Moves
  <2>6. ASSUME NEW b \in BOOLEAN,
               goto(r, "audit", [req[r] EXCEPT !.subject = s, !.code = c, !.tx = t, !.backfill = b])
        PROVE  Moves(r) /\ Elsewhere(r)
    <3>1. Elsewhere(r) /\ \A q \in Requests : q # r => req'[q] = req[q]
      BY <2>4, <2>6, GotoElsewhere
    <3> QED
      BY <2>1, <3>1 DEF Moves
  <2> QED
    BY <2>2, <2>5, <2>6
<1> QED
  BY <1>1, <1>2, <1>3, <1>4, <1>5, <1>6 DEF Receive

LEMMA ProceedMoves ==
  ASSUME ClaimInv, NEW r \in Requests, Proceed(r)
  PROVE  /\ Moves(r)
         /\ Elsewhere(r) \/ (/\ audit' = audit /\ published' = published
                             /\ env.cof \/ (/\ req[r].pc \in {"reserve", "add"}
                                            /\ req'[r].subject = req[r].subject))
<1>0. req[r] \in Request /\ req \in [Requests -> Request] /\ RequestOK(req[r])
  BY DEF ClaimInv
<1>1. CASE enforceCostOfForgeryRisk(r)
  <2>1. env.cof /\ UNCHANGED <<env, clock, audit, published>> /\ MayRun(r)
    BY <1>0, <1>1 DEF enforceCostOfForgeryRisk, at, RequestOK, auditLog, stored
  <2> QED
    BY <1>0, <1>1, <2>1, GotoMoves, ReplyMoves DEF enforceCostOfForgeryRisk, Moves
<1>2. CASE reserveUniqueConfirmationCode(r)
  <2>1. UNCHANGED <<env, clock, audit, published>> /\ MayRun(r) /\ req[r].pc = "reserve"
    BY <1>2 DEF reserveUniqueConfirmationCode, at, auditLog
  <2>2. \A c \in Codes : [req[r] EXCEPT !.code = c] \in Request
                         /\ [req[r] EXCEPT !.code = c].subject = req[r].subject
    BY <1>0 DEF Request
  <2> QED
    BY <1>0, <1>2, <2>1, <2>2, GotoMoves, ReplyMoves DEF reserveUniqueConfirmationCode, Moves
<1>3. CASE addClaim(r)
  BY <1>0, <1>3, GotoMoves DEF addClaim, at, Moves, Elsewhere, auditLog
<1>4. CASE releaseReservedConfirmationCode(r)
  <2>1. [req[r] EXCEPT !.code = None] \in Request
    BY <1>0 DEF Request
  <2> QED
    BY <1>4, <2>1, ReplyMoves DEF releaseReservedConfirmationCode, at, Moves, auditLog
<1>5. CASE ensureConfirmationCodeIndexed(r)
  BY <1>0, <1>5, GotoMoves DEF ensureConfirmationCodeIndexed, at, Moves, Elsewhere, auditLog
<1>6. CASE auditClaim(r)
  <2>1. /\ UNCHANGED <<env, clock>> /\ MayRun(r) /\ req[r].pc = "audit"
        /\ \/ reply(r, "500", req[r]) /\ UNCHANGED audit
           \/ /\ append("event", req[r].subject, req[r].code, req[r].tx)
              /\ \E pc \in {"store_code", "resolve"} :
                   goto(r, pc, [req[r] EXCEPT !.entry = Len(audit) + 1])
    BY <1>6 DEF auditClaim, at, auditLog
  <2>2. /\ req[r].subject \in Subjects /\ req[r].subject # None
        /\ req[r].code \in Codes /\ req[r].tx \in Txs \union {None}
    BY <1>0, <2>1, ClaimFlowAssumption DEF RequestOK, Settling, Request
  <2>3. [req[r] EXCEPT !.entry = Len(audit) + 1] \in Request
    <3>1. Len(audit) + 1 \in Nat
      BY DEF ClaimInv, StoreTyped
    <3> QED
      BY <1>0, <3>1 DEF Request
  <2>4. CASE reply(r, "500", req[r]) /\ UNCHANGED audit
    BY <1>0, <2>1, <2>4, ReplyMoves DEF Moves
  <2>5. ASSUME append("event", req[r].subject, req[r].code, req[r].tx),
               NEW pc \in {"store_code", "resolve"},
               goto(r, pc, [req[r] EXCEPT !.entry = Len(audit) + 1])
        PROVE  Moves(r) /\ Elsewhere(r)
    BY <2>1, <2>2, <2>3, <2>5, GotoMoves DEF Moves, Elsewhere, Streams
  <2> QED
    BY <2>1, <2>4, <2>5
<1>7. CASE storeReceiptByCode(r)
  BY <1>0, <1>7, GotoMoves DEF storeReceiptByCode, at, Moves, Elsewhere, auditLog
<1>8. CASE storeReceiptBySubject(r)
  BY <1>0, <1>8, GotoMoves, ReplyMoves DEF storeReceiptBySubject, at, Moves, Elsewhere, auditLog
<1>9. CASE resolveConfirmed(r)
  BY <1>0, <1>9, ReplyMoves DEF resolveConfirmed, at, Moves, auditLog
<1>10. CASE auditClose(r)
  BY <1>0, <1>10, ReplyMoves DEF auditClose, at, Moves, auditLog, Streams
<1>11. CASE answer(r)
  <2>1. [req[r] EXCEPT !.reply = "503"] \in Request
    BY <1>0 DEF Request, Replies
  <2> QED
    <3>1. /\ MayRun(r) /\ UNCHANGED <<env, clock>>
          /\ audit' = audit \/ append(req[r].stream, None, None, None)
          /\ goto(r, "done", req[r]) \/ goto(r, "done", [req[r] EXCEPT !.reply = "503"])
      BY <1>11 DEF answer, trail, at, auditLog
    <3>2. Elsewhere(r) /\ \A q \in Requests : q # r => req'[q] = req[q]
      BY <1>0, <2>1, <3>1, GotoElsewhere
    <3> QED
      BY <1>0, <3>1, <3>2 DEF Moves, Request
<1> QED
  BY <1>1, <1>2, <1>3, <1>4, <1>5, <1>6, <1>7, <1>8, <1>9, <1>10, <1>11 DEF Proceed

LEMMA StampedStep == ASSUME ClaimInv, Stamped, NEW r \in Requests, Moves(r) PROVE Stamped'
<1>1. StoreTyped /\ clock' = clock /\ clock \in Nat
  BY DEF ClaimInv, Moves, StoreTyped
<1>2. CASE audit' = audit
  BY <1>1, <1>2 DEF Stamped
<1>3. ASSUME NEW s \in Subjects \union {None}, NEW c \in Codes \union {None},
             NEW t \in Txs \union {None}, NEW k \in Streams, append(k, s, c, t),
             c # None => s # None
      PROVE  Stamped'
  <2>1. /\ AuditKept /\ Len(audit) + 1 \in DOMAIN audit'
        /\ \A i \in DOMAIN audit' : i \in DOMAIN audit \/ i = Len(audit) + 1
    BY <1>1, <1>3, AppendAudit
  <2>2. audit'[Len(audit) + 1].at = clock
    <3>1. audit \in Seq(Entry)
      BY <1>1 DEF StoreTyped
    <3> QED
      BY <1>3, <3>1 DEF append
  <2>3. \A i \in DOMAIN audit : i \in Nat /\ i <= Len(audit) /\ audit'[i] = audit[i]
    BY <1>1, <2>1 DEF StoreTyped, AuditKept
  <2>4. Len(audit) \in Nat
    BY <1>1 DEF StoreTyped
  <2>5. \A i \in DOMAIN audit' : audit'[i].at \in Nat /\ audit'[i].at <= clock'
    BY <1>1, <2>1, <2>2, <2>3 DEF Stamped
  <2>6. ASSUME NEW i \in DOMAIN audit', NEW j \in DOMAIN audit', i <= j
        PROVE  audit'[i].at <= audit'[j].at
    <3>1. CASE j = Len(audit) + 1
      BY <1>1, <2>2, <2>5, <3>1
    <3>2. CASE j \in DOMAIN audit
      <4>1. i \in DOMAIN audit
        BY <2>1, <2>3, <2>4, <2>6, <3>2
      <4> QED
        BY <2>3, <2>6, <3>2, <4>1 DEF Stamped
    <3> QED
      BY <2>1, <3>1, <3>2
  <2> QED
    BY <2>5, <2>6 DEF Stamped
<1> QED
  BY <1>2, <1>3 DEF Moves

(* As time passes claims leave the interval.                               *)
LEMMA QuotaTick ==
  ASSUME StoreTyped, Stamped, audit' = audit, clock' \in Nat, clock' >= clock,
         NEW s \in Subjects, WithinQuota(s)
  PROVE  WithinQuota(s)'
<1>1. usedInInterval(s)' \subseteq usedInInterval(s)
  <2>1. clock \in Nat /\ Interval \in Nat
    BY ClaimFlowAssumption DEF StoreTyped
  <2>2. \A k \in DOMAIN audit : audit[k].at >= clock' - Interval => audit[k].at >= clock - Interval
    BY <2>1 DEF Stamped
  <2> QED
    BY <2>2 DEF usedInInterval
<1>2. /\ IsFiniteSet(usedInInterval(s)')
      /\ Cardinality(usedInInterval(s)') <= Cardinality(usedInInterval(s))
  BY <1>1, FS_Subset DEF WithinQuota
<1>3. Cardinality(usedInInterval(s)') \in Nat /\ Cardinality(usedInInterval(s)) \in Nat
  BY <1>2, FS_CardinalityType DEF WithinQuota
<1>4. MaxClaims \in Nat
  BY ClaimFlowAssumption
<1> QED
  BY <1>2, <1>3, <1>4 DEF WithinQuota

LEMMA PolicyRequest ==
  ASSUME ClaimInv, PolicyInv, Len(audit) <= ScanLimit,
         NEW r \in Requests, Receive(r) \/ Proceed(r)
  PROVE  PolicyInv'
<1>1. /\ Moves(r)
      /\ Elsewhere(r) \/ (/\ audit' = audit /\ published' = published
                          /\ \/ env.cof
                             \/ /\ published /\ req'[r].subject \in Subjects
                                /\ canClaimNow(req'[r].subject)
                             \/ /\ req[r].pc \in {"reserve", "add"}
                                /\ req'[r].subject = req[r].subject)
  BY ReceiveMoves, ProceedMoves
<1>2. Stamped' /\ Stamped /\ StoreTyped
  BY <1>1, StampedStep DEF PolicyInv, ClaimInv
<1>3. \A q \in Requests \ {r} : req'[q].pc \notin {"reserve", "add"}
  BY <1>1, OthersOutside DEF Moves, Inside
<1>4. ASSUME ~env.cof, ~Elsewhere(r) PROVE published' /\ WithinQuota(req[r].subject)'
  <2>1. published /\ WithinQuota(req'[r].subject) /\ audit' = audit /\ published' = published
    <3>1. CASE published /\ req'[r].subject \in Subjects /\ canClaimNow(req'[r].subject)
      <4>1. PICK s \in Subjects : s = req'[r].subject
        BY <3>1
      <4>2. WithinQuota(s)
        BY <1>2, <3>1, <4>1, QuotaCounts
      <4> QED
        BY <1>1, <1>4, <3>1, <4>1, <4>2
    <3>2. CASE req[r].pc \in {"reserve", "add"} /\ req'[r].subject = req[r].subject
      BY <1>1, <1>4, <3>2 DEF PolicyInv
    <3> QED
      BY <1>1, <1>4, <3>1, <3>2
  <2>2. clock' = clock
    BY <1>1 DEF Moves
  <2> QED
    BY <2>1, <2>2 DEF WithinQuota, usedInInterval
<1>5. env' = env
  BY <1>1 DEF Moves
<1> QED
  BY <1>2, <1>3, <1>4, <1>5 DEF PolicyInv, Elsewhere

LEMMA PolicyStep ==
  ASSUME ClaimInv, PolicyInv, Len(audit) <= ScanLimit, [Next]_vars
  PROVE  PolicyInv'
<1>1. CASE \E r \in Requests : Receive(r) \/ Proceed(r)
  BY <1>1, PolicyRequest
<1>2. CASE Crash
  <2>1. UNCHANGED <<env, clock, audit>> /\ Stamped
    BY <1>2 DEF Crash, PolicyInv
  <2>2. \A r \in Requests : req'[r].pc \notin {"reserve", "add"}
    <3>1. req' = [r \in Requests |-> IF req[r].pc \in Working THEN [req[r] EXCEPT !.pc = "lost"]
                                     ELSE req[r]]
      BY <1>2 DEF Crash
    <3>2. \A r \in Requests : req[r] \in Request
      BY DEF ClaimInv
    <3> QED
      BY <3>1, <3>2 DEF Request, Working, Inside
  <2> QED
    BY <2>1, <2>2 DEF PolicyInv, Stamped
<1>3. CASE Tick
  <2>1. UNCHANGED <<env, published, audit, req>> /\ clock' = clock + 1
    BY <1>3 DEF Tick, stored, auditLog
  <2>2. StoreTyped /\ Stamped /\ clock \in Nat /\ clock' \in Nat /\ clock' >= clock
    BY <2>1 DEF ClaimInv, StoreTyped, PolicyInv
  <2>3. Stamped'
    BY <2>1, <2>2 DEF Stamped
  <2>4. ASSUME ~env.cof, NEW r \in Requests, req[r].pc \in {"reserve", "add"}
        PROVE  published /\ WithinQuota(req[r].subject)'
    <3>1. PICK s \in Subjects : s = req[r].subject
      BY <2>4 DEF ClaimInv, RequestOK, Inside
    <3>2. published /\ WithinQuota(s)
      BY <2>4, <3>1 DEF PolicyInv
    <3>3. WithinQuota(s)'
      BY <2>1, <2>2, <3>2, QuotaTick
    <3> QED
      BY <2>1, <3>1, <3>2, <3>3 DEF WithinQuota, usedInInterval
  <2> QED
    BY <2>1, <2>3, <2>4 DEF PolicyInv
<1>4. CASE UNCHANGED vars
  BY <1>4 DEF vars, stored, auditLog, PolicyInv, Stamped, WithinQuota, usedInInterval
<1> QED
  BY <1>1, <1>2, <1>3, <1>4 DEF Next

LEMMA InitPolicyInv == ASSUME Init PROVE PolicyInv
<1>1. audit = <<>> /\ \A r \in Requests : req[r].pc = "idle"
  BY DEF Init, Idle
<1> QED
  BY <1>1 DEF PolicyInv, Stamped

(* Only addClaim writes a history.                                         *)
LEMMA HistoryWrittenByAdd ==
  ASSUME ClaimInv, NEW r \in Requests, Receive(r) \/ Proceed(r), NEW s \in Subjects,
         claims'[s].history # claims[s].history
  PROVE  req[r].pc = "add" /\ req[r].subject = s
<1>1. claims \in [Subjects -> [history : Seq(Codes), pending : Codes \union {None}]]
  BY DEF ClaimInv, StoreTyped
<1>2. claims' # claims
  OBVIOUS
<1>3. ASSUME NEW u \in Subjects, NEW p, claims' = [claims EXCEPT ![u].pending = p] PROVE FALSE
  BY <1>1, <1>3
<1>4. ~turnAway(r) /\ ~refuse(r) /\ ~closeEvent(r) /\ ~\E c \in Codes : verifyCode(r, c)
  BY <1>2 DEF turnAway, refuse, closeEvent, verifyCode, stored
<1>5. ASSUME NEW u \in Subjects PROVE ~claim(r, u) /\ ~\E c \in Codes, t \in Txs : claimWithProof(r, u, c, t)
  BY <1>3 DEF claim, claimWithProof
<1>6. ~resolveConfirmed(r)
  <2>1. resolveConfirmed(r) => req[r].subject \in Subjects
    BY DEF resolveConfirmed, at, ClaimInv, RequestOK, Inside
  <2> QED
    BY <1>2, <1>3, <2>1 DEF resolveConfirmed, resolvePendingClaim
<1>7. /\ ~enforceCostOfForgeryRisk(r) /\ ~reserveUniqueConfirmationCode(r)
      /\ ~releaseReservedConfirmationCode(r) /\ ~ensureConfirmationCodeIndexed(r)
      /\ ~auditClaim(r) /\ ~storeReceiptByCode(r) /\ ~storeReceiptBySubject(r)
      /\ ~auditClose(r) /\ ~answer(r)
  BY <1>2 DEF enforceCostOfForgeryRisk, reserveUniqueConfirmationCode, stored,
     releaseReservedConfirmationCode, ensureConfirmationCodeIndexed, auditClaim,
     storeReceiptByCode, storeReceiptBySubject, auditClose, answer
<1>8. addClaim(r)
  BY <1>4, <1>5, <1>6, <1>7 DEF Receive, Proceed
<1>9. req[r].pc = "add" /\ claims' # claims =>
        \E h, p : claims' = [claims EXCEPT ![req[r].subject] = [history |-> h, pending |-> p]]
  BY <1>8 DEF addClaim
<1> QED
  BY <1>1, <1>2, <1>8, <1>9 DEF addClaim, at

(* addClaim, against the quota canClaimNow read and the state of the event *)
(* at the start of the request: as long as the audit history is no longer  *)
(* than what collectConfirmedOnchainClaims scans, a code is issued only    *)
(* while the event is published and the subject is below its quota.        *)
THEOREM IssuedWithinQuota == Spec /\ [](Len(audit) <= ScanLimit) => IssuedWithinPolicy
<1>1. ASSUME ClaimInv, PolicyInv, Next, NEW s \in Subjects,
             claims'[s].history # claims[s].history, ~env.cof
      PROVE  published /\ Cardinality(usedInInterval(s)) < MaxClaims
  <2>1. PICK r \in Requests : Receive(r) \/ Proceed(r)
    BY <1>1 DEF Next, Crash, Tick, stored
  <2>2. req[r].pc = "add" /\ req[r].subject = s
    BY <1>1, <2>1, HistoryWrittenByAdd
  <2> QED
    BY <1>1, <2>2 DEF PolicyInv, WithinQuota
<1>2. ClaimInv /\ PolicyInv /\ [Next]_vars =>
        [\A s \in Subjects :
           claims'[s].history # claims[s].history /\ ~env.cof =>
             published /\ Cardinality(usedInInterval(s)) < MaxClaims]_vars
  BY <1>1
<1>3. Init => PolicyInv
  BY InitPolicyInv
<1>4. ClaimInv /\ PolicyInv /\ Len(audit) <= ScanLimit /\ [Next]_vars => PolicyInv'
  BY PolicyStep
<1> QED
  BY <1>2, <1>3, <1>4, ClaimInvariant, PTL DEF Spec, IssuedWithinPolicy

-----------------------------------------------------------------------------
(* MasterSearch.                                                           *)

(* A search and a revocation go on to an answer that is given in any case. *)
LEMMA StepOpen ==
  ASSUME ClaimInv, NEW r \in Requests, NEW what \in Replies, at(r, "idle"),
         goto(r, "answer_open", [req[r] EXCEPT !.stream = "system", !.reply = what]),
         UNCHANGED <<env, clock, stored, auditLog>>
  PROVE  ClaimInv'
<1>1. UNCHANGED <<env, clock, index, byCode, claims, bySubject, audit, lastHash>>
  BY DEF stored, auditLog
<1>2. req[r] \in Request /\ MayRun(r) /\ ~Attends(req[r])
  BY AtFacts
<1>3. PICK x \in Request : x = [req[r] EXCEPT !.stream = "system", !.reply = what]
  BY <1>2 DEF Request, Streams
<1>4. "answer_open" \in PCs
  BY DEF PCs, Working, Outside, Appending
<1>5. Becomes(r, at_pc(x, "answer_open")) /\ at_pc(x, "answer_open") \in Request
  BY <1>3, <1>4, GotoFacts
<1>6. PICK new \in Request : new = at_pc(x, "answer_open")
  BY <1>5
<1>7. new.pc = "answer_open" /\ Becomes(r, new)
  BY <1>5, <1>6 DEF at_pc
<1>8. AuditQuiet
  BY <1>1, UnchangedAudit DEF ClaimInv
<1>9. ClaimsKept /\ bySubject' \in [Subjects -> Receipt \union {None}]
  BY <1>1, NothingStored
<1> QED
  BY <1>1, <1>2, <1>7, <1>8, <1>9, QuietStep

LEMMA StepAnswerOpen == ASSUME ClaimInv, NEW r \in Requests, answerOpen(r) PROVE ClaimInv'
<1>1. /\ at(r, "answer_open") /\ UNCHANGED <<env, clock, index, byCode, claims, bySubject>>
      /\ goto(r, "done", req[r])
      /\ append(req[r].stream, None, None, None) \/ UNCHANGED <<audit, lastHash>>
  BY DEF answerOpen, stored, auditLog, trail
<1>2. req[r] \in Request /\ req[r].pc = "answer_open" /\ MayRun(r)
  BY <1>1, AtFacts
<1>3. Attends(req[r]) => req[r].reply \in {"500", "503"}
  BY <1>2 DEF Attends
<1>4. ClaimsKept /\ bySubject' \in [Subjects -> Receipt \union {None}]
  BY <1>1, NothingStored
<1>5. AuditQuiet
  BY <1>1, <1>2, TrailQuiet, UnchangedAudit DEF ClaimInv, Request
<1> QED
  BY <1>1, <1>2, <1>3, <1>4, <1>5, DoneStep

(* The steps of a search are steps of the claims, or leave them alone.     *)
LEMMA SearchClaimInv == ASSUME ClaimInv, ChainInv, [SearchNext]_searchVars PROVE ClaimInv'
<1>1. ASSUME NEW r \in Requests, revokeCode(r) PROVE ClaimInv'
  BY <1>1, StepOpen DEF revokeCode, Replies
<1>2. ASSUME NEW r \in Requests, NEW o \in Options, search(r, o) PROVE ClaimInv'
  <2>1. /\ at(r, "idle") /\ goto(r, "answer_open", [req[r] EXCEPT !.stream = "system", !.reply = "found"])
        /\ UNCHANGED <<env, clock, stored, auditLog>>
    BY <1>2 DEF search
  <2>2. "found" \in Replies
    BY DEF Replies
  <2> QED
    BY <2>1, <2>2, StepOpen
<1>3. CASE SearchNext
  <2>1. CASE \E r \in Requests : Receive(r) \/ Proceed(r)
    BY <2>1, NextClaimInv DEF Next
  <2> QED
    BY <1>1, <1>2, <1>3, <2>1, StepAnswerOpen, StepCrash, StepTick DEF SearchNext, SearchStep, CrashSearch
<1>4. CASE UNCHANGED searchVars
  <2>1. UNCHANGED vars
    BY <1>4 DEF searchVars
  <2> QED
    BY <2>1, StepStutter
<1> QED
  BY <1>3, <1>4

-----------------------------------------------------------------------------
LEMMA LogSteps ==
  ASSUME ClaimInv, [SearchNext]_searchVars
  PROVE  \/ LogStays /\ (crashes' = crashes \/ crashes' = crashes + 1)
         \/ HeadIsLost
         \/ LogGrows /\ crashes' = crashes
<1>1. ASSUME NEW r \in Requests, answerOpen(r) PROVE (LogStays \/ LogGrows) /\ crashes' = crashes
  <2>1. req[r].stream \in Streams
    BY DEF ClaimInv, Request
  <2> QED
    BY <1>1, <2>1, Appends DEF answerOpen, trail, auditLog, LogStays, LogGrows
<1>2. ASSUME NEW r \in Requests, revokeCode(r) \/ \E o \in Options : search(r, o)
      PROVE  LogStays /\ crashes' = crashes
  BY <1>2 DEF revokeCode, search, auditLog, LogStays
<1>3. Tick => LogStays /\ crashes' = crashes
  BY DEF Tick, auditLog, LogStays
<1>4. UNCHANGED searchVars => LogStays /\ crashes' = crashes
  BY DEF searchVars, vars, auditLog, LogStays
<1> QED
  BY <1>1, <1>2, <1>3, <1>4, RequestLog, CrashLog DEF SearchNext, SearchStep, CrashSearch

LEMMA SearchChainInv == ASSUME ClaimInv, ChainInv, [SearchNext]_searchVars PROVE ChainInv'
BY LogSteps, ChainsStay, ChainsGrow, ChainsLose DEF LogGrows

(* The log was at this key's head, and is there still or never again.      *)
Past(key) == key[1] \in Int /\ -crashes <= key[1] /\ key[1] <= Len(audit)

LEMMA PastKept ==
  ASSUME ClaimInv, ChainInv, [SearchNext]_searchVars
  PROVE  /\ auditHead' = auditHead <=> LogStays
         /\ \A key : Past(key) => Past(key)'
         /\ ~LogStays => \A key : Past(key) => key[1] # auditHead'
<1>1. /\ Len(audit) \in Nat /\ crashes \in Nat /\ "global" \in Chains
      /\ auditHead \in Int /\ -crashes <= auditHead /\ auditHead <= Len(audit)
  BY DEF ClaimInv, StoreTyped, ChainInv, HeadOK, Chains, auditHead
<1>2. CASE LogStays /\ (crashes' = crashes \/ crashes' = crashes + 1)
  <2>1. audit' = audit /\ auditHead' = auditHead /\ crashes' \in Nat /\ -crashes' <= -crashes
    BY <1>1, <1>2 DEF LogStays, auditHead
  <2> QED
    BY <1>1, <1>2, <2>1 DEF Past
<1>3. CASE HeadIsLost
  <2>1. audit' = audit /\ crashes' = crashes + 1
    BY <1>3 DEF HeadIsLost
  <2>2. auditHead' = -crashes'
    BY <1>1, <1>3 DEF HeadIsLost, auditHead
  <2>3. auditHead' # auditHead /\ ~LogStays
    BY <1>1, <2>1, <2>2 DEF LogStays, auditHead
  <2> QED
    BY <1>1, <2>1, <2>2, <2>3 DEF Past
<1>4. CASE LogGrows /\ crashes' = crashes
  <2>1. Len(audit') = Len(audit) + 1 /\ auditHead' = Len(audit) + 1
    BY <1>1, <1>4 DEF LogGrows, GrowsIn, auditHead
  <2>2. auditHead' # auditHead /\ ~LogStays
    BY <1>1, <2>1 DEF LogStays, auditHead
  <2> QED
    BY <1>1, <1>4, <2>1, <2>2 DEF Past
<1> QED
  BY <1>2, <1>3, <1>4, LogSteps

-----------------------------------------------------------------------------
(* Changes that are not in the log.                                        *)
Culprit(x) ==
  \/ x.pc \in (Working \ {"answer_open"}) \union {"lost"}
  \/ x.reply \in {"500", "503"}

(* A claim or a close on its way that did not reach the log is not over,   *)
(* or has failed.                                                          *)
LEMMA ProceedCulprit ==
  ASSUME ClaimInv, NEW r \in Requests, Proceed(r), LogStays
  PROVE  Culprit(req[r])'
<1>0. req \in [Requests -> Request] /\ req[r] \in Request /\ Len(audit) \in Nat
  BY DEF ClaimInv, StoreTyped
<1>1. ASSUME NEW x, NEW pc \in Working \ {"answer_open"}, goto(r, pc, x), x \in Request
      PROVE  Culprit(req[r])'
  <2>1. req'[r].pc = pc
    BY <1>0, <1>1 DEF goto, Request
  <2> QED
    BY <2>1 DEF Culprit
<1>2. ASSUME NEW x \in Request, NEW what, reply(r, what, x) PROVE Culprit(req[r])'
  <2>1. req'[r].pc = "answer"
    BY <1>0, <1>2 DEF reply, goto, Request
  <2> QED
    BY <2>1 DEF Culprit, Working, Outside, Appending
<1>3. {"judge", "reserve", "add", "release", "ensure", "audit", "store_code", "store_subject", "resolve"}
        \subseteq Working \ {"answer_open"}
  BY DEF Working, Outside, Appending, Inside
<1>4. ~LogGrows /\ "event" \in Streams /\ req[r].stream \in Streams
  BY <1>0 DEF LogStays, LogGrows, GrowsIn, Streams, Request
<1>5. CASE enforceCostOfForgeryRisk(r)
  BY <1>0, <1>1, <1>2, <1>3, <1>5 DEF enforceCostOfForgeryRisk
<1>6. CASE reserveUniqueConfirmationCode(r)
  <2>1. \A c \in Codes : [req[r] EXCEPT !.code = c] \in Request
    BY <1>0 DEF Request
  <2> QED
    BY <1>0, <1>1, <1>2, <1>3, <1>6, <2>1 DEF reserveUniqueConfirmationCode
<1>7. CASE addClaim(r)
  BY <1>0, <1>1, <1>3, <1>7 DEF addClaim
<1>8. CASE releaseReservedConfirmationCode(r)
  <2>1. [req[r] EXCEPT !.code = None] \in Request
    BY <1>0 DEF Request
  <2> QED
    BY <1>2, <1>8, <2>1 DEF releaseReservedConfirmationCode
<1>9. CASE ensureConfirmationCodeIndexed(r)
  BY <1>0, <1>1, <1>3, <1>9 DEF ensureConfirmationCodeIndexed
<1>10. CASE auditClaim(r)
  BY <1>0, <1>2, <1>4, <1>10, Appends DEF auditClaim, LogGrows
<1>11. CASE storeReceiptByCode(r)
  BY <1>0, <1>1, <1>3, <1>11 DEF storeReceiptByCode
<1>12. CASE storeReceiptBySubject(r)
  BY <1>0, <1>1, <1>2, <1>3, <1>12 DEF storeReceiptBySubject
<1>13. CASE resolveConfirmed(r)
  BY <1>0, <1>2, <1>13 DEF resolveConfirmed
<1>14. CASE auditClose(r)
  BY <1>0, <1>2, <1>14 DEF auditClose
<1>15. CASE answer(r)
  <2>1. ~trail(r)
    BY <1>4, Appends DEF trail, LogGrows
  <2>2. goto(r, "done", [req[r] EXCEPT !.reply = "503"])
    BY <1>15, <2>1 DEF answer
  <2>3. req'[r].reply = "503"
    BY <1>0, <2>2 DEF goto, Request
  <2> QED
    BY <2>3 DEF Culprit
<1> QED
  BY <1>5, <1>6, <1>7, <1>8, <1>9, <1>10, <1>11, <1>12, <1>13, <1>14, <1>15 DEF Proceed

(* What a search shows is changed by a close when a request is received.   *)
LEMMA ReceiveShows ==
  ASSUME ClaimInv, NEW r \in Requests, Receive(r), revoked' = revoked, shown' # shown
  PROVE  Culprit(req[r])'
<1>0. req \in [Requests -> Request] /\ req[r] \in Request
  BY DEF ClaimInv
<1>1. req[r].pc = "idle"
  BY DEF Receive, turnAway, refuse, closeEvent, verifyCode, claim, claimWithProof, accepted, at
<1>2. \A s \in Subjects : claims'[s].history = claims[s].history
  BY <1>1, HistoryWrittenByAdd
<1>3. {s \in Subjects : claims'[s].history # <<>>} = {s \in Subjects : claims[s].history # <<>>}
  BY <1>2
<1>4. published' # published
  BY <1>3 DEF shown
<1>5. closeEvent(r)
  BY <1>4 DEF Receive, turnAway, refuse, verifyCode, claim, claimWithProof, stored
<1>6. req'[r].pc = "audit_close"
  BY <1>0, <1>5 DEF closeEvent, goto, Request
<1> QED
  BY <1>6 DEF Culprit, Working, Outside, Appending

LEMMA BehindUnsettled ==
  ASSUME ClaimInv, SearchNext, behind => Unsettled, LogStays, behind \/ shown' # shown
  PROVE  Unsettled'
<1>0. req \in [Requests -> Request]
  BY DEF ClaimInv
<1>1. Unsettled' <=> revoked' \/ \E r \in Requests : Culprit(req[r])'
  BY DEF Unsettled, Culprit
<1>2. behind => revoked \/ \E r \in Requests : Culprit(req[r])
  BY DEF Unsettled, Culprit
<1>3. ASSUME NEW r \in Requests, revokeCode(r) PROVE Unsettled'
  BY <1>1, <1>3 DEF revokeCode
<1>4. ASSUME NEW r \in Requests, at(r, "idle") \/ at(r, "answer_open"),
             \A q \in Requests : q # r => req'[q] = req[q],
             at(r, "answer_open") => req'[r].reply = req[r].reply,
             revoked' = revoked, shown' = shown
      PROVE  Unsettled'
  <2>1. behind
    BY <1>4
  <2>2. CASE revoked
    BY <1>1, <1>4, <2>2
  <2>3. ASSUME NEW q \in Requests, Culprit(req[q]) PROVE Culprit(req[q])'
    <3>1. CASE q # r
      BY <1>4, <2>3, <3>1 DEF Culprit
    <3>2. CASE q = r
      <4>1. at(r, "idle") => req[r].pc = "idle" /\ req[r].reply = "none"
        BY AtFacts
      <4>2. ~at(r, "idle")
        BY <2>3, <3>2, <4>1 DEF Culprit, Working, Outside, Appending, Inside
      <4>3. req[r].pc = "answer_open" /\ req'[r].reply = req[r].reply
        BY <1>4, <4>2 DEF at
      <4> QED
        BY <2>3, <3>2, <4>3 DEF Culprit
    <3> QED
      BY <3>1, <3>2
  <2> QED
    BY <1>1, <1>2, <2>1, <2>2, <2>3
<1>5. ASSUME NEW r \in Requests, NEW o \in Options, search(r, o) PROVE Unsettled'
  <2>1. /\ at(r, "idle") /\ goto(r, "answer_open", [req[r] EXCEPT !.stream = "system", !.reply = "found"])
        /\ UNCHANGED <<published, claims, revoked>>
    BY <1>5 DEF search, stored
  <2>2. \A q \in Requests : q # r => req'[q] = req[q]
    BY <1>0, <2>1 DEF goto
  <2>3. shown' = shown /\ revoked' = revoked
    BY <2>1 DEF shown
  <2>4. req[r].pc # "answer_open"
    BY <2>1 DEF at
  <2> QED
    BY <1>4, <2>1, <2>2, <2>3, <2>4 DEF at
<1>6. ASSUME NEW r \in Requests, answerOpen(r) PROVE Unsettled'
  <2>1. /\ at(r, "answer_open") /\ goto(r, "done", req[r])
        /\ UNCHANGED <<published, claims, revoked>>
    BY <1>6 DEF answerOpen, stored
  <2>2. req'[r].reply = req[r].reply /\ \A q \in Requests : q # r => req'[q] = req[q]
    BY <1>0, <2>1 DEF goto, Request
  <2>3. shown' = shown /\ revoked' = revoked
    BY <2>1 DEF shown
  <2> QED
    BY <1>4, <2>1, <2>2, <2>3
<1>7. ASSUME NEW r \in Requests, Receive(r), revoked' = revoked PROVE Unsettled'
  <2>1. CASE shown' # shown
    BY <1>1, <1>7, <2>1, ReceiveShows
  <2>2. CASE shown' = shown
    <3>1. at(r, "idle")
      BY <1>7 DEF Receive, turnAway, refuse, closeEvent, verifyCode, claim, claimWithProof, accepted
    <3>2. \A q \in Requests : q # r => req'[q] = req[q]
      BY <1>7, ReceiveMoves DEF Moves
    <3>3. ~at(r, "answer_open")
      BY <3>1 DEF at
    <3> QED
      BY <1>4, <1>7, <2>2, <3>1, <3>2, <3>3
  <2> QED
    BY <2>1, <2>2
<1>8. ASSUME NEW r \in Requests, Proceed(r) PROVE Unsettled'
  BY <1>1, <1>8, ProceedCulprit
<1>9. ASSUME CrashSearch PROVE Unsettled'
  <2>1. /\ UNCHANGED <<published, claims, revoked>>
        /\ req' = [r \in Requests |-> IF req[r].pc \in Working THEN [req[r] EXCEPT !.pc = "lost"]
                                      ELSE req[r]]
    BY <1>9 DEF CrashSearch, Crash, stored
  <2>2. behind
    BY <2>1 DEF shown
  <2>3. ASSUME NEW q \in Requests, Culprit(req[q]) PROVE Culprit(req[q])'
    <3>1. CASE req[q].pc \in Working
      <4>1. req'[q].pc = "lost"
        BY <1>0, <2>1, <3>1 DEF Request
      <4> QED
        BY <4>1 DEF Culprit
    <3>2. CASE req[q].pc \notin Working
      BY <2>1, <2>3, <3>2 DEF Culprit
    <3> QED
      BY <3>1, <3>2
  <2> QED
    BY <1>1, <1>2, <2>1, <2>2, <2>3
<1>10. ASSUME Tick, revoked' = revoked PROVE Unsettled'
  <2>1. UNCHANGED <<published, claims, req>>
    BY <1>10 DEF Tick, stored
  <2>2. behind
    BY <1>10, <2>1 DEF shown
  <2> QED
    BY <1>10, <2>1, <2>2 DEF Unsettled
<1> QED
  BY <1>3, <1>5, <1>6, <1>7, <1>8, <1>9, <1>10 DEF SearchNext, SearchStep

-----------------------------------------------------------------------------
(* The inductive invariant of the indexes.                                 *)

(* An index that is of the present head shows the data, unless these have  *)
(* changed without the log.                                                *)
Fresh(x) ==
  /\ Past(x.key) /\ x.builtAt \in Nat /\ x.builtAt <= clock
  /\ \A o \in Options : x.key = indexKey(o) /\ ~behind => x.docs = getMasterAdminDisclosures(o)

(* The key in memory is of an index in SQL, unless that one was pruned     *)
(* when it was inserted.                                                   *)
Remembered ==
  sqlMeta # None =>
    /\ Past(sqlMeta)
    /\ sqlMeta[1] = auditHead /\ ~squeezed => \E x \in sql : x.key = sqlMeta

SearchInv ==
  /\ ClaimInv /\ ChainInv
  /\ IsFiniteSet(sql) /\ \A x \in sql : Fresh(x)
  /\ memory # None => Fresh(memory)
  /\ Remembered
  /\ behind => Unsettled

LEMMA SameDocs ==
  ASSUME audit' = audit, shown' = shown
  PROVE  \A o : getMasterAdminDisclosures(o)' = getMasterAdminDisclosures(o)
<1>1. /\ published' = published /\ revoked' = revoked
      /\ {s \in Subjects : claims'[s].history # <<>>} = {s \in Subjects : claims[s].history # <<>>}
  BY DEF shown
<1>2. \A limit : getTransferLogs(limit)' = getTransferLogs(limit)
  BY DEF getTransferLogs, isTransfer
<1> QED
  BY <1>1, <1>2 DEF getMasterAdminDisclosures

LEMMA FreshKept ==
  ASSUME SearchInv, SearchNext, NEW x, Fresh(x)
  PROVE  Fresh(x)'
<1>0. ClaimInv /\ ChainInv
  BY DEF SearchInv
<1>1. clock \in Nat /\ clock' \in Nat /\ clock <= clock'
  <2>1. clock \in Nat
    BY <1>0 DEF ClaimInv, StoreTyped
  <2>2. clock' = clock \/ clock' = clock + 1
    <3>1. ASSUME NEW r \in Requests, Receive(r) \/ Proceed(r) PROVE clock' = clock
      BY <1>0, <3>1, ReceiveMoves, ProceedMoves DEF Moves
    <3> QED
      BY <3>1 DEF SearchNext, SearchStep, revokeCode, answerOpen, search, CrashSearch, Crash, Tick
  <2> QED
    BY <2>1, <2>2
<1>2. Past(x.key)'
  BY <1>0, PastKept DEF Fresh
<1>3. ASSUME NEW o \in Options, x.key = indexKey(o)', ~behind'
      PROVE  x.docs = getMasterAdminDisclosures(o)'
  <2>1. x.key[1] = auditHead'
    BY <1>3 DEF indexKey
  <2>2. LogStays /\ auditHead' = auditHead
    BY <1>0, <2>1, PastKept DEF Fresh
  <2>3. ~behind /\ shown' = shown
    BY <1>3, <2>2 DEF SearchNext
  <2>4. x.key = indexKey(o)
    BY <1>3, <2>2 DEF indexKey
  <2>5. x.docs = getMasterAdminDisclosures(o)
    BY <2>3, <2>4 DEF Fresh
  <2> QED
    BY <2>2, <2>3, <2>5, SameDocs DEF LogStays
<1>4. x.builtAt \in Nat /\ x.builtAt <= clock'
  BY <1>1 DEF Fresh
<1> QED
  BY <1>2, <1>3, <1>4 DEF Fresh

LEMMA NewFresh ==
  ASSUME ClaimInv, ChainInv, NEW o \in Options
  PROVE  /\ Fresh(newIndex(o)) /\ newIndex(o).key = indexKey(o) /\ newIndex(o).builtAt = clock
         /\ newIndex(o).docs = getMasterAdminDisclosures(o)
         /\ Past(indexKey(o)) /\ indexKey(o) # None /\ indexKey(o)[1] = auditHead
<1>1. /\ newIndex(o).key = indexKey(o) /\ newIndex(o).builtAt = clock
      /\ newIndex(o).docs = getMasterAdminDisclosures(o)
  BY DEF newIndex
<1>2. indexKey(o)[1] = auditHead /\ Past(indexKey(o)) /\ auditHead \in Int
  BY DEF indexKey, Past, ChainInv, HeadOK, Chains, auditHead
<1>3. \A p \in Options : indexKey(p) = indexKey(o) => p = o
  BY DEF indexKey
<1>4. clock \in Nat
  BY DEF ClaimInv, StoreTyped
<1>5. indexKey(o) # None
  <2>3. indexKey(o) \in Int \X Options
    BY <1>2 DEF indexKey
  <2> QED
    BY <2>3, MasterSearchAssumption DEF Options
<1>6. Fresh(newIndex(o))
  BY <1>1, <1>2, <1>3, <1>4 DEF Fresh
<1> QED
  BY <1>1, <1>2, <1>5, <1>6

(* pruneMasterSearchSqlIndexes drops the index that was just inserted only *)
(* for indexes of the same instant.                                        *)
LEMMA PrunedNew ==
  ASSUME SearchInv, NEW new, new.builtAt = clock, NEW s \in pruned(sql \union {new}), new \notin s
  PROVE  crowded
<1>1. IsFiniteSet(sql) /\ clock \in Nat /\ \A x \in sql : x.builtAt \in Nat /\ x.builtAt <= clock
  BY DEF SearchInv, Fresh, ClaimInv, StoreTyped
<1>2. PICK all : all = sql \union {new}
  OBVIOUS
<1>3. /\ s \subseteq all
      /\ Cardinality(s) = IF Cardinality(all) < KeepKeys THEN Cardinality(all) ELSE KeepKeys
      /\ \A x \in s, y \in all \ s : x.builtAt >= y.builtAt
  BY <1>2 DEF pruned
<1>4. IsFiniteSet(all) /\ new \in all
  BY <1>1, <1>2, FS_AddElement
<1>5. IsFiniteSet(s) /\ Cardinality(s) < Cardinality(all) /\ Cardinality(all) \in Nat
  <2>1. IsFiniteSet(s) /\ Cardinality(s) <= Cardinality(all)
    BY <1>3, <1>4, FS_Subset
  <2>2. Cardinality(s) # Cardinality(all)
    BY <1>3, <1>4, FS_Subset
  <2> QED
    BY <1>4, <2>1, <2>2, FS_CardinalityType
<1>6. Cardinality(s) = KeepKeys /\ KeepKeys \in Nat
  BY <1>3, <1>5, MasterSearchAssumption
<1>7. PICK now : now = {x \in sql : x.builtAt = clock}
  OBVIOUS
<1>8. s \subseteq now
  <2> SUFFICES ASSUME NEW x \in s PROVE x \in sql /\ x.builtAt = clock
    BY <1>7
  <2>1. x \in sql
    BY <1>2, <1>3
  <2>2. x.builtAt >= clock
    BY <1>3, <1>4
  <2> QED
    BY <1>1, <2>1, <2>2
<1>9. IsFiniteSet(now)
  BY <1>1, <1>7, FS_Subset
<1>10. Cardinality(s) <= Cardinality(now) /\ Cardinality(now) \in Nat
  BY <1>8, <1>9, FS_Subset, FS_CardinalityType
<1> QED
  BY <1>6, <1>7, <1>10 DEF crowded

LEMMA EnsureFacts ==
  ASSUME SearchInv, NEW o \in Options, NEW c \in ensureMasterSearchSqlIndex(o)
  PROVE  /\ c.meta = indexKey(o) /\ IsFiniteSet(c.sql)
         /\ \A x \in c.sql : Fresh(x)
         /\ c.memory # None => Fresh(c.memory)
         /\ (\E x \in c.sql : x.key = indexKey(o)) \/ squeezed \/ crowded
<1> DEFINE hit == sqlMeta = indexKey(o) \/ \E x \in sql : x.key = indexKey(o)
<1>0. /\ ClaimInv /\ ChainInv /\ IsFiniteSet(sql) /\ \A x \in sql : Fresh(x)
      /\ memory # None => Fresh(memory)
      /\ Remembered
  BY DEF SearchInv
<1>1. PICK s \in IF hit THEN {sql} ELSE persistMasterSearchSqlIndex(newIndex(o)) :
        c = [sql |-> s, meta |-> indexKey(o), memory |-> IF hit THEN memory ELSE newIndex(o)]
  BY DEF ensureMasterSearchSqlIndex
<1>2. c.meta = indexKey(o) /\ c.sql = s /\ c.memory = IF hit THEN memory ELSE newIndex(o)
  BY <1>1
<1>3. CASE hit
  <2>1. s = sql /\ c.memory = memory
    BY <1>1, <1>2, <1>3
  <2>2. (\E x \in sql : x.key = indexKey(o)) \/ squeezed
    BY <1>0, <1>3, NewFresh DEF Remembered
  <2> QED
    BY <1>0, <1>2, <2>1, <2>2
<1>4. CASE ~hit
  <2>1. PICK new : new = newIndex(o)
    OBVIOUS
  <2>2. s \in pruned(sql \union {new}) /\ c.memory = new
    BY <1>1, <1>2, <1>4, <2>1 DEF persistMasterSearchSqlIndex
  <2>3. Fresh(new) /\ new.key = indexKey(o) /\ new.builtAt = clock
    BY <1>0, <2>1, NewFresh
  <2>4. s \subseteq sql \union {new}
    BY <2>2 DEF pruned
  <2>5. IsFiniteSet(s)
    BY <1>0, <2>4, FS_AddElement, FS_Subset
  <2>6. new \in s \/ crowded
    BY <2>2, <2>3, PrunedNew
  <2> QED
    BY <1>0, <1>2, <2>2, <2>3, <2>4, <2>5, <2>6
<1> QED
  BY <1>3, <1>4

(* The documents of an index in SQL, or none.                              *)
LEMMA SqlDocs ==
  ASSUME SearchInv, ~behind, NEW o \in Options, NEW s, \A x \in s : Fresh(x)
  PROVE  \/ /\ \E x \in s : x.key = indexKey(o)
            /\ searchMasterIndexSql(s, indexKey(o)) = getMasterAdminDisclosures(o)
         \/ /\ ~\E x \in s : x.key = indexKey(o)
            /\ searchMasterIndexSql(s, indexKey(o)) = {}
<1>1. PICK D : D = getMasterAdminDisclosures(o)
  OBVIOUS
<1>2. PICK k : k = indexKey(o)
  OBVIOUS
<1>3. \A x \in s : x.key = k => x.docs = D
  BY <1>1, <1>2 DEF Fresh
<1>4. PICK U : U = UNION {x.docs : x \in {y \in s : y.key = k}}
  OBVIOUS
<1>5. (\E x \in s : x.key = k) => U = D
  BY <1>3, <1>4
<1>6. (~\E x \in s : x.key = k) => U = {}
  BY <1>4
<1> QED
  BY <1>1, <1>2, <1>4, <1>5, <1>6 DEF searchMasterIndexSql

LEMMA MemoryDocs ==
  ASSUME SearchInv, NEW o \in Options, NEW m, m # None => Fresh(m)
  PROVE  /\ Fresh(getMasterSearchIndex(m, o))
         /\ ~behind => getMasterSearchIndex(m, o).docs = getMasterAdminDisclosures(o)
<1>1. ClaimInv /\ ChainInv
  BY DEF SearchInv
<1>2. CASE m # None /\ m.key = indexKey(o) /\ clock - m.builtAt <= IndexTtl
  <2>1. getMasterSearchIndex(m, o) = m
    BY <1>2 DEF getMasterSearchIndex
  <2> QED
    BY <1>2, <2>1 DEF Fresh
<1>3. CASE ~(m # None /\ m.key = indexKey(o) /\ clock - m.builtAt <= IndexTtl)
  <2>1. getMasterSearchIndex(m, o) = newIndex(o)
    BY <1>3 DEF getMasterSearchIndex
  <2> QED
    BY <1>1, <2>1, NewFresh
<1> QED
  BY <1>2, <1>3

(* What a search leaves in the caches, and what it answers.                *)
LEMMA SearchAnswers ==
  ASSUME SearchInv, NEW r \in Requests, NEW o \in Options, search(r, o)
  PROVE  /\ IsFiniteSet(sql') /\ \A x \in sql' : Fresh(x)
         /\ memory' # None => Fresh(memory')
         /\ \/ sqlMeta' = sqlMeta /\ sql' = sql
            \/ /\ sqlMeta' = indexKey(o)
               /\ (\E x \in sql' : x.key = indexKey(o)) \/ squeezed \/ crowded
         /\ found'.options = o
         /\ \/ behind
            \/ found'.docs = {} /\ (squeezed \/ crowded)
            \/ found'.docs = getMasterAdminDisclosures(o)
<1>0. /\ IsFiniteSet(sql) /\ \A x \in sql : Fresh(x)
      /\ memory # None => Fresh(memory)
  BY DEF SearchInv
<1>1. ASSUME NEW c \in ensureMasterSearchSqlIndex(o), sql' = c.sql, sqlMeta' = c.meta,
             memory' = c.memory,
             found' = [by |-> r, options |-> o, docs |-> searchMasterIndexSql(c.sql, c.meta)]
      PROVE  /\ IsFiniteSet(sql') /\ \A x \in sql' : Fresh(x)
             /\ memory' # None => Fresh(memory')
             /\ sqlMeta' = indexKey(o)
             /\ (\E x \in sql' : x.key = indexKey(o)) \/ squeezed \/ crowded
             /\ found'.options = o
             /\ \/ behind
                \/ found'.docs = {} /\ (squeezed \/ crowded)
                \/ found'.docs = getMasterAdminDisclosures(o)
  <2>1. found'.options = o /\ found'.docs = searchMasterIndexSql(sql', indexKey(o))
    BY <1>1, EnsureFacts
  <2>2. /\ IsFiniteSet(sql') /\ \A x \in sql' : Fresh(x)
        /\ memory' # None => Fresh(memory')
        /\ sqlMeta' = indexKey(o)
        /\ (\E x \in sql' : x.key = indexKey(o)) \/ squeezed \/ crowded
    BY <1>1, EnsureFacts
  <2> QED
    BY <2>1, <2>2, SqlDocs
<1>2. ASSUME NEW c, sql' = c.sql, sqlMeta' = c.meta, memory' = getMasterSearchIndex(c.memory, o),
             found' = [by |-> r, options |-> o, docs |-> getMasterSearchIndex(c.memory, o).docs],
             c.memory # None => Fresh(c.memory)
      PROVE  /\ Fresh(memory') /\ found'.options = o
             /\ behind \/ found'.docs = getMasterAdminDisclosures(o)
  BY <1>2, MemoryDocs
<1>3. CASE \E c \in ensureMasterSearchSqlIndex(o) :
             /\ sql' = c.sql /\ sqlMeta' = c.meta /\ memory' = c.memory
             /\ found' = [by |-> r, options |-> o, docs |-> searchMasterIndexSql(c.sql, c.meta)]
  BY <1>1, <1>3
<1>4. ASSUME NEW c \in ensureMasterSearchSqlIndex(o), sql' = c.sql, sqlMeta' = c.meta,
             memory' = getMasterSearchIndex(c.memory, o),
             found' = [by |-> r, options |-> o, docs |-> getMasterSearchIndex(c.memory, o).docs]
      PROVE  /\ IsFiniteSet(sql') /\ \A x \in sql' : Fresh(x)
             /\ memory' # None => Fresh(memory')
             /\ sqlMeta' = indexKey(o)
             /\ (\E x \in sql' : x.key = indexKey(o)) \/ squeezed \/ crowded
             /\ found'.options = o
             /\ behind \/ found'.docs = getMasterAdminDisclosures(o)
  BY <1>2, <1>4, EnsureFacts
<1>5. CASE \E c \in {[sql |-> sql, meta |-> sqlMeta, memory |-> memory]} :
             LET built == getMasterSearchIndex(c.memory, o) IN
             /\ sql' = c.sql /\ sqlMeta' = c.meta /\ memory' = built
             /\ found' = [by |-> r, options |-> o, docs |-> built.docs]
  <2>1. PICK c : c = [sql |-> sql, meta |-> sqlMeta, memory |-> memory]
    OBVIOUS
  <2>2. c.sql = sql /\ c.meta = sqlMeta /\ c.memory = memory
    BY <2>1
  <2>3. /\ sql' = c.sql /\ sqlMeta' = c.meta /\ memory' = getMasterSearchIndex(c.memory, o)
        /\ found' = [by |-> r, options |-> o, docs |-> getMasterSearchIndex(c.memory, o).docs]
    BY <1>5, <2>1
  <2> QED
    BY <1>0, <1>2, <2>2, <2>3
<1> QED
  <2>1. \/ \E c \in ensureMasterSearchSqlIndex(o) :
             /\ sql' = c.sql /\ sqlMeta' = c.meta /\ memory' = c.memory
             /\ found' = [by |-> r, options |-> o, docs |-> searchMasterIndexSql(c.sql, c.meta)]
        \/ \E c \in {[sql |-> sql, meta |-> sqlMeta, memory |-> memory]} :
             LET built == getMasterSearchIndex(c.memory, o) IN
             /\ sql' = c.sql /\ sqlMeta' = c.meta /\ memory' = built
             /\ found' = [by |-> r, options |-> o, docs |-> built.docs]
        \/ \E c \in ensureMasterSearchSqlIndex(o) :
             /\ sql' = c.sql /\ sqlMeta' = c.meta /\ memory' = getMasterSearchIndex(c.memory, o)
             /\ found' = [by |-> r, options |-> o, docs |-> getMasterSearchIndex(c.memory, o).docs]
    BY DEF search
  <2> QED
    BY <1>3, <1>4, <1>5, <2>1

LEMMA SearchStepInv == ASSUME SearchInv, [SearchNext]_searchVars PROVE SearchInv'
<1>0. ClaimInv /\ ClaimInv' /\ ChainInv /\ ChainInv'
  BY SearchClaimInv, SearchChainInv DEF SearchInv
<1>1. CASE SearchNext
  <2>1. /\ \A x : Fresh(x) => Fresh(x)'
        /\ auditHead' = auditHead <=> LogStays
        /\ \A key : Past(key) => Past(key)'
        /\ ~LogStays => \A key : Past(key) => key[1] # auditHead'
    BY <1>0, <1>1, FreshKept, PastKept
  <2>2. (behind => Unsettled)'
    <3>1. behind' => auditHead' = auditHead /\ (behind \/ shown' # shown)
      BY <1>1 DEF SearchNext
    <3> QED
      BY <1>0, <1>1, <2>1, <3>1, BehindUnsettled DEF SearchInv
  <2>3. LogStays /\ (squeezed \/ crowded) => squeezed'
    BY <1>1, <2>1 DEF SearchNext
  <2>4. ASSUME IsFiniteSet(sql'), \A x \in sql' : Fresh(x), memory' # None => Fresh(memory'), Remembered'
        PROVE  SearchInv'
    <3>1. \A x \in sql' : Fresh(x)'
      BY <2>1, <2>4
    <3>2. PICK m : m = memory'
      OBVIOUS
    <3>3. m # None => Fresh(m)'
      BY <2>1, <2>4, <3>2
    <3>4. (memory # None => Fresh(memory))'
      BY <3>2, <3>3 DEF Fresh
    <3> QED
      BY <1>0, <2>2, <2>4, <3>1, <3>4 DEF SearchInv
  <2>5. sqlMeta' = sqlMeta /\ sql' = sql => Remembered'
    BY <2>1, <2>3 DEF SearchInv, Remembered
  <2>6. ASSUME NEW r \in Requests, NEW o \in Options, search(r, o) PROVE SearchInv'
    <3>1. /\ IsFiniteSet(sql') /\ \A x \in sql' : Fresh(x)
          /\ memory' # None => Fresh(memory')
          /\ \/ sqlMeta' = sqlMeta /\ sql' = sql
             \/ /\ sqlMeta' = indexKey(o)
                /\ (\E x \in sql' : x.key = indexKey(o)) \/ squeezed \/ crowded
      BY <2>6, SearchAnswers
    <3>2. LogStays
      BY <2>6 DEF search, auditLog, LogStays
    <3>3. PICK k : k = indexKey(o)
      OBVIOUS
    <3>4. Past(k)'
      BY <1>0, <2>1, <3>3, NewFresh
    <3>5. ASSUME sqlMeta' = k, (\E x \in sql' : x.key = k) \/ squeezed' PROVE Remembered'
      <4>1. Past(sqlMeta)'
        BY <3>4, <3>5 DEF Past
      <4> QED
        BY <3>5, <4>1 DEF Remembered
    <3>6. Remembered'
      BY <2>3, <2>5, <3>1, <3>2, <3>3, <3>5
    <3> QED
      BY <2>4, <3>1, <3>6
  <2>7. ASSUME UNCHANGED caches PROVE SearchInv'
    BY <2>4, <2>5, <2>7 DEF caches, SearchInv
  <2>8. CASE CrashSearch
    BY <2>4, <2>8 DEF CrashSearch, SearchInv, Remembered
  <2> QED
    BY <1>1, <2>6, <2>7, <2>8 DEF SearchNext, SearchStep, revokeCode, answerOpen
<1>2. CASE UNCHANGED searchVars
  <2>1. /\ UNCHANGED <<audit, lastHash, crashes, published, claims, clock, req>>
        /\ UNCHANGED <<revoked, sql, sqlMeta, memory, behind, squeezed>>
    BY <1>2 DEF searchVars, vars, stored, auditLog, caches
  <2>2. \A o : getMasterAdminDisclosures(o)' = getMasterAdminDisclosures(o)
    BY <2>1, SameDocs DEF shown
  <2> QED
    BY <1>0, <2>1, <2>2 DEF SearchInv, Fresh, Past, Remembered, Unsettled, indexKey, auditHead
<1> QED
  BY <1>1, <1>2

LEMMA InitSearchInv == ASSUME SearchInit PROVE SearchInv
BY InitClaimInv, InitChainInv, FS_EmptySet DEF SearchInit, SearchInv, Remembered

(* The invariant of the indexes holds in every state of every behaviour    *)
(* with searches, revocations, claims, closes and crashes.                 *)
THEOREM SearchInvariant == SearchSpec => []SearchInv
BY InitSearchInv, SearchStepInv, PTL DEF SearchSpec

(* What ClaimFlow promises of codes and tickets holds with searches and    *)
(* revocations among the requests, whose answers do not wait for the log.  *)
THEOREM SearchesLeaveClaims == SearchSpec => [](CodesBelong /\ TicketBacked /\ OneOpenTicketUnjudged)
<1>1. SearchInv => CodesBelong /\ TicketBacked /\ OneOpenTicketUnjudged
  BY BackedNow, OneOpenNow DEF SearchInv, ClaimInv
<1> QED
  BY <1>1, SearchInvariant, PTL

(* GET /api/master/search: an index answers only for the audit head and    *)
(* the options it was built for: a search shows every claim and close that *)
(* was answered with success; what it may miss is still running, failed or *)
(* is a revocation, and only an index pruned when it was inserted shows    *)
(* nothing.                                                                *)
THEOREM SearchesCurrent == SearchSpec => SearchCurrent
<1>1. ASSUME SearchInv, SearchNext, found' # found
      PROVE  \/ behind /\ Unsettled
             \/ found'.docs = {} /\ (squeezed \/ crowded)
             \/ found'.docs = getMasterAdminDisclosures(found'.options)
  <2>1. PICK r \in Requests, o \in Options : search(r, o)
    BY <1>1 DEF SearchNext, SearchStep, revokeCode, answerOpen, CrashSearch
  <2> QED
    BY <1>1, <2>1, SearchAnswers DEF SearchInv
<1>2. SearchInv /\ [SearchNext]_searchVars =>
        [found' # found =>
           \/ behind /\ Unsettled
           \/ found'.docs = {} /\ (squeezed \/ crowded)
           \/ found'.docs = getMasterAdminDisclosures(found'.options)]_searchVars
  BY <1>1
<1> QED
  BY <1>2, SearchInvariant, PTL DEF SearchSpec, SearchCurrent
=============================================================================

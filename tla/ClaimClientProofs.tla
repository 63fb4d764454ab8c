------------------------- MODULE ClaimClientProofs -------------------------
(***************************************************************************)
(* Proofs about the recipient's device (ClaimClient).                      *)
(*                                                                         *)
(* The invariant Inv has three parts.  TypeInv: every list names           *)
(* transactions that were built, and the slot, the flows and the store's   *)
(* continuations agree on who waits for what.  ScopeInv: every list in     *)
(* memory, in storage, in a continuation or fetched at login, and what the *)
(* worker was told, is of its account or excused.  KeepInv: while writes   *)
(* do not overlap, every continuation has what is stored for its account,  *)
(* so does the list in memory when none is in flight, and a payout is on   *)
(* record, excused, or borne by a flow that has still to record it.        *)
(*                                                                         *)
(* Most steps leave the store alone (CalmStep, CalmKeeps); those that use  *)
(* it issue an operation (EnqueueKeeps: writes by Saves, account changes   *)
(* by Switches), resolve one (StoreDoneKeeps) or restart (ReloadKeeps).    *)
(***************************************************************************)
EXTENDS ClaimClient, WellFoundedInduction, TLAPS
-----------------------------------------------------------------------------
(* Types.                                                                  *)

Codes == {NoCode} \cup (Users \X Nat)
Tickets == [code : Codes, proof : Nat, receipts : Seq(Nat)]
Screens == {"confirm", "receive", "callback", "wallet"}

(* Where a claim is, where it awaits the store, and where it alone knows   *)
(* of a payout.                                                            *)
Claiming == {"claimed", "saving", "check", "build", "sign", "send", "record", "recordDead",
             "recording", "recordingDead", "resume", "scoping", "sync", "success"}
Awaiting == {"saving", "scoping", "recording", "recordingDead", "switching", "replacing"}
Carrying == {"send", "record", "recording", "recordDead", "recordingDead", "resume", "scoping", "sync"}

(* Where a callback page may know no account, or not even an event.        *)
Unsure == {"send", "resume"}
Late == Unsure \cup {"record", "recording", "success"}

FlowType == [pc : Claiming \cup {"idle", "switching", "replace", "replacing"},
             screen : Screens \cup {"none"}, user : Scopes, event : Events \cup {Nobody},
             code : Codes, seen : Codes, signed : Nat, retries : Nat, list : [Events -> Tickets]]

(* A list names transactions that were built, the current proof of a       *)
(* ticket among its receipts.                                              *)
ListOK(list, n) ==
  /\ list \in [Events -> Tickets]
  /\ \A e \in Events : /\ list[e].proof \in Range(list[e].receipts) \cup {0}
                       /\ Range(list[e].receipts) \subseteq 1..n

FlowOK(fl, n) ==
  /\ fl \in FlowType /\ fl.signed \in 0..n /\ ListOK(fl.list, n)
  /\ fl.pc \in Claiming =>
       /\ fl.screen \in Screens
       /\ fl.user \in Users \/ (fl.pc \in Late /\ fl.screen \in {"callback", "wallet"})
       /\ fl.event \in Events \/ (fl.pc \in Unsure /\ fl.screen \in {"callback", "wallet"})
  /\ fl.pc \in Carrying => fl.signed # 0

(* What the browser keeps of a claim: a context names both the account and *)
(* the event, or neither.                                                  *)
ContextOK(c) ==
  /\ c \in [user : Scopes, event : Events \cup {Nobody}, code : Codes]
  /\ c = NoContext \/ (c.user \in Users /\ c.event \in Events)

PathOK(p) == p \in [screen : Screens \cup {"none"}, event : Events \cup {Nobody}]

WebOK(w) == \E p, c, d : /\ w = [path |-> p, user |-> c, wallet |-> d]
                         /\ PathOK(p) /\ ContextOK(c) /\ ContextOK(d)

ClientType ==
  /\ user \in Scopes /\ ListOK(tickets, Len(txs))
  /\ storage \in [Scopes -> [Events -> Tickets]] /\ \A s \in Scopes : ListOK(storage[s], Len(txs))
  /\ txs \in Seq([user : Users, event : Events, code : Codes, period : Nat])
  /\ requests \subseteq 1..Len(txs) /\ launchUrl \in 0..Len(txs) /\ landed \subseteq 1..Len(txs)
  /\ synced \in Seq([user : Users, event : Events, code : Codes, tx : 1..Len(txs)])
  /\ issued \in [Users -> [Events -> Nat]] /\ period \in Nat
  /\ WebOK(web)
  /\ overlapped \in BOOLEAN

FlowsOK == flow \in [Flows -> FlowType] /\ \A f \in Flows : FlowOK(flow[f], Len(txs))

(* A continuation belongs to the flow that awaits it, one at a time.       *)
JobsOK ==
  /\ \A j \in jobs : /\ j \in [user : Scopes, list : [Events -> Tickets], by : Flows \cup {Nobody}]
                     /\ ListOK(j.list, Len(txs))
                     /\ j.by \in Flows => flow[j.by].pc \in Awaiting
  /\ \A i, j \in jobs : i.by = j.by /\ i.by \in Flows => i = j

(* The slot is held by a flow that awaits its signature.                   *)
SlotOK == pending # Nobody => pending \in Flows /\ flow[pending].pc = "sign"

TypeInv == ClientType /\ FlowsOK /\ JobsOK /\ SlotOK

-----------------------------------------------------------------------------
(* Ownership.                                                              *)
Mine(tx, s) == tx \in excused \/ txs[tx].user = s
Own(list, s) == \A tx \in held(list) : Mine(tx, s)

ScopeInv ==
  /\ \A s \in Scopes : Own(storage[s], s)
  /\ Own(tickets, user)
  /\ \A j \in jobs : Own(j.list, j.user)
  /\ \A f \in Flows : flow[f].pc \in {"switching", "replace"} => Own(flow[f].list, flow[f].user)
  /\ \A i \in DOMAIN synced : Mine(synced[i].tx, synced[i].user)

-----------------------------------------------------------------------------
(* Records.                                                                *)
Kept(tx) == told(tx) \/ tx \in excused \/ tx \in heldIn(txs[tx].user)

(* The flow has still to put the payout on record.                         *)
Bearing(fl) == fl.pc = "record" \/ (fl.pc \in {"resume", "scoping", "sync"} /\ fl.screen # "confirm")

KeepInv ==
  overlapped \/
    /\ \A j \in jobs : heldIn(j.user) \subseteq held(j.list)
    /\ (\E j \in jobs : j.user = user) \/ heldIn(user) \subseteq held(tickets)
    /\ \A tx \in landed : Kept(tx) \/ \E f \in Flows : flow[f].signed = tx /\ Bearing(flow[f])

-----------------------------------------------------------------------------
(* Every nonempty set of naturals has a least element.                     *)
LEMMA LeastNatural ==
  ASSUME NEW T, T \subseteq Nat, T # {}
  PROVE  \E n \in T : \A m \in T : n <= m
<1>1. PICK n \in T : \A m \in T : ~ (<<m, n>> \in OpToRel(<, Nat))
  BY NatLessThanWellFounded, WFMin, Zenon
<1>2. \A m \in T : ~ (m < n)
  BY <1>1 DEF OpToRel
<1> QED
  BY <1>2

(* The loop that drops one receipt, up to place n.                         *)
Dropping(k, tx, rs, n) ==
  k = [i \in 0..n |-> IF i = 0 THEN <<>> ELSE IF rs[i] = tx THEN k[i - 1] ELSE Append(k[i - 1], rs[i])]

LEMMA DroppingExists ==
  ASSUME NEW tx, NEW rs, NEW n \in Nat
  PROVE  \E k : Dropping(k, tx, rs, n)
<1> DEFINE T == {m \in Nat : ~ \E k : Dropping(k, tx, rs, m)}
<1> SUFFICES ASSUME n \in T PROVE FALSE
  OBVIOUS
<1>1. PICK m \in T : \A j \in T : m <= j
  BY LeastNatural
<1>2. m # 0
  <2>1. Dropping([i \in 0..0 |-> <<>>], tx, rs, 0)
    BY DEF Dropping
  <2> QED
    BY <1>1, <2>1
<1>3. m \in Nat /\ m - 1 \in Nat /\ m - 1 \notin T
  BY <1>1, <1>2
<1>4. PICK k : Dropping(k, tx, rs, m - 1)
  BY <1>3
<1> DEFINE last == IF rs[m] = tx THEN k[m - 1] ELSE Append(k[m - 1], rs[m])
           more == [i \in 0..m |-> IF i = m THEN last ELSE k[i]]
<1> HIDE DEF last
<1>5. \A i \in 0..(m - 1) : k[i] = IF i = 0 THEN <<>> ELSE IF rs[i] = tx THEN k[i - 1] ELSE Append(k[i - 1], rs[i])
  BY <1>4 DEF Dropping
<1>6. \A i \in 0..m : i # m => i \in 0..(m - 1) /\ more[i] = k[i] /\ (i # 0 => more[i - 1] = k[i - 1])
  BY <1>3
<1>7. more[m - 1] = k[m - 1] /\ more[m] = last
  BY <1>3
<1>8. \A i \in 0..m : more[i] = IF i = 0 THEN <<>> ELSE IF rs[i] = tx THEN more[i - 1] ELSE Append(more[i - 1], rs[i])
  BY <1>2, <1>5, <1>6, <1>7 DEF last
<1>9. Dropping(more, tx, rs, m)
  <2>1. more = [i \in 0..m |-> more[i]]
    OBVIOUS
  <2> HIDE DEF more
  <2> QED
    BY <1>8, <2>1 DEF Dropping
<1> QED
  BY <1>1, <1>9

LEMMA AppendNat ==
  ASSUME NEW q \in Seq(Nat), NEW x \in Nat
  PROVE  Append(q, x) \in Seq(Nat) /\ Range(Append(q, x)) = Range(q) \cup {x}
<1>1. /\ Append(q, x) \in Seq(Nat) /\ DOMAIN Append(q, x) = 1..(Len(q) + 1) /\ Len(q) \in Nat
      /\ DOMAIN q = 1..Len(q)
      /\ \A i \in 1..Len(q) : Append(q, x)[i] = q[i]
      /\ Append(q, x)[Len(q) + 1] = x
  OBVIOUS
<1>2. \A i \in 1..(Len(q) + 1) : i \in 1..Len(q) \/ i = Len(q) + 1
  BY <1>1
<1>3. Len(q) + 1 \in 1..(Len(q) + 1) /\ \A i \in 1..Len(q) : i \in 1..(Len(q) + 1)
  BY <1>1
<1> QED
  BY <1>1, <1>2, <1>3 DEF Range

LEMMA Dropped ==
  ASSUME NEW tx, NEW rs \in Seq(Nat), NEW k, Dropping(k, tx, rs, Len(rs)), NEW n \in 0..Len(rs)
  PROVE  k[n] \in Seq(Nat) /\ Range(k[n]) = {rs[j] : j \in 1..n} \ {tx}
<1> DEFINE Good(m) == k[m] \in Seq(Nat) /\ Range(k[m]) = {rs[j] : j \in 1..m} \ {tx}
           T == {m \in 0..Len(rs) : ~Good(m)}
<1> SUFFICES ASSUME n \in T PROVE FALSE
  OBVIOUS
<1>0. Len(rs) \in Nat /\ T \subseteq Nat /\ \A i \in 1..Len(rs) : rs[i] \in Nat
  OBVIOUS
<1>1. PICK m \in T : \A j \in T : m <= j
  BY <1>0, LeastNatural
<1>2. \A i \in 0..Len(rs) : k[i] = IF i = 0 THEN <<>> ELSE IF rs[i] = tx THEN k[i - 1] ELSE Append(k[i - 1], rs[i])
  BY DEF Dropping
<1>3. m # 0
  <2>1. k[0] = <<>>
    BY <1>0, <1>2
  <2>2. Good(0)
    BY <2>1 DEF Range
  <2> QED
    BY <1>1, <2>2
<1>4. m \in 1..Len(rs) /\ m - 1 \in 0..Len(rs) /\ m - 1 \notin T
  <2>1. m \in 0..Len(rs)
    BY <1>1
  <2>2. m \in 1..Len(rs) /\ m - 1 \in 0..Len(rs) /\ ~(m <= m - 1)
    BY <1>0, <1>3, <2>1
  <2> HIDE DEF T
  <2> QED
    BY <1>1, <2>2
<1>5. k[m - 1] \in Seq(Nat) /\ Range(k[m - 1]) = {rs[j] : j \in 1..(m - 1)} \ {tx}
  BY <1>4
<1>6. k[m] = IF rs[m] = tx THEN k[m - 1] ELSE Append(k[m - 1], rs[m])
  BY <1>2, <1>3, <1>4
<1>7. {rs[j] : j \in 1..m} = {rs[j] : j \in 1..(m - 1)} \cup {rs[m]}
  <2>1. m \in Nat /\ m \in 1..m /\ \A j \in 1..m : j = m \/ j \in 1..(m - 1)
    BY <1>0, <1>4
  <2>2. \A j \in 1..(m - 1) : j \in 1..m
    BY <2>1
  <2> QED
    BY <2>1, <2>2
<1>8. CASE rs[m] = tx
  <2>1. Good(m)
    BY <1>5, <1>6, <1>7, <1>8
  <2> QED
    BY <1>1, <2>1
<1>9. CASE rs[m] # tx
  <2>1. rs[m] \in Nat
    BY <1>0, <1>4
  <2>2. k[m] \in Seq(Nat) /\ Range(k[m]) = Range(k[m - 1]) \cup {rs[m]}
    BY <1>5, <1>6, <1>9, <2>1, AppendNat
  <2>3. Good(m)
    BY <1>5, <1>7, <1>9, <2>2
  <2> QED
    BY <1>1, <2>3
<1> QED
  BY <1>8, <1>9

LEMMA Others ==
  ASSUME NEW tx, NEW rs \in Seq(Nat)
  PROVE  others(tx, rs) \in Seq(Nat) /\ Range(others(tx, rs)) = Range(rs) \ {tx}
<1> DEFINE n == Len(rs)
           k == CHOOSE k : Dropping(k, tx, rs, n)
<1>1. n \in Nat /\ n \in 0..Len(rs) /\ DOMAIN rs = 1..n
  OBVIOUS
<1>2. Dropping(k, tx, rs, n)
  BY <1>1, DroppingExists
<1>3. others(tx, rs) = k[n]
  BY DEF others, Dropping
<1> HIDE DEF k
<1>4. k[n] \in Seq(Nat) /\ Range(k[n]) = {rs[j] : j \in 1..n} \ {tx}
  BY <1>1, <1>2, Dropped
<1>5. Range(rs) = {rs[j] : j \in 1..n}
  BY <1>1 DEF Range
<1> QED
  BY <1>3, <1>4, <1>5

-----------------------------------------------------------------------------
(* Receipts.                                                               *)
Named(tx) == {tx} \ {0}

LEMMA Normalized ==
  ASSUME NEW tx \in Nat, NEW rs \in Seq(Nat), NEW all, all = normalizeOnchainReceipts(tx, rs)
  PROVE  /\ all \in Seq(Nat) /\ Range(all) = Range(rs) \cup Named(tx)
         /\ all # <<>> => Head(all) \in Range(all) /\ Head(all) \in Nat
         /\ tx # 0 => all # <<>> /\ Head(all) = tx
<1>1. CASE tx = 0
  <2>1. all = rs
    BY <1>1 DEF normalizeOnchainReceipts
  <2>2. rs # <<>> => Head(rs) = rs[1] /\ 1 \in DOMAIN rs /\ rs[1] \in Nat
    OBVIOUS
  <2> QED
    BY <1>1, <2>1, <2>2 DEF Range, Named
<1>2. CASE tx # 0
  <2>1. PICK o : o = others(tx, rs) /\ o \in Seq(Nat) /\ Range(o) = Range(rs) \ {tx}
    BY Others
  <2>2. all = <<tx>> \o o
    BY <1>2, <2>1 DEF normalizeOnchainReceipts
  <2>3. /\ all \in Seq(Nat) /\ Len(all) = 1 + Len(o) /\ Len(o) \in Nat /\ DOMAIN all = 1..Len(all)
        /\ all[1] = tx /\ \A i \in 1..Len(o) : all[i + 1] = o[i]
    BY <2>1, <2>2
  <2>4. DOMAIN o = 1..Len(o)
    BY <2>1
  <2>5. \A i \in 1..Len(all) : i = 1 \/ (i - 1 \in 1..Len(o) /\ all[i] = o[i - 1])
    <3> SUFFICES ASSUME NEW i \in 1..Len(all), i # 1 PROVE i - 1 \in 1..Len(o) /\ all[i] = o[i - 1]
      OBVIOUS
    <3>1. i - 1 \in 1..Len(o) /\ (i - 1) + 1 = i
      BY <2>3
    <3> QED
      BY <2>3, <3>1
  <2>6. \A i \in 1..Len(o) : i + 1 \in 1..Len(all)
    BY <2>3
  <2>7. 1 \in 1..Len(all) /\ all # <<>> /\ Head(all) = all[1]
    BY <2>3
  <2>8. Range(all) = Range(o) \cup {tx}
    <3>1. ASSUME NEW x \in Range(all) PROVE x \in Range(o) \cup {tx}
      <4>1. PICK i \in 1..Len(all) : x = all[i]
        BY <2>3 DEF Range
      <4> QED
        BY <2>3, <2>4, <2>5, <4>1 DEF Range
    <3>2. ASSUME NEW x \in Range(o) PROVE x \in Range(all)
      <4>1. PICK i \in 1..Len(o) : x = o[i]
        BY <2>4 DEF Range
      <4> QED
        BY <2>3, <2>6, <4>1 DEF Range
    <3>3. tx \in Range(all)
      BY <2>3, <2>7 DEF Range
    <3> QED
      BY <3>1, <3>2, <3>3
  <2> QED
    BY <1>2, <2>1, <2>3, <2>7, <2>8 DEF Named
<1> QED
  BY <1>1, <1>2

-----------------------------------------------------------------------------
(* Tickets and lists.                                                      *)
TicketOK(t) == t \in Tickets /\ t.proof \in Range(t.receipts) \cup {0}

LEMMA NormalizedTicket ==
  ASSUME NEW t \in Tickets
  PROVE  /\ TicketOK(normalizeTicketOnchainFields(t))
         /\ normalizeTicketOnchainFields(t).code = t.code
         /\ Range(normalizeTicketOnchainFields(t).receipts) = Range(t.receipts) \cup Named(t.proof)
         /\ t.proof # 0 => normalizeTicketOnchainFields(t).proof = t.proof
<1>1. t.proof \in Nat /\ t.receipts \in Seq(Nat) /\ t.code \in Codes
  BY DEF Tickets
<1>2. PICK all : all = normalizeOnchainReceipts(t.proof, t.receipts)
  OBVIOUS
<1>3. /\ all \in Seq(Nat) /\ Range(all) = Range(t.receipts) \cup Named(t.proof)
      /\ all # <<>> => Head(all) \in Range(all) /\ Head(all) \in Nat
      /\ t.proof # 0 => all # <<>> /\ Head(all) = t.proof
  BY <1>1, <1>2, Normalized
<1>4. normalizeTicketOnchainFields(t) = [t EXCEPT !.receipts = all, !.proof = IF all = <<>> THEN 0 ELSE Head(all)]
  BY <1>2 DEF normalizeTicketOnchainFields
<1>5. normalizeTicketOnchainFields(t) =
        [code |-> t.code, proof |-> IF all = <<>> THEN 0 ELSE Head(all), receipts |-> all]
  BY <1>4 DEF Tickets
<1>6. PICK p : p = (IF all = <<>> THEN 0 ELSE Head(all)) /\ p \in Nat /\ p \in Range(all) \cup {0}
  BY <1>3
<1>7. normalizeTicketOnchainFields(t) = [code |-> t.code, proof |-> p, receipts |-> all]
  BY <1>5, <1>6
<1> QED
  BY <1>1, <1>3, <1>6, <1>7 DEF TicketOK, Tickets

LEMMA TicketOf ==
  ASSUME NEW c \in Codes, NEW tx \in Nat
  PROVE  /\ TicketOK(ticketOf(c, tx)) /\ ticketOf(c, tx).code = c /\ ticketOf(c, tx).proof = tx
         /\ Range(ticketOf(c, tx).receipts) = Named(tx)
<1>1. PICK t : t = [code |-> c, proof |-> tx, receipts |-> <<>>]
  OBVIOUS
<1>2. t \in Tickets /\ t.code = c /\ t.proof = tx /\ Range(t.receipts) = {}
  BY <1>1 DEF Tickets, Range
<1>3. ticketOf(c, tx) = normalizeTicketOnchainFields(t)
  BY <1>1 DEF ticketOf
<1>4. PICK n : n = normalizeTicketOnchainFields(t)
  OBVIOUS
<1>5. TicketOK(n) /\ n.code = c /\ Range(n.receipts) = Named(tx) /\ (tx # 0 => n.proof = tx)
  BY <1>2, <1>4, NormalizedTicket
<1>6. n.proof = tx
  BY <1>5 DEF TicketOK, Named
<1> QED
  BY <1>3, <1>4, <1>5, <1>6

LEMMA MergeTicket ==
  ASSUME NEW old, TicketOK(old), NEW c \in Codes, NEW tx \in Nat
  PROVE  /\ TicketOK(mergeTicket(old, ticketOf(c, tx)))
         /\ Range(mergeTicket(old, ticketOf(c, tx)).receipts) = Range(old.receipts) \cup Named(tx)
<1>1. PICK new : new = ticketOf(c, tx) /\ new.code = c /\ new.proof = tx
  BY TicketOf
<1>2. old.proof \in Nat /\ old.receipts \in Seq(Nat) /\ old.code \in Codes /\ Named(old.proof) \subseteq Range(old.receipts)
  BY DEF TicketOK, Tickets, Named
<1>3. PICK some : /\ some = normalizeOnchainReceipts(old.proof, old.receipts)
                  /\ some \in Seq(Nat) /\ Range(some) = Range(old.receipts)
  <2>1. PICK some : some = normalizeOnchainReceipts(old.proof, old.receipts)
    OBVIOUS
  <2>2. some \in Seq(Nat) /\ Range(some) = Range(old.receipts) \cup Named(old.proof)
    BY <1>2, <2>1, Normalized
  <2>3. Range(some) = Range(old.receipts)
    BY <1>2, <2>2
  <2> QED
    BY <2>1, <2>2, <2>3
<1>4. PICK all : /\ all = normalizeOnchainReceipts(tx, some)
                 /\ all \in Seq(Nat) /\ Range(all) = Range(some) \cup Named(tx)
                 /\ all # <<>> => Head(all) \in Range(all) /\ Head(all) \in Nat
  BY <1>3, Normalized
<1>5. PICK p, d : /\ p = (IF shouldResetCurrentOnchainProof(old, new) \/ all = <<>> THEN 0 ELSE Head(all))
                  /\ d = (IF new.code = NoCode THEN old.code ELSE new.code)
  OBVIOUS
<1>6. p \in Nat /\ p \in Range(all) \cup {0} /\ d \in Codes
  BY <1>1, <1>2, <1>4, <1>5
<1>7. mergeTicket(old, new) = [code |-> d, proof |-> p, receipts |-> all]
  BY <1>1, <1>3, <1>4, <1>5 DEF mergeTicket
<1> QED
  BY <1>1, <1>3, <1>4, <1>6, <1>7 DEF TicketOK, Tickets

-----------------------------------------------------------------------------
LEMMA ListTickets ==
  ASSUME NEW list, NEW n
  PROVE  ListOK(list, n) <=>
           /\ list \in [Events -> Tickets]
           /\ \A e \in Events : TicketOK(list[e]) /\ Range(list[e].receipts) \subseteq 1..n
BY DEF ListOK, TicketOK

LEMMA ListGrows ==
  ASSUME NEW list, NEW n \in Nat, NEW m \in Nat, n <= m, ListOK(list, n)
  PROVE  ListOK(list, m)
<1>1. 1..n \subseteq 1..m
  OBVIOUS
<1> QED
  BY <1>1 DEF ListOK

LEMMA EmptyList ==
  ASSUME NEW n PROVE ListOK(NoTickets, n) /\ held(NoTickets) = {} /\ NoTickets \in [Events -> Tickets]
<1>1. NoTicket \in Tickets /\ NoTicket.proof = 0 /\ Range(NoTicket.receipts) = {}
  BY DEF NoTicket, Tickets, Codes, NoCode, Range
<1> QED
  BY <1>1 DEF ListOK, held, NoTickets

LEMMA WithTicket ==
  ASSUME NEW n \in Nat, NEW list, ListOK(list, n), NEW e \in Events, NEW c \in Codes, NEW tx \in 0..n,
         NEW new, new = withTicket(list, e, ticketOf(c, tx))
  PROVE  ListOK(new, n) /\ held(new) = held(list) \cup Named(tx)
<1>1. tx \in Nat /\ Named(tx) \subseteq 1..n
  BY DEF Named
<1>2. /\ list \in [Events -> Tickets]
      /\ \A d \in Events : TicketOK(list[d]) /\ Range(list[d].receipts) \subseteq 1..n
  BY ListTickets
<1>3. PICK t : t = ticketOf(c, tx)
  OBVIOUS
<1>4. PICK u : u = IF list[e] = NoTicket THEN t ELSE mergeTicket(list[e], t)
  OBVIOUS
<1>5. TicketOK(u) /\ Range(u.receipts) = Range(list[e].receipts) \cup Named(tx)
  <2>1. CASE list[e] = NoTicket
    <3>1. Range(NoTicket.receipts) = {}
      BY DEF NoTicket, Range
    <3>2. TicketOK(t) /\ Range(t.receipts) = Named(tx)
      BY <1>1, <1>3, TicketOf
    <3> QED
      BY <1>4, <2>1, <3>1, <3>2
  <2>2. CASE list[e] # NoTicket
    <3>1. TicketOK(list[e])
      BY <1>2
    <3>2. TicketOK(mergeTicket(list[e], t)) /\ Range(mergeTicket(list[e], t).receipts) = Range(list[e].receipts) \cup Named(tx)
      BY <1>1, <1>3, <3>1, MergeTicket
    <3> QED
      BY <1>4, <2>2, <3>2
  <2> QED
    BY <2>1, <2>2
<1>6. new = [list EXCEPT ![e] = u]
  BY <1>2, <1>3, <1>4 DEF withTicket
<1>7. u \in Tickets
  BY <1>5 DEF TicketOK
<1>8. new \in [Events -> Tickets] /\ new[e] = u /\ \A d \in Events : d # e => new[d] = list[d]
  BY <1>2, <1>6, <1>7
<1>9. ListOK(new, n)
  <2>1. \A d \in Events : TicketOK(new[d]) /\ Range(new[d].receipts) \subseteq 1..n
    BY <1>1, <1>2, <1>5, <1>8
  <2> QED
    BY <1>8, <2>1, ListTickets
<1>10. held(new) = held(list) \cup Named(tx)
  <2>1. ASSUME NEW x \in held(new) PROVE x \in held(list) \cup Named(tx)
    <3>1. PICK d \in Events : x \in Range(new[d].receipts)
      BY DEF held
    <3> QED
      BY <1>5, <1>8, <3>1 DEF held
  <2>2. ASSUME NEW x \in held(list) PROVE x \in held(new)
    <3>1. PICK d \in Events : x \in Range(list[d].receipts)
      BY DEF held
    <3>2. x \in Range(new[d].receipts)
      BY <1>5, <1>8, <3>1
    <3> QED
      BY <3>2 DEF held
  <2>3. Named(tx) \subseteq held(new)
    <3>1. Named(tx) \subseteq Range(new[e].receipts)
      BY <1>5, <1>8
    <3> QED
      BY <3>1 DEF held
  <2> QED
    BY <2>1, <2>2, <2>3
<1> QED
  BY <1>9, <1>10

LEMMA Loaded ==
  ASSUME ClientType, NEW s \in Scopes
  PROVE  ListOK(loadFromStorage(s), Len(txs)) /\ held(loadFromStorage(s)) = heldIn(s)
<1>1. PICK list : list = loadFromStorage(s)
  OBVIOUS
<1>2. list = [e \in Events |-> normalizeTicketOnchainFields(storage[s][e])]
  BY <1>1 DEF loadFromStorage
<1>3. \A e \in Events : TicketOK(storage[s][e]) /\ Range(storage[s][e].receipts) \subseteq 1..Len(txs)
  BY ListTickets DEF ClientType
<1>4. \A e \in Events : storage[s][e] \in Tickets /\ Named(storage[s][e].proof) \subseteq Range(storage[s][e].receipts)
  BY <1>3 DEF TicketOK, Named
<1>5. \A e \in Events : TicketOK(list[e]) /\ Range(list[e].receipts) = Range(storage[s][e].receipts)
  <2> SUFFICES ASSUME NEW e \in Events
               PROVE  TicketOK(list[e]) /\ Range(list[e].receipts) = Range(storage[s][e].receipts)
    OBVIOUS
  <2>1. PICK t \in Tickets : t = storage[s][e] /\ Named(t.proof) \subseteq Range(t.receipts)
    BY <1>4
  <2>2. list[e] = normalizeTicketOnchainFields(t)
    BY <1>2, <2>1
  <2> QED
    BY <2>1, <2>2, NormalizedTicket
<1>6. list \in [Events -> Tickets]
  BY <1>2, <1>5 DEF TicketOK
<1>7. ListOK(list, Len(txs))
  BY <1>3, <1>5, <1>6, ListTickets
<1>8. held(list) = heldIn(s)
  BY <1>5 DEF held, heldIn
<1> QED
  BY <1>1, <1>7, <1>8

-----------------------------------------------------------------------------
(* Steps of the flows.                                                     *)
Inv == TypeInv /\ ScopeInv /\ KeepInv

LEMMA FlowGrows ==
  ASSUME NEW fl, NEW n \in Nat, NEW m \in Nat, n <= m, FlowOK(fl, n)
  PROVE  FlowOK(fl, m)
<1>1. 0..n \subseteq 0..m
  OBVIOUS
<1>2. ListOK(fl.list, m)
  BY ListGrows DEF FlowOK
<1> QED
  BY <1>1, <1>2 DEF FlowOK

LEMMA IdleOK ==
  ASSUME NEW n \in Nat PROVE FlowOK(Idle, n) /\ Idle.pc = "idle" /\ ~Bearing(Idle) /\ Idle \in FlowType
<1>1. Idle \in FlowType
  BY EmptyList DEF Idle, FlowType, Scopes, Codes
<1>2. Idle.pc = "idle" /\ Idle.signed = 0 /\ Idle.list = NoTickets
  BY DEF Idle
<1> QED
  BY <1>1, <1>2, EmptyList DEF FlowOK, Claiming, Carrying, Bearing

(* A claim goes on: only its place, its codes and its transaction change.  *)
GoesOn(a, b) ==
  /\ a.pc \in Claiming /\ b \in FlowType
  /\ b.user = a.user /\ b.event = a.event /\ b.screen = a.screen /\ b.list = a.list

(* Whether what the claim knows is enough for the place it goes to.        *)
Fits(a, pc) ==
  \/ pc \in Unsure
  \/ a.event \in Events /\ (pc \in Late \/ a.user \in Users)

LEMMA GoesOnOK ==
  ASSUME NEW n, NEW a, FlowOK(a, n), NEW b, GoesOn(a, b), b.signed \in 0..n,
         b.pc \in Carrying => b.signed # 0, Fits(a, b.pc)
  PROVE  FlowOK(b, n)
BY DEF FlowOK, GoesOn, Fits, Late

(* A claim on its own screen, or that is not yet late, knows both.         *)
LEMMA Settled ==
  ASSUME NEW n, NEW a, FlowOK(a, n), a.pc \in Claiming, a.pc \notin Late \/ a.screen \in {"confirm", "receive"}
  PROVE  a.user \in Users /\ a.event \in Events /\ \A pc : Fits(a, pc)
BY DEF FlowOK, Fits, Late

MineNext(tx, s) == tx \in excused' \/ txs'[tx].user = s
OwnNext(list, s) == \A tx \in held(list) : MineNext(tx, s)
KeptNext(tx) ==
  \/ \E i \in DOMAIN synced' : synced'[i].tx = tx
  \/ tx \in excused'
  \/ tx \in held(storage'[txs'[tx].user])

(* What is written on the chain, at the worker and about the excuses only  *)
(* grows.                                                                  *)
WorldGrows ==
  /\ Len(txs) <= Len(txs') /\ \A t \in 1..Len(txs) : txs'[t] = txs[t]
  /\ excused \subseteq excused'
  /\ DOMAIN synced \subseteq DOMAIN synced' /\ \A i \in DOMAIN synced : synced'[i] = synced[i]
  /\ \A i \in DOMAIN synced' \ DOMAIN synced : MineNext(synced'[i].tx, synced'[i].user)
  /\ \A tx \in landed' : tx \in landed \/ tx \in excused' \/
       \E f \in Flows : flow'[f].signed = tx /\ Bearing(flow'[f])

Calm(a, b, n) ==
  b = a \/ (a.pc \notin Awaiting /\ FlowOK(b, n) /\ b.pc \notin {"switching", "replace"})

Steady(a, b) == Bearing(a) => (Bearing(b) /\ b.signed = a.signed) \/ a.signed \in excused'

CalmStep ==
  /\ UNCHANGED device /\ WorldGrows
  /\ ClientType' /\ SlotOK' /\ flow' \in [Flows -> FlowType]
  /\ \A f \in Flows : Calm(flow[f], flow'[f], Len(txs')) /\ Steady(flow[f], flow'[f])

LEMMA Lens ==
  ASSUME TypeInv
  PROVE  /\ Len(txs) \in Nat /\ DOMAIN txs = 1..Len(txs)
         /\ \A t \in 1..Len(txs) : txs[t].user \in Users /\ txs[t].event \in Events
         /\ Len(synced) \in Nat /\ DOMAIN synced = 1..Len(synced)
         /\ \A i \in DOMAIN synced : synced[i].tx \in 1..Len(txs) /\ synced[i].user \in Users
<1>1. txs \in Seq([user : Users, event : Events, code : Codes, period : Nat])
  BY DEF TypeInv, ClientType
<1>2. synced \in Seq([user : Users, event : Events, code : Codes, tx : 1..Len(txs)])
  BY DEF TypeInv, ClientType
<1>3. Len(txs) \in Nat /\ DOMAIN txs = 1..Len(txs)
  BY <1>1
<1>4. \A t \in 1..Len(txs) : txs[t].user \in Users /\ txs[t].event \in Events
  <2>1. PICK T : T = [user : Users, event : Events, code : Codes, period : Nat]
    OBVIOUS
  <2>2. \A t \in 1..Len(txs) : txs[t] \in T
    <3>1. txs \in Seq(T)
      BY <1>1, <2>1
    <3> QED
      BY <3>1
  <2>3. \A t \in T : t.user \in Users /\ t.event \in Events
    BY <2>1
  <2> QED
    BY <2>2, <2>3
<1>5. PICK R : R = [user : Users, event : Events, code : Codes, tx : 1..Len(txs)]
  OBVIOUS
<1>6. synced \in Seq(R)
  BY <1>2, <1>5
<1>7. Len(synced) \in Nat /\ DOMAIN synced = 1..Len(synced) /\ \A i \in DOMAIN synced : synced[i] \in R
  BY <1>6
<1>8. \A r \in R : r.tx \in 1..Len(txs) /\ r.user \in Users
  BY <1>5
<1> QED
  BY <1>3, <1>4, <1>7, <1>8

(* What is owned stays owned.                                              *)
LEMMA MineGrows ==
  ASSUME WorldGrows, NEW tx \in 1..Len(txs), NEW s, Mine(tx, s) PROVE MineNext(tx, s)
BY DEF WorldGrows, Mine, MineNext

LEMMA HeldKnown ==
  ASSUME NEW n, NEW list, ListOK(list, n) PROVE held(list) \subseteq 1..n
BY DEF ListOK, held

LEMMA OwnGrows ==
  ASSUME WorldGrows, NEW list, ListOK(list, Len(txs)), NEW s, Own(list, s) PROVE OwnNext(list, s)
BY MineGrows, HeldKnown DEF Own, OwnNext

LEMMA SyncedGrows ==
  ASSUME TypeInv, ScopeInv, WorldGrows
  PROVE  \A i \in DOMAIN synced' : MineNext(synced'[i].tx, synced'[i].user)
<1> SUFFICES ASSUME NEW i \in DOMAIN synced' PROVE MineNext(synced'[i].tx, synced'[i].user)
  OBVIOUS
<1>1. CASE i \in DOMAIN synced
  <2>1. synced[i].tx \in 1..Len(txs) /\ Mine(synced[i].tx, synced[i].user) /\ synced'[i] = synced[i]
    BY <1>1, Lens DEF ScopeInv, WorldGrows
  <2> QED
    BY <2>1, MineGrows
<1>2. CASE i \notin DOMAIN synced
  BY <1>2 DEF WorldGrows
<1> QED
  BY <1>1, <1>2

(* The flows after a step, from the flows that moved.                      *)
LEMMA FlowsMove ==
  ASSUME TypeInv, NEW n \in Nat, Len(txs) <= n, flow' \in [Flows -> FlowType], n = Len(txs'),
         \A f \in Flows : flow'[f] = flow[f] \/ FlowOK(flow'[f], n)
  PROVE  FlowsOK'
<1>1. \A f \in Flows : FlowOK(flow'[f], n)
  BY Lens, FlowGrows DEF TypeInv, FlowsOK
<1> QED
  BY <1>1 DEF FlowsOK

LEMMA ScopeFrom ==
  ASSUME \A s \in Scopes : OwnNext(storage'[s], s), OwnNext(tickets', user'),
         \A j \in jobs' : OwnNext(j.list, j.user),
         \A f \in Flows : flow'[f].pc \in {"switching", "replace"} => OwnNext(flow'[f].list, flow'[f].user),
         \A i \in DOMAIN synced' : MineNext(synced'[i].tx, synced'[i].user)
  PROVE  ScopeInv'
BY DEF ScopeInv, Own, OwnNext, Mine, MineNext

LEMMA KeepFrom ==
  ASSUME overlapped' \/ /\ \A j \in jobs' : held(storage'[j.user]) \subseteq held(j.list)
                        /\ (\E j \in jobs' : j.user = user') \/ held(storage'[user']) \subseteq held(tickets')
                        /\ \A tx \in landed' : KeptNext(tx) \/ \E f \in Flows : flow'[f].signed = tx /\ Bearing(flow'[f])
  PROVE  KeepInv'
<1>1. ASSUME NEW tx, KeptNext(tx)
      PROVE  (\E r \in Range(synced') : r.tx = tx) \/ tx \in excused' \/ tx \in held(storage'[txs'[tx].user])
  BY <1>1 DEF KeptNext, Range
<1> QED
  BY <1>1 DEF KeepInv, Kept, told, heldIn, Bearing

(* A payout on record stays there while nothing is dropped from the list   *)
(* of its account that is not told or excused.                             *)
Retained(s) == \A tx \in heldIn(s) : KeptNext(tx) \/ tx \in held(storage'[s])

LEMMA KeptStays ==
  ASSUME TypeInv, WorldGrows, NEW tx \in landed, Kept(tx), \A s \in Scopes : Retained(s)
  PROVE  KeptNext(tx)
<1>1. tx \in 1..Len(txs) /\ txs'[tx] = txs[tx] /\ txs[tx].user \in Users
  <2>1. tx \in 1..Len(txs)
    BY DEF TypeInv, ClientType
  <2>2. txs'[tx] = txs[tx]
    BY <2>1 DEF WorldGrows
  <2> QED
    BY <2>1, <2>2, Lens
<1>2. CASE told(tx)
  <2>1. PICK i \in DOMAIN synced : synced[i].tx = tx
    BY <1>2 DEF told, Range
  <2> QED
    BY <2>1 DEF WorldGrows, KeptNext
<1>3. CASE tx \in excused
  BY <1>3 DEF WorldGrows, KeptNext
<1>4. CASE tx \in heldIn(txs[tx].user)
  BY <1>1, <1>4 DEF Retained, Scopes, KeptNext
<1> QED
  BY <1>2, <1>3, <1>4 DEF Kept

LEMMA LandedStay ==
  ASSUME TypeInv, KeepInv, ~overlapped, WorldGrows, \A s \in Scopes : Retained(s),
         \A f \in Flows : Bearing(flow[f]) => \/ Bearing(flow'[f]) /\ flow'[f].signed = flow[f].signed
                                              \/ KeptNext(flow[f].signed)
  PROVE  \A tx \in landed' : KeptNext(tx) \/ \E f \in Flows : flow'[f].signed = tx /\ Bearing(flow'[f])
<1> SUFFICES ASSUME NEW tx \in landed'
             PROVE  KeptNext(tx) \/ \E f \in Flows : flow'[f].signed = tx /\ Bearing(flow'[f])
  OBVIOUS
<1>1. CASE tx \in landed
  <2>1. Kept(tx) \/ \E f \in Flows : flow[f].signed = tx /\ Bearing(flow[f])
    BY <1>1 DEF KeepInv
  <2>2. CASE Kept(tx)
    BY <1>1, <2>2, KeptStays
  <2>3. CASE \E f \in Flows : flow[f].signed = tx /\ Bearing(flow[f])
    BY <2>3
  <2> QED
    BY <2>1, <2>2, <2>3
<1>2. CASE tx \notin landed
  BY <1>2 DEF WorldGrows, KeptNext
<1> QED
  BY <1>1, <1>2

LEMMA CalmKeeps ==
  ASSUME Inv, CalmStep PROVE Inv'
<1>1. /\ TypeInv /\ ScopeInv /\ KeepInv /\ WorldGrows
      /\ user' = user /\ tickets' = tickets /\ storage' = storage /\ jobs' = jobs /\ overlapped' = overlapped
  BY DEF Inv, CalmStep, device
<1>2. Len(txs) \in Nat /\ Len(txs') \in Nat /\ Len(txs) <= Len(txs')
  BY <1>1, Lens DEF WorldGrows, CalmStep, ClientType
<1>3. FlowsOK'
  <2>1. \A f \in Flows : flow'[f] = flow[f] \/ FlowOK(flow'[f], Len(txs'))
    BY DEF CalmStep, Calm
  <2>2. flow' \in [Flows -> FlowType]
    BY DEF CalmStep
  <2> QED
    BY <1>1, <1>2, <2>1, <2>2, FlowsMove
<1>4. JobsOK'
  <2>1. \A j \in jobs : ListOK(j.list, Len(txs'))
    BY <1>1, <1>2, ListGrows DEF TypeInv, JobsOK
  <2>2. \A j \in jobs : j.by \in Flows => flow'[j.by].pc \in Awaiting
    BY <1>1 DEF TypeInv, JobsOK, CalmStep, Calm
  <2> QED
    BY <1>1, <2>1, <2>2 DEF TypeInv, JobsOK
<1>5. TypeInv'
  BY <1>3, <1>4 DEF TypeInv, CalmStep
<1>6. ScopeInv'
  <2>1. \A s \in Scopes : OwnNext(storage'[s], s)
    BY <1>1, OwnGrows DEF TypeInv, ClientType, ScopeInv
  <2>2. OwnNext(tickets', user')
    BY <1>1, OwnGrows DEF TypeInv, ClientType, ScopeInv
  <2>3. \A j \in jobs' : OwnNext(j.list, j.user)
    BY <1>1, OwnGrows DEF TypeInv, JobsOK, ScopeInv
  <2>4. \A f \in Flows : flow'[f].pc \in {"switching", "replace"} => OwnNext(flow'[f].list, flow'[f].user)
    <3> SUFFICES ASSUME NEW f \in Flows, flow'[f].pc \in {"switching", "replace"}
                 PROVE  OwnNext(flow'[f].list, flow'[f].user)
      OBVIOUS
    <3>1. flow'[f] = flow[f]
      BY DEF CalmStep, Calm
    <3>2. ListOK(flow[f].list, Len(txs)) /\ Own(flow[f].list, flow[f].user)
      BY <1>1, <3>1 DEF TypeInv, FlowsOK, FlowOK, ScopeInv
    <3> QED
      BY <1>1, <3>1, <3>2, OwnGrows
  <2>5. \A i \in DOMAIN synced' : MineNext(synced'[i].tx, synced'[i].user)
    BY <1>1, SyncedGrows
  <2> QED
    BY <2>1, <2>2, <2>3, <2>4, <2>5, ScopeFrom
<1>7. KeepInv'
  <2>1. CASE overlapped
    BY <1>1, <2>1, KeepFrom
  <2>2. CASE ~overlapped
    <3>1. \A s \in Scopes : Retained(s)
      BY <1>1 DEF Retained, heldIn
    <3>2. \A tx \in landed' : KeptNext(tx) \/ \E f \in Flows : flow'[f].signed = tx /\ Bearing(flow'[f])
      BY <1>1, <2>2, <3>1, LandedStay DEF CalmStep, Steady, KeptNext
    <3>3. /\ \A j \in jobs' : held(storage'[j.user]) \subseteq held(j.list)
          /\ (\E j \in jobs' : j.user = user') \/ held(storage'[user']) \subseteq held(tickets')
      BY <1>1, <2>2 DEF KeepInv, heldIn
    <3> QED
      BY <3>2, <3>3, KeepFrom
  <2> QED
    BY <2>1, <2>2
<1> QED
  BY <1>5, <1>6, <1>7 DEF Inv

-----------------------------------------------------------------------------
(* Steps that leave the store alone.                                       *)
LEMMA NoContextOK == ContextOK(NoContext)
BY DEF ContextOK, NoContext, Scopes, Codes

LEMMA WebMade ==
  ASSUME NEW p, NEW c, NEW d, PathOK(p), ContextOK(c), ContextOK(d)
  PROVE  WebOK([path |-> p, user |-> c, wallet |-> d])
BY DEF WebOK

LEMMA NoWebOK == WebOK(NoWeb)
<1>1. PathOK(NoPath)
  BY DEF PathOK, NoPath
<1> QED
  BY <1>1, NoContextOK, WebMade DEF NoWeb

LEMMA WebHolds ==
  ASSUME TypeInv
  PROVE  /\ WebOK(web) /\ web = [path |-> web.path, user |-> web.user, wallet |-> web.wallet]
         /\ PathOK(web.path) /\ ContextOK(web.user) /\ ContextOK(web.wallet)
BY DEF TypeInv, ClientType, WebOK

(* One slot is overwritten.                                                *)
LEMMA WebSlots ==
  ASSUME TypeInv, NEW c, ContextOK(c), NEW p, PathOK(p)
  PROVE  /\ WebOK([web EXCEPT !.path = p]) /\ WebOK([web EXCEPT !.user = c]) /\ WebOK([web EXCEPT !.wallet = c])
<1>1. PICK q, a, b : web = [path |-> q, user |-> a, wallet |-> b] /\ PathOK(q) /\ ContextOK(a) /\ ContextOK(b)
  BY DEF TypeInv, ClientType, WebOK
<1>2. /\ [web EXCEPT !.path = p] = [path |-> p, user |-> a, wallet |-> b]
      /\ [web EXCEPT !.user = c] = [path |-> q, user |-> c, wallet |-> b]
      /\ [web EXCEPT !.wallet = c] = [path |-> q, user |-> a, wallet |-> c]
  BY <1>1
<1> QED
  BY <1>1, <1>2, WebMade

LEMMA PathKept ==
  ASSUME TypeInv PROVE WebOK([NoWeb EXCEPT !.path = web.path])
<1>1. [NoWeb EXCEPT !.path = web.path] = [path |-> web.path, user |-> NoContext, wallet |-> NoContext]
  BY DEF NoWeb
<1> QED
  BY <1>1, NoContextOK, WebHolds, WebMade

LEMMA ClearedOK ==
  ASSUME TypeInv, NEW fs PROVE WebOK(cleared(fs))
<1>1. PICK c : c = (IF \E f \in fs : flow[f].screen = "confirm" THEN NoContext ELSE web.user)
  OBVIOUS
<1>2. PICK d : d = (IF \E f \in fs : flow[f].screen = "receive" THEN NoContext ELSE web.wallet)
  OBVIOUS
<1>3. ContextOK(c) /\ ContextOK(d) /\ PathOK(web.path)
  BY <1>1, <1>2, WebHolds, NoContextOK
<1> QED
  BY <1>1, <1>2, <1>3, WebMade DEF cleared

LEMMA OneFlow ==
  ASSUME Inv, NEW f \in Flows, NEW b, flow' = [flow EXCEPT ![f] = b], FlowOK(b, Len(txs)),
         flow[f].pc \notin Awaiting \cup {"sign"}, b.pc \notin {"switching", "replace"},
         Steady(flow[f], b), UNCHANGED <<device, txs, pending>>, ClientType', WorldGrows
  PROVE  CalmStep
<1>1. flow \in [Flows -> FlowType] /\ b \in FlowType
  BY DEF Inv, TypeInv, FlowsOK, FlowOK
<1>2. flow' \in [Flows -> FlowType] /\ flow'[f] = b /\ \A g \in Flows : g # f => flow'[g] = flow[g]
  BY <1>1
<1>3. SlotOK'
  BY <1>2 DEF Inv, TypeInv, SlotOK
<1>4. \A g \in Flows : Calm(flow[g], flow'[g], Len(txs')) /\ Steady(flow[g], flow'[g])
  BY <1>2 DEF Calm, Steady
<1> QED
  BY <1>2, <1>3, <1>4 DEF CalmStep

LEMMA WorldSame ==
  ASSUME TypeInv, UNCHANGED <<txs, excused, synced, landed>> PROVE WorldGrows
BY Lens DEF WorldGrows

LEMMA ExcuseGrows ==
  ASSUME TypeInv, UNCHANGED <<txs, synced, landed>>, excused \subseteq excused' PROVE WorldGrows
BY Lens DEF WorldGrows

LEMMA ClientSame ==
  ASSUME TypeInv, UNCHANGED <<device, txs, synced, landed>>, requests' \subseteq requests,
         launchUrl' = launchUrl, issued' \in [Users -> [Events -> Nat]], period' \in Nat, WebOK(web')
  PROVE  ClientType'
BY DEF TypeInv, ClientType, device

(* A step of one flow that changes nothing else but what the browser keeps. *)
LEMMA QuietOne ==
  ASSUME Inv, NEW f \in Flows, NEW b, flow' = [flow EXCEPT ![f] = b], FlowOK(b, Len(txs)),
         flow[f].pc \notin Awaiting \cup {"sign"}, b.pc \notin {"switching", "replace"},
         Steady(flow[f], b), UNCHANGED <<device, signing, txs, synced, landed, period, excused>>,
         issued' \in [Users -> [Events -> Nat]], WebOK(web')
  PROVE  CalmStep
<1>1. TypeInv /\ period \in Nat
  BY DEF Inv, TypeInv, ClientType
<1>2. WorldGrows
  BY <1>1, WorldSame
<1>3. ClientType'
  BY <1>1, ClientSame DEF signing
<1> QED
  BY <1>2, <1>3, OneFlow DEF signing

LEMMA NewRecord ==
  ASSUME NEW n \in Nat, NEW u \in Users, NEW d \in Codes, NEW l, l = NoTickets, NEW e \in Events,
         NEW screen \in {"confirm", "receive"}, NEW b,
         b = [pc |-> "claimed", screen |-> screen, user |-> u, event |-> e, code |-> d, seen |-> NoCode,
              signed |-> 0, retries |-> 0, list |-> l]
  PROVE  FlowOK(b, n) /\ b.pc = "claimed"
<1>1. l \in [Events -> Tickets] /\ ListOK(l, n)
  BY EmptyList
<1>2. NoCode \in Codes
  BY DEF Codes
<1>3. b \in FlowType
  BY <1>1, <1>2 DEF FlowType, Scopes, Screens, Claiming
<1>4. b.list = l /\ b.signed = 0 /\ b.pc = "claimed" /\ b.user = u /\ b.event = e /\ b.screen = screen
  OBVIOUS
<1>5. b.signed \in 0..n /\ b.pc \notin Carrying
  BY <1>4 DEF Carrying
<1> QED
  BY <1>1, <1>3, <1>4, <1>5 DEF FlowOK, Screens

LEMMA Started ==
  ASSUME TypeInv, user # Nobody, NEW e \in Events, NEW c \in Nat, NEW screen \in {"confirm", "receive"}
  PROVE  /\ FlowOK([Idle EXCEPT !.pc = "claimed", !.screen = screen, !.user = user, !.event = e,
                                !.code = <<user, c>>], Len(txs))
         /\ [Idle EXCEPT !.pc = "claimed", !.screen = screen, !.user = user, !.event = e,
                         !.code = <<user, c>>].pc = "claimed"
<1>1. user \in Users /\ Len(txs) \in Nat
  BY Lens DEF TypeInv, ClientType, Scopes
<1>2. <<user, c>> \in Codes
  BY <1>1 DEF Codes
<1>3. PICK d : d = <<user, c>>
  OBVIOUS
<1>4. PICK b : b = [Idle EXCEPT !.pc = "claimed", !.screen = screen, !.user = user, !.event = e, !.code = d]
  OBVIOUS
<1>5. b = [pc |-> "claimed", screen |-> screen, user |-> user, event |-> e, code |-> d, seen |-> NoCode,
           signed |-> 0, retries |-> 0, list |-> NoTickets]
  BY <1>4 DEF Idle
<1>6. FlowOK(b, Len(txs)) /\ b.pc = "claimed"
  BY <1>1, <1>2, <1>3, <1>5, NewRecord
<1> QED
  BY <1>3, <1>4, <1>6

LEMMA CodeForType ==
  ASSUME TypeInv, NEW u \in Users, NEW e \in Events PROVE codeFor(u, e) \in Nat /\ issued[u][e] \in Nat
<1>1. issued[u][e] \in Nat
  BY DEF TypeInv, ClientType
<1> QED
  BY <1>1 DEF codeFor

LEMMA CalmParticipate ==
  ASSUME Inv, NEW f \in Flows, NEW e \in Events, handleParticipate(f, e) PROVE CalmStep
<1>1. TypeInv /\ user \in Users
  BY DEF handleParticipate, Inv, TypeInv, ClientType, Scopes
<1>2. PICK b : b = [Idle EXCEPT !.pc = "claimed", !.screen = "confirm", !.user = user, !.event = e,
                                !.code = <<user, codeFor(user, e)>>]
  OBVIOUS
<1>3. flow' = [flow EXCEPT ![f] = b] /\ flow[f].pc = "idle" /\ user # Nobody
  BY <1>2 DEF handleParticipate, start
<1>4. codeFor(user, e) \in Nat
  BY <1>1, CodeForType
<1>5. FlowOK(b, Len(txs)) /\ b.pc = "claimed"
  BY <1>1, <1>2, <1>3, <1>4, Started
<1>6. issued' \in [Users -> [Events -> Nat]]
  <2>1. issued' = [issued EXCEPT ![user][e] = codeFor(user, e)] /\ issued \in [Users -> [Events -> Nat]]
    BY <1>1 DEF handleParticipate, TypeInv, ClientType
  <2> QED
    BY <1>1, <1>4, <2>1
<1>7. WebOK(web')
  BY <1>1, NoContextOK, WebHolds, WebSlots DEF handleParticipate
<1>8. UNCHANGED <<device, signing, txs, synced, landed, period, excused>>
  BY DEF handleParticipate
<1>9. Steady(flow[f], b)
  BY <1>3 DEF Steady, Bearing
<1>10. flow[f].pc \notin Awaiting \cup {"sign"} /\ b.pc \notin {"switching", "replace"}
  BY <1>3, <1>5 DEF Awaiting
<1> QED
  BY <1>3, <1>5, <1>6, <1>7, <1>8, <1>9, <1>10, QuietOne

LEMMA CalmClaimSolana ==
  ASSUME Inv, NEW f \in Flows, NEW e \in Events, handleClaimSolana(f, e) PROVE CalmStep
<1>1. TypeInv /\ user \in Users
  BY DEF handleClaimSolana, Inv, TypeInv, ClientType, Scopes
<1>0. PICK c \in Nat : c = issued[user][e]
  BY <1>1, CodeForType
<1>2. PICK b : b = [Idle EXCEPT !.pc = "claimed", !.screen = "receive", !.user = user, !.event = e,
                                !.code = <<user, c>>]
  OBVIOUS
<1>3. flow' = [flow EXCEPT ![f] = b] /\ flow[f].pc = "idle" /\ user # Nobody
  BY <1>0, <1>2 DEF handleClaimSolana, start
<1>5. FlowOK(b, Len(txs)) /\ b.pc = "claimed"
  BY <1>0, <1>1, <1>2, <1>3, Started
<1>6. issued' \in [Users -> [Events -> Nat]]
  BY <1>1 DEF handleClaimSolana, world, TypeInv, ClientType
<1>7. WebOK(web')
  BY <1>1, NoContextOK, WebHolds, WebSlots DEF handleClaimSolana
<1>8. UNCHANGED <<device, signing, txs, synced, landed, period, excused>>
  BY DEF handleClaimSolana, world
<1>9. Steady(flow[f], b)
  BY <1>3 DEF Steady, Bearing
<1>10. flow[f].pc \notin Awaiting \cup {"sign"} /\ b.pc \notin {"switching", "replace"}
  BY <1>3, <1>5 DEF Awaiting
<1> QED
  BY <1>3, <1>5, <1>6, <1>7, <1>8, <1>9, <1>10, QuietOne

(* The proofs a flow may reuse are transactions that were built.           *)
LEMMA ProofsKnown ==
  ASSUME TypeInv, NEW f \in Flows, flow[f].pc = "check", NEW tx \in existingProofs(flow[f])
  PROVE  tx \in 1..Len(txs)
<1>1. CASE tx \in proofOfCode(flow[f].user, flow[f].event, flow[f].code)
  <2>1. PICK r \in Range(synced) : tx = r.tx
    BY <1>1 DEF proofOfCode
  <2>2. PICK i \in DOMAIN synced : r = synced[i]
    BY DEF Range
  <2> QED
    BY <2>1, <2>2, Lens
<1>2. CASE tx = storedProof(flow[f].event, flow[f].code) /\ tx # 0
  <2>1. flow[f].event \in Events
    BY DEF TypeInv, FlowsOK, FlowOK, Claiming, Unsure
  <2>2. tx = tickets[flow[f].event].proof
    BY <1>2 DEF storedProof
  <2> QED
    BY <1>2, <2>1, <2>2 DEF TypeInv, ClientType, ListOK
<1> QED
  BY <1>1, <1>2 DEF existingProofs

LEMMA FlowAt ==
  ASSUME Inv, NEW f \in Flows
  PROVE  /\ TypeInv /\ flow \in [Flows -> FlowType] /\ flow[f] \in FlowType /\ FlowOK(flow[f], Len(txs))
         /\ Len(txs) \in Nat
BY Lens DEF Inv, TypeInv, FlowsOK

LEMMA CalmReuse ==
  ASSUME Inv, NEW f \in Flows, reuseProof(f) PROVE CalmStep
<1>1. /\ TypeInv /\ flow \in [Flows -> FlowType] /\ flow[f] \in FlowType /\ FlowOK(flow[f], Len(txs))
      /\ Len(txs) \in Nat /\ flow[f].pc = "check" /\ flow[f].pc \in Claiming
  BY FlowAt DEF reuseProof, Claiming
<1>2. PICK tx \in existingProofs(flow[f]) : flow' = [flow EXCEPT ![f].pc = "success", ![f].signed = tx]
  BY DEF reuseProof
<1>3. tx \in 1..Len(txs) /\ tx \in Nat
  BY <1>1, ProofsKnown
<1>4. PICK b : b = [flow[f] EXCEPT !.pc = "success", !.signed = tx]
  OBVIOUS
<1>5. flow' = [flow EXCEPT ![f] = b]
  BY <1>1, <1>2, <1>4
<1>6. b \in FlowType /\ GoesOn(flow[f], b) /\ b.pc = "success" /\ b.signed = tx
  BY <1>1, <1>3, <1>4 DEF FlowType, GoesOn, Claiming
<1>7. FlowOK(b, Len(txs))
  <2>1. Fits(flow[f], b.pc)
    BY <1>1, Settled DEF Late, Unsure
  <2> QED
    BY <1>1, <1>3, <1>6, <2>1, GoesOnOK DEF Carrying
<1>8. issued' \in [Users -> [Events -> Nat]] /\ UNCHANGED <<device, signing, txs, synced, landed, period, excused>>
  BY <1>1 DEF reuseProof, world, TypeInv, ClientType
<1>9. WebOK(web')
  BY <1>1, ClearedOK DEF reuseProof
<1>10. Steady(flow[f], b) /\ flow[f].pc \notin Awaiting \cup {"sign"} /\ b.pc \notin {"switching", "replace"}
  BY <1>1, <1>6 DEF Steady, Bearing, Awaiting
<1> QED
  BY <1>5, <1>7, <1>8, <1>9, <1>10, QuietOne

LEMMA GivenOK ==
  ASSUME NEW n \in Nat, NEW a, FlowOK(a, n), a.pc \in Claiming, NEW b \in given(a)
  PROVE  FlowOK(b, n) /\ b.pc \in {"success", "idle"}
<1>1. CASE b = Idle
  BY <1>1, IdleOK
<1>2. CASE b = [a EXCEPT !.pc = "success", !.signed = 0] /\ a.screen = "confirm"
  <2>1. a \in FlowType
    BY DEF FlowOK
  <2>2. GoesOn(a, b) /\ b.pc = "success" /\ b.signed = 0
    BY <1>2, <2>1 DEF FlowType, GoesOn, Claiming
  <2>3. Fits(a, b.pc)
    BY <1>2, Settled
  <2> QED
    BY <2>2, <2>3, GoesOnOK DEF Carrying
<1> QED
  BY <1>1, <1>2 DEF given

LEMMA CalmNotReady ==
  ASSUME Inv, NEW f \in Flows, notReady(f) PROVE CalmStep
<1>1. /\ TypeInv /\ flow \in [Flows -> FlowType] /\ flow[f] \in FlowType /\ FlowOK(flow[f], Len(txs))
      /\ Len(txs) \in Nat /\ flow[f].pc \in {"check", "build"} /\ flow[f].pc \in Claiming
  BY FlowAt DEF notReady, mayAttempt, Claiming
<1>2. PICK b \in given(flow[f]) : flow' = [flow EXCEPT ![f] = b]
  BY DEF notReady
<1>3. FlowOK(b, Len(txs)) /\ b.pc \in {"success", "idle"}
  BY <1>1, GivenOK
<1>4. issued' \in [Users -> [Events -> Nat]] /\ UNCHANGED <<device, signing, txs, synced, landed, period, excused>>
  BY <1>1 DEF notReady, world, TypeInv, ClientType
<1>5. WebOK(web')
  BY <1>1, ClearedOK, WebHolds DEF notReady
<1>6. Steady(flow[f], b) /\ flow[f].pc \notin Awaiting \cup {"sign"} /\ b.pc \notin {"switching", "replace"}
  BY <1>1, <1>3 DEF Steady, Bearing, Awaiting
<1> QED
  BY <1>2, <1>3, <1>4, <1>5, <1>6, QuietOne

-----------------------------------------------------------------------------
(* Signing.                                                                *)
LEMMA ListsGrow ==
  ASSUME TypeInv, NEW n \in Nat, Len(txs) <= n
  PROVE  ListOK(tickets, n) /\ \A s \in Scopes : ListOK(storage[s], n)
<1>1. Len(txs) \in Nat
  BY Lens
<1> QED
  BY <1>1, ListGrows DEF TypeInv, ClientType

LEMMA CalmSign ==
  ASSUME Inv, NEW f \in Flows, signTransaction(f) PROVE CalmStep
<1>1. /\ TypeInv /\ flow \in [Flows -> FlowType] /\ flow[f] \in FlowType /\ FlowOK(flow[f], Len(txs))
      /\ Len(txs) \in Nat /\ flow[f].pc \in {"check", "build"} /\ flow[f].pc \in Claiming
  BY FlowAt DEF signTransaction, mayAttempt, Claiming
<1>2. PICK tx : tx = buildClaimTx(flow[f])
  OBVIOUS
<1>3. tx \in [user : Users, event : Events, code : Codes, period : Nat]
  <2>1. flow[f].user \in Users /\ flow[f].event \in Events /\ flow[f].code \in Codes /\ period \in Nat
    BY <1>1, Settled DEF FlowType, TypeInv, ClientType, Late, Unsure
  <2>2. tx = [user |-> flow[f].user, event |-> flow[f].event, code |-> flow[f].code, period |-> period]
    BY <1>2 DEF buildClaimTx
  <2> QED
    BY <2>1, <2>2
<1>4. PICK T : T = [user : Users, event : Events, code : Codes, period : Nat]
  OBVIOUS
<1>5. txs \in Seq(T) /\ tx \in T /\ txs' = Append(txs, tx)
  BY <1>1, <1>2, <1>3, <1>4 DEF signTransaction, TypeInv, ClientType
<1>6. txs' \in Seq(T) /\ Len(txs') = Len(txs) + 1 /\ \A t \in 1..Len(txs) : txs'[t] = txs[t]
  BY <1>5
<1>7. Len(txs') \in Nat /\ Len(txs) <= Len(txs') /\ 1..Len(txs) \subseteq 1..Len(txs') /\ Len(txs) + 1 \in 1..Len(txs')
      /\ 0..Len(txs) \subseteq 0..Len(txs')
  BY <1>1, <1>6
<1>8. /\ UNCHANGED <<device, launchUrl, issued, synced, landed, period, excused>> /\ pending' = f
      /\ requests' = requests \cup {Len(txs) + 1} /\ web' = [web EXCEPT !.path = returnPath(flow[f])]
      /\ flow' = [flow EXCEPT ![f].pc = "sign", ![f].signed = 0]
  BY DEF signTransaction, askPhantom
<1>9. PICK b : b = [flow[f] EXCEPT !.pc = "sign", !.signed = 0]
  OBVIOUS
<1>10. flow' = [flow EXCEPT ![f] = b]
  BY <1>1, <1>8, <1>9
<1>11. GoesOn(flow[f], b) /\ b.pc = "sign" /\ b.signed = 0
  BY <1>1, <1>9 DEF FlowType, GoesOn, Claiming
<1>12. FlowOK(b, Len(txs)) /\ FlowOK(b, Len(txs'))
  <2>0. Fits(flow[f], b.pc)
    BY <1>1, Settled DEF Late, Unsure
  <2>1. FlowOK(b, Len(txs))
    BY <1>1, <1>11, <2>0, GoesOnOK DEF Carrying
  <2> QED
    BY <1>1, <1>7, <2>1, FlowGrows
<1>13. flow' \in [Flows -> FlowType] /\ flow'[f] = b /\ \A g \in Flows : g # f => flow'[g] = flow[g]
  <2>1. b \in FlowType
    BY <1>12 DEF FlowOK
  <2> QED
    BY <1>1, <1>10, <2>1
<1>14. SlotOK'
  BY <1>8, <1>11, <1>13 DEF SlotOK
<1>15. WebOK(web')
  <2>1. PathOK(returnPath(flow[f]))
    BY <1>1, WebHolds DEF returnPath, PathOK, FlowType
  <2> QED
    BY <1>1, <1>8, <2>1, NoContextOK, WebSlots
<1>16. ClientType'
  <2>1. user' \in Scopes /\ ListOK(tickets', Len(txs'))
    BY <1>1, <1>7, <1>8, ListsGrow DEF device, TypeInv, ClientType
  <2>2. storage' \in [Scopes -> [Events -> Tickets]] /\ \A s \in Scopes : ListOK(storage'[s], Len(txs'))
    BY <1>1, <1>7, <1>8, ListsGrow DEF device, TypeInv, ClientType
  <2>3. requests' \subseteq 1..Len(txs') /\ launchUrl' \in 0..Len(txs') /\ landed' \subseteq 1..Len(txs')
    BY <1>1, <1>7, <1>8 DEF TypeInv, ClientType
  <2>4. synced' \in Seq([user : Users, event : Events, code : Codes, tx : 1..Len(txs')])
    <3>1. PICK R, Q : /\ R = [user : Users, event : Events, code : Codes, tx : 1..Len(txs)]
                      /\ Q = [user : Users, event : Events, code : Codes, tx : 1..Len(txs')]
      OBVIOUS
    <3>2. R \subseteq Q
      BY <1>7, <3>1
    <3>3. synced \in Seq(R) /\ synced' = synced
      BY <1>1, <1>8, <3>1 DEF TypeInv, ClientType
    <3>4. synced' \in Seq(Q)
      BY <3>2, <3>3
    <3> QED
      BY <3>1, <3>4
  <2>5. issued' \in [Users -> [Events -> Nat]] /\ period' \in Nat /\ overlapped' \in BOOLEAN
    BY <1>1, <1>8 DEF device, TypeInv, ClientType
  <2> QED
    BY <1>4, <1>6, <1>15, <2>1, <2>2, <2>3, <2>4, <2>5 DEF ClientType
<1>17. WorldGrows
  BY <1>6, <1>7, <1>8 DEF WorldGrows
<1>18. \A g \in Flows : Calm(flow[g], flow'[g], Len(txs')) /\ Steady(flow[g], flow'[g])
  BY <1>1, <1>11, <1>12, <1>13 DEF Calm, Steady, Bearing, Awaiting
<1> QED
  BY <1>8, <1>13, <1>14, <1>16, <1>17, <1>18 DEF CalmStep

LEMMA OffChain ==
  ASSUME NEW n \in Nat, NEW a, FlowOK(a, n), a.pc = "sign", NEW b, b = [a EXCEPT !.pc = "success", !.signed = 0]
  PROVE  FlowOK(b, n) /\ b.pc = "success"
<1>1. a \in FlowType
  BY DEF FlowOK
<1>2. GoesOn(a, b) /\ b.pc = "success" /\ b.signed = 0
  BY <1>1 DEF FlowType, GoesOn, Claiming
<1>3. b.signed \in 0..n /\ b.pc \notin Carrying
  BY <1>2 DEF Carrying
<1>4. Fits(a, b.pc)
  BY Settled DEF Claiming, Late, Unsure
<1> QED
  BY <1>2, <1>3, <1>4, GoesOnOK

(* Rejections: flows that await a signature give up, and the slot is free. *)
LEMMA RejectCalm ==
  ASSUME Inv, NEW also \in SUBSET Flows, \A f \in also : flow[f].pc = "sign", rejectPendingSignTx(also),
         UNCHANGED <<device, world, excused, launchUrl>>, requests' \subseteq requests
  PROVE  CalmStep
<1>1. /\ TypeInv /\ flow \in [Flows -> FlowType] /\ Len(txs) \in Nat
      /\ \A f \in Flows : flow[f] \in FlowType /\ FlowOK(flow[f], Len(txs))
  BY Lens DEF Inv, TypeInv, FlowsOK
<1>2. PICK next \in [({pending} \cup also) \ {Nobody} -> {"off", "stop"}] :
        flow' = [f \in Flows |-> IF f \notin DOMAIN next THEN flow[f]
                                 ELSE IF next[f] = "stop" THEN Idle
                                 ELSE [flow[f] EXCEPT !.pc = "success", !.signed = 0]]
  BY DEF rejectPendingSignTx
<1>3. \A f \in DOMAIN next : f \in Flows /\ flow[f].pc = "sign"
  BY <1>1, <1>2 DEF TypeInv, SlotOK
<1>4. ASSUME NEW f \in Flows
      PROVE  /\ flow'[f] = flow[f] \/ (flow[f].pc = "sign" /\ FlowOK(flow'[f], Len(txs)) /\ flow'[f].pc \in {"idle", "success"})
             /\ flow'[f] \in FlowType
  <2>1. CASE f \notin DOMAIN next
    BY <1>1, <1>2, <2>1
  <2>2. CASE f \in DOMAIN next /\ next[f] = "stop"
    <3>1. flow'[f] = Idle
      BY <1>2, <2>2
    <3> QED
      BY <1>1, <1>3, <2>2, <3>1, IdleOK
  <2>3. CASE f \in DOMAIN next /\ next[f] # "stop"
    <3>1. PICK b : b = [flow[f] EXCEPT !.pc = "success", !.signed = 0]
      OBVIOUS
    <3>2. flow'[f] = b /\ flow[f].pc = "sign"
      BY <1>2, <1>3, <2>3, <3>1
    <3>3. flow[f] \in FlowType /\ FlowOK(flow[f], Len(txs))
      BY <1>1
    <3>5. FlowOK(b, Len(txs)) /\ b.pc = "success"
      BY <1>1, <3>1, <3>2, <3>3, OffChain, ZenonT(60)
    <3>6. b \in FlowType
      BY <3>5 DEF FlowOK
    <3> QED
      BY <3>2, <3>5, <3>6
  <2> QED
    BY <2>1, <2>2, <2>3
<1>5. flow' \in [Flows -> FlowType]
  BY <1>2, <1>4
<1>6. SlotOK'
  BY DEF rejectPendingSignTx, SlotOK
<1>7. ClientType'
  <2>1. issued' \in [Users -> [Events -> Nat]] /\ period' \in Nat
    BY <1>1 DEF world, TypeInv, ClientType
  <2>2. WebOK(web')
    BY <1>1, ClearedOK DEF rejectPendingSignTx
  <2> QED
    BY <1>1, <2>1, <2>2, ClientSame DEF world
<1>8. WorldGrows
  BY <1>1, WorldSame DEF world
<1>9. \A f \in Flows : Calm(flow[f], flow'[f], Len(txs')) /\ Steady(flow[f], flow'[f])
  BY <1>4 DEF Calm, Steady, Bearing, Awaiting, world
<1> QED
  BY <1>5, <1>6, <1>7, <1>8, <1>9 DEF CalmStep

LEMMA CalmDeclined ==
  ASSUME Inv, NEW tx, declined(tx) PROVE CalmStep
<1>2. /\ rejectPendingSignTx({}) /\ requests' \subseteq requests
      /\ UNCHANGED <<device, world, excused, launchUrl>>
  BY DEF declined
<1> QED
  BY <1>2, RejectCalm

LEMMA CalmCancel ==
  ASSUME Inv, NEW f \in Flows, handleCancelPhantomWait(f) PROVE CalmStep
<1>2. /\ rejectPendingSignTx({}) /\ requests' \subseteq requests
      /\ UNCHANGED <<device, world, excused, launchUrl>>
  BY DEF handleCancelPhantomWait
<1> QED
  BY <1>2, RejectCalm

LEMMA CalmTimeout ==
  ASSUME Inv, NEW f \in Flows, signTimeout(f) PROVE CalmStep
<1>2. requests' \subseteq requests /\ UNCHANGED <<device, world, excused, launchUrl>>
  BY DEF signTimeout
<1>3. CASE flow[f].pc = "sign" /\ rejectPendingSignTx(timedOut(f))
  BY <1>2, <1>3, RejectCalm DEF timedOut
<1>4. CASE rejectPendingSignTx({})
  BY <1>2, <1>4, RejectCalm
<1> QED
  BY <1>3, <1>4 DEF signTimeout

(* Answers: the flow in the slot goes on to send what it is given.         *)
LEMMA ResolveCalm ==
  ASSUME Inv, NEW tx \in 1..Len(txs), resolvePendingSignTx(tx),
         UNCHANGED <<device, world, excused, launchUrl, web>>, requests' \subseteq requests
  PROVE  CalmStep
<1>1. /\ TypeInv /\ flow \in [Flows -> FlowType] /\ Len(txs) \in Nat /\ tx \in Nat /\ tx # 0
      /\ \A f \in Flows : flow[f] \in FlowType /\ FlowOK(flow[f], Len(txs))
  BY Lens DEF Inv, TypeInv, FlowsOK
<1>2. SlotOK'
  BY DEF resolvePendingSignTx, SlotOK
<1>3. ClientType'
  <2>1. issued' \in [Users -> [Events -> Nat]] /\ period' \in Nat /\ WebOK(web')
    BY <1>1 DEF world, TypeInv, ClientType
  <2> QED
    BY <1>1, <2>1, ClientSame DEF world
<1>4. WorldGrows
  BY <1>1, WorldSame DEF world
<1>5. CASE pending = Nobody
  <2>1. flow' = flow
    BY <1>5 DEF resolvePendingSignTx
  <2> QED
    BY <1>1, <1>2, <1>3, <1>4, <2>1 DEF CalmStep, Calm, Steady
<1>6. CASE pending # Nobody
  <2>1. PICK f \in Flows : f = pending /\ flow[f].pc = "sign"
    BY <1>1, <1>6 DEF TypeInv, SlotOK
  <2>2. PICK b : b = [flow[f] EXCEPT !.pc = "send", !.signed = tx]
    OBVIOUS
  <2>3. flow[f] \in FlowType /\ FlowOK(flow[f], Len(txs))
    BY <1>1
  <2>4. flow' = [flow EXCEPT ![f] = b]
    BY <1>1, <1>6, <2>1, <2>2 DEF resolvePendingSignTx
  <2>5. GoesOn(flow[f], b) /\ b.pc = "send" /\ b.signed = tx
    BY <1>1, <2>1, <2>2, <2>3 DEF FlowType, GoesOn, Claiming
  <2>6. FlowOK(b, Len(txs)) /\ b \in FlowType
    <3>1. Fits(flow[f], b.pc)
      BY <2>5 DEF Fits, Unsure
    <3> QED
      BY <1>1, <2>3, <2>5, <3>1, GoesOnOK DEF GoesOn
  <2>7. flow' \in [Flows -> FlowType] /\ flow'[f] = b /\ \A g \in Flows : g # f => flow'[g] = flow[g]
    BY <1>1, <2>4, <2>6
  <2>8. \A g \in Flows : Calm(flow[g], flow'[g], Len(txs')) /\ Steady(flow[g], flow'[g])
    BY <2>1, <2>5, <2>6, <2>7 DEF Calm, Steady, Bearing, Awaiting, world
  <2> QED
    BY <1>2, <1>3, <1>4, <2>7, <2>8 DEF CalmStep
<1> QED
  BY <1>5, <1>6

LEMMA CalmRedirect ==
  ASSUME Inv, NEW tx, handleRedirect(tx) PROVE CalmStep
<1>1. tx \in 1..Len(txs) /\ requests' \subseteq requests
  BY DEF handleRedirect, Inv, TypeInv, ClientType
<1>2. resolvePendingSignTx(tx) /\ UNCHANGED <<device, world, excused, launchUrl, web>>
  BY DEF handleRedirect
<1> QED
  BY <1>1, <1>2, ResolveCalm

LEMMA CalmReprocess ==
  ASSUME Inv, reprocessInitialUrl PROVE CalmStep
<1>1. launchUrl \in 1..Len(txs) /\ requests' \subseteq requests
  BY Lens DEF reprocessInitialUrl, Inv, TypeInv, ClientType
<1>2. resolvePendingSignTx(launchUrl) /\ UNCHANGED <<device, world, excused, launchUrl, web>>
  BY DEF reprocessInitialUrl
<1> QED
  BY <1>1, <1>2, ResolveCalm

LEMMA CalmPeriod ==
  ASSUME Inv, nextPeriod PROVE CalmStep
<1>1. TypeInv /\ flow \in [Flows -> FlowType]
  BY DEF Inv, TypeInv, FlowsOK
<1>2. UNCHANGED <<device, flow, signing, web, issued, synced, txs, landed, excused>> /\ period' = period + 1
  BY DEF nextPeriod
<1>3. WebOK(web') /\ period' \in Nat /\ issued' \in [Users -> [Events -> Nat]]
  BY <1>1, <1>2, SMTT(30) DEF TypeInv, ClientType
<1>4. ClientType'
  BY <1>1, <1>2, <1>3, ClientSame DEF signing
<1>5. WorldGrows
  BY <1>1, <1>2, WorldSame
<1>6. SlotOK'
  BY <1>1, <1>2 DEF signing, TypeInv, SlotOK
<1> QED
  BY <1>1, <1>2, <1>4, <1>5, <1>6 DEF CalmStep, Calm, Steady

-----------------------------------------------------------------------------
(* Sending and syncing.                                                    *)
LEMMA ClientWorld ==
  ASSUME TypeInv, UNCHANGED <<device, signing, txs, issued, period>>, WebOK(web'),
         landed' \subseteq 1..Len(txs),
         synced' \in Seq([user : Users, event : Events, code : Codes, tx : 1..Len(txs)])
  PROVE  ClientType'
BY DEF TypeInv, ClientType, device, signing

LEMMA OtherPc ==
  ASSUME NEW n \in Nat, NEW a, FlowOK(a, n), a.pc \in Claiming, NEW pc \in Claiming, pc \in Carrying => a.signed # 0,
         Fits(a, pc), NEW b, b = [a EXCEPT !.pc = pc]
  PROVE  FlowOK(b, n) /\ b.pc = pc /\ b.signed = a.signed /\ b.screen = a.screen
<1>1. a \in FlowType /\ a.signed \in 0..n
  BY DEF FlowOK
<1>2. GoesOn(a, b) /\ b.pc = pc /\ b.signed = a.signed /\ b.screen = a.screen
  BY <1>1 DEF FlowType, GoesOn
<1> QED
  BY <1>1, <1>2, GoesOnOK

LEMMA Retry ==
  ASSUME NEW n \in Nat, NEW a, FlowOK(a, n), a.pc \in Claiming, a.retries < retriesOf(a.screen),
         NEW b, b = [a EXCEPT !.pc = "build", !.retries = @ + 1]
  PROVE  FlowOK(b, n) /\ b.pc = "build"
<1>1. a \in FlowType /\ a.signed \in 0..n /\ a.retries \in Nat
  BY DEF FlowOK, FlowType
<1>2. a.screen \in {"confirm", "receive"}
  BY <1>1 DEF retriesOf
<1>3. PICK r \in Nat : r = a.retries + 1
  BY <1>1
<1>4. GoesOn(a, b) /\ b.pc = "build" /\ b.signed = a.signed
  BY <1>1, <1>3 DEF FlowType, GoesOn, Claiming
<1>5. Fits(a, b.pc)
  BY <1>2, Settled
<1> QED
  BY <1>1, <1>4, <1>5, GoesOnOK DEF Carrying

(* A flow that sends has a transaction; confirmed, it bears it.            *)
LEMMA Sending ==
  ASSUME Inv, NEW f \in Flows, flow[f].pc = "send"
  PROVE  /\ TypeInv /\ flow \in [Flows -> FlowType] /\ flow[f] \in FlowType /\ FlowOK(flow[f], Len(txs))
         /\ Len(txs) \in Nat /\ flow[f].signed \in 1..Len(txs) /\ flow[f].pc \in Claiming
         /\ flow[f].screen \in Screens /\ ~Bearing(flow[f]) /\ flow[f].pc \notin Awaiting \cup {"sign"}
<1>1. TypeInv /\ flow \in [Flows -> FlowType] /\ flow[f] \in FlowType /\ FlowOK(flow[f], Len(txs)) /\ Len(txs) \in Nat
  BY FlowAt
<1>2. flow[f].signed \in 0..Len(txs) /\ flow[f].signed # 0 /\ flow[f].screen \in Screens /\ flow[f].pc \in Claiming
  BY <1>1 DEF FlowOK, Claiming, Carrying
<1>3. flow[f].signed \in 1..Len(txs)
  BY <1>1, <1>2
<1> QED
  BY <1>1, <1>2, <1>3 DEF Bearing, Awaiting

LEMMA CalmConfirmed ==
  ASSUME Inv, NEW f \in Flows, sendConfirmed(f) PROVE CalmStep
<1>1. flow[f].pc = "send"
  BY DEF sendConfirmed
<1>2. /\ TypeInv /\ flow \in [Flows -> FlowType] /\ flow[f] \in FlowType /\ FlowOK(flow[f], Len(txs))
      /\ Len(txs) \in Nat /\ flow[f].signed \in 1..Len(txs) /\ flow[f].pc \in Claiming
      /\ flow[f].screen \in Screens /\ ~Bearing(flow[f]) /\ flow[f].pc \notin Awaiting \cup {"sign"}
  BY <1>1, Sending
<1>3. PICK pc, b : pc = onConfirmed(flow[f]) /\ b = [flow[f] EXCEPT !.pc = pc]
  OBVIOUS
<1>4. /\ pc \in {"record", "sync", "resume"} /\ pc \in Claiming /\ flow[f].signed # 0
      /\ pc # "record" => flow[f].screen # "confirm"
      /\ pc # "resume" => flow[f].screen \in {"confirm", "receive"}
  BY <1>2, <1>3 DEF onConfirmed, Screens, Claiming
<1>5. flow' = [flow EXCEPT ![f] = b]
  BY <1>2, <1>3 DEF sendConfirmed, after
<1>6. FlowOK(b, Len(txs)) /\ b.pc = pc /\ b.signed = flow[f].signed /\ b.screen = flow[f].screen
  <2>1. Fits(flow[f], pc)
    BY <1>2, <1>4, Settled DEF Fits, Unsure
  <2> QED
    BY <1>2, <1>3, <1>4, <2>1, OtherPc
<1>7. /\ UNCHANGED <<device, signing, web, issued, synced, txs, period, excused>>
      /\ landed' = landed \cup {flow[f].signed}
  BY DEF sendConfirmed
<1>8. ClientType'
  <2>1. landed' \subseteq 1..Len(txs) /\ synced' \in Seq([user : Users, event : Events, code : Codes, tx : 1..Len(txs)])
    BY <1>2, <1>7 DEF TypeInv, ClientType
  <2>2. WebOK(web')
    BY <1>2, <1>7, WebHolds
  <2> QED
    BY <1>2, <1>7, <2>1, <2>2, ClientWorld
<1>9. flow'[f] = b /\ Bearing(b)
  BY <1>2, <1>4, <1>5, <1>6 DEF Bearing
<1>10. WorldGrows
  BY <1>2, <1>6, <1>7, <1>9 DEF WorldGrows
<1>11. Steady(flow[f], b) /\ b.pc \notin {"switching", "replace"}
  BY <1>2, <1>4, <1>6 DEF Steady
<1> QED
  BY <1>2, <1>5, <1>6, <1>7, <1>8, <1>10, <1>11, OneFlow DEF signing

LEMMA Retries ==
  ASSUME Inv, NEW f \in Flows, flow[f].pc = "send", retryOrGiveUp(f)
  PROVE  /\ \E b : flow' = [flow EXCEPT ![f] = b] /\ FlowOK(b, Len(txs)) /\ b.pc \in {"build", "success", "idle"}
         /\ WebOK(web')
<1>1. /\ TypeInv /\ flow \in [Flows -> FlowType] /\ flow[f] \in FlowType /\ FlowOK(flow[f], Len(txs))
      /\ Len(txs) \in Nat /\ flow[f].pc \in Claiming
  BY Sending
<1>2. WebOK(web) /\ WebOK(cleared({f}))
  BY <1>1, WebHolds, ClearedOK
<1>3. CASE /\ flow[f].retries < retriesOf(flow[f].screen)
           /\ flow' = [flow EXCEPT ![f].pc = "build", ![f].retries = @ + 1] /\ UNCHANGED web
  <2>1. PICK b : b = [flow[f] EXCEPT !.pc = "build", !.retries = @ + 1]
    OBVIOUS
  <2>2. flow' = [flow EXCEPT ![f] = b]
    BY <1>1, <1>3, <2>1
  <2>3. FlowOK(b, Len(txs)) /\ b.pc = "build"
    BY <1>1, <1>3, <2>1, Retry
  <2> QED
    BY <1>2, <1>3, <2>2, <2>3
<1>4. CASE /\ \E b \in given(flow[f]) : flow' = [flow EXCEPT ![f] = b]
           /\ web' = cleared({f})
  <2>1. PICK b \in given(flow[f]) : flow' = [flow EXCEPT ![f] = b]
    BY <1>4
  <2>2. FlowOK(b, Len(txs)) /\ b.pc \in {"success", "idle"}
    BY <1>1, GivenOK
  <2> QED
    BY <1>2, <1>4, <2>1, <2>2
<1> QED
  BY <1>3, <1>4 DEF retryOrGiveUp

LEMMA CalmUnconfirmed ==
  ASSUME Inv, NEW f \in Flows, sendUnconfirmed(f) PROVE CalmStep
<1>1. flow[f].pc = "send" /\ retryOrGiveUp(f)
  BY DEF sendUnconfirmed
<1>2. /\ TypeInv /\ flow[f].signed \in 1..Len(txs) /\ ~Bearing(flow[f]) /\ flow[f].pc \notin Awaiting \cup {"sign"}
      /\ Len(txs) \in Nat
  BY <1>1, Sending
<1>3. WebOK(web')
  BY <1>1, Retries
<1>4. PICK b : flow' = [flow EXCEPT ![f] = b] /\ FlowOK(b, Len(txs)) /\ b.pc \in {"build", "success", "idle"}
  BY <1>1, Retries
<1>5. /\ UNCHANGED <<device, signing, issued, synced, txs, period>>
      /\ landed' = landed \cup {flow[f].signed} /\ excused' = excused \cup {flow[f].signed}
  BY DEF sendUnconfirmed
<1>6. ClientType'
  <2>1. landed' \subseteq 1..Len(txs) /\ synced' \in Seq([user : Users, event : Events, code : Codes, tx : 1..Len(txs)])
    BY <1>2, <1>5 DEF TypeInv, ClientType
  <2> QED
    BY <1>2, <1>3, <1>5, <2>1, ClientWorld
<1>7. WorldGrows
  BY <1>2, <1>5 DEF WorldGrows
<1>8. Steady(flow[f], b) /\ b.pc \notin {"switching", "replace"}
  BY <1>2, <1>4 DEF Steady
<1> QED
  BY <1>2, <1>4, <1>5, <1>6, <1>7, <1>8, OneFlow DEF signing

LEMMA CalmFailed ==
  ASSUME Inv, NEW f \in Flows, sendFailed(f) PROVE CalmStep
<1>1. flow[f].pc = "send" /\ retryOrGiveUp(f)
  BY DEF sendFailed
<1>2. TypeInv /\ ~Bearing(flow[f]) /\ flow[f].pc \notin Awaiting \cup {"sign"}
  BY <1>1, Sending
<1>3. WebOK(web')
  BY <1>1, Retries
<1>4. PICK b : flow' = [flow EXCEPT ![f] = b] /\ FlowOK(b, Len(txs)) /\ b.pc \in {"build", "success", "idle"}
  BY <1>1, Retries
<1>5. UNCHANGED <<device, signing, txs, synced, landed, period, excused>> /\ issued' \in [Users -> [Events -> Nat]]
  BY <1>2 DEF sendFailed, world, TypeInv, ClientType
<1>6. Steady(flow[f], b) /\ b.pc \notin {"switching", "replace"}
  BY <1>2, <1>4 DEF Steady
<1> QED
  BY <1>2, <1>3, <1>4, <1>5, <1>6, QuietOne

LEMMA CalmAlreadyInUse ==
  ASSUME Inv, NEW f \in Flows, sendAlreadyInUse(f) PROVE CalmStep
<1>1. flow[f].pc = "send"
  BY DEF sendAlreadyInUse
<1>2. /\ TypeInv /\ flow \in [Flows -> FlowType] /\ flow[f] \in FlowType /\ FlowOK(flow[f], Len(txs))
      /\ Len(txs) \in Nat /\ flow[f].signed \in 1..Len(txs) /\ flow[f].pc \in Claiming
      /\ ~Bearing(flow[f]) /\ flow[f].pc \notin Awaiting \cup {"sign"}
  BY <1>1, Sending
<1>3. PICK d, b : d = [flow[f] EXCEPT !.pc = "recordDead"] /\ b = IF flow[f].screen = "confirm" THEN d ELSE Idle
  OBVIOUS
<1>4. flow' = [flow EXCEPT ![f] = b]
  BY <1>2, <1>3 DEF sendAlreadyInUse
<1>5. "recordDead" \in Claiming /\ flow[f].signed # 0
  BY <1>2 DEF Claiming
<1>6. flow[f].screen = "confirm" => FlowOK(d, Len(txs)) /\ d.pc = "recordDead"
  <2> SUFFICES ASSUME flow[f].screen = "confirm" PROVE FlowOK(d, Len(txs)) /\ d.pc = "recordDead"
    OBVIOUS
  <2>1. Fits(flow[f], "recordDead")
    BY <1>2, Settled
  <2> QED
    BY <1>2, <1>3, <1>5, <2>1, OtherPc
<1>7. FlowOK(b, Len(txs)) /\ b.pc \in {"recordDead", "idle"}
  BY <1>2, <1>3, <1>6, IdleOK
<1>8. UNCHANGED <<device, signing, txs, synced, landed, period, excused>> /\ issued' \in [Users -> [Events -> Nat]]
  BY <1>2 DEF sendAlreadyInUse, world, TypeInv, ClientType
<1>9. WebOK(web')
  BY <1>2, ClearedOK, WebHolds DEF sendAlreadyInUse
<1>10. Steady(flow[f], b) /\ b.pc \notin {"switching", "replace"}
  BY <1>2, <1>7 DEF Steady
<1> QED
  BY <1>2, <1>4, <1>7, <1>8, <1>9, <1>10, QuietOne

-----------------------------------------------------------------------------
(* Syncing: the payout is told, or stays with its flow.                    *)
LEMMA MovesOn ==
  ASSUME NEW n, NEW a, FlowOK(a, n), a.pc \in Claiming, NEW b, b \in FlowType, b.user = a.user, a.event \in Events,
         b.signed = a.signed, a.signed # 0, b.list = a.list, b.event = a.event, b.screen = a.screen,
         a.user \in Users \/ (a.pc \in Late /\ b.pc \in Late)
  PROVE  FlowOK(b, n)
BY DEF FlowOK

LEMMA ToldGrows ==
  ASSUME Inv, NEW f \in Flows, flow[f].pc = "sync", UNCHANGED <<txs, landed>>,
         synced' = Append(synced, [user |-> flow[f].user, event |-> flow[f].event,
                                   code |-> flow[f].code, tx |-> flow[f].signed]),
         excused' = excused \cup misattributed(f)
  PROVE  /\ WorldGrows
         /\ synced' \in Seq([user : Users, event : Events, code : Codes, tx : 1..Len(txs)])
<1>1. TypeInv /\ flow[f] \in FlowType /\ FlowOK(flow[f], Len(txs)) /\ Len(txs) \in Nat
  BY FlowAt
<1>2. flow[f].user \in Users /\ flow[f].event \in Events /\ flow[f].code \in Codes /\ flow[f].signed \in 1..Len(txs)
  BY <1>1 DEF FlowOK, FlowType, Claiming, Carrying, Late, Unsure
<1>3. PICK R : R = [user : Users, event : Events, code : Codes, tx : 1..Len(txs)]
  OBVIOUS
<1>4. PICK r : r = [user |-> flow[f].user, event |-> flow[f].event, code |-> flow[f].code, tx |-> flow[f].signed]
  OBVIOUS
<1>5. r \in R /\ r.tx = flow[f].signed /\ r.user = flow[f].user
  BY <1>2, <1>3, <1>4
<1>6. synced \in Seq(R) /\ synced' = Append(synced, r)
  BY <1>1, <1>3, <1>4 DEF TypeInv, ClientType
<1>7. /\ synced' \in Seq(R) /\ DOMAIN synced = 1..Len(synced) /\ DOMAIN synced' = 1..(Len(synced) + 1)
      /\ Len(synced) \in Nat /\ synced'[Len(synced) + 1] = r /\ \A i \in 1..Len(synced) : synced'[i] = synced[i]
  BY <1>5, <1>6
<1>8. /\ DOMAIN synced \subseteq DOMAIN synced'
      /\ \A i \in DOMAIN synced' \ DOMAIN synced : synced'[i] = r
  BY <1>7
<1>9. MineNext(r.tx, r.user)
  BY <1>5 DEF MineNext, misattributed
<1>10. WorldGrows
  BY <1>1, <1>7, <1>8, <1>9 DEF WorldGrows
<1> QED
  BY <1>3, <1>7, <1>10

LEMMA CalmSync ==
  ASSUME Inv, NEW f \in Flows, syncProof(f) PROVE CalmStep
<1>1. /\ TypeInv /\ flow \in [Flows -> FlowType] /\ flow[f] \in FlowType /\ FlowOK(flow[f], Len(txs))
      /\ Len(txs) \in Nat /\ flow[f].pc = "sync"
  BY FlowAt DEF syncProof
<1>2. /\ flow[f].pc \in Claiming /\ flow[f].pc \notin Awaiting \cup {"sign"} /\ flow[f].signed # 0
      /\ flow[f].user \in Users /\ flow[f].event \in Events
      /\ Bearing(flow[f]) <=> flow[f].screen # "confirm"
  BY <1>1 DEF FlowOK, Claiming, Carrying, Awaiting, Bearing, Late, Unsure
<1>3. /\ UNCHANGED <<device, signing, issued, txs, landed, period>>
      /\ web' = IF flow[f].screen = "confirm" THEN cleared({f}) ELSE web
  BY DEF syncProof
<1>4. WebOK(web')
  BY <1>1, <1>3, WebHolds, ClearedOK
<1>5. PICK pc : pc = IF flow[f].screen = "confirm" THEN "success" ELSE "record"
  OBVIOUS
<1>6. pc \in Claiming /\ pc \notin {"switching", "replace"}
  BY <1>5 DEF Claiming
<1>7. PICK d, e : d = [flow[f] EXCEPT !.pc = pc] /\ e = [d EXCEPT !.seen = NoCode]
  OBVIOUS
<1>8. PICK b : flow' = [flow EXCEPT ![f] = b] /\ (b = d \/ b = e \/ (b = Idle /\ flow[f].screen = "confirm"))
  BY <1>5, <1>7 DEF syncProof
<1>9. FlowOK(b, Len(txs)) /\ b.pc \notin {"switching", "replace"} /\ Steady(flow[f], b)
  <2>1. CASE b = Idle /\ flow[f].screen = "confirm"
    <3>1. ~Bearing(flow[f])
      BY <1>2, <2>1
    <3> QED
      BY <1>1, <2>1, <3>1, IdleOK DEF Steady
  <2>2. CASE b = d \/ b = e
    <3>1. /\ b \in FlowType /\ b.pc = pc /\ b.signed = flow[f].signed /\ b.list = flow[f].list
          /\ b.event = flow[f].event /\ b.screen = flow[f].screen /\ b.user = flow[f].user
      <4>1. PICK a : a = flow[f]
        OBVIOUS
      <4>2. a \in FlowType /\ pc \in Claiming /\ d = [a EXCEPT !.pc = pc] /\ (b = d \/ b = [d EXCEPT !.seen = NoCode])
        BY <1>1, <1>6, <1>7, <2>2, <4>1
      <4>3. /\ b \in FlowType /\ b.pc = pc /\ b.signed = a.signed /\ b.list = a.list
            /\ b.event = a.event /\ b.screen = a.screen /\ b.user = a.user
        <5>1. CASE b = d
          BY <4>2, <5>1 DEF FlowType
        <5>2. CASE b = [d EXCEPT !.seen = NoCode]
          <6>1. PICK c \in Codes : c = NoCode
            BY DEF Codes
          <6>2. b = [a EXCEPT !.pc = pc, !.seen = c]
            BY <4>2, <5>2, <6>1 DEF FlowType
          <6> QED
            BY <4>2, <6>2 DEF FlowType
        <5> QED
          BY <4>2, <5>1, <5>2
      <4> QED
        BY <4>1, <4>3
    <3>2. FlowOK(b, Len(txs))
      BY <1>1, <1>2, <3>1, MovesOn
    <3>3. Bearing(flow[f]) => b.pc = "record"
      BY <1>2, <1>5, <3>1
    <3> QED
      BY <1>6, <3>1, <3>2, <3>3 DEF Steady, Bearing
  <2> QED
    BY <1>8, <2>1, <2>2
<1>10. WorldGrows /\ synced' \in Seq([user : Users, event : Events, code : Codes, tx : 1..Len(txs)])
  <2>1. CASE UNCHANGED <<synced, excused>>
    BY <1>1, <1>3, <2>1, WorldSame DEF TypeInv, ClientType
  <2>2. CASE /\ synced' = Append(synced, [user |-> flow[f].user, event |-> flow[f].event,
                                          code |-> flow[f].code, tx |-> flow[f].signed])
             /\ excused' = excused \cup misattributed(f)
    BY <1>1, <1>3, <2>2, ToldGrows
  <2> QED
    BY <2>1, <2>2 DEF syncProof
<1>11. ClientType'
  <2>1. landed' \subseteq 1..Len(txs)
    BY <1>1, <1>3 DEF TypeInv, ClientType
  <2> QED
    BY <1>1, <1>3, <1>4, <1>10, <2>1, ClientWorld
<1> QED
  BY <1>2, <1>3, <1>8, <1>9, <1>10, <1>11, OneFlow DEF signing

(* The callback page once its payout is confirmed: the flow it goes on     *)
(* with, when it knows the event.                                          *)
LEMMA Resumed ==
  ASSUME Inv, NEW f \in Flows, flow[f].pc = "resume"
  PROVE  /\ TypeInv /\ flow \in [Flows -> FlowType] /\ flow[f] \in FlowType /\ FlowOK(flow[f], Len(txs))
         /\ Len(txs) \in Nat /\ flow[f].pc \in Claiming /\ flow[f].pc \notin Awaiting \cup {"sign"}
         /\ flow[f].signed # 0 /\ flow[f].event \in Events \cup {Nobody} /\ user \in Scopes
         /\ \A e \in Events : tickets[e].code \in Codes
<1>1. /\ TypeInv /\ flow \in [Flows -> FlowType] /\ flow[f] \in FlowType /\ FlowOK(flow[f], Len(txs))
      /\ Len(txs) \in Nat
  BY FlowAt
<1>2. /\ flow[f].pc \in Claiming /\ flow[f].pc \notin Awaiting \cup {"sign"}
      /\ flow[f].signed # 0 /\ flow[f].event \in Events \cup {Nobody}
  BY <1>1 DEF FlowOK, FlowType, Claiming, Carrying, Awaiting
<1>3. user \in Scopes /\ \A e \in Events : tickets[e] \in Tickets
  BY <1>1 DEF TypeInv, ClientType, ListOK
<1>4. \A e \in Events : tickets[e].code \in Codes
  BY <1>3 DEF Tickets
<1> QED
  BY <1>1, <1>2, <1>3, <1>4

LEMMA ResumeRecord ==
  ASSUME Inv, NEW f \in Flows, flow[f].pc = "resume", NEW e \in Events, NEW u \in Scopes, NEW c \in Codes,
         NEW d \in Codes, NEW pc \in {"sync", "record", "scoping"}, u \in Users \/ pc = "record",
         NEW s \in {"callback", "wallet"}, NEW b,
         b = [pc |-> pc, screen |-> s, user |-> u, event |-> e, code |-> c, seen |-> d,
              signed |-> flow[f].signed, retries |-> flow[f].retries, list |-> flow[f].list]
  PROVE  /\ FlowOK(b, Len(txs)) /\ b.pc = pc /\ b.user = u /\ Bearing(b) /\ b.signed = flow[f].signed
<1>1. /\ flow[f] \in FlowType /\ FlowOK(flow[f], Len(txs)) /\ flow[f].signed # 0
  BY Resumed
<1>2. PICK n, r, l : n = flow[f].signed /\ r = flow[f].retries /\ l = flow[f].list
  OBVIOUS
<1>3. n \in Nat /\ r \in Nat /\ l \in [Events -> Tickets] /\ n \in 0..Len(txs) /\ ListOK(l, Len(txs))
  BY <1>1, <1>2 DEF FlowOK, FlowType
<1>4. b = [pc |-> pc, screen |-> s, user |-> u, event |-> e, code |-> c, seen |-> d,
           signed |-> n, retries |-> r, list |-> l]
  BY <1>2
<1>5. pc \in Claiming /\ s \in Screens /\ (pc = "record" => pc \in Late)
  BY DEF Claiming, Screens, Late
<1>6. b \in FlowType
  BY <1>3, <1>4, <1>5 DEF FlowType
<1>7. /\ b.pc = pc /\ b.screen = s /\ b.user = u /\ b.event = e /\ b.signed = n /\ b.list = l
  BY <1>4
<1>8. FlowOK(b, Len(txs))
  BY <1>1, <1>2, <1>3, <1>5, <1>6, <1>7 DEF FlowOK
<1>9. Bearing(b)
  BY <1>7 DEF Bearing
<1> QED
  BY <1>2, <1>7, <1>8, <1>9

(* The account's list stays: the flow records, or excuses, its payout.     *)
LEMMA CalmResume ==
  ASSUME Inv, NEW f \in Flows, resume(f), UNCHANGED <<user, tickets, jobs>>, NEW b, flow' = [flow EXCEPT ![f] = b],
         FlowOK(b, Len(txs)), b.pc \notin {"switching", "replace"}, Steady(flow[f], b), excused \subseteq excused'
  PROVE  CalmStep
<1>1. /\ flow[f].pc = "resume" /\ UNCHANGED <<storage, overlapped, signing, world>>
      /\ web' = [NoWeb EXCEPT !.path = web.path]
  BY DEF resume
<1>2. TypeInv /\ flow[f].pc \notin Awaiting \cup {"sign"}
  BY <1>1, Resumed
<1>3. WebOK(web')
  BY <1>1, <1>2, PathKept
<1>4. UNCHANGED <<device, signing, txs, synced, landed, period>> /\ issued' \in [Users -> [Events -> Nat]]
      /\ period' \in Nat
  BY <1>1, <1>2 DEF device, world, TypeInv, ClientType
<1>5. ClientType'
  BY <1>2, <1>3, <1>4, ClientSame DEF signing
<1>6. WorldGrows
  BY <1>2, <1>4, ExcuseGrows
<1> QED
  BY <1>2, <1>4, <1>5, <1>6, OneFlow DEF signing

-----------------------------------------------------------------------------
(* Steps that use the store.                                               *)
Moves ==
  /\ flow' \in [Flows -> FlowType] /\ pending' = pending
  /\ \A g \in Flows : flow'[g] = flow[g] \/
       /\ flow[g].pc \notin Awaiting \cup {"sign"} /\ FlowOK(flow'[g], Len(txs))
       /\ flow'[g].pc \in {"switching", "replace"} => OwnNext(flow'[g].list, flow'[g].user)

Enqueues(job) ==
  /\ jobs' = jobs \cup {job}
  /\ job \in [user : Scopes, list : [Events -> Tickets], by : Flows \cup {Nobody}]
  /\ ListOK(job.list, Len(txs)) /\ OwnNext(job.list, job.user)
  /\ job.by \in Flows => flow[job.by].pc \notin Awaiting /\ flow'[job.by].pc \in Awaiting

(* The flows and the continuations after a store operation is issued.      *)
LEMMA EnqueueTypes ==
  ASSUME Inv, NEW job, Enqueues(job), Moves, UNCHANGED txs, ClientType'
  PROVE  TypeInv'
<1>1. TypeInv /\ Len(txs) \in Nat /\ flow \in [Flows -> FlowType] /\ Nobody \notin Flows
  BY Lens, ClientAssumption DEF Inv, TypeInv, FlowsOK
<1>2. FlowsOK'
  <2>1. \A g \in Flows : FlowOK(flow'[g], Len(txs'))
    BY <1>1 DEF Moves, TypeInv, FlowsOK
  <2> QED
    BY <2>1 DEF FlowsOK, Moves
<1>3. SlotOK'
  BY <1>1 DEF Moves, TypeInv, SlotOK
<1>4. \A j \in jobs : j.by \in Flows => flow[j.by].pc \in Awaiting /\ flow'[j.by] = flow[j.by]
  BY <1>1 DEF TypeInv, JobsOK, Moves
<1>5. \A j \in jobs : j.by \in Flows => j.by # job.by
  BY <1>4 DEF Enqueues
<1>6. JobsOK'
  <2>1. ASSUME NEW j \in jobs'
        PROVE  /\ j \in [user : Scopes, list : [Events -> Tickets], by : Flows \cup {Nobody}]
               /\ ListOK(j.list, Len(txs')) /\ (j.by \in Flows => flow'[j.by].pc \in Awaiting)
    BY <1>1, <1>4 DEF TypeInv, JobsOK, Enqueues
  <2>2. ASSUME NEW i \in jobs', NEW j \in jobs', i.by = j.by, i.by \in Flows PROVE i = j
    <3>1. (i \in jobs \/ i = job) /\ (j \in jobs \/ j = job)
      BY DEF Enqueues
    <3>2. CASE i \in jobs /\ j \in jobs
      BY <1>1, <2>2, <3>2 DEF TypeInv, JobsOK
    <3> QED
      BY <1>5, <2>2, <3>1, <3>2
  <2> QED
    BY <2>1, <2>2 DEF JobsOK
<1> QED
  BY <1>2, <1>3, <1>6 DEF TypeInv

LEMMA FlowsOwn ==
  ASSUME Inv, Moves, WorldGrows
  PROVE  \A f \in Flows : flow'[f].pc \in {"switching", "replace"} => OwnNext(flow'[f].list, flow'[f].user)
<1> SUFFICES ASSUME NEW f \in Flows, flow'[f].pc \in {"switching", "replace"}
             PROVE  OwnNext(flow'[f].list, flow'[f].user)
  OBVIOUS
<1>1. CASE flow'[f] = flow[f]
  <2>1. ListOK(flow[f].list, Len(txs)) /\ Own(flow[f].list, flow[f].user)
    BY <1>1 DEF Inv, TypeInv, FlowsOK, FlowOK, ScopeInv
  <2> QED
    BY <1>1, <2>1, OwnGrows
<1>2. CASE flow'[f] # flow[f]
  BY <1>2 DEF Moves
<1> QED
  BY <1>1, <1>2

LEMMA JobsOwn ==
  ASSUME Inv, NEW job, Enqueues(job), WorldGrows PROVE \A j \in jobs' : OwnNext(j.list, j.user)
<1>1. \A j \in jobs : ListOK(j.list, Len(txs)) /\ Own(j.list, j.user)
  BY DEF Inv, TypeInv, JobsOK, ScopeInv
<1>2. \A j \in jobs : OwnNext(j.list, j.user)
  BY <1>1, OwnGrows
<1> QED
  BY <1>2 DEF Enqueues

(* What a step owes to the records.                                        *)
Recorded ==
  /\ ~overlapped /\ \A s \in Scopes : Retained(s)
  /\ \A f \in Flows : Bearing(flow[f]) => \/ Bearing(flow'[f]) /\ flow'[f].signed = flow[f].signed
                                          \/ KeptNext(flow[f].signed)

LEMMA EnqueueKeeps ==
  ASSUME Inv, NEW job, Enqueues(job), Moves, WorldGrows, UNCHANGED txs, ClientType', job.user = user',
         \A s \in Scopes : OwnNext(storage'[s], s), OwnNext(tickets', user'),
         overlapped' \/ /\ Recorded /\ held(storage'[user']) \subseteq held(job.list)
                        /\ \A j \in jobs : held(storage'[j.user]) \subseteq heldIn(j.user)
  PROVE  Inv'
<1>1. TypeInv'
  BY EnqueueTypes
<1>2. ScopeInv'
  <2>1. \A j \in jobs' : OwnNext(j.list, j.user)
    BY JobsOwn
  <2>2. \A f \in Flows : flow'[f].pc \in {"switching", "replace"} => OwnNext(flow'[f].list, flow'[f].user)
    BY FlowsOwn
  <2>3. \A i \in DOMAIN synced' : MineNext(synced'[i].tx, synced'[i].user)
    BY SyncedGrows DEF Inv
  <2> QED
    BY <2>1, <2>2, <2>3, ScopeFrom
<1>3. KeepInv'
  <2>1. CASE overlapped'
    BY <2>1, KeepFrom
  <2>2. CASE ~overlapped'
    <3>1. /\ Recorded /\ held(storage'[user']) \subseteq held(job.list)
          /\ \A j \in jobs : held(storage'[j.user]) \subseteq heldIn(j.user)
      BY <2>2
    <3>2. \A j \in jobs : heldIn(j.user) \subseteq held(j.list)
      BY <3>1 DEF Recorded, Inv, KeepInv
    <3>3. \A j \in jobs' : held(storage'[j.user]) \subseteq held(j.list)
      BY <3>1, <3>2 DEF Enqueues
    <3>4. \E j \in jobs' : j.user = user'
      BY DEF Enqueues
    <3>5. \A tx \in landed' : KeptNext(tx) \/ \E f \in Flows : flow'[f].signed = tx /\ Bearing(flow'[f])
      BY <3>1, LandedStay DEF Inv, Recorded
    <3> QED
      BY <3>3, <3>4, <3>5, KeepFrom
  <2> QED
    BY <2>1, <2>2
<1> QED
  BY <1>1, <1>2, <1>3 DEF Inv

-----------------------------------------------------------------------------
(* A write: the list of the active account is replaced by one that has     *)
(* what it had, told, excused or kept.                                     *)
LEMMA SaveFresh ==
  ASSUME Inv, NEW list, NEW by, save(list, by), ~overlapped'
  PROVE  ~overlapped /\ (\A j \in jobs : j.user # user) /\ heldIn(user) \subseteq held(tickets)
<1>1. ~overlapped /\ \A j \in jobs : j.user # user
  BY DEF save
<1> QED
  BY <1>1 DEF Inv, KeepInv

LEMMA OneMoves ==
  ASSUME Inv, NEW f \in Flows, NEW b, flow' = [flow EXCEPT ![f] = b], FlowOK(b, Len(txs)), pending' = pending,
         flow[f].pc \notin Awaiting \cup {"sign"},
         b.pc \in {"switching", "replace"} => OwnNext(b.list, b.user)
  PROVE  Moves /\ flow'[f] = b /\ \A g \in Flows : g # f => flow'[g] = flow[g]
<1>1. flow \in [Flows -> FlowType] /\ b \in FlowType
  BY FlowAt DEF FlowOK
<1>2. flow' \in [Flows -> FlowType] /\ flow'[f] = b /\ \A g \in Flows : g # f => flow'[g] = flow[g]
  BY <1>1
<1> QED
  BY <1>2 DEF Moves

LEMMA Saves ==
  ASSUME Inv, NEW f \in Flows, NEW list, NEW by, save(list, by), NEW b, flow' = [flow EXCEPT ![f] = b],
         FlowOK(b, Len(txs)), flow[f].pc \notin Awaiting \cup {"sign"}, b.pc \notin {"switching", "replace"},
         by = Nobody \/ (by = f /\ b.pc \in Awaiting),
         ListOK(list, Len(txs)), excused \subseteq excused', OwnNext(list, user),
         UNCHANGED <<user, tickets, signing, world>>, WebOK(web'),
         ~overlapped' => \A tx \in heldIn(user) : tx \in held(list) \/ told(tx) \/ tx \in excused',
         ~overlapped' /\ Bearing(flow[f]) =>
           (Bearing(b) /\ b.signed = flow[f].signed) \/ flow[f].signed \in excused'
             \/ (user = txs[flow[f].signed].user /\ flow[f].signed \in held(list))
  PROVE  Inv'
<1>1. /\ TypeInv /\ Len(txs) \in Nat /\ user \in Scopes /\ Nobody \notin Flows
      /\ storage \in [Scopes -> [Events -> Tickets]] /\ \A s \in Scopes : ListOK(storage[s], Len(txs))
  BY Lens, ClientAssumption DEF Inv, TypeInv, ClientType
<1>2. list \in [Events -> Tickets]
  BY DEF ListOK
<1>3. /\ storage' = [storage EXCEPT ![user] = list]
      /\ jobs' = jobs \cup {[user |-> user, list |-> list, by |-> by]}
      /\ overlapped' = (overlapped \/ \E j \in jobs : j.user = user)
  BY DEF save
<1>4. /\ storage' \in [Scopes -> [Events -> Tickets]] /\ storage'[user] = list
      /\ \A s \in Scopes : s # user => storage'[s] = storage[s]
  BY <1>1, <1>2, <1>3
<1>5. WorldGrows
  BY <1>1, ExcuseGrows DEF world
<1>6. Moves /\ flow'[f] = b /\ \A g \in Flows : g # f => flow'[g] = flow[g]
  BY OneMoves DEF signing
<1>7. PICK job : job = [user |-> user, list |-> list, by |-> by]
  OBVIOUS
<1>8. job.user = user /\ job.list = list /\ job.by = by
  BY <1>7
<1>9. Enqueues(job)
  <2>1. job \in [user : Scopes, list : [Events -> Tickets], by : Flows \cup {Nobody}]
    BY <1>1, <1>2, <1>7
  <2>2. job.by \in Flows => flow[job.by].pc \notin Awaiting /\ flow'[job.by].pc \in Awaiting
    BY <1>1, <1>6, <1>8
  <2>3. jobs' = jobs \cup {job}
    BY <1>3, <1>7
  <2> QED
    BY <1>8, <2>1, <2>2, <2>3 DEF Enqueues
<1>10. ClientType'
  <2>1. \A s \in Scopes : ListOK(storage'[s], Len(txs))
    BY <1>1, <1>4
  <2>2. overlapped' \in BOOLEAN
    BY <1>3
  <2> QED
    BY <1>1, <1>4, <2>1, <2>2 DEF TypeInv, ClientType, signing, world
<1>11. \A s \in Scopes : OwnNext(storage'[s], s)
  <2>1. \A s \in Scopes : OwnNext(storage[s], s)
    BY <1>1, <1>5, OwnGrows DEF Inv, ScopeInv
  <2> QED
    BY <1>4, <2>1
<1>12. OwnNext(tickets', user')
  <2>1. OwnNext(tickets, user)
    BY <1>1, <1>5, OwnGrows DEF Inv, ScopeInv, TypeInv, ClientType
  <2> QED
    BY <2>1
<1>13. ASSUME ~overlapped'
       PROVE  /\ Recorded /\ held(storage'[user']) \subseteq held(job.list)
              /\ \A j \in jobs : held(storage'[j.user]) \subseteq heldIn(j.user)
  <2>1. ~overlapped /\ \A j \in jobs : j.user # user
    BY <1>13, SaveFresh
  <2>2. \A j \in jobs : held(storage'[j.user]) \subseteq heldIn(j.user)
    BY <1>1, <1>4, <2>1 DEF heldIn, TypeInv, JobsOK
  <2>3. \A tx : told(tx) => KeptNext(tx)
    BY DEF world, told, Range, KeptNext
  <2>4. \A s \in Scopes : Retained(s)
    BY <1>4, <1>13, <2>3 DEF Retained, heldIn, KeptNext
  <2>5. \A g \in Flows : Bearing(flow[g]) => \/ Bearing(flow'[g]) /\ flow'[g].signed = flow[g].signed
                                             \/ KeptNext(flow[g].signed)
    <3> SUFFICES ASSUME NEW g \in Flows, Bearing(flow[g])
                 PROVE  (Bearing(flow'[g]) /\ flow'[g].signed = flow[g].signed) \/ KeptNext(flow[g].signed)
      OBVIOUS
    <3>1. CASE g # f
      BY <1>6, <3>1
    <3>2. CASE g = f
      BY <1>4, <1>6, <1>13, <3>2 DEF KeptNext, world
    <3> QED
      BY <3>1, <3>2
  <2> QED
    BY <1>4, <1>8, <2>1, <2>2, <2>4, <2>5 DEF Recorded
<1>14. UNCHANGED txs /\ job.user = user'
  BY <1>8 DEF world
<1> QED
  BY <1>5, <1>6, <1>9, <1>10, <1>11, <1>12, <1>13, <1>14, EnqueueKeeps

-----------------------------------------------------------------------------
(* A ticket added to the list in memory: owned if the transaction is.      *)
LEMMA TicketAdded ==
  ASSUME Inv, WorldGrows, NEW e \in Events, NEW c \in Codes, NEW tx \in 0..Len(txs),
         tx = 0 \/ MineNext(tx, user), NEW list, list = withTicket(tickets, e, ticketOf(c, tx))
  PROVE  ListOK(list, Len(txs)) /\ OwnNext(list, user) /\ held(list) = held(tickets) \cup Named(tx)
<1>1. Len(txs) \in Nat /\ ListOK(tickets, Len(txs)) /\ Own(tickets, user)
  BY Lens DEF Inv, TypeInv, ClientType, ScopeInv
<1>2. ListOK(list, Len(txs)) /\ held(list) = held(tickets) \cup Named(tx)
  BY <1>1, WithTicket
<1>3. OwnNext(tickets, user)
  BY <1>1, OwnGrows
<1> QED
  BY <1>2, <1>3 DEF OwnNext, Named

LEMMA StoreOffchainKeeps ==
  ASSUME Inv, NEW f \in Flows, storeOffchain(f) PROVE Inv'
<1>1. /\ TypeInv /\ flow \in [Flows -> FlowType] /\ flow[f] \in FlowType /\ FlowOK(flow[f], Len(txs))
      /\ Len(txs) \in Nat /\ flow[f].pc = "claimed"
  BY FlowAt DEF storeOffchain
<1>2. /\ flow[f].pc \in Claiming /\ flow[f].pc \notin Awaiting \cup {"sign"} /\ ~Bearing(flow[f])
      /\ flow[f].event \in Events /\ flow[f].code \in Codes /\ Fits(flow[f], "saving")
  BY <1>1, Settled DEF FlowType, Claiming, Awaiting, Bearing, Late, Unsure
<1>3. PICK list : list = withTicket(tickets, flow[f].event, ticketOf(flow[f].code, 0))
  OBVIOUS
<1>4. /\ save(list, f) /\ flow' = [flow EXCEPT ![f].pc = "saving"]
      /\ UNCHANGED <<user, tickets, signing, web, world, excused>>
  BY <1>3 DEF storeOffchain, addTicket
<1>5. WorldGrows
  BY <1>1, <1>4, ExcuseGrows DEF world
<1>6. ListOK(list, Len(txs)) /\ OwnNext(list, user) /\ held(list) = held(tickets) \cup Named(0)
  <2>1. 0 \in 0..Len(txs)
    BY <1>1
  <2> QED
    BY <1>2, <1>3, <1>5, <2>1, TicketAdded
<1>7. PICK b : b = [flow[f] EXCEPT !.pc = "saving"]
  OBVIOUS
<1>8. flow' = [flow EXCEPT ![f] = b]
  BY <1>1, <1>4, <1>7
<1>9. "saving" \in Claiming /\ "saving" \notin Carrying
  BY DEF Claiming, Carrying
<1>10. FlowOK(b, Len(txs)) /\ b.pc = "saving"
  BY <1>1, <1>2, <1>7, <1>9, OtherPc
<1>11. b.pc \in Awaiting /\ b.pc \notin {"switching", "replace"}
  BY <1>10 DEF Awaiting
<1>12. ~overlapped' => \A tx \in heldIn(user) : tx \in held(list)
  BY <1>4, <1>6, SaveFresh
<1>13. WebOK(web')
  BY <1>1, <1>4, WebHolds
<1> QED
  BY <1>2, <1>4, <1>6, <1>8, <1>10, <1>11, <1>12, <1>13, Saves

LEMMA RecordProofKeeps ==
  ASSUME Inv, NEW f \in Flows, recordProof(f) PROVE Inv'
<1>1. /\ TypeInv /\ flow \in [Flows -> FlowType] /\ flow[f] \in FlowType /\ FlowOK(flow[f], Len(txs))
      /\ Len(txs) \in Nat /\ flow[f].pc \in {"record", "recordDead"}
  BY FlowAt DEF recordProof
<1>2. /\ flow[f].pc \in Claiming /\ flow[f].pc \notin Awaiting \cup {"sign"}
      /\ flow[f].event \in Events /\ flow[f].code \in Codes /\ flow[f].seen \in Codes
      /\ flow[f].signed \in 0..Len(txs) /\ flow[f].signed # 0
      /\ flow[f].user \in Users \/ flow[f].pc = "record"
  BY <1>1 DEF FlowOK, FlowType, Claiming, Awaiting, Carrying, Late, Unsure
<1>3. PICK code \in Codes : code = recordedCode(flow[f])
  BY <1>2 DEF recordedCode
<1>4. PICK list : list = withTicket(tickets, flow[f].event, ticketOf(code, flow[f].signed))
  OBVIOUS
<1>5. PICK by : by = IF flow[f].screen # "receive" THEN f ELSE Nobody
  OBVIOUS
<1>6. PICK b : b = CASE ~(flow[f].screen # "receive") -> Idle
                     [] flow[f].pc = "recordDead" -> [flow[f] EXCEPT !.pc = "recordingDead"]
                     [] OTHER -> [flow[f] EXCEPT !.pc = "recording", !.code = code]
  OBVIOUS
<1>7. /\ save(list, by) /\ flow' = [flow EXCEPT ![f] = b]
      /\ excused' = excused \cup misfiled(f)
      /\ UNCHANGED <<user, tickets, signing, world>>
  <2>1. save(list, by) /\ excused' = excused \cup misfiled(f) /\ UNCHANGED <<user, tickets, signing, world>>
    BY <1>3, <1>4, <1>5 DEF recordProof, addTicket
  <2>2. flow' = [flow EXCEPT ![f] = b]
    BY <1>1, <1>3, <1>6 DEF recordProof
  <2> QED
    BY <2>1, <2>2
<1>8. WorldGrows
  BY <1>1, <1>7, ExcuseGrows DEF world
<1>9. flow[f].signed \in excused' \/ user = txs[flow[f].signed].user
  BY <1>2, <1>7 DEF misfiled
<1>10. MineNext(flow[f].signed, user)
  BY <1>7, <1>9 DEF MineNext, world
<1>11. ListOK(list, Len(txs)) /\ OwnNext(list, user) /\ held(list) = held(tickets) \cup Named(flow[f].signed)
  BY <1>2, <1>4, <1>8, <1>10, TicketAdded
<1>12. \/ b = Idle
       \/ b = [flow[f] EXCEPT !.pc = "recordingDead"] /\ flow[f].pc = "recordDead"
       \/ b = [flow[f] EXCEPT !.pc = "recording", !.code = code]
  BY <1>6
<1>13. FlowOK(b, Len(txs)) /\ b.pc \in {"idle", "recording", "recordingDead"}
  <2>0. flow[f].signed # 0 /\ flow[f].event \in Events /\ flow[f].pc \in Claiming
    BY <1>1, <1>2
  <2>1. CASE b = Idle
    BY <1>1, <2>1, IdleOK
  <2>2. CASE b = [flow[f] EXCEPT !.pc = "recordingDead"] /\ flow[f].pc = "recordDead"
    <3>0. flow[f].user \in Users
      BY <1>2, <2>2
    <3>1. /\ b \in FlowType /\ b.pc = "recordingDead" /\ b.signed = flow[f].signed /\ b.list = flow[f].list
          /\ b.event = flow[f].event /\ b.screen = flow[f].screen /\ b.user = flow[f].user
      BY <1>1, <2>2 DEF FlowType, Claiming
    <3>2. FlowOK(b, Len(txs))
      BY <1>1, <2>0, <3>0, <3>1, MovesOn
    <3> QED
      BY <3>1, <3>2
  <2>3. CASE b = [flow[f] EXCEPT !.pc = "recording", !.code = code]
    <3>1. /\ b \in FlowType /\ b.pc = "recording" /\ b.signed = flow[f].signed /\ b.list = flow[f].list
          /\ b.event = flow[f].event /\ b.screen = flow[f].screen /\ b.user = flow[f].user
      BY <1>1, <1>3, <2>3 DEF FlowType, Claiming
    <3>2. FlowOK(b, Len(txs))
      <4>1. flow[f].user \in Users \/ (flow[f].pc \in Late /\ b.pc \in Late)
        BY <1>2, <3>1 DEF Late
      <4> QED
        BY <1>1, <2>0, <3>1, <4>1, MovesOn
    <3> QED
      BY <3>1, <3>2
  <2> QED
    BY <1>12, <2>1, <2>2, <2>3
<1>14. by = Nobody \/ (by = f /\ b.pc \in Awaiting)
  <2>1. CASE flow[f].screen = "receive"
    BY <1>5, <2>1
  <2>2. CASE flow[f].screen # "receive"
    <3>1. b = [flow[f] EXCEPT !.pc = "recordingDead"] \/ b = [flow[f] EXCEPT !.pc = "recording", !.code = code]
      BY <1>6, <2>2
    <3>2. b.pc = "recordingDead" \/ b.pc = "recording"
      BY <1>1, <3>1 DEF FlowType
    <3> QED
      BY <1>5, <2>2, <3>2 DEF Awaiting
  <2> QED
    BY <2>1, <2>2
<1>15. ~overlapped' => \A tx \in heldIn(user) : tx \in held(list)
  BY <1>7, <1>11, SaveFresh
<1>16. WebOK(web')
  BY <1>1, WebHolds, ClearedOK DEF recordProof
<1>17. flow[f].signed \in held(list)
  BY <1>2, <1>11 DEF Named
<1>18. excused \subseteq excused' /\ b.pc \notin {"switching", "replace"}
  BY <1>7, <1>13
<1> QED
  BY <1>2, <1>7, <1>9, <1>11, <1>13, <1>14, <1>15, <1>16, <1>17, <1>18, Saves

LEMMA ShowSuccessKeeps ==
  ASSUME Inv, NEW f \in Flows, showSuccess(f) PROVE Inv'
<1>1. /\ TypeInv /\ flow \in [Flows -> FlowType] /\ flow[f] \in FlowType /\ FlowOK(flow[f], Len(txs))
      /\ Len(txs) \in Nat /\ flow[f].pc = "success"
  BY FlowAt DEF showSuccess
<1>2. /\ flow[f].pc \notin Awaiting \cup {"sign"} /\ ~Bearing(flow[f])
      /\ flow[f].event \in Events /\ flow[f].code \in Codes /\ flow[f].signed \in 0..Len(txs)
  BY <1>1 DEF FlowOK, FlowType, Claiming, Awaiting, Bearing, Unsure
<1>3. PICK tx : tx = IF flow[f].signed # 0 THEN flow[f].signed ELSE storedProof(flow[f].event, flow[f].code)
  OBVIOUS
<1>4. PICK list : list = withTicket(tickets, flow[f].event, ticketOf(flow[f].code, tx))
  OBVIOUS
<1>5. /\ save(list, Nobody) /\ flow' = [flow EXCEPT ![f] = Idle]
      /\ excused' = excused \cup misfiled(f) /\ web' = web
      /\ UNCHANGED <<user, tickets, signing, world>>
  BY <1>3, <1>4 DEF showSuccess, addTicket
<1>6. WorldGrows
  BY <1>1, <1>5, ExcuseGrows DEF world
<1>7. tx \in 0..Len(txs) /\ (tx = 0 \/ MineNext(tx, user))
  <2>1. CASE flow[f].signed # 0
    BY <1>2, <1>3, <1>5, <2>1 DEF misfiled, MineNext, world
  <2>2. CASE flow[f].signed = 0
    <3>1. tx = 0 \/ tx = tickets[flow[f].event].proof
      BY <1>3, <2>2 DEF storedProof
    <3>2. tx = 0 \/ tx \in held(tickets)
      BY <1>1, <1>2, <3>1 DEF TypeInv, ClientType, ListOK, held
    <3>3. held(tickets) \subseteq 1..Len(txs) /\ Own(tickets, user)
      BY HeldKnown DEF Inv, TypeInv, ClientType, ScopeInv
    <3>4. tx = 0 \/ MineNext(tx, user)
      BY <1>6, <3>2, <3>3, MineGrows DEF Own
    <3> QED
      BY <1>1, <3>2, <3>3, <3>4
  <2> QED
    BY <2>1, <2>2
<1>8. ListOK(list, Len(txs)) /\ OwnNext(list, user) /\ held(list) = held(tickets) \cup Named(tx)
  BY <1>2, <1>4, <1>6, <1>7, TicketAdded
<1>9. FlowOK(Idle, Len(txs)) /\ Idle.pc \notin {"switching", "replace"}
  BY <1>1, IdleOK
<1>10. ~overlapped' => \A t \in heldIn(user) : t \in held(list)
  BY <1>5, <1>8, SaveFresh
<1>11. WebOK(web') /\ excused \subseteq excused'
  BY <1>1, <1>5, WebHolds
<1> QED
  BY <1>2, <1>5, <1>8, <1>9, <1>10, <1>11, Saves

LEMMA ReplaceKeeps ==
  ASSUME Inv, NEW f \in Flows, replaceTickets(f) PROVE Inv'
<1>1. /\ TypeInv /\ FlowOK(flow[f], Len(txs)) /\ Len(txs) \in Nat /\ flow[f].pc = "replace"
  BY FlowAt DEF replaceTickets
<1>2. /\ flow[f].pc \notin Awaiting \cup {"sign"} /\ ~Bearing(flow[f]) /\ ListOK(flow[f].list, Len(txs))
      /\ Own(flow[f].list, flow[f].user)
  BY <1>1 DEF FlowOK, Awaiting, Bearing, Inv, ScopeInv
<1>3. /\ save(flow[f].list, f) /\ flow' = [flow EXCEPT ![f] = [Idle EXCEPT !.pc = "replacing"]]
      /\ excused' = excused \cup {tx \in heldIn(user) : ~told(tx)} \cup {tx \in held(flow[f].list) : user # flow[f].user}
      /\ UNCHANGED <<user, tickets, signing, web, world>>
  BY DEF replaceTickets
<1>4. WorldGrows
  BY <1>1, <1>3, ExcuseGrows DEF world
<1>5. PICK b : b = [Idle EXCEPT !.pc = "replacing"]
  OBVIOUS
<1>6. FlowOK(b, Len(txs)) /\ b.pc = "replacing"
  <2>1. FlowOK(Idle, Len(txs)) /\ Idle \in FlowType /\ Idle.signed = 0
    BY <1>1, IdleOK DEF Idle
  <2>2. PICK i : i = Idle
    OBVIOUS
  <2>3. i \in FlowType /\ ListOK(i.list, Len(txs)) /\ i.signed = 0 /\ b = [i EXCEPT !.pc = "replacing"]
    BY <1>5, <2>1, <2>2 DEF FlowOK
  <2>4. b \in FlowType /\ b.pc = "replacing" /\ b.signed = 0 /\ b.list = i.list
    BY <2>3 DEF FlowType
  <2>5. b.signed \in 0..Len(txs) /\ b.pc \notin Claiming /\ b.pc \notin Carrying
    BY <1>1, <2>4 DEF Claiming, Carrying
  <2> QED
    BY <2>3, <2>4, <2>5 DEF FlowOK
<1>7. OwnNext(flow[f].list, user)
  <2>1. OwnNext(flow[f].list, flow[f].user)
    BY <1>2, <1>4, OwnGrows
  <2> QED
    BY <1>3, <2>1 DEF OwnNext, MineNext
<1>8. \A tx \in heldIn(user) : told(tx) \/ tx \in excused'
  BY <1>3
<1>9. WebOK(web') /\ excused \subseteq excused'
  BY <1>1, <1>3, WebHolds
<1>10. b.pc \in Awaiting /\ b.pc \notin {"switching", "replace"} /\ flow' = [flow EXCEPT ![f] = b]
  BY <1>3, <1>5, <1>6 DEF Awaiting
<1> QED
  BY <1>2, <1>3, <1>6, <1>7, <1>8, <1>9, <1>10, Saves

-----------------------------------------------------------------------------
(* Reading the stored list.                                                *)
LEMMA LoadJob ==
  ASSUME Inv, WorldGrows, NEW s \in Scopes, NEW by \in Flows \cup {Nobody}, NEW job, job = load(s, by)
  PROVE  /\ job \in [user : Scopes, list : [Events -> Tickets], by : Flows \cup {Nobody}]
         /\ job.user = s /\ job.by = by /\ ListOK(job.list, Len(txs)) /\ held(job.list) = heldIn(s)
         /\ OwnNext(job.list, s)
<1>1. ClientType /\ ListOK(storage[s], Len(txs)) /\ Own(storage[s], s)
  BY DEF Inv, TypeInv, ClientType, ScopeInv
<1>2. PICK list : list = loadFromStorage(s)
  OBVIOUS
<1>3. ListOK(list, Len(txs)) /\ held(list) = heldIn(s)
  BY <1>1, <1>2, Loaded
<1>4. list \in [Events -> Tickets]
  BY <1>3 DEF ListOK
<1>5. job = [user |-> s, list |-> list, by |-> by]
  BY <1>2 DEF load
<1>6. OwnNext(list, s)
  BY <1>1, <1>3, OwnGrows DEF Own, heldIn
<1> QED
  BY <1>3, <1>4, <1>5, <1>6

LEMMA LoadTicketsKeeps ==
  ASSUME Inv, loadTickets PROVE Inv'
<1>1. /\ TypeInv /\ user \in Scopes /\ flow \in [Flows -> FlowType] /\ Nobody \notin Flows
      /\ \A s \in Scopes : ListOK(storage[s], Len(txs)) /\ Own(storage[s], s)
      /\ ListOK(tickets, Len(txs)) /\ Own(tickets, user)
  BY ClientAssumption DEF Inv, TypeInv, ClientType, FlowsOK, ScopeInv
<1>2. UNCHANGED <<user, tickets, storage, overlapped, flow, signing, web, world, excused>>
  BY DEF loadTickets
<1>3. PICK job : job = load(user, Nobody)
  OBVIOUS
<1>4. WorldGrows
  BY <1>1, <1>2, ExcuseGrows DEF world
<1>5. /\ job \in [user : Scopes, list : [Events -> Tickets], by : Flows \cup {Nobody}]
      /\ job.user = user /\ job.by = Nobody /\ ListOK(job.list, Len(txs)) /\ held(job.list) = heldIn(user)
      /\ OwnNext(job.list, user)
  BY <1>1, <1>3, <1>4, LoadJob
<1>6. Enqueues(job)
  BY <1>1, <1>3, <1>5 DEF Enqueues, loadTickets
<1>7. Moves
  BY <1>1, <1>2 DEF Moves, signing
<1>8. ClientType' /\ UNCHANGED txs
  BY <1>1, <1>2 DEF TypeInv, ClientType, signing, world
<1>9. (\A s \in Scopes : OwnNext(storage'[s], s)) /\ OwnNext(tickets', user')
  BY <1>1, <1>2, <1>4, OwnGrows
<1>10. ASSUME ~overlapped'
       PROVE  /\ Recorded /\ held(storage'[user']) \subseteq held(job.list)
              /\ \A j \in jobs : held(storage'[j.user]) \subseteq heldIn(j.user)
  BY <1>2, <1>5, <1>10 DEF Recorded, Retained, heldIn
<1> QED
  BY <1>2, <1>4, <1>5, <1>6, <1>7, <1>8, <1>9, <1>10, EnqueueKeeps

-----------------------------------------------------------------------------
(* The account changes: a list is cleared only of what is told or excused, *)
(* and the new account's stored list follows.                              *)
LEMMA Switches ==
  ASSUME Inv, NEW s \in Scopes, NEW job, setActiveUser(s, job), Enqueues(job), Moves, job.user = s,
         UNCHANGED <<overlapped, signing, world>>, WebOK(web'), excused \subseteq excused',
         storage' \in [Scopes -> [Events -> Tickets]],
         \A t \in Scopes : storage'[t] = storage[t] \/
           (storage'[t] = NoTickets /\ \A tx \in heldIn(t) : told(tx) \/ tx \in excused'),
         held(storage'[s]) \subseteq held(job.list),
         \A f \in Flows : Steady(flow[f], flow'[f])
  PROVE  Inv'
<1>1. TypeInv /\ \A t \in Scopes : ListOK(storage[t], Len(txs)) /\ Own(storage[t], t)
  BY DEF Inv, TypeInv, ClientType, ScopeInv
<1>2. user' = s /\ tickets' = NoTickets
  BY DEF setActiveUser
<1>3. WorldGrows
  BY <1>1, ExcuseGrows DEF world
<1>4. \A t \in Scopes : ListOK(storage'[t], Len(txs))
  BY <1>1, EmptyList
<1>5. ClientType'
  <2>1. ListOK(NoTickets, Len(txs))
    BY EmptyList
  <2> QED
    BY <1>1, <1>2, <1>4, <2>1 DEF TypeInv, ClientType, signing, world
<1>6. (\A t \in Scopes : OwnNext(storage'[t], t)) /\ OwnNext(tickets', user')
  <2>1. \A t \in Scopes : OwnNext(storage[t], t) /\ OwnNext(NoTickets, t)
    BY <1>1, <1>3, OwnGrows, EmptyList DEF OwnNext
  <2> QED
    BY <1>2, <2>1
<1>7. \A t \in Scopes : held(storage'[t]) \subseteq heldIn(t)
  BY EmptyList DEF heldIn
<1>8. \A j \in jobs : held(storage'[j.user]) \subseteq heldIn(j.user)
  BY <1>1, <1>7 DEF TypeInv, JobsOK
<1>9. \A t \in Scopes : Retained(t)
  <2>1. \A tx : told(tx) \/ tx \in excused' => KeptNext(tx)
    BY DEF world, told, Range, KeptNext
  <2> QED
    BY <2>1 DEF Retained, heldIn
<1>10. overlapped' \/ Recorded
  BY <1>9 DEF Recorded, Steady, KeptNext
<1>11. UNCHANGED txs
  BY DEF world
<1> QED
  BY <1>2, <1>3, <1>5, <1>6, <1>8, <1>10, <1>11, EnqueueKeeps

LEMMA EmptyJob ==
  ASSUME NEW s \in Scopes, NEW by \in Flows \cup {Nobody}, NEW job, job = [user |-> s, list |-> NoTickets, by |-> by]
  PROVE  /\ job \in [user : Scopes, list : [Events -> Tickets], by : Flows \cup {Nobody}]
         /\ job.user = s /\ job.by = by /\ ListOK(job.list, Len(txs)) /\ held(job.list) = {}
         /\ OwnNext(job.list, s)
<1>1. PICK l : l = NoTickets
  OBVIOUS
<1>2. l \in [Events -> Tickets] /\ ListOK(l, Len(txs)) /\ held(l) = {}
  BY <1>1, EmptyList
<1>3. job = [user |-> s, list |-> l, by |-> by]
  BY <1>1
<1> QED
  BY <1>2, <1>3 DEF OwnNext

LEMMA Cleared ==
  ASSUME Inv, NEW s \in Scopes, clearUserTickets(s)
  PROVE  /\ storage' \in [Scopes -> [Events -> Tickets]] /\ excused \subseteq excused' /\ WebOK(web')
         /\ \A t \in Scopes : storage'[t] = IF t \in {s, Nobody} THEN NoTickets ELSE storage[t]
         /\ \A t \in {s, Nobody} : \A tx \in heldIn(t) : told(tx) \/ tx \in excused'
<1>1. storage \in [Scopes -> [Events -> Tickets]] /\ NoTickets \in [Events -> Tickets]
  BY EmptyList DEF Inv, TypeInv, ClientType
<1>2. storage' = [t \in Scopes |-> IF t \in {s, Nobody} THEN NoTickets ELSE storage[t]]
  BY DEF clearUserTickets
<1>3. storage' \in [Scopes -> [Events -> Tickets]]
  BY <1>1, <1>2
<1>4. \A t \in Scopes : storage'[t] = IF t \in {s, Nobody} THEN NoTickets ELSE storage[t]
  BY <1>2
<1>5. excused' = excused \cup {tx \in heldIn(s) \cup heldIn(Nobody) : ~told(tx)} /\ web' = NoWeb
  BY DEF clearUserTickets
<1> QED
  BY <1>3, <1>4, <1>5, NoWebOK

LEMMA ClearUserKeeps ==
  ASSUME Inv, clearUser PROVE Inv'
<1>1. TypeInv /\ user \in Scopes /\ Nobody \in Scopes /\ flow \in [Flows -> FlowType] /\ Nobody \notin Flows
  BY ClientAssumption DEF Inv, TypeInv, ClientType, FlowsOK, Scopes
<1>2. PICK job : job = [user |-> Nobody, list |-> NoTickets, by |-> Nobody]
  OBVIOUS
<1>3. clearUserTickets(user) /\ setActiveUser(Nobody, job) /\ UNCHANGED <<overlapped, flow, signing, world>>
  BY <1>2 DEF clearUser
<1>4. /\ storage' \in [Scopes -> [Events -> Tickets]] /\ excused \subseteq excused' /\ WebOK(web')
      /\ \A t \in Scopes : storage'[t] = IF t \in {user, Nobody} THEN NoTickets ELSE storage[t]
      /\ \A t \in {user, Nobody} : \A tx \in heldIn(t) : told(tx) \/ tx \in excused'
  BY <1>1, <1>3, Cleared
<1>5. /\ job \in [user : Scopes, list : [Events -> Tickets], by : Flows \cup {Nobody}]
      /\ job.user = Nobody /\ job.by = Nobody /\ ListOK(job.list, Len(txs)) /\ OwnNext(job.list, Nobody)
  BY <1>1, <1>2, EmptyJob
<1>6. Enqueues(job)
  BY <1>1, <1>3, <1>5 DEF Enqueues, setActiveUser
<1>7. Moves
  BY <1>1, <1>3 DEF Moves, signing
<1>8. held(storage'[Nobody]) = {}
  BY <1>1, <1>4, EmptyList
<1>9. \A t \in Scopes : storage'[t] = storage[t] \/
           (storage'[t] = NoTickets /\ \A tx \in heldIn(t) : told(tx) \/ tx \in excused')
  BY <1>4
<1>10. \A f \in Flows : Steady(flow[f], flow'[f])
  BY <1>3 DEF Steady
<1> QED
  BY <1>1, <1>3, <1>4, <1>5, <1>6, <1>7, <1>8, <1>9, <1>10, Switches

-----------------------------------------------------------------------------
(* Every nonempty set of places up to n has a greatest one.                *)
LEMMA GreatestNatural ==
  ASSUME NEW n \in Nat, NEW T, T \subseteq 1..n, T # {}
  PROVE  \E i \in T : \A j \in T : j <= i
<1> DEFINE D == {n - i : i \in T}
<1>1. D \subseteq Nat /\ D # {}
  <2>1. \A i \in T : i \in 1..n
    OBVIOUS
  <2>2. \A i \in 1..n : n - i \in Nat
    OBVIOUS
  <2> QED
    BY <2>1, <2>2
<1>2. PICK d \in D : \A m \in D : d <= m
  BY <1>1, LeastNatural
<1>3. PICK i \in T : d = n - i
  BY <1>2
<1>4. \A j \in T : n - i <= n - j
  BY <1>2, <1>3
<1> QED
  BY <1>3, <1>4

(* The proof the worker's list names is one it was told for the account.   *)
LEMMA LatestProof ==
  ASSUME Inv, NEW u \in Users, NEW e \in Events, NEW p, p = latestProof(u, e)
  PROVE  p \in 0..Len(txs) /\ (p # 0 => Mine(p, u))
<1>1. /\ Len(txs) \in Nat /\ Len(synced) \in Nat /\ DOMAIN synced = 1..Len(synced)
      /\ \A i \in DOMAIN synced : synced[i].tx \in 1..Len(txs) /\ synced[i].user \in Users
      /\ \A i \in DOMAIN synced : Mine(synced[i].tx, synced[i].user)
  BY Lens DEF Inv, ScopeInv
<1>2. PICK K : K = {i \in DOMAIN synced : synced[i].user = u /\ synced[i].event = e}
  OBVIOUS
<1>3. p = IF K = {} THEN 0 ELSE synced[CHOOSE i \in K : \A j \in K : j <= i].tx
  BY <1>2 DEF latestProof
<1>4. CASE K = {}
  BY <1>1, <1>3, <1>4
<1>5. CASE K # {}
  <2>1. K \subseteq 1..Len(synced)
    BY <1>1, <1>2
  <2>2. \E i \in K : \A j \in K : j <= i
    BY <1>1, <1>5, <2>1, GreatestNatural
  <2>3. PICK i : i = CHOOSE k \in K : \A j \in K : j <= k
    OBVIOUS
  <2>4. i \in K /\ p = synced[i].tx
    BY <1>3, <1>5, <2>2, <2>3
  <2>5. i \in DOMAIN synced /\ synced[i].user = u
    BY <1>2, <2>4
  <2>6. synced[i].tx \in 1..Len(txs) /\ Mine(synced[i].tx, u)
    BY <1>1, <2>5
  <2> QED
    BY <1>1, <2>4, <2>6
<1> QED
  BY <1>4, <1>5

LEMMA SyncItems ==
  ASSUME Inv, NEW u \in Users, NEW list, list = buildUserTicketSyncItems(u)
  PROVE  ListOK(list, Len(txs)) /\ Own(list, u)
<1>1. Len(txs) \in Nat
  BY Lens DEF Inv
<1>2. list = [e \in Events |-> IF issued[u][e] = 0 THEN NoTicket ELSE ticketOf(<<u, issued[u][e]>>, latestProof(u, e))]
  BY DEF buildUserTicketSyncItems
<1>3. ASSUME NEW e \in Events
      PROVE  /\ TicketOK(list[e]) /\ Range(list[e].receipts) \subseteq 1..Len(txs)
             /\ \A tx \in Range(list[e].receipts) : Mine(tx, u)
  <2>1. CASE issued[u][e] = 0
    <3>1. NoTicket \in Tickets /\ NoTicket.proof = 0 /\ Range(NoTicket.receipts) = {}
      BY DEF NoTicket, Tickets, Codes, NoCode, Range
    <3>2. list[e] = NoTicket
      BY <1>2, <2>1
    <3> QED
      BY <3>1, <3>2 DEF TicketOK
  <2>2. CASE issued[u][e] # 0
    <3>1. issued[u][e] \in Nat
      BY CodeForType DEF Inv
    <3>2. PICK c, p : c = <<u, issued[u][e]>> /\ p = latestProof(u, e)
      OBVIOUS
    <3>3. c \in Codes
      BY <3>1, <3>2 DEF Codes
    <3>4. p \in 0..Len(txs) /\ (p # 0 => Mine(p, u))
      BY <3>2, LatestProof
    <3>5. list[e] = ticketOf(c, p)
      BY <1>2, <2>2, <3>2
    <3>6. p \in Nat /\ Named(p) \subseteq 1..Len(txs) /\ \A tx \in Named(p) : Mine(tx, u)
      BY <1>1, <3>4 DEF Named
    <3>7. TicketOK(list[e]) /\ Range(list[e].receipts) = Named(p)
      BY <3>3, <3>5, <3>6, TicketOf
    <3> QED
      BY <3>6, <3>7
  <2> QED
    BY <2>1, <2>2
<1>4. list \in [Events -> Tickets]
  BY <1>2, <1>3 DEF TicketOK
<1>5. ListOK(list, Len(txs))
  BY <1>3, <1>4, ListTickets
<1>6. Own(list, u)
  <2> SUFFICES ASSUME NEW tx \in held(list) PROVE Mine(tx, u)
    BY DEF Own
  <2>1. PICK e \in Events : tx \in Range(list[e].receipts)
    BY DEF held
  <2> QED
    BY <1>3, <2>1
<1> QED
  BY <1>5, <1>6

LEMMA LoginRecord ==
  ASSUME NEW n \in Nat, NEW u \in Users, NEW l, ListOK(l, n), NEW b,
         b = [pc |-> "switching", screen |-> "none", user |-> u, event |-> Nobody, code |-> NoCode, seen |-> NoCode,
              signed |-> 0, retries |-> 0, list |-> l]
  PROVE  FlowOK(b, n) /\ b.pc = "switching" /\ b.user = u /\ b.list = l
<1>1. l \in [Events -> Tickets] /\ NoCode \in Codes
  BY DEF ListOK, Codes
<1>2. b \in FlowType
  BY <1>1 DEF FlowType, Scopes
<1>3. b.list = l /\ b.signed = 0 /\ b.pc = "switching" /\ b.user = u
  OBVIOUS
<1>4. b.signed \in 0..n /\ b.pc \notin Carrying /\ b.pc \notin Claiming
  BY <1>3 DEF Carrying, Claiming
<1> QED
  BY <1>2, <1>3, <1>4 DEF FlowOK

LEMMA VerifyKeeps ==
  ASSUME Inv, NEW f \in Flows, NEW u \in Users, handleVerify(f, u) PROVE Inv'
<1>1. /\ TypeInv /\ user \in Scopes /\ u \in Scopes /\ Nobody \in Scopes /\ Nobody # u
      /\ Len(txs) \in Nat /\ flow \in [Flows -> FlowType]
  BY Lens, ClientAssumption DEF Inv, TypeInv, ClientType, FlowsOK, Scopes
<1>2. PICK l, list : l = buildUserTicketSyncItems(u) /\ list = IF u = user THEN NoTickets ELSE loadFromStorage(u)
  OBVIOUS
<1>3. PICK job : job = [user |-> u, list |-> list, by |-> f]
  OBVIOUS
<1>4. PICK b : b = [Idle EXCEPT !.pc = "switching", !.user = u, !.list = l]
  OBVIOUS
<1>5. /\ flow[f].pc = "idle" /\ clearUserTickets(user) /\ setActiveUser(u, job) /\ flow' = [flow EXCEPT ![f] = b]
      /\ UNCHANGED <<overlapped, signing, world>>
  BY <1>2, <1>3, <1>4 DEF handleVerify
<1>6. /\ storage' \in [Scopes -> [Events -> Tickets]] /\ excused \subseteq excused' /\ WebOK(web')
      /\ \A t \in Scopes : storage'[t] = IF t \in {user, Nobody} THEN NoTickets ELSE storage[t]
      /\ \A t \in {user, Nobody} : \A tx \in heldIn(t) : told(tx) \/ tx \in excused'
  BY <1>1, <1>5, Cleared
<1>7. WorldGrows
  BY <1>1, <1>5, <1>6, ExcuseGrows DEF world
<1>8. ListOK(l, Len(txs)) /\ Own(l, u)
  BY <1>2, SyncItems
<1>9. FlowOK(b, Len(txs)) /\ b.pc = "switching" /\ b.user = u /\ b.list = l
  <2>1. b = [pc |-> "switching", screen |-> "none", user |-> u, event |-> Nobody, code |-> NoCode, seen |-> NoCode,
             signed |-> 0, retries |-> 0, list |-> l]
    BY <1>4 DEF Idle
  <2> QED
    BY <1>1, <1>8, <2>1, LoginRecord
<1>10. flow[f].pc \notin Awaiting \cup {"sign"} /\ ~Bearing(flow[f]) /\ b.pc \in Awaiting
  BY <1>5, <1>9 DEF Awaiting, Bearing
<1>11. Moves /\ flow'[f] = b /\ \A g \in Flows : g # f => flow'[g] = flow[g]
  <2>1. OwnNext(b.list, b.user)
    BY <1>7, <1>8, <1>9, OwnGrows
  <2> QED
    BY <1>5, <1>9, <1>10, <2>1, OneMoves DEF signing
<1>12. /\ job \in [user : Scopes, list : [Events -> Tickets], by : Flows \cup {Nobody}]
       /\ job.user = u /\ job.by = f /\ ListOK(job.list, Len(txs)) /\ OwnNext(job.list, u)
       /\ held(storage'[u]) \subseteq held(job.list)
  <2>1. CASE u = user
    <3>1. job = [user |-> u, list |-> NoTickets, by |-> f]
      BY <1>2, <1>3, <2>1
    <3>2. held(storage'[u]) = {}
      BY <1>1, <1>6, <2>1, EmptyList
    <3> QED
      BY <1>1, <3>1, <3>2, EmptyJob
  <2>2. CASE u # user
    <3>1. job = load(u, f)
      BY <1>2, <1>3, <2>2 DEF load
    <3>2. held(storage'[u]) = heldIn(u)
      BY <1>1, <1>6, <2>2 DEF heldIn
    <3>3. /\ job \in [user : Scopes, list : [Events -> Tickets], by : Flows \cup {Nobody}]
          /\ job.user = u /\ job.by = f /\ ListOK(job.list, Len(txs)) /\ held(job.list) = heldIn(u)
          /\ OwnNext(job.list, u)
      BY <1>1, <1>7, <3>1, LoadJob
    <3> QED
      BY <3>2, <3>3
  <2> QED
    BY <2>1, <2>2
<1>13. Enqueues(job)
  BY <1>5, <1>9, <1>10, <1>11, <1>12 DEF Enqueues, setActiveUser
<1>14. \A t \in Scopes : storage'[t] = storage[t] \/
           (storage'[t] = NoTickets /\ \A tx \in heldIn(t) : told(tx) \/ tx \in excused')
  BY <1>6
<1>15. \A g \in Flows : Steady(flow[g], flow'[g])
  BY <1>10, <1>11 DEF Steady
<1> QED
  BY <1>1, <1>5, <1>6, <1>11, <1>12, <1>13, <1>14, <1>15, Switches

(* The context's account is made active first.                             *)
LEMMA ScopingKeeps ==
  ASSUME Inv, NEW f \in Flows, resume(f), UNCHANGED excused, NEW u \in Users, setActiveUser(u, load(u, f)),
         NEW b, flow' = [flow EXCEPT ![f] = b], FlowOK(b, Len(txs)), b.pc = "scoping", b.user = u,
         Bearing(b), b.signed = flow[f].signed
  PROVE  Inv'
<1>1. /\ flow[f].pc = "resume" /\ UNCHANGED <<storage, overlapped, signing, world>>
      /\ web' = [NoWeb EXCEPT !.path = web.path]
  BY DEF resume
<1>2. TypeInv /\ flow[f].pc \notin Awaiting \cup {"sign"}
  BY <1>1, Resumed
<1>3. WebOK(web')
  BY <1>1, <1>2, PathKept
<1>4. u \in Scopes
  BY DEF Scopes
<1>9. Moves /\ flow'[f] = b /\ \A g \in Flows : g # f => flow'[g] = flow[g]
  BY <1>1, <1>2, OneMoves DEF signing
<1>10. WorldGrows
  BY <1>1, <1>2, ExcuseGrows DEF world
<1>11. PICK job : job = load(u, f)
  OBVIOUS
<1>12. /\ job \in [user : Scopes, list : [Events -> Tickets], by : Flows \cup {Nobody}]
       /\ job.user = u /\ job.by = f /\ ListOK(job.list, Len(txs)) /\ held(job.list) = heldIn(u)
       /\ OwnNext(job.list, u)
  BY <1>4, <1>10, <1>11, LoadJob
<1>13. setActiveUser(u, job)
  BY <1>11
<1>14. b.pc \in Awaiting /\ flow[f].pc \notin Awaiting
  BY <1>2 DEF Awaiting
<1>15. Enqueues(job)
  BY <1>9, <1>12, <1>13, <1>14 DEF Enqueues, setActiveUser
<1>16. \A g \in Flows : Steady(flow[g], flow'[g])
  BY <1>9 DEF Steady
<1>17. /\ storage' \in [Scopes -> [Events -> Tickets]] /\ held(storage'[u]) \subseteq held(job.list)
       /\ \A t \in Scopes : storage'[t] = storage[t]
  BY <1>1, <1>2, <1>12 DEF TypeInv, ClientType, heldIn
<1>18. excused \subseteq excused'
  OBVIOUS
<1> QED
  BY <1>1, <1>3, <1>4, <1>9, <1>12, <1>13, <1>15, <1>16, <1>17, <1>18, Switches

(* The claim of UserConfirmScreen.                                         *)
LEMMA ResumeUserKeeps ==
  ASSUME Inv, NEW f \in Flows, resume(f), NEW context, ContextOK(context), resumeUser(f, context) PROVE Inv'
<1>1. PICK e : e = IF flow[f].event = Nobody THEN context.event ELSE flow[f].event
  OBVIOUS
<1>2. flow[f].pc = "resume" /\ flow[f].screen = "callback" /\ e # Nobody /\ UNCHANGED excused
  BY <1>1 DEF resume, resumeUser
<1>3. /\ TypeInv /\ flow \in [Flows -> FlowType] /\ flow[f] \in FlowType
      /\ flow[f].event \in Events \cup {Nobody} /\ \A x \in Events : tickets[x].code \in Codes
  BY <1>2, Resumed
<1>4. /\ e \in Events /\ context.user \in Scopes /\ context.code \in Codes
      /\ context # NoContext => context.user \in Users
  BY <1>1, <1>2, <1>3 DEF ContextOK
<1>5. PICK a, u, c : a = flow[f] /\ u = context.user /\ c = context.code
  OBVIOUS
<1>6. a.screen = "callback" /\ a.seen \in Codes /\ a \in FlowType /\ a.pc = "resume"
  BY <1>2, <1>3, <1>5 DEF FlowType
<1>7. PICK next : next = [a EXCEPT !.event = e, !.user = u, !.code = c]
  OBVIOUS
<1>8. CASE /\ context # NoContext /\ setActiveUser(u, load(u, f))
           /\ flow' = [flow EXCEPT ![f] = [next EXCEPT !.pc = "scoping"]]
  <2>1. PICK b : b = [next EXCEPT !.pc = "scoping"]
    OBVIOUS
  <2>2. b = [pc |-> "scoping", screen |-> "callback", user |-> u, event |-> e, code |-> c, seen |-> a.seen,
             signed |-> a.signed, retries |-> a.retries, list |-> a.list]
    BY <1>6, <1>7, <2>1 DEF FlowType
  <2>3. u \in Users /\ u \in Scopes /\ c \in Codes
    BY <1>4, <1>5, <1>8
  <2>4. FlowOK(b, Len(txs)) /\ b.pc = "scoping" /\ b.user = u /\ Bearing(b) /\ b.signed = flow[f].signed
    BY <1>2, <1>4, <1>5, <1>6, <2>2, <2>3, ResumeRecord
  <2> QED
    BY <1>2, <1>8, <2>1, <2>3, <2>4, ScopingKeeps
<1>9. ASSUME NEW pc \in {"record", "sync"}, pc = "record" \/ context # NoContext, UNCHANGED <<user, tickets, jobs>>,
             flow' = [flow EXCEPT ![f] = [next EXCEPT !.pc = pc, !.seen = tickets[e].code]]
      PROVE  Inv'
  <2>0. PICK d \in Codes : d = tickets[e].code
    BY <1>3, <1>4
  <2>1. PICK b : b = [next EXCEPT !.pc = pc, !.seen = d]
    OBVIOUS
  <2>2. b = [pc |-> pc, screen |-> "callback", user |-> u, event |-> e, code |-> c, seen |-> d,
             signed |-> a.signed, retries |-> a.retries, list |-> a.list]
    BY <1>6, <1>7, <2>1 DEF FlowType
  <2>3. (u \in Users \/ pc = "record") /\ u \in Scopes /\ c \in Codes
    BY <1>4, <1>5, <1>9
  <2>4. FlowOK(b, Len(txs)) /\ b.pc = pc /\ Bearing(b) /\ b.signed = flow[f].signed
    BY <1>2, <1>4, <1>5, <2>0, <2>2, <2>3, ResumeRecord
  <2>5. flow' = [flow EXCEPT ![f] = b]
    BY <1>9, <2>0, <2>1
  <2>6. Steady(flow[f], b) /\ b.pc \notin {"switching", "replace"} /\ excused \subseteq excused'
    BY <1>2, <2>4 DEF Steady
  <2>7. CalmStep
    BY <1>9, <2>4, <2>5, <2>6, CalmResume
  <2> QED
    BY <2>7, CalmKeeps
<1>10. CASE /\ UNCHANGED <<user, tickets, jobs>>
            /\ flow' = [flow EXCEPT ![f] = [next EXCEPT !.pc = IF context = NoContext THEN "record" ELSE "sync",
                                                        !.seen = tickets[e].code]]
  <2>1. PICK pc : pc = IF context = NoContext THEN "record" ELSE "sync"
    OBVIOUS
  <2> QED
    BY <1>9, <1>10, <2>1
<1> QED
  BY <1>1, <1>5, <1>7, <1>8, <1>10 DEF resumeUser

(* The claim of ReceiveScreen.                                             *)
LEMMA ResumeWalletKeeps ==
  ASSUME Inv, NEW f \in Flows, resume(f), NEW context, ContextOK(context), resumeWallet(f, context) PROVE Inv'
<1>1. PICK e : e = IF flow[f].event = Nobody THEN context.event ELSE flow[f].event
  OBVIOUS
<1>2. flow[f].pc = "resume" /\ e # Nobody /\ UNCHANGED <<user, tickets, jobs, excused>>
  BY <1>1 DEF resume, resumeWallet
<1>3. /\ TypeInv /\ flow \in [Flows -> FlowType] /\ flow[f] \in FlowType
      /\ flow[f].event \in Events \cup {Nobody} /\ \A x \in Events : tickets[x].code \in Codes
  BY <1>2, Resumed
<1>4. e \in Events /\ context.code \in Codes
  BY <1>1, <1>2, <1>3 DEF ContextOK
<1>5. PICK a, c, d : a = flow[f] /\ c = context.code /\ d = tickets[e].code /\ c \in Codes /\ d \in Codes
  BY <1>3, <1>4
<1>6. a \in FlowType /\ a.user \in Scopes
  BY <1>3, <1>5 DEF FlowType
<1>7. PICK b : b = [a EXCEPT !.pc = "record", !.screen = "wallet", !.event = e, !.code = c, !.seen = d]
  OBVIOUS
<1>8. flow' = [flow EXCEPT ![f] = b]
  BY <1>1, <1>3, <1>5, <1>7 DEF resumeWallet
<1>9. b = [pc |-> "record", screen |-> "wallet", user |-> a.user, event |-> e, code |-> c, seen |-> d,
           signed |-> a.signed, retries |-> a.retries, list |-> a.list]
  BY <1>6, <1>7 DEF FlowType
<1>10. FlowOK(b, Len(txs)) /\ b.pc = "record" /\ Bearing(b) /\ b.signed = flow[f].signed
  BY <1>2, <1>4, <1>5, <1>6, <1>9, ResumeRecord
<1>11. Steady(flow[f], b) /\ b.pc \notin {"switching", "replace"} /\ excused \subseteq excused'
  BY <1>2, <1>10 DEF Steady
<1>12. CalmStep
  BY <1>2, <1>8, <1>10, <1>11, CalmResume
<1> QED
  BY <1>12, CalmKeeps

(* No event is known.                                                      *)
LEMMA ResumeNothingKeeps ==
  ASSUME Inv, NEW f \in Flows, resume(f), resumeNothing(f) PROVE Inv'
<1>1. /\ flow' = [flow EXCEPT ![f] = Idle] /\ UNCHANGED <<user, tickets, jobs>>
      /\ excused' = excused \cup {flow[f].signed} /\ Len(txs) \in Nat
  BY Lens DEF resumeNothing, Inv
<1>2. FlowOK(Idle, Len(txs)) /\ Idle.pc \notin {"switching", "replace"}
  BY <1>1, IdleOK
<1>3. Steady(flow[f], Idle) /\ excused \subseteq excused'
  BY <1>1 DEF Steady
<1>4. CalmStep
  BY <1>1, <1>2, <1>3, CalmResume
<1> QED
  BY <1>4, CalmKeeps

LEMMA ResumeKeeps ==
  ASSUME Inv, NEW f \in Flows, resume(f) PROVE Inv'
<1>1. ContextOK(NoContext) /\ ContextOK(web.user) /\ ContextOK(web.wallet)
  BY NoContextOK, WebHolds DEF Inv
<1>2. ASSUME NEW context \in taken(web.user, flow[f].event), resumeUser(f, context) PROVE Inv'
  BY <1>1, <1>2, ResumeUserKeeps DEF taken
<1>3. ASSUME NEW context \in taken(web.wallet, flow[f].event), resumeWallet(f, context) PROVE Inv'
  BY <1>1, <1>3, ResumeWalletKeeps DEF taken
<1> QED
  BY <1>2, <1>3, ResumeNothingKeeps DEF resume

-----------------------------------------------------------------------------
(* The process starts again: what its flows alone knew is excused.         *)
LEMMA ReloadKeeps ==
  ASSUME Inv, reload, UNCHANGED <<user, storage, overlapped, world>>, WebOK(web'), requests' \subseteq requests,
         launchUrl' \in 0..Len(txs), excused' = excused \cup carried(Flows), flow' \in [Flows -> FlowType],
         \A f \in Flows : FlowOK(flow'[f], Len(txs)) /\ flow'[f].pc \notin {"switching", "replace"}
  PROVE  Inv'
<1>1. /\ TypeInv /\ user \in Scopes /\ Nobody \notin Flows
      /\ \A s \in Scopes : ListOK(storage[s], Len(txs)) /\ Own(storage[s], s)
  BY ClientAssumption DEF Inv, TypeInv, ClientType, ScopeInv
<1>2. WorldGrows
  BY <1>1, ExcuseGrows DEF world
<1>3. PICK job : job = load(user, Nobody)
  OBVIOUS
<1>4. /\ job \in [user : Scopes, list : [Events -> Tickets], by : Flows \cup {Nobody}]
      /\ job.user = user /\ job.by = Nobody /\ ListOK(job.list, Len(txs)) /\ held(job.list) = heldIn(user)
      /\ OwnNext(job.list, user)
  BY <1>1, <1>2, <1>3, LoadJob
<1>5. tickets' = NoTickets /\ jobs' = {job} /\ pending' = Nobody
  BY <1>3 DEF reload
<1>6. txs' = txs /\ user' = user /\ storage' = storage /\ overlapped' = overlapped
  BY DEF world
<1>7. TypeInv'
  <2>1. ClientType'
    <3>1. ListOK(NoTickets, Len(txs))
      BY EmptyList
    <3> QED
      BY <1>1, <1>5, <1>6, <3>1 DEF TypeInv, ClientType, world
  <2>2. FlowsOK'
    BY <1>6 DEF FlowsOK
  <2>3. JobsOK'
    BY <1>1, <1>4, <1>5, <1>6 DEF JobsOK
  <2>4. SlotOK'
    BY <1>5 DEF SlotOK
  <2> QED
    BY <2>1, <2>2, <2>3, <2>4 DEF TypeInv
<1>8. ScopeInv'
  <2>1. \A s \in Scopes : OwnNext(storage'[s], s)
    BY <1>1, <1>2, <1>6, OwnGrows
  <2>2. OwnNext(tickets', user')
    BY <1>5, EmptyList DEF OwnNext
  <2>3. \A j \in jobs' : OwnNext(j.list, j.user)
    BY <1>4, <1>5
  <2>4. \A i \in DOMAIN synced' : MineNext(synced'[i].tx, synced'[i].user)
    BY <1>2, SyncedGrows DEF Inv
  <2> QED
    BY <2>1, <2>2, <2>3, <2>4, ScopeFrom
<1>9. KeepInv'
  <2>1. CASE overlapped
    BY <1>6, <2>1, KeepFrom
  <2>2. CASE ~overlapped
    <3>1. \A s \in Scopes : Retained(s)
      BY <1>6 DEF Retained, heldIn
    <3>2. \A f \in Flows : Bearing(flow[f]) => flow[f].signed \in excused'
      <4> SUFFICES ASSUME NEW f \in Flows, Bearing(flow[f]) PROVE flow[f].signed \in excused'
        OBVIOUS
      <4>1. flow[f].pc \in {"record", "resume", "scoping", "sync"}
        BY DEF Bearing
      <4>2. flow[f].signed # 0
        BY <1>1, <4>1 DEF TypeInv, FlowsOK, FlowOK, Carrying
      <4> QED
        BY <4>1, <4>2 DEF carried
    <3>3. \A tx \in landed' : KeptNext(tx) \/ \E f \in Flows : flow'[f].signed = tx /\ Bearing(flow'[f])
      BY <1>2, <2>2, <3>1, <3>2, LandedStay DEF Inv, KeptNext
    <3>4. /\ \A j \in jobs' : held(storage'[j.user]) \subseteq held(j.list)
          /\ \E j \in jobs' : j.user = user'
      BY <1>4, <1>5, <1>6 DEF heldIn
    <3> QED
      BY <3>3, <3>4, KeepFrom
  <2> QED
    BY <2>1, <2>2
<1> QED
  BY <1>7, <1>8, <1>9 DEF Inv

LEMMA ColdStartKeeps ==
  ASSUME Inv, NEW tx \in requests, coldStart(tx) PROVE Inv'
<1>1. Len(txs) \in Nat /\ tx \in 1..Len(txs)
  BY Lens DEF Inv, TypeInv, ClientType
<1>2. /\ reload /\ UNCHANGED <<user, storage, overlapped, web, world>> /\ requests' \subseteq requests
      /\ launchUrl' = tx /\ excused' = excused \cup carried(Flows) /\ flow' = [f \in Flows |-> Idle]
  BY DEF coldStart
<1>3. FlowOK(Idle, Len(txs)) /\ Idle \in FlowType /\ Idle.pc \notin {"switching", "replace"}
  BY <1>1, IdleOK
<1>4. flow' \in [Flows -> FlowType] /\ \A f \in Flows : flow'[f] = Idle
  BY <1>2, <1>3
<1>5. launchUrl' \in 0..Len(txs) /\ WebOK(web')
  BY <1>1, <1>2, WebHolds DEF Inv
<1> QED
  BY <1>2, <1>3, <1>4, <1>5, ReloadKeeps

(* The return path is taken.                                               *)
LEMMA PathTaken ==
  ASSUME TypeInv PROVE WebOK([web EXCEPT !.path = NoPath])
<1>1. PathOK(NoPath)
  BY DEF PathOK, NoPath
<1> QED
  BY <1>1, NoContextOK, WebSlots

LEMMA CallbackDeclinedKeeps ==
  ASSUME Inv, NEW tx \in requests, callbackDeclined(tx) PROVE Inv'
<1>1. Len(txs) \in Nat /\ TypeInv /\ launchUrl \in 0..Len(txs)
  BY Lens DEF Inv, TypeInv, ClientType
<1>2. /\ reload /\ UNCHANGED <<user, storage, overlapped, world>> /\ requests' \subseteq requests
      /\ launchUrl' = launchUrl /\ excused' = excused \cup carried(Flows) /\ flow' = [f \in Flows |-> Idle]
      /\ web' = [web EXCEPT !.path = NoPath]
  BY DEF callbackDeclined
<1>3. FlowOK(Idle, Len(txs)) /\ Idle \in FlowType /\ Idle.pc \notin {"switching", "replace"}
  BY <1>1, IdleOK
<1>4. flow' \in [Flows -> FlowType] /\ \A f \in Flows : flow'[f] = Idle
  BY <1>2, <1>3
<1>5. launchUrl' \in 0..Len(txs) /\ WebOK(web')
  BY <1>1, <1>2, PathTaken
<1> QED
  BY <1>2, <1>3, <1>4, <1>5, ReloadKeeps

LEMMA CallbackRecord ==
  ASSUME NEW n \in Nat, NEW e \in Events \cup {Nobody}, NEW s \in {"callback", "wallet"}, NEW tx \in 1..n,
         NEW b, NEW l, l = NoTickets,
         b = [pc |-> "send", screen |-> s, user |-> Nobody, event |-> e, code |-> NoCode, seen |-> NoCode,
              signed |-> tx, retries |-> 0, list |-> l]
  PROVE  FlowOK(b, n) /\ b.pc = "send" /\ b \in FlowType
<1>1. l \in [Events -> Tickets] /\ NoCode \in Codes /\ ListOK(l, n)
  BY EmptyList DEF Codes
<1>2. b \in FlowType
  BY <1>1 DEF FlowType, Scopes, Screens, Claiming
<1>3. /\ b.list = l /\ b.signed = tx /\ b.pc = "send" /\ b.screen = s
  OBVIOUS
<1>4. b.signed \in 0..n /\ b.signed # 0 /\ b.pc \in Late /\ b.pc \in Unsure
  BY <1>3 DEF Late, Unsure
<1> QED
  BY <1>1, <1>2, <1>3, <1>4 DEF FlowOK, Screens

LEMMA CallbackKeeps ==
  ASSUME Inv, NEW f \in Flows, NEW tx \in requests, callback(f, tx) PROVE Inv'
<1>1. Len(txs) \in Nat /\ tx \in 1..Len(txs) /\ launchUrl \in 0..Len(txs) /\ TypeInv
  BY Lens DEF Inv, TypeInv, ClientType
<1>2. PICK e, s : e = web.path.event /\ s = IF web.path.screen = "receive" THEN "wallet" ELSE "callback"
  OBVIOUS
<1>0. e \in Events \cup {Nobody} /\ s \in {"callback", "wallet"}
  BY <1>1, <1>2, WebHolds DEF PathOK
<1>3. PICK b : b = [Idle EXCEPT !.pc = "send", !.signed = tx, !.event = e, !.screen = s]
  OBVIOUS
<1>4. /\ reload /\ UNCHANGED <<user, storage, overlapped, world>> /\ requests' \subseteq requests
      /\ web' = [web EXCEPT !.path = NoPath] /\ launchUrl' = launchUrl /\ excused' = excused \cup carried(Flows)
      /\ flow' = [g \in Flows |-> IF g # f THEN Idle ELSE b]
  BY <1>2, <1>3 DEF callback
<1>5. FlowOK(b, Len(txs)) /\ b.pc = "send" /\ b \in FlowType
  <2>1. b = [pc |-> "send", screen |-> s, user |-> Nobody, event |-> e, code |-> NoCode, seen |-> NoCode,
             signed |-> tx, retries |-> 0, list |-> NoTickets]
    BY <1>3 DEF Idle
  <2> QED
    BY <1>0, <1>1, <2>1, CallbackRecord
<1>6. FlowOK(Idle, Len(txs)) /\ Idle \in FlowType /\ Idle.pc \notin {"switching", "replace"}
  BY <1>1, IdleOK
<1>7. flow' \in [Flows -> FlowType] /\ \A g \in Flows : flow'[g] = Idle \/ flow'[g] = b
  BY <1>4, <1>5, <1>6
<1>8. \A g \in Flows : FlowOK(flow'[g], Len(txs)) /\ flow'[g].pc \notin {"switching", "replace"}
  BY <1>5, <1>6, <1>7
<1>9. WebOK(web')
  BY <1>1, <1>4, PathTaken
<1> QED
  BY <1>1, <1>4, <1>7, <1>8, <1>9, ReloadKeeps

-----------------------------------------------------------------------------
(* A store operation resolves, and the flow that awaits it goes on.        *)
LEMMA AfterStore ==
  ASSUME NEW n \in Nat, NEW a, FlowOK(a, n), a.pc \in Awaiting, NEW list, ListOK(list, n), NEW b \in afterStore(a, list)
  PROVE  /\ FlowOK(b, n) /\ b.pc \notin {"switching", "sign"} /\ Steady(a, b)
         /\ b.pc = "replace" => a.pc = "switching" /\ b.list = a.list /\ b.user = a.user
<1>1. a \in FlowType /\ a.signed \in 0..n /\ ListOK(a.list, n)
  BY DEF FlowOK
<1>2. CASE a.pc = "saving"
  <2>1. "check" \in Claiming /\ "check" \notin Carrying /\ a.pc \in Claiming
    BY <1>2 DEF Claiming, Carrying
  <2>2. b = [a EXCEPT !.pc = "check"]
    BY <1>2 DEF afterStore
  <2>3. FlowOK(b, n) /\ b.pc = "check"
    <3>1. Fits(a, "check")
      BY <1>2, <2>1, Settled DEF Late, Unsure
    <3> QED
      BY <2>1, <2>2, <3>1, OtherPc
  <2> QED
    BY <1>2, <2>3 DEF Steady, Bearing
<1>3. CASE a.pc = "scoping"
  <2>1. a.pc \in Claiming /\ a.signed # 0 /\ a.user \in Users /\ a.event \in Events
    BY <1>3 DEF FlowOK, Claiming, Carrying, Late, Unsure
  <2>2. PICK c \in Codes : c = list[a.event].code
    BY <2>1 DEF ListOK, Tickets
  <2>3. b = [a EXCEPT !.pc = "sync", !.seen = c]
    BY <1>3, <2>2 DEF afterStore
  <2>4. /\ b \in FlowType /\ b.pc = "sync" /\ b.signed = a.signed /\ b.list = a.list
        /\ b.event = a.event /\ b.screen = a.screen /\ b.user = a.user
    BY <1>1, <2>2, <2>3 DEF FlowType, Claiming
  <2>5. FlowOK(b, n)
    BY <2>1, <2>4, MovesOn
  <2> QED
    BY <1>3, <2>4, <2>5 DEF Steady, Bearing
<1>4. CASE a.pc = "recording"
  <2>1. PICK pc : pc = IF a.screen = "confirm" THEN "sync" ELSE "success"
    OBVIOUS
  <2>2. /\ pc \in Claiming /\ a.pc \in Claiming /\ a.signed # 0 /\ pc \in {"sync", "success"}
        /\ a.event \in Events /\ "success" \in Late
    BY <1>4, <2>1 DEF FlowOK, Claiming, Carrying, Late, Unsure
  <2>3. Fits(a, pc)
    BY <2>1, <2>2, Settled DEF Fits
  <2>4. CASE b = [a EXCEPT !.pc = pc]
    <3>1. FlowOK(b, n) /\ b.pc = pc
      BY <2>2, <2>3, <2>4, OtherPc
    <3> QED
      BY <1>4, <2>2, <3>1 DEF Steady, Bearing
  <2>5. CASE b = Idle
    BY <1>4, <2>5, IdleOK DEF Steady, Bearing
  <2> QED
    BY <1>4, <2>1, <2>4, <2>5 DEF afterStore
<1>5. CASE a.pc = "recordingDead"
  <2>1. "success" \in Claiming /\ "success" \notin Carrying /\ a.pc \in Claiming
    BY <1>5 DEF Claiming, Carrying
  <2>2. b = [a EXCEPT !.pc = "success"] \/ b = Idle
    BY <1>5 DEF afterStore
  <2>3. CASE b = [a EXCEPT !.pc = "success"]
    <3>1. FlowOK(b, n) /\ b.pc = "success"
      <4>1. Fits(a, "success")
        BY <1>5, <2>1, Settled DEF Late, Unsure
      <4> QED
        BY <2>1, <2>3, <4>1, OtherPc
    <3> QED
      BY <1>5, <3>1 DEF Steady, Bearing
  <2>4. CASE b = Idle
    BY <1>5, <2>4, IdleOK DEF Steady, Bearing
  <2> QED
    BY <2>2, <2>3, <2>4
<1>6. CASE a.pc = "switching"
  <2>1. b = [a EXCEPT !.pc = "replace"]
    BY <1>6 DEF afterStore
  <2>2. b \in FlowType /\ b.pc = "replace" /\ b.signed = a.signed /\ b.list = a.list /\ b.user = a.user
    BY <1>1, <2>1 DEF FlowType
  <2>3. b.pc \notin Claiming /\ b.pc \notin Carrying
    BY <2>2 DEF Claiming, Carrying
  <2>4. FlowOK(b, n)
    BY <1>1, <2>2, <2>3 DEF FlowOK
  <2> QED
    BY <1>6, <2>2, <2>4 DEF Steady, Bearing
<1>7. CASE a.pc = "replacing"
  <2>1. b = Idle
    BY <1>7 DEF afterStore
  <2> QED
    BY <1>7, <2>1, IdleOK DEF Steady, Bearing
<1> QED
  BY <1>2, <1>3, <1>4, <1>5, <1>6, <1>7 DEF Awaiting

(* The context a screen saves names its account and its event.             *)
LEMMA WebAfterStoreOK ==
  ASSUME Inv, NEW f \in Flows PROVE WebOK(webAfterStore(f))
<1>1. TypeInv /\ flow[f] \in FlowType /\ FlowOK(flow[f], Len(txs))
  BY FlowAt
<1>2. CASE flow[f].pc = "saving" /\ platform = "web"
  <2>1. flow[f].user \in Users /\ flow[f].event \in Events /\ flow[f].code \in Codes
    BY <1>1, <1>2, Settled DEF Claiming, Late, Unsure, FlowType
  <2>2. PICK c : c = [user |-> flow[f].user, event |-> flow[f].event, code |-> flow[f].code]
    OBVIOUS
  <2>3. ContextOK(c)
    BY <2>1, <2>2 DEF ContextOK, Scopes
  <2>4. WebOK([web EXCEPT !.user = c]) /\ WebOK([web EXCEPT !.wallet = c])
    BY <1>1, <2>3, WebHolds, WebSlots
  <2> QED
    BY <1>2, <2>2, <2>4 DEF webAfterStore, savedContext
<1>3. CASE ~(flow[f].pc = "saving" /\ platform = "web")
  BY <1>1, <1>3, WebHolds, ClearedOK DEF webAfterStore
<1> QED
  BY <1>2, <1>3

LEMMA StoreDoneKeeps ==
  ASSUME Inv, NEW j \in jobs, storeDone(j) PROVE Inv'
<1>1. /\ TypeInv /\ ScopeInv /\ KeepInv /\ flow \in [Flows -> FlowType] /\ Len(txs) \in Nat
      /\ user \in Scopes /\ ListOK(tickets, Len(txs)) /\ ListOK(j.list, Len(txs))
      /\ \A s \in Scopes : ListOK(storage[s], Len(txs))
      /\ j.by \in Flows => flow[j.by].pc \in Awaiting
  BY Lens DEF Inv, TypeInv, ClientType, FlowsOK, JobsOK
<1>2. /\ jobs' = jobs \ {j} /\ tickets' = IF user = j.user THEN j.list ELSE tickets
      /\ UNCHANGED <<user, storage, overlapped, signing, world, excused>>
  BY DEF storeDone, stillActive
<1>3. WorldGrows
  BY <1>1, <1>2, ExcuseGrows DEF world
<1>4. /\ flow' \in [Flows -> FlowType]
      /\ \A g \in Flows : g # j.by => flow'[g] = flow[g]
      /\ j.by \in Flows => \E b \in afterStore(flow[j.by], j.list) : flow'[j.by] = b
  <2>1. CASE j.by \notin Flows /\ UNCHANGED <<flow, web>>
    BY <1>1, <2>1
  <2>2. CASE j.by \in Flows /\ \E next \in afterStore(flow[j.by], j.list) : flow' = [flow EXCEPT ![j.by] = next]
    <3>1. PICK b \in afterStore(flow[j.by], j.list) : flow' = [flow EXCEPT ![j.by] = b]
      BY <2>2
    <3>2. PICK a : a = flow[j.by]
      OBVIOUS
    <3>3. FlowOK(a, Len(txs)) /\ a.pc \in Awaiting /\ b \in afterStore(a, j.list)
      BY <1>1, <2>2, <3>2 DEF TypeInv, FlowsOK
    <3>4. FlowOK(b, Len(txs))
      BY <1>1, <3>3, AfterStore
    <3>5. b \in FlowType
      BY <3>4 DEF FlowOK
    <3> QED
      BY <1>1, <2>2, <3>1, <3>5
  <2> QED
    BY <2>1, <2>2 DEF storeDone
<1>5. ASSUME j.by \in Flows
      PROVE  /\ FlowOK(flow'[j.by], Len(txs)) /\ flow'[j.by].pc \notin {"switching", "sign"}
             /\ Steady(flow[j.by], flow'[j.by])
             /\ flow'[j.by].pc = "replace" => /\ flow[j.by].pc = "switching" /\ flow'[j.by].list = flow[j.by].list
                                              /\ flow'[j.by].user = flow[j.by].user
  <2>1. PICK a, b : a = flow[j.by] /\ b = flow'[j.by]
    OBVIOUS
  <2>2. FlowOK(a, Len(txs)) /\ a.pc \in Awaiting /\ b \in afterStore(a, j.list)
    BY <1>1, <1>4, <1>5, <2>1 DEF TypeInv, FlowsOK
  <2>3. /\ FlowOK(b, Len(txs)) /\ b.pc \notin {"switching", "sign"} /\ Steady(a, b)
        /\ b.pc = "replace" => a.pc = "switching" /\ b.list = a.list /\ b.user = a.user
    BY <1>1, <2>2, AfterStore
  <2> QED
    BY <2>1, <2>3
<1>6. TypeInv'
  <2>1. ClientType'
    <3>1. WebOK(web')
      BY <1>1, WebHolds, WebAfterStoreOK DEF storeDone
    <3> QED
      BY <1>1, <1>2, <3>1 DEF TypeInv, ClientType, signing, world
  <2>2. FlowsOK'
    <3>1. \A g \in Flows : FlowOK(flow'[g], Len(txs'))
      BY <1>1, <1>2, <1>4, <1>5 DEF TypeInv, FlowsOK, world
    <3> QED
      BY <1>4, <3>1 DEF FlowsOK
  <2>3. JobsOK'
    <3>1. \A i \in jobs' : i \in jobs /\ (i.by \in Flows => i.by # j.by)
      BY <1>1, <1>2 DEF TypeInv, JobsOK
    <3>2. \A i \in jobs' : i.by \in Flows => flow'[i.by].pc \in Awaiting
      BY <1>1, <1>4, <3>1 DEF TypeInv, JobsOK
    <3> QED
      BY <1>1, <1>2, <3>1, <3>2 DEF TypeInv, JobsOK, world
  <2>4. SlotOK'
    <3>1. pending' = pending
      BY <1>2 DEF signing
    <3>2. j.by \in Flows => flow[j.by].pc # "sign"
      BY <1>1 DEF Awaiting
    <3> QED
      BY <1>1, <1>4, <3>1, <3>2 DEF TypeInv, SlotOK
  <2> QED
    BY <2>1, <2>2, <2>3, <2>4 DEF TypeInv
<1>7. ScopeInv'
  <2>1. \A s \in Scopes : OwnNext(storage'[s], s)
    BY <1>1, <1>2, <1>3, OwnGrows DEF ScopeInv
  <2>2. \A i \in jobs : OwnNext(i.list, i.user)
    BY <1>1, <1>3, OwnGrows DEF ScopeInv, TypeInv, JobsOK
  <2>3. OwnNext(tickets', user')
    <3>1. OwnNext(tickets, user)
      BY <1>1, <1>3, OwnGrows DEF ScopeInv
    <3> QED
      BY <1>2, <2>2, <3>1
  <2>4. \A f \in Flows : flow'[f].pc \in {"switching", "replace"} => OwnNext(flow'[f].list, flow'[f].user)
    <3> SUFFICES ASSUME NEW f \in Flows, flow'[f].pc \in {"switching", "replace"}
                 PROVE  OwnNext(flow'[f].list, flow'[f].user)
      OBVIOUS
    <3>1. flow[f].pc \in {"switching", "replace"} /\ flow'[f].list = flow[f].list /\ flow'[f].user = flow[f].user
      BY <1>4, <1>5
    <3>2. ListOK(flow[f].list, Len(txs)) /\ Own(flow[f].list, flow[f].user)
      BY <1>1, <3>1 DEF TypeInv, FlowsOK, FlowOK, ScopeInv
    <3> QED
      BY <1>3, <3>1, <3>2, OwnGrows
  <2>5. \A i \in DOMAIN synced' : MineNext(synced'[i].tx, synced'[i].user)
    BY <1>1, <1>3, SyncedGrows
  <2> QED
    BY <1>2, <2>1, <2>2, <2>3, <2>4, <2>5, ScopeFrom
<1>8. KeepInv'
  <2>1. CASE overlapped
    BY <1>2, <2>1, KeepFrom
  <2>2. CASE ~overlapped
    <3>1. \A s \in Scopes : Retained(s)
      BY <1>2 DEF Retained, heldIn
    <3>2. \A f \in Flows : Steady(flow[f], flow'[f])
      BY <1>4, <1>5 DEF Steady
    <3>3. \A tx \in landed' : KeptNext(tx) \/ \E f \in Flows : flow'[f].signed = tx /\ Bearing(flow'[f])
      BY <1>1, <1>3, <2>2, <3>1, <3>2, LandedStay DEF Steady, KeptNext
    <3>4. \A i \in jobs : held(storage'[i.user]) \subseteq held(i.list)
      BY <1>1, <1>2, <2>2 DEF KeepInv, heldIn
    <3>5. (\E i \in jobs' : i.user = user') \/ held(storage'[user']) \subseteq held(tickets')
      <4>1. CASE user = j.user
        BY <1>2, <3>4, <4>1
      <4>2. CASE user # j.user
        BY <1>1, <1>2, <2>2, <4>2 DEF KeepInv, heldIn
      <4> QED
        BY <4>1, <4>2
    <3> QED
      BY <1>2, <3>3, <3>4, <3>5, KeepFrom
  <2> QED
    BY <2>1, <2>2
<1> QED
  BY <1>6, <1>7, <1>8 DEF Inv

-----------------------------------------------------------------------------
(* The invariant.                                                          *)
LEMMA InitInv == Init => Inv
<1> SUFFICES ASSUME Init PROVE Inv
  OBVIOUS
<1>1. /\ user \in Scopes /\ tickets = NoTickets /\ storage = [s \in Scopes |-> NoTickets] /\ jobs = {}
      /\ overlapped = FALSE /\ flow = [f \in Flows |-> Idle] /\ pending = Nobody /\ requests = {} /\ launchUrl = 0
      /\ web = NoWeb /\ issued = [u \in Users |-> [e \in Events |-> 0]] /\ synced = <<>> /\ txs = <<>>
      /\ landed = {} /\ period = 1
  BY DEF Init
<1>2. Len(txs) = 0 /\ DOMAIN synced = {}
  BY <1>1
<1>3. NoTickets \in [Events -> Tickets] /\ ListOK(NoTickets, Len(txs)) /\ held(NoTickets) = {}
  BY EmptyList
<1>4. TypeInv
  <2>1. ClientType
    <3>1. txs \in Seq([user : Users, event : Events, code : Codes, period : Nat])
      BY <1>1
    <3>2. synced \in Seq([user : Users, event : Events, code : Codes, tx : 1..Len(txs)])
      BY <1>1
    <3>3. WebOK(web)
      BY <1>1, NoWebOK
    <3>4. issued \in [Users -> [Events -> Nat]] /\ period \in Nat /\ overlapped \in BOOLEAN
      BY <1>1
    <3>5. storage \in [Scopes -> [Events -> Tickets]] /\ \A s \in Scopes : ListOK(storage[s], Len(txs))
      BY <1>1, <1>3
    <3>6. requests \subseteq 1..Len(txs) /\ launchUrl \in 0..Len(txs) /\ landed \subseteq 1..Len(txs)
      BY <1>1, <1>2
    <3> QED
      BY <1>1, <1>3, <3>1, <3>2, <3>3, <3>4, <3>5, <3>6 DEF ClientType
  <2>2. FlowsOK
    <3>1. FlowOK(Idle, Len(txs)) /\ Idle \in FlowType
      BY <1>2, IdleOK
    <3> QED
      BY <1>1, <3>1 DEF FlowsOK
  <2>3. JobsOK /\ SlotOK
    BY <1>1 DEF JobsOK, SlotOK
  <2> QED
    BY <2>1, <2>2, <2>3 DEF TypeInv
<1>5. ScopeInv
  <2>1. \A s \in Scopes : Own(storage[s], s)
    BY <1>1, <1>3 DEF Own
  <2>2. Own(tickets, user)
    BY <1>1, <1>3 DEF Own
  <2>3. \A f \in Flows : flow[f].pc \notin {"switching", "replace"}
    <3>1. Idle.pc = "idle"
      BY DEF Idle
    <3> QED
      BY <1>1, <3>1
  <2> QED
    BY <1>1, <1>2, <2>1, <2>2, <2>3 DEF ScopeInv
<1>6. KeepInv
  BY <1>1, <1>3 DEF KeepInv, heldIn
<1> QED
  BY <1>4, <1>5, <1>6 DEF Inv

LEMMA NextInv == Inv /\ [Next]_vars => Inv'
<1> SUFFICES ASSUME Inv, [Next]_vars PROVE Inv'
  OBVIOUS
<1>1. CASE UNCHANGED vars
  <2>1. UNCHANGED <<device, flow, signing, web, world, excused>>
    BY <1>1 DEF vars
  <2>2. TypeInv /\ flow \in [Flows -> FlowType]
    BY DEF Inv, TypeInv, FlowsOK
  <2>3. WebOK(web') /\ period' \in Nat /\ issued' \in [Users -> [Events -> Nat]]
    BY <2>1, <2>2 DEF TypeInv, ClientType, world
  <2>4. ClientType' /\ WorldGrows
    BY <2>1, <2>2, <2>3, ClientSame, WorldSame DEF signing, world
  <2>5. SlotOK'
    BY <2>1, <2>2 DEF signing, TypeInv, SlotOK
  <2>6. CalmStep
    BY <2>1, <2>2, <2>4, <2>5 DEF CalmStep, Calm, Steady
  <2> QED
    BY <2>6, CalmKeeps
<1>2. ASSUME NEW j \in jobs, storeDone(j) PROVE Inv'
  BY <1>2, StoreDoneKeeps
<1>3. CASE loadTickets
  BY <1>3, LoadTicketsKeeps
<1>4. CASE clearUser
  BY <1>4, ClearUserKeeps
<1>5. CASE reprocessInitialUrl
  BY <1>5, CalmReprocess, CalmKeeps
<1>6. CASE nextPeriod
  BY <1>6, CalmPeriod, CalmKeeps
<1>7. ASSUME NEW f \in Flows, NEW u \in Users, handleVerify(f, u) PROVE Inv'
  BY <1>7, VerifyKeeps
<1>8. ASSUME NEW f \in Flows, replaceTickets(f) PROVE Inv'
  BY <1>8, ReplaceKeeps
<1>9. ASSUME NEW f \in Flows, NEW e \in Events, handleParticipate(f, e) PROVE Inv'
  BY <1>9, CalmParticipate, CalmKeeps
<1>10. ASSUME NEW f \in Flows, NEW e \in Events, handleClaimSolana(f, e) PROVE Inv'
  BY <1>10, CalmClaimSolana, CalmKeeps
<1>11. ASSUME NEW f \in Flows, storeOffchain(f) PROVE Inv'
  BY <1>11, StoreOffchainKeeps
<1>12. ASSUME NEW f \in Flows, reuseProof(f) \/ notReady(f) \/ signTransaction(f) PROVE Inv'
  BY <1>12, CalmReuse, CalmNotReady, CalmSign, CalmKeeps
<1>13. ASSUME NEW f \in Flows, signTimeout(f) \/ handleCancelPhantomWait(f) PROVE Inv'
  BY <1>13, CalmTimeout, CalmCancel, CalmKeeps
<1>14. ASSUME NEW f \in Flows, sendConfirmed(f) \/ sendUnconfirmed(f) \/ sendFailed(f) \/ sendAlreadyInUse(f) PROVE Inv'
  BY <1>14, CalmConfirmed, CalmUnconfirmed, CalmFailed, CalmAlreadyInUse, CalmKeeps
<1>15. ASSUME NEW f \in Flows, recordProof(f) PROVE Inv'
  BY <1>15, RecordProofKeeps
<1>16. ASSUME NEW f \in Flows, syncProof(f) PROVE Inv'
  BY <1>16, CalmSync, CalmKeeps
<1>17. ASSUME NEW f \in Flows, showSuccess(f) PROVE Inv'
  BY <1>17, ShowSuccessKeeps
<1>18. ASSUME NEW f \in Flows, resume(f) PROVE Inv'
  BY <1>18, ResumeKeeps
<1>19. ASSUME NEW f \in Flows, NEW tx \in requests, callback(f, tx) PROVE Inv'
  BY <1>19, CallbackKeeps
<1>20. ASSUME NEW tx \in requests, handleRedirect(tx) \/ declined(tx) PROVE Inv'
  BY <1>20, CalmRedirect, CalmDeclined, CalmKeeps
<1>21. ASSUME NEW tx \in requests, coldStart(tx) \/ callbackDeclined(tx) PROVE Inv'
  BY <1>21, ColdStartKeeps, CallbackDeclinedKeeps
<1> QED
  BY <1>1, <1>2, <1>3, <1>4, <1>5, <1>6, <1>7, <1>8, <1>9, <1>10, <1>11, <1>12, <1>13, <1>14, <1>15, <1>16,
     <1>17, <1>18, <1>19, <1>20, <1>21 DEF Next

LEMMA InvScopes == Inv => ScopesSeparate
BY DEF Inv, ScopeInv, Own, Mine, ScopesSeparate, heldIn, Scopes

LEMMA InvKept == Inv => ReceiptsKept
<1> SUFFICES ASSUME Inv, ~overlapped, NEW tx \in landed, tx \notin carried(Flows), tx \notin excused
             PROVE  told(tx) \/ tx \in heldIn(txs[tx].user)
  BY DEF ReceiptsKept
<1>1. Kept(tx) \/ \E f \in Flows : flow[f].signed = tx /\ Bearing(flow[f])
  BY DEF Inv, KeepInv
<1>2. ASSUME NEW f \in Flows, flow[f].signed = tx, Bearing(flow[f]) PROVE FALSE
  <2>1. flow[f].pc \in {"record", "resume", "scoping", "sync"}
    BY <1>2 DEF Bearing
  <2>2. flow[f].signed # 0
    BY <2>1 DEF Inv, TypeInv, FlowsOK, FlowOK, Carrying
  <2> QED
    BY <1>2, <2>1, <2>2 DEF carried
<1> QED
  BY <1>1, <1>2 DEF Kept

(* Whatever screens, polls, signatures, timeouts, reloads and account      *)
(* changes interleave: every list names transactions that were built, the  *)
(* signing slot is held by a flow that awaits it, a store continuation     *)
(* belongs to the one flow that waits for it, and, until writes overlap, a *)
(* payout is told, stored, excused or borne by a flow that has still to    *)
(* record it (recipientTicketStore.ts, phantomSignTxPending.ts; the        *)
(* callback page that knows no event excuses it, [action].tsx).            *)
THEOREM ClientInvariant == Spec => []Inv
<1>1. Inv /\ [Next]_vars => Inv'
  BY NextInv
<1> QED
  BY <1>1, InitInv, PTL DEF Spec

(* The list stored for an account holds receipts of that account only, for *)
(* any number of accounts, screens, account changes and store operations   *)
(* in flight, except those of a flow that outlived the account change or   *)
(* was answered another account's signature (recipientTicketStore.ts).     *)
THEOREM ScopesStaySeparate == Spec => []ScopesSeparate
BY ClientInvariant, InvScopes, PTL

(* A payout the device made stays on record, at the worker or in the list  *)
(* stored for the account that claimed, for any number of screens, polls,  *)
(* codes and account changes, unless its own confirmation, process or      *)
(* account was lost on the way, its callback page knew no event, or a      *)
(* write was issued while another or a load of the account was in flight   *)
(* (recipientTicketStore.ts, [action].tsx).                                *)
THEOREM ReceiptsAlwaysKept == Spec => []ReceiptsKept
BY ClientInvariant, InvKept, PTL
=============================================================================

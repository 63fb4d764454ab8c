------------------------- MODULE AdminConsoleProofs -------------------------
(***************************************************************************)
(* Proofs about AdminConsole: that the sanctioned do nothing, that the     *)
(* limits of events and invite codes hold through crashes half way, and    *)
(* that a crash leaves at most one stray record, one sanction without its  *)
(* report and one pending proposal behind.                                 *)
(***************************************************************************)
EXTENDS AdminConsole, SequenceTheorems, FiniteSetTheorems, TLAPS

(* A storage content as a record: no operation adds or drops a field.      *)
Fields == {"code", "invite", "inviteLimit", "eventLimit", "security", "revokedOperator",
           "user", "reports", "governance", "event", "owner", "made"}
Stored(d) == d = [f \in Fields |-> d[f]]

(* What the limits are about is as it was.                                 *)
Keeps(d, e) ==
  /\ Stored(e)
  /\ e.made = d.made /\ e.eventLimit = d.eventLimit
  /\ e.inviteLimit = d.inviteLimit /\ e.code = d.code

(* The contents of a sequence.                                             *)
Contents(s) == {s[i] : i \in DOMAIN s}

-----------------------------------------------------------------------------
(* Sequences of contents.                                                  *)

LEMMA Contents1 == \A a : <<a>> \in Seq({a}) /\ Contents(<<a>>) = {a} /\ Len(<<a>>) = 1
BY DEF Contents

LEMMA Contents2 ==
  \A a, b : <<a, b>> \in Seq({a, b}) /\ Contents(<<a, b>>) = {a, b} /\ Len(<<a, b>>) = 2
BY DEF Contents

LEMMA Contents3 ==
  \A a, b, c : <<a, b, c>> \in Seq({a, b, c}) /\ Contents(<<a, b, c>>) = {a, b, c} /\ Len(<<a, b, c>>) = 3
BY DEF Contents

LEMMA ContentsJoin ==
  ASSUME NEW s, NEW t, s \in Seq(Contents(s)), t \in Seq(Contents(t))
  PROVE  /\ s \o t \in Seq(Contents(s) \union Contents(t)) /\ Len(s \o t) = Len(s) + Len(t)
         /\ Contents(s \o t) \subseteq Contents(s) \union Contents(t)
<1>1. PICK S : S = Contents(s) \union Contents(t)
  OBVIOUS
<1>2. s \in Seq(S) /\ t \in Seq(S)
  BY <1>1
<1>3. s \o t \in Seq(S) /\ Len(s \o t) = Len(s) + Len(t)
  BY <1>2, ConcatProperties
<1>4. ASSUME NEW i \in DOMAIN (s \o t) PROVE (s \o t)[i] \in S
  BY <1>3, <1>4
<1> QED
  BY <1>1, <1>3, <1>4 DEF Contents

(* However a handler ends, the storage is one of its contents.             *)
LEMMA HandlerOutcome ==
  ASSUME NEW S, NEW contents \in Seq(S), Len(contents) > 0, NEW left, Handler(contents, left)
  PROVE  db' \in Contents(contents) /\ now' = now
BY DEF Handler, Contents

-----------------------------------------------------------------------------
(* Storage contents.                                                       *)

LEMMA KeepsSelf == \A d : Stored(d) => Keeps(d, d)
BY DEF Keeps

LEMMA KeepsTrans == \A d, e, f : Keeps(d, e) /\ Keeps(e, f) => Keeps(d, f)
BY DEF Keeps

LEMMA KeepsSecurity ==
  ASSUME NEW d, Stored(d), NEW a, NEW s PROVE Keeps(d, putSecurity(d, a, s))
BY DEF Keeps, Stored, Fields, putSecurity

LEMMA KeepsSecurityFields ==
  ASSUME NEW d, Stored(d), NEW a, NEW v
  PROVE  Keeps(d, [d EXCEPT !.security[a].warning = v]) /\ Keeps(d, [d EXCEPT !.security[a].frozen = v])
         /\ Keeps(d, [d EXCEPT !.security[a].revokedAccess = v])
BY DEF Keeps, Stored, Fields

LEMMA KeepsTwo ==
  ASSUME NEW d, Stored(d), NEW a, NEW v, NEW w
  PROVE  Keeps(d, [d EXCEPT !.security[a].warning = v, !.security[a].frozen = w])
BY DEF Keeps, Stored, Fields

LEMMA KeepsGovernance ==
  ASSUME NEW d, Stored(d), NEW v
  PROVE  Keeps(d, [d EXCEPT !.governance = @ \union {v}])
BY DEF Keeps, Stored, Fields

LEMMA KeepsReports ==
  ASSUME NEW d, Stored(d), NEW t, NEW x
  PROVE  Keeps(d, createAdminSecurityReportObligation(d, t, x))
BY DEF Keeps, Stored, Fields, createAdminSecurityReportObligation

LEMMA KeepsResolved ==
  ASSUME NEW d, Stored(d), NEW id
  PROVE  Keeps(d, resolveAdminSecurityReportObligation(d, id))
BY DEF Keeps, Stored, Fields, resolveAdminSecurityReportObligation

(* A sequence of contents that all keep what the limits are about.         *)
Keeping(s) == s \in Seq(Contents(s)) /\ Len(s) > 0 /\ \A e \in Contents(s) : Keeps(db, e)

LEMMA KeepingOne == ASSUME NEW a, Keeps(db, a) PROVE Keeping(<<a>>)
BY Contents1 DEF Keeping

LEMMA KeepingTwo == ASSUME NEW a, NEW b, Keeps(db, a), Keeps(db, b) PROVE Keeping(<<a, b>>)
BY Contents2 DEF Keeping

LEMMA KeepingThree ==
  ASSUME NEW a, NEW b, NEW c, Keeps(db, a), Keeps(db, b), Keeps(db, c) PROVE Keeping(<<a, b, c>>)
BY Contents3 DEF Keeping

LEMMA ContentsTyped == ASSUME NEW S, NEW s \in Seq(S) PROVE s \in Seq(Contents(s))
BY DEF Contents

LEMMA KeepingConcat ==
  ASSUME NEW s, NEW t, Keeping(s), Keeping(t) PROVE Keeping(s \o t)
<1>1. /\ s \o t \in Seq(Contents(s) \union Contents(t)) /\ Len(s \o t) = Len(s) + Len(t)
      /\ Contents(s \o t) \subseteq Contents(s) \union Contents(t)
  BY ContentsJoin DEF Keeping
<1>2. s \o t \in Seq(Contents(s \o t))
  BY <1>1, ContentsTyped
<1>3. Len(s) \in Nat /\ Len(t) \in Nat /\ Len(s) > 0 /\ Len(t) > 0
  BY DEF Keeping
<1> QED
  BY <1>1, <1>2, <1>3 DEF Keeping

LEMMA KeepingHandler ==
  ASSUME NEW s, Keeping(s), NEW left, Handler(s, left)
  PROVE  Keeps(db, db') /\ now' = now
BY HandlerOutcome DEF Keeping

-----------------------------------------------------------------------------
(* The sanctions.                                                          *)

LEMMA KeepingReported ==
  ASSUME NEW put, NEW named, Keeps(db, put), Keeps(db, named), NEW type, NEW target
  PROVE  Keeping(reported(put, named, type, target))
<1>1. Stored(put) /\ Stored(named)
  BY DEF Keeps
<1>2. Keeps(put, createAdminSecurityReportObligation(put, type, target))
  BY <1>1, KeepsReports
<1>3. Keeps(named, createAdminSecurityReportObligation(named, type, target))
  BY <1>1, KeepsReports
<1> QED
  BY <1>2, <1>3, KeepsTrans, KeepingThree DEF reported

LEMMA KeepingLifted ==
  ASSUME NEW d, Keeps(db, d), NEW id PROVE Keeping(lifted(d, id))
<1>1. Keeps(d, resolveAdminSecurityReportObligation(d, id))
  BY KeepsResolved DEF Keeps
<1> QED
  BY <1>1, KeepsTrans, KeepingTwo DEF lifted

LEMMA GovernanceKeeps ==
  ASSUME Stored(db), NEW action, NEW target, NEW execute, Keeping(execute),
         processAdminSecurityGovernanceAction(action, target, execute)
  PROVE  Keeps(db, db') /\ now' = now
<1> DEFINE proposed(d) == [d EXCEPT !.governance = @ \union {<<action, target>>}]
           executed(d) == [d EXCEPT !.governance = @ \ {<<action, target>>}]
           executing == [i \in DOMAIN execute |-> proposed(execute[i])]
           last == execute[Len(execute)]
<1>1. \A d : Keeps(db, d) => Keeps(db, proposed(d)) /\ Keeps(db, executed(d))
  BY DEF Keeps, Stored, Fields
<1>2. Keeping(<<proposed(db)>>)
  BY <1>1, KeepsSelf, KeepingOne
<1>3. /\ Len(execute) \in Nat /\ Len(execute) > 0 /\ DOMAIN execute = 1..Len(execute)
      /\ \A i \in DOMAIN execute : Keeps(db, execute[i])
  BY DEF Keeping, Contents
<1>4. Keeping(executing)
  <2> HIDE DEF proposed
  <2>1. \A i \in DOMAIN execute : executing[i] = proposed(execute[i]) /\ Keeps(db, executing[i])
    BY <1>1, <1>3
  <2>2. DOMAIN executing = 1..Len(execute)
    BY <1>3
  <2>3. executing \in Seq(Contents(executing)) /\ Len(executing) = Len(execute)
    BY <1>3, <2>2 DEF Contents
  <2> QED
    BY <1>3, <2>1, <2>2, <2>3 DEF Keeping, Contents
<1>5. Keeping(<<executed(last)>>)
  <2> HIDE DEF executed
  <2>1. Keeps(db, last)
    BY <1>3
  <2> QED
    BY <1>1, <2>1, KeepingOne
<1>6. Keeping(<<proposed(db)>> \o executing \o <<executed(last)>>)
  <2> HIDE DEF proposed, executed, executing, last
  <2> QED
    BY <1>2, <1>4, <1>5, KeepingConcat
<1>7. Handler(<<proposed(db)>> \o executing \o <<executed(last)>>, waiting)
  BY DEF processAdminSecurityGovernanceAction
<1> QED
  BY <1>6, <1>7, KeepingHandler

(* The sanctions of administrators and of operators.                       *)
LEMMA ActorSanctionsKeep ==
  ASSUME Stored(db), NEW a,
         \/ unlock(a) \/ revokeAccess(a) \/ restoreAccess(a) \/ revokeOperator(a) \/ restoreOperator(a)
  PROVE  Keeps(db, db') /\ now' = now
<1>1. CASE unlock(a)
  <2>1. PICK d : d = [db EXCEPT !.security[a].frozen = None, !.security[a].warning = None]
    OBVIOUS
  <2>2. Keeps(db, d)
    BY <2>1 DEF Keeps, Stored, Fields
  <2>3. Keeping(lifted(d, db.security[a].frozen))
    BY <2>2, KeepingLifted
  <2> QED
    BY <1>1, <2>1, <2>3, GovernanceKeeps DEF unlock
<1>2. CASE revokeAccess(a)
  <2>1. PICK u : u = resolveAdminSecurityReportObligation(db, db.security[a].frozen)
    OBVIOUS
  <2> DEFINE Put(id) == [u EXCEPT !.security[a] = [emptySecurityState EXCEPT !.revokedAccess = id]]
  <2>2. Keeps(db, u)
    BY <2>1, KeepsResolved
  <2>3. Keeps(db, Put(0)) /\ Keeps(db, Put(newReportId))
    BY <2>2 DEF Keeps, Stored, Fields
  <2>4. Keeping(<<u>> \o reported(Put(0), Put(newReportId), "revoke_access", a))
    <3> HIDE DEF Put
    <3> QED
      BY <2>2, <2>3, KeepingOne, KeepingReported, KeepingConcat
  <2> QED
    BY <1>2, <2>1, <2>4, GovernanceKeeps DEF revokeAccess
<1>3. CASE restoreAccess(a)
  <2>1. PICK d : d = [db EXCEPT !.security[a].revokedAccess = None, !.security[a].warning = None]
    OBVIOUS
  <2>2. Keeps(db, d)
    BY <2>1 DEF Keeps, Stored, Fields
  <2>3. Keeping(lifted(d, db.security[a].revokedAccess))
    BY <2>2, KeepingLifted
  <2> QED
    BY <1>3, <2>1, <2>3, GovernanceKeeps DEF restoreAccess
<1>4. CASE revokeOperator(a)
  <2> DEFINE Put(id) == [db EXCEPT !.revokedOperator[a] = id]
  <2>1. Keeps(db, Put(0)) /\ Keeps(db, Put(newReportId))
    BY DEF Keeps, Stored, Fields
  <2>2. Keeping(reported(Put(0), Put(newReportId), "operator_revoke", a))
    <3> HIDE DEF Put
    <3> QED
      BY <2>1, KeepingReported
  <2> QED
    BY <1>4, <2>2, GovernanceKeeps DEF revokeOperator
<1>5. CASE restoreOperator(a)
  <2>1. PICK d : d = [db EXCEPT !.revokedOperator[a] = None]
    OBVIOUS
  <2>2. Keeps(db, d)
    BY <2>1 DEF Keeps, Stored, Fields
  <2>3. Keeping(lifted(d, db.revokedOperator[a]))
    BY <2>2, KeepingLifted
  <2> QED
    BY <1>5, <2>1, <2>3, GovernanceKeeps DEF restoreOperator
<1> QED
  BY <1>1, <1>2, <1>3, <1>4, <1>5

(* The moderation of users.                                                *)
LEMMA UserSanctionsKeep ==
  ASSUME Stored(db), NEW u, freezeUser(u) \/ unfreezeUser(u) \/ deleteUser(u) \/ restoreUser(u)
  PROVE  Keeps(db, db') /\ now' = now
<1>1. CASE freezeUser(u)
  <2> DEFINE Put(id) == [db EXCEPT !.user[u].frozen = id]
  <2>1. Keeps(db, Put(0)) /\ Keeps(db, Put(newReportId))
    BY DEF Keeps, Stored, Fields
  <2>2. Keeping(reported(Put(0), Put(newReportId), "user_freeze", u))
    <3> HIDE DEF Put
    <3> QED
      BY <2>1, KeepingReported
  <2> QED
    BY <1>1, <2>2, GovernanceKeeps DEF freezeUser
<1>2. CASE unfreezeUser(u)
  <2>1. PICK d : d = [db EXCEPT !.user[u].frozen = None]
    OBVIOUS
  <2>2. Keeps(db, d)
    BY <2>1 DEF Keeps, Stored, Fields
  <2>3. Keeping(lifted(d, db.user[u].frozen))
    BY <2>2, KeepingLifted
  <2> QED
    BY <1>2, <2>1, <2>3, GovernanceKeeps DEF unfreezeUser
<1>3. CASE deleteUser(u)
  <2> DEFINE Put(id) == [db EXCEPT !.user[u] = [frozen |-> id, deleted |-> id]]
  <2>1. Keeps(db, Put(0)) /\ Keeps(db, Put(newReportId))
    BY DEF Keeps, Stored, Fields
  <2>2. Keeping(reported(Put(0), Put(newReportId), "user_delete", u))
    <3> HIDE DEF Put
    <3> QED
      BY <2>1, KeepingReported
  <2> QED
    BY <1>3, <2>2, GovernanceKeeps DEF deleteUser
<1>4. CASE restoreUser(u)
  <2>1. PICK d : d = [db EXCEPT !.user[u] = notModerated]
    OBVIOUS
  <2>2. Keeps(db, d)
    BY <2>1 DEF Keeps, Stored, Fields
  <2>3. Keeping(lifted(d, db.user[u].deleted))
    BY <2>2, KeepingLifted
  <2> QED
    BY <1>4, <2>1, <2>3, GovernanceKeeps DEF restoreUser
<1> QED
  BY <1>1, <1>2, <1>3, <1>4

-----------------------------------------------------------------------------
(* What a step may do to what the limits are about.                        *)

(* A code is issued: its limit is counted first.                           *)
Issues(c) ==
  /\ Stored(db') /\ db'.made = db.made /\ db'.eventLimit = db.eventLimit
  /\ enforceAdminInviteIssueLimit # None /\ db'.inviteLimit = enforceAdminInviteIssueLimit
  /\ db'.code = db.code \/ db'.code = [db.code EXCEPT ![c] = "active"]

Revokes(c) ==
  /\ db.code[c] = "active" /\ db'.code = [db.code EXCEPT ![c] = "revoked"]
  /\ Stored(db') /\ db'.made = db.made /\ db'.eventLimit = db.eventLimit
  /\ db'.inviteLimit = db.inviteLimit

(* An event is created: its limit is counted first.                        *)
Creates(a) ==
  /\ enforceAdminSecurityOperation(a)
  /\ Stored(db') /\ db'.code = db.code /\ db'.inviteLimit = db.inviteLimit
  /\ enforceAdminEventIssueLimit(a) # None
  /\ db'.eventLimit = [db.eventLimit EXCEPT ![a] = enforceAdminEventIssueLimit(a)]
  /\ db'.made = db.made \/ db'.made = Append(db.made, [by |-> a, at |-> now])

LEMMA ApproveOutcome ==
  ASSUME Stored(db), NEW d, Keeps(db, d), NEW p, NEW c,
         NEW e \in Contents(approveAdminInviteProposal(d, p, c)),
         db' = e
  PROVE  Keeps(db, db') \/ Issues(c)
<1>1. CASE enforceAdminInviteIssueLimit = None
  <2>1. approveAdminInviteProposal(d, p, c) = <<d>>
    BY <1>1 DEF approveAdminInviteProposal
  <2> QED
    BY <2>1, Contents1
<1>2. CASE enforceAdminInviteIssueLimit # None
  <2>1. PICK counted : counted = [d EXCEPT !.inviteLimit = enforceAdminInviteIssueLimit]
    OBVIOUS
  <2>2. PICK coded : coded = [counted EXCEPT !.code[c] = "active"]
    OBVIOUS
  <2>3. PICK issued : issued = [coded EXCEPT !.invite[p] = [status |-> "issued", code |-> c]]
    OBVIOUS
  <2>4. approveAdminInviteProposal(d, p, c) = <<counted, coded, issued>>
    BY <1>2, <2>1, <2>2, <2>3 DEF approveAdminInviteProposal, listInviteConsensusOperators
  <2>5. e \in {counted, coded, issued}
    BY <2>4, Contents3
  <2>6. /\ Stored(counted) /\ counted.made = db.made /\ counted.eventLimit = db.eventLimit
        /\ counted.inviteLimit = enforceAdminInviteIssueLimit /\ counted.code = db.code
    BY <2>1 DEF Keeps, Stored, Fields
  <2>7. /\ Stored(coded) /\ coded.made = db.made /\ coded.eventLimit = db.eventLimit
        /\ coded.inviteLimit = enforceAdminInviteIssueLimit
        /\ coded.code = [db.code EXCEPT ![c] = "active"]
    BY <2>2, <2>6 DEF Stored, Fields
  <2>8. /\ Stored(issued) /\ issued.made = db.made /\ issued.eventLimit = db.eventLimit
        /\ issued.inviteLimit = enforceAdminInviteIssueLimit
        /\ issued.code = [db.code EXCEPT ![c] = "active"]
    BY <2>3, <2>7 DEF Stored, Fields
  <2> QED
    BY <1>2, <2>5, <2>6, <2>7, <2>8 DEF Issues
<1> QED
  BY <1>1, <1>2

LEMMA ApproveTyped ==
  ASSUME NEW d, NEW p, NEW c
  PROVE  /\ approveAdminInviteProposal(d, p, c) \in Seq(Contents(approveAdminInviteProposal(d, p, c)))
         /\ Len(approveAdminInviteProposal(d, p, c)) > 0
<1>1. PICK s : s = approveAdminInviteProposal(d, p, c)
  OBVIOUS
<1>2. \/ \E x : s = <<x>>
      \/ \E x, y, z : s = <<x, y, z>>
  BY <1>1 DEF approveAdminInviteProposal
<1>3. s \in Seq(Contents(s)) /\ Len(s) > 0
  <2>1. ASSUME NEW x, s = <<x>> PROVE s \in Seq(Contents(s)) /\ Len(s) > 0
    BY <2>1, Contents1
  <2>2. ASSUME NEW x, NEW y, NEW z, s = <<x, y, z>> PROVE s \in Seq(Contents(s)) /\ Len(s) > 0
    <3>1. s \in Seq({x, y, z}) /\ Contents(s) = {x, y, z} /\ Len(s) = 3
      BY <2>2, Contents3
    <3> QED
      BY <3>1
  <2> QED
    BY <1>2, <2>1, <2>2
<1> QED
  BY <1>1, <1>3

LEMMA InviteOutcome ==
  ASSUME Stored(db), NEW p, NEW c, invite(p, c) \/ approveInvite(p, c)
  PROVE  (Keeps(db, db') \/ Issues(c)) /\ now' = now
<1>1. CASE invite(p, c)
  <2>1. PICK d : d = [db EXCEPT !.invite[p].status = "pending"]
    OBVIOUS
  <2>2. Keeps(db, d)
    BY <2>1 DEF Keeps, Stored, Fields
  <2>3. PICK s : s = approveAdminInviteProposal(d, p, c)
    OBVIOUS
  <2>4. Handler(<<d>> \o s, waiting)
    BY <1>1, <2>1, <2>3 DEF invite
  <2>5. /\ <<d>> \o s \in Seq({d} \union Contents(s)) /\ Len(<<d>> \o s) > 0
        /\ Contents(<<d>> \o s) \subseteq {d} \union Contents(s)
    <3>1. s \in Seq(Contents(s)) /\ Len(s) > 0 /\ Len(s) \in Nat
      BY <2>3, ApproveTyped
    <3>2. PICK one : one = <<d>>
      OBVIOUS
    <3>3. one \in Seq(Contents(one))
      BY <3>2, Contents1
    <3>4. /\ one \o s \in Seq(Contents(one) \union Contents(s)) /\ Len(one \o s) = Len(one) + Len(s)
          /\ Contents(one \o s) \subseteq Contents(one) \union Contents(s)
      BY <3>1, <3>3, ContentsJoin
    <3>5. Contents(one) = {d} /\ Len(one) = 1
      BY <3>2, Contents1
    <3> QED
      BY <3>1, <3>2, <3>4, <3>5
  <2>6. db' \in {d} \union Contents(s) /\ now' = now
    BY <2>4, <2>5, HandlerOutcome
  <2> QED
    BY <2>2, <2>3, <2>6, ApproveOutcome
<1>2. CASE approveInvite(p, c)
  <2>1. PICK s : s = approveAdminInviteProposal(db, p, c)
    OBVIOUS
  <2>2. Handler(s, waiting) /\ s \in Seq(Contents(s)) /\ Len(s) > 0
    BY <1>2, <2>1, ApproveTyped DEF approveInvite
  <2>3. db' \in Contents(s) /\ now' = now
    BY <2>2, HandlerOutcome
  <2> QED
    BY <2>1, <2>3, KeepsSelf, ApproveOutcome
<1> QED
  BY <1>1, <1>2

LEMMA RevokeOutcome ==
  ASSUME Stored(db), NEW c, revokeCode(c) PROVE Revokes(c) /\ now' = now
<1>1. PICK d : d = [db EXCEPT !.code[c] = "revoked"]
  OBVIOUS
<1>2. Handler(<<d>>, waiting) /\ db.code[c] = "active"
  BY <1>1 DEF revokeCode
<1>3. db' = d /\ now' = now
  <2>1. <<d>> \in Seq({d}) /\ Contents(<<d>>) = {d} /\ Len(<<d>>) > 0
    BY Contents1
  <2>2. db' \in Contents(<<d>>) /\ now' = now
    BY <1>2, <2>1, HandlerOutcome
  <2> QED
    BY <2>1, <2>2
<1> QED
  BY <1>1, <1>2, <1>3 DEF Revokes, Stored, Fields

LEMMA RejectKeeps ==
  ASSUME Stored(db), NEW p, rejectInvite(p) PROVE Keeps(db, db') /\ now' = now
<1>1. PICK d : d = rejectAdminInviteProposal(db, p)
  OBVIOUS
<1>2. Keeps(db, d)
  BY <1>1 DEF Keeps, Stored, Fields, rejectAdminInviteProposal
<1> QED
  BY <1>1, <1>2, KeepingOne, KeepingHandler DEF rejectInvite

LEMMA CloseKeeps ==
  ASSUME Stored(db), NEW a, NEW t, closeEvent(a, t) PROVE Keeps(db, db') /\ now' = now
<1>1. PICK d : d = IF warningExpired(db.security[a])
                   THEN putSecurity(db, a, [db.security[a] EXCEPT !.warning = None]) ELSE db
  OBVIOUS
<1>2. Keeps(db, d)
  BY <1>1, KeepsSelf, KeepsSecurity
<1>3. PICK e : e = [d EXCEPT !.event[t].state = "ended"]
  OBVIOUS
<1>4. Keeps(db, e)
  BY <1>2, <1>3 DEF Keeps, Stored, Fields
<1>5. Handler(<<d, e>>, waiting)
  BY <1>1, <1>3 DEF closeEvent
<1> QED
  BY <1>2, <1>4, <1>5, KeepingTwo, KeepingHandler

LEMMA CreateOutcome ==
  ASSUME Stored(db), NEW a, NEW override, NEW signals, NEW config,
         createEvent(a, override, signals, config)
  PROVE  (Keeps(db, db') \/ Creates(a)) /\ now' = now
<1>1. PICK s : s = IF warningExpired(db.security[a]) THEN [db.security[a] EXCEPT !.warning = None]
                   ELSE db.security[a]
  OBVIOUS
<1>2. PICK swept : swept = IF warningExpired(db.security[a]) THEN <<putSecurity(db, a, s)>> ELSE <<>>
  OBVIOUS
<1>3. PICK noted : noted = putSecurity(db, a, [s EXCEPT !.warning = IF signals THEN now ELSE @])
  OBVIOUS
<1>4. Keeps(db, putSecurity(db, a, s)) /\ Keeps(db, noted)
  BY <1>3, KeepsSecurity
<1>5. swept \in Seq(Contents(swept)) /\ \A e \in Contents(swept) : Keeps(db, e)
  <2>1. CASE swept = <<putSecurity(db, a, s)>>
    BY <1>4, <2>1, Contents1
  <2>2. CASE swept = <<>>
    BY <2>2 DEF Contents
  <2> QED
    BY <1>2, <2>1, <2>2
<1>6. ASSUME NEW t, Keeping(t) PROVE Keeping(swept \o t)
  <2>1. /\ swept \o t \in Seq(Contents(swept) \union Contents(t)) /\ Len(swept \o t) = Len(swept) + Len(t)
        /\ Contents(swept \o t) \subseteq Contents(swept) \union Contents(t)
    BY <1>5, <1>6, ContentsJoin DEF Keeping
  <2>2. swept \o t \in Seq(Contents(swept \o t))
    BY <2>1, ContentsTyped
  <2>3. Len(swept) \in Nat /\ Len(t) \in Nat /\ Len(t) > 0
    BY <1>5, <1>6 DEF Keeping
  <2> QED
    BY <1>5, <1>6, <2>1, <2>2, <2>3 DEF Keeping
<1>7. \/ Handler(<<db>>, waiting \ {a})
      \/ Handler(swept \o freezeAdmin(putSecurity(db, a, s), a), waiting \ {a})
      \/ Handler(swept \o <<noted>>, waiting \ {a})
      \/ /\ enforceAdminSecurityOperation(a) /\ enforceAdminEventIssueLimit(a) # None
         /\ Handler(swept \o <<noted>> \o storeEvent(noted, a, config), waiting \ {a})
  BY <1>1, <1>2, <1>3 DEF createEvent
<1>8. CASE Handler(<<db>>, waiting \ {a})
  BY <1>8, KeepsSelf, KeepingOne, KeepingHandler
<1>9. CASE Handler(swept \o freezeAdmin(putSecurity(db, a, s), a), waiting \ {a})
  <2>1. PICK d : d = putSecurity(db, a, s)
    OBVIOUS
  <2> DEFINE Put(id) == [d EXCEPT !.security[a].warning = None, !.security[a].frozen = id]
  <2>2. Keeps(db, Put(0)) /\ Keeps(db, Put(newReportId))
    <3>1. Keeps(db, d) /\ Stored(d)
      BY <1>4, <2>1 DEF Keeps
    <3>2. Keeps(d, Put(0)) /\ Keeps(d, Put(newReportId))
      BY <3>1, KeepsTwo
    <3> HIDE DEF Put
    <3> QED
      BY <3>1, <3>2, KeepsTrans
  <2>3. freezeAdmin(d, a) = reported(Put(0), Put(newReportId), "freeze", a)
    BY DEF freezeAdmin
  <2>4. Keeping(freezeAdmin(d, a))
    <3> HIDE DEF Put
    <3> QED
      BY <2>2, <2>3, KeepingReported
  <2> QED
    BY <1>6, <1>9, <2>1, <2>4, KeepingHandler
<1>10. CASE Handler(swept \o <<noted>>, waiting \ {a})
  BY <1>4, <1>6, <1>10, KeepingOne, KeepingHandler
<1>11. CASE /\ enforceAdminSecurityOperation(a) /\ enforceAdminEventIssueLimit(a) # None
            /\ Handler(swept \o <<noted>> \o storeEvent(noted, a, config), waiting \ {a})
  <2>1. PICK limited : limited = [noted EXCEPT !.eventLimit[a] = enforceAdminEventIssueLimit(a)]
    OBVIOUS
  <2>2. PICK put : put = [limited EXCEPT !.event[now] = [state |-> "published", config |-> config],
                                         !.made = Append(@, [by |-> a, at |-> now])]
    OBVIOUS
  <2>3. PICK owned : owned = [put EXCEPT !.owner[now] = a]
    OBVIOUS
  <2>4. storeEvent(noted, a, config) = <<limited, put, owned>>
    BY <2>1, <2>2, <2>3 DEF storeEvent
  <2>5. PICK before : before = swept \o <<noted>>
    OBVIOUS
  <2>6. Keeping(before)
    BY <1>4, <1>6, <2>5, KeepingOne
  <2>7. /\ before \o <<limited, put, owned>> \in Seq(Contents(before) \union {limited, put, owned})
        /\ Contents(before \o <<limited, put, owned>>) \subseteq Contents(before) \union {limited, put, owned}
        /\ Len(before \o <<limited, put, owned>>) > 0
    <3>1. before \in Seq(Contents(before)) /\ Len(before) \in Nat
      BY <2>6 DEF Keeping
    <3>2. PICK stores : stores = <<limited, put, owned>>
      OBVIOUS
    <3>3. stores \in Seq(Contents(stores))
      BY <3>2, Contents3
    <3>4. /\ before \o stores \in Seq(Contents(before) \union Contents(stores))
          /\ Contents(before \o stores) \subseteq Contents(before) \union Contents(stores)
          /\ Len(before \o stores) = Len(before) + Len(stores)
      BY <3>1, <3>3, ContentsJoin
    <3>5. Contents(stores) = {limited, put, owned} /\ Len(stores) = 3
      BY <3>2, Contents3
    <3> QED
      BY <3>1, <3>2, <3>4, <3>5
  <2>8. db' \in Contents(before) \union {limited, put, owned} /\ now' = now
    <3>1. Handler(before \o <<limited, put, owned>>, waiting \ {a})
      BY <1>11, <2>4, <2>5
    <3> QED
      BY <2>7, <3>1, HandlerOutcome
  <2>9. /\ Stored(limited) /\ limited.code = db.code /\ limited.inviteLimit = db.inviteLimit
        /\ limited.eventLimit = [db.eventLimit EXCEPT ![a] = enforceAdminEventIssueLimit(a)]
        /\ limited.made = db.made
    BY <1>4, <2>1 DEF Keeps, Stored, Fields
  <2>10. /\ Stored(put) /\ put.code = db.code /\ put.inviteLimit = db.inviteLimit
         /\ put.eventLimit = [db.eventLimit EXCEPT ![a] = enforceAdminEventIssueLimit(a)]
         /\ put.made = Append(db.made, [by |-> a, at |-> now])
    BY <2>2, <2>9 DEF Stored, Fields
  <2>11. /\ Stored(owned) /\ owned.code = db.code /\ owned.inviteLimit = db.inviteLimit
         /\ owned.eventLimit = [db.eventLimit EXCEPT ![a] = enforceAdminEventIssueLimit(a)]
         /\ owned.made = Append(db.made, [by |-> a, at |-> now])
    BY <2>3, <2>10 DEF Stored, Fields
  <2>12. CASE db' \in Contents(before)
    BY <2>6, <2>8, <2>12 DEF Keeping
  <2>13. CASE db' \in {limited, put, owned}
    BY <1>11, <2>8, <2>9, <2>10, <2>11, <2>13 DEF Creates
  <2> QED
    BY <2>8, <2>12, <2>13
<1> QED
  BY <1>7, <1>8, <1>9, <1>10, <1>11

(* Every step is one of these.                                             *)
LEMMA NextOutcome ==
  ASSUME Stored(db), [Next]_vars
  PROVE  \/ db' = db /\ now' = now
         \/ db' = db /\ now' = now + 1
         \/ Keeps(db, db') /\ now' = now
         \/ \E c \in Codes : (Issues(c) \/ Revokes(c)) /\ now' = now
         \/ \E a \in Actors : Creates(a) /\ now' = now
<1>1. CASE UNCHANGED vars
  BY <1>1 DEF vars
<1>2. CASE Tick
  BY <1>2 DEF Tick
<1>3. ASSUME NEW p \in InviteIds,
             (\E c \in Codes : invite(p, c) \/ approveInvite(p, c)) \/ rejectInvite(p)
      PROVE  (\E c \in Codes : Issues(c) /\ now' = now) \/ (Keeps(db, db') /\ now' = now)
  BY <1>3, InviteOutcome, RejectKeeps
<1>4. ASSUME NEW c \in Codes, revokeCode(c) PROVE Revokes(c) /\ now' = now
  BY <1>4, RevokeOutcome
<1>5. ASSUME NEW a \in Actors, beginCreateEvent(a) PROVE db' = db /\ now' = now
  BY <1>5 DEF beginCreateEvent
<1>6. ASSUME NEW a \in Actors, NEW o, NEW s, NEW g, createEvent(a, o, s, g)
      PROVE  (Keeps(db, db') \/ Creates(a)) /\ now' = now
  BY <1>6, CreateOutcome
<1>7. ASSUME NEW a \in Actors, NEW t, closeEvent(a, t) PROVE Keeps(db, db') /\ now' = now
  BY <1>7, CloseKeeps
<1>8. ASSUME NEW a \in Actors,
             \/ unlock(a) \/ revokeAccess(a) \/ restoreAccess(a) \/ revokeOperator(a) \/ restoreOperator(a)
      PROVE  Keeps(db, db') /\ now' = now
  BY <1>8, ActorSanctionsKeep
<1>9. ASSUME NEW u \in Users, freezeUser(u) \/ unfreezeUser(u) \/ deleteUser(u) \/ restoreUser(u)
      PROVE  Keeps(db, db') /\ now' = now
  BY <1>9, UserSanctionsKeep
<1> QED
  BY <1>1, <1>2, <1>3, <1>4, <1>5, <1>6, <1>7, <1>8, <1>9 DEF Next

-----------------------------------------------------------------------------
(* The inductive invariant of the limits. A counter never runs behind what *)
(* it counts, because it is put first: a crash leaves it ahead. What an    *)
(* actor made lies in the window of its counter or before it, so that a    *)
(* window that opens starts with nothing made.                             *)

Counter(limit) ==
  /\ limit = [start |-> limit.start, count |-> limit.count]
  /\ limit.start \in Nat /\ limit.count \in Nat /\ limit.start <= now

EventsCounted(a) ==
  LET limit == db.eventLimit[a] IN
  /\ limit = None => MadeBy(db.made, a) = {}
  /\ limit # None =>
       /\ Counter(limit) /\ limit.count <= EventsPerWindow
       /\ IsFiniteSet(MadeSince(db.made, a, limit.start))
       /\ Cardinality(MadeSince(db.made, a, limit.start)) <= limit.count
       /\ \A i \in MadeBy(db.made, a) : db.made[i].at < limit.start + IssueWindow

Issued == {c \in Codes : db.code[c] \in {"active", "revoked"}}

CodesCounted ==
  LET limit == db.inviteLimit IN
  /\ limit = None => Issued = {}
  /\ limit # None =>
       /\ Counter(limit) /\ limit.count <= InvitesPerWindow
       /\ IsFiniteSet(Issued)
       /\ now < IssueWindow => Cardinality(Issued) <= limit.count

LimitInv ==
  /\ now \in Nat /\ Stored(db)
  /\ DOMAIN db.code = Codes /\ DOMAIN db.eventLimit = Actors
  /\ db.made \in Seq([by : Actors, at : Nat])
  /\ \A a \in Actors : EventsCounted(a)
  /\ CodesCounted

-----------------------------------------------------------------------------
(* A counter after one more issue: it is in its window and within the      *)
(* limit, and either one more than it was or the first of a window.        *)
LEMMA ConsumeFacts ==
  ASSUME now \in Nat, NEW limit, limit # None => Counter(limit), NEW most \in Nat,
         NEW new, new = consumeSecurityIssueLimit(limit, most), new # None
  PROVE  /\ new = [start |-> new.start, count |-> new.count]
         /\ new.start \in Nat /\ new.count \in Nat /\ new.start <= now
         /\ now < new.start + IssueWindow /\ new.count <= most
         /\ \/ /\ limit # None /\ new.start = limit.start /\ new.count = limit.count + 1
            \/ /\ limit = None \/ limit.start + IssueWindow <= now
               /\ new.start = now /\ new.count = 1
<1>1. IssueWindow \in Nat /\ IssueWindow > 0
  BY ConsoleAssumption
<1>2. PICK current : current = IF limit = None \/ now < limit.start \/ now - limit.start >= IssueWindow
                               THEN [start |-> now, count |-> 0] ELSE limit
  OBVIOUS
<1>3. ~(current.count >= most) /\ new = [current EXCEPT !.count = @ + 1]
  BY <1>2 DEF consumeSecurityIssueLimit
<1>4. CASE limit = None \/ now < limit.start \/ now - limit.start >= IssueWindow
  <2>1. current = [start |-> now, count |-> 0]
    BY <1>2, <1>4
  <2>2. new = [start |-> now, count |-> 1] /\ 0 < most
    BY <1>3, <2>1
  <2>3. limit = None \/ limit.start + IssueWindow <= now
    BY <1>1, <1>4 DEF Counter
  <2> QED
    BY <1>1, <2>2, <2>3
<1>5. CASE ~(limit = None \/ now < limit.start \/ now - limit.start >= IssueWindow)
  <2>1. current = limit /\ limit # None /\ Counter(limit) /\ now < limit.start + IssueWindow
    BY <1>1, <1>2, <1>5 DEF Counter
  <2>2. new = [start |-> limit.start, count |-> limit.count + 1] /\ limit.count < most
    BY <1>3, <2>1 DEF Counter
  <2> QED
    BY <2>1, <2>2 DEF Counter
<1> QED
  BY <1>4, <1>5

LEMMA InitLimits == Init => LimitInv
<1> SUFFICES ASSUME Init PROVE LimitInv
  OBVIOUS
<1>1. /\ now = 0 /\ Stored(db) /\ db.code = [c \in Codes |-> "none"] /\ db.inviteLimit = None
      /\ db.eventLimit = [a \in Actors |-> None] /\ db.made = <<>>
  BY DEF Init, Stored, Fields
<1>2. <<>> \in Seq([by : Actors, at : Nat]) /\ DOMAIN <<>> = {}
  OBVIOUS
<1>3. \A a \in Actors : EventsCounted(a)
  BY <1>1, <1>2 DEF EventsCounted, MadeBy
<1>4. CodesCounted
  BY <1>1 DEF CodesCounted, Issued
<1> QED
  BY <1>1, <1>2, <1>3, <1>4 DEF LimitInv

(* Nothing that is counted changes, and time may pass.                     *)
LEMMA EventsStillCounted ==
  ASSUME LimitInv, NEW a \in Actors, now' \in Nat, now' >= now,
         MadeBy(db'.made, a) = MadeBy(db.made, a),
         \A i \in DOMAIN db.made : db'.made[i] = db.made[i],
         db'.eventLimit[a] = db.eventLimit[a]
  PROVE  EventsCounted(a)'
<1>1. EventsCounted(a) /\ now \in Nat
  BY DEF LimitInv
<1>2. \A start : MadeSince(db'.made, a, start) = MadeSince(db.made, a, start)
  BY DEF MadeSince, MadeBy
<1>3. CASE db.eventLimit[a] = None
  BY <1>1, <1>3 DEF EventsCounted
<1>4. CASE db.eventLimit[a] # None
  <2>1. PICK limit : limit = db.eventLimit[a]
    OBVIOUS
  <2>2. Counter(limit)'
    BY <1>1, <1>4, <2>1 DEF EventsCounted, Counter
  <2>3. \A i \in MadeBy(db'.made, a) : db'.made[i].at < limit.start + IssueWindow
    BY <1>1, <1>4, <2>1 DEF EventsCounted, MadeBy
  <2> QED
    BY <1>1, <1>2, <1>4, <2>1, <2>2, <2>3 DEF EventsCounted
<1> QED
  BY <1>3, <1>4

LEMMA CodesStillCounted ==
  ASSUME LimitInv, now' \in Nat, now' >= now, Issued' = Issued, db'.inviteLimit = db.inviteLimit
  PROVE  CodesCounted'
<1>1. CodesCounted /\ now \in Nat /\ IssueWindow \in Nat
  BY ConsoleAssumption DEF LimitInv
<1>2. CASE db.inviteLimit = None
  BY <1>1, <1>2 DEF CodesCounted
<1>3. CASE db.inviteLimit # None
  <2>1. PICK limit : limit = db.inviteLimit
    OBVIOUS
  <2>2. Counter(limit)'
    BY <1>1, <1>3, <2>1 DEF CodesCounted, Counter
  <2>3. now' < IssueWindow => now < IssueWindow
    BY <1>1
  <2> QED
    BY <1>1, <1>3, <2>1, <2>2, <2>3 DEF CodesCounted
<1> QED
  BY <1>2, <1>3

LEMMA KeptLimits ==
  ASSUME LimitInv, Stored(db'), now' \in Nat, now' >= now, db'.made = db.made,
         db'.eventLimit = db.eventLimit, db'.inviteLimit = db.inviteLimit, db'.code = db.code
  PROVE  LimitInv'
<1>1. \A a \in Actors : EventsCounted(a)'
  BY EventsStillCounted
<1>2. CodesCounted'
  BY CodesStillCounted DEF Issued
<1> QED
  BY <1>1, <1>2 DEF LimitInv

LEMMA IssueLimits ==
  ASSUME LimitInv, NEW c \in Codes, Issues(c), now' = now
  PROVE  LimitInv'
<1>1. PICK new : new = enforceAdminInviteIssueLimit
  OBVIOUS
<1>2. PICK limit : limit = db.inviteLimit
  OBVIOUS
<1>3. /\ now \in Nat /\ CodesCounted /\ DOMAIN db.code = Codes
      /\ InvitesPerWindow \in Nat /\ IssueWindow \in Nat
  BY ConsoleAssumption DEF LimitInv
<1>4. (limit # None => Counter(limit)) /\ new = consumeSecurityIssueLimit(limit, InvitesPerWindow)
      /\ new # None /\ db'.inviteLimit = new
  BY <1>1, <1>2, <1>3 DEF CodesCounted, Issues, enforceAdminInviteIssueLimit
<1>5. /\ new = [start |-> new.start, count |-> new.count]
      /\ new.start \in Nat /\ new.count \in Nat /\ new.start <= now
      /\ now < new.start + IssueWindow /\ new.count <= InvitesPerWindow
      /\ \/ /\ limit # None /\ new.start = limit.start /\ new.count = limit.count + 1
         \/ /\ limit = None \/ limit.start + IssueWindow <= now
            /\ new.start = now /\ new.count = 1
  BY <1>3, <1>4, ConsumeFacts
<1>6. Counter(new)'
  BY <1>5 DEF Counter
<1>7. PICK A, B : A = Issued /\ B = Issued'
  OBVIOUS
<1>8. B \subseteq A \union {c}
  BY <1>3, <1>7 DEF Issued, Issues
<1>9. IsFiniteSet(A) /\ Cardinality(A) \in Nat
      /\ (now < IssueWindow => Cardinality(A) + 1 <= new.count)
  <2>1. CASE limit = None
    BY <1>2, <1>3, <1>5, <1>7, <2>1, FS_EmptySet DEF CodesCounted
  <2>2. CASE limit # None
    <3>1. IsFiniteSet(A) /\ (now < IssueWindow => Cardinality(A) <= limit.count)
      BY <1>2, <1>3, <1>7, <2>2 DEF CodesCounted
    <3>2. Cardinality(A) \in Nat /\ limit.start \in Nat /\ limit.count \in Nat
      BY <1>4, <2>2, <3>1, FS_CardinalityType DEF Counter
    <3> QED
      BY <1>3, <1>5, <2>2, <3>1, <3>2
  <2> QED
    BY <2>1, <2>2
<1>10. IsFiniteSet(B) /\ (now < IssueWindow => Cardinality(B) <= new.count)
  <2>1. PICK C : C = A \union {c}
    OBVIOUS
  <2>2. IsFiniteSet(C) /\ (Cardinality(C) = Cardinality(A) \/ Cardinality(C) = Cardinality(A) + 1)
    BY <1>9, <2>1, FS_AddElement
  <2>3. IsFiniteSet(B) /\ Cardinality(B) <= Cardinality(C)
    BY <1>8, <2>1, <2>2, FS_Subset
  <2>4. Cardinality(B) \in Nat /\ Cardinality(C) \in Nat
    BY <2>2, <2>3, FS_CardinalityType
  <2> QED
    BY <1>5, <1>9, <2>2, <2>3, <2>4
<1>11. CodesCounted'
  BY <1>4, <1>5, <1>6, <1>7, <1>10 DEF CodesCounted
<1>12. \A a \in Actors : EventsCounted(a)'
  BY <1>3, EventsStillCounted DEF Issues
<1> QED
  BY <1>3, <1>11, <1>12 DEF LimitInv, Issues

LEMMA RevokeLimits ==
  ASSUME LimitInv, NEW c \in Codes, Revokes(c), now' = now
  PROVE  LimitInv'
<1>1. now \in Nat /\ DOMAIN db.code = Codes
  BY DEF LimitInv
<1>2. Issued' = Issued
  BY <1>1 DEF Issued, Revokes
<1>3. CodesCounted'
  BY <1>1, <1>2, CodesStillCounted DEF Revokes
<1>4. \A a \in Actors : EventsCounted(a)'
  BY <1>1, EventsStillCounted DEF Revokes
<1> QED
  BY <1>1, <1>3, <1>4 DEF LimitInv, Revokes

LEMMA CreateLimits ==
  ASSUME LimitInv, NEW a \in Actors, Creates(a), now' = now
  PROVE  LimitInv'
<1>1. PICK made : made = db.made
  OBVIOUS
<1>2. PICK limit : limit = db.eventLimit[a]
  OBVIOUS
<1>3. PICK new : new = enforceAdminEventIssueLimit(a)
  OBVIOUS
<1>4. /\ now \in Nat /\ EventsCounted(a) /\ DOMAIN db.eventLimit = Actors
      /\ made \in Seq([by : Actors, at : Nat])
      /\ EventsPerWindow \in Nat /\ IssueWindow \in Nat
  BY <1>1, ConsoleAssumption DEF LimitInv
<1>5. /\ limit # None => Counter(limit)
      /\ new = consumeSecurityIssueLimit(limit, EventsPerWindow) /\ new # None
      /\ db'.eventLimit[a] = new
      /\ \A b \in Actors \ {a} : db'.eventLimit[b] = db.eventLimit[b]
  BY <1>2, <1>3, <1>4 DEF EventsCounted, Creates, enforceAdminEventIssueLimit
<1>6. /\ new = [start |-> new.start, count |-> new.count]
      /\ new.start \in Nat /\ new.count \in Nat /\ new.start <= now
      /\ now < new.start + IssueWindow /\ new.count <= EventsPerWindow
      /\ \/ /\ limit # None /\ new.start = limit.start /\ new.count = limit.count + 1
         \/ /\ limit = None \/ limit.start + IssueWindow <= now
            /\ new.start = now /\ new.count = 1
  BY <1>4, <1>5, ConsumeFacts, SMTT(30)
<1>7. PICK m : m = [by |-> a, at |-> now]
  OBVIOUS
<1>8. PICK made2 : made2 = db'.made
  OBVIOUS
<1>9. /\ made2 \in Seq([by : Actors, at : Nat])
      /\ \A i \in DOMAIN made : i \in DOMAIN made2 /\ made2[i] = made[i]
      /\ \A i \in DOMAIN made2 \ DOMAIN made : i = Len(made) + 1 /\ made2[i] = m
  <2>1. m \in [by : Actors, at : Nat]
    BY <1>4, <1>7
  <2>2. made2 = made \/ made2 = Append(made, m)
    BY <1>1, <1>7, <1>8 DEF Creates
  <2>3. CASE made2 = made
    BY <1>4, <2>3
  <2>4. CASE made2 = Append(made, m)
    <3>1. /\ made2 \in Seq([by : Actors, at : Nat]) /\ Len(made2) = Len(made) + 1
          /\ \A i \in 1..Len(made) : made2[i] = made[i]
          /\ made2[Len(made) + 1] = m
      BY <1>4, <2>1, <2>4, AppendProperties
    <3>2. Len(made) \in Nat /\ DOMAIN made = 1..Len(made) /\ DOMAIN made2 = 1..Len(made2)
      BY <1>4, <3>1
    <3> QED
      BY <3>1, <3>2
  <2> QED
    BY <2>2, <2>3, <2>4
<1>10. /\ IsFiniteSet(MadeSince(made, a, new.start))
       /\ Cardinality(MadeSince(made, a, new.start)) + 1 <= new.count
       /\ \A i \in MadeBy(made, a) : made[i].at < new.start + IssueWindow
  <2>1. CASE limit # None /\ new.start = limit.start /\ new.count = limit.count + 1
    <3>1. /\ IsFiniteSet(MadeSince(made, a, new.start))
          /\ Cardinality(MadeSince(made, a, new.start)) <= limit.count
          /\ \A i \in MadeBy(made, a) : made[i].at < new.start + IssueWindow
      BY <1>1, <1>2, <1>4, <2>1 DEF EventsCounted
    <3>2. Cardinality(MadeSince(made, a, new.start)) \in Nat /\ limit.count \in Nat
      BY <1>5, <2>1, <3>1, FS_CardinalityType DEF Counter
    <3> QED
      BY <2>1, <3>1, <3>2
  <2>2. CASE /\ limit = None \/ limit.start + IssueWindow <= now
             /\ new.start = now /\ new.count = 1
    <3>1. \A i \in MadeBy(made, a) : made[i].at \in Nat /\ made[i].at < now
      <4>1. SUFFICES ASSUME NEW i \in MadeBy(made, a) PROVE made[i].at \in Nat /\ made[i].at < now
        OBVIOUS
      <4>2. made[i].at \in Nat
        <5>1. i \in DOMAIN made
          BY DEF MadeBy
        <5>2. made[i] \in [by : Actors, at : Nat]
          <6>1. PICK R : R = [by : Actors, at : Nat]
            OBVIOUS
          <6>2. made \in Seq(R)
            BY <1>4, <6>1
          <6>3. made[i] \in R
            BY <5>1, <6>2
          <6> QED
            BY <6>1, <6>3
        <5> QED
          BY <5>2
      <4>3. limit # None /\ limit.start \in Nat /\ made[i].at < limit.start + IssueWindow
        BY <1>1, <1>2, <1>4, <1>5 DEF EventsCounted, Counter
      <4> QED
        BY <1>4, <2>2, <4>2, <4>3
    <3>2. MadeSince(made, a, new.start) = {}
      BY <1>4, <2>2, <3>1 DEF MadeSince
    <3>3. \A i \in MadeBy(made, a) : made[i].at < new.start + IssueWindow
      BY <1>4, <2>2, <3>1
    <3> QED
      BY <2>2, <3>2, <3>3, FS_EmptySet
  <2> QED
    BY <1>6, <2>1, <2>2
<1>11. /\ IsFiniteSet(MadeSince(made2, a, new.start))
       /\ Cardinality(MadeSince(made2, a, new.start)) <= new.count
  <2>1. PICK A, B, j : A = MadeSince(made, a, new.start) /\ B = MadeSince(made2, a, new.start)
                       /\ j = Len(made) + 1
    OBVIOUS
  <2>2. B \subseteq A \union {j}
    BY <1>9, <2>1 DEF MadeSince, MadeBy
  <2>3. PICK C : C = A \union {j}
    OBVIOUS
  <2>4. IsFiniteSet(A) /\ Cardinality(A) + 1 <= new.count
    BY <1>10, <2>1
  <2>5. IsFiniteSet(C) /\ (Cardinality(C) = Cardinality(A) \/ Cardinality(C) = Cardinality(A) + 1)
    BY <2>3, <2>4, FS_AddElement
  <2>6. IsFiniteSet(B) /\ Cardinality(B) <= Cardinality(C)
    BY <2>2, <2>3, <2>5, FS_Subset
  <2>7. Cardinality(A) \in Nat /\ Cardinality(B) \in Nat /\ Cardinality(C) \in Nat
    BY <2>4, <2>5, <2>6, FS_CardinalityType
  <2>8. IsFiniteSet(B) /\ Cardinality(B) <= new.count
    BY <1>6, <2>4, <2>5, <2>6, <2>7
  <2> QED
    BY <2>1, <2>8
<1>12. \A i \in MadeBy(made2, a) : made2[i].at < new.start + IssueWindow
  <2>1. SUFFICES ASSUME NEW i \in MadeBy(made2, a) PROVE made2[i].at < new.start + IssueWindow
    OBVIOUS
  <2>2. CASE i \in DOMAIN made
    BY <1>9, <1>10, <2>2 DEF MadeBy
  <2>3. CASE i \notin DOMAIN made
    BY <1>6, <1>7, <1>9, <2>3 DEF MadeBy
  <2> QED
    BY <2>2, <2>3
<1>13. EventsCounted(a)'
  <2>1. Counter(new)'
    BY <1>6 DEF Counter
  <2> QED
    BY <1>5, <1>6, <1>8, <1>11, <1>12, <2>1 DEF EventsCounted
<1>14. ASSUME NEW b \in Actors, b # a PROVE EventsCounted(b)'
  <2>1. MadeBy(made2, b) = MadeBy(made, b)
    BY <1>7, <1>9, <1>14 DEF MadeBy
  <2> QED
    BY <1>1, <1>4, <1>5, <1>8, <1>9, <1>14, <2>1, EventsStillCounted
<1>15. CodesCounted'
  BY <1>4, CodesStillCounted DEF Creates, Issued
<1> QED
  BY <1>4, <1>8, <1>9, <1>13, <1>14, <1>15 DEF LimitInv, Creates

LEMMA NextLimits ==
  ASSUME LimitInv, [Next]_vars PROVE LimitInv'
<1>1. Stored(db) /\ now \in Nat
  BY DEF LimitInv
<1>2. CASE db' = db /\ (now' = now \/ now' = now + 1)
  BY <1>1, <1>2, KeptLimits
<1>3. CASE Keeps(db, db') /\ now' = now
  BY <1>1, <1>3, KeptLimits DEF Keeps
<1>4. CASE \E c \in Codes : (Issues(c) \/ Revokes(c)) /\ now' = now
  BY <1>4, IssueLimits, RevokeLimits
<1>5. CASE \E a \in Actors : Creates(a) /\ now' = now
  BY <1>5, CreateLimits
<1> QED
  BY <1>1, <1>2, <1>3, <1>4, <1>5, NextOutcome

THEOREM LimitInvariant == Spec => []LimitInv
BY InitLimits, NextLimits, PTL DEF Spec

-----------------------------------------------------------------------------
(* In the window of a limit no actor creates more events than it allows,   *)
(* and within the first window no more codes are issued, also when         *)
(* creations are lost half way and repeated (createEvent,                  *)
(* issueAdminInvite, consumeSecurityIssueLimit).                           *)
THEOREM IssueLimitsAlways == Spec => []IssueLimitsHold
<1>1. LimitInv => IssueLimitsHold
  <2> SUFFICES ASSUME LimitInv PROVE IssueLimitsHold
    OBVIOUS
  <2>1. ASSUME NEW a \in Actors, db.eventLimit[a] # None
        PROVE  Cardinality(MadeSince(db.made, a, db.eventLimit[a].start)) <= EventsPerWindow
    <3>1. PICK limit, A : limit = db.eventLimit[a] /\ A = MadeSince(db.made, a, db.eventLimit[a].start)
      OBVIOUS
    <3>2. limit.count \in Nat /\ limit.count <= EventsPerWindow /\ IsFiniteSet(A) /\ Cardinality(A) <= limit.count
      BY <2>1, <3>1 DEF LimitInv, EventsCounted, Counter
    <3>3. Cardinality(A) \in Nat /\ EventsPerWindow \in Nat
      BY <3>2, FS_CardinalityType, ConsoleAssumption
    <3>4. Cardinality(A) <= EventsPerWindow
      BY <3>2, <3>3
    <3> QED
      BY <3>1, <3>4
  <2>2. ASSUME now < IssueWindow PROVE Cardinality(listInvites(TRUE)) <= InvitesPerWindow
    <3>1. PICK A : A = Issued
      OBVIOUS
    <3>2. listInvites(TRUE) = A
      BY <3>1 DEF listInvites, Issued
    <3>3. InvitesPerWindow \in Nat
      BY ConsoleAssumption
    <3>4. CASE db.inviteLimit = None
      <4>1. A = {}
        BY <3>1, <3>4 DEF LimitInv, CodesCounted
      <4>2. Cardinality(A) = 0
        BY <4>1, FS_EmptySet
      <4>3. Cardinality(A) <= InvitesPerWindow
        BY <3>3, <4>2
      <4> QED
        BY <3>2, <4>3
    <3>5. CASE db.inviteLimit # None
      <4>1. PICK n : n = db.inviteLimit.count
        OBVIOUS
      <4>2. n \in Nat /\ n <= InvitesPerWindow /\ IsFiniteSet(A) /\ Cardinality(A) <= n
        BY <2>2, <3>1, <3>5, <4>1 DEF LimitInv, CodesCounted, Counter
      <4>3. Cardinality(A) \in Nat
        BY <4>2, FS_CardinalityType
      <4>4. Cardinality(A) <= InvitesPerWindow
        BY <3>3, <4>2, <4>3
      <4> QED
        BY <3>2, <4>4
    <3> QED
      BY <3>4, <3>5
  <2> QED
    BY <2>1, <2>2 DEF IssueLimitsHold
<1> QED
  BY <1>1, LimitInvariant, PTL

(* No event is created, nor counted against its limit, by an actor who is  *)
(* frozen or revoked at that moment, however long ago the request was      *)
(* authenticated (createEvent, enforceAdminSecurityOperation).             *)
THEOREM SanctionedNever == Spec => SanctionedDoNothing
<1> DEFINE Idle ==
      \A a \in Actors :
        db.security[a].frozen # None \/ db.security[a].revokedAccess # None =>
          /\ MadeBy(db'.made, a) = MadeBy(db.made, a)
          /\ db'.eventLimit[a] = db.eventLimit[a]
<1>1. LimitInv /\ [Next]_vars => [Idle]_vars
  <2> SUFFICES ASSUME LimitInv, [Next]_vars, NEW a \in Actors,
                      db.security[a].frozen # None \/ db.security[a].revokedAccess # None
               PROVE  MadeBy(db'.made, a) = MadeBy(db.made, a) /\ db'.eventLimit[a] = db.eventLimit[a]
    OBVIOUS
  <2>1. Stored(db) /\ DOMAIN db.eventLimit = Actors /\ db.made \in Seq([by : Actors, at : Nat])
    BY DEF LimitInv
  <2>2. ASSUME NEW b \in Actors, Creates(b)
        PROVE  MadeBy(db'.made, a) = MadeBy(db.made, a) /\ db'.eventLimit[a] = db.eventLimit[a]
    <3>1. a # b
      BY <2>2 DEF Creates, enforceAdminSecurityOperation
    <3>2. db'.eventLimit[a] = db.eventLimit[a]
      BY <2>1, <2>2, <3>1 DEF Creates
    <3>3. MadeBy(db'.made, a) = MadeBy(db.made, a)
      BY <2>1, <2>2, <3>1, SMTT(30) DEF Creates, MadeBy
    <3> QED
      BY <3>2, <3>3
  <2>3. CASE \E b \in Actors : Creates(b)
    BY <2>2, <2>3
  <2>4. CASE db'.made = db.made /\ db'.eventLimit = db.eventLimit
    BY <2>4
  <2> QED
    BY <2>1, <2>3, <2>4, NextOutcome DEF Keeps, Issues, Revokes
<1> QED
  BY <1>1, LimitInvariant, PTL DEF Spec, SanctionedDoNothing

-----------------------------------------------------------------------------
(* Sanctions and their reports. The place where a sanction of each kind    *)
(* names its report.                                                       *)
Kinds == {"freeze", "revoke_access", "operator_revoke", "user_freeze", "user_delete"}
Targets(k) == IF k \in {"user_freeze", "user_delete"} THEN Users ELSE Actors

Slot(d, k, x) ==
  CASE k = "freeze" -> d.security[x].frozen
    [] k = "revoke_access" -> d.security[x].revokedAccess
    [] k = "operator_revoke" -> d.revokedOperator[x]
    [] k = "user_freeze" -> d.user[x].frozen
    [] k = "user_delete" -> d.user[x].deleted

(* The types of report a sanction of a kind may name.                      *)
Types(k) == IF k = "user_freeze" THEN {"user_freeze", "user_delete"} ELSE {k}

Required(d, r) == r \in DOMAIN d.reports /\ d.reports[r].status = "required"

Overtaken(d, r) ==
  \E q \in DOMAIN d.reports :
    /\ d.reports[r].type = "user_freeze" /\ d.reports[q].type = "user_delete"
    /\ q > r /\ d.reports[q].target = d.reports[r].target

Stray(d, r) ==
  Required(d, r) /\ Slot(d, d.reports[r].type, d.reports[r].target) # r /\ ~Overtaken(d, r)

Strays(d) == {r \in DOMAIN d.reports : Stray(d, r)}

(* A freeze a deletion brought is part of it, and a deletion is owed its   *)
(* report until that freeze is lifted.                                     *)
InForce(d, k, x) ==
  /\ Slot(d, k, x) # None
  /\ k = "user_freeze" => Slot(d, "user_delete", x) = None
  /\ k = "user_delete" => Slot(d, "user_freeze", x) # None

Owed(d, k, x) ==
  /\ InForce(d, k, x)
  /\ ~ \E r \in DOMAIN d.reports :
         Required(d, r) /\ d.reports[r].target = x /\ d.reports[r].type = k

(* The kinds of sanction that being in force depends on.                   *)
Bound(k) == IF k \in {"user_freeze", "user_delete"} THEN {"user_freeze", "user_delete"} ELSE {k}

(* The sanctions in force that no required report accounts for.            *)
Unaccounted(d) == {z \in {<<x, k>> : x \in Actors \union Users, k \in Kinds} :
                     \E k \in Kinds : \E x \in Targets(k) : z = <<x, k>> /\ Owed(d, k, x)}

(* A sanction names no report, none yet, or one of its own; a deletion     *)
(* stands alone or with the freeze it brought.                             *)
SlotOK(d, k, x) ==
  LET id == Slot(d, k, x) IN
  \/ id = None \/ id = 0
  \/ id \in DOMAIN d.reports /\ d.reports[id].target = x /\ d.reports[id].type \in Types(k)

Reports == [type : Kinds, target : Actors \union Users, status : {"required", "resolved"}]

SanctionInv(d) ==
  /\ d.reports \in Seq(Reports)
  /\ \A r \in DOMAIN d.reports : d.reports[r].target \in Targets(d.reports[r].type)
  /\ \A k \in Kinds : \A x \in Targets(k) : SlotOK(d, k, x)
  /\ \A u \in Users :
       Slot(d, "user_delete", u) # None =>
         Slot(d, "user_freeze", u) = None \/ Slot(d, "user_freeze", u) = Slot(d, "user_delete", u)

-----------------------------------------------------------------------------
(* From d to e only the slots of kinds ks of x change, and every report    *)
(* keeps its type and target, and but for id its status.                   *)
Moves(d, e, ks, x) ==
  \A k \in Kinds : \A y \in Targets(k) : ~(k \in ks /\ y = x) => Slot(e, k, y) = Slot(d, k, y)

KeepsAllBut(d, e, id) ==
  /\ e.reports \in Seq(Reports) /\ Len(d.reports) <= Len(e.reports)
  /\ \A r \in DOMAIN d.reports :
       /\ e.reports[r].type = d.reports[r].type /\ e.reports[r].target = d.reports[r].target
       /\ r # id => e.reports[r].status = d.reports[r].status
       /\ r = id => e.reports[r].status = "resolved"

LEMMA ReportFacts ==
  ASSUME NEW d, d.reports \in Seq(Reports), NEW r \in DOMAIN d.reports
  PROVE  /\ r \in Nat /\ r # 0 /\ r # None /\ d.reports[r].type \in Kinds
         /\ DOMAIN d.reports = 1..Len(d.reports) /\ Len(d.reports) \in Nat
<1>1. PICK s : s = d.reports
  OBVIOUS
<1>2. s \in Seq(Reports) /\ r \in DOMAIN s /\ DOMAIN s = 1..Len(s) /\ Len(s) \in Nat
  BY <1>1
<1>3. s[r] \in Reports
  BY <1>2
<1>4. s[r].type \in Kinds
  BY <1>3 DEF Reports
<1>5. r \in Nat /\ r # 0
  BY <1>2
<1> QED
  BY <1>1, <1>2, <1>4, <1>5, NoneAssumption

(* An old report strays only when its sanction stops naming it.            *)
LEMMA NewStray ==
  ASSUME NEW d, NEW e, NEW ks, NEW x, NEW id, SanctionInv(d), Moves(d, e, ks, x),
         KeepsAllBut(d, e, id), NEW r \in DOMAIN d.reports, Stray(e, r)
  PROVE  \/ Stray(d, r)
         \/ /\ d.reports[r].type \in ks /\ d.reports[r].target = x /\ r # id
            /\ Slot(d, d.reports[r].type, x) = r /\ ~Overtaken(e, r)
<1>1. /\ d.reports \in Seq(Reports) /\ e.reports \in Seq(Reports)
      /\ DOMAIN d.reports = 1..Len(d.reports) /\ DOMAIN e.reports = 1..Len(e.reports)
      /\ Len(d.reports) \in Nat /\ Len(e.reports) \in Nat /\ Len(d.reports) <= Len(e.reports)
  BY DEF SanctionInv, KeepsAllBut
<1>2. DOMAIN d.reports \subseteq DOMAIN e.reports
  BY <1>1
<1>3. e.reports[r].type = d.reports[r].type /\ e.reports[r].target = d.reports[r].target
  BY DEF KeepsAllBut
<1>4. r # id /\ Required(d, r)
  BY <1>1, <1>2 DEF KeepsAllBut, Stray, Required
<1>5. ~Overtaken(d, r)
  BY <1>2, <1>3 DEF KeepsAllBut, Stray, Overtaken
<1>6. d.reports[r].type \in Kinds /\ d.reports[r].target \in Targets(d.reports[r].type)
  BY <1>1, ReportFacts DEF SanctionInv
<1>7. CASE Slot(d, d.reports[r].type, d.reports[r].target) # r
  BY <1>4, <1>5, <1>7 DEF Stray
<1>8. CASE Slot(d, d.reports[r].type, d.reports[r].target) = r
  BY <1>3, <1>4, <1>6, <1>8 DEF Stray, Moves
<1> QED
  BY <1>7, <1>8

(* A sanction comes to be owed only when it is imposed or its report       *)
(* resolved.                                                               *)
LEMMA NewOwed ==
  ASSUME NEW d, NEW e, NEW ks, NEW x, NEW id, SanctionInv(d), Moves(d, e, ks, x),
         KeepsAllBut(d, e, id), NEW k \in Kinds, NEW y \in Targets(k), Owed(e, k, y)
  PROVE  \/ Owed(d, k, y)
         \/ y = x /\ \E j \in Bound(k) : j \in ks
         \/ id \in DOMAIN d.reports /\ d.reports[id].target = y /\ d.reports[id].type = k
<1>1. /\ DOMAIN d.reports = 1..Len(d.reports) /\ DOMAIN e.reports = 1..Len(e.reports)
      /\ Len(d.reports) \in Nat /\ Len(e.reports) \in Nat /\ Len(d.reports) <= Len(e.reports)
  BY DEF SanctionInv, KeepsAllBut
<1>2. DOMAIN d.reports \subseteq DOMAIN e.reports
  BY <1>1
<1>3. CASE y = x /\ \E j \in Bound(k) : j \in ks
  BY <1>3
<1>4. CASE ~(y = x /\ \E j \in Bound(k) : j \in ks)
  <2>1. InForce(d, k, y)
    <3>1. \A j \in Bound(k) : j \in Kinds /\ y \in Targets(j)
      BY DEF Bound, Kinds, Targets
    <3>2. \A j \in Bound(k) : Slot(e, j, y) = Slot(d, j, y)
      BY <1>4, <3>1 DEF Moves
    <3> QED
      BY <3>2 DEF Owed, InForce, Bound
  <2>2. ASSUME NEW r \in DOMAIN d.reports, Required(d, r), d.reports[r].target = y,
               d.reports[r].type = k
        PROVE  r = id
    BY <1>2, <2>2 DEF Owed, Required, KeepsAllBut
  <2> QED
    BY <2>1, <2>2 DEF Owed
<1> QED
  BY <1>3, <1>4

(* The invariant is kept when the slots that change are in order.          *)
LEMMA NewSlots ==
  ASSUME NEW d, NEW e, NEW ks, NEW x, NEW id, SanctionInv(d), Moves(d, e, ks, x),
         KeepsAllBut(d, e, id),
         \A r \in DOMAIN e.reports \ DOMAIN d.reports : e.reports[r].target \in Targets(e.reports[r].type),
         \A k \in ks : x \in Targets(k) => SlotOK(e, k, x),
         x \in Users => (Slot(e, "user_delete", x) # None =>
           Slot(e, "user_freeze", x) = None \/ Slot(e, "user_freeze", x) = Slot(e, "user_delete", x))
  PROVE  SanctionInv(e)
<1>1. /\ DOMAIN d.reports = 1..Len(d.reports) /\ DOMAIN e.reports = 1..Len(e.reports)
      /\ Len(d.reports) \in Nat /\ Len(e.reports) \in Nat /\ Len(d.reports) <= Len(e.reports)
  BY DEF SanctionInv, KeepsAllBut
<1>2. DOMAIN d.reports \subseteq DOMAIN e.reports
  BY <1>1
<1>3. e.reports \in Seq(Reports)
  BY DEF KeepsAllBut
<1>4. \A r \in DOMAIN e.reports : e.reports[r].target \in Targets(e.reports[r].type)
  BY DEF KeepsAllBut, SanctionInv
<1>5. ASSUME NEW k \in Kinds, NEW y \in Targets(k) PROVE SlotOK(e, k, y)
  <2>1. CASE k \in ks /\ y = x
    BY <2>1
  <2>2. CASE ~(k \in ks /\ y = x)
    <3>1. SlotOK(d, k, y) /\ Slot(e, k, y) = Slot(d, k, y)
      BY <2>2 DEF SanctionInv, Moves
    <3> QED
      BY <1>2, <3>1 DEF SlotOK, KeepsAllBut
  <2> QED
    BY <2>1, <2>2
<1>6. ASSUME NEW u \in Users, Slot(e, "user_delete", u) # None
      PROVE  Slot(e, "user_freeze", u) = None \/ Slot(e, "user_freeze", u) = Slot(e, "user_delete", u)
  <2>1. u \in Targets("user_delete") /\ u \in Targets("user_freeze")
    BY DEF Targets
  <2>2. CASE u = x
    BY <1>6, <2>2
  <2>3. CASE u # x
    <3>1. /\ Slot(e, "user_delete", u) = Slot(d, "user_delete", u)
          /\ Slot(e, "user_freeze", u) = Slot(d, "user_freeze", u)
      BY <2>1, <2>3 DEF Moves, Kinds
    <3> QED
      BY <1>6, <3>1 DEF SanctionInv
  <2> QED
    BY <2>2, <2>3
<1> QED
  BY <1>3, <1>4, <1>5, <1>6 DEF SanctionInv

-----------------------------------------------------------------------------
(* A content of a handler: nothing strays and nothing is owed, or at most  *)
(* one thing of each.                                                      *)
More(A, B) == \E z : B \subseteq A \union {z}

Clean(d, e) ==
  SanctionInv(e) /\ Strays(e) \subseteq Strays(d) /\ Unaccounted(e) \subseteq Unaccounted(d)

Half(d, e) ==
  SanctionInv(e) /\ More(Strays(d), Strays(e)) /\ More(Unaccounted(d), Unaccounted(e))

LEMMA CleanIsHalf == \A d, e : Clean(d, e) => Half(d, e)
BY DEF Clean, Half, More

LEMMA FewOwed ==
  ASSUME NEW d, NEW e,
         \A k \in Kinds : \A y \in Targets(k) : Owed(e, k, y) => Owed(d, k, y)
  PROVE  Unaccounted(e) \subseteq Unaccounted(d)
BY DEF Unaccounted

OwedAlso(d, e, j, x) ==
  \A k \in Kinds : \A y \in Targets(k) : Owed(e, k, y) => Owed(d, k, y) \/ (k = j /\ y = x)

LEMMA OneOwed ==
  ASSUME NEW d, NEW e, NEW j, NEW x, OwedAlso(d, e, j, x)
  PROVE  More(Unaccounted(d), Unaccounted(e))
<1>1. Unaccounted(e) \subseteq Unaccounted(d) \union {<<x, j>>}
  BY DEF Unaccounted, OwedAlso
<1> QED
  BY <1>1 DEF More

Resolve(R, id) == IF id \in DOMAIN R THEN [R EXCEPT ![id].status = "resolved"] ELSE R
NewReport(k, x) == [type |-> k, target |-> x, status |-> "required"]

LEMMA ResolveFacts ==
  ASSUME NEW R \in Seq(Reports), NEW id
  PROVE  /\ Resolve(R, id) \in Seq(Reports) /\ Len(Resolve(R, id)) = Len(R)
         /\ \A r \in DOMAIN R :
              /\ Resolve(R, id)[r].type = R[r].type /\ Resolve(R, id)[r].target = R[r].target
              /\ r # id => Resolve(R, id)[r].status = R[r].status
              /\ r = id => Resolve(R, id)[r].status = "resolved"
<1>0. Len(R) \in Nat /\ DOMAIN R = 1..Len(R)
  OBVIOUS
<1>1. CASE id \in DOMAIN R
  <2>1. PICK new : new = [R[id] EXCEPT !.status = "resolved"]
    OBVIOUS
  <2>2. R[id] \in Reports
    BY <1>1
  <2>3. new \in Reports /\ new.type = R[id].type /\ new.target = R[id].target /\ new.status = "resolved"
    BY <2>1, <2>2 DEF Reports
  <2>4. PICK S : S = [R EXCEPT ![id] = new]
    OBVIOUS
  <2>5. Resolve(R, id) = S
    BY <1>1, <2>1, <2>4 DEF Resolve
  <2>6. S \in Seq(Reports) /\ Len(S) = Len(R)
    BY <1>0, <1>1, <2>3, <2>4
  <2>7. S[id] = new /\ \A r \in DOMAIN R : r # id => S[r] = R[r]
    BY <1>0, <1>1, <2>4
  <2> QED
    BY <2>3, <2>5, <2>6, <2>7
<1>2. CASE id \notin DOMAIN R
  BY <1>2 DEF Resolve
<1> QED
  BY <1>1, <1>2

LEMMA ResolvedKept ==
  ASSUME NEW d, d.reports \in Seq(Reports), NEW e, NEW id, e.reports = Resolve(d.reports, id)
  PROVE  KeepsAllBut(d, e, id) /\ DOMAIN e.reports = DOMAIN d.reports
<1>1. PICK R : R = d.reports
  OBVIOUS
<1>2. Len(R) \in Nat /\ DOMAIN R = 1..Len(R) /\ R \in Seq(Reports)
  BY <1>1
<1>3. /\ Resolve(R, id) \in Seq(Reports) /\ Len(Resolve(R, id)) = Len(R)
      /\ \A r \in DOMAIN R :
              /\ Resolve(R, id)[r].type = R[r].type /\ Resolve(R, id)[r].target = R[r].target
              /\ r # id => Resolve(R, id)[r].status = R[r].status
              /\ r = id => Resolve(R, id)[r].status = "resolved"
  BY <1>2, ResolveFacts
<1>4. DOMAIN Resolve(R, id) = 1..Len(R)
  BY <1>3
<1> QED
  BY <1>1, <1>2, <1>3, <1>4 DEF KeepsAllBut

Reported(d, e, id, k, x) == e.reports = Append(Resolve(d.reports, id), NewReport(k, x))

LEMMA AppendedKept ==
  ASSUME NEW d, d.reports \in Seq(Reports), NEW e, NEW id, NEW k \in Kinds, NEW x \in Actors \union Users,
         Reported(d, e, id, k, x)
  PROVE  /\ KeepsAllBut(d, e, id)
         /\ DOMAIN e.reports = DOMAIN d.reports \union {Len(d.reports) + 1}
         /\ e.reports[Len(d.reports) + 1] = NewReport(k, x)
<1>1. PICK R, S, new : R = d.reports /\ S = Resolve(d.reports, id) /\ new = NewReport(k, x)
  OBVIOUS
<1>2. Len(R) \in Nat /\ DOMAIN R = 1..Len(R) /\ R \in Seq(Reports)
  BY <1>1
<1>3. /\ S \in Seq(Reports) /\ Len(S) = Len(R)
      /\ \A r \in DOMAIN R :
              /\ S[r].type = R[r].type /\ S[r].target = R[r].target
              /\ r # id => S[r].status = R[r].status
              /\ r = id => S[r].status = "resolved"
  BY <1>1, <1>2, ResolveFacts
<1>4. new \in Reports
  BY <1>1 DEF NewReport, Reports
<1>5. /\ Append(S, new) \in Seq(Reports) /\ Len(Append(S, new)) = Len(S) + 1
      /\ \A r \in 1..Len(S) : Append(S, new)[r] = S[r]
      /\ Append(S, new)[Len(S) + 1] = new
  BY <1>3, <1>4, AppendProperties
<1>6. DOMAIN Append(S, new) = 1..(Len(S) + 1)
  BY <1>5
<1>7. e.reports = Append(S, new)
  BY <1>1 DEF Reported
<1>8. DOMAIN e.reports = DOMAIN R \union {Len(R) + 1}
  BY <1>2, <1>3, <1>6, <1>7
<1>9. Len(R) <= Len(R) + 1
  BY <1>2
<1> QED
  BY <1>1, <1>2, <1>3, <1>5, <1>7, <1>8, <1>9 DEF KeepsAllBut


LEMMA FewStrays ==
  ASSUME NEW d, NEW e, \A r \in DOMAIN e.reports : Stray(e, r) => Stray(d, r)
  PROVE  Strays(e) \subseteq Strays(d)
BY DEF Strays, Stray, Required

LEMMA OneStray ==
  ASSUME NEW d, NEW e, NEW z, \A r \in DOMAIN e.reports : Stray(e, r) => Stray(d, r) \/ r = z
  PROVE  More(Strays(d), Strays(e))
<1>1. Strays(e) \subseteq Strays(d) \union {z}
  BY DEF Strays, Stray, Required
<1> QED
  BY <1>1 DEF More

-----------------------------------------------------------------------------
(* What a sanction of kind k does to the slots of x: a deletion brings a   *)
(* freeze with it, a revocation takes a freeze away whose report, id, is   *)
(* resolved.                                                               *)
Imposes(d, e, ks, k, x, id, v) ==
  /\ SanctionInv(d) /\ k \in Kinds /\ x \in Targets(k)
  /\ Slot(d, k, x) = None /\ Slot(e, k, x) = v /\ Moves(d, e, ks, x)
  /\ \/ /\ ks = {k} /\ id = 0 /\ k # "user_delete"
        /\ k = "user_freeze" => Slot(d, "user_delete", x) = None
     \/ /\ ks = {"user_freeze", "user_delete"} /\ k = "user_delete" /\ id = 0
        /\ Slot(e, "user_freeze", x) = v
     \/ /\ ks = {"freeze", "revoke_access"} /\ k = "revoke_access"
        /\ id = Slot(d, "freeze", x) /\ Slot(e, "freeze", x) = None

LEMMA ImposedSlots ==
  ASSUME NEW d, NEW e, NEW ks, NEW k, NEW x, NEW id, NEW v, Imposes(d, e, ks, k, x, id, v),
         KeepsAllBut(d, e, id),
         \A r \in DOMAIN e.reports \ DOMAIN d.reports : e.reports[r] = NewReport(k, x),
         v = 0 \/ (v \in DOMAIN e.reports /\ e.reports[v] = NewReport(k, x))
  PROVE  SanctionInv(e)
<1>1. SanctionInv(d) /\ Moves(d, e, ks, x) /\ k \in Kinds /\ x \in Targets(k)
  BY DEF Imposes
<1>2. NewReport(k, x).type = k /\ NewReport(k, x).target = x
  BY DEF NewReport
<1>3. \A r \in DOMAIN e.reports \ DOMAIN d.reports : e.reports[r].target \in Targets(e.reports[r].type)
  BY <1>1, <1>2
<1>4. \A j \in ks : x \in Targets(j) => SlotOK(e, j, x)
  BY <1>2 DEF Imposes, SlotOK, Types
<1>5. ASSUME x \in Users, Slot(e, "user_delete", x) # None
      PROVE  Slot(e, "user_freeze", x) = None \/ Slot(e, "user_freeze", x) = Slot(e, "user_delete", x)
  <2>1. CASE ks = {"user_freeze", "user_delete"} /\ k = "user_delete"
    BY <2>1 DEF Imposes
  <2>2. CASE "user_delete" \notin ks
    <3>1. Slot(e, "user_delete", x) = Slot(d, "user_delete", x)
      BY <1>1, <1>5, <2>2 DEF Moves, Kinds, Targets
    <3>2. "user_freeze" \notin ks
      BY <1>5, <3>1 DEF Imposes
    <3>3. Slot(e, "user_freeze", x) = Slot(d, "user_freeze", x)
      BY <1>1, <1>5, <3>2 DEF Moves, Kinds, Targets
    <3> QED
      BY <1>1, <1>5, <3>1, <3>3 DEF SanctionInv
  <2>3. "user_delete" \in ks => ks = {"user_freeze", "user_delete"} /\ k = "user_delete"
    BY DEF Imposes
  <2> QED
    BY <2>1, <2>2, <2>3
<1> QED
  BY <1>1, <1>3, <1>4, <1>5, NewSlots

(* Which old reports stray, and which sanctions are owed one.              *)
LEMMA ImposedStrays ==
  ASSUME NEW d, NEW e, NEW ks, NEW k, NEW x, NEW id, NEW v, Imposes(d, e, ks, k, x, id, v),
         KeepsAllBut(d, e, id), NEW r \in DOMAIN d.reports, Stray(e, r)
  PROVE  \/ Stray(d, r)
         \/ /\ k = "user_delete" /\ r = Slot(d, "user_freeze", x) /\ ~Overtaken(e, r)
            /\ d.reports[r].type = "user_freeze" /\ d.reports[r].target = x
<1>1. SanctionInv(d) /\ Moves(d, e, ks, x) /\ Slot(d, k, x) = None
  BY DEF Imposes
<1>2. r # None
  BY <1>1, ReportFacts DEF SanctionInv
<1>3. CASE Stray(d, r)
  BY <1>3
<1>4. CASE ~Stray(d, r)
  <2>1. /\ d.reports[r].type \in ks /\ d.reports[r].target = x /\ r # id
        /\ Slot(d, d.reports[r].type, x) = r /\ ~Overtaken(e, r)
    BY <1>1, <1>4, NewStray
  <2>2. d.reports[r].type # k
    BY <1>1, <1>2, <2>1
  <2> QED
    BY <2>1, <2>2 DEF Imposes
<1> QED
  BY <1>3, <1>4

LEMMA ImposedOwed ==
  ASSUME NEW d, NEW e, NEW ks, NEW k, NEW x, NEW id, NEW v, Imposes(d, e, ks, k, x, id, v),
         KeepsAllBut(d, e, id), NEW j \in Kinds, NEW y \in Targets(j), Owed(e, j, y), v # None
  PROVE  Owed(d, j, y) \/ (y = x /\ j = k)
<1>1. SanctionInv(d) /\ Moves(d, e, ks, x)
  BY DEF Imposes
<1>2. j \in Kinds
  OBVIOUS
<1>3. CASE Owed(d, j, y)
  BY <1>3
<1>4. CASE y = x /\ \E i \in Bound(j) : i \in ks
  <2>1. CASE ks = {k} /\ k = "user_freeze" /\ j = "user_delete"
    <3>1. Slot(d, "user_delete", x) = None
      BY <2>1 DEF Imposes
    <3>2. Slot(e, "user_delete", x) = Slot(d, "user_delete", x)
      BY <1>1, <1>4, <2>1 DEF Moves
    <3> QED
      BY <1>4, <2>1, <3>1, <3>2 DEF Owed, InForce
  <2>2. CASE k = "user_delete" /\ j = "user_freeze"
    BY <1>4, <2>2 DEF Imposes, Owed, InForce
  <2>3. CASE k = "revoke_access" /\ j = "freeze" /\ ks = {"freeze", "revoke_access"}
    BY <1>4, <2>3 DEF Imposes, Owed, InForce
  <2> QED
    BY <1>4, <2>1, <2>2, <2>3 DEF Imposes, Bound, Kinds
<1>5. CASE /\ id \in DOMAIN d.reports /\ d.reports[id].target = y
           /\ d.reports[id].type = j /\ ~(y = x /\ \E i \in Bound(j) : i \in ks)
  <2>1. id # 0 /\ id # None
    BY <1>1, <1>5, ReportFacts DEF SanctionInv
  <2>2. ks = {"freeze", "revoke_access"} /\ id = Slot(d, "freeze", x) /\ k = "revoke_access"
    BY <2>1 DEF Imposes
  <2>3. SlotOK(d, "freeze", x)
    BY <1>1, <2>2 DEF SanctionInv, Imposes, Kinds, Targets
  <2>4. d.reports[id].target = x /\ d.reports[id].type = "freeze"
    BY <2>1, <2>2, <2>3 DEF SlotOK, Types
  <2> QED
    BY <1>5, <2>2, <2>4 DEF Bound
<1> QED
  BY <1>1, <1>2, <1>3, <1>4, <1>5, NewOwed

(* The sanction is put and has no report yet.                              *)
LEMMA ImposePut ==
  ASSUME NEW d, NEW e, NEW ks, NEW k, NEW x, NEW id, Imposes(d, e, ks, k, x, id, 0),
         e.reports = Resolve(d.reports, id)
  PROVE  Half(d, e)
<1>1. d.reports \in Seq(Reports)
  BY DEF Imposes, SanctionInv
<1>2. KeepsAllBut(d, e, id) /\ DOMAIN e.reports = DOMAIN d.reports
  BY <1>1, ResolvedKept
<1>3. SanctionInv(e)
  BY <1>2, ImposedSlots
<1>4. \A r \in DOMAIN e.reports : Stray(e, r) => Stray(d, r) \/ r = Slot(d, "user_freeze", x)
  BY <1>2, ImposedStrays
<1>5. 0 # None
  BY NoneAssumption
<1>6. OwedAlso(d, e, k, x)
  BY <1>2, <1>5, ImposedOwed DEF OwedAlso
<1>7. More(Unaccounted(d), Unaccounted(e))
  BY <1>6, OneOwed
<1>8. More(Strays(d), Strays(e))
  BY <1>4, OneStray
<1> QED
  BY <1>3, <1>7, <1>8 DEF Half

(* It has a report it does not name yet.                                   *)
LEMMA ImposeReported ==
  ASSUME NEW d, NEW e, NEW ks, NEW k, NEW x, NEW id, NEW v, Imposes(d, e, ks, k, x, id, v),
         v = 0 \/ v = Len(d.reports) + 1,
         Reported(d, e, id, k, x)
  PROVE  /\ Half(d, e)
         /\ v = Len(d.reports) + 1 => Clean(d, e)
<1>0. PICK n : n = Len(d.reports) + 1
  OBVIOUS
<1>1. d.reports \in Seq(Reports) /\ k \in Kinds /\ x \in Targets(k) /\ Slot(e, k, x) = v
  BY DEF Imposes, SanctionInv
<1>2. x \in Actors \union Users
  BY <1>1 DEF Targets
<1>3. /\ KeepsAllBut(d, e, id) /\ DOMAIN e.reports = DOMAIN d.reports \union {n}
      /\ e.reports[n] = NewReport(k, x)
  <2>1. KeepsAllBut(d, e, id)
    BY <1>1, <1>2, AppendedKept
  <2>2. DOMAIN e.reports = DOMAIN d.reports \union {n}
    BY <1>0, <1>1, <1>2, AppendedKept
  <2>3. e.reports[Len(d.reports) + 1] = NewReport(k, x)
    BY <1>1, <1>2, AppendedKept
  <2> QED
    BY <1>0, <2>1, <2>2, <2>3
<1>4. DOMAIN d.reports = 1..Len(d.reports) /\ Len(d.reports) \in Nat
  BY <1>1
<1>5. SanctionInv(e)
  BY <1>0, <1>3, ImposedSlots
<1>6. e.reports[n].type = k /\ e.reports[n].target = x /\ e.reports[n].status = "required"
  <2>1. PICK new : new = NewReport(k, x)
    OBVIOUS
  <2>2. new.type = k /\ new.target = x /\ new.status = "required"
    BY <2>1 DEF NewReport
  <2> QED
    BY <1>3, <2>1, <2>2
<1>7. \A r \in DOMAIN d.reports : Stray(e, r) => Stray(d, r)
  <2> SUFFICES ASSUME NEW r \in DOMAIN d.reports, Stray(e, r), ~Stray(d, r) PROVE FALSE
    OBVIOUS
  <2>1. /\ k = "user_delete" /\ ~Overtaken(e, r)
        /\ d.reports[r].type = "user_freeze" /\ d.reports[r].target = x
    BY <1>3, ImposedStrays
  <2>2. e.reports[r].type = "user_freeze" /\ e.reports[r].target = x
    BY <1>3, <2>1 DEF KeepsAllBut
  <2>3. n > r /\ n \in DOMAIN e.reports
    BY <1>0, <1>3, <1>4
  <2>4. Overtaken(e, r)
    BY <1>6, <2>1, <2>2, <2>3 DEF Overtaken
  <2> QED
    BY <2>1, <2>4
<1>8. v = n => ~Stray(e, n)
  BY <1>1, <1>6 DEF Stray
<1>9. \A r \in DOMAIN e.reports : Stray(e, r) => Stray(d, r) \/ r = n
  BY <1>3, <1>7
<1>10. v = n => \A r \in DOMAIN e.reports : Stray(e, r) => Stray(d, r)
  BY <1>3, <1>7, <1>8
<1>11. \A j \in Kinds : \A y \in Targets(j) : Owed(e, j, y) => Owed(d, j, y)
  <2> SUFFICES ASSUME NEW j \in Kinds, NEW y \in Targets(j), Owed(e, j, y), ~Owed(d, j, y)
               PROVE  FALSE
    OBVIOUS
  <2>1. v # None
    BY <1>4, NoneAssumption
  <2>2. y = x /\ j = k
    BY <1>3, <2>1, ImposedOwed
  <2>3. Required(e, n)
    BY <1>3, <1>6 DEF Required
  <2> QED
    BY <1>3, <1>6, <2>2, <2>3 DEF Owed
<1>12. Unaccounted(e) \subseteq Unaccounted(d)
  BY <1>11, FewOwed
<1>13. Half(d, e)
  BY <1>5, <1>9, <1>12, OneStray DEF Half, More
<1>14. v = n => Clean(d, e)
  BY <1>5, <1>10, <1>12, FewStrays DEF Clean
<1> QED
  BY <1>0, <1>13, <1>14

(* A freeze whose report is resolved, before it is taken away.             *)
LEMMA FreezeResolved ==
  ASSUME NEW d, NEW e, NEW a \in Actors, SanctionInv(d), Moves(d, e, {}, a),
         e.reports = Resolve(d.reports, Slot(d, "freeze", a))
  PROVE  Half(d, e)
<1> DEFINE id == Slot(d, "freeze", a)
<1>1. d.reports \in Seq(Reports)
  BY DEF SanctionInv
<1>2. KeepsAllBut(d, e, id) /\ DOMAIN e.reports = DOMAIN d.reports
  BY <1>1, ResolvedKept
<1>3. a \in Users => (Slot(e, "user_delete", a) # None =>
           Slot(e, "user_freeze", a) = None \/ Slot(e, "user_freeze", a) = Slot(e, "user_delete", a))
  BY DEF Moves, Kinds, Targets, SanctionInv
<1>4. SanctionInv(e)
  BY <1>2, <1>3, NewSlots
<1>5. \A r \in DOMAIN e.reports : Stray(e, r) => Stray(d, r)
  BY <1>2, NewStray
<1>6. SlotOK(d, "freeze", a)
  BY DEF SanctionInv, Kinds, Targets
<1>7. id \in DOMAIN d.reports => d.reports[id].target = a /\ d.reports[id].type = "freeze"
  <2>1. id \in DOMAIN d.reports => id # 0 /\ id # None
    BY <1>1, ReportFacts
  <2> QED
    BY <1>6, <2>1 DEF SlotOK, Types
<1>8. OwedAlso(d, e, "freeze", a)
  <2> SUFFICES ASSUME NEW j \in Kinds, NEW y \in Targets(j), Owed(e, j, y)
               PROVE  Owed(d, j, y) \/ (j = "freeze" /\ y = a)
    BY DEF OwedAlso
  <2>1. j \in Kinds
    OBVIOUS
  <2>2. \/ Owed(d, j, y)
        \/ id \in DOMAIN d.reports /\ d.reports[id].target = y /\ d.reports[id].type = j
    BY <1>2, <2>1, NewOwed
  <2> QED
    BY <1>7, <2>2
<1>9. More(Unaccounted(d), Unaccounted(e))
  BY <1>8, OneOwed
<1> QED
  BY <1>4, <1>5, <1>9, FewStrays DEF Half, More

(* What lifting a sanction of kind k does: with a deletion the freeze it   *)
(* brought is lifted too.                                                  *)
Lifts(d, e, ks, k, x) ==
  /\ SanctionInv(d) /\ k \in Kinds /\ x \in Targets(k) /\ Moves(d, e, ks, x) /\ Slot(e, k, x) = None
  /\ \/ ks = {k} /\ k # "user_delete"
     \/ /\ ks = {"user_freeze", "user_delete"} /\ k = "user_delete" /\ Slot(e, "user_freeze", x) = None
        /\ Slot(d, "user_freeze", x) = None \/ Slot(d, "user_freeze", x) = Slot(d, "user_delete", x)

LEMMA LiftedSlots ==
  ASSUME NEW d, NEW e, NEW ks, NEW k, NEW x, NEW id, Lifts(d, e, ks, k, x),
         KeepsAllBut(d, e, id), DOMAIN e.reports = DOMAIN d.reports
  PROVE  SanctionInv(e)
<1>1. SanctionInv(d) /\ Moves(d, e, ks, x)
  BY DEF Lifts
<1>2. \A j \in ks : Slot(e, j, x) = None
  BY DEF Lifts
<1>3. \A j \in ks : x \in Targets(j) => SlotOK(e, j, x)
  BY <1>2 DEF SlotOK
<1>4. ASSUME x \in Users, Slot(e, "user_delete", x) # None
      PROVE  Slot(e, "user_freeze", x) = None \/ Slot(e, "user_freeze", x) = Slot(e, "user_delete", x)
  <2>1. Slot(e, "user_delete", x) = Slot(d, "user_delete", x)
    BY <1>1, <1>2, <1>4 DEF Moves, Kinds, Targets
  <2>2. Slot(e, "user_freeze", x) = None \/ Slot(e, "user_freeze", x) = Slot(d, "user_freeze", x)
    BY <1>1, <1>2, <1>4 DEF Moves, Kinds, Targets
  <2> QED
    BY <1>1, <1>4, <2>1, <2>2 DEF SanctionInv
<1> QED
  BY <1>1, <1>3, <1>4, NewSlots

LEMMA LiftedStrays ==
  ASSUME NEW d, NEW e, NEW ks, NEW k, NEW x, NEW id, Lifts(d, e, ks, k, x),
         KeepsAllBut(d, e, id), NEW r \in DOMAIN d.reports, Stray(e, r)
  PROVE  Stray(d, r) \/ (r = Slot(d, k, x) /\ r # id)
<1>1. SanctionInv(d) /\ Moves(d, e, ks, x)
  BY DEF Lifts
<1>2. r # None
  BY <1>1, ReportFacts DEF SanctionInv
<1>3. CASE Stray(d, r)
  BY <1>3
<1>4. CASE ~Stray(d, r)
  <2>1. d.reports[r].type \in ks /\ r # id /\ Slot(d, d.reports[r].type, x) = r
    BY <1>1, <1>4, NewStray
  <2> QED
    BY <1>2, <2>1 DEF Lifts
<1> QED
  BY <1>3, <1>4

(* What a lifted slot was part of is not in force any more.                *)
LEMMA LiftedForce ==
  ASSUME NEW d, NEW e, NEW ks, NEW k, NEW x, Lifts(d, e, ks, k, x),
         NEW j \in Kinds, x \in Targets(j), \E i \in Bound(j) : i \in ks
  PROVE  ~InForce(e, j, x)
<1>1. CASE j \in ks
  BY <1>1 DEF Lifts, InForce
<1>2. CASE j \notin ks
  <2>1. j = "user_delete" /\ k = "user_freeze"
    BY <1>2 DEF Lifts, Bound
  <2> QED
    BY <2>1 DEF Lifts, InForce
<1> QED
  BY <1>1, <1>2

(* Once its report is resolved nothing strays, and nothing is owed one.    *)
LEMMA LiftResolved ==
  ASSUME NEW d, NEW e, NEW ks, NEW k, NEW x, Lifts(d, e, ks, k, x),
         e.reports = Resolve(d.reports, Slot(d, k, x))
  PROVE  Clean(d, e)
<1>0. PICK id : id = Slot(d, k, x)
  OBVIOUS
<1>1. SanctionInv(d) /\ Moves(d, e, ks, x) /\ k \in Kinds /\ x \in Targets(k) /\ d.reports \in Seq(Reports)
  BY DEF Lifts, SanctionInv
<1>2. KeepsAllBut(d, e, id) /\ DOMAIN e.reports = DOMAIN d.reports
  BY <1>0, <1>1, ResolvedKept
<1>3. SanctionInv(e)
  BY <1>2, LiftedSlots
<1>4. \A r \in DOMAIN e.reports : Stray(e, r) => Stray(d, r)
  BY <1>0, <1>2, LiftedStrays
<1>5. \A j \in Kinds : x \in Targets(j) /\ (\E i \in Bound(j) : i \in ks) => ~InForce(e, j, x)
  BY LiftedForce
<1>6. id \in DOMAIN d.reports => d.reports[id].target = x /\ d.reports[id].type \in Types(k)
  <2>1. id \in DOMAIN d.reports => id # 0 /\ id # None
    BY <1>1, ReportFacts
  <2>2. SlotOK(d, k, x)
    BY <1>1 DEF SanctionInv
  <2> QED
    BY <1>0, <2>1, <2>2 DEF SlotOK
<1>7. \A j \in Kinds : \A y \in Targets(j) : Owed(e, j, y) => Owed(d, j, y)
  <2> SUFFICES ASSUME NEW j \in Kinds, NEW y \in Targets(j), Owed(e, j, y), ~Owed(d, j, y)
               PROVE  FALSE
    OBVIOUS
  <2>1. j \in Kinds
    OBVIOUS
  <2>2. ~(y = x /\ \E i \in Bound(j) : i \in ks)
    BY <1>5 DEF Owed
  <2>3. id \in DOMAIN d.reports /\ d.reports[id].target = y /\ d.reports[id].type = j
    BY <1>1, <1>2, <2>1, <2>2, NewOwed
  <2>4. y = x /\ d.reports[id].type \in Types(k)
    BY <1>6, <2>3
  <2>5. \E i \in Bound(j) : i \in ks
    BY <2>3, <2>4 DEF Lifts, Types, Bound
  <2> QED
    BY <2>2, <2>4, <2>5
<1>8. Unaccounted(e) \subseteq Unaccounted(d)
  BY <1>7, FewOwed
<1>9. Strays(e) \subseteq Strays(d)
  BY <1>4, FewStrays
<1> QED
  BY <1>3, <1>8, <1>9 DEF Clean

(* Nothing that matters here changes.                                      *)
LEMMA SameReportsKept ==
  ASSUME NEW d, NEW e, d.reports \in Seq(Reports), e.reports = d.reports
  PROVE  KeepsAllBut(d, e, 0) /\ DOMAIN e.reports = DOMAIN d.reports
<1>1. \A r \in DOMAIN d.reports : r # 0
  BY ReportFacts
<1>2. Len(d.reports) <= Len(d.reports)
  OBVIOUS
<1> QED
  BY <1>1, <1>2 DEF KeepsAllBut

LEMMA LiftPut ==
  ASSUME NEW d, NEW e, NEW ks, NEW k, NEW x, Lifts(d, e, ks, k, x), e.reports = d.reports
  PROVE  Half(d, e)
<1>1. SanctionInv(d) /\ Moves(d, e, ks, x) /\ d.reports \in Seq(Reports)
  BY DEF Lifts, SanctionInv
<1>2. KeepsAllBut(d, e, 0) /\ DOMAIN e.reports = DOMAIN d.reports
  BY <1>1, SameReportsKept
<1>3. SanctionInv(e)
  BY <1>2, LiftedSlots
<1>4. \A r \in DOMAIN e.reports : Stray(e, r) => Stray(d, r) \/ r = Slot(d, k, x)
  BY <1>2, LiftedStrays
<1>5. 0 \notin DOMAIN d.reports
  BY <1>1, ReportFacts
<1>6. \A j \in Kinds : x \in Targets(j) /\ (\E i \in Bound(j) : i \in ks) => ~InForce(e, j, x)
  BY LiftedForce
<1>7. \A j \in Kinds : \A y \in Targets(j) : Owed(e, j, y) => Owed(d, j, y)
  <2> SUFFICES ASSUME NEW j \in Kinds, NEW y \in Targets(j), Owed(e, j, y), ~Owed(d, j, y)
               PROVE  FALSE
    OBVIOUS
  <2>1. j \in Kinds
    OBVIOUS
  <2>2. ~(y = x /\ \E i \in Bound(j) : i \in ks)
    BY <1>6 DEF Owed
  <2> QED
    BY <1>1, <1>2, <1>5, <2>1, <2>2, NewOwed
<1>8. Unaccounted(e) \subseteq Unaccounted(d)
  BY <1>7, FewOwed
<1>9. More(Strays(d), Strays(e))
  BY <1>4, OneStray
<1> QED
  BY <1>3, <1>8, <1>9 DEF Half, More

SameSanctions(d, e) ==
  e.reports = d.reports /\ \A k \in Kinds : \A y \in Targets(k) : Slot(e, k, y) = Slot(d, k, y)

LEMMA SameSanctionsClean ==
  ASSUME NEW d, NEW e, SanctionInv(d), SameSanctions(d, e)
  PROVE  Clean(d, e)
<1>1. d.reports \in Seq(Reports) /\ e.reports = d.reports
  BY DEF SanctionInv, SameSanctions
<1>2. ASSUME NEW r \in DOMAIN d.reports
      PROVE  d.reports[r].type \in Kinds /\ d.reports[r].target \in Targets(d.reports[r].type)
  BY <1>1, ReportFacts DEF SanctionInv
<1>3. \A r \in DOMAIN e.reports : Stray(e, r) => Stray(d, r)
  BY <1>1, <1>2 DEF Stray, SameSanctions, Required, Overtaken
<1>5. ASSUME NEW j \in Kinds, NEW y \in Targets(j), Owed(e, j, y) PROVE Owed(d, j, y)
  <2>1. \A i \in Bound(j) : Slot(e, i, y) = Slot(d, i, y)
    BY DEF SameSanctions, Bound, Kinds, Targets
  <2> QED
    BY <1>1, <1>5, <2>1 DEF Owed, InForce, Required, Bound
<1>6. \A k \in Kinds : \A x \in Targets(k) : SlotOK(e, k, x)
  BY <1>1 DEF SlotOK, SanctionInv, SameSanctions
<1>7. \A u \in Users : /\ Slot(e, "user_delete", u) = Slot(d, "user_delete", u)
                       /\ Slot(e, "user_freeze", u) = Slot(d, "user_freeze", u)
  BY DEF SameSanctions, Kinds, Targets
<1>8. SanctionInv(e)
  BY <1>1, <1>6, <1>7 DEF SanctionInv
<1> QED
  BY <1>3, <1>5, <1>8, FewStrays, FewOwed DEF Clean

-----------------------------------------------------------------------------
(* The shape of the storage.                                               *)
Ids == Nat \union {None}
Accounts == [warning : Ids, frozen : Ids, revokedAccess : Ids]

Statuses == {"none", "pending", "issued", "cancelled"}

Shape(d) ==
  /\ Stored(d)
  /\ d.security \in [Actors -> Accounts]
  /\ d.revokedOperator \in [Actors -> Ids]
  /\ d.user \in [Users -> [frozen : Ids, deleted : Ids]]
  /\ DOMAIN d.code = Codes /\ DOMAIN d.event = Times /\ DOMAIN d.owner = Times
  /\ d.invite \in [InviteIds -> [status : Statuses, code : Codes \union {None}]]
  /\ \A p \in InviteIds : d.invite[p].status # "issued" => d.invite[p].code = None

(* Only sanctions and their reports change.                                *)
Elsewhere(d, e) ==
  /\ Shape(e) /\ e.governance = d.governance
  /\ e.code = d.code /\ e.invite = d.invite /\ e.event = d.event /\ e.owner = d.owner

(* Codes no issued proposal names, and events without an owner.            *)
LooseCodes(d) ==
  {c \in Codes : d.code[c] \in {"active", "revoked"} /\ \A p \in InviteIds : d.invite[p].code # c}

LooseEvents(d) == {t \in Times : d.event[t] # None /\ d.owner[t] = None}

(* A content a handler may end with, and one a crash may leave.            *)
Settled(d, e) ==
  /\ Shape(e) /\ Clean(d, e) /\ e.governance \subseteq d.governance
  /\ LooseCodes(e) \subseteq LooseCodes(d) /\ LooseEvents(e) \subseteq LooseEvents(d)

Halfway(d, e) ==
  /\ Shape(e) /\ SanctionInv(e)
  /\ More(Unaccounted(d), Unaccounted(e)) /\ More(d.governance, e.governance)
  /\ \/ /\ More(Strays(d), Strays(e))
        /\ LooseCodes(e) \subseteq LooseCodes(d) /\ LooseEvents(e) \subseteq LooseEvents(d)
     \/ /\ More(LooseCodes(d), LooseCodes(e))
        /\ Strays(e) \subseteq Strays(d) /\ LooseEvents(e) \subseteq LooseEvents(d)
     \/ /\ More(LooseEvents(d), LooseEvents(e))
        /\ Strays(e) \subseteq Strays(d) /\ LooseCodes(e) \subseteq LooseCodes(d)

LEMMA SettledIsHalfway == \A d, e : Settled(d, e) => Halfway(d, e)
BY DEF Settled, Halfway, Clean, More

LEMMA ElsewhereSame ==
  ASSUME NEW d, NEW e, Elsewhere(d, e)
  PROVE  LooseCodes(e) = LooseCodes(d) /\ LooseEvents(e) = LooseEvents(d)
BY DEF Elsewhere, LooseCodes, LooseEvents

LEMMA ElsewhereClean ==
  ASSUME NEW d, NEW e, Elsewhere(d, e), Clean(d, e) PROVE Settled(d, e)
BY ElsewhereSame DEF Settled, Elsewhere

LEMMA HalfTrans ==
  ASSUME NEW d, NEW e, NEW f, Half(d, e), Clean(e, f) PROVE Half(d, f)
BY DEF Half, Clean, More

LEMMA CleanTrans ==
  ASSUME NEW d, NEW e, NEW f, Clean(d, e), Clean(e, f) PROVE Clean(d, f)
BY DEF Clean

-----------------------------------------------------------------------------
(* Sequences of contents: all but the last, and the last.                  *)
Earlier(s) == {s[i] : i \in 1..(Len(s) - 1)}
Ending(s)  == s[Len(s)]
IsRun(s)   == s \in Seq(Contents(s)) /\ Len(s) > 0

LEMMA JoinRuns ==
  ASSUME NEW s, NEW t, s \in Seq(Contents(s)), IsRun(t)
  PROVE  /\ IsRun(s \o t) /\ Ending(s \o t) = Ending(t)
         /\ Earlier(s \o t) \subseteq Contents(s) \union Earlier(t)
<1>1. PICK S : S = Contents(s) \union Contents(t)
  OBVIOUS
<1>2. s \in Seq(S) /\ t \in Seq(S) /\ Len(s) \in Nat /\ Len(t) \in Nat /\ Len(t) > 0
  BY <1>1 DEF IsRun
<1>3. s \o t \in Seq(S) /\ Len(s \o t) = Len(s) + Len(t)
  BY <1>2, ConcatProperties
<1>4. \A i \in 1..(Len(s) + Len(t)) : (s \o t)[i] = IF i <= Len(s) THEN s[i] ELSE t[i - Len(s)]
  BY <1>2
<1>5. IsRun(s \o t)
  <2>1. PICK u : u = s \o t
    OBVIOUS
  <2>2. u \in Seq(S) /\ Len(u) > 0
    BY <1>2, <1>3, <2>1
  <2>3. u \in Seq(Contents(u))
    BY <2>2, ContentsTyped
  <2> QED
    BY <2>1, <2>2, <2>3 DEF IsRun
<1>6. Ending(s \o t) = Ending(t)
  <2>1. Len(s) + Len(t) \in 1..(Len(s) + Len(t)) /\ ~(Len(s) + Len(t) <= Len(s))
        /\ Len(s) + Len(t) - Len(s) = Len(t)
    BY <1>2
  <2> QED
    BY <1>3, <1>4, <2>1 DEF Ending
<1>7. ASSUME NEW i \in 1..(Len(s) + Len(t) - 1) PROVE (s \o t)[i] \in Contents(s) \union Earlier(t)
  <2>1. CASE i <= Len(s)
    <3>1. i \in DOMAIN s /\ (s \o t)[i] = s[i]
      BY <1>2, <1>4, <2>1
    <3> QED
      BY <3>1 DEF Contents
  <2>2. CASE ~(i <= Len(s))
    <3>1. i - Len(s) \in 1..(Len(t) - 1) /\ (s \o t)[i] = t[i - Len(s)]
      BY <1>2, <1>4, <2>2
    <3> QED
      BY <3>1 DEF Earlier
  <2> QED
    BY <2>1, <2>2
<1>8. Earlier(s \o t) \subseteq Contents(s) \union Earlier(t)
  <2>1. PICK u : u = s \o t
    OBVIOUS
  <2>2. Len(u) = Len(s) + Len(t) /\ \A i \in 1..(Len(s) + Len(t) - 1) : u[i] \in Contents(s) \union Earlier(t)
    BY <1>3, <1>7, <2>1
  <2>3. \A i \in 1..(Len(u) - 1) : u[i] \in Contents(s) \union Earlier(t)
    BY <2>2
  <2>4. Earlier(u) \subseteq Contents(s) \union Earlier(t)
    <3>1. PICK B : B = Contents(s) \union Earlier(t)
      OBVIOUS
    <3>2. \A i \in 1..(Len(u) - 1) : u[i] \in B
      BY <2>3, <3>1
    <3>3. Earlier(u) \subseteq B
      BY <3>2 DEF Earlier
    <3> QED
      BY <3>1, <3>3
  <2> QED
    BY <2>1, <2>4
<1> QED
  BY <1>5, <1>6, <1>8

LEMMA Run1 == \A a : IsRun(<<a>>) /\ Ending(<<a>>) = a /\ Earlier(<<a>>) = {}
BY Contents1 DEF IsRun, Ending, Earlier

LEMMA Run2 == \A a, b : IsRun(<<a, b>>) /\ Ending(<<a, b>>) = b /\ Earlier(<<a, b>>) = {a}
BY Contents2 DEF IsRun, Ending, Earlier

LEMMA Run3 ==
  \A a, b, c : IsRun(<<a, b, c>>) /\ Ending(<<a, b, c>>) = c /\ Earlier(<<a, b, c>>) = {a, b}
BY Contents3 DEF IsRun, Ending, Earlier

(* What a step does to the debts.                                          *)
Outcome ==
  \/ Settled(db, db') /\ crashes' = crashes
  \/ Halfway(db, db') /\ crashes' = crashes + 1

Runs(s) == IsRun(s) /\ Settled(db, Ending(s)) /\ \A e \in Earlier(s) : Halfway(db, e)

LEMMA RunsHandler ==
  ASSUME NEW s, Runs(s), NEW left, Handler(s, left)
  PROVE  Outcome /\ now' = now
BY DEF Runs, IsRun, Ending, Earlier, Handler, Outcome

LEMMA JoinHalfway ==
  ASSUME NEW s, NEW t, s \in Seq(Contents(s)), \A e \in Contents(s) : Halfway(db, e), Runs(t)
  PROVE  Runs(s \o t)
BY JoinRuns DEF Runs

-----------------------------------------------------------------------------
(* The contents of a sanction, before the proposal is marked.              *)
SanctionRun(s) ==
  /\ IsRun(s) /\ Elsewhere(db, Ending(s)) /\ Clean(db, Ending(s))
  /\ \A e \in Earlier(s) : Elsewhere(db, e) /\ Half(db, e)

LEMMA ElsewhereHalf ==
  ASSUME NEW d, NEW e, Elsewhere(d, e), Half(d, e) PROVE Halfway(d, e)
BY ElsewhereSame DEF Halfway, Half, Elsewhere, More

LEMMA SanctionRunRuns == ASSUME NEW s, SanctionRun(s) PROVE Runs(s)
BY ElsewhereHalf, ElsewhereClean DEF SanctionRun, Runs

(* Other fields do not matter for sanctions.                               *)
LEMMA SameFields ==
  ASSUME NEW d, NEW e, e.reports = d.reports, e.security = d.security,
         e.revokedOperator = d.revokedOperator, e.user = d.user
  PROVE  SameSanctions(d, e)
BY DEF SameSanctions, Slot

LEMMA GovernanceRuns ==
  ASSUME Shape(db), SanctionInv(db), NEW action, NEW target, NEW execute, SanctionRun(execute),
         processAdminSecurityGovernanceAction(action, target, execute)
  PROVE  Outcome /\ now' = now
<1> DEFINE proposed(d) == [d EXCEPT !.governance = @ \union {<<action, target>>}]
           executed(d) == [d EXCEPT !.governance = @ \ {<<action, target>>}]
           executing == [i \in DOMAIN execute |-> proposed(execute[i])]
           last == execute[Len(execute)]
<1>1. ASSUME NEW d, Elsewhere(db, d), Half(db, d) PROVE Halfway(db, proposed(d))
  <2>1. PICK e : e = proposed(d)
    OBVIOUS
  <2>2. /\ e.governance = d.governance \union {<<action, target>>} /\ Shape(e)
        /\ e.code = d.code /\ e.invite = d.invite /\ e.event = d.event /\ e.owner = d.owner
        /\ e.reports = d.reports /\ e.security = d.security
        /\ e.revokedOperator = d.revokedOperator /\ e.user = d.user
    BY <1>1, <2>1 DEF Elsewhere, Shape, Stored, Fields
  <2>3. LooseCodes(e) = LooseCodes(db) /\ LooseEvents(e) = LooseEvents(db)
    BY <1>1, <2>2 DEF LooseCodes, LooseEvents, Elsewhere
  <2>4. Clean(d, e)
    BY <1>1, <2>2, SameFields, SameSanctionsClean DEF Half
  <2>5. Half(db, e)
    BY <1>1, <2>4, HalfTrans
  <2>6. More(db.governance, e.governance)
    BY <1>1, <2>2 DEF More, Elsewhere
  <2> QED
    BY <2>1, <2>2, <2>3, <2>5, <2>6 DEF Halfway, Half
<1>2. ASSUME NEW d, Elsewhere(db, d), Clean(db, d) PROVE Settled(db, executed(d))
  <2>1. PICK e : e = executed(d)
    OBVIOUS
  <2>2. /\ e.governance = d.governance \ {<<action, target>>} /\ Shape(e)
        /\ e.code = d.code /\ e.invite = d.invite /\ e.event = d.event /\ e.owner = d.owner
        /\ e.reports = d.reports /\ e.security = d.security
        /\ e.revokedOperator = d.revokedOperator /\ e.user = d.user
    BY <1>2, <2>1 DEF Elsewhere, Shape, Stored, Fields
  <2>3. LooseCodes(e) = LooseCodes(db) /\ LooseEvents(e) = LooseEvents(db)
    BY <1>2, <2>2 DEF LooseCodes, LooseEvents, Elsewhere
  <2>4. Clean(d, e)
    BY <1>2, <2>2, SameFields, SameSanctionsClean DEF Clean
  <2>5. Clean(db, e)
    BY <1>2, <2>4, CleanTrans
  <2>6. e.governance \subseteq db.governance
    BY <1>2, <2>2 DEF Elsewhere
  <2> QED
    BY <2>1, <2>2, <2>3, <2>5, <2>6 DEF Settled
<1>3. /\ Len(execute) \in Nat /\ Len(execute) > 0 /\ DOMAIN execute = 1..Len(execute)
      /\ Elsewhere(db, last) /\ Clean(db, last)
  BY DEF SanctionRun, IsRun, Ending
<1>4. \A i \in DOMAIN execute : Elsewhere(db, execute[i]) /\ Half(db, execute[i])
  <2> SUFFICES ASSUME NEW i \in DOMAIN execute PROVE Elsewhere(db, execute[i]) /\ Half(db, execute[i])
    OBVIOUS
  <2>1. CASE i = Len(execute)
    BY <1>3, <2>1, CleanIsHalf
  <2>2. CASE i # Len(execute)
    <3>1. i \in 1..(Len(execute) - 1)
      BY <1>3, <2>2
    <3> QED
      BY <3>1 DEF SanctionRun, Earlier
  <2> QED
    BY <2>1, <2>2
<1>5. Elsewhere(db, db) /\ Half(db, db)
  <2>1. Clean(db, db)
    BY DEF Clean
  <2> QED
    BY <2>1, CleanIsHalf DEF Elsewhere
<1>6. PICK one : one = <<proposed(db)>>
  OBVIOUS
<1>7. one \in Seq(Contents(one)) /\ \A e \in Contents(one) : Halfway(db, e)
  <2> HIDE DEF proposed
  <2> QED
    BY <1>1, <1>5, <1>6, Contents1
<1>8. executing \in Seq(Contents(executing)) /\ \A e \in Contents(executing) : Halfway(db, e)
  <2> HIDE DEF proposed
  <2>1. \A i \in DOMAIN execute : executing[i] = proposed(execute[i]) /\ Halfway(db, executing[i])
    BY <1>1, <1>4
  <2>2. DOMAIN executing = 1..Len(execute)
    BY <1>3
  <2>3. executing \in Seq(Contents(executing))
    BY <1>3, <2>2 DEF Contents
  <2> QED
    BY <1>3, <2>1, <2>2, <2>3 DEF Contents
<1>9. PICK end : end = <<executed(last)>>
  OBVIOUS
<1>10. Runs(end)
  <2> HIDE DEF executed, last
  <2> QED
    BY <1>2, <1>3, <1>9, Run1 DEF Runs
<1>11. Runs(one \o executing \o end)
  <2> HIDE DEF executing
  <2>1. Runs(executing \o end)
    BY <1>8, <1>10, JoinHalfway
  <2>2. PICK tail : tail = executing \o end
    OBVIOUS
  <2>3. Runs(one \o tail)
    BY <1>7, <2>1, <2>2, JoinHalfway
  <2>4. PICK S : S = Contents(one) \union Contents(executing) \union Contents(end)
    OBVIOUS
  <2>5. one \in Seq(S) /\ executing \in Seq(S) /\ end \in Seq(S)
    BY <1>7, <1>8, <1>10, <2>4 DEF Runs, IsRun
  <2>6. one \o executing \o end = one \o (executing \o end)
    BY <2>5, ConcatAssociative
  <2> QED
    BY <2>2, <2>3, <2>6
<1>12. Handler(<<proposed(db)>> \o executing \o <<executed(last)>>, waiting)
  BY DEF processAdminSecurityGovernanceAction
<1>13. Handler(one \o executing \o end, waiting)
  BY <1>6, <1>9, <1>12
<1> QED
  BY <1>11, <1>13, RunsHandler

-----------------------------------------------------------------------------
(* The slots that writing an account, an operator or a user changes.       *)
LEMMA AccountSlots ==
  ASSUME NEW d, NEW e, NEW a, e.user = d.user, e.revokedOperator = d.revokedOperator,
         \A b \in Actors : b # a => e.security[b] = d.security[b]
  PROVE  Moves(d, e, {"freeze", "revoke_access"}, a)
BY DEF Moves, Kinds, Targets, Slot

LEMMA FreezeSlots ==
  ASSUME NEW d, NEW e, NEW a, Moves(d, e, {"freeze", "revoke_access"}, a)
  PROVE  /\ e.security[a].revokedAccess = d.security[a].revokedAccess => Moves(d, e, {"freeze"}, a)
         /\ e.security[a].frozen = d.security[a].frozen => Moves(d, e, {"revoke_access"}, a)
BY DEF Moves, Kinds, Targets, Slot

LEMMA OperatorSlots ==
  ASSUME NEW d, NEW e, NEW a, e.user = d.user, e.security = d.security,
         \A b \in Actors : b # a => e.revokedOperator[b] = d.revokedOperator[b]
  PROVE  Moves(d, e, {"operator_revoke"}, a)
BY DEF Moves, Kinds, Targets, Slot

LEMMA UserSlots ==
  ASSUME NEW d, NEW e, NEW u, e.security = d.security, e.revokedOperator = d.revokedOperator,
         \A v \in Users : v # u => e.user[v] = d.user[v]
  PROVE  /\ Moves(d, e, {"user_freeze", "user_delete"}, u)
         /\ e.user[u].deleted = d.user[u].deleted => Moves(d, e, {"user_freeze"}, u)
BY DEF Moves, Kinds, Targets, Slot

LEMMA SlotValues ==
  ASSUME NEW d, NEW x
  PROVE  /\ Slot(d, "freeze", x) = d.security[x].frozen
         /\ Slot(d, "revoke_access", x) = d.security[x].revokedAccess
         /\ Slot(d, "operator_revoke", x) = d.revokedOperator[x]
         /\ Slot(d, "user_freeze", x) = d.user[x].frozen
         /\ Slot(d, "user_delete", x) = d.user[x].deleted
BY DEF Slot

(* Of a content only its slots matter for what a sanction does to them.    *)
SameSlots(d, e) == \A k \in Kinds : \A y \in Targets(k) : Slot(e, k, y) = Slot(d, k, y)

LEMMA ImposesSame ==
  ASSUME NEW d, NEW e, NEW f, NEW ks, NEW k, NEW x, NEW id, NEW v,
         Imposes(d, e, ks, k, x, id, v), SameSlots(e, f)
  PROVE  Imposes(d, f, ks, k, x, id, v)
<1>1. Moves(d, f, ks, x)
  BY DEF Imposes, Moves, SameSlots
<1>2. Slot(f, k, x) = v
  BY DEF Imposes, SameSlots
<1>3. k = "user_delete" => Slot(f, "user_freeze", x) = Slot(e, "user_freeze", x)
  BY DEF Imposes, SameSlots, Kinds, Targets
<1>4. k = "revoke_access" => Slot(f, "freeze", x) = Slot(e, "freeze", x)
  BY DEF Imposes, SameSlots, Kinds, Targets
<1> QED
  BY <1>1, <1>2, <1>3, <1>4 DEF Imposes

LEMMA LiftsSame ==
  ASSUME NEW d, NEW e, NEW f, NEW ks, NEW k, NEW x, Lifts(d, e, ks, k, x), SameSlots(e, f)
  PROVE  Lifts(d, f, ks, k, x)
<1>1. Moves(d, f, ks, x)
  BY DEF Lifts, Moves, SameSlots
<1>2. Slot(f, k, x) = None
  BY DEF Lifts, SameSlots
<1>3. k = "user_delete" => Slot(f, "user_freeze", x) = Slot(e, "user_freeze", x)
  BY DEF Lifts, SameSlots, Kinds, Targets
<1> QED
  BY <1>1, <1>2, <1>3 DEF Lifts

(* Writing a report leaves the rest alone.                                 *)
LEMMA ReportWritten ==
  ASSUME NEW d, NEW e, Elsewhere(d, e), NEW k, NEW x, NEW f,
         f = createAdminSecurityReportObligation(e, k, x)
  PROVE  Elsewhere(d, f) /\ SameSlots(e, f) /\ f.reports = Append(e.reports, NewReport(k, x))
<1>1. /\ f.reports = Append(e.reports, NewReport(k, x)) /\ f.security = e.security /\ f.user = e.user
      /\ f.revokedOperator = e.revokedOperator /\ Stored(f) /\ f.governance = e.governance
      /\ f.code = e.code /\ f.invite = e.invite /\ f.event = e.event /\ f.owner = e.owner
  BY DEF createAdminSecurityReportObligation, Elsewhere, Shape, Stored, Fields, NewReport
<1>2. SameSlots(e, f)
  BY <1>1 DEF SameSlots, Slot
<1>3. Elsewhere(d, f)
  BY <1>1 DEF Elsewhere, Shape
<1> QED
  BY <1>1, <1>2, <1>3

LEMMA ReportResolved ==
  ASSUME NEW d, NEW e, Elsewhere(d, e), NEW id, NEW f,
         f = resolveAdminSecurityReportObligation(e, id)
  PROVE  Elsewhere(d, f) /\ SameSlots(e, f) /\ f.reports = Resolve(e.reports, id)
<1>1. /\ f.reports = Resolve(e.reports, id) /\ f.security = e.security /\ f.user = e.user
      /\ f.revokedOperator = e.revokedOperator /\ Stored(f) /\ f.governance = e.governance
      /\ f.code = e.code /\ f.invite = e.invite /\ f.event = e.event /\ f.owner = e.owner
  BY DEF resolveAdminSecurityReportObligation, Elsewhere, Shape, Stored, Fields, Resolve
<1>2. SameSlots(e, f)
  BY <1>1 DEF SameSlots, Slot
<1>3. Elsewhere(d, f)
  BY <1>1 DEF Elsewhere, Shape
<1> QED
  BY <1>1, <1>2, <1>3

LEMMA ReportedRun ==
  ASSUME NEW put, NEW named, NEW ks, NEW k, NEW x, NEW id,
         Elsewhere(db, put), Elsewhere(db, named),
         put.reports = Resolve(db.reports, id), named.reports = Resolve(db.reports, id),
         Imposes(db, put, ks, k, x, id, 0), Imposes(db, named, ks, k, x, id, newReportId)
  PROVE  SanctionRun(reported(put, named, k, x))
<1>1. PICK told : told = createAdminSecurityReportObligation(put, k, x)
  OBVIOUS
<1>2. PICK final : final = createAdminSecurityReportObligation(named, k, x)
  OBVIOUS
<1>3. reported(put, named, k, x) = <<put, told, final>>
  BY <1>1, <1>2 DEF reported
<1>4. Half(db, put)
  BY ImposePut
<1>5. Elsewhere(db, told) /\ SameSlots(put, told) /\ told.reports = Append(put.reports, NewReport(k, x))
  BY <1>1, ReportWritten
<1>6. Elsewhere(db, final) /\ SameSlots(named, final) /\ final.reports = Append(named.reports, NewReport(k, x))
  BY <1>2, ReportWritten
<1>7. Imposes(db, told, ks, k, x, id, 0) /\ Reported(db, told, id, k, x)
  BY <1>5, ImposesSame DEF Reported
<1>8. Imposes(db, final, ks, k, x, id, newReportId) /\ Reported(db, final, id, k, x)
  BY <1>6, ImposesSame DEF Reported
<1>9. Half(db, told)
  BY <1>7, ImposeReported
<1>10. Clean(db, final)
  <2>1. newReportId = Len(db.reports) + 1
    BY DEF newReportId
  <2> QED
    BY <1>8, <2>1, ImposeReported
<1> QED
  BY <1>3, <1>4, <1>5, <1>6, <1>9, <1>10, Run3 DEF SanctionRun

LEMMA LiftedRun ==
  ASSUME NEW d, NEW ks, NEW k, NEW x, Elsewhere(db, d), d.reports = db.reports,
         Lifts(db, d, ks, k, x)
  PROVE  SanctionRun(lifted(d, Slot(db, k, x)))
<1>1. PICK e : e = resolveAdminSecurityReportObligation(d, Slot(db, k, x))
  OBVIOUS
<1>2. lifted(d, Slot(db, k, x)) = <<d, e>>
  BY <1>1 DEF lifted
<1>3. Half(db, d)
  BY LiftPut
<1>4. Elsewhere(db, e) /\ SameSlots(d, e) /\ e.reports = Resolve(d.reports, Slot(db, k, x))
  BY <1>1, ReportResolved
<1>5. Clean(db, e)
  BY <1>4, LiftsSame, LiftResolved
<1> QED
  BY <1>2, <1>3, <1>4, <1>5, Run2 DEF SanctionRun

-----------------------------------------------------------------------------
LEMMA ResolveNothing ==
  ASSUME NEW R \in Seq(Reports) PROVE Resolve(R, 0) = R
<1>1. 0 \notin DOMAIN R
  OBVIOUS
<1> QED
  BY <1>1 DEF Resolve

LEMMA NewIdFacts ==
  ASSUME SanctionInv(db)
  PROVE  newReportId \in Nat /\ newReportId \in Ids /\ 0 \in Ids /\ None \in Ids /\ db.reports \in Seq(Reports)
BY DEF SanctionInv, newReportId, Ids

(* Writing an account.                                                     *)
AccountPut(f, e, a, z, r) ==
  /\ Stored(e) /\ e.security \in [Actors -> Accounts]
  /\ e.security[a].frozen = z /\ e.security[a].revokedAccess = r
  /\ \A b \in Actors : b # a => e.security[b] = f.security[b]
  /\ e.revokedOperator = f.revokedOperator /\ e.user = f.user /\ e.governance = f.governance
  /\ e.code = f.code /\ e.invite = f.invite /\ e.event = f.event /\ e.owner = f.owner

LEMMA AccountWritten ==
  ASSUME NEW d, NEW f, Elsewhere(d, f), NEW a \in Actors, NEW z, NEW r, NEW e, AccountPut(f, e, a, z, r)
  PROVE  /\ Elsewhere(d, e) /\ Slot(e, "freeze", a) = z /\ Slot(e, "revoke_access", a) = r
         /\ Moves(f, e, {"freeze", "revoke_access"}, a)
<1>1. Elsewhere(d, e)
  BY DEF Elsewhere, Shape, AccountPut
<1>2. Slot(e, "freeze", a) = z /\ Slot(e, "revoke_access", a) = r
  BY DEF Slot, AccountPut
<1>3. Moves(f, e, {"freeze", "revoke_access"}, a)
  BY AccountSlots DEF AccountPut
<1> QED
  BY <1>1, <1>2, <1>3

LEMMA OperatorWritten ==
  ASSUME NEW d, Shape(d), NEW a \in Actors, NEW v \in Ids, NEW e, e = [d EXCEPT !.revokedOperator[a] = v]
  PROVE  /\ Elsewhere(d, e) /\ e.reports = d.reports /\ Slot(e, "operator_revoke", a) = v
         /\ Moves(d, e, {"operator_revoke"}, a)
<1>1. /\ Stored(e) /\ e.security = d.security /\ e.user = d.user /\ e.governance = d.governance
      /\ e.code = d.code /\ e.invite = d.invite /\ e.event = d.event /\ e.owner = d.owner
      /\ e.reports = d.reports /\ e.revokedOperator = [d.revokedOperator EXCEPT ![a] = v]
  BY DEF Shape, Stored, Fields
<1>2. /\ e.revokedOperator \in [Actors -> Ids] /\ e.revokedOperator[a] = v
      /\ \A b \in Actors : b # a => e.revokedOperator[b] = d.revokedOperator[b]
  BY <1>1 DEF Shape
<1>3. Elsewhere(d, e)
  BY <1>1, <1>2 DEF Elsewhere, Shape
<1>4. Slot(e, "operator_revoke", a) = v
  BY <1>2 DEF Slot
<1>5. Moves(d, e, {"operator_revoke"}, a)
  BY <1>1, <1>2, OperatorSlots
<1> QED
  BY <1>1, <1>3, <1>4, <1>5

UserPut(d, e, u, z, x) ==
  /\ Stored(e) /\ e.user \in [Users -> [frozen : Ids, deleted : Ids]]
  /\ e.user[u].frozen = z /\ e.user[u].deleted = x
  /\ \A v \in Users : v # u => e.user[v] = d.user[v]
  /\ e.security = d.security /\ e.revokedOperator = d.revokedOperator /\ e.governance = d.governance
  /\ e.code = d.code /\ e.invite = d.invite /\ e.event = d.event /\ e.owner = d.owner
  /\ e.reports = d.reports

LEMMA UserWritten ==
  ASSUME NEW d, Shape(d), NEW u \in Users, NEW z, NEW x, NEW e, UserPut(d, e, u, z, x)
  PROVE  /\ Elsewhere(d, e) /\ e.reports = d.reports
         /\ Slot(e, "user_freeze", u) = z /\ Slot(e, "user_delete", u) = x
         /\ Moves(d, e, {"user_freeze", "user_delete"}, u)
         /\ x = d.user[u].deleted => Moves(d, e, {"user_freeze"}, u)
<1>1. Elsewhere(d, e)
  BY DEF Elsewhere, Shape, UserPut
<1>2. Slot(e, "user_freeze", u) = z /\ Slot(e, "user_delete", u) = x
  BY DEF Slot, UserPut
<1>3. Moves(d, e, {"user_freeze", "user_delete"}, u)
  BY UserSlots DEF UserPut
<1>4. x = d.user[u].deleted => Moves(d, e, {"user_freeze"}, u)
  BY UserSlots DEF UserPut
<1>5. e.reports = d.reports
  BY DEF UserPut
<1> QED
  BY <1>1, <1>2, <1>3, <1>4, <1>5

(* An account frozen by an override: written from an account that differs  *)
(* from the stored one in its warning only.                                *)
LEMMA FreezeRun ==
  ASSUME Shape(db), SanctionInv(db), NEW a \in Actors, db.security[a].frozen = None,
         NEW s \in Accounts, s.revokedAccess = db.security[a].revokedAccess
  PROVE  SanctionRun(freezeAdmin(putSecurity(db, a, s), a))
<1> DEFINE Put(id) == [putSecurity(db, a, s) EXCEPT !.security[a].warning = None, !.security[a].frozen = id]
<1>1. newReportId \in Ids /\ 0 \in Ids /\ None \in Ids /\ db.reports \in Seq(Reports)
  BY NewIdFacts
<1>2. ASSUME NEW id \in Ids, NEW e, e = Put(id)
      PROVE  /\ Elsewhere(db, e) /\ e.reports = Resolve(db.reports, 0)
             /\ Imposes(db, e, {"freeze"}, "freeze", a, 0, id)
  <2>1. PICK f : f = putSecurity(db, a, s)
    OBVIOUS
  <2>2. /\ Stored(f) /\ f.revokedOperator = db.revokedOperator /\ f.user = db.user
        /\ f.governance = db.governance /\ f.code = db.code /\ f.invite = db.invite
        /\ f.event = db.event /\ f.owner = db.owner /\ f.reports = db.reports
        /\ f.security = [db.security EXCEPT ![a] = s]
    BY <2>1 DEF putSecurity, Shape, Stored, Fields
  <2>3. /\ f.security \in [Actors -> Accounts] /\ f.security[a] = s
        /\ \A b \in Actors : b # a => f.security[b] = db.security[b]
    BY <2>2 DEF Shape
  <2>a. e = [f EXCEPT !.security[a].warning = None, !.security[a].frozen = id]
    BY <1>2, <2>1
  <2> HIDE DEF Put
  <2>4. /\ Stored(e) /\ e.revokedOperator = f.revokedOperator /\ e.user = f.user
        /\ e.governance = f.governance /\ e.code = f.code /\ e.invite = f.invite
        /\ e.event = f.event /\ e.owner = f.owner /\ e.reports = f.reports
    <3>1. Stored(f)
      BY <2>2
    <3> QED
      BY <2>a, <3>1 DEF Stored, Fields
  <2>5. /\ e.security \in [Actors -> Accounts] /\ e.security[a].frozen = id
        /\ e.security[a].revokedAccess = s.revokedAccess
        /\ \A b \in Actors : b # a => e.security[b] = f.security[b]
    BY <1>1, <2>2, <2>3, <2>a DEF Stored, Fields, Accounts
  <2>6. AccountPut(db, e, a, id, db.security[a].revokedAccess)
    BY <2>2, <2>3, <2>4, <2>5 DEF AccountPut
  <2>7. /\ Elsewhere(db, e) /\ Slot(e, "freeze", a) = id /\ Moves(db, e, {"freeze", "revoke_access"}, a)
    BY <2>6, AccountWritten DEF Elsewhere
  <2>8. Moves(db, e, {"freeze"}, a)
    BY <2>5, <2>7, FreezeSlots
  <2>9. e.reports = Resolve(db.reports, 0)
    BY <1>1, <2>2, <2>4, ResolveNothing
  <2>10. Slot(db, "freeze", a) = None
    BY SlotValues
  <2> QED
    BY <2>7, <2>8, <2>9, <2>10 DEF Imposes, Kinds, Targets
<1>3. PICK put, named : put = Put(0) /\ named = Put(newReportId)
  OBVIOUS
<1>4. freezeAdmin(putSecurity(db, a, s), a) = reported(put, named, "freeze", a)
  BY <1>3 DEF freezeAdmin
<1> HIDE DEF Put
<1> QED
  BY <1>1, <1>2, <1>3, <1>4, ReportedRun

-----------------------------------------------------------------------------
(* The sanctions of administrators.                                        *)
LEMMA UnlockOutcome ==
  ASSUME Shape(db), SanctionInv(db), NEW a \in Actors, unlock(a)
  PROVE  Outcome /\ now' = now
<1>1. PICK d : d = [db EXCEPT !.security[a].frozen = None, !.security[a].warning = None]
  OBVIOUS
<1>2. /\ Stored(d) /\ d.revokedOperator = db.revokedOperator /\ d.user = db.user
      /\ d.governance = db.governance /\ d.code = db.code /\ d.invite = db.invite
      /\ d.event = db.event /\ d.owner = db.owner /\ d.reports = db.reports
  BY <1>1 DEF Shape, Stored, Fields
<1>3. /\ d.security \in [Actors -> Accounts] /\ d.security[a].frozen = None
      /\ d.security[a].revokedAccess = db.security[a].revokedAccess
      /\ \A b \in Actors : b # a => d.security[b] = db.security[b]
  BY <1>1, NewIdFacts DEF Shape, Stored, Fields, Accounts
<1>4. AccountPut(db, d, a, None, db.security[a].revokedAccess)
  BY <1>2, <1>3 DEF AccountPut
<1>5. Elsewhere(db, d) /\ Slot(d, "freeze", a) = None /\ Moves(db, d, {"freeze", "revoke_access"}, a)
  BY <1>4, AccountWritten DEF Elsewhere
<1>6. Moves(db, d, {"freeze"}, a)
  BY <1>3, <1>5, FreezeSlots
<1>7. Lifts(db, d, {"freeze"}, "freeze", a)
  BY <1>5, <1>6 DEF Lifts, Kinds, Targets
<1>8. SanctionRun(lifted(d, db.security[a].frozen))
  <2>1. db.security[a].frozen = Slot(db, "freeze", a)
    BY SlotValues
  <2> QED
    BY <1>2, <1>5, <1>7, <2>1, LiftedRun
<1> QED
  BY <1>1, <1>8, GovernanceRuns DEF unlock

LEMMA RestoreAccessOutcome ==
  ASSUME Shape(db), SanctionInv(db), NEW a \in Actors, restoreAccess(a)
  PROVE  Outcome /\ now' = now
<1>1. PICK d : d = [db EXCEPT !.security[a].revokedAccess = None, !.security[a].warning = None]
  OBVIOUS
<1>2. /\ Stored(d) /\ d.revokedOperator = db.revokedOperator /\ d.user = db.user
      /\ d.governance = db.governance /\ d.code = db.code /\ d.invite = db.invite
      /\ d.event = db.event /\ d.owner = db.owner /\ d.reports = db.reports
  BY <1>1 DEF Shape, Stored, Fields
<1>3. /\ d.security \in [Actors -> Accounts] /\ d.security[a].revokedAccess = None
      /\ d.security[a].frozen = db.security[a].frozen
      /\ \A b \in Actors : b # a => d.security[b] = db.security[b]
  BY <1>1, NewIdFacts DEF Shape, Stored, Fields, Accounts
<1>4. AccountPut(db, d, a, db.security[a].frozen, None)
  BY <1>2, <1>3 DEF AccountPut
<1>5. Elsewhere(db, d) /\ Slot(d, "revoke_access", a) = None /\ Moves(db, d, {"freeze", "revoke_access"}, a)
  BY <1>4, AccountWritten DEF Elsewhere
<1>6. Moves(db, d, {"revoke_access"}, a)
  BY <1>3, <1>5, FreezeSlots
<1>7. Lifts(db, d, {"revoke_access"}, "revoke_access", a)
  BY <1>5, <1>6 DEF Lifts, Kinds, Targets
<1>8. SanctionRun(lifted(d, db.security[a].revokedAccess))
  <2>1. db.security[a].revokedAccess = Slot(db, "revoke_access", a)
    BY SlotValues
  <2> QED
    BY <1>2, <1>5, <1>7, <2>1, LiftedRun
<1> QED
  BY <1>1, <1>8, GovernanceRuns DEF restoreAccess

LEMMA RevokeAccessOutcome ==
  ASSUME Shape(db), SanctionInv(db), NEW a \in Actors, revokeAccess(a)
  PROVE  Outcome /\ now' = now
<1>0. PICK id : id = db.security[a].frozen
  OBVIOUS
<1>1. PICK u : u = resolveAdminSecurityReportObligation(db, id)
  OBVIOUS
<1> DEFINE Put(v) == [u EXCEPT !.security[a] = [emptySecurityState EXCEPT !.revokedAccess = v]]
<1>2. Elsewhere(db, db) /\ db.security[a].revokedAccess = None
  BY DEF Elsewhere, revokeAccess
<1>3. Elsewhere(db, u) /\ SameSlots(db, u) /\ u.reports = Resolve(db.reports, id)
  BY <1>1, <1>2, ReportResolved
<1>4. id = Slot(db, "freeze", a) /\ Slot(db, "revoke_access", a) = None
  BY <1>0, <1>2, SlotValues
<1>5. Half(db, u)
  <2>1. Moves(db, u, {}, a)
    BY <1>3 DEF SameSlots, Moves
  <2> QED
    BY <1>3, <1>4, <2>1, FreezeResolved
<1>6. ASSUME NEW v \in Ids, NEW e, e = Put(v)
      PROVE  /\ Elsewhere(db, e) /\ e.reports = Resolve(db.reports, id)
             /\ Imposes(db, e, {"freeze", "revoke_access"}, "revoke_access", a, id, v)
  <2>1. /\ Stored(e) /\ e.revokedOperator = u.revokedOperator /\ e.user = u.user
        /\ e.governance = u.governance /\ e.code = u.code /\ e.invite = u.invite
        /\ e.event = u.event /\ e.owner = u.owner /\ e.reports = u.reports
    BY <1>3, <1>6 DEF Elsewhere, Shape, Stored, Fields
  <2>2. PICK s : s = [emptySecurityState EXCEPT !.revokedAccess = v]
    OBVIOUS
  <2>3. s \in Accounts /\ s.frozen = None /\ s.revokedAccess = v
    BY <2>2, NewIdFacts DEF emptySecurityState, Accounts
  <2>4. e.security = [u.security EXCEPT ![a] = s]
    BY <1>3, <1>6, <2>2 DEF Elsewhere, Shape, Stored, Fields
  <2>5. /\ e.security \in [Actors -> Accounts] /\ e.security[a] = s
        /\ \A b \in Actors : b # a => e.security[b] = u.security[b]
    BY <1>3, <2>3, <2>4 DEF Elsewhere, Shape
  <2>6. AccountPut(u, e, a, None, v)
    BY <2>1, <2>3, <2>5 DEF AccountPut
  <2>7. /\ Elsewhere(db, e) /\ Slot(e, "freeze", a) = None /\ Slot(e, "revoke_access", a) = v
        /\ Moves(u, e, {"freeze", "revoke_access"}, a)
    BY <1>3, <2>6, AccountWritten
  <2>8. Moves(db, e, {"freeze", "revoke_access"}, a)
    BY <1>3, <2>7 DEF Moves, SameSlots
  <2> QED
    BY <1>3, <1>4, <2>1, <2>7, <2>8 DEF Imposes, Kinds, Targets
<1>7. PICK put, named : put = Put(0) /\ named = Put(newReportId)
  OBVIOUS
<1>8. PICK told : told = reported(put, named, "revoke_access", a)
  OBVIOUS
<1>9. processAdminSecurityGovernanceAction("revoke_admin_access", a, <<u>> \o told)
  BY <1>0, <1>1, <1>7, <1>8 DEF revokeAccess
<1>10. SanctionRun(told)
  <2> HIDE DEF Put
  <2> QED
    BY <1>6, <1>7, <1>8, NewIdFacts, ReportedRun
<1>11. SanctionRun(<<u>> \o told)
  <2>1. PICK one : one = <<u>>
    OBVIOUS
  <2>2. one \in Seq(Contents(one)) /\ Contents(one) = {u}
    BY <2>1, Contents1
  <2>3. /\ IsRun(one \o told) /\ Ending(one \o told) = Ending(told)
        /\ Earlier(one \o told) \subseteq Contents(one) \union Earlier(told)
    BY <1>10, <2>2, JoinRuns DEF SanctionRun
  <2>4. SanctionRun(one \o told)
    BY <1>3, <1>5, <1>10, <2>2, <2>3 DEF SanctionRun
  <2> QED
    BY <2>1, <2>4
<1> QED
  BY <1>9, <1>11, GovernanceRuns

(* The sanctions of operators and of users.                                *)
LEMMA OperatorOutcome ==
  ASSUME Shape(db), SanctionInv(db), NEW a \in Actors, revokeOperator(a) \/ restoreOperator(a)
  PROVE  Outcome /\ now' = now
<1>1. db.revokedOperator[a] = Slot(db, "operator_revoke", a)
  BY SlotValues
<1>2. CASE revokeOperator(a)
  <2> DEFINE Put(id) == [db EXCEPT !.revokedOperator[a] = id]
  <2>1. ASSUME NEW id \in Ids, NEW e, e = Put(id)
        PROVE  /\ Elsewhere(db, e) /\ e.reports = Resolve(db.reports, 0)
               /\ Imposes(db, e, {"operator_revoke"}, "operator_revoke", a, 0, id)
    <3>1. /\ Elsewhere(db, e) /\ e.reports = db.reports /\ Slot(e, "operator_revoke", a) = id
          /\ Moves(db, e, {"operator_revoke"}, a)
      BY <2>1, OperatorWritten
    <3>2. e.reports = Resolve(db.reports, 0)
      BY <3>1, NewIdFacts, ResolveNothing
    <3>3. db.revokedOperator[a] = None
      BY <1>2 DEF revokeOperator
    <3> QED
      BY <1>1, <3>1, <3>2, <3>3 DEF Imposes, Kinds, Targets
  <2>2. PICK put, named : put = Put(0) /\ named = Put(newReportId)
    OBVIOUS
  <2>3. processAdminSecurityGovernanceAction("revoke_operator", a, reported(put, named, "operator_revoke", a))
    BY <1>2, <2>2 DEF revokeOperator
  <2> HIDE DEF Put
  <2>4. SanctionRun(reported(put, named, "operator_revoke", a))
    BY <2>1, <2>2, NewIdFacts, ReportedRun
  <2> QED
    BY <2>3, <2>4, GovernanceRuns
<1>3. CASE restoreOperator(a)
  <2>1. PICK d : d = [db EXCEPT !.revokedOperator[a] = None]
    OBVIOUS
  <2>2. /\ Elsewhere(db, d) /\ d.reports = db.reports /\ Slot(d, "operator_revoke", a) = None
        /\ Moves(db, d, {"operator_revoke"}, a)
    BY <2>1, NewIdFacts, OperatorWritten
  <2>3. Lifts(db, d, {"operator_revoke"}, "operator_revoke", a)
    BY <2>2 DEF Lifts, Kinds, Targets
  <2>4. SanctionRun(lifted(d, db.revokedOperator[a]))
    BY <1>1, <2>2, <2>3, LiftedRun
  <2> QED
    BY <1>3, <2>1, <2>4, GovernanceRuns DEF restoreOperator
<1> QED
  BY <1>2, <1>3

LEMMA FreezeUserOutcome ==
  ASSUME Shape(db), SanctionInv(db), NEW u \in Users, freezeUser(u)
  PROVE  Outcome /\ now' = now
<1> DEFINE Put(id) == [db EXCEPT !.user[u].frozen = id]
<1>1. db.user[u].frozen = None /\ db.user[u].deleted = None
  BY DEF freezeUser, notModerated
<1>2. Slot(db, "user_freeze", u) = None /\ Slot(db, "user_delete", u) = None
  BY <1>1, SlotValues
<1>3. ASSUME NEW id \in Ids, NEW e, e = Put(id)
      PROVE  /\ Elsewhere(db, e) /\ e.reports = Resolve(db.reports, 0)
             /\ Imposes(db, e, {"user_freeze"}, "user_freeze", u, 0, id)
  <2>1. /\ Stored(e) /\ e.revokedOperator = db.revokedOperator /\ e.security = db.security
        /\ e.governance = db.governance /\ e.code = db.code /\ e.invite = db.invite
        /\ e.event = db.event /\ e.owner = db.owner /\ e.reports = db.reports
    BY <1>3 DEF Shape, Stored, Fields
  <2>2. /\ e.user \in [Users -> [frozen : Ids, deleted : Ids]] /\ e.user[u].frozen = id
        /\ e.user[u].deleted = db.user[u].deleted /\ \A v \in Users : v # u => e.user[v] = db.user[v]
    BY <1>3 DEF Shape, Stored, Fields
  <2>3. UserPut(db, e, u, id, db.user[u].deleted)
    BY <2>1, <2>2 DEF UserPut
  <2>4. Elsewhere(db, e) /\ Slot(e, "user_freeze", u) = id /\ Moves(db, e, {"user_freeze"}, u)
    BY <2>3, UserWritten
  <2>5. e.reports = Resolve(db.reports, 0)
    BY <2>1, NewIdFacts, ResolveNothing
  <2> QED
    BY <1>2, <2>4, <2>5 DEF Imposes, Kinds, Targets
<1>4. PICK put, named : put = Put(0) /\ named = Put(newReportId)
  OBVIOUS
<1>5. processAdminSecurityGovernanceAction("freeze_user", u, reported(put, named, "user_freeze", u))
  BY <1>4 DEF freezeUser
<1> HIDE DEF Put
<1>6. SanctionRun(reported(put, named, "user_freeze", u))
  BY <1>3, <1>4, NewIdFacts, ReportedRun
<1> QED
  BY <1>5, <1>6, GovernanceRuns

LEMMA UnfreezeUserOutcome ==
  ASSUME Shape(db), SanctionInv(db), NEW u \in Users, unfreezeUser(u)
  PROVE  Outcome /\ now' = now
<1>1. PICK d : d = [db EXCEPT !.user[u].frozen = None]
  OBVIOUS
<1>2. /\ Stored(d) /\ d.revokedOperator = db.revokedOperator /\ d.security = db.security
      /\ d.governance = db.governance /\ d.code = db.code /\ d.invite = db.invite
      /\ d.event = db.event /\ d.owner = db.owner /\ d.reports = db.reports
  BY <1>1 DEF Shape, Stored, Fields
<1>3. /\ d.user \in [Users -> [frozen : Ids, deleted : Ids]] /\ d.user[u].frozen = None
      /\ d.user[u].deleted = db.user[u].deleted /\ \A v \in Users : v # u => d.user[v] = db.user[v]
  BY <1>1, NewIdFacts DEF Shape, Stored, Fields
<1>4. UserPut(db, d, u, None, db.user[u].deleted)
  BY <1>2, <1>3 DEF UserPut
<1>5. Elsewhere(db, d) /\ Slot(d, "user_freeze", u) = None /\ Moves(db, d, {"user_freeze"}, u)
  BY <1>4, UserWritten
<1>6. Lifts(db, d, {"user_freeze"}, "user_freeze", u)
  BY <1>5 DEF Lifts, Kinds, Targets
<1>7. db.user[u].frozen = Slot(db, "user_freeze", u)
  BY SlotValues
<1>8. SanctionRun(lifted(d, db.user[u].frozen))
  BY <1>2, <1>5, <1>6, <1>7, LiftedRun
<1> QED
  BY <1>1, <1>8, GovernanceRuns DEF unfreezeUser

LEMMA DeleteUserOutcome ==
  ASSUME Shape(db), SanctionInv(db), NEW u \in Users, deleteUser(u)
  PROVE  Outcome /\ now' = now
<1> DEFINE Put(id) == [db EXCEPT !.user[u] = [frozen |-> id, deleted |-> id]]
<1>1. db.user[u].deleted = None
  BY DEF deleteUser
<1>2. Slot(db, "user_delete", u) = None
  BY <1>1, SlotValues
<1>3. ASSUME NEW id \in Ids, NEW e, e = Put(id)
      PROVE  /\ Elsewhere(db, e) /\ e.reports = Resolve(db.reports, 0)
             /\ Imposes(db, e, {"user_freeze", "user_delete"}, "user_delete", u, 0, id)
  <2>1. /\ Stored(e) /\ e.revokedOperator = db.revokedOperator /\ e.security = db.security
        /\ e.governance = db.governance /\ e.code = db.code /\ e.invite = db.invite
        /\ e.event = db.event /\ e.owner = db.owner /\ e.reports = db.reports
    BY <1>3 DEF Shape, Stored, Fields
  <2>2. /\ e.user \in [Users -> [frozen : Ids, deleted : Ids]] /\ e.user[u].frozen = id
        /\ e.user[u].deleted = id /\ \A v \in Users : v # u => e.user[v] = db.user[v]
    BY <1>3 DEF Shape, Stored, Fields
  <2>3. UserPut(db, e, u, id, id)
    BY <2>1, <2>2 DEF UserPut
  <2>4. /\ Elsewhere(db, e) /\ Slot(e, "user_freeze", u) = id /\ Slot(e, "user_delete", u) = id
        /\ Moves(db, e, {"user_freeze", "user_delete"}, u)
    BY <2>3, UserWritten
  <2>5. e.reports = Resolve(db.reports, 0)
    BY <2>1, NewIdFacts, ResolveNothing
  <2> QED
    BY <1>2, <2>4, <2>5 DEF Imposes, Kinds, Targets
<1>4. PICK put, named : put = Put(0) /\ named = Put(newReportId)
  OBVIOUS
<1>5. processAdminSecurityGovernanceAction("delete_user", u, reported(put, named, "user_delete", u))
  BY <1>4 DEF deleteUser
<1> HIDE DEF Put
<1>6. SanctionRun(reported(put, named, "user_delete", u))
  BY <1>3, <1>4, NewIdFacts, ReportedRun
<1> QED
  BY <1>5, <1>6, GovernanceRuns

LEMMA RestoreUserOutcome ==
  ASSUME Shape(db), SanctionInv(db), NEW u \in Users, restoreUser(u)
  PROVE  Outcome /\ now' = now
<1>1. PICK d : d = [db EXCEPT !.user[u] = notModerated]
  OBVIOUS
<1>2. /\ Stored(d) /\ d.revokedOperator = db.revokedOperator /\ d.security = db.security
      /\ d.governance = db.governance /\ d.code = db.code /\ d.invite = db.invite
      /\ d.event = db.event /\ d.owner = db.owner /\ d.reports = db.reports
  BY <1>1 DEF Shape, Stored, Fields
<1>3. /\ d.user \in [Users -> [frozen : Ids, deleted : Ids]] /\ d.user[u].frozen = None
      /\ d.user[u].deleted = None /\ \A v \in Users : v # u => d.user[v] = db.user[v]
  BY <1>1, NewIdFacts DEF Shape, Stored, Fields, notModerated
<1>4. UserPut(db, d, u, None, None)
  BY <1>2, <1>3 DEF UserPut
<1>5. /\ Elsewhere(db, d) /\ Slot(d, "user_freeze", u) = None /\ Slot(d, "user_delete", u) = None
      /\ Moves(db, d, {"user_freeze", "user_delete"}, u)
  BY <1>4, UserWritten
<1>6. db.user[u].deleted = Slot(db, "user_delete", u) /\ Slot(db, "user_delete", u) # None
  BY SlotValues DEF restoreUser
<1>7. Lifts(db, d, {"user_freeze", "user_delete"}, "user_delete", u)
  BY <1>5, <1>6 DEF Lifts, Kinds, Targets, SanctionInv
<1>8. SanctionRun(lifted(d, db.user[u].deleted))
  BY <1>2, <1>5, <1>6, <1>7, LiftedRun
<1> QED
  BY <1>1, <1>8, GovernanceRuns DEF restoreUser

-----------------------------------------------------------------------------
(* What is not about sanctions.                                            *)
SameRecords(d, e) ==
  /\ e.reports = d.reports /\ e.security = d.security /\ e.revokedOperator = d.revokedOperator
  /\ e.user = d.user /\ e.governance = d.governance

LEMMA RecordsClean ==
  ASSUME NEW d, NEW e, SanctionInv(d), SameRecords(d, e)
  PROVE  /\ SanctionInv(e) /\ Clean(d, e) /\ e.governance = d.governance
         /\ Strays(e) \subseteq Strays(d) /\ Unaccounted(e) \subseteq Unaccounted(d)
<1>1. SameSanctions(d, e)
  BY SameFields DEF SameRecords
<1>2. Clean(d, e)
  BY <1>1, SameSanctionsClean
<1> QED
  BY <1>2 DEF Clean, SameRecords

LEMMA SettledSelf == ASSUME NEW d, Shape(d), SanctionInv(d) PROVE Settled(d, d)
BY DEF Settled, Clean

LEMMA SettledTrans ==
  ASSUME NEW d, NEW e, NEW f, Settled(d, e), Settled(e, f) PROVE Settled(d, f)
BY DEF Settled, Clean

LEMMA SettledHalfway ==
  ASSUME NEW d, NEW e, NEW f, Settled(d, e), Halfway(e, f) PROVE Halfway(d, f)
<1>1. /\ Strays(e) \subseteq Strays(d) /\ Unaccounted(e) \subseteq Unaccounted(d)
      /\ e.governance \subseteq d.governance /\ LooseCodes(e) \subseteq LooseCodes(d)
      /\ LooseEvents(e) \subseteq LooseEvents(d)
  BY DEF Settled, Clean
<1>2. ASSUME NEW A, NEW B, NEW C, A \subseteq B, More(A, C) PROVE More(B, C)
  BY <1>2 DEF More
<1>3. ASSUME NEW A, NEW B, NEW C, A \subseteq B, C \subseteq A PROVE C \subseteq B
  BY <1>3
<1>4. More(Unaccounted(d), Unaccounted(f)) /\ More(d.governance, f.governance)
  BY <1>1, <1>2 DEF Halfway
<1>5. \/ /\ More(Strays(d), Strays(f))
         /\ LooseCodes(f) \subseteq LooseCodes(d) /\ LooseEvents(f) \subseteq LooseEvents(d)
      \/ /\ More(LooseCodes(d), LooseCodes(f))
         /\ Strays(f) \subseteq Strays(d) /\ LooseEvents(f) \subseteq LooseEvents(d)
      \/ /\ More(LooseEvents(d), LooseEvents(f))
         /\ Strays(f) \subseteq Strays(d) /\ LooseCodes(f) \subseteq LooseCodes(d)
  BY <1>1, <1>2, <1>3 DEF Halfway
<1> QED
  BY <1>4, <1>5 DEF Halfway

(* The contents of a run from any storage.                                 *)
RunsFrom(d, s) == IsRun(s) /\ Settled(d, Ending(s)) /\ \A e \in Earlier(s) : Halfway(d, e)

LEMMA RunsFromSettled ==
  ASSUME NEW d, Settled(db, d), NEW s, RunsFrom(d, s) PROVE Runs(s)
BY SettledTrans, SettledHalfway DEF Runs, RunsFrom

LEMMA RunsFromNext ==
  ASSUME NEW d, Settled(db, d), NEW s, RunsFrom(d, s) PROVE Runs(<<d>> \o s)
<1>1. PICK one : one = <<d>>
  OBVIOUS
<1>2. one \in Seq(Contents(one)) /\ \A e \in Contents(one) : Halfway(db, e)
  BY <1>1, Contents1, SettledIsHalfway
<1>3. Runs(s)
  BY RunsFromSettled
<1> QED
  BY <1>1, <1>2, <1>3, JoinHalfway

-----------------------------------------------------------------------------
(* Invites.                                                                *)
LEMMA ApproveRun ==
  ASSUME NEW d, Shape(d), SanctionInv(d), NEW p \in InviteIds, NEW c \in Codes,
         d.code[c] = "none", d.invite[p].code = None
  PROVE  RunsFrom(d, approveAdminInviteProposal(d, p, c))
<1>1. CASE approveAdminInviteProposal(d, p, c) = <<d>>
  BY <1>1, Run1, SettledSelf DEF RunsFrom
<1>2. CASE approveAdminInviteProposal(d, p, c) # <<d>>
  <2>1. PICK counted, coded, issued :
          /\ counted = [d EXCEPT !.inviteLimit = enforceAdminInviteIssueLimit]
          /\ coded = [counted EXCEPT !.code[c] = "active"]
          /\ issued = [coded EXCEPT !.invite[p] = [status |-> "issued", code |-> c]]
    OBVIOUS
  <2>2. approveAdminInviteProposal(d, p, c) = <<counted, coded, issued>>
    BY <1>2, <2>1 DEF approveAdminInviteProposal
  <2>3. /\ Stored(counted) /\ SameRecords(d, counted) /\ counted.code = d.code
        /\ counted.invite = d.invite /\ counted.event = d.event /\ counted.owner = d.owner
    BY <2>1 DEF Shape, Stored, Fields, SameRecords
  <2>4. /\ Stored(coded) /\ SameRecords(d, coded) /\ coded.code = [d.code EXCEPT ![c] = "active"]
        /\ coded.invite = d.invite /\ coded.event = d.event /\ coded.owner = d.owner
    BY <2>1, <2>3 DEF Stored, Fields, SameRecords
  <2>5. /\ Stored(issued) /\ SameRecords(d, issued) /\ issued.code = [d.code EXCEPT ![c] = "active"]
        /\ issued.invite = [d.invite EXCEPT ![p] = [status |-> "issued", code |-> c]]
        /\ issued.event = d.event /\ issued.owner = d.owner
    BY <2>1, <2>4, ZenonT(60) DEF Stored, Fields, SameRecords
  <2>6. Settled(d, counted)
    <3>1. Shape(counted)
      BY <2>3 DEF Shape, SameRecords
    <3> QED
      BY <2>3, <3>1, RecordsClean DEF Settled, LooseCodes, LooseEvents
  <2>7. Halfway(d, coded)
    <3>1. Shape(coded)
      BY <2>4 DEF Shape, SameRecords
    <3>2. LooseCodes(coded) \subseteq LooseCodes(d) \union {c} /\ LooseEvents(coded) = LooseEvents(d)
      BY <2>4 DEF LooseCodes, LooseEvents, Shape
    <3> QED
      BY <2>4, <3>1, <3>2, RecordsClean DEF Halfway, More
  <2>8. Settled(d, issued)
    <3>0. PICK v : v = [status |-> "issued", code |-> c]
      OBVIOUS
    <3>a. v \in [status : Statuses, code : Codes \union {None}] /\ v.code = c /\ v.status = "issued"
      BY <3>0 DEF Statuses
    <3>b. issued.invite = [d.invite EXCEPT ![p] = v]
      BY <2>5, <3>0
    <3>1. issued.invite \in [InviteIds -> [status : Statuses, code : Codes \union {None}]]
      BY <3>a, <3>b DEF Shape
    <3>2. issued.invite[p].code = c /\ issued.invite[p].status = "issued"
          /\ \A q \in InviteIds : q # p => issued.invite[q] = d.invite[q]
      BY <3>a, <3>b DEF Shape
    <3>3. Shape(issued)
      BY <2>5, <3>1, <3>2 DEF Shape, SameRecords
    <3>4. LooseCodes(issued) \subseteq LooseCodes(d)
      <4> SUFFICES ASSUME NEW k \in LooseCodes(issued) PROVE k \in LooseCodes(d)
        OBVIOUS
      <4>1. k \in Codes /\ issued.code[k] \in {"active", "revoked"}
            /\ \A q \in InviteIds : issued.invite[q].code # k
        BY DEF LooseCodes
      <4>2. k # c /\ k # None
        BY <3>2, <4>1, ConsoleAssumption
      <4>3. d.code[k] \in {"active", "revoked"}
        BY <2>5, <4>1, <4>2 DEF Shape
      <4>4. \A q \in InviteIds : d.invite[q].code # k
        BY <3>2, <4>1, <4>2
      <4> QED
        BY <4>1, <4>3, <4>4 DEF LooseCodes
    <3>5. LooseEvents(issued) = LooseEvents(d)
      BY <2>5 DEF LooseEvents
    <3> QED
      BY <2>5, <3>3, <3>4, <3>5, RecordsClean DEF Settled
  <2>9. Halfway(d, counted)
    BY <2>6, SettledIsHalfway
  <2> QED
    BY <2>2, <2>7, <2>8, <2>9, Run3 DEF RunsFrom
<1> QED
  BY <1>1, <1>2

(* A proposal whose status alone changes.                                  *)
StatusPut(d, p, v) == d = [db EXCEPT !.invite[p].status = v]

LEMMA StatusSettled ==
  ASSUME Shape(db), SanctionInv(db), NEW p \in InviteIds, db.invite[p].code = None, NEW v \in Statuses,
         v # "issued", NEW d, StatusPut(d, p, v)
  PROVE  Settled(db, d) /\ d.invite[p].code = None /\ d.code = db.code
<1>1. /\ Stored(d) /\ SameRecords(db, d) /\ d.code = db.code /\ d.event = db.event /\ d.owner = db.owner
      /\ d.invite = [db.invite EXCEPT ![p].status = v]
  BY DEF StatusPut, Shape, Stored, Fields, SameRecords
<1>2. /\ d.invite \in [InviteIds -> [status : Statuses, code : Codes \union {None}]]
      /\ d.invite[p].status = v /\ \A q \in InviteIds : d.invite[q].code = db.invite[q].code
      /\ \A q \in InviteIds : q # p => d.invite[q] = db.invite[q]
  BY <1>1 DEF Shape
<1>3. Shape(d)
  BY <1>1, <1>2 DEF Shape, SameRecords
<1>4. LooseCodes(d) = LooseCodes(db) /\ LooseEvents(d) = LooseEvents(db)
  BY <1>1, <1>2 DEF LooseCodes, LooseEvents
<1> QED
  BY <1>1, <1>2, <1>3, <1>4, RecordsClean DEF Settled

LEMMA InviteDebts ==
  ASSUME Shape(db), SanctionInv(db), NEW p \in InviteIds, NEW c \in Codes, invite(p, c)
  PROVE  Outcome /\ now' = now
<1>1. PICK d : d = [db EXCEPT !.invite[p].status = "pending"]
  OBVIOUS
<1>2. db.invite[p].status = "none" /\ db.code[c] = "none"
      /\ Handler(<<d>> \o approveAdminInviteProposal(d, p, c), waiting)
  BY <1>1 DEF invite
<1>3. db.invite[p].code = None
  BY <1>2 DEF Shape
<1>4. Settled(db, d) /\ d.invite[p].code = None /\ d.code = db.code
  <2>1. StatusPut(d, p, "pending")
    BY <1>1 DEF StatusPut
  <2> QED
    BY <1>3, <2>1, StatusSettled DEF Statuses
<1>5. RunsFrom(d, approveAdminInviteProposal(d, p, c))
  BY <1>2, <1>4, ApproveRun DEF Settled, Clean
<1>6. Runs(<<d>> \o approveAdminInviteProposal(d, p, c))
  BY <1>4, <1>5, RunsFromNext
<1> QED
  BY <1>2, <1>6, RunsHandler

LEMMA ApproveDebts ==
  ASSUME Shape(db), SanctionInv(db), NEW p \in InviteIds, NEW c \in Codes, approveInvite(p, c)
  PROVE  Outcome /\ now' = now
<1>1. db.invite[p].status = "pending" /\ db.code[c] = "none"
      /\ Handler(approveAdminInviteProposal(db, p, c), waiting)
  BY DEF approveInvite
<1>2. db.invite[p].code = None
  BY <1>1 DEF Shape
<1>3. Runs(approveAdminInviteProposal(db, p, c))
  BY <1>1, <1>2, ApproveRun, SettledSelf, RunsFromSettled
<1> QED
  BY <1>1, <1>3, RunsHandler

LEMMA OneContent ==
  ASSUME NEW d, Settled(db, d), NEW left, Handler(<<d>>, left) PROVE Outcome /\ now' = now
<1>1. Runs(<<d>>)
  BY Run1 DEF Runs
<1> QED
  BY <1>1, RunsHandler

LEMMA RejectDebts ==
  ASSUME Shape(db), SanctionInv(db), NEW p \in InviteIds, rejectInvite(p)
  PROVE  Outcome /\ now' = now
<1>1. PICK d : d = [db EXCEPT !.invite[p].status = "cancelled"]
  OBVIOUS
<1>2. db.invite[p].status = "pending" /\ Handler(<<d>>, waiting)
  BY <1>1 DEF rejectInvite, rejectAdminInviteProposal
<1>3. db.invite[p].code = None
  BY <1>2 DEF Shape
<1>4. Settled(db, d)
  <2>1. StatusPut(d, p, "cancelled")
    BY <1>1 DEF StatusPut
  <2> QED
    BY <1>3, <2>1, StatusSettled DEF Statuses
<1> QED
  BY <1>2, <1>4, OneContent

LEMMA RevokeCodeDebts ==
  ASSUME Shape(db), SanctionInv(db), NEW c \in Codes, revokeCode(c)
  PROVE  Outcome /\ now' = now
<1>1. PICK d : d = [db EXCEPT !.code[c] = "revoked"]
  OBVIOUS
<1>2. db.code[c] = "active" /\ Handler(<<d>>, waiting)
  BY <1>1 DEF revokeCode
<1>3. /\ Stored(d) /\ SameRecords(db, d) /\ d.invite = db.invite /\ d.event = db.event /\ d.owner = db.owner
      /\ d.code = [db.code EXCEPT ![c] = "revoked"]
  BY <1>1 DEF Shape, Stored, Fields, SameRecords
<1>4. Shape(d)
  BY <1>3 DEF Shape, SameRecords
<1>5. LooseCodes(d) \subseteq LooseCodes(db) /\ LooseEvents(d) = LooseEvents(db)
  BY <1>2, <1>3 DEF LooseCodes, LooseEvents, Shape
<1>6. Settled(db, d)
  BY <1>3, <1>4, <1>5, RecordsClean DEF Settled
<1> QED
  BY <1>2, <1>6, OneContent

-----------------------------------------------------------------------------
(* Events.                                                                 *)
WarningOnly(s, a) ==
  s \in Accounts /\ s.frozen = db.security[a].frozen /\ s.revokedAccess = db.security[a].revokedAccess

LEMMA WarningSettled ==
  ASSUME Shape(db), SanctionInv(db), NEW a \in Actors, NEW s, WarningOnly(s, a)
  PROVE  Settled(db, putSecurity(db, a, s))
<1>1. PICK d : d = putSecurity(db, a, s)
  OBVIOUS
<1>2. /\ Stored(d) /\ d.revokedOperator = db.revokedOperator /\ d.user = db.user
      /\ d.governance = db.governance /\ d.code = db.code /\ d.invite = db.invite
      /\ d.event = db.event /\ d.owner = db.owner /\ d.reports = db.reports
      /\ d.security = [db.security EXCEPT ![a] = s]
  BY <1>1 DEF putSecurity, Shape, Stored, Fields
<1>3. /\ d.security \in [Actors -> Accounts]
      /\ \A b \in Actors : /\ d.security[b].frozen = db.security[b].frozen
                           /\ d.security[b].revokedAccess = db.security[b].revokedAccess
  BY <1>2 DEF Shape, WarningOnly
<1>4. Elsewhere(db, d)
  BY <1>2, <1>3 DEF Elsewhere, Shape
<1>5. SameSanctions(db, d)
  BY <1>2, <1>3 DEF SameSanctions, Slot, Kinds, Targets
<1> QED
  BY <1>1, <1>4, <1>5, SameSanctionsClean, ElsewhereClean

LEMMA WarningWritten ==
  ASSUME Shape(db), NEW a \in Actors, NEW s, WarningOnly(s, a), NEW w \in Ids
  PROVE  WarningOnly([s EXCEPT !.warning = w], a)
BY DEF WarningOnly, Accounts

LEMMA AccountItself ==
  ASSUME Shape(db), NEW a \in Actors PROVE WarningOnly(db.security[a], a)
BY DEF WarningOnly, Shape

LEMMA StoreRun ==
  ASSUME NEW d, Shape(d), SanctionInv(d), NEW a \in Actors, NEW config, now \in Times
  PROVE  RunsFrom(d, storeEvent(d, a, config))
<1>1. PICK limited, stored, owned :
        /\ limited = [d EXCEPT !.eventLimit[a] = enforceAdminEventIssueLimit(a)]
        /\ stored = [limited EXCEPT !.event[now] = [state |-> "published", config |-> config],
                                    !.made = Append(@, [by |-> a, at |-> now])]
        /\ owned = [stored EXCEPT !.owner[now] = a]
  OBVIOUS
<1>2. storeEvent(d, a, config) = <<limited, stored, owned>>
  BY <1>1 DEF storeEvent
<1>3. /\ Stored(limited) /\ SameRecords(d, limited) /\ limited.code = d.code
      /\ limited.invite = d.invite /\ limited.event = d.event /\ limited.owner = d.owner
  BY <1>1 DEF Shape, Stored, Fields, SameRecords
<1>4. PICK made : made = [state |-> "published", config |-> config]
  OBVIOUS
<1>5. /\ Stored(stored) /\ SameRecords(d, stored) /\ stored.code = d.code
      /\ stored.invite = d.invite /\ stored.event = [d.event EXCEPT ![now] = made] /\ stored.owner = d.owner
  <2>1. PICK m : m = Append(limited.made, [by |-> a, at |-> now])
    OBVIOUS
  <2>2. stored = [limited EXCEPT !.event[now] = made, !.made = m]
    BY <1>1, <1>4, <2>1
  <2> QED
    BY <1>3, <2>2 DEF Stored, Fields, SameRecords
<1>6. /\ Stored(owned) /\ SameRecords(d, owned) /\ owned.code = d.code
      /\ owned.invite = d.invite /\ owned.event = [d.event EXCEPT ![now] = made]
      /\ owned.owner = [d.owner EXCEPT ![now] = a]
  <2>1. owned = [stored EXCEPT !.owner[now] = a]
    BY <1>1
  <2>2. Stored(owned) /\ SameRecords(stored, owned) /\ owned.code = stored.code
        /\ owned.invite = stored.invite /\ owned.event = stored.event
        /\ owned.owner = [stored.owner EXCEPT ![now] = a]
    <3>1. Stored(stored)
      BY <1>5
    <3> QED
      BY <2>1, <3>1 DEF Stored, Fields, SameRecords
  <2> QED
    BY <1>5, <2>2 DEF SameRecords
<1>7. Halfway(d, limited)
  <2>1. Shape(limited)
    BY <1>3 DEF Shape, SameRecords
  <2>2. Settled(d, limited)
    BY <1>3, <2>1, RecordsClean DEF Settled, LooseCodes, LooseEvents
  <2> QED
    BY <2>2, SettledIsHalfway
<1>8. Halfway(d, stored)
  <2>1. Shape(stored)
    BY <1>5 DEF Shape, SameRecords
  <2>2. LooseEvents(stored) \subseteq LooseEvents(d) \union {now} /\ LooseCodes(stored) = LooseCodes(d)
    BY <1>5 DEF LooseCodes, LooseEvents, Shape
  <2> QED
    BY <1>5, <2>1, <2>2, RecordsClean DEF Halfway, More
<1>9. Settled(d, owned)
  <2>1. Shape(owned)
    BY <1>6 DEF Shape, SameRecords
  <2>2. a # None
    BY ConsoleAssumption DEF Actors
  <2>3. LooseEvents(owned) \subseteq LooseEvents(d) /\ LooseCodes(owned) = LooseCodes(d)
    BY <1>6, <2>2 DEF LooseCodes, LooseEvents, Shape
  <2> QED
    BY <1>6, <2>1, <2>3, RecordsClean DEF Settled
<1> QED
  BY <1>2, <1>7, <1>8, <1>9, Run3 DEF RunsFrom

LEMMA CreateDebts ==
  ASSUME Shape(db), SanctionInv(db), now \in Times, NEW a \in Actors, NEW override, NEW signals, NEW config,
         createEvent(a, override, signals, config)
  PROVE  Outcome /\ now' = now
<1>1. PICK expired : expired = warningExpired(db.security[a])
  OBVIOUS
<1>2. PICK s : s = IF expired THEN [db.security[a] EXCEPT !.warning = None] ELSE db.security[a]
  OBVIOUS
<1>3. PICK swept : swept = IF expired THEN <<putSecurity(db, a, s)>> ELSE <<>>
  OBVIOUS
<1>4. PICK t : t = [s EXCEPT !.warning = IF signals THEN now ELSE @]
  OBVIOUS
<1>5. PICK noted : noted = putSecurity(db, a, t)
  OBVIOUS
<1>6. now \in Ids /\ None \in Ids
  BY ConsoleAssumption DEF Times, Ids
<1>7. WarningOnly(s, a)
  BY <1>2, <1>6, AccountItself, WarningWritten
<1>8. WarningOnly(t, a)
  <2>1. (IF signals THEN now ELSE s.warning) \in Ids
    BY <1>6, <1>7 DEF WarningOnly, Accounts
  <2>2. t = [s EXCEPT !.warning = IF signals THEN now ELSE s.warning]
    BY <1>4
  <2> QED
    BY <1>7, <2>1, <2>2, WarningWritten
<1>9. Settled(db, putSecurity(db, a, s)) /\ Settled(db, noted)
  BY <1>5, <1>7, <1>8, WarningSettled
<1>10. swept \in Seq(Contents(swept)) /\ \A e \in Contents(swept) : Halfway(db, e)
  <2>1. CASE expired
    BY <1>3, <1>9, <2>1, Contents1, SettledIsHalfway
  <2>2. CASE ~expired
    BY <1>3, <2>2 DEF Contents
  <2> QED
    BY <2>1, <2>2
<1>11. \/ enforceAdminSecurityOperation(a) /\ Handler(swept \o freezeAdmin(putSecurity(db, a, s), a), waiting \ {a})
       \/ Handler(<<db>>, waiting \ {a})
       \/ Handler(swept \o <<noted>>, waiting \ {a})
       \/ Handler(swept \o <<noted>> \o storeEvent(noted, a, config), waiting \ {a})
  BY <1>1, <1>2, <1>3, <1>4, <1>5 DEF createEvent
<1>12. CASE Handler(<<db>>, waiting \ {a})
  BY <1>12, SettledSelf, OneContent
<1>13. CASE enforceAdminSecurityOperation(a)
            /\ Handler(swept \o freezeAdmin(putSecurity(db, a, s), a), waiting \ {a})
  <2>1. SanctionRun(freezeAdmin(putSecurity(db, a, s), a))
    BY <1>7, <1>13, FreezeRun DEF WarningOnly, enforceAdminSecurityOperation
  <2>2. Runs(freezeAdmin(putSecurity(db, a, s), a))
    BY <2>1, SanctionRunRuns
  <2>3. Runs(swept \o freezeAdmin(putSecurity(db, a, s), a))
    BY <1>10, <2>2, JoinHalfway
  <2> QED
    BY <1>13, <2>3, RunsHandler
<1>14. Runs(<<noted>>)
  BY <1>9, Run1 DEF Runs
<1>15. Runs(swept \o <<noted>>)
  BY <1>10, <1>14, JoinHalfway
<1>16. CASE Handler(swept \o <<noted>>, waiting \ {a})
  BY <1>15, <1>16, RunsHandler
<1>17. CASE Handler(swept \o <<noted>> \o storeEvent(noted, a, config), waiting \ {a})
  <2>1. PICK first : first = swept \o <<noted>>
    OBVIOUS
  <2>2. Runs(first)
    BY <1>15, <2>1
  <2>3. first \in Seq(Contents(first)) /\ \A e \in Contents(first) : Halfway(db, e)
    <3>1. first \in Seq(Contents(first)) /\ Len(first) \in Nat /\ Len(first) > 0
          /\ DOMAIN first = 1..Len(first)
      BY <2>2 DEF Runs, IsRun
    <3>2. Halfway(db, first[Len(first)])
      BY <2>2, SettledIsHalfway DEF Runs, Ending
    <3>3. \A i \in 1..(Len(first) - 1) : Halfway(db, first[i])
      BY <2>2 DEF Runs, Earlier
    <3>4. \A i \in 1..Len(first) : Halfway(db, first[i])
      <4> SUFFICES ASSUME NEW i \in 1..Len(first) PROVE Halfway(db, first[i])
        OBVIOUS
      <4>1. ASSUME NEW n \in Nat, i \in 1..n PROVE i = n \/ i \in 1..(n - 1)
        BY <4>1
      <4>2. i = Len(first) \/ i \in 1..(Len(first) - 1)
        BY <3>1, <4>1
      <4> QED
        BY <3>2, <3>3, <4>2
    <3> QED
      BY <3>1, <3>4 DEF Contents
  <2>4. Shape(noted) /\ SanctionInv(noted)
    BY <1>9 DEF Settled, Clean
  <2>5. Runs(storeEvent(noted, a, config))
    BY <1>9, <2>4, StoreRun, RunsFromSettled
  <2>6. Runs(first \o storeEvent(noted, a, config))
    BY <2>3, <2>5, JoinHalfway
  <2> QED
    BY <1>17, <2>1, <2>6, RunsHandler
<1> QED
  BY <1>11, <1>12, <1>13, <1>16, <1>17

LEMMA CloseDebts ==
  ASSUME Shape(db), SanctionInv(db), NEW a \in Actors, NEW t \in Times, closeEvent(a, t)
  PROVE  Outcome /\ now' = now
<1>1. PICK s : s = [db.security[a] EXCEPT !.warning = None]
  OBVIOUS
<1>2. PICK swept : swept = IF warningExpired(db.security[a]) THEN putSecurity(db, a, s) ELSE db
  OBVIOUS
<1>3. PICK closed : closed = [swept EXCEPT !.event[t].state = "ended"]
  OBVIOUS
<1>4. db.event[t] # None /\ Handler(<<swept, closed>>, waiting)
  BY <1>1, <1>2, <1>3 DEF closeEvent
<1>5. WarningOnly(s, a)
  BY <1>1, AccountItself, WarningWritten DEF Ids
<1>6. Settled(db, swept) /\ swept.event = db.event
  <2>1. Settled(db, putSecurity(db, a, s)) /\ Settled(db, db)
    BY <1>5, WarningSettled, SettledSelf
  <2>2. putSecurity(db, a, s).event = db.event
    BY DEF putSecurity, Shape, Stored, Fields
  <2> QED
    BY <1>2, <2>1, <2>2
<1>7. /\ Stored(closed) /\ SameRecords(swept, closed) /\ closed.code = swept.code
      /\ closed.invite = swept.invite /\ closed.owner = swept.owner
      /\ closed.event = [swept.event EXCEPT ![t].state = "ended"]
  BY <1>3, <1>6 DEF Settled, Shape, Stored, Fields, SameRecords
<1>8. Shape(closed)
  BY <1>6, <1>7 DEF Settled, Shape, SameRecords
<1>9. LooseEvents(closed) \subseteq LooseEvents(swept) /\ LooseCodes(closed) = LooseCodes(swept)
  BY <1>4, <1>6, <1>7 DEF Settled, Shape, LooseEvents, LooseCodes
<1>10. Settled(swept, closed)
  BY <1>6, <1>7, <1>8, <1>9, RecordsClean DEF Settled, Clean
<1>11. Settled(db, closed) /\ Halfway(db, swept)
  BY <1>6, <1>10, SettledTrans, SettledIsHalfway
<1>12. Runs(<<swept, closed>>)
  BY <1>11, Run2 DEF Runs
<1> QED
  BY <1>4, <1>12, RunsHandler

-----------------------------------------------------------------------------
(* The debts, counted.                                                     *)
Bounded(d, n) ==
  /\ IsFiniteSet(LooseCodes(d)) /\ IsFiniteSet(Strays(d)) /\ IsFiniteSet(LooseEvents(d))
  /\ IsFiniteSet(Unaccounted(d)) /\ IsFiniteSet(d.governance)
  /\ Cardinality(LooseCodes(d)) + Cardinality(Strays(d)) + Cardinality(LooseEvents(d)) <= n
  /\ Cardinality(Unaccounted(d)) <= n /\ Cardinality(d.governance) <= n

(* A strengthening that is inductive.                                      *)
DebtInv ==
  /\ now \in Times /\ crashes \in Nat
  /\ Shape(db) /\ SanctionInv(db) /\ Bounded(db, crashes)

LEMMA FewCount ==
  ASSUME NEW A, NEW B, IsFiniteSet(A), B \subseteq A
  PROVE  /\ IsFiniteSet(B) /\ Cardinality(B) <= Cardinality(A)
         /\ Cardinality(A) \in Nat /\ Cardinality(B) \in Nat
BY FS_Subset, FS_CardinalityType

LEMMA MoreCount ==
  ASSUME NEW A, NEW B, IsFiniteSet(A), More(A, B)
  PROVE  /\ IsFiniteSet(B) /\ Cardinality(B) <= Cardinality(A) + 1
         /\ Cardinality(A) \in Nat /\ Cardinality(B) \in Nat
<1>1. PICK z : B \subseteq A \union {z}
  BY DEF More
<1>2. IsFiniteSet(A \union {z}) /\ Cardinality(A \union {z}) <= Cardinality(A) + 1
      /\ Cardinality(A) \in Nat
  BY FS_AddElement, FS_CardinalityType
<1>3. IsFiniteSet(B) /\ Cardinality(B) <= Cardinality(A \union {z})
      /\ Cardinality(A \union {z}) \in Nat /\ Cardinality(B) \in Nat
  BY <1>1, <1>2, FewCount
<1> QED
  BY <1>2, <1>3

(* A step that ends settles nothing new; a crash adds at most one debt.    *)
LEMMA OutcomeBounded ==
  ASSUME crashes \in Nat, Bounded(db, crashes), Outcome
  PROVE  crashes' \in Nat /\ Shape(db') /\ SanctionInv(db') /\ Bounded(db', crashes')
<1>1. CASE Settled(db, db') /\ crashes' = crashes
  <2>1. /\ LooseCodes(db') \subseteq LooseCodes(db) /\ Strays(db') \subseteq Strays(db)
        /\ LooseEvents(db') \subseteq LooseEvents(db) /\ Unaccounted(db') \subseteq Unaccounted(db)
        /\ db'.governance \subseteq db.governance
    BY <1>1 DEF Settled, Clean
  <2>2. /\ IsFiniteSet(LooseCodes(db')) /\ Cardinality(LooseCodes(db')) <= Cardinality(LooseCodes(db))
        /\ Cardinality(LooseCodes(db)) \in Nat /\ Cardinality(LooseCodes(db')) \in Nat
    BY <2>1, FewCount DEF Bounded
  <2>3. /\ IsFiniteSet(Strays(db')) /\ Cardinality(Strays(db')) <= Cardinality(Strays(db))
        /\ Cardinality(Strays(db)) \in Nat /\ Cardinality(Strays(db')) \in Nat
    BY <2>1, FewCount DEF Bounded
  <2>4. /\ IsFiniteSet(LooseEvents(db')) /\ Cardinality(LooseEvents(db')) <= Cardinality(LooseEvents(db))
        /\ Cardinality(LooseEvents(db)) \in Nat /\ Cardinality(LooseEvents(db')) \in Nat
    BY <2>1, FewCount DEF Bounded
  <2>5. /\ IsFiniteSet(Unaccounted(db')) /\ Cardinality(Unaccounted(db')) <= Cardinality(Unaccounted(db))
        /\ Cardinality(Unaccounted(db)) \in Nat /\ Cardinality(Unaccounted(db')) \in Nat
    BY <2>1, FewCount DEF Bounded
  <2>6. /\ IsFiniteSet(db'.governance) /\ Cardinality(db'.governance) <= Cardinality(db.governance)
        /\ Cardinality(db.governance) \in Nat /\ Cardinality(db'.governance) \in Nat
    BY <2>1, FewCount DEF Bounded
  <2>7. Bounded(db', crashes')
    BY <1>1, <2>2, <2>3, <2>4, <2>5, <2>6 DEF Bounded
  <2> QED
    BY <1>1, <2>7 DEF Settled, Clean
<1>2. CASE Halfway(db, db') /\ crashes' = crashes + 1
  <2>1. /\ IsFiniteSet(Unaccounted(db')) /\ Cardinality(Unaccounted(db')) <= Cardinality(Unaccounted(db)) + 1
        /\ Cardinality(Unaccounted(db)) \in Nat /\ Cardinality(Unaccounted(db')) \in Nat
    BY <1>2, MoreCount DEF Bounded, Halfway
  <2>2. /\ IsFiniteSet(db'.governance) /\ Cardinality(db'.governance) <= Cardinality(db.governance) + 1
        /\ Cardinality(db.governance) \in Nat /\ Cardinality(db'.governance) \in Nat
    BY <1>2, MoreCount DEF Bounded, Halfway
  <2> DEFINE Counted ==
        /\ IsFiniteSet(LooseCodes(db')) /\ IsFiniteSet(Strays(db')) /\ IsFiniteSet(LooseEvents(db'))
        /\ Cardinality(LooseCodes(db')) + Cardinality(Strays(db')) + Cardinality(LooseEvents(db')) <= crashes + 1
  <2>3. ASSUME More(Strays(db), Strays(db')),
               LooseCodes(db') \subseteq LooseCodes(db), LooseEvents(db') \subseteq LooseEvents(db)
        PROVE  Counted
    <3>1. /\ IsFiniteSet(Strays(db')) /\ Cardinality(Strays(db')) <= Cardinality(Strays(db)) + 1
          /\ Cardinality(Strays(db)) \in Nat /\ Cardinality(Strays(db')) \in Nat
      BY <2>3, MoreCount DEF Bounded
    <3>2. /\ IsFiniteSet(LooseCodes(db')) /\ Cardinality(LooseCodes(db')) <= Cardinality(LooseCodes(db))
          /\ Cardinality(LooseCodes(db)) \in Nat /\ Cardinality(LooseCodes(db')) \in Nat
      BY <2>3, FewCount DEF Bounded
    <3>3. /\ IsFiniteSet(LooseEvents(db')) /\ Cardinality(LooseEvents(db')) <= Cardinality(LooseEvents(db))
          /\ Cardinality(LooseEvents(db)) \in Nat /\ Cardinality(LooseEvents(db')) \in Nat
      BY <2>3, FewCount DEF Bounded
    <3> QED
      BY <3>1, <3>2, <3>3 DEF Bounded
  <2>4. ASSUME More(LooseCodes(db), LooseCodes(db')),
               Strays(db') \subseteq Strays(db), LooseEvents(db') \subseteq LooseEvents(db)
        PROVE  Counted
    <3>1. /\ IsFiniteSet(LooseCodes(db')) /\ Cardinality(LooseCodes(db')) <= Cardinality(LooseCodes(db)) + 1
          /\ Cardinality(LooseCodes(db)) \in Nat /\ Cardinality(LooseCodes(db')) \in Nat
      BY <2>4, MoreCount DEF Bounded
    <3>2. /\ IsFiniteSet(Strays(db')) /\ Cardinality(Strays(db')) <= Cardinality(Strays(db))
          /\ Cardinality(Strays(db)) \in Nat /\ Cardinality(Strays(db')) \in Nat
      BY <2>4, FewCount DEF Bounded
    <3>3. /\ IsFiniteSet(LooseEvents(db')) /\ Cardinality(LooseEvents(db')) <= Cardinality(LooseEvents(db))
          /\ Cardinality(LooseEvents(db)) \in Nat /\ Cardinality(LooseEvents(db')) \in Nat
      BY <2>4, FewCount DEF Bounded
    <3> QED
      BY <3>1, <3>2, <3>3 DEF Bounded
  <2>5. ASSUME More(LooseEvents(db), LooseEvents(db')),
               Strays(db') \subseteq Strays(db), LooseCodes(db') \subseteq LooseCodes(db)
        PROVE  Counted
    <3>1. /\ IsFiniteSet(LooseEvents(db')) /\ Cardinality(LooseEvents(db')) <= Cardinality(LooseEvents(db)) + 1
          /\ Cardinality(LooseEvents(db)) \in Nat /\ Cardinality(LooseEvents(db')) \in Nat
      BY <2>5, MoreCount DEF Bounded
    <3>2. /\ IsFiniteSet(Strays(db')) /\ Cardinality(Strays(db')) <= Cardinality(Strays(db))
          /\ Cardinality(Strays(db)) \in Nat /\ Cardinality(Strays(db')) \in Nat
      BY <2>5, FewCount DEF Bounded
    <3>3. /\ IsFiniteSet(LooseCodes(db')) /\ Cardinality(LooseCodes(db')) <= Cardinality(LooseCodes(db))
          /\ Cardinality(LooseCodes(db)) \in Nat /\ Cardinality(LooseCodes(db')) \in Nat
      BY <2>5, FewCount DEF Bounded
    <3> QED
      BY <3>1, <3>2, <3>3 DEF Bounded
  <2>6. Counted
    <3> HIDE DEF Counted
    <3> QED
      BY <1>2, <2>3, <2>4, <2>5 DEF Halfway
  <2>7. Bounded(db', crashes')
    BY <1>2, <2>1, <2>2, <2>6 DEF Bounded
  <2> QED
    BY <1>2, <2>7 DEF Halfway
<1> QED
  BY <1>1, <1>2 DEF Outcome

LEMMA InitDebts == Init => DebtInv
<1> SUFFICES ASSUME Init PROVE DebtInv
  OBVIOUS
<1>1. /\ db.code = [c \in Codes |-> "none"] /\ db.invite = [p \in InviteIds |-> noProposal]
      /\ db.security = [a \in Actors |-> emptySecurityState]
      /\ db.revokedOperator = [a \in Actors |-> None] /\ db.user = [u \in Users |-> notModerated]
      /\ db.reports = <<>> /\ db.governance = {}
      /\ db.event = [t \in Times |-> None] /\ db.owner = [t \in Times |-> None]
      /\ Stored(db)
  BY DEF Init, Stored, Fields
<1>2. /\ emptySecurityState \in Accounts /\ notModerated \in [frozen : Ids, deleted : Ids]
      /\ noProposal \in [status : Statuses, code : Codes \union {None}] /\ noProposal.code = None
  BY DEF emptySecurityState, Accounts, Ids, notModerated, noProposal, Statuses
<1>3. Shape(db)
  <2>1. db.security \in [Actors -> Accounts] /\ db.user \in [Users -> [frozen : Ids, deleted : Ids]]
    BY <1>1, <1>2
  <2>2. db.revokedOperator \in [Actors -> Ids]
    BY <1>1 DEF Ids
  <2>3. /\ db.invite \in [InviteIds -> [status : Statuses, code : Codes \union {None}]]
        /\ \A p \in InviteIds : db.invite[p].code = None
    BY <1>1, <1>2
  <2>4. DOMAIN db.code = Codes /\ DOMAIN db.event = Times /\ DOMAIN db.owner = Times
    BY <1>1
  <2> QED
    BY <1>1, <2>1, <2>2, <2>3, <2>4 DEF Shape
<1>4. ASSUME NEW k \in Kinds, NEW x \in Targets(k) PROVE Slot(db, k, x) = None
  BY <1>1, <1>4 DEF Slot, Kinds, Targets, emptySecurityState, notModerated
<1>5. DOMAIN db.reports = {} /\ db.reports \in Seq(Reports)
  BY <1>1
<1>6. SanctionInv(db)
  <2>1. \A k \in Kinds : \A x \in Targets(k) : SlotOK(db, k, x)
    BY <1>4 DEF SlotOK
  <2>2. \A u \in Users : Slot(db, "user_delete", u) = None
    BY <1>4 DEF Kinds, Targets
  <2> QED
    BY <1>5, <2>1, <2>2 DEF SanctionInv
<1>7. LooseCodes(db) = {} /\ LooseEvents(db) = {}
  BY <1>1 DEF LooseCodes, LooseEvents
<1>8. Strays(db) = {}
  BY <1>5 DEF Strays
<1>9. Unaccounted(db) = {}
  BY <1>4 DEF Unaccounted, Owed, InForce
<1>10. Bounded(db, crashes)
  <2>1. IsFiniteSet({}) /\ Cardinality({}) = 0 /\ db.governance = {} /\ crashes = 0
    BY <1>1, FS_EmptySet DEF Init
  <2> QED
    BY <1>7, <1>8, <1>9, <2>1 DEF Bounded
<1> QED
  BY <1>3, <1>6, <1>10, ConsoleAssumption DEF DebtInv, Init, Times

LEMMA NextDebts == DebtInv /\ [Next]_vars => DebtInv'
<1> SUFFICES ASSUME DebtInv, [Next]_vars PROVE DebtInv'
  OBVIOUS
<1> USE DEF DebtInv
<1>1. CASE UNCHANGED vars
  BY <1>1 DEF vars
<1>2. CASE Tick
  BY <1>2, ConsoleAssumption DEF Tick, Times
<1>3. ASSUME Outcome, now' = now PROVE DebtInv'
  BY <1>3, OutcomeBounded
<1>4. ASSUME NEW a \in Actors, beginCreateEvent(a) PROVE DebtInv'
  BY <1>4 DEF beginCreateEvent
<1>5. ASSUME NEW p \in InviteIds, NEW c \in Codes, invite(p, c) \/ approveInvite(p, c) PROVE DebtInv'
  BY <1>3, <1>5, InviteDebts, ApproveDebts
<1>6. ASSUME NEW p \in InviteIds, rejectInvite(p) PROVE DebtInv'
  BY <1>3, <1>6, RejectDebts
<1>7. ASSUME NEW c \in Codes, revokeCode(c) PROVE DebtInv'
  BY <1>3, <1>7, RevokeCodeDebts
<1>8. ASSUME NEW a \in Actors, NEW o \in BOOLEAN, NEW s \in collectSuspiciousSignals,
             NEW g \in GrantConfigs \union {None}, createEvent(a, o, s, g)
      PROVE  DebtInv'
  BY <1>3, <1>8, CreateDebts
<1>9. ASSUME NEW a \in Actors, NEW t \in Times, closeEvent(a, t) PROVE DebtInv'
  BY <1>3, <1>9, CloseDebts
<1>10. ASSUME NEW a \in Actors, unlock(a) \/ revokeAccess(a) \/ restoreAccess(a) PROVE DebtInv'
  BY <1>3, <1>10, UnlockOutcome, RevokeAccessOutcome, RestoreAccessOutcome
<1>11. ASSUME NEW a \in Actors, revokeOperator(a) \/ restoreOperator(a) PROVE DebtInv'
  BY <1>3, <1>11, OperatorOutcome
<1>12. ASSUME NEW u \in Users, freezeUser(u) \/ unfreezeUser(u) PROVE DebtInv'
  BY <1>3, <1>12, FreezeUserOutcome, UnfreezeUserOutcome
<1>13. ASSUME NEW u \in Users, deleteUser(u) \/ restoreUser(u) PROVE DebtInv'
  BY <1>3, <1>13, DeleteUserOutcome, RestoreUserOutcome
<1> HIDE DEF DebtInv
<1> QED
  BY <1>1, <1>2, <1>4, <1>5, <1>6, <1>7, <1>8, <1>9, <1>10, <1>11, <1>12, <1>13 DEF Next

(* Whatever crashes interrupt, the storage stays in order: every sanction  *)
(* names a report of its own or none, and there are no more strays,        *)
(* unreported sanctions or pending proposals than crashes.                 *)
THEOREM DebtInvariant == Spec => []DebtInv
<1>1. Init => DebtInv
  BY InitDebts
<1>2. DebtInv /\ [Next]_vars => DebtInv'
  BY NextDebts
<1> QED
  BY <1>1, <1>2, PTL DEF Spec

(* A crash between two puts of a handler leaves at most one code without   *)
(* proposal, report without sanction or event without owner behind, and a  *)
(* handler that ends leaves none (storeDO.ts, the puts of the handlers).   *)
THEOREM StraysBounded == Spec => []StraysBoundedByCrashes
<1>1. DebtInv => StraysBoundedByCrashes
  <2> SUFFICES ASSUME DebtInv PROVE StraysBoundedByCrashes
    OBVIOUS
  <2>1. StrayCodes = LooseCodes(db)
    BY DEF StrayCodes, LooseCodes, listInvites
  <2>2. StrayEvents = LooseEvents(db)
    BY DEF StrayEvents, LooseEvents
  <2>3. ASSUME NEW r \in DOMAIN db.reports
        PROVE  carried(r) = Slot(db, db.reports[r].type, db.reports[r].target)
    BY DEF carried, Slot
  <2>4. StrayReports = Strays(db)
    BY <2>3 DEF StrayReports, Strays, Stray, Required, Overtaken, reportObligations
  <2> QED
    BY <2>1, <2>2, <2>4 DEF StraysBoundedByCrashes, DebtInv, Bounded
<1> QED
  BY <1>1, DebtInvariant, PTL

(* Every sanction in force, of administrators, operators and users, is     *)
(* owed a required report of its type, and nothing stays pending, but for  *)
(* one sanction and one proposal for each crash; a deletion is owed one    *)
(* until unfreeze_user lifts the freeze it brought (storeDO.ts:8922-8956). *)
THEOREM SanctionsAlwaysReported == Spec => []SanctionsReported
<1>1. DebtInv => SanctionsReported
  <2> SUFFICES ASSUME DebtInv PROVE SanctionsReported
    OBVIOUS
  <2>1. ASSUME NEW s \in Unreported PROVE s \in Unaccounted(db)
    <3>1. s \in SanctionsInForce /\ ~ \E r \in DOMAIN db.reports :
             Required(db, r) /\ db.reports[r].target = s[1] /\ db.reports[r].type = s[2]
      BY DEF Unreported, reportObligations, Required
    <3>2. PICK k \in Kinds, x \in Actors \union Users :
             x \in Targets(k) /\ s = <<x, k>> /\ InForce(db, k, x)
      BY <3>1 DEF SanctionsInForce, freezeStatus, securityUsers, Kinds, Targets, InForce, Slot
    <3>3. Owed(db, k, x)
      BY <3>1, <3>2 DEF Owed
    <3> QED
      BY <3>2, <3>3 DEF Unaccounted
  <2>2. Cardinality(Unreported) <= Cardinality(Unaccounted(db))
        /\ Cardinality(Unreported) \in Nat /\ Cardinality(Unaccounted(db)) \in Nat
    BY <2>1, FewCount DEF DebtInv, Bounded
  <2>3. freezeStatus.governancePendingCount = Cardinality(db.governance)
    BY DEF freezeStatus, governanceProposals
  <2> QED
    BY <2>2, <2>3 DEF SanctionsReported, DebtInv, Bounded
<1> QED
  BY <1>1, DebtInvariant, PTL
=============================================================================

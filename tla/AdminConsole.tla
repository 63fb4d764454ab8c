---------------------------- MODULE AdminConsole ----------------------------
(***************************************************************************)
(* The admin side of the worker: invite codes, event creation and closing  *)
(* under the admin security rules, and the sanctions of the master.        *)
(*                                                                         *)
(* A handler of the Durable Object waits for the request body after it has *)
(* authenticated the caller, and then only for its own storage, during     *)
(* which nothing else is delivered: it is two steps where a caller's code  *)
(* may be revoked in between (createEvent), one elsewhere. Its puts are    *)
(* separate, so a crash may leave any prefix of them: an operation is the  *)
(* sequence of contents the storage goes through.                          *)
(***************************************************************************)
EXTENDS Integers, Sequences, FiniteSets

CONSTANTS
  None,
  Master,          (* the actor of the master password                      *)
  Codes,           (* admin codes; a code is also its admin and its actor   *)
  InviteIds,       (* invite proposals                                      *)
  Users,
  Sanctions,       (* governance actions in use                             *)
  GrantConfigs,    (* on-chain grant configurations events are linked to    *)
  WarningTTL,      (* ADMIN_SECURITY_WARNING_TTL_MS                         *)
  IssueWindow,     (* SECURITY_ISSUE_LIMIT_WINDOW_MS                        *)
  EventsPerWindow, (* SECURITY_ADMIN_EVENT_ISSUE_LIMIT_PER_DAY              *)
  InvitesPerWindow,(* SECURITY_ADMIN_INVITE_ISSUE_LIMIT_PER_DAY             *)
  MaxTime,         (* bound: clock                                          *)
  MaxWaiting,      (* bound: requests whose body is outstanding             *)
  MaxEvents,       (* bound: events created                                 *)
  MaxReports,      (* bound: report obligations                             *)
  MaxCrashes       (* bound: crashes                                        *)

ASSUME ConsoleAssumption ==
  /\ WarningTTL \in Nat
  /\ IssueWindow \in Nat \ {0} /\ EventsPerWindow \in Nat \ {0} /\ InvitesPerWindow \in Nat \ {0}
  /\ MaxTime \in Nat /\ MaxWaiting \in Nat /\ MaxEvents \in Nat /\ MaxReports \in Nat /\ MaxCrashes \in Nat
  /\ Master \notin Codes /\ None \notin Codes \union {Master}

ASSUME NoneAssumption == None \notin Nat

VARIABLES
  now,
  waiting,  (* memory: callers authenticated, their body not yet read       *)
  db,       (* storage                                                      *)
  crashes

vars == <<now, waiting, db, crashes>>

Actors == {Master} \union Codes
Times == 0..MaxTime

(* A sanction is None, or the number of its report, 0 while it has none.   *)
emptySecurityState == [warning |-> None, frozen |-> None, revokedAccess |-> None]
notModerated == [frozen |-> None, deleted |-> None]
noProposal == [status |-> "none", code |-> None]

(* Of executed governance proposals nothing is kept: naming one again has  *)
(* no effect. Events are keyed by the millisecond they were created in;    *)
(* whether one is created as a draft or published makes no difference.     *)
Init ==
  /\ now = 0 /\ waiting = {} /\ crashes = 0
  /\ db = [code |-> [c \in Codes |-> "none"],
           invite |-> [p \in InviteIds |-> noProposal],
           inviteLimit |-> None,
           eventLimit |-> [a \in Actors |-> None],
           security |-> [a \in Actors |-> emptySecurityState],
           revokedOperator |-> [a \in Actors |-> None],
           user |-> [u \in Users |-> notModerated],
           reports |-> <<>>,
           governance |-> {},
           event |-> [t \in Times |-> None],
           owner |-> [t \in Times |-> None],
           made |-> <<>>]  (* history: the events put                       *)

-----------------------------------------------------------------------------
(* A handler that takes the storage through these contents, or is lost     *)
(* after some of them together with every request still in memory.         *)
Handler(contents, left) ==
  \/ /\ db' = contents[Len(contents)]
     /\ waiting' = left
     /\ UNCHANGED <<now, crashes>>
  \/ /\ crashes < MaxCrashes /\ crashes' = crashes + 1
     /\ \E i \in 1..(Len(contents) - 1) : db' = contents[i]
     /\ waiting' = {}
     /\ UNCHANGED now

-----------------------------------------------------------------------------
(* Report obligations, and a sanction that is put, reported, and put again *)
(* with its report.                                                        *)

createAdminSecurityReportObligation(d, type, target) ==
  [d EXCEPT !.reports = Append(@, [type |-> type, target |-> target, status |-> "required"])]

(* Nothing happens when the sanction carries no report.                    *)
resolveAdminSecurityReportObligation(d, id) ==
  IF id \in DOMAIN d.reports THEN [d EXCEPT !.reports[id].status = "resolved"] ELSE d

(* Mutant: the sanction is put twice, and no report made.                  *)
NeverReported(put, named, type, target) == <<put, named>>

reported(put, named, type, target) ==
  <<put, createAdminSecurityReportObligation(put, type, target),
    createAdminSecurityReportObligation(named, type, target)>>

newReportId == Len(db.reports) + 1

-----------------------------------------------------------------------------
(* Invites.                                                                *)

(* The master is the only operator of the consensus.                       *)
listInviteConsensusOperators == {Master}

(* Mutant: one more than the limit.                                        *)
OneTooMany(limit, most) ==
  LET current == IF limit = None \/ now - limit.start >= IssueWindow
                 THEN [start |-> now, count |-> 0] ELSE limit
  IN IF current.count > most THEN None ELSE [current EXCEPT !.count = @ + 1]

(* The counter after one more issue, or None when the limit is reached.    *)
consumeSecurityIssueLimit(limit, most) ==
  LET current == IF limit = None \/ now < limit.start \/ now - limit.start >= IssueWindow
                 THEN [start |-> now, count |-> 0] ELSE limit
  IN IF current.count >= most THEN None ELSE [current EXCEPT !.count = @ + 1]

enforceAdminInviteIssueLimit == consumeSecurityIssueLimit(db.inviteLimit, InvitesPerWindow)

enforceAdminEventIssueLimit(a) == consumeSecurityIssueLimit(db.eventLimit[a], EventsPerWindow)

(* What an approval of proposal p by the master does to storage d with a   *)
(* new code c: once every operator has approved the limit is counted, then *)
(* the code put, then the proposal.                                        *)
approveAdminInviteProposal(d, p, c) ==
  IF ~(listInviteConsensusOperators \subseteq {Master}) \/ enforceAdminInviteIssueLimit = None
  THEN <<d>>
  ELSE LET counted == [d EXCEPT !.inviteLimit = enforceAdminInviteIssueLimit]
           coded == [counted EXCEPT !.code[c] = "active"]
       IN <<counted, coded, [coded EXCEPT !.invite[p] = [status |-> "issued", code |-> c]]>>

(* POST /api/admin/invite with a name.                                     *)
invite(p, c) ==
  LET proposed == [db EXCEPT !.invite[p].status = "pending"] IN
  /\ db.invite[p].status = "none" /\ db.code[c] = "none"
  /\ Handler(<<proposed>> \o approveAdminInviteProposal(proposed, p, c), waiting)

(* POST /api/admin/invite/approve, or invite with a proposalId. A          *)
(* cancelled proposal is refused; an issued one answers its code again.    *)
approveInvite(p, c) ==
  /\ db.invite[p].status = "pending" /\ db.code[c] = "none"
  /\ Handler(approveAdminInviteProposal(db, p, c), waiting)

rejectAdminInviteProposal(d, p) == [d EXCEPT !.invite[p].status = "cancelled"]

(* POST /api/admin/invite/reject. Of a proposal that is cancelled already  *)
(* the answer is the same again; one that was issued is refused.           *)
rejectInvite(p) ==
  /\ db.invite[p].status = "pending"
  /\ Handler(<<rejectAdminInviteProposal(db, p)>>, waiting)

(* POST /api/admin/revoke.                                                 *)
revokeCode(c) ==
  /\ db.code[c] = "active"
  /\ Handler(<<[db EXCEPT !.code[c] = "revoked"]>>, waiting)

(* The master password always authenticates, a code until it is revoked.   *)
authenticateOperator(a) == a # Master => db.code[a] = "active"

-----------------------------------------------------------------------------
(* Events.                                                                 *)

(* Mutant: nobody is held back.                                            *)
NobodySanctioned(a) == TRUE

enforceAdminSecurityOperation(a) ==
  db.security[a].revokedAccess = None /\ db.security[a].frozen = None

warningExpired(s) == s.warning # None /\ now - s.warning > WarningTTL

putSecurity(d, a, s) == [d EXCEPT !.security[a] = s]

(* An override under a warning freezes the account, in four writes.        *)
freezeAdmin(d, a) ==
  LET Put(id) == [d EXCEPT !.security[a].warning = None, !.security[a].frozen = id]
  IN reported(Put(0), Put(newReportId), "freeze", a)

duplicatedGrant(config) ==
  config # None /\ \E t \in Times : db.event[t] # None /\ db.event[t].config = config

(* The event, under the id of this millisecond, and then its owner.        *)
storeEvent(d, a, config) ==
  LET limited == [d EXCEPT !.eventLimit[a] = enforceAdminEventIssueLimit(a)]
      stored == [limited EXCEPT !.event[now] = [state |-> "published", config |-> config],
                                !.made = Append(@, [by |-> a, at |-> now])]
  IN <<limited, stored, [stored EXCEPT !.owner[now] = a]>>

(* POST /v1/school/events: the caller is authenticated ...                 *)
beginCreateEvent(a) ==
  /\ authenticateOperator(a) /\ a \notin waiting /\ Cardinality(waiting) < MaxWaiting
  /\ waiting' = waiting \union {a}
  /\ UNCHANGED <<now, db, crashes>>

(* Whether a keyword, the user agent or a burst of attempts is suspicious  *)
(* is an input: the timestamps of earlier attempts are not kept.           *)
collectSuspiciousSignals == BOOLEAN

(* ... and the body has arrived and is valid.                              *)
createEvent(a, override, signals, config) ==
  LET expired == warningExpired(db.security[a])
      s == IF expired THEN [db.security[a] EXCEPT !.warning = None] ELSE db.security[a]
      swept == IF expired THEN <<putSecurity(db, a, s)>> ELSE <<>>
      noted == putSecurity(db, a, [s EXCEPT !.warning = IF signals THEN now ELSE @])
  IN
  /\ a \in waiting
  /\ Len(db.made) < MaxEvents
  /\ \/ /\ ~enforceAdminSecurityOperation(a)
        /\ Handler(<<db>>, waiting \ {a})
     \/ /\ enforceAdminSecurityOperation(a)
        /\ override /\ s.warning # None
        /\ Len(db.reports) < MaxReports
        /\ Handler(swept \o freezeAdmin(putSecurity(db, a, s), a), waiting \ {a})
     \/ /\ enforceAdminSecurityOperation(a)
        /\ ~(override /\ s.warning # None)
        /\ signals \/ duplicatedGrant(config) \/ enforceAdminEventIssueLimit(a) = None
        /\ Handler(swept \o <<noted>>, waiting \ {a})
     \/ /\ enforceAdminSecurityOperation(a)
        /\ ~(override /\ s.warning # None)
        /\ ~signals /\ ~duplicatedGrant(config) /\ enforceAdminEventIssueLimit(a) # None
        /\ Handler(swept \o <<noted>> \o storeEvent(noted, a, config), waiting \ {a})

ensureOperatorCanAccessEvent(a, t) == a = Master \/ db.owner[t] = a

(* POST /v1/school/events/:eventId/close.                                  *)
closeEvent(a, t) ==
  LET s == db.security[a]
      swept == IF warningExpired(s) THEN putSecurity(db, a, [s EXCEPT !.warning = None]) ELSE db
  IN
  /\ authenticateOperator(a)
  /\ enforceAdminSecurityOperation(a)
  /\ db.event[t] # None /\ ensureOperatorCanAccessEvent(a, t)
  /\ db.event[t].state # "ended"
  /\ Handler(<<swept, [swept EXCEPT !.event[t].state = "ended"]>>, waiting)

-----------------------------------------------------------------------------
(* Governance.                                                             *)

(* Only actors with the role of a master are registered.                   *)
listAdminSecurityOperators == {Master}

getActiveOperatorCommunityIds(requester) ==
  {a \in listAdminSecurityOperators : db.revokedOperator[a] = None} \union {requester}

ensureGovernanceOperatorContext(requester) ==
  requester = Master /\ db.revokedOperator[requester] = None

(* A proposal is put, executed at once when the requester is the whole     *)
(* community, and put as executed. One left pending by a crash is found    *)
(* again by the next request. "execute" is what the sanction itself puts.  *)
processAdminSecurityGovernanceAction(action, target, execute) ==
  LET proposed(d) == [d EXCEPT !.governance = @ \union {<<action, target>>}]
      executed(d) == [d EXCEPT !.governance = @ \ {<<action, target>>}]
  IN /\ action \in Sanctions
     /\ ensureGovernanceOperatorContext(Master)
     /\ getActiveOperatorCommunityIds(Master) \subseteq {Master}
     /\ Handler(<<proposed(db)>> \o [i \in DOMAIN execute |-> proposed(execute[i])]
                \o <<executed(execute[Len(execute)])>>, waiting)

(* Mutant: the report stays open.                                          *)
LiftedUnresolved(d, id) == <<d>>

(* A sanction is lifted, then its report resolved.                         *)
lifted(d, id) == <<d, resolveAdminSecurityReportObligation(d, id)>>

unlock(a) ==
  LET unlocked == [db EXCEPT !.security[a].frozen = None, !.security[a].warning = None]
  IN /\ db.security[a].frozen # None
     /\ processAdminSecurityGovernanceAction("unlock_admin", a, lifted(unlocked, db.security[a].frozen))

(* The report of a standing freeze is resolved first.                      *)
revokeAccess(a) ==
  LET unfrozen == resolveAdminSecurityReportObligation(db, db.security[a].frozen)
      Put(id) == [unfrozen EXCEPT !.security[a] = [emptySecurityState EXCEPT !.revokedAccess = id]]
  IN /\ db.security[a].revokedAccess = None /\ Len(db.reports) < MaxReports
     /\ processAdminSecurityGovernanceAction("revoke_admin_access", a,
          <<unfrozen>> \o reported(Put(0), Put(newReportId), "revoke_access", a))

restoreAccess(a) ==
  LET restored == [db EXCEPT !.security[a].revokedAccess = None, !.security[a].warning = None]
  IN /\ db.security[a].revokedAccess # None
     /\ processAdminSecurityGovernanceAction("restore_admin_access", a,
          lifted(restored, db.security[a].revokedAccess))

(* The master may not revoke itself; of other actors the record is kept    *)
(* but never asked for.                                                    *)
revokeOperator(a) ==
  LET Put(id) == [db EXCEPT !.revokedOperator[a] = id]
  IN /\ a # Master /\ db.revokedOperator[a] = None /\ Len(db.reports) < MaxReports
     /\ processAdminSecurityGovernanceAction("revoke_operator", a,
          reported(Put(0), Put(newReportId), "operator_revoke", a))

restoreOperator(a) ==
  LET restored == [db EXCEPT !.revokedOperator[a] = None]
  IN /\ db.revokedOperator[a] # None
     /\ processAdminSecurityGovernanceAction("restore_operator", a, lifted(restored, db.revokedOperator[a]))

freezeUser(u) ==
  LET Put(id) == [db EXCEPT !.user[u].frozen = id]
  IN /\ db.user[u] = notModerated /\ Len(db.reports) < MaxReports
     /\ processAdminSecurityGovernanceAction("freeze_user", u,
          reported(Put(0), Put(newReportId), "user_freeze", u))

unfreezeUser(u) ==
  LET unfrozen == [db EXCEPT !.user[u].frozen = None]
  IN /\ db.user[u].frozen # None
     /\ processAdminSecurityGovernanceAction("unfreeze_user", u, lifted(unfrozen, db.user[u].frozen))

(* A deletion also freezes, over a freeze that may stand.                  *)
deleteUser(u) ==
  LET Put(id) == [db EXCEPT !.user[u] = [frozen |-> id, deleted |-> id]]
  IN /\ db.user[u].deleted = None /\ Len(db.reports) < MaxReports
     /\ processAdminSecurityGovernanceAction("delete_user", u,
          reported(Put(0), Put(newReportId), "user_delete", u))

restoreUser(u) ==
  LET restored == [db EXCEPT !.user[u] = notModerated]
  IN /\ db.user[u].deleted # None
     /\ processAdminSecurityGovernanceAction("restore_user", u, lifted(restored, db.user[u].deleted))

-----------------------------------------------------------------------------
(* What the console shows: views of the storage, which change nothing.     *)

(* GET /api/admin/invites.                                                 *)
listInvites(includeRevoked) ==
  {c \in Codes : db.code[c] \in {"active"} \union (IF includeRevoked THEN {"revoked"} ELSE {})}

(* GET /v1/school/admin/security/governance/proposals: what is pending.    *)
governanceProposals == db.governance

(* GET /v1/school/admin/security/freeze-status. A frozen account is shown  *)
(* without its report; of revoked operators only those that are registered *)
(* are shown.                                                              *)
freezeStatus ==
  [items |-> {a \in Actors : db.security[a].frozen # None},
   revokedItems |-> {a \in Actors : db.security[a].revokedAccess # None},
   pendingWarnings |-> {a \in Actors : db.security[a].warning # None},
   operatorItems |-> [a \in listAdminSecurityOperators |-> db.revokedOperator[a]],
   governancePendingCount |-> Cardinality(governanceProposals)]

(* GET /v1/school/admin/security/users.                                    *)
securityUsers ==
  [frozen |-> {u \in Users : db.user[u].frozen # None},
   deleted |-> {u \in Users : db.user[u].deleted # None}]

(* GET /v1/school/admin/security/report-obligations with a status.         *)
reportObligations(status) == {r \in DOMAIN db.reports : db.reports[r].status = status}

-----------------------------------------------------------------------------
Tick == now < MaxTime /\ now' = now + 1 /\ UNCHANGED <<waiting, db, crashes>>

Next ==
  \/ Tick
  \/ \E p \in InviteIds :
       \/ \E c \in Codes : invite(p, c) \/ approveInvite(p, c)
       \/ rejectInvite(p)
  \/ \E c \in Codes : revokeCode(c)
  \/ \E a \in Actors :
       \/ beginCreateEvent(a)
       \/ \E o \in BOOLEAN, s \in collectSuspiciousSignals, g \in GrantConfigs \union {None} : createEvent(a, o, s, g)
       \/ \E t \in Times : closeEvent(a, t)
       \/ unlock(a) \/ revokeAccess(a) \/ restoreAccess(a)
       \/ revokeOperator(a) \/ restoreOperator(a)
  \/ \E u \in Users : freezeUser(u) \/ unfreezeUser(u) \/ deleteUser(u) \/ restoreUser(u)

Spec == Init /\ [][Next]_vars

-----------------------------------------------------------------------------
(* The events an actor made, and those of them since a moment.             *)
MadeBy(made, a) == {i \in DOMAIN made : made[i].by = a}
MadeSince(made, a, start) == {i \in MadeBy(made, a) : made[i].at >= start}

(* No event is created, nor counted against its limit, by an actor who is  *)
(* frozen or whose access is revoked at that moment, however long ago the  *)
(* request was authenticated.                                              *)
SanctionedDoNothing ==
  [][\A a \in Actors :
       db.security[a].frozen # None \/ db.security[a].revokedAccess # None =>
         /\ MadeBy(db'.made, a) = MadeBy(db.made, a)
         /\ db'.eventLimit[a] = db.eventLimit[a]]_vars

(* In the window of a limit at most that many events, or codes, come into  *)
(* being, also when creations are lost half way and repeated               *)
(* (costOfForgeryAndIssueLimit.test.ts: "limits event issuance per admin   *)
(* per day", "limits admin invite issuance per day").                      *)
IssueLimitsHold ==
  /\ \A a \in Actors : db.eventLimit[a] # None =>
       Cardinality(MadeSince(db.made, a, db.eventLimit[a].start)) <= EventsPerWindow
  /\ now < IssueWindow => Cardinality(listInvites(TRUE)) <= InvitesPerWindow

(* What refers to nothing: codes no issued proposal names, required        *)
(* reports no sanction carries (a freeze overtaken by the deletion of the  *)
(* user excepted), and events without an owner.                            *)
StrayCodes ==
  {c \in listInvites(TRUE) : \A p \in InviteIds : db.invite[p].code # c}

carried(r) ==
  CASE db.reports[r].type = "freeze" -> db.security[db.reports[r].target].frozen
    [] db.reports[r].type = "revoke_access" -> db.security[db.reports[r].target].revokedAccess
    [] db.reports[r].type = "operator_revoke" -> db.revokedOperator[db.reports[r].target]
    [] db.reports[r].type = "user_freeze" -> db.user[db.reports[r].target].frozen
    [] db.reports[r].type = "user_delete" -> db.user[db.reports[r].target].deleted

StrayReports ==
  {r \in reportObligations("required") :
     /\ carried(r) # r
     /\ ~ \E q \in DOMAIN db.reports :
            /\ db.reports[r].type = "user_freeze" /\ db.reports[q].type = "user_delete"
            /\ q > r /\ db.reports[q].target = db.reports[r].target}

StrayEvents == {t \in Times : db.event[t] # None /\ db.owner[t] = None}

(* A crash strays at most one thing, and nothing else does.                *)
StraysBoundedByCrashes ==
  Cardinality(StrayCodes) + Cardinality(StrayReports) + Cardinality(StrayEvents) <= crashes

(* The sanctions in force that are owed a report, each with the type of    *)
(* the report: those of administrators and of operators, the freezes of    *)
(* users, and the deletions while the freeze they brought stands.          *)
SanctionsInForce ==
  {<<a, "freeze">> : a \in freezeStatus.items}
  \union {<<a, "revoke_access">> : a \in freezeStatus.revokedItems}
  \union {<<a, "operator_revoke">> : a \in {b \in Actors : db.revokedOperator[b] # None}}
  \union {<<u, "user_freeze">> : u \in securityUsers.frozen \ securityUsers.deleted}
  \union {<<u, "user_delete">> : u \in securityUsers.frozen \intersect securityUsers.deleted}

Unreported ==
  {s \in SanctionsInForce :
     ~ \E r \in reportObligations("required") : db.reports[r].target = s[1] /\ db.reports[r].type = s[2]}

(* Every sanction in force is owed a report of its own type that the       *)
(* console lists as required: it is never imposed without one, nor is the  *)
(* report resolved while it stands, but for one sanction or one pending    *)
(* proposal for each crash. One exception needs no crash: a deletion also  *)
(* freezes under the same report, and unfreeze_user, which does not ask    *)
(* whether the user is deleted, resolves it (storeDO.ts:8922-8956); the    *)
(* deletion then stands with a resolved report until it is restored        *)
(* (adminSecurityUserModeration.test.ts imposes and lifts one sanction).   *)
SanctionsReported ==
  /\ Cardinality(Unreported) <= crashes
  /\ freezeStatus.governancePendingCount <= crashes
=============================================================================

----------------------------- MODULE Governance -----------------------------
(***************************************************************************)
(* The operator community of the Express server (server/routes/v1School):  *)
(* several master operators who sanction admins, users and each other by   *)
(* unanimous proposals, the report obligations this creates, and the       *)
(* events admins create and close under it. Handlers of this server do not *)
(* wait, so a request is one action. What depends on the clock (a warning  *)
(* that expired, a burst of attempts) is an input of the request.          *)
(***************************************************************************)
EXTENDS Integers, Sequences, FiniteSets

CONSTANTS
  Operators,     (* actors with the role master                             *)
  Admins,        (* actors that create events                               *)
  Users,
  Actions,       (* governance actions in use                               *)
  MaxProposals,  (* bound: proposals                                        *)
  MaxReports,    (* bound: report obligations                               *)
  MaxEvents      (* bound: events                                           *)

ASSUME GovernanceAssumption ==
  MaxProposals \in Nat /\ MaxReports \in Nat /\ MaxEvents \in Nat

VARIABLES
  community,  (* masters that have been seen                                *)
  revokedOps, (* the report of a standing revocation, or 0                  *)
  admins,     (* frozen, revoked: the report of the sanction, or 0; warning *)
  users,      (* frozen, deleted: the report of the sanction, or 0          *)
  proposals,  (* governance proposals, oldest first                         *)
  reports,    (* report obligations, oldest first                           *)
  events      (* whether each event created so far is still open            *)

sanctions == <<revokedOps, admins, users>>
vars == <<community, sanctions, proposals, reports, events>>

GovernanceActions ==
  {"unlock_admin", "revoke_admin_access", "restore_admin_access", "revoke_operator",
   "restore_operator", "freeze_user", "unfreeze_user", "delete_user", "restore_user"}

newAdminState == [frozen |-> 0, revoked |-> 0, warning |-> FALSE]

Init ==
  /\ community = {}
  /\ revokedOps = [o \in Operators |-> 0]
  /\ admins = [a \in Admins |-> newAdminState]
  /\ users = [u \in Users |-> [frozen |-> 0, deleted |-> 0]]
  /\ proposals = <<>> /\ reports = <<>> /\ events = <<>>

-----------------------------------------------------------------------------
(* Report obligations.                                                     *)

createReportObligation(list, type, target) ==
  Append(list, [type |-> type, target |-> target, status |-> "required"])

(* Nothing happens when the sanction carries no report.                    *)
resolveReportObligation(list, id) ==
  [i \in DOMAIN list |-> IF i = id THEN [list[i] EXCEPT !.status = "resolved"] ELSE list[i]]

-----------------------------------------------------------------------------
(* Proposals.                                                              *)

(* Mutant: a revoked master is not turned away.                            *)
AdmitRevoked(o) == community' = community \union {o}

(* A master is registered before it is turned away.                        *)
ensureGovernanceOperatorContext(o) ==
  /\ community' = community \union {o}
  /\ revokedOps[o] = 0

getActiveOperatorCommunityIds(o) ==
  {m \in community : revokedOps[m] = 0} \union {o}

(* The proposal a request is about: the one it names, a pending one for    *)
(* the same action and target (and the same approvers, when the request    *)
(* sets them), or a new one.                                               *)
matching(action, target, required) ==
  {i \in DOMAIN proposals :
     /\ proposals[i].status = "pending"
     /\ proposals[i].action = action /\ proposals[i].target = target
     /\ required = {} \/ proposals[i].required = required}

newProposal(o, action, target, required) ==
  [action |-> action, target |-> target, status |-> "pending", approvals |-> {},
   required |-> IF required = {} THEN getActiveOperatorCommunityIds(o) ELSE required,
   asked |-> {m \in community \union {o} : revokedOps[m] = 0}]

(* Mutant: the first approval executes.                                    *)
NoQuorum(o, action, target, required, id) ==
  LET list == IF id # 0 THEN proposals ELSE Append(proposals, newProposal(o, action, target, required))
      i == IF id # 0 THEN id ELSE Len(list)
  IN [proposals |-> [list EXCEPT ![i].approvals = @ \union {o}, ![i].status = "executed"],
      execute |-> TRUE]

(* Find or create the proposal, add the approval of the requester, and     *)
(* execute once every required approver has approved.                      *)
processGovernanceAction(o, action, target, required, id) ==
  LET found == matching(action, target, required)
      list == IF id # 0 \/ found # {} THEN proposals
              ELSE Append(proposals, newProposal(o, action, target, required))
      i == IF id # 0 THEN id ELSE IF found # {} THEN CHOOSE j \in found : TRUE ELSE Len(list)
      voted == [list EXCEPT ![i].approvals = @ \union {o}]
  IN IF \/ id # 0 /\ (list[i].action # action \/ list[i].target # target)
        \/ list[i].status = "executed"
        \/ o \notin list[i].required
       THEN [proposals |-> list, execute |-> FALSE]
     ELSE IF voted[i].required \subseteq voted[i].approvals
       THEN [proposals |-> [voted EXCEPT ![i].status = "executed"], execute |-> TRUE]
     ELSE [proposals |-> voted, execute |-> FALSE]

(* A request of operator o for an action on a target: what it decides is   *)
(* recorded, and the sanctions change only when the proposal is executed.  *)
decided(d) ==
  /\ Len(d.proposals) <= MaxProposals
  /\ proposals' = d.proposals
  /\ d.execute => Len(reports) < MaxReports
  /\ ~d.execute => UNCHANGED <<sanctions, reports>>
  /\ UNCHANGED events

-----------------------------------------------------------------------------
(* The governance endpoints. The early answers (nothing to lift, already   *)
(* sanctioned, deleted) come before the proposal.                          *)

unlock(o, t, id) ==
  LET d == processGovernanceAction(o, "unlock_admin", t, {}, id) IN
  /\ ensureGovernanceOperatorContext(o)
  /\ admins[t].frozen # 0
  /\ decided(d)
  /\ d.execute =>
       /\ admins' = [admins EXCEPT ![t].frozen = 0, ![t].warning = FALSE]
       /\ reports' = resolveReportObligation(reports, admins[t].frozen)
       /\ UNCHANGED <<revokedOps, users>>

revokeAccess(o, t, id) ==
  LET d == processGovernanceAction(o, "revoke_admin_access", t, {}, id)
      resolved == resolveReportObligation(reports, admins[t].frozen)
  IN
  /\ ensureGovernanceOperatorContext(o)
  /\ admins[t].revoked = 0
  /\ decided(d)
  /\ d.execute =>
       /\ reports' = createReportObligation(resolved, "revoke_access", t)
       /\ admins' = [admins EXCEPT ![t] = [frozen |-> 0, revoked |-> Len(reports) + 1, warning |-> FALSE]]
       /\ UNCHANGED <<revokedOps, users>>

restoreAccess(o, t, id) ==
  LET d == processGovernanceAction(o, "restore_admin_access", t, {}, id) IN
  /\ ensureGovernanceOperatorContext(o)
  /\ admins[t].revoked # 0
  /\ decided(d)
  /\ d.execute =>
       /\ admins' = [admins EXCEPT ![t].revoked = 0, ![t].warning = FALSE]
       /\ reports' = resolveReportObligation(reports, admins[t].revoked)
       /\ UNCHANGED <<revokedOps, users>>

(* The approvers of a revocation are the active operators but the target.  *)
revokeOperator(o, t, id) ==
  LET required == getActiveOperatorCommunityIds(o) \ {t}
      d == processGovernanceAction(o, "revoke_operator", t, required, id)
  IN
  /\ ensureGovernanceOperatorContext(o)
  /\ t # o /\ revokedOps[t] = 0 /\ required # {}
  /\ decided(d)
  /\ d.execute =>
       /\ revokedOps' = [revokedOps EXCEPT ![t] = Len(reports) + 1]
       /\ reports' = createReportObligation(reports, "operator_revoke", t)
       /\ UNCHANGED <<admins, users>>

restoreOperator(o, t, id) ==
  LET d == processGovernanceAction(o, "restore_operator", t, {}, id) IN
  /\ ensureGovernanceOperatorContext(o)
  /\ revokedOps[t] # 0
  /\ decided(d)
  /\ d.execute =>
       /\ revokedOps' = [revokedOps EXCEPT ![t] = 0]
       /\ reports' = resolveReportObligation(reports, revokedOps[t])
       /\ UNCHANGED <<admins, users>>

freezeUser(o, u, id) ==
  LET d == processGovernanceAction(o, "freeze_user", u, {}, id) IN
  /\ ensureGovernanceOperatorContext(o)
  /\ users[u].deleted = 0 /\ users[u].frozen = 0
  /\ decided(d)
  /\ d.execute =>
       /\ users' = [users EXCEPT ![u].frozen = Len(reports) + 1]
       /\ reports' = createReportObligation(reports, "user_freeze", u)
       /\ UNCHANGED <<revokedOps, admins>>

(* Mutant: the report of the freeze stays required.                        *)
UnfreezeKeepingReport(o, u, id) ==
  LET d == processGovernanceAction(o, "unfreeze_user", u, {}, id) IN
  /\ ensureGovernanceOperatorContext(o)
  /\ users[u].frozen # 0
  /\ decided(d)
  /\ d.execute =>
       /\ users' = [users EXCEPT ![u].frozen = 0]
       /\ UNCHANGED <<revokedOps, admins, reports>>

(* A deleted user is frozen too, and can be unfrozen.                      *)
unfreezeUser(o, u, id) ==
  LET d == processGovernanceAction(o, "unfreeze_user", u, {}, id) IN
  /\ ensureGovernanceOperatorContext(o)
  /\ users[u].frozen # 0
  /\ decided(d)
  /\ d.execute =>
       /\ users' = [users EXCEPT ![u].frozen = 0]
       /\ reports' = resolveReportObligation(reports, users[u].frozen)
       /\ UNCHANGED <<revokedOps, admins>>

(* Deletion replaces the freeze of the user and its report.                *)
deleteUser(o, u, id) ==
  LET d == processGovernanceAction(o, "delete_user", u, {}, id) IN
  /\ ensureGovernanceOperatorContext(o)
  /\ users[u].deleted = 0
  /\ decided(d)
  /\ d.execute =>
       /\ users' = [users EXCEPT ![u] = [frozen |-> Len(reports) + 1, deleted |-> Len(reports) + 1]]
       /\ reports' = createReportObligation(reports, "user_delete", u)
       /\ UNCHANGED <<revokedOps, admins>>

restoreUser(o, u, id) ==
  LET d == processGovernanceAction(o, "restore_user", u, {}, id) IN
  /\ ensureGovernanceOperatorContext(o)
  /\ users[u].deleted # 0
  /\ decided(d)
  /\ d.execute =>
       /\ users' = [users EXCEPT ![u] = [frozen |-> 0, deleted |-> 0]]
       /\ reports' = resolveReportObligation(reports, users[u].deleted)
       /\ UNCHANGED <<revokedOps, admins>>

(* A read of the security views, or a request that is refused.             *)
visit(o) ==
  /\ o \notin community
  /\ community' = community \union {o}
  /\ UNCHANGED <<sanctions, proposals, reports, events>>

-----------------------------------------------------------------------------
(* Events.                                                                 *)

enforceAdminFreeze(a) == admins[a].revoked = 0 /\ admins[a].frozen = 0

(* A keyword, the user agent or a burst of attempts may be suspicious.     *)
collectSuspiciousSignals == BOOLEAN

(* A valid create request. active: the pending warning has not expired;    *)
(* override: the caller goes on after a warning, which freezes it while    *)
(* that warning is active.                                                 *)
createEvent(a, active, override, signals) ==
  LET warned == admins[a].warning /\ active IN
  /\ enforceAdminFreeze(a)
  /\ \/ /\ override /\ warned
        /\ Len(reports) < MaxReports
        /\ admins' = [admins EXCEPT ![a].frozen = Len(reports) + 1, ![a].warning = FALSE]
        /\ reports' = createReportObligation(reports, "freeze", a)
        /\ UNCHANGED events
     \/ /\ ~(override /\ warned) /\ signals
        /\ admins' = [admins EXCEPT ![a].warning = TRUE]
        /\ UNCHANGED <<reports, events>>
     \/ /\ ~(override /\ warned) /\ ~signals
        /\ Len(events) < MaxEvents
        /\ admins' = [admins EXCEPT ![a].warning = warned]
        /\ events' = Append(events, TRUE)
        /\ UNCHANGED reports
  /\ UNCHANGED <<community, revokedOps, users, proposals>>

closeEvent(a, e) ==
  /\ enforceAdminFreeze(a)
  /\ e \in DOMAIN events /\ events[e]
  /\ events' = [events EXCEPT ![e] = FALSE]
  /\ UNCHANGED <<community, sanctions, proposals, reports>>

-----------------------------------------------------------------------------
OnAdmin(o, id) ==
  \E t \in Admins :
    \/ "unlock_admin" \in Actions /\ unlock(o, t, id)
    \/ "revoke_admin_access" \in Actions /\ revokeAccess(o, t, id)
    \/ "restore_admin_access" \in Actions /\ restoreAccess(o, t, id)

OnOperator(o, id) ==
  \E t \in Operators :
    \/ "revoke_operator" \in Actions /\ revokeOperator(o, t, id)
    \/ "restore_operator" \in Actions /\ restoreOperator(o, t, id)

OnUser(o, id) ==
  \E u \in Users :
    \/ "freeze_user" \in Actions /\ freezeUser(o, u, id)
    \/ "unfreeze_user" \in Actions /\ unfreezeUser(o, u, id)
    \/ "delete_user" \in Actions /\ deleteUser(o, u, id)
    \/ "restore_user" \in Actions /\ restoreUser(o, u, id)

Next ==
  \/ \E o \in Operators :
       \/ visit(o)
       \/ \E id \in 0..Len(proposals) : OnAdmin(o, id) \/ OnOperator(o, id) \/ OnUser(o, id)
  \/ \E a \in Admins :
       \/ \E active, override \in BOOLEAN, signals \in collectSuspiciousSignals :
            createEvent(a, active, override, signals)
       \/ \E e \in DOMAIN events : closeEvent(a, e)

Spec == Init /\ [][Next]_vars
-----------------------------------------------------------------------------
Active == {m \in community : revokedOps[m] = 0}

Proposal ==
  [action : GovernanceActions, target : Admins \union Operators \union Users,
   status : {"pending", "executed"}, approvals : SUBSET Operators,
   required : SUBSET Operators, asked : SUBSET Operators]

Report ==
  [type : {"freeze", "revoke_access", "operator_revoke", "user_freeze", "user_delete"},
   target : Admins \union Operators \union Users, status : {"required", "resolved"}]

TypeOK ==
  /\ community \subseteq Operators
  /\ proposals \in Seq(Proposal) /\ reports \in Seq(Report)
  /\ events \in Seq(BOOLEAN)
  /\ revokedOps \in [Operators -> 0..Len(reports)]
  /\ admins \in [Admins -> [frozen : 0..Len(reports), revoked : 0..Len(reports), warning : BOOLEAN]]
  /\ users \in [Users -> [frozen : 0..Len(reports), deleted : 0..Len(reports)]]

(* The step executes a proposal for one of the actions on the target, and  *)
(* whoever was active when it was made and still is has approved it.       *)
ExecutesOn(target, actions) ==
  \E i \in DOMAIN proposals' :
    LET p == proposals'[i] IN
    /\ p.status = "executed" /\ p.target = target /\ p.action \in actions
    /\ i \in DOMAIN proposals => proposals[i].status = "pending"
    /\ (p.asked \intersect Active) \ {target} \subseteq p.approvals

(* Operators, users and the access of admins are sanctioned, and every     *)
(* sanction lifted, only by a step that executes a proposal for that       *)
(* action and target with the approval of all (schoolApi.test.ts: "only    *)
(* with unanimous approvals"); an admin is frozen only after a warning.    *)
SanctionsByConsensus ==
  [][ /\ \A o \in Operators : revokedOps'[o] # revokedOps[o] =>
            ExecutesOn(o, {"revoke_operator", "restore_operator"})
      /\ \A u \in Users : users'[u] # users[u] =>
            ExecutesOn(u, {"freeze_user", "unfreeze_user", "delete_user", "restore_user"})
      /\ \A a \in Admins :
           /\ admins'[a].revoked # admins[a].revoked =>
                ExecutesOn(a, {"revoke_admin_access", "restore_admin_access"})
           /\ admins'[a].frozen # admins[a].frozen =>
                \/ admins[a].frozen = 0 /\ admins[a].warning
                \/ ExecutesOn(a, {"unlock_admin", "revoke_admin_access"}) ]_vars

Backs(r, type, target) ==
  r # 0 => reports[r] = [type |-> type, target |-> target, status |-> "required"]

Standing ==
  {revokedOps[o] : o \in Operators}
    \union (UNION {{admins[a].frozen, admins[a].revoked} : a \in Admins})
    \union (UNION {{users[u].frozen, users[u].deleted} : u \in Users})

(* Every standing sanction names its own required report, and every        *)
(* required report is named by a standing sanction. Two exceptions of the  *)
(* code: deleting a frozen user drops the report of the freeze, and        *)
(* unfreezing a deleted user resolves the report of the deletion.          *)
ReportsMatchSanctions ==
  /\ \A o \in Operators : Backs(revokedOps[o], "operator_revoke", o)
  /\ \A a \in Admins : /\ Backs(admins[a].frozen, "freeze", a)
                       /\ Backs(admins[a].revoked, "revoke_access", a)
  /\ \A u \in Users :
       IF users[u].deleted = 0 THEN Backs(users[u].frozen, "user_freeze", u)
       ELSE /\ users[u].frozen \in {0, users[u].deleted}
            /\ Backs(users[u].frozen, "user_delete", u)
  /\ \A r \in DOMAIN reports :
       reports[r].status = "required" =>
         \/ r \in Standing
         \/ /\ reports[r].type = "user_freeze"
            /\ \E q \in (r + 1)..Len(reports) :
                 reports[q].type = "user_delete" /\ reports[q].target = reports[r].target

(* However operators revoke each other, one that may act is left           *)
(* (v1School.ts: 'last active operator cannot be revoked').                *)
NeverLeaderless == community # {} => Active # {}
=============================================================================

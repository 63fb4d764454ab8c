-------------------------- MODULE GovernanceProofs --------------------------
(***************************************************************************)
(* Proofs about Governance for any number of operators, admins, users,     *)
(* proposals and reports: sanctions change by consensus only, every        *)
(* sanction is owed the report it names, and the community always keeps an *)
(* operator that may act.                                                  *)
(***************************************************************************)
EXTENDS Governance, SequenceTheorems, TLAPS

Targets == Admins \union Operators \union Users

(* Whoever a proposal asked is a required approver, or its target. It is   *)
(* what makes the approval of all required approvers the approval of all.  *)
AskedRequired(list) ==
  \A i \in DOMAIN list : list[i].asked \ {list[i].target} \subseteq list[i].required

-----------------------------------------------------------------------------
(* Proposals.                                                              *)

(* A proposal a request puts down asks and requires the active operators,  *)
(* without the target where that is an operator to be revoked.             *)
LEMMA NewProposalFacts ==
  ASSUME TypeOK, NEW o \in Operators, revokedOps[o] = 0,
         NEW action \in GovernanceActions, NEW target \in Targets,
         NEW required, required = {} \/ required = getActiveOperatorCommunityIds(o) \ {target}
  PROVE  LET p == newProposal(o, action, target, required)
         IN /\ p \in Proposal
            /\ p.status = "pending" /\ p.action = action /\ p.target = target
            /\ p.asked \ {target} \subseteq p.required
<1> DEFINE p == newProposal(o, action, target, required)
<1>1. getActiveOperatorCommunityIds(o) \subseteq Operators
  BY DEF TypeOK, getActiveOperatorCommunityIds
<1>2. p.required \subseteq Operators /\ p.asked \subseteq Operators
  BY <1>1 DEF TypeOK, newProposal
<1>3. p \in Proposal
  BY <1>2 DEF newProposal, Proposal, Targets
<1>4. p.asked \ {target} \subseteq p.required
  BY DEF newProposal, getActiveOperatorCommunityIds
<1> QED
  BY <1>3, <1>4 DEF newProposal

(* A vote changes the approvals of one proposal, an execution its status.  *)
votedFor(p, o, status) ==
  [action |-> p.action, target |-> p.target, status |-> status, approvals |-> p.approvals \union {o},
   required |-> p.required, asked |-> p.asked]

LEMMA VotedRecord ==
  ASSUME NEW p \in Proposal, p.status = "pending", NEW o
  PROVE  /\ [p EXCEPT !.approvals = @ \union {o}] = votedFor(p, o, "pending")
         /\ [votedFor(p, o, "pending") EXCEPT !.status = "executed"] = votedFor(p, o, "executed")
BY DEF Proposal, votedFor

LEMMA VoteFacts ==
  ASSUME NEW list \in Seq(Proposal), NEW i \in DOMAIN list, NEW o \in Operators,
         NEW status \in {"pending", "executed"}, AskedRequired(list),
         NEW voted, voted = [list EXCEPT ![i] = votedFor(list[i], o, status)]
  PROVE  /\ voted \in Seq(Proposal) /\ DOMAIN voted = DOMAIN list
         /\ AskedRequired(voted)
         /\ voted[i] = votedFor(list[i], o, status)
<1>1. list[i] \in Proposal /\ DOMAIN list = 1..Len(list)
  OBVIOUS
<1>2. votedFor(list[i], o, status) \in Proposal
  BY <1>1 DEF Proposal, votedFor
<1>3. /\ voted \in Seq(Proposal) /\ Len(voted) = Len(list)
      /\ \A j \in 1..Len(list) : voted[j] = IF j = i THEN votedFor(list[i], o, status) ELSE list[j]
  BY <1>1, <1>2, ExceptSeq
<1>4. DOMAIN voted = DOMAIN list /\ voted[i] = votedFor(list[i], o, status)
  BY <1>1, <1>3
<1>5. AskedRequired(voted)
  BY <1>1, <1>3, <1>4 DEF AskedRequired, votedFor
<1> QED
  BY <1>3, <1>4, <1>5

(* What a request decides. An execution is of a proposal for this action   *)
(* and target that was pending, with the approval of all it requires.      *)
LEMMA DecideFacts ==
  ASSUME TypeOK, AskedRequired(proposals), NEW o \in Operators, revokedOps[o] = 0,
         NEW action \in GovernanceActions, NEW target \in Targets,
         NEW required, required = {} \/ required = getActiveOperatorCommunityIds(o) \ {target},
         NEW id \in 0..Len(proposals)
  PROVE  LET d == processGovernanceAction(o, action, target, required, id)
         IN /\ d.proposals \in Seq(Proposal) /\ AskedRequired(d.proposals)
            /\ d.execute \in BOOLEAN
            /\ d.execute => \E i \in DOMAIN d.proposals :
                 LET p == d.proposals[i] IN
                 /\ p.status = "executed" /\ p.target = target /\ p.action = action
                 /\ i \in DOMAIN proposals => proposals[i].status = "pending"
                 /\ p.asked \ {target} \subseteq p.approvals
<1> DEFINE found == matching(action, target, required)
           new == newProposal(o, action, target, required)
           list == IF id # 0 \/ found # {} THEN proposals ELSE Append(proposals, new)
           i == IF id # 0 THEN id ELSE IF found # {} THEN CHOOSE j \in found : TRUE ELSE Len(list)
           voted == [list EXCEPT ![i].approvals = @ \union {o}]
           refused == \/ id # 0 /\ (list[i].action # action \/ list[i].target # target)
                      \/ list[i].status = "executed"
                      \/ o \notin list[i].required
           d == processGovernanceAction(o, action, target, required, id)
<1>1. /\ new \in Proposal /\ new.status = "pending" /\ new.action = action /\ new.target = target
      /\ new.asked \ {target} \subseteq new.required
  BY NewProposalFacts
<1>2. d = IF refused THEN [proposals |-> list, execute |-> FALSE]
          ELSE IF voted[i].required \subseteq voted[i].approvals
            THEN [proposals |-> [voted EXCEPT ![i].status = "executed"], execute |-> TRUE]
          ELSE [proposals |-> voted, execute |-> FALSE]
  BY DEF processGovernanceAction
<1>3. proposals \in Seq(Proposal) /\ DOMAIN proposals = 1..Len(proposals) /\ Len(proposals) \in Nat
  BY DEF TypeOK
<1>4. found # {} => /\ (CHOOSE j \in found : TRUE) \in found
                    /\ \A j \in found : /\ j \in DOMAIN proposals /\ proposals[j].status = "pending"
                                        /\ proposals[j].action = action /\ proposals[j].target = target
  BY DEF matching
<1> HIDE DEF found, new, d
<1>5. /\ list \in Seq(Proposal) /\ AskedRequired(list) /\ i \in DOMAIN list
      /\ i \in DOMAIN proposals => list[i] = proposals[i]
      /\ id = 0 => list[i].action = action /\ list[i].target = target
  <2>1. CASE id # 0
    BY <2>1, <1>3
  <2>2. CASE id = 0 /\ found # {}
    BY <2>2, <1>3, <1>4
  <2>3. CASE id = 0 /\ found = {}
    <3>1. /\ list = Append(proposals, new) /\ i = Len(list)
      BY <2>3
    <3> HIDE DEF list, i
    <3>2. /\ list \in Seq(Proposal) /\ Len(list) = Len(proposals) + 1
          /\ DOMAIN list = 1..(Len(proposals) + 1)
          /\ \A j \in 1..Len(proposals) : list[j] = proposals[j]
          /\ list[Len(proposals) + 1] = new
      BY <3>1, <1>1, <1>3
    <3>3. i = Len(proposals) + 1 /\ list[i] = new /\ i \in DOMAIN list /\ i \notin DOMAIN proposals
      BY <3>1, <3>2, <1>3
    <3>4. AskedRequired(list)
      BY <3>2, <3>3, <1>1, <1>3 DEF AskedRequired
    <3> QED
      BY <2>3, <3>2, <3>3, <3>4, <1>1
  <2> QED
    BY <2>1, <2>2, <2>3
<1> HIDE DEF list, i
<1>6. CASE refused
  <2>1. d.proposals = list /\ d.execute = FALSE
    BY <1>2, <1>6
  <2> QED
    BY <1>5, <2>1 DEF d
<1>7. CASE ~refused
  <2>1. list[i] \in Proposal
    BY <1>5
  <2>2. list[i].status = "pending"
    BY <2>1, <1>7 DEF Proposal
  <2>3. list[i].action = action /\ list[i].target = target
    BY <1>5, <1>7
  <2> HIDE DEF refused
  <2>4. /\ [list[i] EXCEPT !.approvals = @ \union {o}] = votedFor(list[i], o, "pending")
        /\ [votedFor(list[i], o, "pending") EXCEPT !.status = "executed"]
             = votedFor(list[i], o, "executed")
    BY <2>1, <2>2, VotedRecord
  <2>5. voted = [list EXCEPT ![i] = votedFor(list[i], o, "pending")]
    BY <2>4, <1>5
  <2> HIDE DEF voted
  <2>6. /\ voted \in Seq(Proposal) /\ AskedRequired(voted) /\ DOMAIN voted = DOMAIN list
        /\ voted[i] = votedFor(list[i], o, "pending")
    BY <2>5, <1>5, VoteFacts
  <2> DEFINE done == [voted EXCEPT ![i].status = "executed"]
  <2>7. done = [list EXCEPT ![i] = votedFor(list[i], o, "executed")]
    BY <2>4, <2>5, <2>6, <1>5
  <2>8. /\ done \in Seq(Proposal) /\ AskedRequired(done) /\ DOMAIN done = DOMAIN list
        /\ done[i] = votedFor(list[i], o, "executed")
    <3> HIDE DEF done
    <3> QED
      BY <2>7, <1>5, VoteFacts
  <2>9. CASE voted[i].required \subseteq voted[i].approvals
    <3>1. d.proposals = done /\ d.execute = TRUE
      BY <1>2, <1>7, <2>9
    <3> HIDE DEF done
    <3>2. list[i].asked \ {target} \subseteq list[i].required
      BY <1>5, <2>3 DEF AskedRequired
    <3>3. done[i].asked \ {target} \subseteq done[i].approvals
      BY <3>2, <2>6, <2>8, <2>9 DEF votedFor
    <3>4. done[i].status = "executed" /\ done[i].target = target /\ done[i].action = action
      BY <2>3, <2>8 DEF votedFor
    <3> QED
      BY <3>1, <3>3, <3>4, <2>2, <2>8, <1>5 DEF d
  <2>10. CASE ~(voted[i].required \subseteq voted[i].approvals)
    <3>1. d.proposals = voted /\ d.execute = FALSE
      BY <1>2, <1>7, <2>10
    <3> QED
      BY <3>1, <2>6 DEF d
  <2> QED
    BY <2>9, <2>10
<1> QED
  BY <1>6, <1>7

(* What every governance endpoint does, whatever it decides.               *)
Acted(o) ==
  /\ proposals' \in Seq(Proposal) /\ AskedRequired(proposals') /\ events' = events
  /\ revokedOps[o] = 0 /\ community' = community \union {o} /\ community' \subseteq Operators

(* The step of a governance endpoint up to what the execution itself does. *)
LEMMA DecidedFacts ==
  ASSUME TypeOK, AskedRequired(proposals), NEW o \in Operators,
         ensureGovernanceOperatorContext(o),
         NEW action \in GovernanceActions, NEW target \in Targets,
         NEW required, required = {} \/ required = getActiveOperatorCommunityIds(o) \ {target},
         NEW id \in 0..Len(proposals),
         NEW d, d = processGovernanceAction(o, action, target, required, id), decided(d)
  PROVE  /\ Acted(o) /\ d.execute \in BOOLEAN
         /\ ~d.execute => revokedOps' = revokedOps /\ admins' = admins /\ users' = users
                            /\ reports' = reports
         /\ d.execute => \A actions : action \in actions => ExecutesOn(target, actions)
<1>1. revokedOps[o] = 0 /\ community' = community \union {o} /\ community' \subseteq Operators
  BY DEF ensureGovernanceOperatorContext, TypeOK
<1>2. proposals' = d.proposals /\ events' = events
  BY DEF decided
<1>3. ~d.execute => revokedOps' = revokedOps /\ admins' = admins /\ users' = users
                    /\ reports' = reports
  BY DEF decided, sanctions
<1>4. /\ d.proposals \in Seq(Proposal) /\ AskedRequired(d.proposals)
      /\ d.execute \in BOOLEAN
      /\ d.execute => \E i \in DOMAIN d.proposals :
           LET p == d.proposals[i] IN
           /\ p.status = "executed" /\ p.target = target /\ p.action = action
           /\ i \in DOMAIN proposals => proposals[i].status = "pending"
           /\ p.asked \ {target} \subseteq p.approvals
  BY <1>1, DecideFacts
<1>5. ASSUME d.execute, NEW actions, action \in actions
      PROVE  ExecutesOn(target, actions)
  BY <1>2, <1>4, <1>5 DEF ExecutesOn
<1> QED
  BY <1>1, <1>2, <1>3, <1>4, <1>5 DEF Acted

-----------------------------------------------------------------------------
(* Reports.                                                                *)

LEMMA ResolveFacts ==
  ASSUME NEW list \in Seq(Report), NEW id,
         NEW new, new = resolveReportObligation(list, id)
  PROVE  /\ new \in Seq(Report) /\ Len(new) = Len(list)
         /\ \A i \in 1..Len(list) :
              /\ new[i].type = list[i].type /\ new[i].target = list[i].target
              /\ i # id => new[i] = list[i]
              /\ i = id => new[i].status = "resolved"
<1>1. DOMAIN list = 1..Len(list) /\ Len(list) \in Nat
  OBVIOUS
<1>2. ASSUME NEW i \in 1..Len(list)
      PROVE  /\ new[i] \in Report
             /\ new[i].type = list[i].type /\ new[i].target = list[i].target
             /\ i # id => new[i] = list[i]
             /\ i = id => new[i].status = "resolved"
  <2>1. list[i] \in Report /\ i \in DOMAIN list
    BY <1>1
  <2>2. new[i] = IF i = id THEN [list[i] EXCEPT !.status = "resolved"] ELSE list[i]
    BY <2>1 DEF resolveReportObligation
  <2> QED
    BY <2>1, <2>2 DEF Report
<1>3. new \in Seq(Report) /\ Len(new) = Len(list)
  <2>1. DOMAIN new = 1..Len(list)
    BY <1>1 DEF resolveReportObligation
  <2>2. new = [i \in 1..Len(list) |-> new[i]]
    BY <1>1 DEF resolveReportObligation
  <2> QED
    BY <1>1, <1>2, <2>1, <2>2
<1> QED
  BY <1>2, <1>3

ReportTypes == {"freeze", "revoke_access", "operator_revoke", "user_freeze", "user_delete"}

LEMMA CreateFacts ==
  ASSUME NEW list \in Seq(Report), NEW target \in Targets, NEW type \in ReportTypes,
         NEW new, new = createReportObligation(list, type, target)
  PROVE  /\ new \in Seq(Report) /\ Len(new) = Len(list) + 1 /\ Len(list) \in Nat
         /\ \A i \in 1..Len(list) : new[i] = list[i]
         /\ new[Len(list) + 1] = [type |-> type, target |-> target, status |-> "required"]
<1>1. [type |-> type, target |-> target, status |-> "required"] \in Report
  BY DEF Report, Targets, ReportTypes
<1> QED
  BY <1>1 DEF createReportObligation

-----------------------------------------------------------------------------
(* Reports and sanctions.                                                  *)

AdminStates(n) == [frozen : 0..n, revoked : 0..n, warning : BOOLEAN]
UserStates(n) == [frozen : 0..n, deleted : 0..n]

BackedBy(list, r, type, target) ==
  r # 0 => /\ list[r].type = type /\ list[r].target = target /\ list[r].status = "required"

(* Also of the report that a deletion names and an unfreezing resolved.    *)
About(list, r, type, target) == r # 0 => list[r].type = type /\ list[r].target = target

BackedUser(list, s, u) ==
  IF s.deleted = 0 THEN BackedBy(list, s.frozen, "user_freeze", u)
  ELSE /\ s.frozen \in {0, s.deleted}
       /\ BackedBy(list, s.frozen, "user_delete", u)

(* The freeze of a user that was deleted later.                            *)
Superseded(list, r) ==
  /\ list[r].type = "user_freeze"
  /\ \E q \in (r + 1)..Len(list) : list[q].type = "user_delete" /\ list[q].target = list[r].target

(* ReportsMatchSanctions of given sanctions and reports, point by point.   *)
Match(ops, ads, us, list) ==
  /\ \A o \in Operators : BackedBy(list, ops[o], "operator_revoke", o)
  /\ \A a \in Admins : /\ BackedBy(list, ads[a].frozen, "freeze", a)
                       /\ BackedBy(list, ads[a].revoked, "revoke_access", a)
  /\ \A u \in Users : BackedUser(list, us[u], u) /\ About(list, us[u].deleted, "user_delete", u)
  /\ \A r \in 1..Len(list) : list[r].status = "required" =>
       \/ \E o \in Operators : ops[o] = r
       \/ \E a \in Admins : ads[a].frozen = r \/ ads[a].revoked = r
       \/ \E u \in Users : us[u].frozen = r \/ us[u].deleted = r
       \/ Superseded(list, r)

Typed(ops, ads, us, list) ==
  /\ list \in Seq(Report) /\ ops \in [Operators -> 0..Len(list)]
  /\ ads \in [Admins -> AdminStates(Len(list))] /\ us \in [Users -> UserStates(Len(list))]

(* What resolving one report leaves as it is: sanctions of another type or *)
(* target than the report's.                                               *)
LEMMA ResolveOthers ==
  ASSUME NEW list \in Seq(Report), NEW id, NEW kind, NEW whom, About(list, id, kind, whom),
         NEW new, new = resolveReportObligation(list, id)
  PROVE  /\ Len(new) = Len(list) /\ Len(list) \in Nat
         /\ \A r \in 0..Len(list) : \A type, target :
              BackedBy(list, r, type, target) /\ (type # kind \/ target # whom)
                => BackedBy(new, r, type, target)
         /\ \A r \in 0..Len(list) : \A type, target :
              About(list, r, type, target) => About(new, r, type, target)
         /\ \A r \in 1..Len(list) :
              /\ new[r].status = "required" => r # id /\ list[r].status = "required"
              /\ Superseded(list, r) => Superseded(new, r)
<1>1. /\ new \in Seq(Report) /\ Len(new) = Len(list) /\ Len(list) \in Nat
      /\ \A i \in 1..Len(list) :
              /\ new[i].type = list[i].type /\ new[i].target = list[i].target
              /\ i # id => new[i] = list[i]
              /\ i = id => new[i].status = "resolved"
  BY ResolveFacts
<1>2. \A r \in 0..Len(list) : \A type, target :
         BackedBy(list, r, type, target) /\ (type # kind \/ target # whom)
           => BackedBy(new, r, type, target)
  BY <1>1 DEF BackedBy, About
<1>3. \A r \in 1..Len(list) : new[r].status = "required" => r # id /\ list[r].status = "required"
  BY <1>1
<1>4. \A r \in 1..Len(list) : Superseded(list, r) => Superseded(new, r)
  BY <1>1 DEF Superseded
<1>5. \A r \in 0..Len(list) : \A type, target : About(list, r, type, target) => About(new, r, type, target)
  BY <1>1 DEF About
<1> QED
  BY <1>1, <1>2, <1>3, <1>4, <1>5

LEMMA CreateOthers ==
  ASSUME NEW list \in Seq(Report), NEW target \in Targets, NEW type \in ReportTypes,
         NEW new, new = createReportObligation(list, type, target)
  PROVE  /\ Len(new) = Len(list) + 1 /\ Len(list) \in Nat
         /\ \A r \in 0..Len(list) : \A y, x : BackedBy(list, r, y, x) => BackedBy(new, r, y, x)
         /\ \A r \in 0..Len(list) : \A y, x : About(list, r, y, x) => About(new, r, y, x)
         /\ BackedBy(new, Len(list) + 1, type, target) /\ About(new, Len(list) + 1, type, target)
         /\ \A r \in 1..Len(list) :
              /\ new[r] = list[r]
              /\ Superseded(list, r) => Superseded(new, r)
              /\ /\ list[r].type = "user_freeze" /\ type = "user_delete" /\ list[r].target = target
                 => Superseded(new, r)
<1>1. /\ new \in Seq(Report) /\ Len(new) = Len(list) + 1 /\ Len(list) \in Nat
      /\ \A i \in 1..Len(list) : new[i] = list[i]
      /\ new[Len(list) + 1] = [type |-> type, target |-> target, status |-> "required"]
  BY CreateFacts
<1>2. /\ \A r \in 0..Len(list) : \A y, x : BackedBy(list, r, y, x) => BackedBy(new, r, y, x)
      /\ \A r \in 0..Len(list) : \A y, x : About(list, r, y, x) => About(new, r, y, x)
  BY <1>1 DEF BackedBy, About
<1>3. BackedBy(new, Len(list) + 1, type, target) /\ About(new, Len(list) + 1, type, target)
  BY <1>1 DEF BackedBy, About
<1>4. \A r \in 1..Len(list) :
         /\ Superseded(list, r) => Superseded(new, r)
         /\ /\ list[r].type = "user_freeze" /\ type = "user_delete" /\ list[r].target = target
            => Superseded(new, r)
  BY <1>1 DEF Superseded
<1> QED
  BY <1>1, <1>2, <1>3, <1>4

LEMMA NoneBacked ==
  \A list, type, target : BackedBy(list, 0, type, target) /\ About(list, 0, type, target)
BY DEF BackedBy, About

LEMMA TypedFacts ==
  ASSUME NEW ops, NEW ads, NEW us, NEW list, Typed(ops, ads, us, list)
  PROVE  /\ list \in Seq(Report)
         /\ \A o \in Operators : ops[o] \in 0..Len(list)
         /\ \A a \in Admins : ads[a].frozen \in 0..Len(list) /\ ads[a].revoked \in 0..Len(list)
         /\ \A u \in Users : us[u].frozen \in 0..Len(list) /\ us[u].deleted \in 0..Len(list)
BY DEF Typed, AdminStates, UserStates

(* A sanction is lifted, and with it its report resolved: every other      *)
(* sanction names a report of another type or target.                      *)
LEMMA LiftOperator ==
  ASSUME NEW ops, NEW ads, NEW us, NEW list, Typed(ops, ads, us, list), Match(ops, ads, us, list),
         NEW t \in Operators, NEW new, new = resolveReportObligation(list, ops[t]),
         NEW ops2, ops2 = [ops EXCEPT ![t] = 0]
  PROVE  Match(ops2, ads, us, new)
<1> DEFINE kind == "operator_revoke"
<1>1. /\ Len(new) = Len(list) /\ Len(list) \in Nat
      /\ \A r \in 0..Len(list) : \A type, target :
           BackedBy(list, r, type, target) /\ (type # kind \/ target # t)
             => BackedBy(new, r, type, target)
      /\ \A r \in 0..Len(list) : \A type, target :
           About(list, r, type, target) => About(new, r, type, target)
      /\ \A r \in 1..Len(list) :
           /\ new[r].status = "required" => r # ops[t] /\ list[r].status = "required"
           /\ Superseded(list, r) => Superseded(new, r)
  <2>1. list \in Seq(Report) /\ About(list, ops[t], kind, t)
    BY DEF Typed, Match, BackedBy, About, BackedUser
  <2> HIDE DEF kind
  <2> QED
    BY <2>1, ResolveOthers
<1>2. /\ \A o \in Operators : ops2[o] = IF o = t THEN 0 ELSE ops[o]
      /\ \A o \in Operators : ops[o] \in 0..Len(list)
      /\ \A a \in Admins : ads[a].frozen \in 0..Len(list) /\ ads[a].revoked \in 0..Len(list)
      /\ \A u \in Users : us[u].frozen \in 0..Len(list) /\ us[u].deleted \in 0..Len(list)
  BY TypedFacts DEF Typed
<1>3. ASSUME NEW o \in Operators PROVE BackedBy(new, ops2[o], "operator_revoke", o)
  <2>1. CASE o = t
    BY <2>1, <1>1, <1>2, NoneBacked DEF Match
  <2>2. CASE o # t
    BY <2>2, <1>1, <1>2 DEF Match
  <2> QED
    BY <2>1, <2>2
<1>4. ASSUME NEW a \in Admins PROVE /\ BackedBy(new, ads[a].frozen, "freeze", a)
                                   /\ BackedBy(new, ads[a].revoked, "revoke_access", a)
  BY <1>1, <1>2 DEF Match
<1>5. ASSUME NEW u \in Users PROVE /\ BackedUser(new, us[u], u)
                                  /\ About(new, us[u].deleted, "user_delete", u)
  BY <1>1, <1>2 DEF Match, BackedUser
<1>6. ASSUME NEW r \in 1..Len(new), new[r].status = "required"
      PROVE  \/ \E o \in Operators : ops2[o] = r
             \/ \E a \in Admins : ads[a].frozen = r \/ ads[a].revoked = r
             \/ \E u \in Users : us[u].frozen = r \/ us[u].deleted = r
             \/ Superseded(new, r)
  BY <1>1, <1>2, <1>6 DEF Match
<1> QED
  BY <1>3, <1>4, <1>5, <1>6 DEF Match

LEMMA LiftFreeze ==
  ASSUME NEW ops, NEW ads, NEW us, NEW list, Typed(ops, ads, us, list), Match(ops, ads, us, list),
         NEW t \in Admins, NEW new, new = resolveReportObligation(list, ads[t].frozen),
         NEW ads2,
         ads2 = [ads EXCEPT ![t] = [frozen |-> 0, revoked |-> ads[t].revoked, warning |-> FALSE]]
  PROVE  Match(ops, ads2, us, new)
<1> DEFINE kind == "freeze"
<1>1. /\ Len(new) = Len(list) /\ Len(list) \in Nat
      /\ \A r \in 0..Len(list) : \A type, target :
           BackedBy(list, r, type, target) /\ (type # kind \/ target # t)
             => BackedBy(new, r, type, target)
      /\ \A r \in 0..Len(list) : \A type, target :
           About(list, r, type, target) => About(new, r, type, target)
      /\ \A r \in 1..Len(list) :
           /\ new[r].status = "required" => r # ads[t].frozen /\ list[r].status = "required"
           /\ Superseded(list, r) => Superseded(new, r)
  <2>1. list \in Seq(Report) /\ About(list, ads[t].frozen, kind, t)
    BY DEF Typed, Match, BackedBy, About, BackedUser
  <2> HIDE DEF kind
  <2> QED
    BY <2>1, ResolveOthers
<1>2. /\ \A a \in Admins : ads2[a] = IF a = t 
                                       THEN [frozen |-> 0, revoked |-> ads[t].revoked, warning |-> FALSE]
                                       ELSE ads[a]
      /\ \A o \in Operators : ops[o] \in 0..Len(list)
      /\ \A a \in Admins : ads[a].frozen \in 0..Len(list) /\ ads[a].revoked \in 0..Len(list)
      /\ \A u \in Users : us[u].frozen \in 0..Len(list) /\ us[u].deleted \in 0..Len(list)
  BY TypedFacts DEF Typed
<1>3. ASSUME NEW o \in Operators PROVE BackedBy(new, ops[o], "operator_revoke", o)
  BY <1>1, <1>2 DEF Match
<1>4. ASSUME NEW a \in Admins PROVE /\ BackedBy(new, ads2[a].frozen, "freeze", a)
                                   /\ BackedBy(new, ads2[a].revoked, "revoke_access", a)
  <2>1. CASE a = t
    BY <2>1, <1>1, <1>2, NoneBacked DEF Match
  <2>2. CASE a # t
    BY <2>2, <1>1, <1>2 DEF Match
  <2> QED
    BY <2>1, <2>2
<1>5. ASSUME NEW u \in Users PROVE /\ BackedUser(new, us[u], u)
                                  /\ About(new, us[u].deleted, "user_delete", u)
  BY <1>1, <1>2 DEF Match, BackedUser
<1>6. ASSUME NEW r \in 1..Len(new), new[r].status = "required"
      PROVE  \/ \E o \in Operators : ops[o] = r
             \/ \E a \in Admins : ads2[a].frozen = r \/ ads2[a].revoked = r
             \/ \E u \in Users : us[u].frozen = r \/ us[u].deleted = r
             \/ Superseded(new, r)
  BY <1>1, <1>2, <1>6 DEF Match
<1> QED
  BY <1>3, <1>4, <1>5, <1>6 DEF Match

LEMMA LiftRevocation ==
  ASSUME NEW ops, NEW ads, NEW us, NEW list, Typed(ops, ads, us, list), Match(ops, ads, us, list),
         NEW t \in Admins, NEW new, new = resolveReportObligation(list, ads[t].revoked),
         NEW ads2,
         ads2 = [ads EXCEPT ![t] = [frozen |-> ads[t].frozen, revoked |-> 0, warning |-> FALSE]]
  PROVE  Match(ops, ads2, us, new)
<1> DEFINE kind == "revoke_access"
<1>1. /\ Len(new) = Len(list) /\ Len(list) \in Nat
      /\ \A r \in 0..Len(list) : \A type, target :
           BackedBy(list, r, type, target) /\ (type # kind \/ target # t)
             => BackedBy(new, r, type, target)
      /\ \A r \in 0..Len(list) : \A type, target :
           About(list, r, type, target) => About(new, r, type, target)
      /\ \A r \in 1..Len(list) :
           /\ new[r].status = "required" => r # ads[t].revoked /\ list[r].status = "required"
           /\ Superseded(list, r) => Superseded(new, r)
  <2>1. list \in Seq(Report) /\ About(list, ads[t].revoked, kind, t)
    BY DEF Typed, Match, BackedBy, About, BackedUser
  <2> HIDE DEF kind
  <2> QED
    BY <2>1, ResolveOthers
<1>2. /\ \A a \in Admins : ads2[a] = IF a = t 
                                       THEN [frozen |-> ads[t].frozen, revoked |-> 0, warning |-> FALSE]
                                       ELSE ads[a]
      /\ \A o \in Operators : ops[o] \in 0..Len(list)
      /\ \A a \in Admins : ads[a].frozen \in 0..Len(list) /\ ads[a].revoked \in 0..Len(list)
      /\ \A u \in Users : us[u].frozen \in 0..Len(list) /\ us[u].deleted \in 0..Len(list)
  BY TypedFacts DEF Typed
<1>3. ASSUME NEW o \in Operators PROVE BackedBy(new, ops[o], "operator_revoke", o)
  BY <1>1, <1>2 DEF Match
<1>4. ASSUME NEW a \in Admins PROVE /\ BackedBy(new, ads2[a].frozen, "freeze", a)
                                   /\ BackedBy(new, ads2[a].revoked, "revoke_access", a)
  <2>1. CASE a = t
    BY <2>1, <1>1, <1>2, NoneBacked DEF Match
  <2>2. CASE a # t
    BY <2>2, <1>1, <1>2 DEF Match
  <2> QED
    BY <2>1, <2>2
<1>5. ASSUME NEW u \in Users PROVE /\ BackedUser(new, us[u], u)
                                  /\ About(new, us[u].deleted, "user_delete", u)
  BY <1>1, <1>2 DEF Match, BackedUser
<1>6. ASSUME NEW r \in 1..Len(new), new[r].status = "required"
      PROVE  \/ \E o \in Operators : ops[o] = r
             \/ \E a \in Admins : ads2[a].frozen = r \/ ads2[a].revoked = r
             \/ \E u \in Users : us[u].frozen = r \/ us[u].deleted = r
             \/ Superseded(new, r)
  BY <1>1, <1>2, <1>6 DEF Match
<1> QED
  BY <1>3, <1>4, <1>5, <1>6 DEF Match

LEMMA LiftUserFreeze ==
  ASSUME NEW ops, NEW ads, NEW us, NEW list, Typed(ops, ads, us, list), Match(ops, ads, us, list),
         NEW t \in Users, NEW new, new = resolveReportObligation(list, us[t].frozen),
         NEW us2, us2 = [us EXCEPT ![t] = [frozen |-> 0, deleted |-> us[t].deleted]]
  PROVE  Match(ops, ads, us2, new)
<1> DEFINE kind == IF us[t].deleted = 0 THEN "user_freeze" ELSE "user_delete"
<1>1. /\ Len(new) = Len(list) /\ Len(list) \in Nat
      /\ \A r \in 0..Len(list) : \A type, target :
           BackedBy(list, r, type, target) /\ (type # kind \/ target # t)
             => BackedBy(new, r, type, target)
      /\ \A r \in 0..Len(list) : \A type, target :
           About(list, r, type, target) => About(new, r, type, target)
      /\ \A r \in 1..Len(list) :
           /\ new[r].status = "required" => r # us[t].frozen /\ list[r].status = "required"
           /\ Superseded(list, r) => Superseded(new, r)
  <2>1. list \in Seq(Report) /\ About(list, us[t].frozen, kind, t)
    BY DEF Typed, Match, BackedBy, About, BackedUser
  <2> HIDE DEF kind
  <2> QED
    BY <2>1, ResolveOthers
<1>2. /\ \A u \in Users : us2[u] = IF u = t 
                                     THEN [frozen |-> 0, deleted |-> us[t].deleted]
                                     ELSE us[u]
      /\ \A o \in Operators : ops[o] \in 0..Len(list)
      /\ \A a \in Admins : ads[a].frozen \in 0..Len(list) /\ ads[a].revoked \in 0..Len(list)
      /\ \A u \in Users : us[u].frozen \in 0..Len(list) /\ us[u].deleted \in 0..Len(list)
  BY TypedFacts DEF Typed
<1>3. ASSUME NEW o \in Operators PROVE BackedBy(new, ops[o], "operator_revoke", o)
  BY <1>1, <1>2 DEF Match
<1>4. ASSUME NEW a \in Admins PROVE /\ BackedBy(new, ads[a].frozen, "freeze", a)
                                   /\ BackedBy(new, ads[a].revoked, "revoke_access", a)
  BY <1>1, <1>2 DEF Match
<1>5. ASSUME NEW u \in Users PROVE /\ BackedUser(new, us2[u], u)
                                  /\ About(new, us2[u].deleted, "user_delete", u)
  <2>1. CASE u = t
    BY <2>1, <1>1, <1>2, NoneBacked DEF Match, BackedUser
  <2>2. CASE u # t
    BY <2>2, <1>1, <1>2 DEF Match, BackedUser
  <2> QED
    BY <2>1, <2>2
<1>6. ASSUME NEW r \in 1..Len(new), new[r].status = "required"
      PROVE  \/ \E o \in Operators : ops[o] = r
             \/ \E a \in Admins : ads[a].frozen = r \/ ads[a].revoked = r
             \/ \E u \in Users : us2[u].frozen = r \/ us2[u].deleted = r
             \/ Superseded(new, r)
  BY <1>1, <1>2, <1>6 DEF Match, BackedBy, BackedUser
<1> QED
  BY <1>3, <1>4, <1>5, <1>6 DEF Match

LEMMA LiftDeletion ==
  ASSUME NEW ops, NEW ads, NEW us, NEW list, Typed(ops, ads, us, list), Match(ops, ads, us, list),
         NEW t \in Users, us[t].deleted # 0,
         NEW new, new = resolveReportObligation(list, us[t].deleted),
         NEW us2, us2 = [us EXCEPT ![t] = [frozen |-> 0, deleted |-> 0]]
  PROVE  Match(ops, ads, us2, new)
<1> DEFINE kind == "user_delete"
<1>1. /\ Len(new) = Len(list) /\ Len(list) \in Nat
      /\ \A r \in 0..Len(list) : \A type, target :
           BackedBy(list, r, type, target) /\ (type # kind \/ target # t)
             => BackedBy(new, r, type, target)
      /\ \A r \in 0..Len(list) : \A type, target :
           About(list, r, type, target) => About(new, r, type, target)
      /\ \A r \in 1..Len(list) :
           /\ new[r].status = "required" => r # us[t].deleted /\ list[r].status = "required"
           /\ Superseded(list, r) => Superseded(new, r)
  <2>1. list \in Seq(Report) /\ About(list, us[t].deleted, kind, t)
    BY DEF Typed, Match, BackedBy, About, BackedUser
  <2> HIDE DEF kind
  <2> QED
    BY <2>1, ResolveOthers
<1>2. /\ \A u \in Users : us2[u] = IF u = t THEN [frozen |-> 0, deleted |-> 0] ELSE us[u]
      /\ \A o \in Operators : ops[o] \in 0..Len(list)
      /\ \A a \in Admins : ads[a].frozen \in 0..Len(list) /\ ads[a].revoked \in 0..Len(list)
      /\ \A u \in Users : us[u].frozen \in 0..Len(list) /\ us[u].deleted \in 0..Len(list)
  BY TypedFacts DEF Typed
<1>3. ASSUME NEW o \in Operators PROVE BackedBy(new, ops[o], "operator_revoke", o)
  BY <1>1, <1>2 DEF Match
<1>4. ASSUME NEW a \in Admins PROVE /\ BackedBy(new, ads[a].frozen, "freeze", a)
                                   /\ BackedBy(new, ads[a].revoked, "revoke_access", a)
  BY <1>1, <1>2 DEF Match
<1>5. ASSUME NEW u \in Users PROVE /\ BackedUser(new, us2[u], u)
                                  /\ About(new, us2[u].deleted, "user_delete", u)
  <2>1. CASE u = t
    BY <2>1, <1>1, <1>2, NoneBacked DEF Match, BackedUser
  <2>2. CASE u # t
    BY <2>2, <1>1, <1>2 DEF Match, BackedUser
  <2> QED
    BY <2>1, <2>2
<1>6. ASSUME NEW r \in 1..Len(new), new[r].status = "required"
      PROVE  \/ \E o \in Operators : ops[o] = r
             \/ \E a \in Admins : ads[a].frozen = r \/ ads[a].revoked = r
             \/ \E u \in Users : us2[u].frozen = r \/ us2[u].deleted = r
             \/ Superseded(new, r)
  BY <1>1, <1>2, <1>6 DEF Match, BackedBy, BackedUser
<1> QED
  BY <1>3, <1>4, <1>5, <1>6 DEF Match

(* A sanction is imposed where there was none, and its report made.        *)
LEMMA ImposeOperator ==
  ASSUME NEW ops, NEW ads, NEW us, NEW list, Typed(ops, ads, us, list), Match(ops, ads, us, list),
         NEW t \in Operators, ops[t] = 0,
         NEW new, new = createReportObligation(list, "operator_revoke", t),
         NEW ops2, ops2 = [ops EXCEPT ![t] = Len(list) + 1]
  PROVE  Match(ops2, ads, us, new)
<1>1. /\ Len(new) = Len(list) + 1 /\ Len(list) \in Nat
      /\ \A r \in 0..Len(list) : \A y, x : BackedBy(list, r, y, x) => BackedBy(new, r, y, x)
      /\ \A r \in 0..Len(list) : \A y, x : About(list, r, y, x) => About(new, r, y, x)
      /\ BackedBy(new, Len(list) + 1, "operator_revoke", t)
      /\ About(new, Len(list) + 1, "operator_revoke", t)
      /\ \A r \in 1..Len(list) :
           /\ new[r] = list[r]
           /\ Superseded(list, r) => Superseded(new, r)
  <2>1. list \in Seq(Report) /\ t \in Targets /\ "operator_revoke" \in ReportTypes
    BY DEF Typed, Targets, ReportTypes
  <2> QED
    BY <2>1, CreateOthers
<1>2. /\ \A o \in Operators : ops2[o] = IF o = t THEN Len(list) + 1 ELSE ops[o]
      /\ \A o \in Operators : ops[o] \in 0..Len(list)
      /\ \A a \in Admins : ads[a].frozen \in 0..Len(list) /\ ads[a].revoked \in 0..Len(list)
      /\ \A u \in Users : us[u].frozen \in 0..Len(list) /\ us[u].deleted \in 0..Len(list)
  BY TypedFacts DEF Typed
<1>3. ASSUME NEW o \in Operators PROVE BackedBy(new, ops2[o], "operator_revoke", o)
  <2>1. CASE o = t
    BY <2>1, <1>1, <1>2, NoneBacked DEF Match
  <2>2. CASE o # t
    BY <2>2, <1>1, <1>2 DEF Match
  <2> QED
    BY <2>1, <2>2
<1>4. ASSUME NEW a \in Admins PROVE /\ BackedBy(new, ads[a].frozen, "freeze", a)
                                   /\ BackedBy(new, ads[a].revoked, "revoke_access", a)
  BY <1>1, <1>2 DEF Match
<1>5. ASSUME NEW u \in Users PROVE /\ BackedUser(new, us[u], u)
                                  /\ About(new, us[u].deleted, "user_delete", u)
  BY <1>1, <1>2 DEF Match, BackedUser
<1>6. ASSUME NEW r \in 1..Len(new), new[r].status = "required"
      PROVE  \/ \E o \in Operators : ops2[o] = r
             \/ \E a \in Admins : ads[a].frozen = r \/ ads[a].revoked = r
             \/ \E u \in Users : us[u].frozen = r \/ us[u].deleted = r
             \/ Superseded(new, r)
  BY <1>1, <1>2, <1>6 DEF Match
<1> QED
  BY <1>3, <1>4, <1>5, <1>6 DEF Match

LEMMA ImposeFreeze ==
  ASSUME NEW ops, NEW ads, NEW us, NEW list, Typed(ops, ads, us, list), Match(ops, ads, us, list),
         NEW t \in Admins, ads[t].frozen = 0,
         NEW new, new = createReportObligation(list, "freeze", t),
         NEW ads2,
         ads2 = [ads EXCEPT ![t] = [frozen |-> Len(list) + 1, revoked |-> ads[t].revoked, warning |-> FALSE]]
  PROVE  Match(ops, ads2, us, new)
<1>1. /\ Len(new) = Len(list) + 1 /\ Len(list) \in Nat
      /\ \A r \in 0..Len(list) : \A y, x : BackedBy(list, r, y, x) => BackedBy(new, r, y, x)
      /\ \A r \in 0..Len(list) : \A y, x : About(list, r, y, x) => About(new, r, y, x)
      /\ BackedBy(new, Len(list) + 1, "freeze", t)
      /\ About(new, Len(list) + 1, "freeze", t)
      /\ \A r \in 1..Len(list) :
           /\ new[r] = list[r]
           /\ Superseded(list, r) => Superseded(new, r)
  <2>1. list \in Seq(Report) /\ t \in Targets /\ "freeze" \in ReportTypes
    BY DEF Typed, Targets, ReportTypes
  <2> QED
    BY <2>1, CreateOthers
<1>2. /\ \A a \in Admins : ads2[a] = IF a = t 
                                       THEN [frozen |-> Len(list) + 1, revoked |-> ads[t].revoked, warning |-> FALSE]
                                       ELSE ads[a]
      /\ \A o \in Operators : ops[o] \in 0..Len(list)
      /\ \A a \in Admins : ads[a].frozen \in 0..Len(list) /\ ads[a].revoked \in 0..Len(list)
      /\ \A u \in Users : us[u].frozen \in 0..Len(list) /\ us[u].deleted \in 0..Len(list)
  BY TypedFacts DEF Typed
<1>3. ASSUME NEW o \in Operators PROVE BackedBy(new, ops[o], "operator_revoke", o)
  BY <1>1, <1>2 DEF Match
<1>4. ASSUME NEW a \in Admins PROVE /\ BackedBy(new, ads2[a].frozen, "freeze", a)
                                   /\ BackedBy(new, ads2[a].revoked, "revoke_access", a)
  <2>1. CASE a = t
    BY <2>1, <1>1, <1>2, NoneBacked DEF Match
  <2>2. CASE a # t
    BY <2>2, <1>1, <1>2 DEF Match
  <2> QED
    BY <2>1, <2>2
<1>5. ASSUME NEW u \in Users PROVE /\ BackedUser(new, us[u], u)
                                  /\ About(new, us[u].deleted, "user_delete", u)
  BY <1>1, <1>2 DEF Match, BackedUser
<1>6. ASSUME NEW r \in 1..Len(new), new[r].status = "required"
      PROVE  \/ \E o \in Operators : ops[o] = r
             \/ \E a \in Admins : ads2[a].frozen = r \/ ads2[a].revoked = r
             \/ \E u \in Users : us[u].frozen = r \/ us[u].deleted = r
             \/ Superseded(new, r)
  BY <1>1, <1>2, <1>6 DEF Match
<1> QED
  BY <1>3, <1>4, <1>5, <1>6 DEF Match

LEMMA ImposeRevocation ==
  ASSUME NEW ops, NEW ads, NEW us, NEW list, Typed(ops, ads, us, list), Match(ops, ads, us, list),
         NEW t \in Admins, ads[t].revoked = 0,
         NEW new, new = createReportObligation(list, "revoke_access", t),
         NEW ads2,
         ads2 = [ads EXCEPT ![t] = [frozen |-> ads[t].frozen, revoked |-> Len(list) + 1, warning |-> FALSE]]
  PROVE  Match(ops, ads2, us, new)
<1>1. /\ Len(new) = Len(list) + 1 /\ Len(list) \in Nat
      /\ \A r \in 0..Len(list) : \A y, x : BackedBy(list, r, y, x) => BackedBy(new, r, y, x)
      /\ \A r \in 0..Len(list) : \A y, x : About(list, r, y, x) => About(new, r, y, x)
      /\ BackedBy(new, Len(list) + 1, "revoke_access", t)
      /\ About(new, Len(list) + 1, "revoke_access", t)
      /\ \A r \in 1..Len(list) :
           /\ new[r] = list[r]
           /\ Superseded(list, r) => Superseded(new, r)
  <2>1. list \in Seq(Report) /\ t \in Targets /\ "revoke_access" \in ReportTypes
    BY DEF Typed, Targets, ReportTypes
  <2> QED
    BY <2>1, CreateOthers
<1>2. /\ \A a \in Admins : ads2[a] = IF a = t 
                                       THEN [frozen |-> ads[t].frozen, revoked |-> Len(list) + 1, warning |-> FALSE]
                                       ELSE ads[a]
      /\ \A o \in Operators : ops[o] \in 0..Len(list)
      /\ \A a \in Admins : ads[a].frozen \in 0..Len(list) /\ ads[a].revoked \in 0..Len(list)
      /\ \A u \in Users : us[u].frozen \in 0..Len(list) /\ us[u].deleted \in 0..Len(list)
  BY TypedFacts DEF Typed
<1>3. ASSUME NEW o \in Operators PROVE BackedBy(new, ops[o], "operator_revoke", o)
  BY <1>1, <1>2 DEF Match
<1>4. ASSUME NEW a \in Admins PROVE /\ BackedBy(new, ads2[a].frozen, "freeze", a)
                                   /\ BackedBy(new, ads2[a].revoked, "revoke_access", a)
  <2>1. CASE a = t
    BY <2>1, <1>1, <1>2, NoneBacked DEF Match
  <2>2. CASE a # t
    BY <2>2, <1>1, <1>2 DEF Match
  <2> QED
    BY <2>1, <2>2
<1>5. ASSUME NEW u \in Users PROVE /\ BackedUser(new, us[u], u)
                                  /\ About(new, us[u].deleted, "user_delete", u)
  BY <1>1, <1>2 DEF Match, BackedUser
<1>6. ASSUME NEW r \in 1..Len(new), new[r].status = "required"
      PROVE  \/ \E o \in Operators : ops[o] = r
             \/ \E a \in Admins : ads2[a].frozen = r \/ ads2[a].revoked = r
             \/ \E u \in Users : us[u].frozen = r \/ us[u].deleted = r
             \/ Superseded(new, r)
  BY <1>1, <1>2, <1>6 DEF Match
<1> QED
  BY <1>3, <1>4, <1>5, <1>6 DEF Match

LEMMA ImposeUserFreeze ==
  ASSUME NEW ops, NEW ads, NEW us, NEW list, Typed(ops, ads, us, list), Match(ops, ads, us, list),
         NEW t \in Users, us[t].frozen = 0, us[t].deleted = 0,
         NEW new, new = createReportObligation(list, "user_freeze", t),
         NEW us2, us2 = [us EXCEPT ![t] = [frozen |-> Len(list) + 1, deleted |-> 0]]
  PROVE  Match(ops, ads, us2, new)
<1>1. /\ Len(new) = Len(list) + 1 /\ Len(list) \in Nat
      /\ \A r \in 0..Len(list) : \A y, x : BackedBy(list, r, y, x) => BackedBy(new, r, y, x)
      /\ \A r \in 0..Len(list) : \A y, x : About(list, r, y, x) => About(new, r, y, x)
      /\ BackedBy(new, Len(list) + 1, "user_freeze", t)
      /\ About(new, Len(list) + 1, "user_freeze", t)
      /\ \A r \in 1..Len(list) :
           /\ new[r] = list[r]
           /\ Superseded(list, r) => Superseded(new, r)
  <2>1. list \in Seq(Report) /\ t \in Targets /\ "user_freeze" \in ReportTypes
    BY DEF Typed, Targets, ReportTypes
  <2> QED
    BY <2>1, CreateOthers
<1>2. /\ \A u \in Users : us2[u] = IF u = t 
                                     THEN [frozen |-> Len(list) + 1, deleted |-> 0]
                                     ELSE us[u]
      /\ \A o \in Operators : ops[o] \in 0..Len(list)
      /\ \A a \in Admins : ads[a].frozen \in 0..Len(list) /\ ads[a].revoked \in 0..Len(list)
      /\ \A u \in Users : us[u].frozen \in 0..Len(list) /\ us[u].deleted \in 0..Len(list)
  BY TypedFacts DEF Typed
<1>3. ASSUME NEW o \in Operators PROVE BackedBy(new, ops[o], "operator_revoke", o)
  BY <1>1, <1>2 DEF Match
<1>4. ASSUME NEW a \in Admins PROVE /\ BackedBy(new, ads[a].frozen, "freeze", a)
                                   /\ BackedBy(new, ads[a].revoked, "revoke_access", a)
  BY <1>1, <1>2 DEF Match
<1>5. ASSUME NEW u \in Users PROVE /\ BackedUser(new, us2[u], u)
                                  /\ About(new, us2[u].deleted, "user_delete", u)
  <2>1. CASE u = t
    BY <2>1, <1>1, <1>2, NoneBacked DEF Match, BackedUser
  <2>2. CASE u # t
    BY <2>2, <1>1, <1>2 DEF Match, BackedUser
  <2> QED
    BY <2>1, <2>2
<1>6. ASSUME NEW r \in 1..Len(new), new[r].status = "required"
      PROVE  \/ \E o \in Operators : ops[o] = r
             \/ \E a \in Admins : ads[a].frozen = r \/ ads[a].revoked = r
             \/ \E u \in Users : us2[u].frozen = r \/ us2[u].deleted = r
             \/ Superseded(new, r)
  BY <1>1, <1>2, <1>6 DEF Match, BackedBy, BackedUser
<1> QED
  BY <1>3, <1>4, <1>5, <1>6 DEF Match

(* A freeze the deletion replaces is superseded by it.                     *)
LEMMA ImposeDeletion ==
  ASSUME NEW ops, NEW ads, NEW us, NEW list, Typed(ops, ads, us, list), Match(ops, ads, us, list),
         NEW t \in Users, us[t].deleted = 0,
         NEW new, new = createReportObligation(list, "user_delete", t),
         NEW us2, us2 = [us EXCEPT ![t] = [frozen |-> Len(list) + 1, deleted |-> Len(list) + 1]]
  PROVE  Match(ops, ads, us2, new)
<1>1. /\ Len(new) = Len(list) + 1 /\ Len(list) \in Nat
      /\ \A r \in 0..Len(list) : \A y, x : BackedBy(list, r, y, x) => BackedBy(new, r, y, x)
      /\ \A r \in 0..Len(list) : \A y, x : About(list, r, y, x) => About(new, r, y, x)
      /\ BackedBy(new, Len(list) + 1, "user_delete", t)
      /\ About(new, Len(list) + 1, "user_delete", t)
      /\ \A r \in 1..Len(list) :
           /\ new[r] = list[r]
           /\ Superseded(list, r) => Superseded(new, r)
           /\ list[r].type = "user_freeze" /\ list[r].target = t => Superseded(new, r)
  <2>1. list \in Seq(Report) /\ t \in Targets /\ "user_delete" \in ReportTypes
    BY DEF Typed, Targets, ReportTypes
  <2> QED
    BY <2>1, CreateOthers
<1>2. /\ \A u \in Users : us2[u] = IF u = t 
                                     THEN [frozen |-> Len(list) + 1, deleted |-> Len(list) + 1]
                                     ELSE us[u]
      /\ \A o \in Operators : ops[o] \in 0..Len(list)
      /\ \A a \in Admins : ads[a].frozen \in 0..Len(list) /\ ads[a].revoked \in 0..Len(list)
      /\ \A u \in Users : us[u].frozen \in 0..Len(list) /\ us[u].deleted \in 0..Len(list)
  BY TypedFacts DEF Typed
<1>3. ASSUME NEW o \in Operators PROVE BackedBy(new, ops[o], "operator_revoke", o)
  BY <1>1, <1>2 DEF Match
<1>4. ASSUME NEW a \in Admins PROVE /\ BackedBy(new, ads[a].frozen, "freeze", a)
                                   /\ BackedBy(new, ads[a].revoked, "revoke_access", a)
  BY <1>1, <1>2 DEF Match
<1>5. ASSUME NEW u \in Users PROVE /\ BackedUser(new, us2[u], u)
                                  /\ About(new, us2[u].deleted, "user_delete", u)
  <2>1. CASE u = t
    BY <2>1, <1>1, <1>2, NoneBacked DEF Match, BackedUser
  <2>2. CASE u # t
    BY <2>2, <1>1, <1>2 DEF Match, BackedUser
  <2> QED
    BY <2>1, <2>2
<1>6. ASSUME NEW r \in 1..Len(new), new[r].status = "required"
      PROVE  \/ \E o \in Operators : ops[o] = r
             \/ \E a \in Admins : ads[a].frozen = r \/ ads[a].revoked = r
             \/ \E u \in Users : us2[u].frozen = r \/ us2[u].deleted = r
             \/ Superseded(new, r)
  BY <1>1, <1>2, <1>6 DEF Match, BackedBy, BackedUser
<1> QED
  BY <1>3, <1>4, <1>5, <1>6 DEF Match

-----------------------------------------------------------------------------
(* Types, consensus and leadership: what every step preserves.             *)

(* Nobody is revoked before the first operator was seen.                   *)
Quiet == community = {} => \A o \in Operators : revokedOps[o] = 0

(* The reports that are owed are the ones of the sanctions that stand.     *)
Matched == Match(revokedOps, admins, users, reports)

(* What every step preserves: an execution has the approval of all because *)
(* AskedRequired held before, and lifting one sanction never resolves the  *)
(* report of another because Matched gives each a report of its own.       *)
GovernanceInv == TypeOK /\ AskedRequired(proposals) /\ Quiet /\ NeverLeaderless /\ Matched

(* The step that SanctionsByConsensus asks for.                            *)
ConsensusStep ==
  /\ \A o \in Operators : revokedOps'[o] # revokedOps[o] =>
        ExecutesOn(o, {"revoke_operator", "restore_operator"})
  /\ \A u \in Users : users'[u] # users[u] =>
        ExecutesOn(u, {"freeze_user", "unfreeze_user", "delete_user", "restore_user"})
  /\ \A a \in Admins :
       /\ admins'[a].revoked # admins[a].revoked =>
            ExecutesOn(a, {"revoke_admin_access", "restore_admin_access"})
       /\ admins'[a].frozen # admins[a].frozen =>
            \/ admins[a].frozen = 0 /\ admins[a].warning
            \/ ExecutesOn(a, {"unlock_admin", "revoke_admin_access"})

(* An operator who is active acts, and stays active and seen.              *)
LEMMA ActorLeads ==
  ASSUME NEW o \in Operators, community' = community \union {o}, revokedOps'[o] = 0
  PROVE  NeverLeaderless' /\ Quiet'
BY DEF NeverLeaderless, Quiet, Active

ReportsGrow == reports' \in Seq(Report) /\ Len(reports') \in Nat /\ Len(reports') >= Len(reports)

(* A step that changes the sanctions of one admin, operator or user.       *)
LEMMA AdminChange ==
  ASSUME GovernanceInv, Matched', NEW o \in Operators, Acted(o), NEW t \in Admins,
         revokedOps' = revokedOps, users' = users, ReportsGrow,
         NEW new \in [frozen : 0..Len(reports'), revoked : 0..Len(reports'), warning : BOOLEAN],
         admins' = [admins EXCEPT ![t] = new],
         new.revoked # admins[t].revoked =>
           ExecutesOn(t, {"revoke_admin_access", "restore_admin_access"}),
         new.frozen # admins[t].frozen => ExecutesOn(t, {"unlock_admin", "revoke_admin_access"})
  PROVE  GovernanceInv' /\ ConsensusStep
<1>1. TypeOK'
  BY DEF GovernanceInv, TypeOK, Acted, ReportsGrow
<1>2. NeverLeaderless' /\ Quiet'
  BY ActorLeads DEF Acted
<1>3. ConsensusStep
  BY DEF ConsensusStep, GovernanceInv, TypeOK
<1> QED
  BY <1>1, <1>2, <1>3 DEF GovernanceInv, Acted

LEMMA OperatorChange ==
  ASSUME GovernanceInv, Matched', NEW o \in Operators, Acted(o), NEW t \in Operators, t # o,
         admins' = admins, users' = users, ReportsGrow, NEW new \in 0..Len(reports'),
         revokedOps' = [revokedOps EXCEPT ![t] = new],
         new # revokedOps[t] => ExecutesOn(t, {"revoke_operator", "restore_operator"})
  PROVE  GovernanceInv' /\ ConsensusStep
<1>1. TypeOK'
  BY DEF GovernanceInv, TypeOK, Acted, ReportsGrow
<1>2. NeverLeaderless' /\ Quiet'
  <2>1. revokedOps'[o] = 0
    BY DEF Acted, GovernanceInv, TypeOK
  <2> QED
    BY <2>1, ActorLeads DEF Acted
<1>3. ConsensusStep
  BY DEF ConsensusStep, GovernanceInv, TypeOK
<1> QED
  BY <1>1, <1>2, <1>3 DEF GovernanceInv, Acted

LEMMA UserChange ==
  ASSUME GovernanceInv, Matched', NEW o \in Operators, Acted(o), NEW t \in Users,
         admins' = admins, revokedOps' = revokedOps, ReportsGrow,
         NEW new \in [frozen : 0..Len(reports'), deleted : 0..Len(reports')],
         users' = [users EXCEPT ![t] = new],
         ExecutesOn(t, {"freeze_user", "unfreeze_user", "delete_user", "restore_user"})
  PROVE  GovernanceInv' /\ ConsensusStep
<1>1. TypeOK'
  BY DEF GovernanceInv, TypeOK, Acted, ReportsGrow
<1>2. NeverLeaderless' /\ Quiet'
  BY ActorLeads DEF Acted
<1>3. ConsensusStep
  BY DEF ConsensusStep, GovernanceInv, TypeOK
<1> QED
  BY <1>1, <1>2, <1>3 DEF GovernanceInv, Acted

(* A vote that does not execute, or a request that is turned down.         *)
LEMMA NoChange ==
  ASSUME GovernanceInv, NEW o \in Operators, Acted(o),
         revokedOps' = revokedOps, admins' = admins, users' = users, reports' = reports
  PROVE  GovernanceInv' /\ ConsensusStep
<1>1. TypeOK'
  BY DEF GovernanceInv, TypeOK, Acted
<1>2. NeverLeaderless' /\ Quiet'
  BY ActorLeads DEF Acted
<1>3. ConsensusStep /\ Matched'
  BY DEF ConsensusStep, GovernanceInv, Matched
<1> QED
  BY <1>1, <1>2, <1>3 DEF GovernanceInv, Acted

LEMMA UnlockStep ==
  ASSUME GovernanceInv, NEW o \in Operators, NEW id \in 0..Len(proposals), NEW t \in Admins,
         unlock(o, t, id)
  PROVE  GovernanceInv' /\ ConsensusStep
<1> DEFINE required == {}
           d == processGovernanceAction(o, "unlock_admin", t, required, id)
<1>1. /\ TypeOK /\ AskedRequired(proposals) /\ t \in Targets /\ reports \in Seq(Report)
      /\ Len(reports) \in Nat
      /\ admins[t] \in [frozen : 0..Len(reports), revoked : 0..Len(reports), warning : BOOLEAN]
      /\ Typed(revokedOps, admins, users, reports) /\ Match(revokedOps, admins, users, reports)
  BY DEF GovernanceInv, TypeOK, Targets, Typed, AdminStates, UserStates, Matched
<1>2. /\ ensureGovernanceOperatorContext(o) /\ decided(d) /\ "unlock_admin" \in GovernanceActions
      /\ d.execute => 
           /\ admins' = [admins EXCEPT ![t].frozen = 0, ![t].warning = FALSE]
           /\ reports' = resolveReportObligation(reports, admins[t].frozen)
           /\ revokedOps' = revokedOps /\ users' = users
  BY DEF unlock, GovernanceActions
<1>3. /\ required = {} \/ required = getActiveOperatorCommunityIds(o) \ {t}
      /\ d = processGovernanceAction(o, "unlock_admin", t, required, id)
  OBVIOUS
<1> HIDE DEF d, required
<1>4. /\ Acted(o) /\ d.execute \in BOOLEAN
      /\ ~d.execute => revokedOps' = revokedOps /\ admins' = admins /\ users' = users
                        /\ reports' = reports
      /\ d.execute => \A actions : "unlock_admin" \in actions => ExecutesOn(t, actions)
  BY <1>1, <1>2, <1>3, DecidedFacts
<1>5. CASE ~d.execute
  BY <1>4, <1>5, NoChange
<1>6. CASE d.execute
  <2>1. reports' = resolveReportObligation(reports, admins[t].frozen)
    BY <1>2, <1>6
  <2>2. ReportsGrow
    BY <1>1, <2>1, ResolveFacts DEF ReportsGrow
  <2> DEFINE new == [frozen |-> 0, revoked |-> admins[t].revoked, warning |-> FALSE]
  <2>3. /\ new \in [frozen : 0..Len(reports'), revoked : 0..Len(reports'), warning : BOOLEAN]
        /\ admins' = [admins EXCEPT ![t] = new]
    BY <1>1, <1>2, <1>6, <2>2 DEF TypeOK, ReportsGrow
  <2>4. ExecutesOn(t, {"unlock_admin", "revoke_admin_access"})
    BY <1>4, <1>6
  <2>5. Matched'
    BY <1>1, <1>2, <1>6, <2>1, <2>3, LiftFreeze DEF Matched, GovernanceInv
  <2> QED
    BY <1>1, <1>2, <1>4, <1>6, <2>2, <2>3, <2>4, <2>5, AdminChange
<1> QED
  BY <1>4, <1>5, <1>6

LEMMA RevokeAccessStep ==
  ASSUME GovernanceInv, NEW o \in Operators, NEW id \in 0..Len(proposals), NEW t \in Admins,
         revokeAccess(o, t, id)
  PROVE  GovernanceInv' /\ ConsensusStep
<1> DEFINE required == {}
           d == processGovernanceAction(o, "revoke_admin_access", t, required, id)
<1>1. /\ TypeOK /\ AskedRequired(proposals) /\ t \in Targets /\ reports \in Seq(Report)
      /\ Len(reports) \in Nat
      /\ admins[t] \in [frozen : 0..Len(reports), revoked : 0..Len(reports), warning : BOOLEAN]
      /\ Typed(revokedOps, admins, users, reports) /\ Match(revokedOps, admins, users, reports)
  BY DEF GovernanceInv, TypeOK, Targets, Typed, AdminStates, UserStates, Matched
<1>2. /\ ensureGovernanceOperatorContext(o) /\ decided(d) /\ "revoke_admin_access" \in GovernanceActions
      /\ admins[t].revoked = 0
      /\ d.execute => 
           /\ reports' = createReportObligation(resolveReportObligation(reports, admins[t].frozen),
                                                "revoke_access", t)
           /\ admins' = [admins EXCEPT ![t] = [frozen |-> 0, revoked |-> Len(reports) + 1,
                                               warning |-> FALSE]]
           /\ revokedOps' = revokedOps /\ users' = users
  BY DEF revokeAccess, GovernanceActions
<1>3. /\ required = {} \/ required = getActiveOperatorCommunityIds(o) \ {t}
      /\ d = processGovernanceAction(o, "revoke_admin_access", t, required, id)
  OBVIOUS
<1> HIDE DEF d, required
<1>4. /\ Acted(o) /\ d.execute \in BOOLEAN
      /\ ~d.execute => revokedOps' = revokedOps /\ admins' = admins /\ users' = users
                        /\ reports' = reports
      /\ d.execute => \A actions : "revoke_admin_access" \in actions => ExecutesOn(t, actions)
  BY <1>1, <1>2, <1>3, DecidedFacts
<1>5. CASE ~d.execute
  BY <1>4, <1>5, NoChange
<1>6. CASE d.execute
  <2>1. reports' = createReportObligation(resolveReportObligation(reports, admins[t].frozen),
                                         "revoke_access", t) /\ "revoke_access" \in ReportTypes
    BY <1>2, <1>6 DEF ReportTypes
  <2> DEFINE resolved == resolveReportObligation(reports, admins[t].frozen)
  <2>2. resolved \in Seq(Report) /\ Len(resolved) = Len(reports) /\ ReportsGrow /\ Len(reports') = Len(reports) + 1
    <3>1. resolved \in Seq(Report) /\ Len(resolved) = Len(reports)
      BY <1>1, ResolveFacts
    <3> HIDE DEF resolved
    <3>2. reports' \in Seq(Report) /\ Len(reports') = Len(resolved) + 1
      BY <1>1, <2>1, <3>1, CreateFacts DEF resolved
    <3> QED
      BY <1>1, <3>1, <3>2 DEF ReportsGrow
  <2> DEFINE new == [frozen |-> 0, revoked |-> Len(reports) + 1, warning |-> FALSE]
  <2>3. /\ new \in [frozen : 0..Len(reports'), revoked : 0..Len(reports'), warning : BOOLEAN]
        /\ admins' = [admins EXCEPT ![t] = new]
    BY <1>1, <1>2, <1>6, <2>2 DEF TypeOK, ReportsGrow
  <2>4. /\ ExecutesOn(t, {"unlock_admin", "revoke_admin_access"})
        /\ ExecutesOn(t, {"revoke_admin_access", "restore_admin_access"})
    BY <1>4, <1>6
  <2>5. Matched'
    <3> DEFINE lifted == [admins EXCEPT ![t] = [frozen |-> 0, revoked |-> admins[t].revoked, warning |-> FALSE]]
    <3>1. Match(revokedOps, lifted, users, resolved)
      BY <1>1, LiftFreeze
    <3>2. Typed(revokedOps, lifted, users, resolved)
      BY <1>1, <2>2 DEF Typed, AdminStates
    <3>3. lifted[t].revoked = 0 /\ lifted[t].frozen = 0
      BY <1>1, <1>2 DEF TypeOK
    <3>4. admins' = [lifted EXCEPT ![t] = [frozen |-> lifted[t].frozen, revoked |-> Len(resolved) + 1, warning |-> FALSE]]
      BY <1>1, <1>2, <1>6, <2>2, <3>3 DEF TypeOK
    <3>5. reports' = createReportObligation(resolved, "revoke_access", t)
      BY <2>1
    <3> HIDE DEF lifted, resolved
    <3>6. Match(revokedOps, admins', users, reports')
      BY <3>1, <3>2, <3>3, <3>4, <3>5, ImposeRevocation
    <3> QED
      BY <1>2, <1>6, <3>6 DEF Matched
  <2> QED
    BY <1>1, <1>2, <1>4, <1>6, <2>2, <2>3, <2>4, <2>5, AdminChange
<1> QED
  BY <1>4, <1>5, <1>6

LEMMA RestoreAccessStep ==
  ASSUME GovernanceInv, NEW o \in Operators, NEW id \in 0..Len(proposals), NEW t \in Admins,
         restoreAccess(o, t, id)
  PROVE  GovernanceInv' /\ ConsensusStep
<1> DEFINE required == {}
           d == processGovernanceAction(o, "restore_admin_access", t, required, id)
<1>1. /\ TypeOK /\ AskedRequired(proposals) /\ t \in Targets /\ reports \in Seq(Report)
      /\ Len(reports) \in Nat
      /\ admins[t] \in [frozen : 0..Len(reports), revoked : 0..Len(reports), warning : BOOLEAN]
      /\ Typed(revokedOps, admins, users, reports) /\ Match(revokedOps, admins, users, reports)
  BY DEF GovernanceInv, TypeOK, Targets, Typed, AdminStates, UserStates, Matched
<1>2. /\ ensureGovernanceOperatorContext(o) /\ decided(d) /\ "restore_admin_access" \in GovernanceActions
      /\ d.execute => 
           /\ admins' = [admins EXCEPT ![t].revoked = 0, ![t].warning = FALSE]
           /\ reports' = resolveReportObligation(reports, admins[t].revoked)
           /\ revokedOps' = revokedOps /\ users' = users
  BY DEF restoreAccess, GovernanceActions
<1>3. /\ required = {} \/ required = getActiveOperatorCommunityIds(o) \ {t}
      /\ d = processGovernanceAction(o, "restore_admin_access", t, required, id)
  OBVIOUS
<1> HIDE DEF d, required
<1>4. /\ Acted(o) /\ d.execute \in BOOLEAN
      /\ ~d.execute => revokedOps' = revokedOps /\ admins' = admins /\ users' = users
                        /\ reports' = reports
      /\ d.execute => \A actions : "restore_admin_access" \in actions => ExecutesOn(t, actions)
  BY <1>1, <1>2, <1>3, DecidedFacts
<1>5. CASE ~d.execute
  BY <1>4, <1>5, NoChange
<1>6. CASE d.execute
  <2>1. reports' = resolveReportObligation(reports, admins[t].revoked)
    BY <1>2, <1>6
  <2>2. ReportsGrow
    BY <1>1, <2>1, ResolveFacts DEF ReportsGrow
  <2> DEFINE new == [frozen |-> admins[t].frozen, revoked |-> 0, warning |-> FALSE]
  <2>3. /\ new \in [frozen : 0..Len(reports'), revoked : 0..Len(reports'), warning : BOOLEAN]
        /\ admins' = [admins EXCEPT ![t] = new]
    BY <1>1, <1>2, <1>6, <2>2 DEF TypeOK, ReportsGrow
  <2>4. ExecutesOn(t, {"revoke_admin_access", "restore_admin_access"})
    BY <1>4, <1>6
  <2>5. Matched'
    BY <1>1, <1>2, <1>6, <2>1, <2>3, LiftRevocation DEF Matched, GovernanceInv
  <2> QED
    BY <1>1, <1>2, <1>4, <1>6, <2>2, <2>3, <2>4, <2>5, AdminChange
<1> QED
  BY <1>4, <1>5, <1>6

LEMMA RevokeOperatorStep ==
  ASSUME GovernanceInv, NEW o \in Operators, NEW id \in 0..Len(proposals), NEW t \in Operators,
         revokeOperator(o, t, id)
  PROVE  GovernanceInv' /\ ConsensusStep
<1> DEFINE required == getActiveOperatorCommunityIds(o) \ {t}
           d == processGovernanceAction(o, "revoke_operator", t, required, id)
<1>1. /\ TypeOK /\ AskedRequired(proposals) /\ t \in Targets /\ reports \in Seq(Report)
      /\ Len(reports) \in Nat /\ revokedOps[t] \in 0..Len(reports)
      /\ Typed(revokedOps, admins, users, reports) /\ Match(revokedOps, admins, users, reports)
  BY DEF GovernanceInv, TypeOK, Targets, Typed, AdminStates, UserStates, Matched
<1>2. /\ ensureGovernanceOperatorContext(o) /\ decided(d) /\ "revoke_operator" \in GovernanceActions
      /\ t # o /\ revokedOps[t] = 0
      /\ d.execute => 
           /\ revokedOps' = [revokedOps EXCEPT ![t] = Len(reports) + 1]
           /\ reports' = createReportObligation(reports, "operator_revoke", t)
           /\ admins' = admins /\ users' = users
  BY DEF revokeOperator, GovernanceActions
<1>3. /\ required = {} \/ required = getActiveOperatorCommunityIds(o) \ {t}
      /\ d = processGovernanceAction(o, "revoke_operator", t, required, id)
  OBVIOUS
<1> HIDE DEF d, required
<1>4. /\ Acted(o) /\ d.execute \in BOOLEAN
      /\ ~d.execute => revokedOps' = revokedOps /\ admins' = admins /\ users' = users
                        /\ reports' = reports
      /\ d.execute => \A actions : "revoke_operator" \in actions => ExecutesOn(t, actions)
  BY <1>1, <1>2, <1>3, DecidedFacts
<1>5. CASE ~d.execute
  BY <1>4, <1>5, NoChange
<1>6. CASE d.execute
  <2>1. /\ reports' = createReportObligation(reports, "operator_revoke", t)
        /\ "operator_revoke" \in ReportTypes
    BY <1>2, <1>6 DEF ReportTypes
  <2>2. ReportsGrow /\ Len(reports') = Len(reports) + 1
    <3>1. reports' \in Seq(Report) /\ Len(reports') = Len(reports) + 1
      BY <1>1, <2>1, CreateFacts
    <3> QED
      BY <1>1, <3>1 DEF ReportsGrow
  <2> DEFINE new == Len(reports) + 1
  <2>3. new \in 0..Len(reports') /\ revokedOps' = [revokedOps EXCEPT ![t] = new]
    BY <1>1, <1>2, <1>6, <2>2 DEF TypeOK, ReportsGrow
  <2>4. ExecutesOn(t, {"revoke_operator", "restore_operator"})
    BY <1>4, <1>6
  <2>5. Matched'
    BY <1>1, <1>2, <1>6, <2>1, <2>3, ImposeOperator DEF Matched, GovernanceInv
  <2> QED
    BY <1>1, <1>2, <1>4, <1>6, <2>2, <2>3, <2>4, <2>5, OperatorChange
<1> QED
  BY <1>4, <1>5, <1>6

LEMMA RestoreOperatorStep ==
  ASSUME GovernanceInv, NEW o \in Operators, NEW id \in 0..Len(proposals), NEW t \in Operators,
         restoreOperator(o, t, id)
  PROVE  GovernanceInv' /\ ConsensusStep
<1> DEFINE required == {}
           d == processGovernanceAction(o, "restore_operator", t, required, id)
<1>1. /\ TypeOK /\ AskedRequired(proposals) /\ t \in Targets /\ reports \in Seq(Report)
      /\ Len(reports) \in Nat /\ revokedOps[t] \in 0..Len(reports)
      /\ Typed(revokedOps, admins, users, reports) /\ Match(revokedOps, admins, users, reports)
  BY DEF GovernanceInv, TypeOK, Targets, Typed, AdminStates, UserStates, Matched
<1>2. /\ ensureGovernanceOperatorContext(o) /\ decided(d) /\ "restore_operator" \in GovernanceActions
      /\ t # o
      /\ d.execute => 
           /\ revokedOps' = [revokedOps EXCEPT ![t] = 0]
           /\ reports' = resolveReportObligation(reports, revokedOps[t])
           /\ admins' = admins /\ users' = users
  BY DEF restoreOperator, GovernanceActions, ensureGovernanceOperatorContext
<1>3. /\ required = {} \/ required = getActiveOperatorCommunityIds(o) \ {t}
      /\ d = processGovernanceAction(o, "restore_operator", t, required, id)
  OBVIOUS
<1> HIDE DEF d, required
<1>4. /\ Acted(o) /\ d.execute \in BOOLEAN
      /\ ~d.execute => revokedOps' = revokedOps /\ admins' = admins /\ users' = users
                        /\ reports' = reports
      /\ d.execute => \A actions : "restore_operator" \in actions => ExecutesOn(t, actions)
  BY <1>1, <1>2, <1>3, DecidedFacts
<1>5. CASE ~d.execute
  BY <1>4, <1>5, NoChange
<1>6. CASE d.execute
  <2>1. reports' = resolveReportObligation(reports, revokedOps[t])
    BY <1>2, <1>6
  <2>2. ReportsGrow
    BY <1>1, <2>1, ResolveFacts DEF ReportsGrow
  <2> DEFINE new == 0
  <2>3. new \in 0..Len(reports') /\ revokedOps' = [revokedOps EXCEPT ![t] = new]
    BY <1>1, <1>2, <1>6, <2>2 DEF TypeOK, ReportsGrow
  <2>4. ExecutesOn(t, {"revoke_operator", "restore_operator"})
    BY <1>4, <1>6
  <2>5. Matched'
    BY <1>1, <1>2, <1>6, <2>1, <2>3, LiftOperator DEF Matched, GovernanceInv
  <2> QED
    BY <1>1, <1>2, <1>4, <1>6, <2>2, <2>3, <2>4, <2>5, OperatorChange
<1> QED
  BY <1>4, <1>5, <1>6

LEMMA FreezeUserStep ==
  ASSUME GovernanceInv, NEW o \in Operators, NEW id \in 0..Len(proposals), NEW t \in Users,
         freezeUser(o, t, id)
  PROVE  GovernanceInv' /\ ConsensusStep
<1> DEFINE required == {}
           d == processGovernanceAction(o, "freeze_user", t, required, id)
<1>1. /\ TypeOK /\ AskedRequired(proposals) /\ t \in Targets /\ reports \in Seq(Report)
      /\ Len(reports) \in Nat /\ users[t] \in [frozen : 0..Len(reports), deleted : 0..Len(reports)]
      /\ Typed(revokedOps, admins, users, reports) /\ Match(revokedOps, admins, users, reports)
  BY DEF GovernanceInv, TypeOK, Targets, Typed, AdminStates, UserStates, Matched
<1>2. /\ ensureGovernanceOperatorContext(o) /\ decided(d) /\ "freeze_user" \in GovernanceActions
      /\ users[t].frozen = 0 /\ users[t].deleted = 0
      /\ d.execute => 
           /\ users' = [users EXCEPT ![t].frozen = Len(reports) + 1]
           /\ reports' = createReportObligation(reports, "user_freeze", t)
           /\ revokedOps' = revokedOps /\ admins' = admins
  BY DEF freezeUser, GovernanceActions
<1>3. /\ required = {} \/ required = getActiveOperatorCommunityIds(o) \ {t}
      /\ d = processGovernanceAction(o, "freeze_user", t, required, id)
  OBVIOUS
<1> HIDE DEF d, required
<1>4. /\ Acted(o) /\ d.execute \in BOOLEAN
      /\ ~d.execute => revokedOps' = revokedOps /\ admins' = admins /\ users' = users
                        /\ reports' = reports
      /\ d.execute => \A actions : "freeze_user" \in actions => ExecutesOn(t, actions)
  BY <1>1, <1>2, <1>3, DecidedFacts
<1>5. CASE ~d.execute
  BY <1>4, <1>5, NoChange
<1>6. CASE d.execute
  <2>1. /\ reports' = createReportObligation(reports, "user_freeze", t)
        /\ "user_freeze" \in ReportTypes
    BY <1>2, <1>6 DEF ReportTypes
  <2>2. ReportsGrow /\ Len(reports') = Len(reports) + 1
    <3>1. reports' \in Seq(Report) /\ Len(reports') = Len(reports) + 1
      BY <1>1, <2>1, CreateFacts
    <3> QED
      BY <1>1, <3>1 DEF ReportsGrow
  <2> DEFINE new == [frozen |-> Len(reports) + 1, deleted |-> users[t].deleted]
  <2>3. /\ new \in [frozen : 0..Len(reports'), deleted : 0..Len(reports')]
        /\ users' = [users EXCEPT ![t] = new]
    BY <1>1, <1>2, <1>6, <2>2 DEF TypeOK, ReportsGrow
  <2>4. ExecutesOn(t, {"freeze_user", "unfreeze_user", "delete_user", "restore_user"})
    BY <1>4, <1>6
  <2>5. Matched'
    BY <1>1, <1>2, <1>6, <2>1, <2>3, ImposeUserFreeze, ZenonT(60) DEF Matched, GovernanceInv
  <2> QED
    BY <1>1, <1>2, <1>4, <1>6, <2>2, <2>3, <2>4, <2>5, UserChange
<1> QED
  BY <1>4, <1>5, <1>6

LEMMA UnfreezeUserStep ==
  ASSUME GovernanceInv, NEW o \in Operators, NEW id \in 0..Len(proposals), NEW t \in Users,
         unfreezeUser(o, t, id)
  PROVE  GovernanceInv' /\ ConsensusStep
<1> DEFINE required == {}
           d == processGovernanceAction(o, "unfreeze_user", t, required, id)
<1>1. /\ TypeOK /\ AskedRequired(proposals) /\ t \in Targets /\ reports \in Seq(Report)
      /\ Len(reports) \in Nat /\ users[t] \in [frozen : 0..Len(reports), deleted : 0..Len(reports)]
      /\ Typed(revokedOps, admins, users, reports) /\ Match(revokedOps, admins, users, reports)
  BY DEF GovernanceInv, TypeOK, Targets, Typed, AdminStates, UserStates, Matched
<1>2. /\ ensureGovernanceOperatorContext(o) /\ decided(d) /\ "unfreeze_user" \in GovernanceActions
      /\ d.execute => 
           /\ users' = [users EXCEPT ![t].frozen = 0]
           /\ reports' = resolveReportObligation(reports, users[t].frozen)
           /\ revokedOps' = revokedOps /\ admins' = admins
  BY DEF unfreezeUser, GovernanceActions
<1>3. /\ required = {} \/ required = getActiveOperatorCommunityIds(o) \ {t}
      /\ d = processGovernanceAction(o, "unfreeze_user", t, required, id)
  OBVIOUS
<1> HIDE DEF d, required
<1>4. /\ Acted(o) /\ d.execute \in BOOLEAN
      /\ ~d.execute => revokedOps' = revokedOps /\ admins' = admins /\ users' = users
                        /\ reports' = reports
      /\ d.execute => \A actions : "unfreeze_user" \in actions => ExecutesOn(t, actions)
  BY <1>1, <1>2, <1>3, DecidedFacts
<1>5. CASE ~d.execute
  BY <1>4, <1>5, NoChange
<1>6. CASE d.execute
  <2>1. reports' = resolveReportObligation(reports, users[t].frozen)
    BY <1>2, <1>6
  <2>2. ReportsGrow
    BY <1>1, <2>1, ResolveFacts DEF ReportsGrow
  <2> DEFINE new == [frozen |-> 0, deleted |-> users[t].deleted]
  <2>3. /\ new \in [frozen : 0..Len(reports'), deleted : 0..Len(reports')]
        /\ users' = [users EXCEPT ![t] = new]
    BY <1>1, <1>2, <1>6, <2>2 DEF TypeOK, ReportsGrow
  <2>4. ExecutesOn(t, {"freeze_user", "unfreeze_user", "delete_user", "restore_user"})
    BY <1>4, <1>6
  <2>5. Matched'
    BY <1>1, <1>2, <1>6, <2>1, <2>3, LiftUserFreeze DEF Matched, GovernanceInv
  <2> QED
    BY <1>1, <1>2, <1>4, <1>6, <2>2, <2>3, <2>4, <2>5, UserChange
<1> QED
  BY <1>4, <1>5, <1>6

LEMMA DeleteUserStep ==
  ASSUME GovernanceInv, NEW o \in Operators, NEW id \in 0..Len(proposals), NEW t \in Users,
         deleteUser(o, t, id)
  PROVE  GovernanceInv' /\ ConsensusStep
<1> DEFINE required == {}
           d == processGovernanceAction(o, "delete_user", t, required, id)
<1>1. /\ TypeOK /\ AskedRequired(proposals) /\ t \in Targets /\ reports \in Seq(Report)
      /\ Len(reports) \in Nat /\ users[t] \in [frozen : 0..Len(reports), deleted : 0..Len(reports)]
      /\ Typed(revokedOps, admins, users, reports) /\ Match(revokedOps, admins, users, reports)
  BY DEF GovernanceInv, TypeOK, Targets, Typed, AdminStates, UserStates, Matched
<1>2. /\ ensureGovernanceOperatorContext(o) /\ decided(d) /\ "delete_user" \in GovernanceActions
      /\ users[t].deleted = 0
      /\ d.execute => 
           /\ users' = [users EXCEPT ![t] = [frozen |-> Len(reports) + 1, deleted |-> Len(reports) + 1]]
           /\ reports' = createReportObligation(reports, "user_delete", t)
           /\ revokedOps' = revokedOps /\ admins' = admins
  BY DEF deleteUser, GovernanceActions
<1>3. /\ required = {} \/ required = getActiveOperatorCommunityIds(o) \ {t}
      /\ d = processGovernanceAction(o, "delete_user", t, required, id)
  OBVIOUS
<1> HIDE DEF d, required
<1>4. /\ Acted(o) /\ d.execute \in BOOLEAN
      /\ ~d.execute => revokedOps' = revokedOps /\ admins' = admins /\ users' = users
                        /\ reports' = reports
      /\ d.execute => \A actions : "delete_user" \in actions => ExecutesOn(t, actions)
  BY <1>1, <1>2, <1>3, DecidedFacts
<1>5. CASE ~d.execute
  BY <1>4, <1>5, NoChange
<1>6. CASE d.execute
  <2>1. /\ reports' = createReportObligation(reports, "user_delete", t)
        /\ "user_delete" \in ReportTypes
    BY <1>2, <1>6 DEF ReportTypes
  <2>2. ReportsGrow /\ Len(reports') = Len(reports) + 1
    <3>1. reports' \in Seq(Report) /\ Len(reports') = Len(reports) + 1
      BY <1>1, <2>1, CreateFacts
    <3> QED
      BY <1>1, <3>1 DEF ReportsGrow
  <2> DEFINE new == [frozen |-> Len(reports) + 1, deleted |-> Len(reports) + 1]
  <2>3. /\ new \in [frozen : 0..Len(reports'), deleted : 0..Len(reports')]
        /\ users' = [users EXCEPT ![t] = new]
    BY <1>1, <1>2, <1>6, <2>2 DEF TypeOK, ReportsGrow
  <2>4. ExecutesOn(t, {"freeze_user", "unfreeze_user", "delete_user", "restore_user"})
    BY <1>4, <1>6
  <2>5. Matched'
    BY <1>1, <1>2, <1>6, <2>1, <2>3, ImposeDeletion DEF Matched, GovernanceInv
  <2> QED
    BY <1>1, <1>2, <1>4, <1>6, <2>2, <2>3, <2>4, <2>5, UserChange
<1> QED
  BY <1>4, <1>5, <1>6

LEMMA RestoreUserStep ==
  ASSUME GovernanceInv, NEW o \in Operators, NEW id \in 0..Len(proposals), NEW t \in Users,
         restoreUser(o, t, id)
  PROVE  GovernanceInv' /\ ConsensusStep
<1> DEFINE required == {}
           d == processGovernanceAction(o, "restore_user", t, required, id)
<1>1. /\ TypeOK /\ AskedRequired(proposals) /\ t \in Targets /\ reports \in Seq(Report)
      /\ Len(reports) \in Nat /\ users[t] \in [frozen : 0..Len(reports), deleted : 0..Len(reports)]
      /\ Typed(revokedOps, admins, users, reports) /\ Match(revokedOps, admins, users, reports)
  BY DEF GovernanceInv, TypeOK, Targets, Typed, AdminStates, UserStates, Matched
<1>2. /\ ensureGovernanceOperatorContext(o) /\ decided(d) /\ "restore_user" \in GovernanceActions
      /\ users[t].deleted # 0
      /\ d.execute => 
           /\ users' = [users EXCEPT ![t] = [frozen |-> 0, deleted |-> 0]]
           /\ reports' = resolveReportObligation(reports, users[t].deleted)
           /\ revokedOps' = revokedOps /\ admins' = admins
  BY DEF restoreUser, GovernanceActions
<1>3. /\ required = {} \/ required = getActiveOperatorCommunityIds(o) \ {t}
      /\ d = processGovernanceAction(o, "restore_user", t, required, id)
  OBVIOUS
<1> HIDE DEF d, required
<1>4. /\ Acted(o) /\ d.execute \in BOOLEAN
      /\ ~d.execute => revokedOps' = revokedOps /\ admins' = admins /\ users' = users
                        /\ reports' = reports
      /\ d.execute => \A actions : "restore_user" \in actions => ExecutesOn(t, actions)
  BY <1>1, <1>2, <1>3, DecidedFacts
<1>5. CASE ~d.execute
  BY <1>4, <1>5, NoChange
<1>6. CASE d.execute
  <2>1. reports' = resolveReportObligation(reports, users[t].deleted)
    BY <1>2, <1>6
  <2>2. ReportsGrow
    BY <1>1, <2>1, ResolveFacts DEF ReportsGrow
  <2> DEFINE new == [frozen |-> 0, deleted |-> 0]
  <2>3. /\ new \in [frozen : 0..Len(reports'), deleted : 0..Len(reports')]
        /\ users' = [users EXCEPT ![t] = new]
    BY <1>1, <1>2, <1>6, <2>2 DEF TypeOK, ReportsGrow
  <2>4. ExecutesOn(t, {"freeze_user", "unfreeze_user", "delete_user", "restore_user"})
    BY <1>4, <1>6
  <2>5. Matched'
    BY <1>1, <1>2, <1>6, <2>1, <2>3, LiftDeletion DEF Matched, GovernanceInv
  <2> QED
    BY <1>1, <1>2, <1>4, <1>6, <2>2, <2>3, <2>4, <2>5, UserChange
<1> QED
  BY <1>4, <1>5, <1>6

LEMMA VisitStep ==
  ASSUME GovernanceInv, NEW o \in Operators, visit(o)
  PROVE  GovernanceInv' /\ ConsensusStep
<1> USE DEF visit, sanctions
<1>1. TypeOK' /\ AskedRequired(proposals')
  BY DEF GovernanceInv, TypeOK
<1>2. NeverLeaderless' /\ Quiet'
  BY DEF GovernanceInv, NeverLeaderless, Quiet, Active
<1>3. ConsensusStep /\ Matched'
  BY DEF ConsensusStep, GovernanceInv, Matched
<1> QED
  BY <1>1, <1>2, <1>3 DEF GovernanceInv

LEMMA CreateEventStep ==
  ASSUME GovernanceInv, NEW a \in Admins, NEW active \in BOOLEAN, NEW override \in BOOLEAN,
         NEW signals \in BOOLEAN, createEvent(a, active, override, signals)
  PROVE  GovernanceInv' /\ ConsensusStep
<1>1. /\ admins[a] \in [frozen : 0..Len(reports), revoked : 0..Len(reports), warning : BOOLEAN]
      /\ reports \in Seq(Report) /\ Len(reports) \in Nat /\ a \in Targets
      /\ admins \in [Admins -> [frozen : 0..Len(reports), revoked : 0..Len(reports), warning : BOOLEAN]]
  BY DEF GovernanceInv, TypeOK, Targets
<1>2. /\ community' = community /\ revokedOps' = revokedOps /\ users' = users
      /\ proposals' = proposals /\ admins[a].frozen = 0
  BY DEF createEvent, enforceAdminFreeze
<1>3. NeverLeaderless' /\ Quiet' /\ AskedRequired(proposals')
  BY <1>2 DEF GovernanceInv, NeverLeaderless, Quiet, Active
<1>4. CASE /\ override /\ admins[a].warning /\ active
           /\ admins' = [admins EXCEPT ![a].frozen = Len(reports) + 1, ![a].warning = FALSE]
           /\ reports' = createReportObligation(reports, "freeze", a)
           /\ events' = events
  <2>1. reports' \in Seq(Report) /\ Len(reports') = Len(reports) + 1
    BY <1>1, <1>4, CreateFacts DEF ReportTypes
  <2>2. admins' \in [Admins -> [frozen : 0..Len(reports'), revoked : 0..Len(reports'),
                                warning : BOOLEAN]]
    BY <1>1, <1>4, <2>1
  <2>3. \A b \in Admins : /\ admins'[b].revoked = admins[b].revoked
                          /\ b # a => admins'[b] = admins[b]
    BY <1>1, <1>4
  <2>4. TypeOK'
    BY <1>2, <1>4, <2>1, <2>2 DEF GovernanceInv, TypeOK
  <2>5. \A b \in Admins : admins'[b].frozen # admins[b].frozen => admins[b].frozen = 0 /\ admins[b].warning
    <3> SUFFICES ASSUME NEW b \in Admins, admins'[b].frozen # admins[b].frozen
                 PROVE  admins[b].frozen = 0 /\ admins[b].warning
      OBVIOUS
    <3>1. b = a
      BY <2>3, Zenon
    <3>2. admins[b].frozen = 0
      BY <1>2, <3>1
    <3>3. admins[b].warning
      BY <1>4, <3>1, Zenon
    <3> QED
      BY <3>2, <3>3
  <2>6. ConsensusStep
    <3>1. ASSUME NEW b \in Admins, admins'[b].frozen # admins[b].frozen
          PROVE  admins[b].frozen = 0 /\ admins[b].warning
      BY <2>5, <3>1, Zenon
    <3>2. /\ \A b \in Operators : revokedOps'[b] = revokedOps[b]
          /\ \A b \in Users : users'[b] = users[b]
          /\ \A b \in Admins : admins'[b].revoked = admins[b].revoked
      BY <1>2, <2>3, Zenon
    <3> QED
      BY <3>1, <3>2, Zenon DEF ConsensusStep
  <2>7. Matched'
    <3>1. admins' = [admins EXCEPT ![a] = [frozen |-> Len(reports) + 1, revoked |-> admins[a].revoked,
                                           warning |-> FALSE]]
      BY <1>1, <1>4
    <3>2. Typed(revokedOps, admins, users, reports) /\ Match(revokedOps, admins, users, reports)
      BY DEF GovernanceInv, TypeOK, Typed, AdminStates, UserStates, Matched
    <3>3. Match(revokedOps, admins', users, reports')
      BY <1>2, <1>4, <3>1, <3>2, ImposeFreeze
    <3> QED
      BY <1>2, <3>3 DEF Matched
  <2> QED
    BY <1>3, <2>4, <2>6, <2>7 DEF GovernanceInv
<1>5. ASSUME NEW warning \in BOOLEAN, admins' = [admins EXCEPT ![a].warning = warning],
             reports' = reports, events' \in Seq(BOOLEAN)
      PROVE  GovernanceInv' /\ ConsensusStep
  <2>1. /\ admins' \in [Admins -> [frozen : 0..Len(reports'), revoked : 0..Len(reports'),
                                   warning : BOOLEAN]]
        /\ \A b \in Admins : admins'[b].revoked = admins[b].revoked /\ admins'[b].frozen = admins[b].frozen
    BY <1>1, <1>5
  <2>2. TypeOK'
    BY <1>2, <1>5, <2>1 DEF GovernanceInv, TypeOK
  <2>3. ConsensusStep
    BY <1>2, <2>1 DEF ConsensusStep
  <2>4. Matched'
    BY <1>2, <1>5, <2>1 DEF GovernanceInv, Matched, Match
  <2> QED
    BY <1>3, <2>2, <2>3, <2>4 DEF GovernanceInv
<1>6. CASE admins' = [admins EXCEPT ![a].warning = TRUE] /\ reports' = reports /\ events' = events
  BY <1>5, <1>6 DEF GovernanceInv, TypeOK
<1>7. CASE /\ admins' = [admins EXCEPT ![a].warning = admins[a].warning /\ active]
           /\ events' = Append(events, TRUE) /\ reports' = reports
  <2>1. events' \in Seq(BOOLEAN) /\ (admins[a].warning /\ active) \in BOOLEAN
    BY <1>7 DEF GovernanceInv, TypeOK
  <2> QED
    BY <1>5, <1>7, <2>1
<1> QED
  BY <1>4, <1>6, <1>7 DEF createEvent

LEMMA CloseEventStep ==
  ASSUME GovernanceInv, NEW a \in Admins, NEW e \in DOMAIN events, closeEvent(a, e)
  PROVE  GovernanceInv' /\ ConsensusStep
<1> USE DEF closeEvent, sanctions
<1>1. TypeOK' /\ AskedRequired(proposals')
  BY DEF GovernanceInv, TypeOK
<1>2. NeverLeaderless' /\ Quiet'
  BY DEF GovernanceInv, NeverLeaderless, Quiet, Active
<1>3. ConsensusStep /\ Matched'
  BY DEF ConsensusStep, GovernanceInv, Matched
<1> QED
  BY <1>1, <1>2, <1>3 DEF GovernanceInv

LEMMA NextStep ==
  ASSUME GovernanceInv, Next
  PROVE  GovernanceInv' /\ ConsensusStep
<1>1. CASE \E o \in Operators : visit(o)
  BY <1>1, VisitStep
<1>2. ASSUME NEW o \in Operators, NEW id \in 0..Len(proposals), OnAdmin(o, id)
      PROVE  GovernanceInv' /\ ConsensusStep
  BY <1>2, UnlockStep, RevokeAccessStep, RestoreAccessStep DEF OnAdmin
<1>3. ASSUME NEW o \in Operators, NEW id \in 0..Len(proposals), OnOperator(o, id)
      PROVE  GovernanceInv' /\ ConsensusStep
  BY <1>3, RevokeOperatorStep, RestoreOperatorStep DEF OnOperator
<1>4. ASSUME NEW o \in Operators, NEW id \in 0..Len(proposals), OnUser(o, id)
      PROVE  GovernanceInv' /\ ConsensusStep
  BY <1>4, FreezeUserStep, UnfreezeUserStep, DeleteUserStep, RestoreUserStep DEF OnUser
<1>5. ASSUME NEW a \in Admins, NEW active \in BOOLEAN, NEW override \in BOOLEAN,
             NEW signals \in collectSuspiciousSignals, createEvent(a, active, override, signals)
      PROVE  GovernanceInv' /\ ConsensusStep
  BY <1>5, CreateEventStep DEF collectSuspiciousSignals
<1>6. ASSUME NEW a \in Admins, NEW e \in DOMAIN events, closeEvent(a, e)
      PROVE  GovernanceInv' /\ ConsensusStep
  BY <1>6, CloseEventStep
<1> QED
  BY <1>1, <1>2, <1>3, <1>4, <1>5, <1>6 DEF Next

LEMMA StutterStep == ASSUME GovernanceInv, UNCHANGED vars PROVE GovernanceInv' /\ ConsensusStep
BY DEF GovernanceInv, TypeOK, AskedRequired, Quiet, NeverLeaderless, Active, ConsensusStep, vars,
   sanctions, Matched

LEMMA MatchedReports ==
  ASSUME TypeOK, Matched
  PROVE  ReportsMatchSanctions
<1>1. /\ reports \in Seq(Report) /\ DOMAIN reports = 1..Len(reports)
      /\ Typed(revokedOps, admins, users, reports)
  BY DEF TypeOK, Typed, AdminStates, UserStates
<1>2. ASSUME NEW r \in 0..Len(reports), NEW type, NEW target, BackedBy(reports, r, type, target)
      PROVE  Backs(r, type, target)
  <2> SUFFICES ASSUME r # 0 PROVE reports[r] = [type |-> type, target |-> target, status |-> "required"]
    BY DEF Backs
  <2>1. reports[r] \in Report
    BY <1>1
  <2> QED
    BY <2>1, <1>2 DEF Report, BackedBy
<1>3. /\ \A o \in Operators : revokedOps[o] \in 0..Len(reports)
      /\ \A a \in Admins : admins[a].frozen \in 0..Len(reports) /\ admins[a].revoked \in 0..Len(reports)
      /\ \A u \in Users : users[u].frozen \in 0..Len(reports) /\ users[u].deleted \in 0..Len(reports)
  BY <1>1, TypedFacts
<1>4. /\ \A o \in Operators : Backs(revokedOps[o], "operator_revoke", o)
      /\ \A a \in Admins : /\ Backs(admins[a].frozen, "freeze", a)
                           /\ Backs(admins[a].revoked, "revoke_access", a)
  BY <1>2, <1>3 DEF Matched, Match
<1>5. \A u \in Users :
        IF users[u].deleted = 0 THEN Backs(users[u].frozen, "user_freeze", u)
        ELSE /\ users[u].frozen \in {0, users[u].deleted}
             /\ Backs(users[u].frozen, "user_delete", u)
  BY <1>2, <1>3 DEF Matched, Match, BackedUser
<1>6. ASSUME NEW r \in 1..Len(reports), reports[r].status = "required"
      PROVE  r \in Standing \/ Superseded(reports, r)
  <2>1. \A o \in Operators : revokedOps[o] \in Standing
    BY Zenon DEF Standing
  <2>2. ASSUME NEW a \in Admins PROVE admins[a].frozen \in Standing /\ admins[a].revoked \in Standing
    <3> DEFINE named == {{admins[b].frozen, admins[b].revoked} : b \in Admins}
    <3>1. {admins[a].frozen, admins[a].revoked} \in named
      OBVIOUS
    <3>2. admins[a].frozen \in UNION named /\ admins[a].revoked \in UNION named
      BY <3>1
    <3>3. UNION named \subseteq Standing
      BY DEF Standing
    <3> QED
      BY <3>2, <3>3
  <2>3. ASSUME NEW u \in Users PROVE users[u].frozen \in Standing /\ users[u].deleted \in Standing
    <3> DEFINE named == {{users[b].frozen, users[b].deleted} : b \in Users}
    <3>1. {users[u].frozen, users[u].deleted} \in named
      OBVIOUS
    <3>2. users[u].frozen \in UNION named /\ users[u].deleted \in UNION named
      BY <3>1
    <3>3. UNION named \subseteq Standing
      BY DEF Standing
    <3> QED
      BY <3>2, <3>3
  <2> QED
    BY <1>6, <2>1, <2>2, <2>3 DEF Matched, Match
<1> QED
  BY <1>1, <1>4, <1>5, <1>6 DEF ReportsMatchSanctions, Superseded

LEMMA InitInv == Init => GovernanceInv
<1> SUFFICES ASSUME Init PROVE GovernanceInv
  OBVIOUS
<1>1. TypeOK
  BY GovernanceAssumption DEF Init, TypeOK, newAdminState
<1>2. Matched
  BY NoneBacked DEF Init, Matched, Match, BackedUser, newAdminState
<1> QED
  BY <1>1, <1>2 DEF Init, GovernanceInv, AskedRequired, Quiet, NeverLeaderless, Active

(* The state of the operator community is well formed for any number of    *)
(* operators and requests: every sanction names a report that was made.    *)
THEOREM TypeCorrect == Spec => []TypeOK
<1>1. GovernanceInv /\ [Next]_vars => GovernanceInv'
  BY NextStep, StutterStep
<1>2. GovernanceInv => TypeOK
  BY DEF GovernanceInv
<1> QED
  BY InitInv, <1>1, <1>2, PTL DEF Spec

(* However operators revoke and restore each other, one of those that were *)
(* seen may still act: revokeOperator needs an approver that is not the    *)
(* target (v1School.ts: 'last active operator cannot be revoked').         *)
THEOREM AlwaysLed == Spec => []NeverLeaderless
<1>1. GovernanceInv /\ [Next]_vars => GovernanceInv'
  BY NextStep, StutterStep
<1>2. GovernanceInv => NeverLeaderless
  BY DEF GovernanceInv
<1> QED
  BY InitInv, <1>1, <1>2, PTL DEF Spec

(* Every sanction that stands names its own report, which is still         *)
(* required, and every required report is owed by a sanction that stands,  *)
(* but for the report of a freeze that a deletion replaced                 *)
(* (createReportObligation, resolveReportObligation).                      *)
THEOREM ReportsMatch == Spec => []ReportsMatchSanctions
<1>1. GovernanceInv /\ [Next]_vars => GovernanceInv'
  BY NextStep, StutterStep
<1>2. GovernanceInv => ReportsMatchSanctions
  BY MatchedReports DEF GovernanceInv
<1> QED
  BY InitInv, <1>1, <1>2, PTL DEF Spec

(* No sanction changes but by the execution of a proposal about it that    *)
(* was pending, with the approval of everyone active it asked              *)
(* (processGovernanceAction).                                              *)
THEOREM SanctionedByConsensus == Spec => SanctionsByConsensus
<1>1. GovernanceInv /\ [Next]_vars => GovernanceInv'
  BY NextStep, StutterStep
<1>2. GovernanceInv /\ [Next]_vars => [ConsensusStep]_vars
  BY NextStep
<1> QED
  BY InitInv, <1>1, <1>2, PTL DEF Spec, SanctionsByConsensus, ConsensusStep

=============================================================================

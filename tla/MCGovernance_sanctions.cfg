\* Three operators sanction an admin, a user and each other.
CONSTANTS
  o1 = o1  o2 = o2  o3 = o3  a1 = a1  u1 = u1
  Operators = {o1, o2, o3}
  Admins = {a1}
  Users = {u1}
  Actions = {"unlock_admin", "revoke_admin_access", "restore_admin_access", "revoke_operator", "restore_operator", "freeze_user", "unfreeze_user", "delete_user", "restore_user"}
  MaxProposals = 3
  MaxReports = 3
  MaxEvents = 1
SYMMETRY Interchangeable
SPECIFICATION Spec
INVARIANTS ReportsMatchSanctions NeverLeaderless
PROPERTY SanctionsByConsensus
CHECK_DEADLOCK FALSE

\* One master, two codes, a user, one crash.
CONSTANTS
  None = None
  Master = Master
  c1 = c1  c2 = c2  p1 = p1
  Codes = {c1, c2}
  InviteIds = {p1}
  Users = {u1}
  Sanctions = {"unlock_admin", "revoke_admin_access", "restore_admin_access", "revoke_operator", "restore_operator", "freeze_user", "unfreeze_user", "delete_user", "restore_user"}
  GrantConfigs = {g1}
  WarningTTL = 0
  IssueWindow = 1
  EventsPerWindow = 1
  InvitesPerWindow = 1
  MaxTime = 1
  MaxWaiting = 1
  MaxEvents = 2
  MaxReports = 1
  MaxCrashes = 1
SPECIFICATION Spec
SYMMETRY Interchangeable
CHECK_DEADLOCK FALSE
INVARIANTS IssueLimitsHold StraysBoundedByCrashes SanctionsReported
PROPERTY SanctionedDoNothing

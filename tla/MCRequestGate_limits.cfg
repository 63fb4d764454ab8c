\* Two routes of one policy, two clients; two cron triggers in a period of the anchor.
CONSTANTS
  None = None
  c1 = c1  c2 = c2
  Clients = {c1, c2}
  Routes = {"register", "claim"}
  Policy <- Limits
  GlobalPolicy <- GlobalLimits
  ScaleCap = 2
  ViolationCap = 3
  Deployments <- Separately
  Period = 4
  CronEvery = 2
  MaxTime = 6
  MaxSkews = 1
  MaxRequests = 7
  MaxCrashes = 1
SPECIFICATION Spec
SYMMETRY Interchangeable
CHECK_DEADLOCK FALSE
INVARIANTS BurstBounded PatientServed ExtraAnchorsBounded

\* Two calls, two users, a wallet, two events, two decisions at a time.
CONSTANTS
  None = None
  r1 = r1  r2 = r2  r3 = r3  school = school  public = public  d1 = d1  d2 = d2
  u1 = u1  u2 = u2  w1 = w1
  Calls = {r1, r2}
  Users = {u1, u2}
  Wallets = {w1}
  Events = {school, public}
  MinScore <- Thresholds
  Scores = {1}
  Policies <- Recommended
  CacheTTL = 1
  OverrideTTL = 1
  Remediable <- About
  RemediationIds = {q1}
  Deciders = {d1, d2}
  MaxTime = 1
  MaxCrashes = 1
SPECIFICATION Spec
SYMMETRY Interchangeable
CHECK_DEADLOCK FALSE
INVARIANTS RegistryGapsBoundedByCrashes AdmittedOnFreshVerdict DecidedOnce

CONSTANTS
    u1 = u1
    u2 = u2
    e1 = e1
    f1 = f1
    f2 = f2
    Nobody = Nobody
    Users = {u1, u2}
    Events = {e1}
    Flows = {f1, f2}
    Platforms = {"native", "web"}
    MaxPeriod = 2
    MaxTx = 2
    MaxJobs = 2
    MaxLogins = 1
    MaxClaims = 2
SPECIFICATION Spec
SYMMETRY Accounts
CHECK_DEADLOCK FALSE
INVARIANTS ReceiptsKept ScopesSeparate

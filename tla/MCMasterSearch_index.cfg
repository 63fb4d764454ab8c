\* Claims, a close, a revocation and searches; crashes, audit failures.
CONSTANTS
  r1 = r1  r2 = r2  r3 = r3  r4 = r4  s1 = s1  s2 = s2
  c1 = c1  c2 = c2  t1 = t1  None = None
  Requests = {r1, r2, r3}
  Subjects = {s1, s2}
  Codes = {c1, c2}
  Txs = {t1}
  MaxClaims = 1
  Interval = 0
  ScanLimit = 20
  MaxStored = 2
  Environments <- AllDeployments
  MaxTime = 2
  MaxCrashes = 1
  TransferLimits = {1}
  RowsPerTransfer = 2
  KeepKeys = 1
  IndexTtl = 0
SYMMETRY Interchangeable
SPECIFICATION SearchSpec
CONSTRAINT TickOrCrash
INVARIANTS OneOpenTicketUnjudged CodesBelong TicketBacked
PROPERTIES IssuedWithinPolicy SearchCurrent
CHECK_DEADLOCK FALSE

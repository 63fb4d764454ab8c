\* Two claims of one subject wait for the cost-of-forgery service together.
CONSTANTS
  r1 = r1  r2 = r2  s1 = s1
  c1 = c1  c2 = c2  t1 = t1  None = None
  Requests = {r1, r2}
  Subjects = {s1}
  Codes = {c1, c2}
  Txs = {t1}
  MaxClaims = 1
  Interval = 0
  ScanLimit = 20
  MaxStored = 2
  Environments <- WithJudge
  MaxTime = 1
  MaxCrashes = 0
SYMMETRY Interchangeable
SPECIFICATION Spec
INVARIANTS OneOpenTicket
CHECK_DEADLOCK FALSE

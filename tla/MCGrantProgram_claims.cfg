SPECIFICATION Spec
CONSTANTS
  a = a
  c1 = c1
  c2 = c2
  m1 = m1
  m2 = m2
  s1 = s1
  s2 = s2
  h0 = h0
  h1 = h1
  None = None
  ZeroHash = ZeroHash
  Wallets = {a, c1, c2}
  Mints = {m1}
  Grants <- MCGrants
  Signers = {s1, s2}
  PopInstructions <- MCPopInstructions
  Roots = {ZeroHash}
  MerkleProofs = {}
  Amounts = {0, 1}
  Periods = {0, 2}
  Starts = {0, 2}
  Expiries = {0, 2}
  PeriodIndexes = {0, 1}
  InitialBalance = 1
  StartAhead = 1
  MaxSkew = 1
  MaxTime = 3
  MaxFunded = 2
  MaxProof = 0
INVARIANTS
  PaidOncePerReceipt
  OncePerScheduledPeriod
  HeadIsNewest
CHECK_DEADLOCK FALSE

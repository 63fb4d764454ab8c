SPECIFICATION Spec
CONSTANTS
  a = a
  c1 = c1
  c2 = c2
  m1 = m1
  m2 = m2
  s1 = s1
  s2 = s2
  h0 = h0
  h1 = h1
  None = None
  ZeroHash = ZeroHash
  Wallets = {a, c1, c2}
  Mints = {m1, m2}
  Grants <- TwoGrants
  Signers = {s1}
  PopInstructions <- MCPopInstructions
  Roots <- MCRoots
  MerkleProofs <- MCProofs
  Amounts = {1}
  Periods = {2}
  Starts = {0}
  Expiries = {0}
  PeriodIndexes = {0}
  InitialBalance = 1
  StartAhead = 1
  MaxSkew = 1
  MaxTime = 0
  MaxFunded = 1
  MaxProof = 2
INVARIANTS
  VaultAccounting
  TokenConservation
  ProofSingleUse
  AllowlistRespected
CHECK_DEADLOCK FALSE

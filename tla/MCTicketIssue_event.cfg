\* A setup whose transactions fail or land unseen; then, with a rotating signer, three
\* requests of one claimer and a crash, and with a fixed one, two claimers and an organiser
\* who may change, pause, restrict, close and create the grant again.
CONSTANTS
  a = a  c1 = c1  c2 = c2  m1 = m1  s1 = s1  s2 = s2
  r1 = r1  r2 = r2  r3 = r3  t1 = t1
  None = None
  ZeroHash = ZeroHash
  Wallets = {a, c1, c2}
  Mints = {m1}
  Grants <- MCGrants
  Signers = {s1, s2}
  PopInstructions = {}
  Roots <- MCRoots
  MerkleProofs <- MCMerkleProofs
  Amounts = {2}
  Periods = {2}
  Starts = {0}
  Expiries = {0}
  PeriodIndexes = {0}
  InitialBalance = 0
  StartAhead = 1
  MaxSkew = 2
  MaxTime = 3
  MaxFunded = 102
  MaxProof = 0
  Requests = {r1, r2, r3}
  Tickets = {t1}
  Modes = {"rotation", "fixed", "none"}
  SignerOf <- Alternating
  RotationStart = 0
  RotationInterval = 2
  ReuseMaxAge = 1
  MaxCrashes = 1
  Forms <- TwoForms
  EnvSigners = {s1, None}
  TicksPerDay = 2
  StartBehind = 1
  MAX_U64 = 200
SYMMETRY Interchangeable
SPECIFICATION EventSpec
CONSTRAINT Parts
INVARIANTS EventBacked NoPopFork UsableOnChain SameProofWhileFresh PayoutAnchored
CHECK_DEADLOCK FALSE

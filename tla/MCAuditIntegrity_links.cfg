SPECIFICATION Spec
CONSTANTS
  c1 = c1
  c2 = c2
  c3 = c3
  c4 = c4
  evt = evt
  other = other
  None = None
  GENESIS = GENESIS
  Calls = {c1, c2, c3, c4}
  Streams = {"global", evt, other}
  StreamOf <- TwoStreams
  HashRank <- Ranks
  Environments <- Deployments
  MaxTime = 2
  MaxCrashes = 1
INVARIANTS
  DetectsRemoval
  UntouchedWindowPasses
CHECK_DEADLOCK FALSE

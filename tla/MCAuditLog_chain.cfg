SPECIFICATION FairSpec
CONSTANTS
  c1 = c1
  c2 = c2
  c3 = c3
  evt = evt
  None = None
  GENESIS = GENESIS
  Calls = {c1, c2, c3}
  Streams = {"global", evt}
  StreamOf <- MCStreamOf
  Environments <- Deployments
  MaxTime = 0
  MaxCrashes = 2
INVARIANTS
  NoFork
  NoStreamFork
  ImmutableFirst
  GapsBoundedByCrashes
PROPERTY
  ImplementsAppendOnlyLog
  CallsSettle
CHECK_DEADLOCK FALSE

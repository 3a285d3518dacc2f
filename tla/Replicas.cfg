SPECIFICATION Spec
CONSTANTS
  r1 = r1
  r2 = r2
  f1 = f1
  f2 = f2
  c0 = c0
  c1 = c1
  c2 = c2
  p0 = p0
  p1 = p1
  p2 = p2
  Replicas = {r1, r2}
  Lease = 6
  ReleaseAfter = 2
  MaxLeaderFaults = 2
  Schedulers = {r1, r2}
  Crons = {2, 3}
  Bodies = {1, 2}
  MaxSleep = 3
  MaxTime = 7
  MaxSlow = 1
  MaxDisturbances = 3
  DeferredSteps = {f1, f2}
  Resolvers = {r1, r2}
  Heads = {c1, c2}
  NoHead = c0
  MaxResolverFaults = 1
  Slots = {1, 2, 3}
  Prints = {p1, p2}
  NoPrint = p0
  RestartPolicy = "always"
  Window = 1
  BackoffCap = 1
  MaxEdits = 2
INVARIANTS StaleLeaderBounded NoBackfire OneCommitPerRef
PROPERTIES OnlyHolderWrites OccurrencesFire LeaderComesBack ConsumersFollow DeferredRowsEnd
CHECK_DEADLOCK FALSE

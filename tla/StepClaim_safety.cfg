SPECIFICATION Spec
CONSTANTS
  NoWorker = NoWorker
  s1 = s1
  s2 = s2
  w1 = w1
  w2 = w2
  Steps = {s1}
  Workers = {w1, w2}
  MaxRetries <- OneRetry
  MaxPinReleases = 1
  HasTimeout <- AllTimeouts
  MaxWorkerCrashes = 0
  MaxServerCrashes = 0
  MaxMisses = 1
CHECK_DEADLOCK FALSE
SYMMETRY WorkerSymmetry
INVARIANTS TypeOK BudgetsKept ClaimColumns FenceExact NoReleaseAfterCancel
PROPERTIES JobStatusFinal

SPECIFICATION FairSpec
CONSTANTS
  NoWorker = NoWorker
  s1 = s1
  s2 = s2
  w1 = w1
  w2 = w2
  Steps = {s1}
  Workers = {w1}
  MaxRetries <- OneRetry
  MaxPinReleases = 1
  HasTimeout <- AllTimeouts
  MaxWorkerCrashes = 1
  MaxServerCrashes = 1
  MaxMisses = 0
CHECK_DEADLOCK FALSE
PROPERTIES StepsTerminate

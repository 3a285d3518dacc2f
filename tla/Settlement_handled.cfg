SPECIFICATION FairSpec
CONSTANTS
  Canceller = Canceller
  Sweeper = Sweeper
  s1 = s1
  s2 = s2
  r1 = r1
  r2 = r2
  Steps = {s1}
  Replicas = {r1, r2}
  PollsAt <- OnePoll
  StepRetries <- OneStepRetry
  IsChild = TRUE
  JobRetry = TRUE
  Pinned = TRUE
  Resolutions = {"ok", "none", "permanent"}
  Faults = {"propagate", "notify"}
  MaxCrashes = 0
CHECK_DEADLOCK FALSE
PROPERTIES JobHandled

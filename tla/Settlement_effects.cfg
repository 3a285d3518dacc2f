SPECIFICATION Spec
CONSTANTS
  Canceller = Canceller
  Sweeper = Sweeper
  s1 = s1
  s2 = s2
  r1 = r1
  r2 = r2
  Steps = {s1, s2}
  Replicas = {r1}
  PollsAt <- OnePoll
  StepRetries <- NoStepRetry
  IsChild = FALSE
  JobRetry = TRUE
  Pinned = TRUE
  Resolutions = {"ok", "none", "permanent"}
  Faults = {"request", "claim", "retry"}
  MaxCrashes = 1
CHECK_DEADLOCK FALSE
INVARIANTS TypeOK EffectsAfterLastStep
PROPERTIES Implements

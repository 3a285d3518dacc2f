SPECIFICATION FairSpec
CONSTANTS
  t1 = t1
  t2 = t2
  d1 = d1
  d2 = d2
  v1 = v1
  v2 = v2
  Steps = {t1}
  Dispatchers = {d1, d2}
  Templated = {t1}
  Commits = {v1}
  StepRetries <- FirstRetries
  TimesOut = {t1}
  MaxAdvances = 2
  MaxFaults = 2
CHECK_DEADLOCK FALSE
INVARIANTS OneChildPerAttempt ChildAtStamp LoserCannotFail
PROPERTIES ImplementsCalls AnswerArrives

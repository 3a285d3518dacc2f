SPECIFICATION Spec
CONSTANTS
  d1 = d1
  d2 = d2
  u1 = u1
  u2 = u2
  k1 = k1
  k2 = k2
  w1 = w1
  w2 = w2
  c1 = c1
  q1 = q1
  q2 = q2
  r1 = r1
  r2 = r2
  PeekThreshold = 2
  PollInterval = 1
  MaxBackoff = 2
  MaxRevisions = 3
  MaxLoadFaults = 2
  Dispatchers = {d1, d2}
  Approvers = {u1, u2}
  GateRetries = 1
  Calls = {k1, k2}
  AgentWorkers = {w1, w2}
  AgentUsers = {u1, u2}
  MaxParallel = 2
  MaxTurns = 2
  Commits = {c1}
  PinCallers = {q1, q2}
  MaxPermits = 2
  Resolvers = {r1, r2}
  MaxTips = 3
  Interactive = TRUE
INVARIANT ApprovalStands
CHECK_DEADLOCK FALSE

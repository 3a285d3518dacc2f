SPECIFICATION Spec
CONSTANTS
  hc = hc
  h1 = h1
  h2 = h2
  a = a
  b = b
  c = c
  d = d
  p = p
  z = z
  Entries <- BranchEntries
  FlowSteps <- BranchSteps
  DependsOn <- BranchDepends
  Placeholders = {}
  Sequential = {}
  Tolerated = {}
  Retried = {b}
  WhenResults <- BranchWhen
  ItemCounts <- NoItems
  MaxItems = 0
  Results = {"completed", "failed"}
  Handlers = {hc, h1, h2}
  Creator = hc
  MaxAttempts = 2
  MaxLate = 0
  LateSteps = {}
CHECK_DEADLOCK FALSE
SYMMETRY HandlerSymmetry
INVARIANTS GateRespected NoLostWakeup SettledIsExact

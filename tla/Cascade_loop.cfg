SPECIFICATION Spec
CONSTANTS
  hc = hc
  h1 = h1
  h2 = h2
  a = a
  b = b
  c = c
  d = d
  p = p
  z = z
  Entries <- LoopEntries
  FlowSteps <- LoopSteps
  DependsOn <- LoopDepends
  Placeholders = {p}
  Sequential = {p}
  Tolerated = {}
  Retried = {p}
  WhenResults <- LoopWhen
  ItemCounts <- LoopItems
  MaxItems = 2
  Results = {"completed", "failed", "cancelled"}
  Handlers = {hc, h1, h2}
  Creator = hc
  MaxAttempts = 2
  MaxLate = 1
  LateSteps = {z}
CHECK_DEADLOCK FALSE
SYMMETRY HandlerSymmetry
INVARIANTS LoopOrder RollupExact CancelLeavesOnly

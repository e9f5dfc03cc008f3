\* A reset and a delete among two orchestrators.
SPECIFICATION Spec
CONSTANTS
  p1 = p1
  p2 = p2
  o1 = o1
  o2 = o2
  NoOwner = NoOwner
  Proc = {p1, p2}
  Owner <- OwnersAndOps
  MaxRuns = 2
  StartPhases <- AtReview
  HostOf <- SameHost
  Mortal = {p1}
  Fallible = {}
  Stoppers = {p2}
  Monitors = {}
  CliManager = {}
  WebManager = {}
  ManualMoves <- NoMoves
  ResetOp = {o1}
  DeleteOp = {o2}
INVARIANTS FreshStart
PROPERTIES FollowsWorkflow
CHECK_DEADLOCK FALSE

\* Two orchestrators on one host that crash, fail and stop; no managers.
SPECIFICATION Spec
CONSTANTS
  p1 = p1
  p2 = p2
  o1 = o1
  o2 = o2
  NoOwner = NoOwner
  Proc = {p1, p2}
  Owner <- TwoOwners
  MaxRuns = 3
  StartPhases <- ReadyOrOpen
  HostOf <- SameHost
  Mortal = {p1, p2}
  Fallible = {p1, p2}
  Stoppers = {p2}
  Monitors = {p1, p2}
  CliManager = {}
  WebManager = {}
  ManualMoves <- NoMoves
  ResetOp = {}
  DeleteOp = {}
INVARIANTS TypeOK LeaseCoherent LiveRunKeepsLock DisplacedAgentWasStopped
PROPERTIES WaitEndsByItsMonitor StopSticks OutcomeSurvivesCrash FollowsWorkflow
CHECK_DEADLOCK FALSE

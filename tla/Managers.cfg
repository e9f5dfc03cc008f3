\* Two orchestrators on different hosts, where an expired lock may be broken under a
\* live run, and one manager at the web UI who approves, rejects and resumes. Nobody
\* crashes: between hosts a dead orchestrator cannot be told from a slow one.
SPECIFICATION Spec
CONSTANTS
  p1 = p1
  p2 = p2
  o1 = o1
  o2 = o2
  NoOwner = NoOwner
  Proc = {p1, p2}
  Owner <- TwoOwners
  MaxRuns = 2
  StartPhases <- GatesAndMerge
  HostOf <- FarHosts
  Mortal = {}
  Fallible = {}
  Stoppers = {p2}
  Monitors = {p1, p2}
  CliManager = {}
  WebManager = {m1}
  ManualMoves <- GateMoves
  ResetOp = {}
  DeleteOp = {}
INVARIANTS QuestionIsPending RetiredRunsFenced
PROPERTIES FollowsWorkflow StopSticks MergeIsApproved
CHECK_DEADLOCK FALSE

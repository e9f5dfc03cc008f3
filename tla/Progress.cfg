\* One orchestrator crashes, the other does not.
SPECIFICATION FairSpec
CONSTANTS
  p1 = p1
  p2 = p2
  o1 = o1
  o2 = o2
  NoOwner = NoOwner
  Proc = {p1, p2}
  Owner <- TwoOwners
  MaxRuns = 2
  StartPhases <- ReadyOrOpen
  HostOf <- SameHost
  Mortal = {p1}
  Fallible = {}
  Stoppers = {p2}
  Monitors = {p1, p2}
  CliManager = {}
  WebManager = {}
  ManualMoves <- NoMoves
  ResetOp = {}
  DeleteOp = {}
PROPERTIES RunningEnds LocksEnd StoppedRunsEnd

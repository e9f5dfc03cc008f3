\* Two managers at the web UI decide at the same gate.
SPECIFICATION Spec
CONSTANTS
  p1 = p1
  p2 = p2
  o1 = o1
  o2 = o2
  NoOwner = NoOwner
  Proc = {p1, p2}
  Owner <- TwoOwners
  MaxRuns = 2
  StartPhases <- Gates
  HostOf <- SameHost
  Mortal = {p1, p2}
  Fallible = {p1, p2}
  Stoppers = {p2}
  Monitors = {}
  CliManager = {}
  WebManager = {m1, m2}
  ManualMoves <- GateMoves
  ResetOp = {}
  DeleteOp = {}
PROPERTIES ManualMovesAreValid
CHECK_DEADLOCK FALSE

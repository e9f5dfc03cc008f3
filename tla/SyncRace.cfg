\* A process sweeps while another one dies in its source sync.
SPECIFICATION Spec
CONSTANTS
  p1 = p1
  p2 = p2
  p3 = p3
  NoOwner = NoOwner
  Owner = {p1, p2}
  Mortal = {p1}
  Beside = {p2}
  Raisers = {}
  MaxSource = 1
  MaxRuns = 1
  StartPhases = {"ready_for_review"}
PROPERTIES RecoveryRoutesConflicts

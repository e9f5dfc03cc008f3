\* Two processes that may die, one after the other, and a third beside them or after them.
SPECIFICATION FairSpec
CONSTANTS
  p1 = p1
  p2 = p2
  p3 = p3
  NoOwner = NoOwner
  Owner = {p1, p2, p3}
  Mortal = {p1, p2}
  Beside = {p3}
  Raisers = {p3}
  MaxSource = 1
  MaxRuns = 3
  StartPhases = {"ready_for_review"}
INVARIANTS TypeOK MergesAreConcluded ReworkStartsFromSource ReportIsOfTheseConflicts
PROPERTIES ConflictsReachResolver ConflictsEnd

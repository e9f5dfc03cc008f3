\* Three issues of one priority for two slots; one of them is also handled by
\* managers and by another worker.
SPECIFICATION Spec
CONSTANTS
  i1 = i1
  i2 = i2
  i3 = i3
  Issue = {i1, i2, i3}
  Priority <- SamePriority
  Concurrency = 2
  NoIssue = NoIssue
  Shared = {i1}
CHECK_DEADLOCK FALSE
INVARIANTS
  TypeOK
  SlotsAreActive
PROPERTIES
  ReadyIssuesRun
  PullRequestsAreSeen
  ShutdownDrains

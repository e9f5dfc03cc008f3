\* An issue with conflicts is blocked and resumed at the merge.
SPECIFICATION Spec
CONSTANTS
  w1 = w1
  w2 = w2
  NoWorker = NoWorker
  Worker = {w1, w2}
  Modes = {"local"}
  ResumePhases = {"ready_for_merge"}
  StopKinds = {"none"}
  Abandonable = FALSE
  MaxCommits = 4
  MaxCrashes = 0
INVARIANTS MarkersStayOut
\* An issue that is done stays done.
CHECK_DEADLOCK FALSE

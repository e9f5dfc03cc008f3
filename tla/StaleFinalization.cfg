\* The cleanup of a pull request fails; the next merge crashes.
SPECIFICATION Spec
CONSTANTS
  w1 = w1
  w2 = w2
  NoWorker = NoWorker
  Worker = {w1, w2}
  Modes = {"pull_request"}
  ResumePhases = {"ready_for_merge"}
  StopKinds = {"none"}
  Abandonable = TRUE
  MaxCommits = 4
  MaxCrashes = 1
INVARIANTS WorkIsKept
\* An issue that is done stays done.
CHECK_DEADLOCK FALSE

\* Two processes, crashes and stops, local merges and pull requests, under fairness.
SPECIFICATION FairSpec
CONSTANTS
  w1 = w1
  w2 = w2
  NoWorker = NoWorker
  Worker = {w1, w2}
  Modes = {"local", "pull_request"}
  ResumePhases = {"ready_for_merge"}
  StopKinds = {"none", "merge"}
  Abandonable = FALSE
  MaxCommits = 3
  MaxCrashes = 2
INVARIANTS TypeOK WorkIsKept FinishedWorkIsDelivered RecordsFollowTheWork
PROPERTIES MergeEnds
\* An issue that is done stays done.
CHECK_DEADLOCK FALSE

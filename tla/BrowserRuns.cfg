\* Two actions of the browser, one for an issue and one for the next issue, a pool
\* of one thread, and a list that keeps one ended action.
SPECIFICATION Spec
CONSTANTS
  j1 = j1
  j2 = j2
  i1 = i1
  Job <- Jobs
  Run <- Jobs
  IssueJob <- ForIssue
  Issue = {i1}
  IssueOf <- TheIssue
  MaxWorkers = 1
  MaxHistory = 1
  NoRun = NoRun
  Refused = {j2}
CHECK_DEADLOCK FALSE
INVARIANTS
  TypeOK
  AgentsAreListed
  ThreadsFindTheirJob
PROPERTIES
  FollowsLifecycle
  StopsReachAgents
  JobsEnd

# Verification of agent-team

`agent_team` moves issues through research, planning, implementation, validation,
review and merge by running agents over a Git worktree per issue. Its state is one
SQLite database; any number of worker processes, command line calls and web servers
act on it at once, on one host or on several, and every one of them may be killed at
any moment. What keeps them apart is a lock on the row of the issue, an expiry, a run
id and a recovery procedure. This directory models that machinery in TLA+, checks it
with TLC and proves the parts that matter most with TLAPS.

## The system

| component | state it keeps | operations | what makes it correct |
|---|---|---|---|
| `state_machine.py` | none: tables of phases and transitions | `validate_transition`, `runnable_phase_for`, `human_input_resume_phase_for_agent_phase`, `default_next_phase` | the tables agree: whatever an agent phase leads to is a valid transition, and a merge needs a person |
| `db.py` `IssueStore` | the row of each issue (phase, lock owner, expiry, current run), `runs`, `events`, `human_input_requests` | one SQLite transaction each: acquire, refresh and release a lock, transition, create and complete a run, ask and answer, stop, recover, claim a recovery, reserve and finish a reset or a delete | the columns of a lock agree; a run that was stopped or recovered cannot write any more; a question is pending exactly while the issue waits for its answer |
| `locks.py` | none: process ids and start tokens | is the owner on this host dead, is it alive | a live owner's lock is not broken on its own host |
| `orchestrator.py` | threads: the run, the lock heartbeat, the cancellation monitor | `process_issue`, recovery of interrupted issues, pull request monitoring | every issue leaves its running phase, along the graph, whoever crashes; an outcome that was stored is not lost; a stop sticks |
| `lifecycle.py` | none | `stop_issue`, `reset_issue_to_draft`, `delete_issue` | no late worker brings back what a reset cleared |
| `cli.py`, `web.py` | the service: a web server and a worker's thread | a manager's approvals, rejections, transitions, answers, run requests, stops and removals | a manager's move is a valid transition of the issue nobody works on; what an issue's removal waits for is really over; the service ends when its worker has |
| `runners/` | the process group of the agent, a registry of active processes | `run`, `cancel_run`, the deadline, the sweep of what the agent left | a cancelled agent ends, whenever the cancellation comes and whatever it ignores; no process outlives its run |
| `workspaces.py` | worktrees, branches, metadata files | create, snapshot, source sync, merge, pull request, finalization, recovery | a merge is done once and never forgotten |
| `pull_requests.py` | none: calls to `gh` and `az` | create, status, comments | its answers are used only by a monitor that still holds its claim |
| `worker.py` | futures, active issues, the batch, a stop event | refill, sweep, wait, look at a pull request | no slot is lost, no issue is run twice, no ready issue and no pull request starves, a stop drains the loop |
| `web_jobs.py` | a table of actions and their futures in memory, a thread pool | submit, start, finish, cancel, forget, prune, shut down | an action follows its life cycle, is listed as long as its agent works, and ends |
| `artifacts.py`, `config.py`, `models.py`, `dashboard.py`, `web_*.py` | files; none | formatting, reading, rendering | |

They meet in the database. An orchestrator never holds a transaction over an agent or
a Git command: it reads, lets the lock go stale under it if it is slow, and writes
under a guard (`WHERE current_run_id = ?`, `WHERE phase = ?`, `lock_owner = ?`). So
the hard behaviours are: two steps of one call with another actor in between; a
lease that expires under a live run on another host; a crash between any two
transactions and the recovery that guesses what had been done; a stop, a reset or a
manager's transition under a live run; the worker that finds out late. The
`hazards` of `PROJECT.json` list them with their lines.

## The modules

`StateMachine` holds the tables of `state_machine.py` as functions.

`IssueStore` is one issue as the database stores it. `phase`, `owner`, `lease` and
`current` are columns of the row (`lease` compares `lock_expires_at` with the clock:
none, live or expired), `runs` and `request` the rows of `runs` and
`human_input_requests` that recovery and the guards read, `mover` the run named by
the last `issue.transitioned` event (recovery looks for the run there), `lastRun`
stands for the freshness of run ids. Each operator is one transaction. The four
outcomes a run may be completed with (success, blocked, failed, requeued) are one
status, since it is the stored next phase that decides what follows.

`Orchestrator` puts everyone around that issue. An orchestrator `p` in `Proc` is one
lock owner, that is one call chain of one process: `pc[p]` is where it is in
`process_issue` (`claim`, `acquired`, `starting`, `started`, `running`, `returned`,
`recording`, `settled`, `completed`, `moving`, `releasing`), in a claimed recovery
(`recovering`, `reporting`, `rescan`) or in `stop_issue` (`stop`). One action is one
transaction plus what follows it up to the next, so that another actor can come in
between any two. `Heartbeat` and `AgentCancelled` are the two threads of a run.
`Crash` is possible at every `pc`; what a restarted process does is what another
member of `Proc` does, since a lock owner names the process. A manager's transition
is `ManualRead`, with the checks the web UI (`WebManager`) or the command line
(`CliManager`) makes, and then `ManualWrite`, which checks nothing: that is how
`transition_issue` is written. `BeginOp`, `FinishOp` and `FailOp` are reset and
delete. What the agent, Git and the runner do is their outcome: `Results` is the
set of next phases they may lead to, `conflicted` whether the worktree holds
unresolved conflicts, which is what decides between the two kinds of recovery.

The pull request monitor is another way through the same places: `ClaimMonitor` takes
the lock of an issue that waits for its pull request, `AskProvider` hears one of the
`Sightings` (closed, still open, in conflict, refused), and `RecordSighting`,
`PrepareConflicts` and `RecordVerdict` write what follows from it, each after
`Reclaim`, the check of the claim (`looking`, `looked`, `repairing`, `deciding`,
`checked`; the move and the release are those of a run, `moving` and `releasing`).
A chain of such checks with nothing but comments and metadata between them is one step,
since a claim that is lost in between is found lost at its end. `MonitorRaises` and
`FallBack` are its exception handler. A monitor's run has no row: its id only fences.

`IssueWorkflow` is the abstract specification: one variable, `phase`, and the moves
the team promises, with no locks, runs or crashes. `Orchestrator` implements it
under its own `phase` (`FollowsWorkflow`).

`MergeFinalization` looks into what is one step of `Orchestrator`: the merge of an
issue's worktree and the recovery of a merge, in `workspaces.py`. A revision is the set
of the commits it contains, so "is an ancestor of" is set inclusion; `target`, `tree`
and `remote` are the target branch, the worktree and the pull request's branch, `pr`
the pull request, `ws`, `merged` and `request` the files `workspace.json`,
`merged_workspace.json` and `pull_request.json`. A process takes the repository lock
(`flock`), commits what it finds in the worktree, merges the target into it, and lands
it (`Land`) or pushes it and opens a pull request (`Push`, `OpenPullRequest`); both end
in the same cleanup (`RecordResult`, `RemoveTree`, `MarkCleaned`, `ForgetSpace`,
`PruneBranches`), one action for every Git effect and every file. `Claim`, `Look`,
`DecideCleanup` and `DecideFromTree` are `recover_interrupted_merge`: what it reads before
it waits for the lock, what it reads again, and what it concludes. `StartRepair` to
`SyncRepairTree` are the workspace the pull request monitor prepares for conflicts. The
issue's row is reduced to its phase (`working` stands for implementation to approval,
`resolving` for conflict resolution) and to the holder of its lock; an outcome is
written only by the process that still holds it, which is what `Orchestrator` shows of
the guards of the database. `made` and `marked` are history: the commits made for the
issue, and those that contain conflict markers.

`SourceSync` is the other part of `workspaces.py`: when a review sends the work back, the
source branch is merged into the issue's worktree first. `tree` is what Git knows of the
worktree (how much of the source its HEAD includes, an unfinished merge, unmerged files,
other changes), `noted` is `last_source_sync_head` of `workspace.json`, `report` the merge
artifact. A process goes from `AgentReturns` through `ReadSource`, `MergeSource`, `Note`,
`ArchiveReport` and `WriteReport`, with what may fail on the way, and through `Stage` and
`Commit` when an implementation or a resolution ends. What is one step in `Orchestrator`
is taken apart here: `recover_interrupted_runs` looks at the worktree (`Look`), claims
(`Claim`), rescues (`Rescue`, the report, `HandOver`) and only then sweeps all that is
left (`Sweep`). It uses `IssueStore` for the row and its transactions. Stops and managers,
questions, the heartbeat and other hosts are left to `Orchestrator`, and the issue is
followed until a merge approval or a block.

`JobLifecycle` is what the list of the web UI's queued actions promises: where an action
may go from each status. `WebJobs` is `QueuedActionManager`: each critical section of its
lock is an action (`InsertJob` and `RecordFuture` of `_submit`, `MarkRunning`,
`DecideStatus` and `UpdateJob` of `_execute`, `CancelJobs`, `ForgetJobs`), the pool is
between them (`HandOver`, `TakeJob`, `FinishFuture`), and `SetJobs` prunes the history as
`_prune_locked` does. `CopilotRunner` is one agent: the process that was started
(`leader`), whoever else is in its group (`others`), the runner's thread from `Spawn` to
`Unregister` with its deadline and its sweep, and the thread that cancels it (`SeeStop`,
`CancelRun`, `CancelTerminate`, `CancelKill`). `BrowserRuns` puts the two together with
the handlers of `web.py` (`RequestRun`, `StopIssue` and `CancelStopped`, `CheckRemoval`,
`RemoveIssue` and `ForgetRemoved`) and with as much of `process_issue` as they need:
whose run holds the issue (`current`), whether its row says stopped, and whether the
agent runs. It implements `JobLifecycle` under its own `jobs` (`FollowsLifecycle`).

`Worker` is `process_batch` and `run_worker_loop`, one action for each stretch between
two places where a thread or another process may come in, with `process_issue` reduced to
what the loop sees of it (read, lock, end, with or without an exception), everyone else
reduced to what they do to the rows the queries read, and `serve_web_and_worker` around
it. `order` is the order of `last_scheduled_at`.

`IssueStoreProofs`, `OrchestratorProofs`, `WorkflowProofs`, `MergeFinalizationProofs`,
`FinalizationProofs`, `SourceSyncProofs`, `BrowserRunsProofs` and `WorkerProofs` hold the
lemmas and theorems. The `MC` modules name what the configurations choose from.

Operators named `... Mutant of ...` in their comment are plausible bugs; no action
uses them. They are there to show, one at a time, that a property notices.

## What is checked

| run | instance | properties |
|---|---|---|
| `Pipeline` | two orchestrators on one host, both may crash, fail, stop the issue and monitor its pull request; every ready phase and an open pull request; 3 runs | types, `LeaseCoherent`, `LiveRunKeepsLock`, `DisplacedAgentWasStopped`, `WaitEndsByItsMonitor`, `StopSticks`, `OutcomeSurvivesCrash`, `FollowsWorkflow` |
| `Managers` | two hosts, both orchestrators also monitors, one manager at the web UI who approves, rejects and resumes; both approval gates and the merge; 2 runs | `QuestionIsPending`, `RetiredRunsFenced`, `FollowsWorkflow`, `StopSticks`, `MergeIsApproved` |
| `Lifecycle` | one host, a crash, a reset and a delete; from review; 2 runs | `FreshStart`, `FollowsWorkflow` |
| `Progress` | one host, one orchestrator may crash, both also monitors; every ready phase and an open pull request; 2 runs; fairness; deadlock checked | `RunningEnds`, `LocksEnd`, `StoppedRunsEnd` |
| `Finalization` | two processes, local merges and pull requests, stops during merges; 3 commits, 2 crashes; fairness | types, `WorkIsKept`, `FinishedWorkIsDelivered`, `RecordsFollowTheWork`, `MergeEnds` |
| `SourceSync` | two processes that may die, one after the other, and a third beside or after them that may fail to write metadata; from review; one commit on the source, 3 runs; fairness; deadlock checked | types, `MergesAreConcluded`, `ReworkStartsFromSource`, `ReportIsOfTheseConflicts`, `ConflictsReachResolver`, `ConflictsEnd` |
| `BrowserRuns` | two run requests, one for an issue and one for the next issue, one pool thread, a history of one; stops from the web UI and the command line, resets, deletions, a shutdown; fairness | types, `AgentsAreListed`, `ThreadsFindTheirJob`, `FollowsLifecycle`, `StopsReachAgents`, `JobsEnd` |
| `Worker` | three issues for two slots, one of them also in other hands; fairness | types, `SlotsAreActive`, `ReadyIssuesRun`, `PullRequestsAreSeen`, `ShutdownDrains` |
| `StaleApproval` | two managers at one gate | violates `ManualMovesAreValid` |
| `StaleFinalization` | pull requests, one crash, a cleanup that fails | violates `WorkIsKept` |
| `ConflictMarkers` | local merges, a stop and a manager who resumes at the merge | violates `MarkersStayOut` |
| `SyncRace` | a review that dies and a sweep beside it | violates `RecoveryRoutesConflicts` |

What the passing runs show, in words. On one host no recovery, however late the
heartbeat, takes the lock from a living run (`LiveRunKeepsLock`), and an agent that
works on an issue it has lost was stopped and is being cancelled
(`DisplacedAgentWasStopped`). Between hosts this is not so, and what holds instead
is that the displaced run cannot write (`RetiredRunsFenced`) and that the phase
still follows the workflow. A crash between `complete_run` and the transition loses
nothing (`OutcomeSurvivesCrash`), with one exception, which the property names: a review
that decided to block because it could not record the conflicts of its sync is sent to the
resolver by a recovery that saw conflicts. The bounds of the run make these conflicts those of
that sync. In larger instances they need not be there any more when the recovery writes: the
monitor of a pull request that has lost its claim may rebuild the worktree in between, and
the proof showed it. A stop blocks the issue until a person decides
(`StopSticks`); a merge starts with a person (`MergeIsApproved`); a reset leaves no
trace, and a late worker brings none back (`FreshStart`). A monitor of a pull request
that lost its claim while it talked to the provider decides nothing
(`WaitEndsByItsMonitor`).

`FollowsWorkflow` is checked without a manager, or with one manager at the web UI who moves
the issue where it waits for a person, and there it is proved: two managers, or one at the
command line under a live run, can write a transition the graph does not have. That is the
first finding. Managers at
the command line are in no passing run; that a displaced run is fenced, that a stop
sticks and that a merge is approved is proved with any number of them.

Of a merge: wherever it is interrupted, and whatever the target branch does meanwhile,
the commits made for the issue are in the target, in the pull request or still in the
worktree (`WorkIsKept`); an issue that is done or waits for its pull request has handed
over all of them (`FinishedWorkIsDelivered`); the files a recovery trusts say only what
has happened (`RecordsFollowTheWork`); and the issue does leave `merging` (`MergeEnds`).

Of the source sync: implementation and validation never begin in the middle of a merge,
whatever fails or dies and whoever recovers it, also beside another process
(`MergesAreConcluded`); it is the resolver's commit, an empty one if need be, that
concludes it. A review does not stay in its conflicts (`ConflictsEnd`). If processes follow
one another and none fails to write its metadata (`orderly`), the conflicts go to the
resolver or stop the issue (`ConflictsReachResolver`), with a report of their own
(`ReportIsOfTheseConflicts`), and rework starts from the source as it was when the reviewer
sent the work back (`ReworkStartsFromSource`). Without `orderly` these three fail. The
fourth finding shows a sweep beside a sync; another death in the sync of the review that
follows leaves the resolver without a report. An exception in a sync gives the lock back with
its run id, so that the recovery finds no run to write a report for; and with both, and two
commits on the source, rework may start from the first of them. Two things are not promised even
then, and are no properties here. A report may name the wrong commit: after a crash between
the merge and its metadata the recovery takes it from those of an earlier sync. And a merge
that was interrupted without conflicts is not noticed by any recovery: the review is run again
on it, and may approve.

Of the web UI's run requests: an agent at work is listed as running or being cancelled,
so that nothing that looks for active actions overlooks it (`AgentsAreListed`); no
pruning takes an action its thread has still to look up (`ThreadsFindTheirJob`); what was
cancelled never runs, and what ended stays as it ended (`FollowsLifecycle`); a stop
reaches an agent that ignores SIGTERM, leaves children behind or is not registered yet
(`StopsReachAgents`), and with a deadline every action ends (`JobsEnd`). Two things it
does not show, because they are not so: an action that is listed as cancelling need not
be stopped (its run may have begun between the stop of the issue and that of its
actions), and an action for the next issue is not found by the check before an issue is
reset.

Of the worker: `active_issue_ids` is what the futures run and no issue has two of them
(`SlotsAreActive`), although a submitted run locks its issue only later; no issue of the
first priority stays ready for ever (`ReadyIssuesRun`) and no pull request unlooked at,
if batches end at all (`PullRequestsAreSeen`); and a stop, or an exception that ends the
loop, ends the service when the runs under way have ended (`ShutdownDrains`). Batches do
not end while issues are ready again and again, and then nobody looks at pull requests.

The properties of merges hold under assumptions that the constants name, and TLC refutes them without:

- `Abandonable = FALSE`: once a merge is recorded, its cleanup is completed, or is
  interrupted by a crash that leaves it to recovery. If a Git command of the cleanup
  fails, or the process crashes after a stop, the record stays and no recovery comes;
  the second finding shows what a later recovery makes of it. With it `MergeEnds` fails
  too: a recovery deletes the internal branches by force, Git refuses that for one that
  is checked out again, and the exception leaves the claim behind.
- `StopKinds`: managers stop an issue between calls and during a merge, but not while
  another process recovers its merge or prepares the workspace of its pull request.
  Neither asks for its claim again after it has waited for the repository lock, so a
  stopped one may remove the worktree of whoever came after it.
- `ResumePhases`: a blocked issue is resumed at the merge (the theorems allow more). An
  issue that a manager sends back to work while its stopped merge is still in the cleanup
  loses its worktree under the agent.

### Bounds, and why they are enough

*Runs.* `MaxRuns` bounds the run ids ever drawn; an orchestrator gives up when they
are used. Two are what a displaced run and its successor need, three add a second
succession. *Orchestrators.* Two: every property is about a run and one other actor
(its successor, its recoverer, its stopper); a crashed one leaves the other.
*Managers.* One or two, with the moves that matter for the run (`GateMoves`). *Start phases.* Without managers a run reaches only what its
start phase leads to, so `Pipeline` and `Progress` start in every ready phase and with an
open pull request; the others start where the interesting part is a run or two away.
*Monitors.* The last run id is left to a monitor that does not crash: a monitor that
crashes needs a successor, which needs an id. *Two hosts.* On another host a dead
orchestrator cannot be told from a slow one, and a slow one is any orchestrator that takes
no step, so `Managers` has no crashes: they would add states and no behaviour of the
store.

*Run requests.* `Refused` is the action that comes too late for any issue, so that one
agent at a time is followed through all of its processes; the other action still queues,
blocks the only thread, is pruned and is cancelled. The server closes only with an action
on its way to the pool or in it. The phase `waiting` stands for every phase in which a
manager is next, and the removal of an issue is one step, since `Orchestrator` has its
reservation. What the row of a run says of a stop is forgotten with the run.
*Worker.* Three issues of one priority for two slots, so that there is always one that
may be left out; `Shared` is the one that others touch. What is not in the model is the
NULL that a reset writes to `last_scheduled_at`.

*Merges.* A commit is drawn by the issue, by a merge or by other people. Three are the
work, a move of the target and the merge commit that takes it in, so that one attempt is
followed by another; what more attempts could do to the invariants is covered by their
proofs, and the two runs of findings have a fourth commit. Two crashes
interrupt a merge and then its recovery. Two processes: the lock admits one, the other
waits, recovers or succeeds it. One target stands for the local branch and for the
provider's copy of it, and a merge conflicts, or not, whenever both sides have commits
of their own. Processes run on one host, where no lock of a living process is broken
(`LiveRunKeepsLock` of `Orchestrator`).

*Syncs.* The source and its commits are a number: the worktree includes the first
`base` of them. One commit is enough for a sync that is up to date, a merge, and a second
sync or a recovery of the first. Two deaths interrupt a sync and its recovery, and a third
process goes on; it may also be there from the start, which is the race of a sweep. Three runs
are two reviews and what one of them leads to. All processes
are on one host, so that the expiry of a lock does not matter (`LiveRunKeepsLock`), nor
does the repository lock, which only the one at work takes.

### Fairness

`Finalization` assumes weak fairness of each process's steps: a process that is up goes on
with its call, and starts one when there is one to start. None of people, of the
provider, of the agent or of crashes.

`SourceSync` assumes weak fairness of each process, whose loop sweeps and runs again and
again, and of starting the next when all others died; none of crashes, exceptions or people.

`BrowserRuns` assumes weak fairness of the handlers that have begun to change something,
of the pool's threads and of the cancellers; none of agents, of managers, of deadlines or
of the shutdown. `JobsEnd` has the fairness of deadlines as its premise. `Worker` assumes
weak fairness of the loop's thread, of the runs in its slots, which the runner's timeout
ends, and of the main thread.

`Progress` assumes weak fairness of the steps of a run (`Work`: its thread goes on,
the runner's timeout ends every agent, a cancelled agent ends), of a claimed recovery
(`LookAtGit`), strong fairness of a monitor's claim (a worker looks again in every batch,
which may find the issue locked any number of times), of the sweep (`Recovery`: the worker loop calls
`recover_interrupted_work` in every round, and a web server does at its start) and of
the clock (`Expire`). None of the heartbeat, of a person, of a failure or a crash.
Fairness of a crashed orchestrator's steps is vacuous. One thing is assumed that the
code does not ensure: `Fallible = {}`. An exception of Git or of the file system in a
claimed recovery leaves the claim, with a live owner, behind; nothing on that host
breaks it until that process ends, and `RunningEnds` does not hold with it.

### Findings

`StaleApproval`: `.github/copilot-instructions.md:15` says that all phase changes go
through `validate_transition`. `transition_issue` validates the phase it read in one
transaction and writes over whatever phase there is in the next. Two managers who
approve and send back at the same gate move the issue along an edge that is not in
the graph. The web UI's check that nobody holds the lock goes stale in the same way: it is
made before the transition, which does not repeat it.

`StaleFinalization`: `.github/copilot-instructions.md:28` says that issue worktrees are
not deleted except through successful merge cleanup. The cleanup of a pull request fails
after `pull_request.json` was written; a manager resumes the merge; the target has moved,
the conflicts are resolved and committed, and the next merge crashes before it has done
anything. The recovery finds the old `pull_request.json`, takes the merge for the one it
records, removes the clean worktree, deletes the internal branch that still pointed at
the resolution and reports that the issue awaits its pull request.

`ConflictMarkers`: `README.md:81` says that merge conflicts route through conflict
resolution before validation and review. A merge stops on conflicts, a manager stops the
issue and resumes it at `ready_for_merge`, which the graph allows: the merge adds
everything in the worktree, markers included, commits it as the resolution and lands it.

`SyncRace`: the test `test_recovery_routes_interrupted_review_source_sync_conflicts_to_resolution`
(`tests/test_store_and_worker.py:3923`) says what recovery does with the conflicts of an
interrupted sync. A sweep that looked before the merge and recovers after the death of its
process returns the issue to review instead, with the conflicts.

## What is proved

`OrchestratorProofs`, for every set of orchestrators, hosts, monitors, managers, moves,
resets and deletes and every number of runs, from the assumptions on the constants alone
(`NoOwnerAssumption`, `MaxRunsAssumption`, `StartPhasesAssumption`,
`OwnerAssumption`):

- `TypeCorrect`, `LocksAgree`, `StaleWorkersFenced`, `LiveRunsKeepTheirLock`: the
  invariants `TypeOK`, `LeaseCoherent`, `RetiredRunsFenced`, `LiveRunKeepsLock`;
- `StopIsFinal`, `MergesAreApproved`, `WaitsEndWithTheirClaim`: the action properties
  `StopSticks`, `MergeIsApproved` and `WaitEndsByItsMonitor`.

The inductive invariant is `Inv == StoreInv /\ LocalInv`. `StoreInv` is about the
database: types, `LeaseCoherent`, `RetiredRunsFenced` and `RunsDrawn` (a run id that
was not drawn has no row and is not current; without it `acquire_lock` could hand out
the id of a stopped run and break `RetiredRunsFenced`). `IssueStoreProofs` proves one
lemma per transaction: it preserves `StoreInv`. `LocalInv` is about the orchestrators:
types, `RunsAreTheirs` (an orchestrator in the pipeline has drawn its run, and on one
host owns the lock while that run is current) and `OutcomesFit` (what it has decided
is "blocked" before it has decided and never "ready_for_merge"; a claimed recovery is
one of a merge or a review). `LiveRunKeepsLock` needs the first, since the lock is
broken only if its owner is known to be dead or if it has none; `MergeIsApproved`
needs the second, with the lemma `NoWayToMerge` that no resume phase, no recovery
target and no outcome is "ready_for_merge". `NextInv` has one lemma per action. The
action properties follow from `PhaseMoves`, which says of each action how it can move
the phase.

`WorkflowProofs`, on top of it, for every set of orchestrators, hosts, monitors, resets
and deletes, with stops and answers of people:

- `ImplementsWorkflow`: `Spec => FollowsWorkflow`, the refinement of `IssueWorkflow`;
- `OneManagersMovesAreValid`: `ManualMovesAreValid`, which `StaleApproval` refutes for two;
- `QuestionsArePending`: `QuestionIsPending`;
- `OutcomesSurviveCrashes`: `OutcomeSurvivesCrash`;
- `DisplacedAgentsWereStopped`: `DisplacedAgentWasStopped`, without resets and deletes
  (`LifecycleOp = {}`), which take an issue from an agent that is not stopped;
- `ResetsStartAfresh`: `FreshStart`, whoever moves the issue and how.

The first five are about managers under the hypothesis `KeepToGates`: there is none, or there is
one, who moves the issue where it waits for a person (a draft, the two approvals, a block), and
nobody resets the issue beside them. A manager's write is guarded by nothing, so that with
two of them, with one under a live run, or with a reset between what a manager read and what
it writes, the refinement is false (`StaleApproval` shows the first). With it, what a manager has
validated stays a move of the graph until it is written (`IntentFits`): at a gate no run is
current and no recovery finds anything to do (`AtGate`), so nobody else moves the issue.

The invariant is `FlowInv`: no two orchestrators execute one run; the orchestrator of
the current run knows the phase (`InPlace`: the ready phase before the run is written, the
running phase during it, the wait while it monitors, and before its last write a phase
with an edge to its outcome); a finding about a merge is one of the findings; a deleted
row has no lock. It is the guard on the run id that makes it inductive: whoever changes
the phase under somebody takes `current` away with it. `Effects` then says what each step
does to the phase, the runs and the question together, and each property follows from it.
`OutcomeSurvivesCrash` needs `OutcomeInv` beside it: an agent's decision is a move from its
running phase (`DecisionsFit`), the row of an ended run says what its worker is about to write
(`RowsSay`), and the run that ended in the phase the issue is still in names a move from there
(`EndedRunMoves`), which the recovery therefore accepts. `FreshStart` needs nothing of
all this: a row becomes a draft only by the write that clears its runs and questions, since
nobody decides on a draft (`NoDrafts`).

`MergeFinalizationProofs`, for any processes, modes and bounds:

- `MergeTypeCorrect`: `TypeOK`, from nothing but the assumptions on the constants;
- `RecordsAreTrue`: `RecordsFollowTheWork`, under `Managed`: managers do not stop recoveries
  and repairs; they send a blocked issue back to agents only if they stop issues between calls
  only (`Patient`), and to the work itself only where merges are local (`Local`). A cleanup may
  fail or be abandoned here.
- `ResolvedBeforeMerged`: `MarkersStayOut`, for managers who stop an issue between calls only
  and send it past the resolver neither to work nor to its merge. `ConflictMarkers` shows what
  the second is for; without the first, a stopped merge that goes on leaves new conflicts in a
  worktree whose issue has passed the resolver.

With pull requests TLC refutes `RecordsFollowTheWork` under stops of recoveries, and under either
of the resumptions `Managed` excludes. Agents who work while a stopped merge is still in its
cleanup may start from a worktree that lacks what was pushed; and an issue that is
blocked while it waits for its pull request, and resumed at the implementation, starts from the
target: its next merge overwrites the branch of its own earlier pull request.

`Inv` is types and `JobFits`: which call can be where, and that what it calls landed is in
the target. `CareInv` says who holds the issue's lock (`HoldersFit`), that nobody is under
the repository lock while agents work (`WorkFits`), and that what was pushed is in every
worktree and in whatever is pushed next (`RemoteFits`); a pull request's branch therefore
only grows, although a push overwrites it. Where managers stop nobody in a call, whoever is in
one has the issue's lock (`CallsHold`), so that only one is (`OneCall`). `Effects` says what one step of a call may do to
all of this, and each action is shown to do no more. `ResolvedBeforeMerged` rests on `MarksFit`:
nothing has markers, and as long as there are conflicts in the worktree no merge is under way and
no call sends the issue past the resolver.

`FinalizationProofs`, on top of it, under `Careful` (`Managed`, nobody
declares a pull request to be open again, and `Abandonable = FALSE`, for which see
`StaleFinalization`). The issue may thus be resumed at its merge with stops of merges, and at the
resolver, or with local merges at the work, with stops between calls. TLC refutes `WorkIsKept` for
each kind of stop and each resumption that is left out:

- `NoCommitIsLost`: `WorkIsKept`;
- `FinishedIsDelivered`: `FinishedWorkIsDelivered`.

Neither is inductive: a record found by a recovery makes it remove the worktree, so the
invariant `KeptInv` has to say that a record recovery would act on (`Recorded`: not an old
`pull_request.json` beside the workspace of its conflicts) is one of delivered commits and
leaves nothing new in the worktree (`SharedFits`). Between the record and the removal
somebody is bound to remove the worktree: the merge itself, perhaps stopped meanwhile
(`Cleaner`), or a recovery (`Pending`); that is why a merge started too early waits for the
repository lock instead of committing into a worktree about to go. `PlaceFits`, `RecordFits`
and `RecoveryFits` say what each call takes for granted where it is, and `OutcomeFits` what
it is about to report. That agents may be sent back to work needs `LocalFits` as well: a local
merge that is recorded is finished before anybody else can do anything with the issue
(`Unfinished`), because its cleanup knows whether the worktree is still there (`TreeFits`) and so
cannot end early. `KeptFree` and `KeptLocked` show for a step without and with the
repository lock what it leaves of everybody else's; each action then has a lemma of its own.

`SourceSyncProofs`, for any number of processes, deaths, runs and source commits, side by
side or not, with failing Git and files: `MergesConcluded` (`MergesAreConcluded`),
`SyncTypeCorrect` (`TypeOK`) and `OneAtWork` (whoever is at work or recovers holds the lock
under the current run, alone). `MergesAreConcluded` is about phases, and phases are also
written by recovery, from what a run had decided. So the invariant `SyncInv` follows the
decision: `Careful` says that a process about to decide has no unfinished merge unless it
decides for the resolver or a block, `Passed` that neither the phase nor the decision of
the run that recovery would find passes one on, `Fits` that whoever is at work holds the
lock in the phase of its work, and `MoverRuns` that recovery finds the right run.
`WorkOn`, `RescueOn` and `AwayStep` are the steps in general; `SweptPhase` is why the sweep
is harmless.

`ReworkIncludesSource` (`ReworkStartsFromSource`), `ReportsAreCurrent`
(`ReportIsOfTheseConflicts`) and `ConflictsAreRouted` (`ConflictsReachResolver`) are about
processes that follow one another, as the properties are. They need `OrderInv` beside `SyncInv`:
only one process is alive, and the lock is free or its owner is at work or dead; conflicts in a
review are those of its current run's sync; and what the worktree has, or is merging, catches up with what the reviewer
asked for (`Caught`). `Routed` says this of the files and the phase, and `Counts` of what a
process in the middle of a sync or of a recovery knows.

`BrowserRunsProofs`, for every set of actions and issues, any pool and any history:
`ListFollowsLifecycle` (the refinement of `JobLifecycle`), `NoAgentIsHidden`
(`AgentsAreListed`), `NoThreadIsLost` (`ThreadsFindTheirJob`) and `BrowserTypeCorrect`.
The invariant says for each place of an action's thread what its status and its future may
be (`JobFits`), that the pool's queue holds no future twice and none that was taken
(`QueueFits`), what the runner knows of the agent's processes (`RunnerFits`), that the
runner is on the stack of `process_issue` and that on the stack of the thread (`RunFits`),
and that only the actions of a deleted issue are forgotten too early (`RemovalFits`,
`CallsFind`).

`WorkerProofs`, for every set of issues, any priorities and any number of slots:
`NoIssueRunsTwice` (`SlotsAreActive`), from what the loop knows of the candidates it has
not submitted yet: they are not active, differ, and fit into the free slots; and `TypeCorrect`
(`TypeOK`): an issue that is moved to the end of the queue keeps one place in it, and the others
theirs.

Every safety property of the passing runs is thus the subject of a theorem whose hypotheses the
run's instance satisfies. Only model-checked is liveness, which is out of the prover's reach:
`RunningEnds`, `LocksEnd`, `StoppedRunsEnd`, `MergeEnds`, `ConflictsEnd`, `JobsEnd`,
`StopsReachAgents`, `ReadyIssuesRun`, `PullRequestsAreSeen`, `ShutdownDrains`.

## Not modelled

Pages, JSON, configuration, the text of artifacts and prompts: data of a single call.
Drafts and titles: no property here depends on them. Process ids that are used again with
the same start token. Timestamps: a lease is live or expired for everybody at one instant,
although the code compares seconds with two different strictnesses. Several issues in one
database: they share no lock, and what they share (the slots, the pool) is in `Worker` and
`BrowserRuns`. Files and worktrees that a reset deletes. An exception of the database that
ends the thread of the heartbeat or of the canceller. The runner's mode that captures the
agent's output, which the orchestrator never uses. Comments and metadata of pull requests,
as data. What an agent loses when a stale monitor recreates the worktree it works in. Of
the merge: the choice of the remote, the checks of paths, URLs and branch names, a
metadata file that is half written (recovery blocks on it), a crash between the removal
and the creation of a pull request's worktree, Git failing in a recovery other than where
it removes the worktree (the exception leaves the claim with a living process, as for
`Fallible`).

## Plan

1. `StateMachine`, `IssueStore`, `Orchestrator` with the pull request monitor,
   `IssueWorkflow`, their proofs and the proof of the refinement: done.
2. `MergeFinalization`: modelled, checked and its invariants proved, under hypotheses without which
   TLC refutes them.
3. `SourceSync`, `Worker`, `WebJobs`, `CopilotRunner`, `BrowserRuns`, `JobLifecycle`:
   modelled, checked and their main invariants proved.
4. Every safety property proved: done. Left: the files and worktrees that a reset removes.

----------------------------- MODULE BrowserRuns -----------------------------
(***************************************************************************)
(* The web UI's run requests from end to end: the handlers of web.py, the  *)
(* queue of WebJobs, what process_issue does of an issue's lock, and the   *)
(* agent's processes of CopilotRunner.  Running, stopping, resetting and   *)
(* deleting an issue reach into all of them.                               *)
(***************************************************************************)
EXTENDS WebJobs, CopilotRunner

CONSTANTS
  NoRun,  \* an issue that nobody runs
  Refused \* the actions that come too late for any issue, in this instance

ASSUME BrowserAssumption == Run = Job /\ NoRun \notin Job /\ Refused \subseteq Job

VARIABLES
  phase,    \* the phase of each issue; waiting is any in which a manager is next
  current,  \* the action whose run holds the issue, one lock and run id
  stopped,  \* the row of the action's run says stopped (while it is under way)
  run,      \* how far process_issue is, and on which issue
  stopping, \* the handler of a stop has stopped the issue, not its actions
  removing  \* how far the handler of a reset or a deletion is

issueVars   == <<phase, current, stopped>>
webVars     == <<stopping, removing>>
browserVars == <<issueVars, run, webVars>>
vars == <<jobVars, runnerVars, browserVars>>

NotRunning == [at |-> "outside", issue |-> NoRun]

TypeOK ==
  /\ JobsTypeOK /\ RunnerTypeOK
  /\ phase \in [Issue -> {"ready", "running", "waiting", "blocked", "gone"}]
  /\ current \in [Issue -> Job \cup {NoRun}]
  /\ stopped \in [Job -> BOOLEAN]
  /\ run \in [Job -> {NotRunning} \cup [at : {"started", "agent"}, issue : Issue]]
  /\ stopping \in [Issue -> BOOLEAN]
  /\ removing \in [Issue -> {"idle", "checked", "deleted"}]

Init ==
  /\ JobsInit /\ RunnerInit
  /\ phase = [i \in Issue |-> "ready"]
  /\ current = [i \in Issue |-> NoRun]
  /\ stopped = [j \in Job |-> FALSE]
  /\ run = [j \in Job |-> NotRunning]
  /\ stopping = [i \in Issue |-> FALSE]
  /\ removing = [i \in Issue |-> "idle"]

(* _ensure_no_active_lock and _ensure_no_active_job                        *)
NoActiveLock(i) == current[i] = NoRun
NoActiveJob(i)  == \A j \in JobsOf(i) : jobs[j] \notin ActiveJobStatuses

Move(i, to) == phase' = [phase EXCEPT ![i] = to]

(* get_forced_stop_state, asked by the run of action j                     *)
ForcedStop(j) == stopped[j] \/ phase[run[j].issue] \in {"blocked", "gone"}

-----------------------------------------------------------------------------
(* The action "run" of an issue's page lists a run of a ready issue that   *)
(* nobody has locked, the dashboard's "run next" lists one of any issue.   *)
RequestRun(j) ==
  /\ accepting
  /\ j \in IssueJob => phase[IssueOf[j]] = "ready" /\ NoActiveLock(IssueOf[j])
  /\ InsertJob(j)
  /\ UNCHANGED <<runnerVars, browserVars>>

(* The action is over for the thread that executes it.                     *)
Returns(j, res) ==
  /\ run' = [run EXCEPT ![j] = NotRunning]
  /\ ThreadAt(j, "ran")
  /\ result' = [result EXCEPT ![j] = res]
  /\ UNCHANGED <<jobs, futures, recorded, queue, accepting, handler>>

(* process_issue, or process_next on any ready issue: the lock is taken,   *)
(* the phase moves, the run's row is written (apart in Orchestrator) ...   *)
StartRun(j) ==
  /\ j \notin Refused
  /\ thread[j] = "running" /\ run[j] = NotRunning
  /\ \E i \in Issue :
       /\ j \in IssueJob => i = IssueOf[j]
       /\ phase[i] = "ready" /\ NoActiveLock(i)
       /\ current' = [current EXCEPT ![i] = j]
       /\ Move(i, "running")
       /\ run' = [run EXCEPT ![j] = [at |-> "started", issue |-> i]]
  /\ CancellerAt(j, "polling")
  /\ UNCHANGED <<groupVars, runner, registered, jobVars, stopped, webVars>>

(* ... or not: the issue is not ready, is gone or is locked (exceptions),  *)
(* no issue is ready (None), or another process takes it first.            *)
RefuseRun(j) ==
  /\ thread[j] = "running" /\ run[j] = NotRunning
  /\ Returns(j, IF j \in IssueJob THEN "error" ELSE "ok")
  /\ UNCHANGED <<runnerVars, issueVars, webVars>>

(* The canceller ends with the block that runs the agent, or after it if   *)
(* it is in the middle of a cancellation.                                  *)
LeaveCanceller(j) ==
  /\ CancellerAt(j, IF canceller[j] = "polling" THEN "off" ELSE canceller[j])
  /\ UNCHANGED <<groupVars, runner, registered>>

(* A run that is stopped before its agent starts starts none.              *)
StopBeforeAgent(j) ==
  /\ run[j].at = "started" /\ ForcedStop(j)
  /\ LeaveCanceller(j)
  /\ Returns(j, "stopped")
  /\ stopped' = [stopped EXCEPT ![j] = FALSE]
  /\ UNCHANGED <<phase, current, webVars>>

RunAgent(j) ==
  /\ run[j].at = "started" /\ ~ForcedStop(j)
  /\ run' = [run EXCEPT ![j].at = "agent"]
  /\ UNCHANGED <<jobVars, runnerVars, issueVars, webVars>>

(* The runner has returned or raised.  A stopped run is recognised as one, *)
(* and one that is not current any more ends in an exception.  An outcome  *)
(* is written and the lock released; an exception only releases the lock.  *)
FinishRun(j) ==
  /\ run[j].at = "agent" /\ runner[j] \in {"returned", "raised"}
  /\ LeaveCanceller(j)
  /\ LET i == run[j].issue IN
       \/ /\ ForcedStop(j) /\ runner[j] = "returned"
          /\ Returns(j, "stopped") /\ UNCHANGED <<phase, current>>
       \/ /\ ~ForcedStop(j) \/ runner[j] = "raised"
          /\ current[i] # j
          /\ Returns(j, "error") /\ UNCHANGED <<phase, current>>
       \/ /\ ~ForcedStop(j) /\ current[i] = j
          /\ current' = [current EXCEPT ![i] = NoRun]
          /\ \/ runner[j] = "returned" /\ Returns(j, "ok")
                /\ \E to \in {"ready", "waiting", "blocked"} : Move(i, to)
             \/ runner[j] = "raised" /\ Returns(j, "error") /\ UNCHANGED phase
  /\ stopped' = [stopped EXCEPT ![j] = FALSE]
  /\ UNCHANGED webVars

-----------------------------------------------------------------------------
(* stop_issue, called by the web UI's handler, which then cancels the      *)
(* issue's actions, or by the command line, which has none.                *)
StopIssue(i, fromWeb) ==
  /\ phase[i] # "gone" /\ ~stopping[i]
  /\ phase[i] = "blocked" => fromWeb /\ ~NoActiveJob(i)
  /\ stopped' = [j \in Job |-> stopped[j] \/ current[i] = j]
  /\ current' = [current EXCEPT ![i] = NoRun]
  /\ Move(i, "blocked")
  /\ stopping' = [stopping EXCEPT ![i] = fromWeb]
  /\ UNCHANGED <<jobVars, runnerVars, run, removing>>

CancelStopped(i) ==
  /\ stopping[i]
  /\ CancelJobs(i)
  /\ stopping' = [stopping EXCEPT ![i] = FALSE]
  /\ UNCHANGED <<runnerVars, issueVars, run, removing>>

(* A manager moves the issue to a ready phase, or recovery does after an   *)
(* exception.                                                              *)
MakeReady(i) ==
  /\ phase[i] \notin {"ready", "gone"} /\ NoActiveLock(i)
  /\ Move(i, "ready")
  /\ UNCHANGED <<jobVars, runnerVars, current, stopped, run, webVars>>

(* The actions "reset-to-draft" and "delete": no lock and no action may be *)
(* active; then the removal, refused under a lock (its reservation, files  *)
(* and rows are one step here, apart in Orchestrator).  It deletes the     *)
(* rows of the issue's runs with what they say of a stop.                  *)
CheckRemoval(i) ==
  /\ removing[i] = "idle" /\ phase[i] # "gone"
  /\ NoActiveLock(i) /\ NoActiveJob(i)
  /\ removing' = [removing EXCEPT ![i] = "checked"]
  /\ UNCHANGED <<jobVars, runnerVars, issueVars, run, stopping>>

RemoveIssue(i) ==
  /\ removing[i] = "checked"
  /\ \/ /\ NoActiveLock(i)
        /\ \/ Move(i, "waiting") /\ removing' = [removing EXCEPT ![i] = "idle"]
           \/ Move(i, "gone") /\ removing' = [removing EXCEPT ![i] = "deleted"]
        /\ stopped' = [j \in Job |-> stopped[j] /\ run[j].issue # i]
     \/ /\ ~NoActiveLock(i)
        /\ removing' = [removing EXCEPT ![i] = "idle"]
        /\ UNCHANGED <<phase, stopped>>
  /\ UNCHANGED <<jobVars, runnerVars, current, run, stopping>>

ForgetRemoved(i) ==
  /\ removing[i] = "deleted"
  /\ ForgetJobs(i)
  /\ removing' = [removing EXCEPT ![i] = "idle"]
  /\ UNCHANGED <<runnerVars, issueVars, run, stopping>>

-----------------------------------------------------------------------------
(* The runner starts with the run and the canceller sees its stops.        *)
BeginSpawn(j)  == run[j].at = "agent" /\ (Spawn(j) \/ SpawnFails(j))
SeeForcedStop(j) == run[j] # NotRunning /\ ForcedStop(j) /\ SeeStop(j)

(* The thread of the handler that submitted the action, the pool's thread  *)
(* that executes it, and the canceller's.                                  *)
HandlerStep(j) ==
  /\ HandOver(j) \/ RecordFuture(j)
  /\ UNCHANGED <<runnerVars, browserVars>>

JobStep(j) ==
  /\ \/ TakeJob(j) \/ MarkRunning(j) \/ DecideStatus(j) \/ UpdateJob(j)
     \/ FinishFuture(j)
  /\ UNCHANGED <<runnerVars, browserVars>>

RunStep(j) == StartRun(j) \/ RefuseRun(j) \/ StopBeforeAgent(j) \/ RunAgent(j) \/ FinishRun(j)

RunnerStep(j) ==
  /\ \/ BeginSpawn(j) \/ Register(j) \/ SeeExit(j) \/ OvertimeKill(j) \/ Sweep(j)
     \/ SweepKill(j) \/ Unregister(j)
  /\ UNCHANGED <<jobVars, browserVars>>

ThreadStep(j) == JobStep(j) \/ RunStep(j) \/ RunnerStep(j)

CancellerStep(j) ==
  /\ SeeForcedStop(j) \/ CancelRun(j) \/ CancelTerminate(j) \/ CancelKill(j)
  /\ UNCHANGED <<jobVars, browserVars>>

TimeOut(j) == Deadline(j) /\ UNCHANGED <<jobVars, browserVars>>

AgentStep(j) ==
  /\ StartOther(j) \/ LeaderExits(j) \/ OthersExit(j) \/ LogWriteFails(j)
  /\ UNCHANGED <<jobVars, browserVars>>

(* What managers do while the server listens: it is closed before the pool *)
(* is, and handlers under way finish.                                      *)
WebStep(i) ==
  /\ accepting
  /\ (\E fromWeb \in BOOLEAN : StopIssue(i, fromWeb)) \/ MakeReady(i) \/ CheckRemoval(i)

WebStepEnds(i) == CancelStopped(i) \/ RemoveIssue(i) \/ ForgetRemoved(i)

(* The server closes.  With nothing on its way to the pool or waiting in   *)
(* it, that is only the end of all requests, which need not come anyway:   *)
(* a bound on the instance, not a condition of the code.                   *)
CloseWeb ==
  /\ \E j \in Job : handler[j] = "inserted" \/ futures[j] = "pending"
  /\ ShutDown
  /\ UNCHANGED <<runnerVars, browserVars>>

Next ==
  \/ \E j \in Job : \/ RequestRun(j) \/ HandlerStep(j) \/ ThreadStep(j)
                    \/ CancellerStep(j) \/ TimeOut(j) \/ AgentStep(j)
  \/ \E i \in Issue : WebStep(i) \/ WebStepEnds(i)
  \/ CloseWeb

(* Threads that can take a step take it, and handlers finish what they     *)
(* began.  Agents need never exit, managers need never act, and time need  *)
(* not run out.                                                            *)
Fairness ==
  /\ \A j \in Job : WF_vars(HandlerStep(j)) /\ WF_vars(ThreadStep(j))
  /\ \A j \in Job \ Refused : WF_vars(CancellerStep(j))
  /\ \A i \in Issue : WF_vars(WebStepEnds(i))

Spec == Init /\ [][Next]_vars /\ Fairness

-----------------------------------------------------------------------------
(* An agent at work belongs to an action that is listed as running or      *)
(* being cancelled: not one of its processes outlives the run, a cancelled *)
(* action starts none, and no pruning or forgetting hides it from          *)
(* _ensure_no_active_job.  (A runner that could not write its log leaves   *)
(* its agent to itself.)                                                   *)
AgentsAreListed ==
  \A j \in Job : GroupLives(j) =>
    runner[j] = "raised" \/ jobs[j] \in {"running", "cancelling"}

(* The thread of an action finds it in the list (_jobs[job_id] without a   *)
(* default): pruning takes no action whose thread still has to look, and   *)
(* only a deletion forgets one that was cancelled before it began.         *)
ThreadsFindTheirJob ==
  \A j \in Job :
    /\ thread[j] \in {"running", "ran", "decided"} => jobs[j] \in {"running", "cancelling"}
    /\ futures[j] = "pending" \/ thread[j] = "called" =>
         \/ Listed(j)
         \/ j \in IssueJob /\ phase[IssueOf[j]] = "gone"

(* The list follows JobLifecycle: an ended action stays as it ended, a     *)
(* cancelled one never runs, and none is forgotten before it ended.        *)
Lifecycle == INSTANCE JobLifecycle WITH status <- jobs
FollowsLifecycle == Lifecycle!Spec

(* A stop reaches an agent that never exits by itself, ignores SIGTERM and *)
(* has all the time in the world, also when it is asked for before the     *)
(* process is registered; unless a reset deletes the row that says so, or  *)
(* the log cannot be written to.                                           *)
StopsReachAgents ==
  \A j \in Job \ Refused :
    (stopped[j] /\ GroupLives(j)) ~> (~GroupLives(j) \/ ~stopped[j] \/ runner[j] = "raised")

(* If time runs out for agents that never exit, every action ends, but for *)
(* those that are still queued when the server shuts down; Job is all the  *)
(* actions there ever are.  (An action listed as cancelling need not be    *)
(* stopped: its run may have begun after the stop and before               *)
(* CancelStopped.)                                                         *)
UnderWay(j) == jobs[j] \in ActiveJobStatuses /\ (jobs[j] = "queued" => accepting)

JobsEnd ==
  (\A j \in Job \ Refused : WF_vars(TimeOut(j))) =>
    ((\E j \in Job : UnderWay(j)) ~> \A j \in Job : ~UnderWay(j))
=============================================================================

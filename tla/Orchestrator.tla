---------------------------- MODULE Orchestrator ----------------------------
(***************************************************************************)
(* Everyone who acts on one issue, interleaved at the granularity of the   *)
(* transactions of IssueStore:                                             *)
(*  - orchestrators (src/agent_team/orchestrator.py), each one a process   *)
(*    with a lock owner of its own, which recover interrupted issues, run  *)
(*    agent phases step by step, look after pull requests and stop issues  *)
(*    on request, and which may crash between any two steps;               *)
(*  - managers at the command line (cli.py) and at the web UI (web.py),    *)
(*    whose transitions are a read followed by a write;                    *)
(*  - reset and delete (lifecycle.py).                                     *)
(* The agent itself, the Git work and the files are their outcomes.        *)
(***************************************************************************)
EXTENDS IssueStore

CONSTANTS
  Proc,        \* orchestrators
  HostOf,      \* the host each of them runs on
  Mortal,      \* the orchestrators that may crash
  Fallible,    \* those whose Git or file system may fail while they recover
  CliManager,  \* managers at the command line
  WebManager,  \* managers at the web UI
  ManualMoves, \* the moves <<from, to>> managers ask for, in this instance
  Stoppers,    \* the orchestrators that also serve stop requests
  Monitors,    \* the orchestrators that also look after pull requests
  ResetOp,     \* executions of reset_issue_to_draft
  DeleteOp     \* executions of delete_issue

Manager     == CliManager \cup WebManager
LifecycleOp == ResetOp \cup DeleteOp

ASSUME OwnerAssumption ==
  /\ Owner = Proc \cup LifecycleOp
  /\ Proc \cap LifecycleOp = {}
  /\ Mortal \subseteq Proc /\ Fallible \subseteq Proc /\ Stoppers \subseteq Proc
  /\ Monitors \subseteq Proc
  /\ ManualMoves \subseteq Phase \X Phase
  /\ ResetOp \cap DeleteOp = {}

VARIABLES
  pc,        \* where an orchestrator is
  myRun,     \* the run id it drew or claimed
  agent,     \* the agent phase it executes or recovers
  outcome,   \* the next phase it has decided on
  beating,   \* its lock heartbeat thread has not been refused yet
  goal,      \* what it goes on to once recovery is done
  conflicted,\* the issue's worktree holds unresolved merge conflicts
  intent,    \* the target a manager's transition has validated, not written
  opState    \* where a reset or a delete is

procVars == <<pc, myRun, agent, outcome, beating, goal>>
vars == <<storeVars, procVars, conflicted, intent, opState>>

(* The steps of process_issue, in order, those of a pull request monitor   *)
(* (which moves and releases the issue as a run does), then those of       *)
(* recovery and stop.                                                      *)
Monitoring == {"looking", "looked", "repairing", "deciding", "checked"}
Pipeline == {"acquired", "starting", "started", "running", "returned",
             "recording", "settled", "completed", "moving", "releasing"} \cup Monitoring
Goal     == {"idle", "claim", "stop"}
PC       == Pipeline \cup Goal \cup {"recovering", "reporting", "rescan", "dead"}

LocalTypeOK ==
  /\ pc \in [Proc -> PC]
  /\ myRun \in [Proc -> RunId \cup {NoRun}]
  /\ agent \in [Proc -> Agent]
  /\ outcome \in [Proc -> Phase]
  /\ beating \in [Proc -> BOOLEAN]
  /\ goal \in [Proc -> Goal]
  /\ conflicted \in BOOLEAN
  /\ intent \in [Manager -> Phase \cup {"none"}]
  /\ opState \in [LifecycleOp -> {"idle", "reserved", "over"}]

TypeOK == StoreTypeOK /\ LocalTypeOK

Init ==
  /\ StoreInit
  /\ pc = [p \in Proc |-> "idle"]
  /\ myRun = [p \in Proc |-> NoRun]
  /\ agent = [p \in Proc |-> "research"]
  /\ outcome = [p \in Proc |-> "blocked"]
  /\ beating = [p \in Proc |-> FALSE]
  /\ goal = [p \in Proc |-> "idle"]
  /\ conflicted = FALSE
  /\ intent = [m \in Manager |-> "none"]
  /\ opState = [o \in LifecycleOp |-> "idle"]

Alive(p) == pc[p] # "dead"

Goto(p, where) == pc' = [pc EXCEPT ![p] = where]

(* On to the next step, with the local variables as they are ...           *)
Proceed(p, where) ==
  /\ Goto(p, where)
  /\ UNCHANGED <<myRun, agent, outcome, beating, goal, conflicted, intent, opState>>

(* ... and back from a call, whose local variables are gone.               *)
Return(p, where) ==
  /\ Goto(p, where)
  /\ myRun' = [myRun EXCEPT ![p] = NoRun]
  /\ agent' = [agent EXCEPT ![p] = "research"]
  /\ outcome' = [outcome EXCEPT ![p] = "blocked"]
  /\ beating' = [beating EXCEPT ![p] = FALSE]
  /\ goal' = [goal EXCEPT ![p] = "idle"]
  /\ UNCHANGED <<conflicted, intent, opState>>

-----------------------------------------------------------------------------
(* Breaking a lock.                                                        *)

(* is_definitely_dead_same_host_owner and is_live_same_host_owner: the     *)
(* owners of resets and deletes name no process and are neither.           *)
KnownDead(p, o) == o \in Proc /\ HostOf[o] = HostOf[p] /\ ~Alive(o)
KnownLive(p, o) == o \in Proc /\ HostOf[o] = HostOf[p] /\ Alive(o)

(* Mutants of Recoverable: an expired lock is broken whoever owns it ...   *)
RecoverableWhenExpired(p) == lease # "live" \/ KnownDead(p, owner)

(* ... or no lock is broken at all.                                        *)
RecoverableWhenUnlocked(p) == lease = "none"

(* _lock_is_recoverable, as decided by orchestrator p.                     *)
Recoverable(p) ==
  \/ lease = "none"
  \/ KnownDead(p, owner)
  \/ lease = "expired" /\ ~KnownLive(p, owner)

(* recover_interrupted_issue is what a worker's sweep does (then = idle),  *)
(* what process_issue starts with (claim) and what stopping starts with    *)
(* (stop).  An interrupted merge, or a review whose worktree holds         *)
(* conflicts, is claimed first, for the Git work to be looked at.          *)
MustClaim(p) ==
  /\ Recoverable(p)
  /\ phase = "merging" \/ (phase = "reviewing" /\ conflicted)

RecoverIssue(p, then) ==
  /\ \/ pc[p] = "idle" /\ then \in Goal /\ ~MustClaim(p)
     \/ pc[p] = "rescan" /\ then = goal[p]
  /\ then = "stop" => p \in Stoppers
  /\ \/ Recoverable(p) /\ RecoverRow
     \/ ~(Recoverable(p) /\ NeedsRecovery) /\ UNCHANGED storeVars
  /\ Return(p, then)

ClaimRecovery(p, then) ==
  /\ pc[p] = "idle" /\ then \in Goal /\ MustClaim(p)
  /\ then = "stop" => p \in Stoppers
  /\ ClaimLock(p)
  /\ Goto(p, "recovering")
  /\ goal' = [goal EXCEPT ![p] = then]
  /\ myRun' = [myRun EXCEPT ![p] = current]
  /\ agent' = [agent EXCEPT ![p] = AgentOfRunning(phase)]
  /\ beating' = [beating EXCEPT ![p] = TRUE]
  /\ UNCHANGED <<outcome, conflicted, intent, opState>>

(* What WorkspaceManager may report of an interrupted merge: it had        *)
(* finished (locally or as a pull request), it left conflicts, it can      *)
(* safely be retried, or nobody can tell.                                  *)
MergeFindings == {"done", "awaiting_pr_closure", "ready_for_merge_conflict_resolution",
                  "ready_for_merge", "blocked"}

(* run_status of each finding: success and blocked end the run.            *)
FindingStatus(next) ==
  IF next \in {"ready_for_merge", "ready_for_merge_conflict_resolution"}
    THEN "interrupted" ELSE "completed"

(* The phase a claim is good for.                                          *)
Expected(p) ==
  IF pc[p] \in Monitoring THEN "awaiting_pr_closure" ELSE RunningPhase[agent[p]]

StillClaimed(p) == Holds(p, myRun[p]) /\ phase = Expected(p)

(* The worktree has been looked at; the claim is refreshed before anything *)
(* is reported.  A review whose conflicts are gone gives its claim back.   *)
Findings(p) ==
  IF agent[p] = "review" THEN {"ready_for_merge_conflict_resolution"}
  ELSE IF conflicted THEN {"ready_for_merge_conflict_resolution", "blocked"}
  ELSE MergeFindings \ {"ready_for_merge_conflict_resolution"}

ReportFinding(p) ==
  /\ pc[p] = "recovering" /\ StillClaimed(p)
  /\ agent[p] = "review" => conflicted
  /\ RefreshLock
  /\ \E next \in Findings(p) : outcome' = [outcome EXCEPT ![p] = next]
  /\ Goto(p, "reporting")
  /\ UNCHANGED <<myRun, agent, beating, goal, conflicted, intent, opState>>

ConflictsGone(p) ==
  /\ pc[p] = "recovering" /\ StillClaimed(p) /\ agent[p] = "review" /\ ~conflicted
  /\ ReleaseLock
  /\ Proceed(p, "rescan")

(* Without a result, the ordinary recovery looks at a review again.        *)
NoResult(p) ==
  /\ UNCHANGED storeVars
  /\ IF agent[p] = "review" THEN Proceed(p, "rescan") ELSE Return(p, goal[p])

ClaimLost(p) == pc[p] = "recovering" /\ ~StillClaimed(p) /\ NoResult(p)

(* Mutant of FinishRecovery: the phase may have changed since the claim.   *)
FinishRecoveryAnyPhase(p) ==
  /\ pc[p] = "reporting"
  /\ IF Holds(p, myRun[p]) \/ Recoverable(p)
       THEN /\ RecoverClaimed(agent[p], outcome[p], FindingStatus(outcome[p]))
            /\ Return(p, goal[p])
       ELSE NoResult(p)

(* A claim that is no longer held does not matter to this transaction as   *)
(* long as the lock could be broken anyway.                                *)
FinishRecovery(p) ==
  /\ pc[p] = "reporting"
  /\ IF phase = RunningPhase[agent[p]] /\ (Holds(p, myRun[p]) \/ Recoverable(p))
       THEN /\ RecoverClaimed(agent[p], outcome[p], FindingStatus(outcome[p]))
            /\ Return(p, goal[p])
       ELSE NoResult(p)

(* An exception of Git or of the file system leaves the recovery with its  *)
(* claim in place: nothing here releases it.                               *)
RecoveryFails(p) ==
  /\ p \in Fallible /\ pc[p] \in {"recovering", "reporting"}
  /\ UNCHANGED storeVars
  /\ Return(p, "idle")

-----------------------------------------------------------------------------
(* process_issue.                                                          *)

(* Every check of the pipeline that finds the run stopped leaves it by the *)
(* finally clause; so does every exception.                                *)
Stopped(p) == ForcedStop(myRun[p])

Leave(p) == UNCHANGED storeVars /\ Proceed(p, "releasing")

(* An issue that is not ready, or whose lock is held, is not processed;    *)
(* nor is any issue once the instance has drawn MaxRuns runs.              *)
GiveUp(p) ==
  /\ pc[p] = "claim"
  /\ phase \notin ReadyPhases \/ Locked \/ lastRun = MaxRuns
  /\ UNCHANGED storeVars /\ Return(p, "idle")

Acquire(p) ==
  /\ pc[p] = "claim"
  /\ phase \in ReadyPhases /\ CanAcquire(phase)
  /\ AcquireLock(p)
  /\ Goto(p, "acquired")
  /\ myRun' = [myRun EXCEPT ![p] = lastRun + 1]
  /\ agent' = [agent EXCEPT ![p] = AgentOfReady(phase)]
  /\ UNCHANGED <<outcome, beating, goal, conflicted, intent, opState>>

(* transition_issue to the running phase: read and validate, then write.   *)
ReadReady(p) ==
  /\ pc[p] = "acquired"
  /\ IF ~Stopped(p) /\ TransitionAllowed(RunningPhase[agent[p]])
       THEN UNCHANGED storeVars /\ Proceed(p, "starting")
       ELSE Leave(p)

(* Mutant of WriteRunning: the write is not guarded by the run.            *)
WriteRunningUnguarded(p) ==
  /\ pc[p] = "starting"
  /\ RunTransition(myRun[p], RunningPhase[agent[p]])
  /\ Proceed(p, "started")

WriteRunning(p) ==
  /\ pc[p] = "starting"
  /\ IF current = myRun[p]
       THEN /\ RunTransition(myRun[p], RunningPhase[agent[p]])
            /\ Proceed(p, "started")
       ELSE Leave(p)

(* Mutant of StartRun: the row is inserted for a run that is not current.  *)
StartRunUnguarded(p) ==
  /\ pc[p] = "started"
  /\ IF ~Stopped(p)
       THEN /\ CreateRun(myRun[p], agent[p])
            /\ Goto(p, "running")
            /\ beating' = [beating EXCEPT ![p] = TRUE]
            /\ UNCHANGED <<myRun, agent, outcome, goal, conflicted, intent, opState>>
       ELSE Leave(p)

StartRun(p) ==
  /\ pc[p] = "started"
  /\ IF ~Stopped(p) /\ current = myRun[p]
       THEN /\ CreateRun(myRun[p], agent[p])
            /\ Goto(p, "running")
            /\ beating' = [beating EXCEPT ![p] = TRUE]
            /\ UNCHANGED <<myRun, agent, outcome, goal, conflicted, intent, opState>>
       ELSE Leave(p)

(* The heartbeat thread keeps the lease of a run, of a claimed recovery or *)
(* of a pull request monitor alive until it is refused once.               *)
Heartbeat(p) ==
  /\ pc[p] \in {"running", "recovering"} \cup Monitoring /\ beating[p]
  /\ \/ StillClaimed(p) /\ RefreshLock /\ UNCHANGED beating
     \/ /\ ~StillClaimed(p)
        /\ beating' = [beating EXCEPT ![p] = FALSE]
        /\ UNCHANGED storeVars
  /\ UNCHANGED <<pc, myRun, agent, outcome, goal, conflicted, intent, opState>>

(* What a runner may recommend (PHASE_RECOMMENDATIONS), besides a question *)
(* and a block.                                                            *)
Recommendations ==
  [a \in AskingAgents |->
     CASE a = "research"       -> {"ready_for_plan"}
       [] a = "plan"           -> {"ready_for_implementation", "awaiting_plan_approval"}
       [] a = "implementation" -> {"ready_for_validation"}
       [] a = "validation"     -> {"ready_for_review", "ready_for_implementation"}
       [] a = "review" ->
            {"awaiting_merge_approval", "done", "ready_for_implementation"}
       [] a = "merge_conflict_resolution" ->
            {"ready_for_validation", "ready_for_implementation"}]

(* A plan to be implemented and a review that is done wait for approval.   *)
Normalised(a, next) ==
  IF <<a, next>> \in {<<"plan", "ready_for_implementation">>, <<"review", "done">>}
    THEN DefaultNextPhase[a] ELSE next

(* A plan made while its source changed is requeued; whatever is no        *)
(* success blocks; the merge phase is Git work with outcomes of its own.   *)
Results(a) ==
  IF a = "merge"
    THEN IF conflicted THEN {"ready_for_merge_conflict_resolution", "blocked"}
         ELSE {"done", "awaiting_pr_closure", "blocked"}
    ELSE {Normalised(a, next) : next \in Recommendations[a]}
         \cup {"awaiting_human_input", "blocked"}
         \cup {next \in {"ready_for_plan"} : a = "plan"}

AgentReturns(p) ==
  /\ pc[p] = "running" /\ ~Stopped(p)
  /\ \E next \in Results(agent[p]) : outcome' = [outcome EXCEPT ![p] = next]
  /\ Goto(p, "returned")
  /\ UNCHANGED <<storeVars, myRun, agent, beating, goal, conflicted, intent, opState>>

(* Mutant of AgentCancelled: it waits for a stop of the current run, which *)
(* a stopped run no longer is.                                             *)
AgentCancelledWhileCurrent(p) ==
  pc[p] = "running" /\ Stopped(p) /\ current = myRun[p] /\ Leave(p)

(* A stop cancels the runner; its answer, if any, is thrown away.          *)
AgentCancelled(p) == pc[p] = "running" /\ Stopped(p) /\ Leave(p)

RefreshAfterRun(p) ==
  /\ pc[p] = "returned"
  /\ IF ~Stopped(p) /\ Holds(p, myRun[p])
       THEN RefreshLock /\ Proceed(p, "recording")
       ELSE Leave(p)

(* Before a review sends the issue back to implementation, the source      *)
(* branch is merged into the worktree.  That merge, like the one of the    *)
(* merge phase, may stop on conflicts, at any moment of the step.          *)
SyncsSource(p) == agent[p] = "review" /\ outcome[p] = "ready_for_implementation"

SourceConflicts(p) ==
  /\ ~conflicted /\ conflicted' = TRUE
  /\ \/ pc[p] = "running" /\ agent[p] = "merge" /\ UNCHANGED outcome
     \/ /\ pc[p] = "recording" /\ SyncsSource(p)
        /\ outcome' = [outcome EXCEPT ![p] = "ready_for_merge_conflict_resolution"]
  /\ UNCHANGED <<storeVars, pc, myRun, agent, beating, goal, intent, opState>>

(* The merge phase begins by committing whatever the worktree holds, the   *)
(* unresolved conflicts of an earlier merge included.                      *)
CommitsConflicts(p) ==
  /\ pc[p] = "running" /\ agent[p] = "merge"
  /\ conflicted /\ conflicted' = FALSE
  /\ UNCHANGED <<storeVars, procVars, intent, opState>>

(* An implementation or a resolution is committed with the snapshot.  The  *)
(* snapshot, the source sync (for certain if there are conflicts already)  *)
(* and writing the artifact may fail: blocked.                             *)
Resolves(p) ==
  \/ agent[p] = "implementation" /\ outcome[p] = "ready_for_validation"
  \/ agent[p] = "merge_conflict_resolution"
     /\ outcome[p] \in {"ready_for_validation", "ready_for_implementation"}

RecordOutcome(p) ==
  /\ pc[p] = "recording"
  /\ \/ Stopped(p) /\ Leave(p)
     \/ /\ ~Stopped(p)
        /\ \/ ~(SyncsSource(p) /\ conflicted)
              /\ conflicted' = (conflicted /\ ~Resolves(p)) /\ UNCHANGED outcome
           \/ /\ outcome' = [outcome EXCEPT ![p] = "blocked"]
              /\ UNCHANGED conflicted
        /\ Goto(p, "settled")
        /\ UNCHANGED <<storeVars, myRun, agent, beating, goal, intent, opState>>

CompleteAndAsk(p) ==
  /\ pc[p] = "settled" /\ outcome[p] = "awaiting_human_input"
  /\ IF ~Stopped(p) /\ CanAsk(myRun[p])
       THEN /\ CompleteRunAndAsk(myRun[p], agent[p])
            /\ Proceed(p, "releasing")
       ELSE Leave(p)

Complete(p) ==
  /\ pc[p] = "settled" /\ outcome[p] # "awaiting_human_input"
  /\ IF ~Stopped(p) /\ CanComplete(myRun[p])
       THEN /\ CompleteRun(myRun[p], outcome[p])
            /\ Proceed(p, "completed")
       ELSE Leave(p)

(* transition_issue to the next phase: read and validate, then write.      *)
ReadRunning(p) ==
  /\ pc[p] = "completed"
  /\ IF TransitionAllowed(outcome[p])
       THEN UNCHANGED storeVars /\ Proceed(p, "moving")
       ELSE Leave(p)

(* Mutant of WriteOutcome: the write is not guarded by the run.            *)
WriteOutcomeUnguarded(p) ==
  /\ pc[p] = "moving"
  /\ RunTransition(myRun[p], outcome[p])
  /\ Proceed(p, "releasing")

WriteOutcome(p) ==
  /\ pc[p] = "moving"
  /\ IF current = myRun[p]
       THEN /\ RunTransition(myRun[p], outcome[p])
            /\ Proceed(p, "releasing")
       ELSE Leave(p)

(* An exception of the file system or of Git anywhere around the run.      *)
Raise(p) == pc[p] \in {"running", "recording", "settled"} /\ Leave(p)

Release(p) ==
  /\ pc[p] = "releasing"
  /\ IF Holds(p, myRun[p]) THEN ReleaseLock ELSE UNCHANGED storeVars
  /\ Return(p, "idle")

-----------------------------------------------------------------------------
(* monitor_pull_requests, for this issue.                                  *)

(* The bound on run ids leaves the last one to a monitor that does not die *)
(* with it, so that no instance ends under the claim of a dead monitor.    *)
ClaimMonitor(p) ==
  /\ p \in Monitors /\ pc[p] = "idle"
  /\ CanAcquire("awaiting_pr_closure")
  /\ p \in Mortal => lastRun + 1 < MaxRuns
  /\ AcquireMonitorLock(p)
  /\ Goto(p, "looking")
  /\ myRun' = [myRun EXCEPT ![p] = lastRun + 1]
  /\ beating' = [beating EXCEPT ![p] = TRUE]
  /\ UNCHANGED <<agent, outcome, goal, conflicted, intent, opState>>

(* The pull request was closed, or is still open without or with conflicts *)
(* against its target; or nobody can tell.                                 *)
Sightings == {"done", "awaiting_pr_closure", "ready_for_merge_conflict_resolution", "blocked"}

(* The provider is asked, unless monitoring is switched off.               *)
AskProvider(p) ==
  /\ pc[p] = "looking"
  /\ \/ Leave(p)
     \/ /\ \E next \in Sightings : outcome' = [outcome EXCEPT ![p] = next]
        /\ Goto(p, "looked")
        /\ UNCHANGED <<storeVars, myRun, agent, beating, goal, conflicted, intent, opState>>

(* Mutant of Reclaim: the claim is not looked at again.                    *)
ReclaimUnseen(p, where) == RefreshLock /\ Proceed(p, where)

(* _ensure_pull_request_monitor_current, before every write of a file or   *)
(* an event: the claim is extended, or the monitor is stale and leaves.    *)
(* The chains of such writes are one step each.                            *)
Reclaim(p, where) ==
  \/ StillClaimed(p) /\ RefreshLock /\ Proceed(p, where)
  \/ ~StillClaimed(p) /\ Leave(p)

RecordSighting(p) ==
  /\ pc[p] = "looked"
  /\ Reclaim(p, CASE outcome[p] = "awaiting_pr_closure" -> "releasing"
                  [] outcome[p] = "ready_for_merge_conflict_resolution" -> "repairing"
                  [] OTHER -> "deciding")

(* prepare_pull_request_conflict_workspace makes the worktree anew, merges *)
(* the target into it and finds conflicts or none, or fails.  Nobody asks  *)
(* whose the worktree is by now.                                           *)
PrepareConflicts(p) ==
  /\ pc[p] = "repairing"
  /\ conflicted' \in BOOLEAN
  /\ \E next \in {IF conflicted' THEN "ready_for_merge_conflict_resolution"
                   ELSE "ready_for_validation", "blocked"} :
       outcome' = [outcome EXCEPT ![p] = next]
  /\ Goto(p, "deciding")
  /\ UNCHANGED <<storeVars, myRun, agent, beating, goal, intent, opState>>

RecordVerdict(p) == pc[p] = "deciding" /\ Reclaim(p, "checked")

(* A monitor that fails tries to block the issue, outside its heartbeat.   *)
(* What fails again is tried once more, as if it had not begun, and then   *)
(* left.                                                                   *)
FallBack(p) ==
  IF outcome[p] = "blocked" /\ pc[p] # "looking" THEN Leave(p)
  ELSE /\ Goto(p, "deciding")
       /\ outcome' = [outcome EXCEPT ![p] = "blocked"]
       /\ beating' = [beating EXCEPT ![p] = FALSE]
       /\ UNCHANGED <<storeVars, myRun, agent, goal, conflicted, intent, opState>>

(* transition_issue to the verdict: read and validate, then write.         *)
ReadWaiting(p) ==
  /\ pc[p] = "checked"
  /\ IF TransitionAllowed(outcome[p])
       THEN UNCHANGED storeVars /\ Proceed(p, "moving")
       ELSE FallBack(p)

(* An exception of the file system, the provider or the database.          *)
MonitorRaises(p) == pc[p] \in Monitoring /\ FallBack(p)

Monitor(p) ==
  AskProvider(p) \/ RecordSighting(p) \/ PrepareConflicts(p) \/ RecordVerdict(p) \/ ReadWaiting(p)

-----------------------------------------------------------------------------
(* The process dies between two of its steps.  Its row stays as it is; a   *)
(* restarted orchestrator is another member of Proc, since its lock owner  *)
(* is a new one.                                                           *)
Crash(p) ==
  /\ p \in Mortal /\ Alive(p)
  /\ UNCHANGED storeVars /\ Return(p, "dead")

(* The end of stop_issue.                                                  *)
Stop(p) ==
  /\ pc[p] = "stop"
  /\ IF Stoppable THEN ForceStop ELSE UNCHANGED storeVars
  /\ Return(p, "idle")

-----------------------------------------------------------------------------
(* Managers.                                                               *)

(* approve, reject, advance and manual transition: the phase is read and   *)
(* the move validated.  The web UI also wants the lock to be free; the     *)
(* command line does not look at it.                                       *)
ManualRead(m, next) ==
  /\ intent[m] = "none"
  /\ <<phase, next>> \in ManualMoves /\ TransitionAllowed(next)
  /\ m \in WebManager => current = NoRun /\ ~Locked
  /\ intent' = [intent EXCEPT ![m] = next]
  /\ UNCHANGED <<storeVars, procVars, conflicted, opState>>

(* The row is written, unless it was deleted meanwhile.                    *)
ManualWrite(m) ==
  /\ intent[m] # "none"
  /\ IF phase # Deleted THEN ManualTransition(intent[m]) ELSE UNCHANGED storeVars
  /\ intent' = [intent EXCEPT ![m] = "none"]
  /\ UNCHANGED <<procVars, conflicted, opState>>

Answer ==
  /\ CanAnswer /\ AnswerHumanInput
  /\ UNCHANGED <<procVars, conflicted, intent, opState>>

-----------------------------------------------------------------------------
(* Reset and delete.                                                       *)

OpGoto(o, where) ==
  /\ opState' = [opState EXCEPT ![o] = where]
  /\ UNCHANGED <<procVars, intent>>

BeginOp(o) ==
  /\ opState[o] = "idle" /\ phase # Deleted /\ ~Locked
  /\ Reserve(o)
  /\ OpGoto(o, "reserved") /\ UNCHANGED conflicted

(* The worktree and the artifacts go first, whoever holds the lock by now; *)
(* the rows go if the reservation is still held.                           *)
FinishOp(o) ==
  /\ opState[o] = "reserved"
  /\ IF owner = o
       THEN ClearHistory(IF o \in ResetOp THEN "draft" ELSE Deleted)
       ELSE UNCHANGED storeVars
  /\ conflicted' = FALSE
  /\ OpGoto(o, "over")

(* Removing the worktree fails: delete gives its reservation back, reset   *)
(* keeps it until it expires.  So does an operation that crashes.          *)
FailOp(o) ==
  /\ opState[o] = "reserved"
  /\ \/ o \in DeleteOp /\ owner = o /\ ReleaseLock
     \/ UNCHANGED storeVars
  /\ OpGoto(o, "over") /\ UNCHANGED conflicted

-----------------------------------------------------------------------------
Expire == LeaseExpires /\ UNCHANGED <<procVars, conflicted, intent, opState>>

(* The steps of a run, once begun.                                         *)
Work(p) ==
  \/ GiveUp(p) \/ Acquire(p) \/ ReadReady(p) \/ WriteRunning(p) \/ StartRun(p)
  \/ AgentReturns(p) \/ AgentCancelled(p) \/ RefreshAfterRun(p) \/ RecordOutcome(p)
  \/ CompleteAndAsk(p) \/ Complete(p) \/ ReadRunning(p) \/ WriteOutcome(p)
  \/ Release(p) \/ Stop(p) \/ Monitor(p)

Recovery(p, then) ==
  RecoverIssue(p, then) \/ ClaimRecovery(p, then)

LookAtGit(p) == ReportFinding(p) \/ ConflictsGone(p) \/ ClaimLost(p) \/ FinishRecovery(p)

Manual(m) == (\E next \in Phase : ManualRead(m, next)) \/ ManualWrite(m)

Lifecycle(o) == BeginOp(o) \/ FinishOp(o) \/ FailOp(o)

Next ==
  \/ \E p \in Proc :
       \/ Work(p) \/ Heartbeat(p) \/ SourceConflicts(p) \/ CommitsConflicts(p)
       \/ Raise(p) \/ Crash(p) \/ ClaimMonitor(p) \/ MonitorRaises(p)
       \/ LookAtGit(p) \/ RecoveryFails(p)
       \/ \E then \in Goal : Recovery(p, then)
  \/ \E m \in Manager : Manual(m)
  \/ \E o \in LifecycleOp : Lifecycle(o)
  \/ Answer
  \/ Expire

Spec == Init /\ [][Next]_vars

(* Every orchestrator keeps sweeping for interrupted work (the worker loop *)
(* and the web server's startup), a run that has begun is driven on by its *)
(* thread, the runner's timeout ends every agent, and clocks advance.  An  *)
(* idle worker looks at pull requests again and again, in between sweeps.  *)
Fairness ==
  /\ \A p \in Proc :
       /\ WF_vars(Work(p)) /\ WF_vars(LookAtGit(p))
       /\ WF_vars(Recovery(p, "idle")) /\ WF_vars(pc[p] = "rescan" /\ Recovery(p, goal[p]))
  /\ \A p \in Monitors : SF_vars(ClaimMonitor(p))
  /\ WF_vars(Expire)

FairSpec == Spec /\ Fairness

-----------------------------------------------------------------------------
(* Properties.                                                             *)

(* An issue waits for a person exactly while a question of the run that    *)
(* asked is pending (complete_run_and_request_human_input commits both, an *)
(* answer and a stop withdraw both).  A pending question of an issue that  *)
(* moved on would make the next question of any agent fail.                *)
QuestionIsPending ==
  /\ phase = "awaiting_human_input" <=> request # NoRequest
  /\ request # NoRequest =>
       runs[request.run].status = "completed" /\ runs[request.run].agent = request.by

OneHost == \A p, q \in Proc : HostOf[p] = HostOf[q]

(* On one host, nobody takes the lock of the current run away from the     *)
(* living orchestrator that executes it, however late its heartbeat is.    *)
LiveRunKeepsLock ==
  OneHost => \A p \in Proc :
    pc[p] \in Pipeline /\ current = myRun[p] => owner = p

(* On one host, an agent that still works on an issue it has lost was      *)
(* stopped, so that its cancellation monitor will end it: two agents share *)
(* a worktree only while the stopped one is being cancelled.               *)
DisplacedAgentWasStopped ==
  OneHost => \A p \in Proc :
    pc[p] \in {"running", "returned", "recording", "settled"} /\ current # myRun[p]
      => runs[myRun[p]].status = "stopped"

(* A manager, a reset or a delete did it.                                  *)
ByHand ==
  \/ \E m \in Manager : intent[m] # "none" /\ intent'[m] = "none"
  \/ \E o \in LifecycleOp : opState[o] = "reserved" /\ opState'[o] = "over"

(* What a stop blocked stays blocked until a person decides otherwise:     *)
(* neither the stopped worker nor recovery moves the issue on.             *)
StopSticks ==
  [][phase = "blocked" /\ current = NoRun /\ phase' # "blocked" => ByHand]_vars

(* Merging starts with a person's approval: no agent, no answer to an      *)
(* agent's question and no recovery makes an issue ready to merge, except  *)
(* that an interrupted merge may be retried.                               *)
MergeIsApproved ==
  [][phase' = "ready_for_merge" /\ phase # "ready_for_merge"
       => ByHand \/ phase = "merging"]_vars

(* A run that ended keeps its outcome through a crash: whatever moves the  *)
(* issue out of the running phase afterwards, the worker or somebody's     *)
(* recovery, moves it where the run said (or the run was stopped).  The    *)
(* one exception is a review that could not record the conflicts its       *)
(* source sync left: it decided on blocked, and a recovery that claimed    *)
(* the issue has seen conflicts.                                           *)
OutcomeSurvivesCrash ==
  [][\A r \in RunId :
       /\ phase \in RunningPhases \ {"merging"} /\ phase' # phase
       /\ runs[r].status = "completed" /\ current = r /\ runs'[r].status = "completed"
       => \/ phase' = runs[r].next
          \/ /\ phase = "reviewing" /\ phase' = "ready_for_merge_conflict_resolution"
             /\ \E p \in Proc : pc[p] = "reporting" /\ pc'[p] # "reporting"]_vars

(* An issue stops waiting for its pull request only by the verdict of      *)
(* whoever holds the current claim, however many monitors are still under  *)
(* way with what the provider told them; or a person or a stop ends the    *)
(* wait.                                                                   *)
WaitEndsByItsMonitor ==
  [][phase = "awaiting_pr_closure" /\ phase' # phase =>
       \/ ByHand
       \/ phase' = "blocked" /\ current' = NoRun
       \/ current # NoRun /\ mover' = current]_vars

(* A reset leaves no trace of the work done before, and no late write of a *)
(* worker that was still busy brings one back.                             *)
FreshStart ==
  phase \in {"draft", Deleted} =>
    /\ \A r \in RunId : runs[r] = AbsentRow
    /\ request = NoRequest /\ current = NoRun /\ mover = NoRun

(* The phases of the issue follow the workflow.                            *)
Workflow == INSTANCE IssueWorkflow
              WITH phase <- phase, StartPhases <- StartPhases, Deleted <- Deleted
FollowsWorkflow == Workflow!Spec

(* .github/copilot-instructions.md:15: every change of phase a manager     *)
(* makes is a transition that validate_transition accepts.                 *)
ManualMovesAreValid ==
  [][\A m \in Manager :
       intent[m] # "none" /\ intent'[m] = "none" /\ phase' # phase
         => Edge(phase, phase')]_vars

(* No issue stays in a running phase for ever, whoever crashes in it.      *)
RunningEnds == phase \in RunningPhases ~> phase \notin RunningPhases

(* Every lock is given back or broken in the end.                          *)
LocksEnd == owner # NoOwner ~> owner = NoOwner

(* A run that was stopped leaves its orchestrator.                         *)
StoppedRunsEnd ==
  \A p \in Proc :
    pc[p] \in Pipeline /\ runs[myRun[p]].status = "stopped" ~> pc[p] \notin Pipeline
=============================================================================

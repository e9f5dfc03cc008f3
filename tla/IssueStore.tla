----------------------------- MODULE IssueStore -----------------------------
(***************************************************************************)
(* One issue as src/agent_team/db.py stores it: its row (phase and lock),  *)
(* its rows in the runs table, its pending human input request and the     *)
(* last phase event that names a run.  Each operator below is what one     *)
(* SQLite transaction of IssueStore does when its guards hold; what a      *)
(* caller does when they do not is the caller's business.                  *)
(*                                                                         *)
(* status (open or closed) is not a variable: every statement that writes  *)
(* the phase writes "closed" exactly when that phase is done.              *)
(***************************************************************************)
EXTENDS StateMachine, Integers

CONSTANTS
  Owner,        \* whoever can hold the lock: orchestrators and lifecycle operations
  NoOwner,      \* lock_owner is NULL
  MaxRuns,      \* bound on the run ids ever drawn
  StartPhases   \* phases the issue may be in when the system starts

ASSUME NoOwnerAssumption == NoOwner \notin Owner
ASSUME MaxRunsAssumption == MaxRuns \in Nat
ASSUME StartPhasesAssumption ==
  StartPhases \subseteq (ReadyPhases \cup WaitingPhases) \ {"awaiting_human_input"}

VARIABLES
  phase,      \* issues.phase, or Deleted when the row is gone
  owner,      \* issues.lock_owner
  lease,      \* issues.lock_expires_at against the clock: none, live or expired
  current,    \* issues.current_run_id
  runs,       \* the rows of the runs table
  request,    \* the pending row of human_input_requests
  mover,      \* run named by the last issue.transitioned event that names one
  lastRun     \* run ids drawn so far: acquire_lock always stores a fresh one

storeVars == <<phase, owner, lease, current, runs, request, mover, lastRun>>

Deleted == "deleted"
Lease   == {"none", "live", "expired"}
RunId   == 1..MaxRuns
NoRun   == 0

(* The outcomes complete_run stores (success, blocked, failed, requeued)   *)
(* all come with a next_phase, and it is the next_phase that decides what  *)
(* follows; they are one status here.                                      *)
RunStatus == {"absent", "running", "completed", "interrupted", "stopped"}
Row       == [status : RunStatus, agent : Agent \cup {"none", "pr_monitor"},
              next : Phase \cup {"none"}]
AbsentRow == [status |-> "absent", agent |-> "none", next |-> "none"]

(* The claim of a pull request monitor has no row either; its id begins    *)
(* with pr-monitor-, and recovery knows it by that.                        *)
MonitorRow == [AbsentRow EXCEPT !.agent = "pr_monitor"]

Request   == [by : AskingAgents, run : RunId]
NoRequest == [by |-> "none", run |-> NoRun]

StoreTypeOK ==
  /\ phase \in Phase \cup {Deleted}
  /\ owner \in Owner \cup {NoOwner}
  /\ lease \in Lease
  /\ current \in RunId \cup {NoRun}
  /\ runs \in [RunId -> Row]
  /\ request \in Request \cup {NoRequest}
  /\ mover \in RunId \cup {NoRun}
  /\ lastRun \in 0..MaxRuns

StoreInit ==
  /\ phase \in StartPhases
  /\ owner = NoOwner /\ lease = "none" /\ current = NoRun
  /\ runs = [r \in RunId |-> AbsentRow]
  /\ request = NoRequest
  /\ mover = NoRun
  /\ lastRun = 0

-----------------------------------------------------------------------------
(* The lock.                                                               *)

(* A lock whose expiry lies in the future keeps everybody else out.        *)
Locked == lease = "live"

(* Time passes the stored lock_expires_at.                                 *)
LeaseExpires ==
  /\ lease = "live"
  /\ lease' = "expired"
  /\ UNCHANGED <<phase, owner, current, runs, request, mover, lastRun>>

(* acquire_lock: a compare-and-set on the phase and on a free or expired   *)
(* lease.  It does not ask whether the previous owner is still alive.      *)
CanAcquire(expected) == phase = expected /\ ~Locked

AcquireLock(o) ==
  /\ lastRun < MaxRuns
  /\ owner' = o /\ lease' = "live"
  /\ current' = lastRun + 1 /\ lastRun' = lastRun + 1
  /\ UNCHANGED <<phase, runs, request, mover>>

(* claim_pr_monitor_issue: the same, under an id of its own kind.          *)
AcquireMonitorLock(o) ==
  /\ lastRun < MaxRuns
  /\ owner' = o /\ lease' = "live"
  /\ current' = lastRun + 1 /\ lastRun' = lastRun + 1
  /\ runs' = [runs EXCEPT ![lastRun + 1] = MonitorRow]
  /\ UNCHANGED <<phase, request, mover>>

(* refresh_run_lock and refresh_issue_lock push the expiry of a lock that  *)
(* still belongs to this owner and this run.                               *)
Holds(o, r) == owner = o /\ current = r

RefreshLock ==
  /\ lease' = "live"
  /\ UNCHANGED <<phase, owner, current, runs, request, mover, lastRun>>

Unlock == owner' = NoOwner /\ lease' = "none" /\ current' = NoRun

(* release_lock, after its guards on the owner and on the run.             *)
ReleaseLock == Unlock /\ UNCHANGED <<phase, runs, request, mover, lastRun>>

-----------------------------------------------------------------------------
(* Phases, runs and requests.                                              *)

(* transition_issue is two transactions.  The first reads the phase and    *)
(* validates the move ...                                                  *)
TransitionAllowed(next) ==
  phase # "awaiting_human_input" /\ next # "awaiting_human_input" /\ Edge(phase, next)

(* ... the second writes the new phase, guarded by the run id when the     *)
(* caller gave one and by nothing but the row's existence otherwise: not   *)
(* by the phase the first transaction saw.                                 *)
RunTransition(r, next) ==
  /\ phase' = next /\ mover' = r
  /\ UNCHANGED <<owner, lease, current, runs, request, lastRun>>

ManualTransition(next) ==
  /\ phase' = next
  /\ UNCHANGED <<owner, lease, current, runs, request, mover, lastRun>>

CreateRun(r, a) ==
  /\ runs' = [runs EXCEPT ![r] = [status |-> "running", agent |-> a, next |-> "none"]]
  /\ UNCHANGED <<phase, owner, lease, current, request, mover, lastRun>>

(* complete_run and complete_run_and_request_human_input insist that the   *)
(* run is still running and still the issue's current run.                 *)
CanComplete(r) == current = r /\ runs[r].status = "running"

(* Run r has ended.                                                        *)
EndRun(r, status, next) == [runs EXCEPT ![r].status = status, ![r].next = next]

CompleteRun(r, next) ==
  /\ runs' = EndRun(r, "completed", next)
  /\ UNCHANGED <<phase, owner, lease, current, request, mover, lastRun>>

(* At most one request may be pending: a unique index makes the insert,    *)
(* and with it the transaction, fail otherwise.                            *)
CanAsk(r) == CanComplete(r) /\ Edge(phase, "awaiting_human_input") /\ request = NoRequest

CompleteRunAndAsk(r, a) ==
  /\ runs' = EndRun(r, "completed", "awaiting_human_input")
  /\ request' = [by |-> a, run |-> r]
  /\ phase' = "awaiting_human_input" /\ mover' = r
  /\ Unlock
  /\ UNCHANGED lastRun

CanAnswer == phase = "awaiting_human_input" /\ ~Locked /\ request # NoRequest

(* Mutant of AnswerHumanInput: the answered request stays pending.         *)
AnswerKeepsQuestion ==
  /\ phase' = ResumePhase[request.by] /\ mover' = request.run
  /\ Unlock
  /\ UNCHANGED <<request, runs, lastRun>>

AnswerHumanInput ==
  /\ phase' = ResumePhase[request.by] /\ mover' = request.run
  /\ request' = NoRequest
  /\ Unlock
  /\ UNCHANGED <<runs, lastRun>>

(* force_stop_issue: draft and closed issues are refused, a blocked issue  *)
(* is left as it is, and the lock protects nobody.  The current run is     *)
(* marked stopped whatever its status was.                                 *)
Stoppable == phase \notin {"draft", "done", "blocked", Deleted}

ForceStop ==
  /\ runs' = IF current = NoRun \/ runs[current].status = "absent" THEN runs
             ELSE EndRun(current, "stopped", "blocked")
  /\ request' = IF phase = "awaiting_human_input" THEN NoRequest ELSE request
  /\ phase' = "blocked"
  /\ mover' = IF current # NoRun THEN current ELSE mover
  /\ Unlock
  /\ UNCHANGED lastRun

(* get_forced_stop_state, the question every step of a run asks.           *)
ForcedStop(r) == runs[r].status = "stopped" \/ phase \in {Deleted, "blocked"}

-----------------------------------------------------------------------------
(* Recovery of an interrupted issue.                                       *)

(* _run_for_recovery: the current run's row; without a current run, the    *)
(* run of the last phase event, if it was a run of this agent; without     *)
(* such an event, the latest run of this agent that is still running.      *)
RunForRecovery(a) ==
  LET open == {r \in RunId : runs[r].agent = a /\ runs[r].status = "running"}
  IN  IF current # NoRun
        THEN IF runs[current].status # "absent" THEN current ELSE NoRun
      ELSE IF a = "none" THEN NoRun
      ELSE IF mover # NoRun
        THEN IF runs[mover].agent = a THEN mover ELSE NoRun
      ELSE IF open # {} THEN CHOOSE r \in open : \A s \in open : s <= r
      ELSE NoRun

(* _complete_recovered_run touches a run that is still running, no other.  *)
RunsRecovered(r, status, next) ==
  IF r # NoRun /\ runs[r].status = "running"
    THEN EndRun(r, status, next) ELSE runs

(* Mutant of ApplyRecovery: the run stays the current run.                 *)
ApplyRecoveryKeepsRun(next) ==
  /\ phase' = next /\ owner' = NoOwner /\ lease' = "none"
  /\ UNCHANGED <<current, request, mover, lastRun>>

(* _apply_recovery_issue_update: new phase, lock cleared.  The event it    *)
(* leads to is issue.recovered, so mover stays.                            *)
ApplyRecovery(next) ==
  phase' = next /\ Unlock /\ UNCHANGED <<request, mover, lastRun>>

(* _terminal_recovery_target for a run that ended: the next phase it       *)
(* recorded, unless that is a request that was never committed or is no    *)
(* move from here.                                                         *)
TerminalTarget(r) ==
  LET next == runs[r].next
  IN  IF next # "awaiting_human_input" /\ Edge(phase, next) THEN next ELSE "blocked"

(* Mutants of RecoverRunning: it starts the phase afresh whatever its run  *)
(* had decided ...                                                         *)
RecoverRunningAfresh ==
  LET a == AgentOfRunning(phase)
  IN  /\ phase \in RunningPhases \ {"merging"}
      /\ ApplyRecovery(ReadyPhase[a])
      /\ runs' = RunsRecovered(RunForRecovery(a), "interrupted", ReadyPhase[a])

(* ... or it believes the next phase of a run that has not ended.          *)
RecoverRunningUnended ==
  LET a == AgentOfRunning(phase)
      r == RunForRecovery(a)
      target == IF r # NoRun THEN runs[r].next ELSE ReadyPhase[a]
  IN  /\ phase \in RunningPhases \ {"merging"}
      /\ ApplyRecovery(target)
      /\ runs' = RunsRecovered(r, "interrupted", target)

(* A running phase other than merging: back to its ready phase, or forward *)
(* to what the run had already decided.                                    *)
RecoverRunning ==
  LET a == AgentOfRunning(phase)
      r == RunForRecovery(a)
      target == IF r # NoRun /\ runs[r].status # "running" THEN TerminalTarget(r)
                ELSE ReadyPhase[a]
  IN  /\ phase \in RunningPhases \ {"merging"}
      /\ ApplyRecovery(target)
      /\ runs' = RunsRecovered(r, "interrupted", target)

(* Mutant of StaleReady: a lock with an expiry is left to its owner.       *)
StaleReadyUnowned == phase \in ReadyPhases /\ current # NoRun /\ lease = "none"

(* A ready phase with a stale lock keeps its phase.                        *)
StaleReady == phase \in ReadyPhases /\ (current # NoRun \/ lease # "none")

RecoverReady ==
  /\ StaleReady
  /\ ApplyRecovery(phase)
  /\ runs' = RunsRecovered(RunForRecovery(AgentOfReady(phase)), "interrupted", phase)

(* The crash came after the run moved the issue and before the release.    *)
StaleWaiting ==
  /\ phase \in WaitingPhases /\ current # NoRun
  /\ runs[current].status \notin {"absent", "running"}
  /\ runs[current].next = phase

RecoverWaiting == StaleWaiting /\ ApplyRecovery(phase) /\ UNCHANGED runs

(* A pull request monitor died after it moved the issue; one that died     *)
(* before is not recovered: another monitor claims the issue in time.      *)
StaleMonitored ==
  phase \in {"blocked", "done"} /\ current # NoRun /\ runs[current] = MonitorRow

RecoverMonitored == StaleMonitored /\ ApplyRecovery(phase) /\ UNCHANGED runs

(* _recover_issue_row, when the lock may be broken: which rows it changes, *)
(* and how.                                                                *)
NeedsRecovery ==
  phase \in RunningPhases \ {"merging"} \/ StaleReady \/ StaleWaiting \/ StaleMonitored

RecoverRow == RecoverRunning \/ RecoverReady \/ RecoverWaiting \/ RecoverMonitored

(* claim_interrupted_*_recovery takes the lock over but leaves the run the *)
(* issue's current run.                                                    *)
ClaimLock(o) ==
  /\ owner' = o /\ lease' = "live"
  /\ UNCHANGED <<phase, current, runs, request, mover, lastRun>>

(* recover_interrupted_merge and recover_interrupted_review_source_sync.   *)
RecoverClaimed(a, next, status) ==
  /\ ApplyRecovery(next)
  /\ runs' = RunsRecovered(RunForRecovery(a), status, next)

-----------------------------------------------------------------------------
(* Reset and delete reserve the issue first and finish only if the         *)
(* reservation is still theirs.                                            *)
Reserve(o) ==
  /\ owner' = o /\ lease' = "live" /\ current' = NoRun
  /\ UNCHANGED <<phase, runs, request, mover, lastRun>>

ClearHistory(next) ==
  /\ phase' = next
  /\ runs' = [r \in RunId |-> AbsentRow]
  /\ request' = NoRequest /\ mover' = NoRun
  /\ Unlock
  /\ UNCHANGED lastRun
-----------------------------------------------------------------------------
(* Properties of the stored issue.                                         *)

(* The lock columns of the row agree: whoever owns the lock has an expiry, *)
(* and a run is current only under an owner.  Recovery counts on it: it    *)
(* breaks a lock without an expiry at once (_lock_is_recoverable).         *)
LeaseCoherent ==
  /\ owner = NoOwner <=> lease = "none"
  /\ current # NoRun => owner # NoOwner

(* A run that was stopped or declared interrupted is not the current run,  *)
(* although its worker may still be alive and about to write: every write  *)
(* of the worker is guarded by the current run id.                         *)
RetiredRunsFenced ==
  \A r \in RunId : runs[r].status \in {"stopped", "interrupted"} => current # r

(* Run ids are used once: no row and no lock knows one not drawn yet.      *)
RunsDrawn ==
  /\ current <= lastRun
  /\ \A r \in RunId : r > lastRun => runs[r] = AbsentRow

StoreInv == StoreTypeOK /\ LeaseCoherent /\ RetiredRunsFenced /\ RunsDrawn
=============================================================================

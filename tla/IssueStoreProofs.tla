-------------------------- MODULE IssueStoreProofs --------------------------
(***************************************************************************)
(* Every transaction of IssueStore keeps StoreInv: the stored issue has    *)
(* its types, its lock columns agree, a retired run is not current and     *)
(* run ids are used once.                                                  *)
(***************************************************************************)
EXTENDS IssueStore, WellFoundedInduction, TLAPS

(* Each agent phase has a ready and a running phase.                       *)
LEMMA PhaseTables ==
  /\ \A a \in Agent : ReadyPhase[a] \in ReadyPhases /\ RunningPhase[a] \in RunningPhases
  /\ \A a \in AskingAgents : ResumePhase[a] \in ReadyPhases
  /\ ReadyPhases \subseteq Phase /\ RunningPhases \subseteq Phase /\ WaitingPhases \subseteq Phase
  BY DEF ReadyPhases, RunningPhases, Phase, ResumePhase, AskingAgents

(* The agent phase of a ready or running phase is one.                     *)
LEMMA AgentOfPhase ==
  /\ \A p \in ReadyPhases : AgentOfReady(p) \in Agent /\ ReadyPhase[AgentOfReady(p)] = p
  /\ \A p \in RunningPhases : AgentOfRunning(p) \in Agent /\ RunningPhase[AgentOfRunning(p)] = p
  BY DEF ReadyPhases, RunningPhases, AgentOfReady, AgentOfRunning

(* The phases by name.                                                     *)
LEMMA PhaseNames ==
  /\ ReadyPhases = {"needs_research", "ready_for_plan", "ready_for_implementation",
                    "ready_for_validation", "ready_for_review", "ready_for_merge",
                    "ready_for_merge_conflict_resolution"}
  /\ RunningPhases = {"researching", "planning", "implementing", "validating", "reviewing",
                      "merging", "resolving_merge_conflicts"}
  BY DEF ReadyPhases, RunningPhases, ReadyPhase, RunningPhase, Agent

(* An accepted transition leads from a phase to a phase.                   *)
LEMMA EdgeTarget == ASSUME NEW p, NEW q, Edge(p, q) PROVE p \in Phase /\ q \in Phase
  BY PhaseNames DEF Edge, ValidTransitions, Phase, WaitingPhases, ReadyPhases, AskingAgents

(* A non-empty set of run ids has a largest element.                       *)
LEMMA LatestRun ==
  ASSUME NEW T \in SUBSET RunId, T # {}
  PROVE  \E r \in T : \A s \in T : s <= r
<1> DEFINE D == {MaxRuns - r : r \in T}
<1>1. \A r \in T : r \in 1..MaxRuns
  BY DEF RunId
<1>2. D \subseteq Nat
  BY <1>1, MaxRunsAssumption
<1>3. PICK t \in T : TRUE
  OBVIOUS
<1>4. MaxRuns - t \in D
  OBVIOUS
<1>5. \E x \in D : \A y \in D : ~ (<<y, x>> \in OpToRel(<, Nat))
  BY <1>2, <1>4, NatLessThanWellFounded, WFMin, Zenon
<1>6. PICK x \in D : \A y \in D : ~ (y < x)
  BY <1>2, <1>5 DEF OpToRel
<1>7. PICK r \in T : x = MaxRuns - r
  BY <1>6
<1>8. ASSUME NEW s \in T PROVE s <= r
  <2>1. MaxRuns - s \in D
    OBVIOUS
  <2>2. ~ (MaxRuns - s < MaxRuns - r)
    BY <1>6, <1>7, <2>1
  <2> QED BY <1>1, <2>2, MaxRunsAssumption
<1> QED BY <1>8
-----------------------------------------------------------------------------
(* What the operators of recovery return.                                  *)

(* Recovery finds a run or none.                                           *)
LEMMA RunForRecoveryType ==
  ASSUME StoreTypeOK, NEW a PROVE RunForRecovery(a) \in RunId \cup {NoRun}
<1> DEFINE open == {r \in RunId : runs[r].agent = a /\ runs[r].status = "running"}
<1>1. open # {} => (CHOOSE r \in open : \A s \in open : s <= r) \in RunId
  <2>1. ASSUME open # {} PROVE \E r \in open : \A s \in open : s <= r
    BY <2>1, LatestRun
  <2> QED BY <2>1
<1> QED BY <1>1 DEF RunForRecovery, StoreTypeOK

(* An interrupted run leads to a phase.                                    *)
LEMMA TerminalTargetType ==
  ASSUME NEW r PROVE TerminalTarget(r) \in Phase
  BY EdgeTarget DEF TerminalTarget, Phase, WaitingPhases

(* What the end of a run changes of the runs.                              *)
LEMMA EndRunRow ==
  ASSUME StoreTypeOK, NEW r \in RunId, NEW status \in RunStatus, NEW next \in Phase
  PROVE  /\ EndRun(r, status, next) \in [RunId -> Row]
         /\ EndRun(r, status, next)[r].status = status
         /\ EndRun(r, status, next)[r].agent = runs[r].agent
         /\ EndRun(r, status, next)[r].next = next
         /\ \A s \in RunId : s # r => EndRun(r, status, next)[s] = runs[s]
  BY DEF EndRun, StoreTypeOK, Row

(* Recovery touches a run that is still running, no other.                 *)
LEMMA RunsRecoveredRow ==
  ASSUME StoreTypeOK, NEW r \in RunId \cup {NoRun},
         NEW status \in {"completed", "interrupted"}, NEW next \in Phase
  PROVE  /\ RunsRecovered(r, status, next) \in [RunId -> Row]
         /\ \A s \in RunId : runs[s].status # "running" =>
              RunsRecovered(r, status, next)[s] = runs[s]
  BY EndRunRow DEF RunsRecovered, StoreTypeOK, NoRun, RunStatus
-----------------------------------------------------------------------------
(* One lemma per transaction: it keeps StoreInv.                           *)

(* An expired lock still has its owner.                                    *)
LEMMA LeaseExpiresInv == ASSUME StoreInv, LeaseExpires PROVE StoreInv'
  BY NoOwnerAssumption
     DEF StoreInv, StoreTypeOK, LeaseCoherent, RetiredRunsFenced, RunsDrawn, LeaseExpires, Lease

(* The new run id has never been retired.                                  *)
LEMMA AcquireLockInv ==
  ASSUME StoreInv, NEW o \in Owner, NEW e, CanAcquire(e), AcquireLock(o) PROVE StoreInv'
  BY NoOwnerAssumption, MaxRunsAssumption
     DEF StoreInv, StoreTypeOK, LeaseCoherent, RetiredRunsFenced, RunsDrawn, AcquireLock,
         CanAcquire, Lease, RunId, NoRun, AbsentRow

(* Nor has the id of a monitor.                                            *)
LEMMA AcquireMonitorLockInv ==
  ASSUME StoreInv, NEW o \in Owner, AcquireMonitorLock(o) PROVE StoreInv'
<1>1. lastRun + 1 \in RunId /\ runs[lastRun + 1] = AbsentRow /\ lastRun \in Nat
  BY MaxRunsAssumption DEF StoreInv, StoreTypeOK, RunsDrawn, AcquireMonitorLock, RunId
<1>2. /\ runs' \in [RunId -> Row] /\ runs'[lastRun + 1].status = "absent"
      /\ \A r \in RunId : r # lastRun + 1 => runs'[r] = runs[r]
  BY <1>1 DEF StoreInv, StoreTypeOK, AcquireMonitorLock, MonitorRow, AbsentRow, Row, RunStatus
<1>3. current' = lastRun + 1 /\ lastRun' = lastRun + 1 /\ owner' = o /\ lease' = "live"
      /\ UNCHANGED <<phase, request, mover>>
  BY DEF AcquireMonitorLock
<1>4. StoreTypeOK' /\ LeaseCoherent'
  BY <1>1, <1>2, <1>3, NoOwnerAssumption, MaxRunsAssumption
     DEF StoreInv, StoreTypeOK, LeaseCoherent, Lease, RunId
<1>5. RetiredRunsFenced'
  BY <1>1, <1>2, <1>3, MaxRunsAssumption
     DEF StoreInv, StoreTypeOK, RetiredRunsFenced, RunsDrawn, RunId, AbsentRow
<1>6. RunsDrawn'
  BY <1>1, <1>2, <1>3, MaxRunsAssumption DEF StoreInv, StoreTypeOK, RunsDrawn, RunId
<1> QED BY <1>4, <1>5, <1>6 DEF StoreInv

(* Only a lock that has an owner is refreshed.                             *)
LEMMA RefreshLockInv ==
  ASSUME StoreInv, NEW o \in Owner, NEW r, Holds(o, r), RefreshLock PROVE StoreInv'
  BY NoOwnerAssumption
     DEF StoreInv, StoreTypeOK, LeaseCoherent, RetiredRunsFenced, RunsDrawn, RefreshLock,
         Holds, Lease

(* A release clears the three lock columns together.                       *)
LEMMA ReleaseLockInv == ASSUME StoreInv, ReleaseLock PROVE StoreInv'
  BY MaxRunsAssumption
     DEF StoreInv, StoreTypeOK, LeaseCoherent, RetiredRunsFenced, RunsDrawn, ReleaseLock,
         Unlock, Lease, RunId, NoRun

(* A transition of a run names a run that was drawn.                       *)
LEMMA RunTransitionInv ==
  ASSUME StoreInv, NEW r \in RunId, current = r, NEW next \in Phase, RunTransition(r, next)
  PROVE  StoreInv'
  BY DEF StoreInv, StoreTypeOK, LeaseCoherent, RetiredRunsFenced, RunsDrawn, RunTransition

(* A manual transition touches the phase alone.                            *)
LEMMA ManualTransitionInv ==
  ASSUME StoreInv, NEW next \in Phase, ManualTransition(next) PROVE StoreInv'
  BY DEF StoreInv, StoreTypeOK, LeaseCoherent, RetiredRunsFenced, RunsDrawn, ManualTransition

(* Only the current run gets a row.                                        *)
LEMMA CreateRunInv ==
  ASSUME StoreInv, NEW r \in RunId, current = r, NEW a \in Agent, CreateRun(r, a)
  PROVE  StoreInv'
  BY MaxRunsAssumption
     DEF StoreInv, StoreTypeOK, LeaseCoherent, RetiredRunsFenced, RunsDrawn, CreateRun,
         Row, RunStatus, RunId

(* A run ends while, or because, the issue stops being run by it.          *)
LEMMA RunEnds ==
  ASSUME StoreInv, NEW r \in RunId, NEW status \in RunStatus, NEW next \in Phase,
         runs[r] # AbsentRow, runs' = EndRun(r, status, next),
         lastRun' = lastRun, current' \in {current, NoRun},
         status \in {"stopped", "interrupted"} => current' # r
  PROVE  RetiredRunsFenced' /\ RunsDrawn' /\ runs' \in [RunId -> Row]
<1>1. r <= lastRun
  BY DEF StoreInv, RunsDrawn, RunId, StoreTypeOK
<1> QED
  BY <1>1, EndRunRow, MaxRunsAssumption
     DEF StoreInv, StoreTypeOK, RetiredRunsFenced, RunsDrawn, RunId, NoRun

(* A completed run may stay current.                                       *)
LEMMA CompleteRunInv ==
  ASSUME StoreInv, NEW r \in RunId, CanComplete(r), NEW next \in Phase, CompleteRun(r, next)
  PROVE  StoreInv'
<1>1. RetiredRunsFenced' /\ RunsDrawn' /\ runs' \in [RunId -> Row]
  BY RunEnds DEF CompleteRun, CanComplete, RunStatus, AbsentRow
<1> QED BY <1>1 DEF StoreInv, StoreTypeOK, LeaseCoherent, CompleteRun

(* A run that asks gives up the lock in the same transaction.              *)
LEMMA CompleteRunAndAskInv ==
  ASSUME StoreInv, NEW r \in RunId, CanAsk(r), NEW a \in AskingAgents, CompleteRunAndAsk(r, a)
  PROVE  StoreInv'
<1>1. RetiredRunsFenced' /\ RunsDrawn' /\ runs' \in [RunId -> Row]
  BY RunEnds, EdgeTarget
     DEF CompleteRunAndAsk, CanAsk, CanComplete, Unlock, RunStatus, AbsentRow
<1>2. "awaiting_human_input" \in Phase
  BY EdgeTarget DEF CanAsk
<1> QED
  BY <1>1, <1>2
     DEF StoreInv, StoreTypeOK, LeaseCoherent, CompleteRunAndAsk, Unlock, Lease, Request

(* An answer leads back to the ready phase of the agent that asked.        *)
LEMMA AnswerHumanInputInv ==
  ASSUME StoreInv, CanAnswer, AnswerHumanInput PROVE StoreInv'
<1>1. request \in Request
  BY DEF StoreInv, StoreTypeOK, CanAnswer
<1>2. request.by \in AskingAgents /\ request.run \in RunId
  BY <1>1 DEF Request
<1>3. ResumePhase[request.by] \in Phase
  BY <1>2, PhaseTables
<1> QED
  BY <1>2, <1>3, MaxRunsAssumption
     DEF StoreInv, StoreTypeOK, LeaseCoherent, RetiredRunsFenced, RunsDrawn, AnswerHumanInput,
         Unlock, Lease, NoRun, RunId

(* The stopped run is not current any more.                                *)
LEMMA ForceStopInv == ASSUME StoreInv, Stoppable, ForceStop PROVE StoreInv'
<1>1. RetiredRunsFenced' /\ RunsDrawn' /\ runs' \in [RunId -> Row]
  <2>1. CASE current = NoRun \/ runs[current].status = "absent"
    <3>1. runs' = runs /\ current' = NoRun /\ lastRun' = lastRun
      BY <2>1 DEF ForceStop, Unlock
    <3> QED BY <3>1, MaxRunsAssumption
         DEF StoreInv, StoreTypeOK, RetiredRunsFenced, RunsDrawn, RunId, NoRun
  <2>2. CASE ~(current = NoRun \/ runs[current].status = "absent")
    <3>1. current \in RunId /\ runs[current] # AbsentRow
      BY <2>2 DEF StoreInv, StoreTypeOK, AbsentRow
    <3>2. /\ runs' = EndRun(current, "stopped", "blocked")
          /\ current' = NoRun /\ lastRun' = lastRun
      BY <2>2 DEF ForceStop, Unlock
    <3>3. NoRun # current /\ "stopped" \in RunStatus /\ "blocked" \in Phase
      BY <2>2 DEF RunStatus, Phase, WaitingPhases
    <3> QED BY <3>1, <3>2, <3>3, RunEnds
  <2> QED BY <2>1, <2>2
<1>2. "blocked" \in Phase
  BY DEF Phase, WaitingPhases
<1> QED
  BY <1>1, <1>2 DEF StoreInv, StoreTypeOK, LeaseCoherent, ForceStop, Unlock, Lease

(* Every recovery clears the lock and ends at most a running run.          *)
LEMMA ApplyRecoveryInv ==
  ASSUME StoreInv, NEW r \in RunId \cup {NoRun}, NEW next \in Phase,
         NEW status \in {"completed", "interrupted"}, ApplyRecovery(next),
         runs' = RunsRecovered(r, status, next) \/ runs' = runs
  PROVE  StoreInv'
<1>1. lastRun' = lastRun /\ current' = NoRun /\ owner' = NoOwner /\ lease' = "none"
  BY DEF ApplyRecovery, Unlock
<1>2. RetiredRunsFenced' /\ RunsDrawn' /\ runs' \in [RunId -> Row]
  <2>1. CASE r # NoRun /\ runs[r].status = "running" /\ runs' = RunsRecovered(r, status, next)
    <3>1. r \in RunId /\ runs[r] # AbsentRow /\ NoRun # r /\ status \in RunStatus
      BY <2>1 DEF AbsentRow, RunStatus
    <3>2. runs' = EndRun(r, status, next)
      BY <2>1 DEF RunsRecovered
    <3> QED BY <1>1, <3>1, <3>2, RunEnds
  <2>2. CASE runs' = runs
    BY <1>1, <2>2, MaxRunsAssumption
       DEF StoreInv, StoreTypeOK, RetiredRunsFenced, RunsDrawn, RunId, NoRun
  <2> QED BY <2>1, <2>2 DEF RunsRecovered
<1> QED
  BY <1>1, <1>2 DEF StoreInv, StoreTypeOK, LeaseCoherent, ApplyRecovery, Lease

(* The recoveries that need no look at Git.                                *)
LEMMA RecoverRowInv == ASSUME StoreInv, RecoverRow PROVE StoreInv'
<1> USE DEF StoreInv
<1>1. CASE RecoverRunning
  <2> DEFINE a == AgentOfRunning(phase)
             r == RunForRecovery(a)
             target == IF r # NoRun /\ runs[r].status # "running" THEN TerminalTarget(r)
                       ELSE ReadyPhase[a]
  <2>1. a \in Agent /\ r \in RunId \cup {NoRun}
    BY <1>1, AgentOfPhase, RunForRecoveryType DEF RecoverRunning
  <2>2. target \in Phase
    BY <2>1, TerminalTargetType, PhaseTables
  <2>3. ApplyRecovery(target) /\ runs' = RunsRecovered(r, "interrupted", target)
    BY <1>1 DEF RecoverRunning
  <2> HIDE DEF a, r, target
  <2> QED BY <2>1, <2>2, <2>3, ApplyRecoveryInv
<1>2. CASE RecoverReady
  <2>1. phase \in Phase /\ RunForRecovery(AgentOfReady(phase)) \in RunId \cup {NoRun}
    BY <1>2, PhaseTables, RunForRecoveryType DEF RecoverReady, StaleReady
  <2> QED BY <1>2, <2>1, ApplyRecoveryInv DEF RecoverReady
<1>3. CASE RecoverWaiting
  <2>1. phase \in Phase
    BY <1>3, PhaseTables DEF RecoverWaiting, StaleWaiting
  <2> QED BY <1>3, <2>1, ApplyRecoveryInv DEF RecoverWaiting
<1>4. CASE RecoverMonitored
  <2>1. phase \in Phase
    BY <1>4 DEF RecoverMonitored, StaleMonitored, Phase, WaitingPhases
  <2>2. ApplyRecovery(phase) /\ runs' = runs
    BY <1>4 DEF RecoverMonitored
  <2> QED BY <2>1, <2>2, ApplyRecoveryInv
<1> QED BY <1>1, <1>2, <1>3, <1>4 DEF RecoverRow

(* A claim takes the lock over.                                            *)
LEMMA ClaimLockInv == ASSUME StoreInv, NEW o \in Owner, ClaimLock(o) PROVE StoreInv'
  BY NoOwnerAssumption
     DEF StoreInv, StoreTypeOK, LeaseCoherent, RetiredRunsFenced, RunsDrawn, ClaimLock, Lease

(* The recovery of a claimed merge or review.                              *)
LEMMA RecoverClaimedInv ==
  ASSUME StoreInv, NEW a \in Agent, NEW next \in Phase,
         NEW status \in {"completed", "interrupted"}, RecoverClaimed(a, next, status)
  PROVE  StoreInv'
<1>1. RunForRecovery(a) \in RunId \cup {NoRun}
  BY RunForRecoveryType DEF StoreInv
<1> QED BY <1>1, ApplyRecoveryInv DEF RecoverClaimed

(* A reservation has an owner and no run.                                  *)
LEMMA ReserveInv == ASSUME StoreInv, NEW o \in Owner, Reserve(o) PROVE StoreInv'
  BY NoOwnerAssumption, MaxRunsAssumption
     DEF StoreInv, StoreTypeOK, LeaseCoherent, RetiredRunsFenced, RunsDrawn, Reserve, Lease,
         RunId, NoRun

(* A reset forgets the runs, and nothing is current.                       *)
LEMMA ClearHistoryInv ==
  ASSUME StoreInv, NEW next \in Phase \cup {Deleted}, ClearHistory(next) PROVE StoreInv'
  BY MaxRunsAssumption
     DEF StoreInv, StoreTypeOK, LeaseCoherent, RetiredRunsFenced, RunsDrawn, ClearHistory,
         Unlock, Lease, RunId, NoRun, Row, AbsentRow, RunStatus

(* A new issue is sound.                                                   *)
LEMMA StoreInitInv == ASSUME StoreInit PROVE StoreInv
  BY StartPhasesAssumption, NoOwnerAssumption, MaxRunsAssumption
     DEF StoreInit, StoreInv, StoreTypeOK, LeaseCoherent, RetiredRunsFenced, RunsDrawn, Lease,
         RunId, NoRun, Row, AbsentRow, RunStatus, Phase
=============================================================================

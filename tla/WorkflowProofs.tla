--------------------------- MODULE WorkflowProofs ---------------------------
(***************************************************************************)
(* Orchestrator implements IssueWorkflow, for any number of orchestrators, *)
(* hosts, monitors, resets, deletes and runs, without managers or with one *)
(* who keeps to the gates.  A manager's write is guarded by nothing, and   *)
(* with two of them, or with one under a live run, the refinement fails    *)
(* (the findings show how); everybody else's is kept in order by FlowInv:  *)
(* the current run knows the phase of the issue.                           *)
(***************************************************************************)
EXTENDS OrchestratorProofs

(* No two orchestrators execute the same run.                              *)
RunsDiffer ==
  \A p, q \in Proc : pc[p] \in Pipeline /\ pc[q] \in Pipeline /\ myRun[p] = myRun[q] => p = q

BeforeRun == {"acquired", "starting"}
DuringRun == {"started", "running", "returned", "recording", "settled", "completed"}

(* What the orchestrator of the current run takes for granted when it      *)
(* writes: the phase has not changed since it last looked.                 *)
InPlace(p) ==
  /\ pc[p] \in BeforeRun => phase = ReadyPhase[agent[p]]
  /\ pc[p] \in DuringRun => phase = RunningPhase[agent[p]]
  /\ pc[p] \in Monitoring => phase = "awaiting_pr_closure"
  /\ pc[p] = "moving" => /\ phase \in RunningPhases \cup {"awaiting_pr_closure"}
                         /\ Edge(phase, outcome[p])
                         /\ outcome[p] # "awaiting_human_input"
  /\ runs[myRun[p]].status = "running" => runs[myRun[p]].agent = agent[p]

PhasesFit == \A p \in Proc : pc[p] \in Pipeline /\ current = myRun[p] => InPlace(p)

FindingsFit ==
  \A p \in Proc : pc[p] = "reporting" /\ agent[p] = "merge" => outcome[p] \in MergeFindings

(* A row that is gone has no lock.                                         *)
DeletedIsFree == phase = Deleted => owner = NoOwner

FlowInv == RunsDiffer /\ PhasesFit /\ FindingsFit /\ DeletedIsFree

(* Where a person is asked: nobody works on the issue, or is about to.     *)
Gate == {"draft", "awaiting_plan_approval", "awaiting_merge_approval", "blocked"}

(* What is asked of managers below: there is one of them, who moves the    *)
(* issue at the gates, and then nobody resets it beside them.              *)
KeepToGates ==
  Manager # {} =>
    /\ \A m, n \in Manager : m = n
    /\ ManualMoves \subseteq Gate \X Phase
    /\ ResetOp = {}

(* What such a manager has validated is still a move when it is written,   *)
(* or no change, unless there is no row any more.                          *)
IntentFits ==
  \A m \in Manager : intent[m] # "none" =>
    \/ phase = Deleted
    \/ /\ phase \in Gate /\ intent[m] # "awaiting_human_input"
       /\ Edge(phase, intent[m]) \/ intent[m] = phase

(* The places by name.                                                     *)
LEMMA Places ==
  /\ BeforeRun \subseteq Pipeline /\ DuringRun \subseteq Pipeline /\ Monitoring \subseteq Pipeline
  /\ {"moving", "releasing"} \subseteq Pipeline
  /\ BeforeRun \cap DuringRun = {} /\ BeforeRun \cap Monitoring = {} /\ DuringRun \cap Monitoring = {}
  /\ {"moving", "releasing"} \cap (BeforeRun \cup DuringRun \cup Monitoring) = {}
  /\ (Goal \cup {"recovering", "reporting", "rescan", "dead"}) \cap Pipeline = {}
  /\ "reporting" \notin Goal
  BY DEF BeforeRun, DuringRun, Monitoring, Pipeline, Goal

(* Three phases nobody works in, and the row that is gone.                 *)
LEMMA IdlePhases ==
  /\ {"awaiting_human_input", "draft", Deleted} \cap (ReadyPhases \cup RunningPhases) = {}
  /\ Deleted \notin Phase /\ "awaiting_pr_closure" \in WaitingPhases
  BY PhaseNames DEF Phase, WaitingPhases, Deleted
-----------------------------------------------------------------------------
(* FlowInv is inductive.                                                   *)

(* A step of one orchestrator.                                             *)
LEMMA FlowStep ==
  ASSUME Inv, FlowInv, NEW p \in Proc,
         \A q \in Proc : q # p => /\ pc'[q] = pc[q] /\ myRun'[q] = myRun[q]
                                  /\ agent'[q] = agent[q] /\ outcome'[q] = outcome[q],
         pc'[p] \in Pipeline => pc[p] \in Pipeline /\ myRun'[p] = myRun[p],
         pc'[p] \in Pipeline /\ current' = myRun'[p] => InPlace(p)',
         pc'[p] = "reporting" /\ agent'[p] = "merge" => outcome'[p] \in MergeFindings,
         \/ current' = NoRun
         \/ current' = current /\ UNCHANGED <<phase, runs>>
         \/ current' = current /\ current = myRun[p] /\ pc[p] \in Pipeline,
         phase' = Deleted => owner' = NoOwner
  PROVE  FlowInv'
<1>1. RunsDiffer'
  BY DEF FlowInv, RunsDiffer
<1>2. PhasesFit'
  <2> SUFFICES ASSUME NEW q \in Proc, pc'[q] \in Pipeline, current' = myRun'[q]
               PROVE  InPlace(q)'
    BY DEF PhasesFit
  <2>1. CASE q = p
    BY <2>1
  <2>2. CASE q # p
    <3>1. pc[q] \in Pipeline /\ myRun'[q] = myRun[q] /\ myRun[q] # NoRun
      BY <2>2, Types, MaxRunsAssumption DEF RunId, NoRun
    <3>2. current' = current /\ UNCHANGED <<phase, runs>>
      BY <2>2, <3>1 DEF FlowInv, RunsDiffer
    <3> QED BY <2>2, <3>1, <3>2 DEF FlowInv, PhasesFit, InPlace
  <2> QED BY <2>1, <2>2
<1>3. FindingsFit'
  BY DEF FlowInv, FindingsFit
<1>4. DeletedIsFree'
  BY DEF DeletedIsFree
<1> QED BY <1>1, <1>2, <1>3, <1>4 DEF FlowInv

(* A step of nobody's run.                                                 *)
LEMMA FlowOthers ==
  ASSUME Inv, FlowInv, UNCHANGED <<pc, myRun, agent, outcome>>,
         current' = NoRun \/ (current' = current /\ UNCHANGED <<phase, runs>>),
         phase' = Deleted => owner' = NoOwner
  PROVE  FlowInv'
<1>1. RunsDiffer' /\ FindingsFit' /\ DeletedIsFree'
  BY DEF FlowInv, RunsDiffer, FindingsFit, DeletedIsFree
<1>2. \A p \in Proc : pc[p] \in Pipeline => myRun[p] # NoRun
  BY Types, MaxRunsAssumption DEF RunId, NoRun
<1>3. PhasesFit'
  BY <1>2 DEF FlowInv, PhasesFit, InPlace
<1> QED BY <1>1, <1>3 DEF FlowInv

(* A step that leaves the row as it is, but for its lease.                 *)
Rests == UNCHANGED <<phase, owner, current, runs, request, mover, lastRun>>

(* From one place to the next, with the row as it is.                      *)
LEMMA FlowProceeds ==
  ASSUME Inv, FlowInv, Rests, NEW p \in Proc, NEW w, w # "reporting",
         \A q \in Proc : /\ pc'[q] = IF q = p THEN w ELSE pc[q]
                         /\ myRun'[q] = myRun[q] /\ agent'[q] = agent[q]
                         /\ q # p => outcome'[q] = outcome[q],
         w \in Pipeline => pc[p] \in Pipeline,
         w \in BeforeRun => pc[p] \in BeforeRun,
         w \in DuringRun => pc[p] \in DuringRun,
         w \in Monitoring => pc[p] \in Monitoring,
         w = "moving" => /\ pc[p] \in DuringRun \cup Monitoring
                         /\ Edge(phase, outcome'[p]) /\ outcome'[p] # "awaiting_human_input"
  PROVE  FlowInv'
<1>1. ASSUME pc'[p] \in Pipeline, current' = myRun'[p] PROVE InPlace(p)'
  <2>1. InPlace(p)
    BY <1>1 DEF Rests, FlowInv, PhasesFit
  <2>2. RunningPhase[agent[p]] \in RunningPhases
    BY Types, PhaseTables
  <2> QED BY <2>1, <2>2 DEF InPlace, Rests
<1> QED BY <1>1, FlowStep DEF Rests, FlowInv, DeletedIsFree

(* The end of a call, which forgets its local variables.                   *)
LEMMA FlowReturns ==
  ASSUME Inv, FlowInv, NEW p \in Proc, NEW w \in PC, w \notin Pipeline \cup {"reporting"},
         Return(p, w),
         current' = NoRun \/ (current' = current /\ UNCHANGED <<phase, runs>>),
         phase' = Deleted => owner' = NoOwner
  PROVE  FlowInv'
<1>1. /\ pc'[p] = w
      /\ \A q \in Proc : q # p => /\ pc'[q] = pc[q] /\ myRun'[q] = myRun[q]
                                  /\ agent'[q] = agent[q] /\ outcome'[q] = outcome[q]
  BY DEF Return, Goto, Inv, LocalInv, LocalTypeOK
<1> QED BY <1>1, FlowStep

(* Leaving a run for its finally clause.                                   *)
LEMMA FlowLeaves ==
  ASSUME Inv, FlowInv, NEW p \in Proc, pc[p] \in Pipeline, Leave(p) PROVE FlowInv'
<1>1. Rests
  BY DEF Leave, storeVars, Rests
<1>2. \A q \in Proc : /\ pc'[q] = IF q = p THEN "releasing" ELSE pc[q]
                      /\ myRun'[q] = myRun[q] /\ agent'[q] = agent[q] /\ outcome'[q] = outcome[q]
  BY DEF Leave, Proceed, Goto, Inv, LocalInv, LocalTypeOK
<1> QED BY <1>1, <1>2, FlowProceeds, Places

(* A fresh run finds the issue in the phase its agent is there for; a      *)
(* fresh claim of a monitor finds it waiting for its pull request.         *)
LEMMA FlowAcquires ==
  ASSUME Inv, FlowInv, NEW p \in Proc, Acquire(p) \/ ClaimMonitor(p) PROVE FlowInv'
<1>1. /\ lastRun + 1 \in RunId /\ current' = lastRun + 1 /\ lastRun \in Nat
      /\ myRun'[p] = lastRun + 1 /\ phase' = phase /\ phase # Deleted
      /\ runs[lastRun + 1] = AbsentRow /\ runs'[lastRun + 1].status # "running"
  <2>1. lastRun + 1 \in RunId /\ lastRun \in Nat /\ runs[lastRun + 1] = AbsentRow
    BY MaxRunsAssumption DEF Acquire, AcquireLock, ClaimMonitor, AcquireMonitorLock, Inv,
       StoreInv, StoreTypeOK, RunsDrawn, RunId
  <2>2. runs'[lastRun + 1].status # "running"
    BY <2>1 DEF Acquire, AcquireLock, ClaimMonitor, AcquireMonitorLock, Inv,
       StoreInv, StoreTypeOK, AbsentRow, MonitorRow
  <2>3. phase # Deleted
    BY IdlePhases DEF Acquire, ClaimMonitor, CanAcquire, Deleted
  <2> QED BY <2>1, <2>2, <2>3
          DEF Acquire, AcquireLock, ClaimMonitor, AcquireMonitorLock, Inv, LocalInv, LocalTypeOK
<1>2. /\ pc'[p] \in Pipeline /\ outcome' = outcome
      /\ \/ pc'[p] = "acquired" /\ phase \in ReadyPhases /\ agent'[p] = AgentOfReady(phase)
         \/ pc'[p] = "looking" /\ phase = "awaiting_pr_closure"
      /\ \A q \in Proc : q # p => pc'[q] = pc[q] /\ myRun'[q] = myRun[q] /\ agent'[q] = agent[q]
  BY PipelinePlaces
     DEF Acquire, ClaimMonitor, CanAcquire, Goto, Inv, LocalInv, LocalTypeOK, Pipeline, Monitoring
<1>3. \A q \in Proc : q # p /\ pc[q] \in Pipeline => myRun[q] < lastRun + 1
  BY <1>1, MaxRunsAssumption DEF Inv, LocalInv, RunsAreTheirs, RunId
<1>4. RunsDiffer'
  BY <1>1, <1>2, <1>3 DEF FlowInv, RunsDiffer
<1>5. PhasesFit'
  <2>1. InPlace(p)'
    <3>1. CASE pc'[p] = "acquired" /\ phase \in ReadyPhases /\ agent'[p] = AgentOfReady(phase)
      BY <1>1, <3>1, AgentOfPhase DEF InPlace, BeforeRun, DuringRun, Monitoring
    <3>2. CASE pc'[p] = "looking" /\ phase = "awaiting_pr_closure"
      BY <1>1, <3>2 DEF InPlace, BeforeRun, DuringRun, Monitoring
    <3> QED BY <1>2, <3>1, <3>2
  <2> QED BY <1>1, <1>2, <1>3, <2>1 DEF PhasesFit
<1>6. FindingsFit' /\ DeletedIsFree'
  BY <1>1, <1>2, Places DEF FlowInv, FindingsFit, DeletedIsFree
<1> QED BY <1>4, <1>5, <1>6 DEF FlowInv

(* The moves of the row that its own run makes.                            *)
LEMMA FlowWrites ==
  ASSUME Inv, FlowInv, NEW p \in Proc,
         WriteRunning(p) \/ StartRun(p) \/ Complete(p) \/ WriteOutcome(p) \/ CompleteAndAsk(p)
  PROVE  FlowInv'
<1>1. pc[p] \in Pipeline /\ myRun[p] \in RunId
  BY Types, PipelinePlaces DEF WriteRunning, StartRun, Complete, WriteOutcome, CompleteAndAsk
<1>2. CASE Leave(p)
  BY <1>1, <1>2, FlowLeaves
<1>3. CASE ~Leave(p)
  <2>1. current = myRun[p] /\ InPlace(p)
    BY <1>1, <1>3 DEF WriteRunning, StartRun, Complete, WriteOutcome, CompleteAndAsk, CanComplete,
                      CanAsk, FlowInv, PhasesFit
  <2>2. \A q \in Proc : /\ q # p => pc'[q] = pc[q]
                        /\ myRun'[q] = myRun[q] /\ agent'[q] = agent[q] /\ outcome'[q] = outcome[q]
    BY <1>3 DEF WriteRunning, StartRun, Complete, WriteOutcome, CompleteAndAsk, Proceed, Goto, Inv,
                LocalInv, LocalTypeOK
  <2>3. RunningPhase[agent[p]] \in RunningPhases /\ outcome[p] \in Phase
    BY Types, PhaseTables
  <2>4. CASE WriteRunning(p)
    <3>1. /\ phase' = RunningPhase[agent[p]] /\ pc'[p] = "started"
          /\ current' = current /\ UNCHANGED runs
      BY <1>3, <2>4 DEF WriteRunning, RunTransition, Proceed, Goto, Inv, LocalInv, LocalTypeOK
    <3>2. InPlace(p)' /\ phase' # Deleted
      BY <2>1, <2>2, <2>3, <3>1, IdlePhases DEF InPlace, BeforeRun, DuringRun, Monitoring
    <3> QED BY <1>1, <2>1, <2>2, <3>1, <3>2, FlowStep
  <2>5. CASE StartRun(p)
    <3>1. /\ phase' = phase /\ pc[p] = "started" /\ pc'[p] = "running" /\ current' = current
          /\ runs'[myRun[p]].agent = agent[p]
      BY <1>1, <1>3, <2>5
         DEF StartRun, CreateRun, Goto, Inv, LocalInv, LocalTypeOK, StoreInv, StoreTypeOK
    <3>2. InPlace(p)' /\ phase' # Deleted
      BY <2>1, <2>2, <2>3, <3>1, IdlePhases DEF InPlace, BeforeRun, DuringRun, Monitoring
    <3> QED BY <1>1, <2>1, <2>2, <3>1, <3>2, FlowStep
  <2>6. CASE Complete(p)
    <3>1. /\ phase' = phase /\ pc[p] = "settled" /\ pc'[p] = "completed" /\ current' = current
          /\ runs'[myRun[p]].status = "completed"
      BY <1>1, <1>3, <2>6
         DEF Complete, CompleteRun, EndRun, Proceed, Goto, Inv, LocalInv, LocalTypeOK, StoreInv,
             StoreTypeOK, Row
    <3>2. InPlace(p)' /\ phase' # Deleted
      BY <2>1, <2>2, <2>3, <3>1, IdlePhases DEF InPlace, BeforeRun, DuringRun, Monitoring
    <3> QED BY <1>1, <2>1, <2>2, <3>1, <3>2, FlowStep
  <2>7. CASE WriteOutcome(p)
    <3>1. /\ phase' = outcome[p] /\ pc'[p] = "releasing" /\ current' = current /\ UNCHANGED runs
      BY <1>3, <2>7 DEF WriteOutcome, RunTransition, Proceed, Goto, Inv, LocalInv, LocalTypeOK
    <3>2. InPlace(p)' /\ phase' # Deleted
      BY <2>1, <2>2, <2>3, <3>1, IdlePhases, Places DEF InPlace
    <3> QED BY <1>1, <2>1, <2>2, <3>1, <3>2, FlowStep
  <2>8. CASE CompleteAndAsk(p)
    <3>1. /\ phase' = "awaiting_human_input" /\ pc'[p] = "releasing" /\ current' = NoRun
      BY <1>3, <2>8
         DEF CompleteAndAsk, CompleteRunAndAsk, Unlock, Proceed, Goto, Inv, LocalInv, LocalTypeOK
    <3>2. myRun[p] # NoRun
      BY <1>1, MaxRunsAssumption DEF RunId, NoRun
    <3> QED BY <1>1, <2>1, <2>2, <3>1, <3>2, FlowStep DEF Deleted
  <2> QED BY <2>4, <2>5, <2>6, <2>7, <2>8
<1> QED BY <1>2, <1>3

(* What an orchestrator does of its run without writing the row, save for  *)
(* its lease.                                                              *)
LEMMA FlowReads ==
  ASSUME Inv, FlowInv, NEW p \in Proc,
         \/ ReadReady(p) \/ AgentReturns(p) \/ AgentCancelled(p) \/ RefreshAfterRun(p)
         \/ RecordOutcome(p) \/ ReadRunning(p) \/ Raise(p)
  PROVE  FlowInv'
<1>1. pc[p] \in BeforeRun \cup DuringRun
  BY DEF ReadReady, AgentReturns, AgentCancelled, RefreshAfterRun, RecordOutcome, ReadRunning,
         Raise, BeforeRun, DuringRun
<1>2. CASE Leave(p)
  BY <1>1, <1>2, FlowLeaves, Places
<1>3. CASE ~Leave(p)
  <2>1. Rests
    BY <1>3 DEF ReadReady, AgentReturns, AgentCancelled, RefreshAfterRun, RecordOutcome,
                ReadRunning, Raise, RefreshLock, storeVars, Rests
  <2>2. PICK w : /\ \A q \in Proc : /\ pc'[q] = IF q = p THEN w ELSE pc[q]
                                    /\ myRun'[q] = myRun[q] /\ agent'[q] = agent[q]
                                    /\ q # p => outcome'[q] = outcome[q]
                 /\ \/ w = "starting" /\ pc[p] = "acquired"
                    \/ w \in {"returned", "recording", "settled"} /\ pc[p] \in DuringRun
                    \/ /\ w = "moving" /\ pc[p] = "completed"
                       /\ TransitionAllowed(outcome[p]) /\ outcome' = outcome
    BY <1>3 DEF ReadReady, AgentReturns, AgentCancelled, RefreshAfterRun, RecordOutcome,
                ReadRunning, Raise, Proceed, Goto, DuringRun, Inv, LocalInv, LocalTypeOK
  <2>3. w = "moving" => /\ pc[p] \in DuringRun /\ Edge(phase, outcome'[p])
                        /\ outcome'[p] # "awaiting_human_input"
    BY <2>2 DEF TransitionAllowed, DuringRun
  <2> QED BY <1>1, <2>1, <2>2, <2>3, FlowProceeds, Places DEF BeforeRun, DuringRun, Monitoring
<1> QED BY <1>2, <1>3

(* What a monitor does before it writes its verdict.                       *)
LEMMA FlowMonitors ==
  ASSUME Inv, FlowInv, NEW p \in Proc, Monitor(p) \/ MonitorRaises(p) PROVE FlowInv'
<1>1. pc[p] \in Monitoring
  BY DEF Monitor, MonitorRaises, AskProvider, RecordSighting, PrepareConflicts, RecordVerdict,
         ReadWaiting, Monitoring
<1>2. CASE Leave(p)
  BY <1>1, <1>2, FlowLeaves, Places
<1>3. CASE ~Leave(p)
  <2>1. Rests
    BY <1>3 DEF Monitor, MonitorRaises, AskProvider, RecordSighting, PrepareConflicts,
                RecordVerdict, ReadWaiting, Reclaim, FallBack, RefreshLock, storeVars, Rests
  <2>2. PICK w : /\ \A q \in Proc : /\ pc'[q] = IF q = p THEN w ELSE pc[q]
                                    /\ myRun'[q] = myRun[q] /\ agent'[q] = agent[q]
                                    /\ q # p => outcome'[q] = outcome[q]
                 /\ \/ w \in Monitoring \cup {"releasing"}
                    \/ w = "moving" /\ TransitionAllowed(outcome[p]) /\ outcome' = outcome
    <3>1. CASE FallBack(p)
      BY <1>3, <3>1 DEF FallBack, Goto, Monitoring, Inv, LocalInv, LocalTypeOK
    <3>2. CASE ~FallBack(p)
      BY <1>3, <3>2
         DEF Monitor, MonitorRaises, AskProvider, RecordSighting, PrepareConflicts, RecordVerdict,
             ReadWaiting, Reclaim, Proceed, Goto, Monitoring, Inv, LocalInv, LocalTypeOK
    <3> QED BY <3>1, <3>2
  <2>3. w = "moving" => Edge(phase, outcome'[p]) /\ outcome'[p] # "awaiting_human_input"
    BY <1>1, <2>2, Places DEF TransitionAllowed
  <2> QED BY <1>1, <2>1, <2>2, <2>3, FlowProceeds, Places
<1> QED BY <1>2, <1>3

(* Threads beside the run, and what conflicts do to it.                    *)
LEMMA FlowBeside ==
  ASSUME Inv, FlowInv, NEW p \in Proc,
         Heartbeat(p) \/ SourceConflicts(p) \/ CommitsConflicts(p)
  PROVE  FlowInv'
<1>1. Rests
  BY DEF Heartbeat, SourceConflicts, CommitsConflicts, RefreshLock, storeVars, Rests
<1>2. CASE SourceConflicts(p)
  <2>1. /\ pc[p] \in {"running", "recording"}
        /\ \A q \in Proc : /\ pc'[q] = IF q = p THEN pc[p] ELSE pc[q]
                           /\ myRun'[q] = myRun[q] /\ agent'[q] = agent[q]
                           /\ q # p => outcome'[q] = outcome[q]
    BY <1>2 DEF SourceConflicts, Inv, LocalInv, LocalTypeOK
  <2> QED BY <1>1, <2>1, FlowProceeds
<1>3. CASE ~SourceConflicts(p)
  <2>1. UNCHANGED <<pc, myRun, agent, outcome>>
    BY <1>3 DEF Heartbeat, CommitsConflicts, procVars
  <2> QED BY <1>1, <2>1, FlowOthers DEF Rests, FlowInv, DeletedIsFree
<1> QED BY <1>2, <1>3

(* The ends of calls.                                                      *)
LEMMA FlowEnds ==
  ASSUME Inv, FlowInv, NEW p \in Proc,
         GiveUp(p) \/ Release(p) \/ Stop(p) \/ Crash(p) \/ RecoveryFails(p)
  PROVE  FlowInv'
<1>1. PICK w \in {"idle", "dead"} : Return(p, w)
  BY DEF GiveUp, Release, Stop, Crash, RecoveryFails
<1>2. w \in PC /\ w \notin Pipeline \cup {"reporting"}
  BY Places, PlacesType DEF Goal
<1>3. \/ current' = NoRun /\ owner' = NoOwner
      \/ current' = current /\ owner' = owner /\ UNCHANGED <<phase, runs>>
  <2>1. ReleaseLock \/ ForceStop \/ UNCHANGED storeVars
    BY DEF GiveUp, Release, Stop, Crash, RecoveryFails
  <2> QED BY <2>1 DEF ReleaseLock, ForceStop, Unlock, storeVars
<1>4. phase' = Deleted => owner' = NoOwner
  BY <1>3 DEF FlowInv, DeletedIsFree
<1> QED BY <1>1, <1>2, <1>3, <1>4, FlowReturns

(* A recovery ends with the lock cleared, or has touched nothing.          *)
LEMMA FlowRecovers ==
  ASSUME Inv, FlowInv, NEW p \in Proc,
         (\E then \in Goal : Recovery(p, then)) \/ LookAtGit(p)
  PROVE  FlowInv'
<1>1. ASSUME NEW then \in Goal, RecoverIssue(p, then) PROVE FlowInv'
  <2>1. Return(p, then) /\ then \in PC /\ then \notin Pipeline \cup {"reporting"}
    BY <1>1, Places, PlacesType DEF RecoverIssue
  <2>2. CASE RecoverRow
    BY <2>1, <2>2, FlowReturns
       DEF RecoverRow, RecoverRunning, RecoverReady, RecoverWaiting, RecoverMonitored,
           ApplyRecovery, Unlock
  <2>3. CASE UNCHANGED storeVars
    BY <2>1, <2>3, FlowReturns DEF storeVars, FlowInv, DeletedIsFree
  <2> QED BY <1>1, <2>2, <2>3 DEF RecoverIssue
<1>2. ASSUME NEW then \in Goal, ClaimRecovery(p, then) PROVE FlowInv'
  <2>1. /\ pc'[p] = "recovering" /\ phase' = phase /\ current' = current /\ runs' = runs
        /\ \A q \in Proc : q # p => /\ pc'[q] = pc[q] /\ myRun'[q] = myRun[q]
                                    /\ agent'[q] = agent[q] /\ outcome'[q] = outcome[q]
    BY <1>2 DEF ClaimRecovery, ClaimLock, Goto, Inv, LocalInv, LocalTypeOK
  <2>2. phase # Deleted
    BY <1>2 DEF ClaimRecovery, MustClaim, Deleted
  <2> QED BY <2>1, <2>2, FlowStep, Places
<1>3. ASSUME NoResult(p) PROVE FlowInv'
  <2>1. UNCHANGED storeVars /\ goal[p] \in Goal
    BY <1>3, Types DEF NoResult
  <2>2. CASE Return(p, goal[p])
    BY <2>1, <2>2, FlowReturns, Places, PlacesType DEF storeVars, FlowInv, DeletedIsFree
  <2>3. CASE Proceed(p, "rescan")
    <3>1. \A q \in Proc : /\ pc'[q] = IF q = p THEN "rescan" ELSE pc[q]
                          /\ myRun'[q] = myRun[q] /\ agent'[q] = agent[q]
                          /\ outcome'[q] = outcome[q]
      BY <2>3 DEF Proceed, Goto, Inv, LocalInv, LocalTypeOK
    <3> QED BY <2>1, <3>1, FlowProceeds, Places DEF storeVars, Rests
  <2> QED BY <1>3, <2>2, <2>3 DEF NoResult
<1>4. CASE ReportFinding(p)
  <2>1. PICK next \in Findings(p) : outcome' = [outcome EXCEPT ![p] = next]
    BY <1>4 DEF ReportFinding
  <2>2. /\ pc'[p] = "reporting" /\ agent' = agent /\ outcome'[p] = next
        /\ UNCHANGED <<phase, current, runs, owner>>
        /\ \A q \in Proc : q # p => /\ pc'[q] = pc[q] /\ myRun'[q] = myRun[q]
                                    /\ outcome'[q] = outcome[q]
    BY <1>4, <2>1 DEF ReportFinding, RefreshLock, Goto, Inv, LocalInv, LocalTypeOK
  <2>3. agent[p] = "merge" => next \in MergeFindings
    BY <2>1 DEF Findings, MergeFindings
  <2> QED BY <2>2, <2>3, FlowStep, Places DEF FlowInv, DeletedIsFree
<1>5. CASE ConflictsGone(p)
  <2>1. /\ current' = NoRun /\ owner' = NoOwner
        /\ \A q \in Proc : /\ pc'[q] = IF q = p THEN "rescan" ELSE pc[q]
                           /\ myRun'[q] = myRun[q] /\ agent'[q] = agent[q]
                           /\ outcome'[q] = outcome[q]
    BY <1>5 DEF ConflictsGone, ReleaseLock, Unlock, Proceed, Goto, Inv, LocalInv, LocalTypeOK
  <2> QED BY <2>1, FlowStep, Places
<1>6. CASE FinishRecovery(p)
  <2>1. CASE /\ RecoverClaimed(agent[p], outcome[p], FindingStatus(outcome[p]))
             /\ Return(p, goal[p])
    BY <2>1, FlowReturns, Types, Places, PlacesType DEF RecoverClaimed, ApplyRecovery, Unlock
  <2> QED BY <1>3, <1>6, <2>1 DEF FinishRecovery
<1> QED BY <1>1, <1>2, <1>3, <1>4, <1>5, <1>6 DEF Recovery, LookAtGit, ClaimLost

(* A person answers, starts afresh or deletes; time passes.                *)
LEMMA FlowPeople ==
  ASSUME Inv, FlowInv, Answer \/ Expire \/ \E o \in LifecycleOp : Lifecycle(o)
  PROVE  FlowInv'
<1>1. UNCHANGED <<pc, myRun, agent, outcome>>
  BY DEF Answer, Expire, Lifecycle, BeginOp, FinishOp, FailOp, OpGoto, procVars
<1>2. /\ current' = NoRun \/ (current' = current /\ UNCHANGED <<phase, runs>>)
      /\ phase' = Deleted => owner' = NoOwner
  <2>1. CASE Answer
    BY <2>1 DEF Answer, AnswerHumanInput, Unlock
  <2>2. CASE Expire
    BY <2>2 DEF Expire, LeaseExpires, FlowInv, DeletedIsFree
  <2>3. ASSUME NEW o \in LifecycleOp, Lifecycle(o)
        PROVE  /\ current' = NoRun \/ (current' = current /\ UNCHANGED <<phase, runs>>)
               /\ phase' = Deleted => owner' = NoOwner
    <3>1. CASE BeginOp(o)
      BY <3>1 DEF BeginOp, Reserve
    <3>2. ClearHistory(IF o \in ResetOp THEN "draft" ELSE Deleted) \/ ReleaseLock
            \/ UNCHANGED storeVars
          => /\ current' = NoRun \/ (current' = current /\ UNCHANGED <<phase, runs>>)
             /\ phase' = Deleted => owner' = NoOwner
      BY DEF ClearHistory, ReleaseLock, Unlock, storeVars, FlowInv, DeletedIsFree
    <3> QED BY <2>3, <3>1, <3>2 DEF Lifecycle, FinishOp, FailOp
  <2> QED BY <2>1, <2>2, <2>3
<1> QED BY <1>1, <1>2, FlowOthers

(* The gates and the moves from them, by name.                             *)
LEMMA Gates ==
  /\ Gate \subseteq WaitingPhases
  /\ (Gate \cup {Deleted}) \cap (ReadyPhases \cup RunningPhases
                                 \cup {"awaiting_pr_closure", "awaiting_human_input"}) = {}
  /\ Deleted \notin Gate
  /\ \A i : Edge("awaiting_plan_approval", i) \/ Edge("awaiting_merge_approval", i)
       => i = "blocked" \/ Edge("blocked", i)
  /\ Edge("blocked", "awaiting_plan_approval") /\ Edge("blocked", "awaiting_merge_approval")
<1>1. {"awaiting_plan_approval", "awaiting_merge_approval", "blocked"} \subseteq Phase
  BY DEF Phase, WaitingPhases
<1> QED BY <1>1, PhaseNames DEF Gate, WaitingPhases, Deleted, Edge, ValidTransitions

(* At a gate, or once the row is gone, nobody but a manager moves the      *)
(* issue, save that it may be stopped or deleted: no run that is current   *)
(* has anything left to write there, and recovery keeps the phase.         *)
LEMMA AtGate ==
  ASSUME Inv, FlowInv, ResetOp = {}, phase \in Gate \cup {Deleted}, Next,
         \A m \in Manager : ~ManualWrite(m)
  PROVE  phase' = phase \/ phase' = Deleted \/ (phase' = "blocked" /\ phase \in Gate \ {"draft"})
<1>1. phase \notin ReadyPhases \cup RunningPhases \cup {"awaiting_pr_closure", "awaiting_human_input"}
  BY Gates
<1>2. ASSUME NEW p \in Proc, Work(p), phase' # phase
      PROVE  phase' = "blocked" /\ phase \in Gate \ {"draft"}
  <2>1. CASE WriteRunning(p) \/ WriteOutcome(p) \/ CompleteAndAsk(p)
    <3>1. /\ pc[p] \in BeforeRun \cup DuringRun \cup {"moving"} /\ pc[p] \in Pipeline
          /\ current = myRun[p]
      BY <1>2, <2>1, PipelinePlaces
         DEF WriteRunning, WriteOutcome, CompleteAndAsk, CanAsk, CanComplete, Leave, storeVars,
             BeforeRun, DuringRun
    <3>2. InPlace(p)
      BY <3>1 DEF FlowInv, PhasesFit
    <3>3. ReadyPhase[agent[p]] \in ReadyPhases /\ RunningPhase[agent[p]] \in RunningPhases
      BY Types, PhaseTables
    <3> QED BY <1>1, <3>1, <3>2, <3>3 DEF InPlace
  <2>2. CASE Stop(p)
    BY <1>2, <2>2 DEF Stop, Stoppable, ForceStop, storeVars
  <2> QED
    BY <1>2, <2>1, <2>2
       DEF Work, GiveUp, Acquire, AcquireLock, ReadReady, StartRun, CreateRun, AgentReturns,
           AgentCancelled, RefreshAfterRun, RefreshLock, RecordOutcome, Complete, CompleteRun,
           ReadRunning, Release, ReleaseLock, Monitor, AskProvider, RecordSighting,
           PrepareConflicts, RecordVerdict, ReadWaiting, Reclaim, FallBack, Leave, storeVars
<1>3. ASSUME NEW p \in Proc, LookAtGit(p) PROVE phase' = phase
  <2>1. CASE FinishRecovery(p)
    BY <1>1, <2>1, Types, PhaseTables DEF FinishRecovery, NoResult, storeVars
  <2> QED
    BY <1>3, <2>1
       DEF LookAtGit, ReportFinding, ConflictsGone, ClaimLost, NoResult, RefreshLock, ReleaseLock,
           storeVars
<1>4. ASSUME NEW p \in Proc, NEW then \in Goal, Recovery(p, then) PROVE phase' = phase
  BY <1>1, <1>4
     DEF Recovery, RecoverIssue, ClaimRecovery, ClaimLock, RecoverRow, RecoverRunning,
         RecoverReady, RecoverWaiting, RecoverMonitored, ApplyRecovery, storeVars
<1>5. ASSUME NEW p \in Proc, Heartbeat(p) \/ SourceConflicts(p) \/ CommitsConflicts(p)
                             \/ Raise(p) \/ Crash(p) \/ RecoveryFails(p)
                             \/ ClaimMonitor(p) \/ MonitorRaises(p)
      PROVE  phase' = phase
  BY <1>5 DEF Heartbeat, SourceConflicts, CommitsConflicts, Raise, Crash, RecoveryFails,
              ClaimMonitor, AcquireMonitorLock, MonitorRaises, FallBack, Leave, RefreshLock,
              storeVars
<1>6. ASSUME NEW m \in Manager, Manual(m) PROVE phase' = phase
  BY <1>6 DEF Manual, ManualRead, storeVars
<1>7. ASSUME NEW o \in LifecycleOp, Lifecycle(o) PROVE phase' = phase \/ phase' = Deleted
  BY <1>7 DEF Lifecycle, BeginOp, FinishOp, FailOp, Reserve, ReleaseLock, ClearHistory, storeVars
<1>8. ~Answer
  BY <1>1 DEF Answer, CanAnswer
<1>9. Expire => phase' = phase
  BY DEF Expire, LeaseExpires
<1> QED BY <1>2, <1>3, <1>4, <1>5, <1>6, <1>7, <1>8, <1>9 DEF Next

(* A step of anybody but a manager leaves what a manager has validated.    *)
LEMMA IntentIsTheirs ==
  ASSUME Next, \A m \in Manager : ~Manual(m) PROVE intent' = intent
<1>1. ASSUME NEW p \in Proc, Work(p) PROVE intent' = intent
  BY <1>1 DEF Work, GiveUp, Acquire, ReadReady, WriteRunning, StartRun, AgentReturns,
       AgentCancelled, RefreshAfterRun, RecordOutcome, CompleteAndAsk, Complete, ReadRunning,
       WriteOutcome, Release, Stop, Monitor, AskProvider, RecordSighting, PrepareConflicts,
       RecordVerdict, ReadWaiting, Reclaim, FallBack, Leave, Proceed, Return
<1>2. ASSUME NEW p \in Proc,
             \/ Heartbeat(p) \/ SourceConflicts(p) \/ CommitsConflicts(p) \/ Raise(p) \/ Crash(p)
             \/ ClaimMonitor(p) \/ MonitorRaises(p) \/ LookAtGit(p) \/ RecoveryFails(p)
             \/ \E then \in Goal : Recovery(p, then)
      PROVE  intent' = intent
  BY <1>2 DEF Heartbeat, SourceConflicts, CommitsConflicts, Raise, Crash, ClaimMonitor,
       MonitorRaises, FallBack, LookAtGit, ReportFinding, ConflictsGone, ClaimLost, FinishRecovery,
       NoResult, RecoveryFails, Recovery, RecoverIssue, ClaimRecovery, Leave, Proceed, Return
<1> QED BY <1>1, <1>2 DEF Next, Lifecycle, BeginOp, FinishOp, FailOp, OpGoto, Answer, Expire

(* A manager who keeps to the gates finds there what was validated.        *)
LEMMA IntentNext ==
  ASSUME KeepToGates, Inv, FlowInv, IntentFits, [Next]_vars PROVE IntentFits'
<1> SUFFICES ASSUME NEW m \in Manager, intent'[m] # "none"
             PROVE  \/ phase' = Deleted
                    \/ /\ phase' \in Gate /\ intent'[m] # "awaiting_human_input"
                       /\ Edge(phase', intent'[m]) \/ intent'[m] = phase'
  BY DEF IntentFits
<1>1. ResetOp = {} /\ \A n \in Manager : n = m
  BY DEF KeepToGates
<1>2. CASE UNCHANGED vars
  BY <1>2 DEF vars, storeVars, IntentFits
<1>3. CASE \E n \in Manager : \E next \in Phase : ManualRead(n, next)
  <2>1. PICK next \in Phase : ManualRead(m, next)
    BY <1>1, <1>3
  <2>2. phase \in Gate /\ phase' = phase /\ intent'[m] = next
    BY <2>1 DEF KeepToGates, ManualRead, storeVars, Inv, LocalInv, LocalTypeOK
  <2> QED BY <2>1, <2>2 DEF ManualRead, TransitionAllowed
<1>4. CASE \E n \in Manager : ManualWrite(n)
  <2>1. ManualWrite(m)
    BY <1>1, <1>4
  <2> QED BY <2>1 DEF ManualWrite, Inv, LocalInv, LocalTypeOK
<1>5. CASE Next /\ \A n \in Manager : ~Manual(n)
  <2>1. intent' = intent
    BY <1>5, IntentIsTheirs
  <2>2. phase \in Gate \cup {Deleted}
    BY <2>1 DEF IntentFits
  <2>3. phase' = phase \/ phase' = Deleted \/ (phase' = "blocked" /\ phase \in Gate \ {"draft"})
    BY <1>1, <1>5, <2>2, AtGate DEF Manual
  <2>4. CASE phase' = "blocked" /\ phase \in Gate \ {"draft"}
    <3>1. /\ intent[m] # "awaiting_human_input"
          /\ Edge(phase, intent[m]) \/ intent[m] = phase
      BY <2>1, <2>4, Gates DEF IntentFits
    <3>2. phase \in {"awaiting_plan_approval", "awaiting_merge_approval", "blocked"}
      BY <2>4 DEF Gate
    <3>3. intent[m] = "blocked" \/ Edge("blocked", intent[m])
      BY <3>1, <3>2, Gates
    <3> QED BY <2>1, <2>4, <3>1, <3>3 DEF Gate
  <2> QED BY <2>1, <2>3, <2>4 DEF IntentFits
<1> QED BY <1>2, <1>3, <1>4, <1>5 DEF Manual

(* A manager at a gate takes the issue from nobody.                        *)
LEMMA FlowManual ==
  ASSUME Inv, FlowInv, IntentFits, NEW m \in Manager, Manual(m) PROVE FlowInv'
<1>1. UNCHANGED <<pc, myRun, agent, outcome>>
  BY DEF Manual, ManualRead, ManualWrite, procVars
<1>2. CASE UNCHANGED storeVars
  BY <1>1, <1>2, FlowOthers DEF storeVars, FlowInv, DeletedIsFree
<1>3. CASE ManualWrite(m) /\ phase # Deleted
  <2>1. /\ UNCHANGED <<owner, current, runs>> /\ phase' = intent[m] /\ intent[m] \in Phase
        /\ phase \in Gate
    BY <1>3 DEF ManualWrite, ManualTransition, IntentFits, Inv, LocalInv, LocalTypeOK
  <2>2. RunsDiffer' /\ FindingsFit' /\ DeletedIsFree'
    BY <1>1, <2>1, IdlePhases DEF FlowInv, RunsDiffer, FindingsFit, DeletedIsFree
  <2>3. ASSUME NEW p \in Proc, pc'[p] \in Pipeline, current' = myRun'[p] PROVE InPlace(p)'
    <3>1. InPlace(p)
      BY <1>1, <2>1, <2>3 DEF FlowInv, PhasesFit
    <3>2. ReadyPhase[agent[p]] \in ReadyPhases /\ RunningPhase[agent[p]] \in RunningPhases
      BY Types, PhaseTables
    <3>3. pc[p] \notin BeforeRun \cup DuringRun \cup Monitoring \cup {"moving"}
      BY <2>1, <3>1, <3>2, Gates DEF InPlace
    <3> QED BY <1>1, <2>1, <3>1, <3>3 DEF InPlace
  <2> QED BY <2>2, <2>3 DEF FlowInv, PhasesFit
<1> QED BY <1>2, <1>3 DEF Manual, ManualRead, ManualWrite

(* Every step keeps FlowInv, if a manager keeps to the gates.              *)
LEMMA FlowNext ==
  ASSUME KeepToGates, Inv, FlowInv, IntentFits, [Next]_vars PROVE FlowInv' /\ IntentFits'
<1>1. ASSUME NEW p \in Proc, Work(p) PROVE FlowInv'
  BY <1>1, FlowReads, FlowWrites, FlowMonitors, FlowEnds, FlowAcquires DEF Work
<1>2. ASSUME UNCHANGED vars PROVE FlowInv'
  BY <1>2, FlowOthers DEF vars, storeVars, procVars, FlowInv, DeletedIsFree
<1>3. FlowInv'
  BY <1>1, <1>2, FlowReads, FlowMonitors, FlowEnds, FlowAcquires, FlowBeside, FlowRecovers,
     FlowPeople, FlowManual DEF Next
<1> QED BY <1>3, IntentNext

(* FlowInv holds at the start: nobody runs anything.                       *)
LEMMA FlowInit == Init => FlowInv /\ IntentFits
  BY Places DEF Init, StoreInit, FlowInv, RunsDiffer, PhasesFit, FindingsFit, DeletedIsFree, Goal,
                IntentFits

(* The current run, if it is somebody's, always knows the phase, and a     *)
(* manager at a gate what may follow it.                                   *)
THEOREM FlowInvariance == ASSUME KeepToGates PROVE Spec => [](FlowInv /\ IntentFits)
<1>1. Init => FlowInv /\ IntentFits
  BY FlowInit
<1>2. Inv /\ (FlowInv /\ IntentFits) /\ [Next]_vars => (FlowInv /\ IntentFits)'
  BY FlowNext
<1> QED BY <1>1, <1>2, Invariance, PTL DEF Spec
-----------------------------------------------------------------------------
(* The moves of the workflow.                                              *)

(* The instance of IssueWorkflow has the tables of StateMachine.           *)
LEMMA SameTables ==
  /\ Workflow!Agent = Agent
  /\ Workflow!ReadyPhase = ReadyPhase /\ Workflow!RunningPhase = RunningPhase
  /\ Workflow!RunningPhases = RunningPhases /\ Workflow!WaitingPhases = WaitingPhases
  /\ \A p, q : Edge(p, q) => Workflow!Edge(p, q)
<1>1. /\ Workflow!Agent = Agent
      /\ Workflow!ReadyPhase = ReadyPhase /\ Workflow!RunningPhase = RunningPhase
  BY DEF Workflow!Agent, Agent, Workflow!ReadyPhase, ReadyPhase, Workflow!RunningPhase,
         RunningPhase
<1>2. /\ Workflow!ReadyPhases = ReadyPhases /\ Workflow!RunningPhases = RunningPhases
      /\ Workflow!WaitingPhases = WaitingPhases
  BY <1>1 DEF Workflow!ReadyPhases, ReadyPhases, Workflow!RunningPhases, RunningPhases,
              Workflow!WaitingPhases, WaitingPhases
<1>3. Workflow!Phase = Phase
  BY <1>2 DEF Workflow!Phase, Phase
<1>4. Workflow!AskingAgents = AskingAgents
  BY <1>1 DEF Workflow!AskingAgents, AskingAgents
<1>5. Workflow!ValidTransitions = ValidTransitions
  BY <1>1, <1>2, <1>3, <1>4 DEF Workflow!ValidTransitions, ValidTransitions
<1>6. \A p, q : Edge(p, q) => Workflow!Edge(p, q)
  BY <1>3, <1>5 DEF Workflow!Edge, Edge
<1> QED BY <1>1, <1>2, <1>6

(* A worker takes the issue up.                                            *)
LEMMA PicksUp ==
  ASSUME NEW a \in Agent, phase = ReadyPhase[a], phase' = RunningPhase[a] PROVE Workflow!Next
  BY SameTables DEF Workflow!Next, Workflow!PickUp

(* Work is given back.                                                     *)
LEMMA GivesBack ==
  ASSUME NEW a \in Agent, phase = RunningPhase[a], phase' = ReadyPhase[a] PROVE Workflow!Next
  BY SameTables DEF Workflow!Next, Workflow!GiveBack

(* A running or a waiting phase ends along the graph.                      *)
LEMMA Concludes ==
  ASSUME phase \in RunningPhases \cup WaitingPhases, Edge(phase, phase') PROVE Workflow!Next
  BY SameTables DEF Workflow!Next, Workflow!Conclude, Workflow!Decide

(* A stop, a reset and a deletion.                                         *)
LEMMA Interrupts ==
  ASSUME \/ phase \notin {"draft", "done", Deleted} /\ phase' = "blocked"
         \/ phase # Deleted /\ phase' \in {"draft", Deleted}
  PROVE  Workflow!Next
  BY DEF Workflow!Next, Workflow!Stop, Workflow!Reset, Workflow!Delete, Deleted
-----------------------------------------------------------------------------
(* What one step may do to the issue and its history.                      *)

Idle == {"awaiting_human_input", "draft", Deleted}

Stays ==
  /\ UNCHANGED <<phase, runs, request>>
  /\ phase \in {"draft", Deleted} => current' \in {current, NoRun} /\ mover' = mover

MovesOn ==
  /\ UNCHANGED request /\ phase # "awaiting_human_input" /\ phase' \notin Idle
  /\ phase' = phase \/ Workflow!Next

Asks(r, a) ==
  /\ phase \in RunningPhases /\ runs[r].agent = a
  /\ CanAsk(r) /\ CompleteRunAndAsk(r, a)

Effect ==
  \/ Stays \/ MovesOn
  \/ \E r \in RunId, a \in AskingAgents : Asks(r, a)
  \/ CanAnswer /\ AnswerHumanInput
  \/ Stoppable /\ ForceStop
  \/ phase # Deleted /\ \E next \in {"draft", Deleted} : ClearHistory(next)

(* Every running phase may end in blocked, and none in a draft.            *)
LEMMA RunningEdges ==
  /\ \A q \in RunningPhases : Edge(q, "blocked")
  /\ \A q : ~Edge(q, "draft")
  BY PhaseNames DEF Edge, ValidTransitions, Phase, WaitingPhases, AskingAgents, ReadyPhase, Agent

(* A run acts on the phase it expects.                                     *)
LEMMA RunEffects ==
  ASSUME Inv, FlowInv, NEW p \in Proc, ~UNCHANGED storeVars,
         WriteRunning(p) \/ StartRun(p) \/ Complete(p) \/ WriteOutcome(p) \/ CompleteAndAsk(p)
  PROVE  Effect
<1>1. ~Leave(p)
  BY DEF Leave
<1>2. pc[p] \in Pipeline
  BY PipelinePlaces DEF WriteRunning, StartRun, Complete, WriteOutcome, CompleteAndAsk
<1>3. myRun[p] \in RunId /\ agent[p] \in Agent /\ outcome[p] \in Phase
      /\ ReadyPhase[agent[p]] \in ReadyPhases /\ RunningPhase[agent[p]] \in RunningPhases
  BY <1>2, Types, PhaseTables
<1>4. current = myRun[p] /\ InPlace(p)
  BY <1>1, <1>2 DEF WriteRunning, StartRun, Complete, WriteOutcome, CompleteAndAsk, CanComplete,
                    CanAsk, FlowInv, PhasesFit
<1>5. CASE WriteRunning(p)
  <2>1. /\ phase = ReadyPhase[agent[p]] /\ phase' = RunningPhase[agent[p]] /\ UNCHANGED request
    BY <1>1, <1>4, <1>5 DEF WriteRunning, RunTransition, InPlace, BeforeRun
  <2> QED BY <1>3, <2>1, PicksUp, IdlePhases DEF Effect, MovesOn, Idle
<1>6. CASE StartRun(p) \/ Complete(p)
  <2>1. phase = RunningPhase[agent[p]] /\ UNCHANGED <<phase, request>>
    BY <1>1, <1>4, <1>6 DEF StartRun, Complete, CreateRun, CompleteRun, InPlace, DuringRun
  <2> QED BY <1>3, <2>1, IdlePhases DEF Effect, MovesOn, Idle
<1>7. CASE WriteOutcome(p)
  <2>1. /\ phase \in RunningPhases \cup {"awaiting_pr_closure"} /\ Edge(phase, phase')
        /\ phase' = outcome[p] /\ phase' # "awaiting_human_input" /\ UNCHANGED request
    BY <1>1, <1>4, <1>7 DEF WriteOutcome, RunTransition, InPlace
  <2>2. phase \in RunningPhases \cup WaitingPhases /\ phase \notin Idle
    BY <2>1, IdlePhases DEF Idle, Deleted
  <2>3. phase' \notin Idle
    BY <1>3, <2>1, IdlePhases, RunningEdges DEF Idle
  <2> QED BY <2>1, <2>2, <2>3, Concludes DEF Effect, MovesOn, Idle
<1>8. CASE CompleteAndAsk(p)
  <2>1. agent[p] \in AskingAgents
    BY <1>2, <1>3, <1>8 DEF Inv, LocalInv, OutcomesFit, CompleteAndAsk, AskingAgents
  <2>2. phase \in RunningPhases /\ runs[myRun[p]].agent = agent[p]
    BY <1>1, <1>3, <1>4, <1>8 DEF CompleteAndAsk, CanAsk, CanComplete, InPlace, DuringRun
  <2>3. Asks(myRun[p], agent[p])
    BY <1>1, <1>8, <2>2 DEF CompleteAndAsk, Asks
  <2> QED BY <1>3, <2>1, <2>3 DEF Effect
<1> QED BY <1>5, <1>6, <1>7, <1>8

(* A recovery gives work back or ends it where its run, or Git, says.      *)
LEMMA RecoveryEffects ==
  ASSUME Inv, FlowInv, NEW p \in Proc,
         RecoverRow \/ (FinishRecovery(p) /\ ~UNCHANGED storeVars)
  PROVE  Effect
<1>1. ASSUME NEW a \in Agent, phase = RunningPhase[a], phase' \notin Idle, UNCHANGED request,
             Edge(phase, phase') \/ phase' = ReadyPhase[a]
      PROVE  Effect
  <2>1. phase \in RunningPhases /\ phase \notin Idle
    BY <1>1, PhaseTables, IdlePhases DEF Idle
  <2> QED BY <1>1, <2>1, Concludes, GivesBack DEF Effect, MovesOn, Idle
<1>2. CASE RecoverRunning
  <2> DEFINE a == AgentOfRunning(phase)
  <2>1. a \in Agent /\ phase = RunningPhase[a] /\ phase \in RunningPhases /\ UNCHANGED request
    BY <1>2, AgentOfPhase DEF RecoverRunning, ApplyRecovery
  <2>2. \A r : Edge(phase, TerminalTarget(r)) /\ TerminalTarget(r) # "awaiting_human_input"
    BY <2>1, RunningEdges DEF TerminalTarget
  <2>3. phase' = ReadyPhase[a] \/ \E r : phase' = TerminalTarget(r)
    BY <1>2 DEF RecoverRunning, ApplyRecovery
  <2>4. phase' \notin Idle /\ (Edge(phase, phase') \/ phase' = ReadyPhase[a])
    <3>1. CASE phase' = ReadyPhase[a]
      BY <2>1, <3>1, PhaseTables, IdlePhases DEF Idle
    <3>2. CASE \E r : phase' = TerminalTarget(r)
      BY <2>2, <3>2, EdgeTarget, RunningEdges, IdlePhases DEF Idle
    <3> QED BY <2>3, <3>1, <3>2
  <2> HIDE DEF a
  <2> QED BY <1>1, <2>1, <2>4
<1>3. CASE RecoverReady
  BY <1>3, IdlePhases
     DEF RecoverReady, StaleReady, ApplyRecovery, Effect, MovesOn, Idle
<1>4. CASE RecoverWaiting \/ RecoverMonitored
  BY <1>4 DEF RecoverWaiting, RecoverMonitored, ApplyRecovery, Unlock, Effect, Stays
<1>5. CASE FinishRecovery(p) /\ ~UNCHANGED storeVars
  <2>1. /\ phase = RunningPhase[agent[p]] /\ phase' = outcome[p] /\ UNCHANGED request
        /\ agent[p] \in Agent /\ pc[p] = "reporting"
    BY <1>5, Types DEF FinishRecovery, NoResult, RecoverClaimed, ApplyRecovery
  <2>2. CASE agent[p] = "merge"
    <3>1. outcome[p] \in MergeFindings
      BY <2>1, <2>2 DEF FlowInv, FindingsFit
    <3>2. phase = "merging" /\ ReadyPhase["merge"] = "ready_for_merge"
      BY <2>1, <2>2 DEF RunningPhase, ReadyPhase, Agent
    <3>3. phase' = "ready_for_merge" \/ Edge(phase, phase')
      BY <2>1, <3>1, <3>2, PhaseNames DEF MergeFindings, Edge, ValidTransitions, Phase
    <3>4. phase' \notin Idle
      BY <2>1, <3>1 DEF MergeFindings, Idle, Deleted
    <3> QED BY <1>1, <2>1, <2>2, <3>2, <3>3, <3>4
  <2>3. CASE agent[p] = "review"
    <3>1. outcome[p] = "ready_for_merge_conflict_resolution"
      BY <2>1, <2>3 DEF Inv, LocalInv, OutcomesFit
    <3>2. phase = "reviewing"
      BY <2>1, <2>3 DEF RunningPhase, Agent
    <3>3. Edge(phase, phase') /\ phase' \notin Idle
      BY <2>1, <3>1, <3>2, PhaseNames DEF Edge, ValidTransitions, Phase, Idle, Deleted
    <3> QED BY <1>1, <2>1, <3>3
  <2> QED BY <2>1, <2>2, <2>3 DEF Inv, LocalInv, OutcomesFit
<1> QED BY <1>2, <1>3, <1>4, <1>5 DEF RecoverRow

(* A manager at a gate moves the issue along the graph.                    *)
LEMMA ManualEffects ==
  ASSUME Inv, IntentFits, NEW m \in Manager, ManualWrite(m), phase # Deleted PROVE Effect
<1>1. /\ phase \in Gate /\ intent[m] \in Phase /\ intent[m] # "awaiting_human_input"
      /\ Edge(phase, intent[m]) \/ intent[m] = phase
      /\ phase' = intent[m] /\ UNCHANGED <<owner, lease, current, runs, request, mover, lastRun>>
  BY DEF ManualWrite, ManualTransition, IntentFits, Inv, LocalInv, LocalTypeOK
<1>2. CASE intent[m] = phase
  BY <1>1, <1>2 DEF Effect, Stays
<1>3. CASE Edge(phase, intent[m])
  <2>1. phase' \notin Idle
    BY <1>1, <1>3, RunningEdges, IdlePhases DEF Idle
  <2>2. phase \in WaitingPhases /\ phase # "awaiting_human_input"
    BY <1>1, Gates
  <2> QED BY <1>1, <1>3, <2>1, <2>2, Concludes DEF Effect, MovesOn
<1> QED BY <1>1, <1>2, <1>3

(* Every step has one of these effects.                                    *)
LEMMA Effects == ASSUME Inv, FlowInv, IntentFits, Next PROVE Effect
<1>1. CASE UNCHANGED storeVars
  BY <1>1 DEF storeVars, Effect, Stays
<1>2. ASSUME ~UNCHANGED storeVars PROVE Effect
  <2>1. ASSUME NEW p \in Proc, Work(p) PROVE Effect
    <3>1. CASE Acquire(p)
      BY <3>1, IdlePhases DEF Acquire, AcquireLock, Effect, Stays
    <3>2. CASE RefreshLock \/ ReleaseLock
      BY <3>2 DEF RefreshLock, ReleaseLock, Unlock, Effect, Stays
    <3>3. CASE Stop(p)
      BY <1>2, <3>3 DEF Stop, Effect
    <3> QED
      BY <1>2, <2>1, <3>1, <3>2, <3>3, RunEffects
         DEF Work, GiveUp, ReadReady, AgentReturns, AgentCancelled, RefreshAfterRun,
             RecordOutcome, ReadRunning, Release, Monitor, AskProvider, RecordSighting,
             PrepareConflicts, RecordVerdict, ReadWaiting, Reclaim, FallBack, Leave
  <2>2. ASSUME NEW p \in Proc, LookAtGit(p) PROVE Effect
    <3>1. CASE RefreshLock \/ ReleaseLock
      BY <3>1 DEF RefreshLock, ReleaseLock, Unlock, Effect, Stays
    <3> QED BY <1>2, <2>2, <3>1, RecoveryEffects
            DEF LookAtGit, ReportFinding, ConflictsGone, ClaimLost, NoResult
  <2>3. ASSUME NEW p \in Proc, NEW then \in Goal, Recovery(p, then) PROVE Effect
    <3>1. CASE ClaimRecovery(p, then)
      BY <3>1 DEF ClaimRecovery, ClaimLock, Effect, Stays
    <3> QED BY <1>2, <2>3, <3>1, RecoveryEffects DEF Recovery, RecoverIssue
  <2>4. ASSUME NEW p \in Proc, Heartbeat(p) \/ SourceConflicts(p) \/ CommitsConflicts(p)
                               \/ Raise(p) \/ Crash(p) \/ MonitorRaises(p) \/ RecoveryFails(p)
        PROVE  Effect
    BY <1>2, <2>4
       DEF Heartbeat, SourceConflicts, CommitsConflicts, Raise, Crash, MonitorRaises,
           RecoveryFails, FallBack, Leave, RefreshLock, Effect, Stays
  <2>5. ASSUME NEW p \in Proc, ClaimMonitor(p) PROVE Effect
    BY <2>5 DEF ClaimMonitor, CanAcquire, AcquireMonitorLock, Effect, MovesOn, Idle, Deleted
  <2>6. ASSUME NEW o \in LifecycleOp, Lifecycle(o) PROVE Effect
    <3>1. CASE BeginOp(o)
      BY <3>1 DEF BeginOp, Reserve, Effect, Stays
    <3>2. CASE FinishOp(o)
      <4>1. owner = o /\ ClearHistory(IF o \in ResetOp THEN "draft" ELSE Deleted)
        BY <1>2, <3>2 DEF FinishOp
      <4>2. phase # Deleted
        BY <4>1, OwnerAssumption, NoOwnerAssumption DEF FlowInv, DeletedIsFree
      <4> QED BY <4>1, <4>2 DEF Effect
    <3>3. CASE FailOp(o)
      BY <1>2, <3>3 DEF FailOp, ReleaseLock, Unlock, Effect, Stays
    <3> QED BY <2>6, <3>1, <3>2, <3>3 DEF Lifecycle
  <2>7. CASE Answer
    BY <2>7 DEF Answer, Effect
  <2>8. CASE Expire
    BY <2>8 DEF Expire, LeaseExpires, Effect, Stays
  <2>9. ASSUME NEW m \in Manager, Manual(m) PROVE Effect
    BY <1>2, <2>9, ManualEffects DEF Manual, ManualRead, ManualWrite
  <2> QED BY <2>1, <2>2, <2>3, <2>4, <2>5, <2>6, <2>7, <2>8, <2>9 DEF Next
<1> QED BY <1>1, <1>2
-----------------------------------------------------------------------------
(* Theorems.                                                               *)

(* An answer resumes the agent that asked.                                 *)
LEMMA AnswerResumes == ASSUME StoreInv, CanAnswer, AnswerHumanInput PROVE Workflow!Next
<1>1. request.by \in AskingAgents /\ phase = "awaiting_human_input"
  BY DEF CanAnswer, StoreInv, StoreTypeOK, Request
<1>2. phase' = ResumePhase[request.by]
  BY DEF AnswerHumanInput
<1>3. Edge(phase, phase')
  BY <1>1, <1>2 DEF ResumePhase, Edge, ValidTransitions, Phase, WaitingPhases
<1> QED BY <1>1, <1>3, Concludes DEF WaitingPhases

(* Whoever crashes, stops, resets, deletes, answers or comes late, and on  *)
(* however many hosts, the phase of the issue moves as IssueWorkflow says, *)
(* as long as one manager at most moves it by hand, at the gates.          *)
THEOREM ImplementsWorkflow == ASSUME KeepToGates PROVE Spec => FollowsWorkflow
<1>1. Init => Workflow!Init
  BY DEF Init, StoreInit, Workflow!Init
<1>2. Inv /\ FlowInv /\ IntentFits /\ [Next]_vars => [Workflow!Next]_phase
  <2> SUFFICES ASSUME Inv, FlowInv, IntentFits, Next PROVE [Workflow!Next]_phase
    BY DEF vars, storeVars
  <2>1. Effect
    BY Effects
  <2>2. ASSUME NEW r \in RunId, NEW a \in AskingAgents, Asks(r, a) PROVE Workflow!Next
    BY <2>2, Concludes DEF Asks, CanAsk, CompleteRunAndAsk
  <2>3. CASE Stoppable /\ ForceStop
    BY <2>3, Interrupts DEF Stoppable, ForceStop
  <2>4. ASSUME phase # Deleted, NEW next \in {"draft", Deleted}, ClearHistory(next)
        PROVE  Workflow!Next
    BY <2>4, Interrupts DEF ClearHistory
  <2> QED BY <2>1, <2>2, <2>3, <2>4, AnswerResumes DEF Effect, Stays, MovesOn, Inv
<1> QED BY <1>1, <1>2, Invariance, FlowInvariance, PTL DEF Spec, FollowsWorkflow, Workflow!Spec

(* One manager at the gates changes the phase by transitions of the graph  *)
(* only (ManualMovesAreValid): agents, crashes, recoveries and stops in    *)
(* between what is read and what is written do not invalidate it; a second *)
(* manager does, as the run StaleApproval shows.                           *)
THEOREM OneManagersMovesAreValid == ASSUME KeepToGates PROVE Spec => ManualMovesAreValid
<1>1. Inv /\ IntentFits /\ [Next]_vars =>
        [\A m \in Manager :
           intent[m] # "none" /\ intent'[m] = "none" /\ phase' # phase => Edge(phase, phase')]_vars
  <2> SUFFICES ASSUME Inv, IntentFits, Next, NEW m \in Manager,
                      intent[m] # "none", intent'[m] = "none", phase' # phase
               PROVE  Edge(phase, phase')
    OBVIOUS
  <2>1. \A n \in Manager : n = m
    BY DEF KeepToGates
  <2>2. Manual(m)
    BY <2>1, IntentIsTheirs
  <2>3. ManualWrite(m)
    BY <2>2 DEF Manual, ManualRead
  <2>4. phase # Deleted /\ phase' = intent[m]
    BY <2>3 DEF ManualWrite, ManualTransition, storeVars
  <2> QED BY <2>4 DEF IntentFits
<1> QED BY <1>1, Invariance, FlowInvariance, PTL DEF Spec, ManualMovesAreValid

(* An issue waits for a person exactly while the question of the run that  *)
(* asked is pending, although one manager moves it at the gates.           *)
THEOREM QuestionsArePending == ASSUME KeepToGates PROVE Spec => []QuestionIsPending
<1>1. Init => QuestionIsPending
  BY StartPhasesAssumption, IdlePhases DEF Init, StoreInit, QuestionIsPending
<1>2. Inv /\ FlowInv /\ IntentFits /\ QuestionIsPending /\ [Next]_vars => QuestionIsPending'
  <2> SUFFICES ASSUME Inv, FlowInv, IntentFits, QuestionIsPending, [Next]_vars PROVE QuestionIsPending'
    OBVIOUS
  <2>1. CASE UNCHANGED vars
    BY <2>1 DEF vars, storeVars, QuestionIsPending
  <2>2. CASE Stays \/ MovesOn
    BY <2>2 DEF Stays, MovesOn, Idle, QuestionIsPending
  <2>3. ASSUME NEW r \in RunId, NEW a \in AskingAgents, Asks(r, a) PROVE QuestionIsPending'
    <3>1. /\ phase' = "awaiting_human_input" /\ request' = [by |-> a, run |-> r]
          /\ runs'[r].status = "completed" /\ runs'[r].agent = a
      BY <2>3, EndRunRow DEF Asks, CompleteRunAndAsk, Inv, StoreInv, RunStatus, Phase, WaitingPhases
    <3>2. request' # NoRequest
      BY <3>1 DEF NoRequest, AskingAgents, Agent
    <3> QED BY <3>1, <3>2 DEF QuestionIsPending
  <2>4. CASE CanAnswer /\ AnswerHumanInput
    <3>1. phase' \in ReadyPhases /\ request' = NoRequest
      BY <2>4, PhaseTables DEF CanAnswer, AnswerHumanInput, Inv, StoreInv, StoreTypeOK, Request
    <3> QED BY <3>1, IdlePhases DEF QuestionIsPending
  <2>5. CASE Stoppable /\ ForceStop
    BY <2>5 DEF ForceStop, QuestionIsPending
  <2>6. ASSUME NEW next \in {"draft", Deleted}, ClearHistory(next) PROVE QuestionIsPending'
    BY <2>6 DEF ClearHistory, QuestionIsPending, Deleted
  <2>7. Next => Effect
    BY Effects
  <2> QED BY <2>1, <2>2, <2>3, <2>4, <2>5, <2>6, <2>7 DEF Effect
<1> QED BY <1>1, <1>2, Invariance, FlowInvariance, PTL DEF Spec
-----------------------------------------------------------------------------
(* Agents that have lost their issue, on one host.                         *)

AgentPlaces == {"running", "returned", "recording", "settled"}

(* While an agent is under way its run is running as long as it is the     *)
(* current run, and stopped after that.                                    *)
AgentRows ==
  \A p \in Proc : pc[p] \in AgentPlaces =>
    runs[myRun[p]].status = IF current = myRun[p] THEN "running" ELSE "stopped"

(* The row of run r says the same as before, or that r has been stopped.   *)
Kept(r) ==
  \/ (current' = r <=> current = r) /\ runs'[r].status = runs[r].status
  \/ current' # r /\ runs'[r].status = "stopped"

LEMMA AgentRowsKept ==
  ASSUME AgentRows,
         \A p \in Proc : pc'[p] \in AgentPlaces =>
           pc[p] \in AgentPlaces /\ myRun'[p] = myRun[p] /\ Kept(myRun[p])
  PROVE  AgentRows'
  BY DEF AgentRows, Kept

(* What an agent under way can count on.                                   *)
LEMMA AgentFacts ==
  ASSUME OneHost, Inv, FlowInv, NEW p \in Proc, pc[p] \in AgentPlaces
  PROVE  /\ pc[p] \in Pipeline /\ myRun[p] \in RunId /\ myRun[p] <= lastRun /\ lastRun \in Nat
         /\ \A q \in Proc : pc[q] \in Pipeline /\ q # p => myRun[q] # myRun[p]
         /\ current = myRun[p] => /\ phase \in RunningPhases /\ owner = p
                                  /\ \A q \in Proc : ~Recoverable(q)
<1>1. pc[p] \in Pipeline /\ pc[p] \in DuringRun /\ pc[p] # "dead"
  BY Places DEF AgentPlaces, DuringRun
<1>2. /\ myRun[p] \in RunId /\ myRun[p] <= lastRun /\ lastRun \in Nat
      /\ current = myRun[p] => owner = p
      /\ \A q \in Proc : pc[q] \in Pipeline /\ q # p => myRun[q] # myRun[p]
  BY <1>1, MaxRunsAssumption
     DEF Inv, LocalInv, RunsAreTheirs, FlowInv, RunsDiffer, StoreInv, StoreTypeOK
<1>3. ASSUME current = myRun[p] PROVE phase \in RunningPhases /\ \A q \in Proc : ~Recoverable(q)
  <2>1. phase \in RunningPhases
    BY <1>1, <1>3, Types, PhaseTables DEF FlowInv, PhasesFit, InPlace
  <2>2. lease # "none"
    BY <1>2, <1>3, MaxRunsAssumption DEF Inv, StoreInv, LeaseCoherent, RunId, NoRun
  <2>3. \A q \in Proc : KnownLive(q, owner) /\ ~KnownDead(q, owner)
    BY <1>1, <1>2, <1>3 DEF KnownLive, KnownDead, Alive, OneHost
  <2> QED BY <2>1, <2>2, <2>3 DEF Recoverable
<1> QED BY <1>1, <1>2, <1>3

(* The steps of a run.                                                     *)
LEMMA AgentRowsWork ==
  ASSUME OneHost, Inv, FlowInv, AgentRows, NEW q \in Proc, Work(q) PROVE AgentRows'
<1>1. \A p \in Proc : p # q => pc'[p] = pc[p] /\ myRun'[p] = myRun[p]
  <2>1. CASE Monitor(q)
    BY <2>1 DEF Monitor, AskProvider, RecordSighting, PrepareConflicts, RecordVerdict,
                ReadWaiting, Reclaim, FallBack, Leave, Proceed, Goto, Inv, LocalInv, LocalTypeOK
  <2> QED
    BY <2>1 DEF Work, GiveUp, Acquire, ReadReady, WriteRunning, StartRun, AgentReturns,
         AgentCancelled, RefreshAfterRun, RecordOutcome, CompleteAndAsk, Complete, ReadRunning,
         WriteOutcome, Release, Stop, Leave, Proceed, Return, Goto, Inv, LocalInv, LocalTypeOK
<1>2. CASE /\ pc'[q] \in AgentPlaces => pc[q] \in AgentPlaces /\ myRun'[q] = myRun[q]
           /\ current' = current /\ runs' = runs
  BY <1>1, <1>2, AgentRowsKept DEF Kept
<1>3. CASE Acquire(q)
  <2>1. phase \in ReadyPhases /\ current' = lastRun + 1 /\ runs' = runs /\ pc'[q] = "acquired"
    BY <1>3 DEF Acquire, AcquireLock, Goto, Inv, LocalInv, LocalTypeOK
  <2>2. \A p \in Proc : pc[p] \in AgentPlaces => Kept(myRun[p])
    BY <2>1, AgentFacts, PhaseNames DEF Kept, RunId
  <2> QED BY <1>1, <2>1, <2>2, AgentRowsKept DEF AgentPlaces
<1>4. CASE StartRun(q) /\ ~Leave(q)
  <2>1. /\ current = myRun[q] /\ current' = current /\ myRun' = myRun /\ pc[q] = "started"
        /\ myRun[q] \in RunId /\ runs'[myRun[q]].status = "running"
        /\ \A r \in RunId : r # myRun[q] => runs'[r] = runs[r]
    BY <1>4, Types, PipelinePlaces DEF StartRun, CreateRun, Inv, StoreInv, StoreTypeOK
  <2>2. \A p \in Proc : p # q /\ pc[p] \in AgentPlaces => runs'[myRun[p]] = runs[myRun[p]]
    BY <2>1, AgentFacts, PipelinePlaces
  <2> QED BY <1>1, <2>1, <2>2 DEF AgentRows
<1>5. CASE (Complete(q) \/ CompleteAndAsk(q)) /\ ~Leave(q)
  <2>1. /\ pc'[q] \notin AgentPlaces /\ pc[q] \in Pipeline /\ current = myRun[q]
        /\ current' = current \/ current' = NoRun
        /\ \A r \in RunId : r # myRun[q] => runs'[r] = runs[r]
    BY <1>5, PipelinePlaces
       DEF Complete, CompleteAndAsk, CanComplete, CanAsk, CompleteRun, CompleteRunAndAsk, EndRun,
           Unlock, Proceed, Goto, AgentPlaces, Inv, StoreInv, StoreTypeOK, LocalInv, LocalTypeOK
  <2>2. \A p \in Proc : p # q /\ pc[p] \in AgentPlaces => Kept(myRun[p])
    BY <2>1, AgentFacts, MaxRunsAssumption DEF Kept, RunId, NoRun
  <2> QED BY <1>1, <2>1, <2>2, AgentRowsKept
<1>6. CASE Release(q) /\ Holds(q, myRun[q])
  <2>1. /\ pc[q] = "releasing" /\ pc'[q] = "idle" /\ current' = NoRun /\ runs' = runs
        /\ current = myRun[q]
    BY <1>6 DEF Release, ReleaseLock, Unlock, Holds, Return, Goto, storeVars, Inv, LocalInv,
                LocalTypeOK, StoreInv, LeaseCoherent
  <2>2. \A p \in Proc : p # q /\ pc[p] \in AgentPlaces => Kept(myRun[p])
    BY <2>1, AgentFacts, MaxRunsAssumption, Places DEF Kept, RunId, NoRun
  <2> QED BY <1>1, <2>1, <2>2, AgentRowsKept DEF AgentPlaces
<1>7. CASE Stop(q) /\ ForceStop
  <2>1. pc'[q] = "idle" /\ current' = NoRun
    BY <1>7 DEF Stop, ForceStop, Unlock, Return, Goto, Inv, LocalInv, LocalTypeOK
  <2>2. ASSUME NEW p \in Proc, pc[p] \in AgentPlaces PROVE Kept(myRun[p])
    <3>1. myRun[p] \in RunId /\ myRun[p] # NoRun
      BY <2>2, AgentFacts, MaxRunsAssumption DEF RunId, NoRun
    <3>2. CASE current = myRun[p]
      <4>1. runs[current].status = "running"
        BY <2>2, <3>2 DEF AgentRows
      <4>2. runs' = EndRun(current, "stopped", "blocked")
        BY <1>7, <3>1, <3>2, <4>1 DEF ForceStop
      <4>3. runs'[myRun[p]].status = "stopped"
        BY <3>1, <3>2, <4>2, EndRunRow DEF Inv, StoreInv, RunStatus, Phase, WaitingPhases
      <4> QED BY <2>1, <3>1, <4>3 DEF Kept
    <3>3. CASE current # myRun[p]
      <4>1. runs'[myRun[p]] = runs[myRun[p]]
        BY <1>7, <3>1, <3>3 DEF ForceStop, EndRun, Inv, StoreInv, StoreTypeOK
      <4> QED BY <2>1, <3>1, <3>3, <4>1 DEF Kept
    <3> QED BY <3>2, <3>3
  <2> QED BY <1>1, <2>1, <2>2, AgentRowsKept DEF AgentPlaces
<1>8. CASE Leave(q) /\ pc'[q] = "releasing"
  BY <1>2, <1>8 DEF Leave, storeVars, AgentPlaces
<1>9. CASE ~Leave(q) /\ \/ GiveUp(q) \/ ReadReady(q) \/ WriteRunning(q) \/ AgentReturns(q)
                        \/ RefreshAfterRun(q) \/ RecordOutcome(q) \/ ReadRunning(q)
                        \/ WriteOutcome(q) \/ AgentCancelled(q)
  <2>1. current' = current /\ runs' = runs
    BY <1>9 DEF GiveUp, ReadReady, WriteRunning, AgentReturns, RefreshAfterRun, RecordOutcome,
                ReadRunning, WriteOutcome, AgentCancelled, RunTransition, RefreshLock, storeVars
  <2>2. pc'[q] \in AgentPlaces => pc[q] \in AgentPlaces /\ myRun'[q] = myRun[q]
    BY <1>9 DEF GiveUp, ReadReady, WriteRunning, AgentReturns, RefreshAfterRun, RecordOutcome,
                ReadRunning, WriteOutcome, AgentCancelled, Proceed, Return, Goto, AgentPlaces,
                Inv, LocalInv, LocalTypeOK
  <2> QED BY <1>2, <2>1, <2>2
<1>10. CASE Release(q) /\ ~Holds(q, myRun[q])
  BY <1>2, <1>10 DEF Release, Return, Goto, storeVars, AgentPlaces, Inv, LocalInv, LocalTypeOK
<1>11. CASE Stop(q) /\ ~ForceStop
  BY <1>2, <1>11 DEF Stop, Return, Goto, storeVars, AgentPlaces, Inv, LocalInv, LocalTypeOK
<1>12. CASE Monitor(q)
  <2>1. current' = current /\ runs' = runs
    BY <1>12 DEF Monitor, AskProvider, RecordSighting, PrepareConflicts, RecordVerdict,
                 ReadWaiting, Reclaim, FallBack, Leave, RefreshLock, storeVars
  <2>2. pc'[q] \notin AgentPlaces
    BY <1>12 DEF Monitor, AskProvider, RecordSighting, PrepareConflicts, RecordVerdict,
                 ReadWaiting, Reclaim, FallBack, Leave, Proceed, Goto, AgentPlaces, Inv, LocalInv,
                 LocalTypeOK
  <2> QED BY <1>2, <2>1, <2>2
<1>13. Leave(q) => pc'[q] = "releasing"
  BY DEF Leave, Proceed, Goto, Inv, LocalInv, LocalTypeOK
<1> QED BY <1>3, <1>4, <1>5, <1>6, <1>7, <1>8, <1>9, <1>10, <1>11, <1>12, <1>13 DEF Work

(* Recovery never ends the run of an agent that is under way.              *)
LEMMA AgentRowsRecovery ==
  ASSUME OneHost, Inv, FlowInv, AgentRows, NEW q \in Proc,
         (\E then \in Goal : Recovery(q, then)) \/ LookAtGit(q)
  PROVE  AgentRows'
<1>1. \A p \in Proc : p # q => pc'[p] = pc[p] /\ myRun'[p] = myRun[p]
  BY DEF Recovery, RecoverIssue, ClaimRecovery, LookAtGit, ReportFinding, ConflictsGone, ClaimLost,
         FinishRecovery, NoResult, Proceed, Return, Goto, Inv, LocalInv, LocalTypeOK
<1>2. pc'[q] \notin AgentPlaces
  BY Types DEF Recovery, RecoverIssue, ClaimRecovery, LookAtGit, ReportFinding, ConflictsGone,
       ClaimLost, FinishRecovery, NoResult, Proceed, Return, Goto, Goal, AgentPlaces, Inv,
       LocalInv, LocalTypeOK
<1>3. SUFFICES ASSUME NEW p \in Proc, pc[p] \in AgentPlaces PROVE Kept(myRun[p])
  BY <1>1, <1>2, AgentRowsKept
<1>4. CASE current' = current /\ runs' = runs
  BY <1>4 DEF Kept
<1>5. ASSUME NEW a, NEW status \in {"completed", "interrupted"}, NEW next \in Phase,
             current # myRun[p], current' = NoRun,
             runs' = runs \/ runs' = RunsRecovered(RunForRecovery(a), status, next)
      PROVE  Kept(myRun[p])
  <2>1. runs[myRun[p]].status = "stopped" /\ myRun[p] \in RunId /\ myRun[p] # NoRun
    BY <1>3, <1>5, AgentFacts, MaxRunsAssumption DEF AgentRows, RunId, NoRun
  <2>2. StoreTypeOK /\ RunForRecovery(a) \in RunId \cup {NoRun}
    BY RunForRecoveryType DEF Inv, StoreInv
  <2>3. RunsRecovered(RunForRecovery(a), status, next)[myRun[p]] = runs[myRun[p]]
    BY <2>1, <2>2, RunsRecoveredRow
  <2> QED BY <1>5, <2>1, <2>3 DEF Kept
<1>6. ASSUME Recoverable(q), RecoverRow PROVE Kept(myRun[p])
  <2>1. current # myRun[p] /\ current' = NoRun
    BY <1>3, <1>6, AgentFacts
       DEF RecoverRow, RecoverRunning, RecoverReady, RecoverWaiting, RecoverMonitored,
           ApplyRecovery, Unlock
  <2>2. CASE RecoverRunning
    <3>1. ReadyPhase[AgentOfRunning(phase)] \in Phase
      BY <2>2, AgentOfPhase, PhaseTables DEF RecoverRunning
    <3>2. PICK next \in Phase :
            runs' = RunsRecovered(RunForRecovery(AgentOfRunning(phase)), "interrupted", next)
      BY <2>2, <3>1, TerminalTargetType DEF RecoverRunning
    <3> QED BY <1>5, <2>1, <3>2
  <2>3. CASE RecoverReady
    BY <1>5, <2>1, <2>3, PhaseTables DEF RecoverReady, StaleReady
  <2>4. CASE RecoverWaiting \/ RecoverMonitored
    BY <1>5, <2>1, <2>4 DEF RecoverWaiting, RecoverMonitored, Phase, WaitingPhases
  <2> QED BY <1>6, <2>2, <2>3, <2>4 DEF RecoverRow
<1>7. ASSUME NEW then \in Goal, Recovery(q, then) PROVE Kept(myRun[p])
  <2>1. CASE ClaimRecovery(q, then)
    BY <1>4, <2>1 DEF ClaimRecovery, ClaimLock
  <2>2. CASE RecoverIssue(q, then)
    BY <1>4, <1>6, <2>2 DEF RecoverIssue, storeVars
  <2> QED BY <1>7, <2>1, <2>2 DEF Recovery
<1>8. CASE LookAtGit(q)
  <2>1. CASE FinishRecovery(q) /\ ~NoResult(q)
    <3>1. /\ Holds(q, myRun[q]) \/ Recoverable(q)
          /\ runs' = RunsRecovered(RunForRecovery(agent[q]), FindingStatus(outcome[q]), outcome[q])
          /\ current' = NoRun /\ pc[q] = "reporting"
      BY <2>1 DEF FinishRecovery, RecoverClaimed, ApplyRecovery, Unlock
    <3>2. current # myRun[p]
      BY <1>3, <3>1, AgentFacts, Places DEF Holds
    <3>3. FindingStatus(outcome[q]) \in {"completed", "interrupted"} /\ outcome[q] \in Phase
      BY Types DEF FindingStatus
    <3> QED BY <1>5, <3>1, <3>2, <3>3
  <2>2. CASE ConflictsGone(q)
    <3>1. owner = q /\ pc[q] = "recovering" /\ current' = NoRun /\ runs' = runs
      BY <2>2 DEF ConflictsGone, StillClaimed, Holds, ReleaseLock, Unlock
    <3>2. current # myRun[p]
      BY <1>3, <3>1, AgentFacts, Places
    <3> QED BY <1>5, <3>1, <3>2 DEF Phase, WaitingPhases
  <2>3. CASE ReportFinding(q) \/ NoResult(q)
    BY <1>4, <2>3 DEF ReportFinding, NoResult, RefreshLock, storeVars
  <2> QED BY <1>8, <2>1, <2>2, <2>3 DEF LookAtGit, ClaimLost
<1> QED BY <1>7, <1>8

(* Every other step leaves an agent its row, when nobody resets or deletes *)
(* the issue.                                                              *)
LEMMA AgentRowsNext ==
  ASSUME LifecycleOp = {}, OneHost, Inv, FlowInv, AgentRows, [Next]_vars
  PROVE  AgentRows'
<1>1. ASSUME NEW q \in Proc, Heartbeat(q) \/ SourceConflicts(q) \/ CommitsConflicts(q)
      PROVE  AgentRows'
  <2>1. pc' = pc /\ myRun' = myRun /\ current' = current /\ runs' = runs
    BY <1>1 DEF Heartbeat, SourceConflicts, CommitsConflicts, RefreshLock, procVars, storeVars
  <2> QED BY <2>1, AgentRowsKept DEF Kept
<1>2. ASSUME NEW q \in Proc, Raise(q) \/ Crash(q) \/ RecoveryFails(q) \/ MonitorRaises(q)
      PROVE  AgentRows'
  <2>1. /\ current' = current /\ runs' = runs /\ pc'[q] \notin AgentPlaces
        /\ \A p \in Proc : p # q => pc'[p] = pc[p] /\ myRun'[p] = myRun[p]
    BY <1>2 DEF Raise, Crash, RecoveryFails, MonitorRaises, FallBack, Leave, Proceed, Return,
                Goto, AgentPlaces, storeVars, Inv, LocalInv, LocalTypeOK
  <2> QED BY <2>1, AgentRowsKept DEF Kept
<1>3. ASSUME NEW q \in Proc, ClaimMonitor(q) PROVE AgentRows'
  <2>1. /\ phase = "awaiting_pr_closure" /\ current' = lastRun + 1 /\ pc'[q] = "looking"
        /\ \A r \in RunId : r # lastRun + 1 => runs'[r] = runs[r]
        /\ \A p \in Proc : p # q => pc'[p] = pc[p] /\ myRun'[p] = myRun[p]
    BY <1>3 DEF ClaimMonitor, CanAcquire, AcquireMonitorLock, Goto, Inv, LocalInv, LocalTypeOK,
                StoreInv, StoreTypeOK
  <2>2. \A p \in Proc : pc[p] \in AgentPlaces => Kept(myRun[p])
    BY <2>1, AgentFacts, PhaseNames DEF Kept, RunId
  <2> QED BY <2>1, <2>2, AgentRowsKept DEF AgentPlaces
<1>4. CASE Answer
  <2>1. /\ pc' = pc /\ myRun' = myRun /\ current' = NoRun /\ runs' = runs
        /\ phase = "awaiting_human_input"
    BY <1>4 DEF Answer, CanAnswer, AnswerHumanInput, Unlock, procVars
  <2>2. \A p \in Proc : pc[p] \in AgentPlaces => Kept(myRun[p])
    BY <2>1, AgentFacts, IdlePhases, MaxRunsAssumption DEF Kept, RunId, NoRun
  <2> QED BY <2>1, <2>2, AgentRowsKept
<1>5. CASE Expire \/ UNCHANGED vars
  <2>1. pc' = pc /\ myRun' = myRun /\ current' = current /\ runs' = runs
    BY <1>5 DEF Expire, LeaseExpires, procVars, storeVars, vars
  <2> QED BY <2>1, AgentRowsKept DEF Kept
<1>6. ASSUME NEW m \in Manager, Manual(m) PROVE AgentRows'
  <2>1. pc' = pc /\ myRun' = myRun /\ current' = current /\ runs' = runs
    BY <1>6 DEF Manual, ManualRead, ManualWrite, ManualTransition, procVars, storeVars
  <2> QED BY <2>1, AgentRowsKept DEF Kept
<1> QED BY <1>1, <1>2, <1>3, <1>4, <1>5, <1>6, AgentRowsWork, AgentRowsRecovery DEF Next

(* On one host, an agent that still works on an issue it has lost was      *)
(* stopped, as long as people stop, answer and decide at the gates: no     *)
(* recovery, no answer and no other worker takes an issue from an agent    *)
(* under way.                                                              *)
THEOREM DisplacedAgentsWereStopped ==
  ASSUME KeepToGates, LifecycleOp = {} PROVE Spec => []DisplacedAgentWasStopped
<1>1. Init => (OneHost => AgentRows)
  BY DEF Init, AgentRows, AgentPlaces
<1>2. Inv /\ FlowInv /\ (OneHost => AgentRows) /\ [Next]_vars => (OneHost => AgentRows)'
  BY AgentRowsNext DEF OneHost
<1>3. (OneHost => AgentRows) => DisplacedAgentWasStopped
  BY DEF AgentRows, AgentPlaces, DisplacedAgentWasStopped
<1> QED BY <1>1, <1>2, <1>3, Invariance, FlowInvariance, PTL DEF Spec
-----------------------------------------------------------------------------
(* What a run has decided survives its worker.                             *)

Decided == {"returned", "recording", "settled"}

(* An agent decides on a move from its running phase, ...                  *)
DecisionsFit == \A p \in Proc : pc[p] \in Decided => Edge(RunningPhase[agent[p]], outcome[p])

(* ... the row of the current run, once it has ended, says what its worker *)
(* is about to write, ...                                                  *)
RowSays(p) ==
  runs[myRun[p]].status = "completed" =>
    /\ pc[p] \in {"completed", "moving", "releasing"}
    /\ pc[p] # "releasing" => runs[myRun[p]].next = outcome[p]

RowsSay == \A p \in Proc : pc[p] \in Pipeline /\ current = myRun[p] => RowSays(p)

(* ... and what it says is a move from the phase its issue is still in.    *)
EndedRunMoves ==
  phase \in RunningPhases /\ current # NoRun /\ runs[current].status = "completed" =>
    Edge(phase, runs[current].next) /\ runs[current].next # "awaiting_human_input"

OutcomeInv == DecisionsFit /\ RowsSay /\ EndedRunMoves

(* A step of one orchestrator, as in FlowStep.                             *)
LEMMA OutcomeStep ==
  ASSUME Inv, FlowInv, OutcomeInv, NEW p \in Proc,
         \A q \in Proc : q # p => /\ pc'[q] = pc[q] /\ myRun'[q] = myRun[q]
                                  /\ agent'[q] = agent[q] /\ outcome'[q] = outcome[q],
         pc'[p] \in Decided => Edge(RunningPhase[agent'[p]], outcome'[p]),
         pc'[p] \in Pipeline => pc[p] \in Pipeline /\ myRun'[p] = myRun[p],
         pc'[p] \in Pipeline /\ current' = myRun'[p] => RowSays(p)',
         \/ current' = NoRun
         \/ current' = current /\ UNCHANGED <<phase, runs>>
         \/ current' = current /\ current = myRun[p] /\ pc[p] \in Pipeline /\ EndedRunMoves'
  PROVE  OutcomeInv'
<1>1. DecisionsFit'
  BY DEF OutcomeInv, DecisionsFit
<1>2. RowsSay'
  <2> SUFFICES ASSUME NEW q \in Proc, pc'[q] \in Pipeline, current' = myRun'[q]
               PROVE  RowSays(q)'
    BY DEF RowsSay
  <2>1. CASE q = p
    BY <2>1
  <2>2. CASE q # p
    <3>1. pc[q] \in Pipeline /\ myRun'[q] = myRun[q] /\ myRun[q] # NoRun
      BY <2>2, Types, MaxRunsAssumption DEF RunId, NoRun
    <3>2. current' = current /\ UNCHANGED <<phase, runs>>
      BY <2>2, <3>1 DEF FlowInv, RunsDiffer
    <3> QED BY <2>2, <3>1, <3>2 DEF OutcomeInv, RowsSay, RowSays
  <2> QED BY <2>1, <2>2
<1>3. EndedRunMoves'
  BY DEF OutcomeInv, EndedRunMoves
<1> QED BY <1>1, <1>2, <1>3 DEF OutcomeInv

(* A step of nobody's run.                                                 *)
LEMMA OutcomeOthers ==
  ASSUME Inv, OutcomeInv, UNCHANGED <<pc, myRun, agent, outcome>>,
         current' = NoRun \/ (current' = current /\ UNCHANGED <<phase, runs>>)
  PROVE  OutcomeInv'
<1>1. \A p \in Proc : pc[p] \in Pipeline => myRun[p] # NoRun
  BY Types, MaxRunsAssumption DEF RunId, NoRun
<1> QED BY <1>1 DEF OutcomeInv, DecisionsFit, RowsSay, RowSays, EndedRunMoves

(* From one place to the next, with the row as it is but for its lease.    *)
LEMMA OutcomeProceeds ==
  ASSUME Inv, FlowInv, OutcomeInv, Rests, NEW p \in Proc, NEW w,
         \A q \in Proc : /\ pc'[q] = IF q = p THEN w ELSE pc[q]
                         /\ myRun'[q] = myRun[q] /\ agent'[q] = agent[q]
                         /\ q # p => outcome'[q] = outcome[q],
         w \in Pipeline => pc[p] \in Pipeline,
         w \in Decided => Edge(RunningPhase[agent[p]], outcome'[p]),
         \/ w = "releasing" \/ pc[p] \notin {"completed", "moving", "releasing"}
         \/ w = "moving" /\ pc[p] = "completed" /\ outcome'[p] = outcome[p]
  PROVE  OutcomeInv'
<1>1. ASSUME pc'[p] \in Pipeline, current' = myRun'[p] PROVE RowSays(p)'
  <2>1. RowSays(p)
    BY <1>1 DEF Rests, OutcomeInv, RowsSay
  <2> QED BY <2>1 DEF RowSays, Rests
<1> QED BY <1>1, OutcomeStep DEF Rests

(* The end of a call.                                                      *)
LEMMA OutcomeReturns ==
  ASSUME Inv, FlowInv, OutcomeInv, NEW p \in Proc, NEW w, w \notin Pipeline, Return(p, w),
         current' = NoRun \/ (current' = current /\ UNCHANGED <<phase, runs>>)
  PROVE  OutcomeInv'
<1>1. /\ pc'[p] = w
      /\ \A q \in Proc : q # p => /\ pc'[q] = pc[q] /\ myRun'[q] = myRun[q]
                                  /\ agent'[q] = agent[q] /\ outcome'[q] = outcome[q]
  BY DEF Return, Goto, Inv, LocalInv, LocalTypeOK
<1>2. w \notin Decided
  BY DEF Decided, Pipeline
<1> QED BY <1>1, <1>2, OutcomeStep

LEMMA OutcomeLeaves ==
  ASSUME Inv, FlowInv, OutcomeInv, NEW p \in Proc, pc[p] \in Pipeline, Leave(p)
  PROVE  OutcomeInv'
<1>1. Rests
  BY DEF Leave, storeVars, Rests
<1>2. \A q \in Proc : /\ pc'[q] = IF q = p THEN "releasing" ELSE pc[q]
                      /\ myRun'[q] = myRun[q] /\ agent'[q] = agent[q] /\ outcome'[q] = outcome[q]
  BY DEF Leave, Proceed, Goto, Inv, LocalInv, LocalTypeOK
<1>3. "releasing" \notin Decided
  BY DEF Decided
<1> QED BY <1>1, <1>2, <1>3, OutcomeProceeds

(* The moves out of the running phases, by name.                           *)
LEMMA RunningMoves ==
  /\ ValidTransitions["researching"] = {"ready_for_plan", "awaiting_human_input", "blocked"}
  /\ ValidTransitions["planning"] =
       {"awaiting_plan_approval", "ready_for_plan", "awaiting_human_input", "blocked"}
  /\ ValidTransitions["implementing"] =
       {"ready_for_validation", "awaiting_human_input", "blocked"}
  /\ ValidTransitions["validating"] =
       {"ready_for_review", "ready_for_implementation", "awaiting_human_input", "blocked"}
  /\ ValidTransitions["reviewing"] =
       {"awaiting_merge_approval", "ready_for_implementation",
        "ready_for_merge_conflict_resolution", "awaiting_human_input", "blocked"}
  /\ ValidTransitions["merging"] =
       {"done", "awaiting_pr_closure", "ready_for_merge_conflict_resolution", "blocked"}
  /\ ValidTransitions["resolving_merge_conflicts"] =
       {"ready_for_validation", "ready_for_implementation", "awaiting_human_input", "blocked"}
<1>1. {"researching", "planning", "implementing", "validating", "reviewing", "merging",
       "resolving_merge_conflicts"} \subseteq Phase
  BY PhaseNames DEF Phase
<1> QED BY <1>1 DEF ValidTransitions

LEMMA RunningNames ==
  /\ RunningPhase["research"] = "researching" /\ RunningPhase["plan"] = "planning"
  /\ RunningPhase["implementation"] = "implementing"
  /\ RunningPhase["validation"] = "validating" /\ RunningPhase["review"] = "reviewing"
  /\ RunningPhase["merge"] = "merging"
  /\ RunningPhase["merge_conflict_resolution"] = "resolving_merge_conflicts"
  BY DEF RunningPhase, Agent

(* Whatever an agent returns is a move from its running phase.             *)
LEMMA ResultsAreMoves ==
  ASSUME NEW a \in Agent, NEW next \in Results(a) PROVE Edge(RunningPhase[a], next)
<1>1. RunningPhase[a] \in Phase
  BY PhaseTables
<1>2. CASE a = "merge"
  BY <1>1, <1>2, RunningMoves, RunningNames DEF Results, Edge
<1>3. CASE a # "merge"
  <2>1. a \in AskingAgents
    BY <1>3 DEF AskingAgents
  <2>2. \/ \E r \in Recommendations[a] : next = Normalised(a, r)
        \/ next \in {"awaiting_human_input", "blocked"}
        \/ a = "plan" /\ next = "ready_for_plan"
    BY <1>3 DEF Results
  <2>3. CASE \E r \in Recommendations[a] : next = Normalised(a, r)
    <3>1. \/ a = "research" /\ next = "ready_for_plan"
          \/ a = "plan" /\ next = "awaiting_plan_approval"
          \/ a = "implementation" /\ next = "ready_for_validation"
          \/ a = "validation" /\ next \in {"ready_for_review", "ready_for_implementation"}
          \/ a = "review" /\ next \in {"awaiting_merge_approval", "ready_for_implementation"}
          \/ /\ a = "merge_conflict_resolution"
             /\ next \in {"ready_for_validation", "ready_for_implementation"}
      BY <2>1, <2>3 DEF Recommendations, Normalised, DefaultNextPhase, AskingAgents, Agent
    <3> QED BY <1>1, <3>1, RunningMoves, RunningNames DEF Edge
  <2>4. CASE next \in {"awaiting_human_input", "blocked"}
    BY <1>1, <1>3, <2>4, RunningMoves, RunningNames DEF Agent, Edge
  <2>5. CASE a = "plan" /\ next = "ready_for_plan"
    BY <1>1, <2>5, RunningMoves, RunningNames DEF Edge
  <2> QED BY <2>2, <2>3, <2>4, <2>5
<1> QED BY <1>2, <1>3

(* No move ends in a running phase, but that of a worker that takes an     *)
(* issue up.                                                               *)
LEMMA NoEdgeToRunning ==
  ASSUME NEW next, phase \in RunningPhases \cup {"awaiting_pr_closure"}, Edge(phase, next)
  PROVE  next \notin RunningPhases
  BY PhaseNames DEF Edge, ValidTransitions, Phase, WaitingPhases, AskingAgents, ReadyPhase, Agent

-----------------------------------------------------------------------------
(* OutcomeInv is inductive.                                                *)

LEMMA OutcomeAcquires ==
  ASSUME Inv, FlowInv, OutcomeInv, NEW p \in Proc, Acquire(p) \/ ClaimMonitor(p)
  PROVE  OutcomeInv'
<1>1. /\ lastRun + 1 \in RunId /\ current' = lastRun + 1 /\ lastRun \in Nat
      /\ myRun'[p] = lastRun + 1 /\ runs'[lastRun + 1].status # "completed"
  <2>1. lastRun + 1 \in RunId /\ lastRun \in Nat /\ runs[lastRun + 1] = AbsentRow
    BY MaxRunsAssumption DEF Acquire, AcquireLock, ClaimMonitor, AcquireMonitorLock, Inv,
       StoreInv, StoreTypeOK, RunsDrawn, RunId
  <2>2. runs'[lastRun + 1].status # "completed"
    BY <2>1 DEF Acquire, AcquireLock, ClaimMonitor, AcquireMonitorLock, Inv,
       StoreInv, StoreTypeOK, AbsentRow, MonitorRow
  <2> QED BY <2>1, <2>2
          DEF Acquire, AcquireLock, ClaimMonitor, AcquireMonitorLock, Inv, LocalInv, LocalTypeOK
<1>2. /\ pc'[p] \notin Decided /\ outcome' = outcome
      /\ \A q \in Proc : q # p => pc'[q] = pc[q] /\ myRun'[q] = myRun[q] /\ agent'[q] = agent[q]
  BY DEF Acquire, ClaimMonitor, Goto, Decided, Inv, LocalInv, LocalTypeOK
<1>3. \A q \in Proc : q # p /\ pc[q] \in Pipeline => myRun[q] < lastRun + 1
  BY <1>1, MaxRunsAssumption DEF Inv, LocalInv, RunsAreTheirs, RunId
<1>4. DecisionsFit' /\ EndedRunMoves'
  BY <1>1, <1>2 DEF OutcomeInv, DecisionsFit, EndedRunMoves
<1>5. RowsSay'
  BY <1>1, <1>2, <1>3 DEF RowsSay, RowSays
<1> QED BY <1>4, <1>5 DEF OutcomeInv

(* The moves of the row that its own run makes.                            *)
LEMMA OutcomeWrites ==
  ASSUME Inv, FlowInv, OutcomeInv, NEW p \in Proc,
         WriteRunning(p) \/ StartRun(p) \/ Complete(p) \/ WriteOutcome(p) \/ CompleteAndAsk(p)
  PROVE  OutcomeInv'
<1>1. pc[p] \in Pipeline /\ myRun[p] \in RunId /\ myRun[p] # NoRun
  BY Types, PipelinePlaces, MaxRunsAssumption
     DEF WriteRunning, StartRun, Complete, WriteOutcome, CompleteAndAsk, RunId, NoRun
<1>2. CASE Leave(p)
  BY <1>1, <1>2, OutcomeLeaves
<1>3. CASE ~Leave(p)
  <2>1. current = myRun[p] /\ InPlace(p) /\ RowSays(p)
    BY <1>1, <1>3 DEF WriteRunning, StartRun, Complete, WriteOutcome, CompleteAndAsk, CanComplete,
                      CanAsk, FlowInv, PhasesFit, OutcomeInv, RowsSay
  <2>2. \A q \in Proc : /\ q # p => pc'[q] = pc[q]
                        /\ myRun'[q] = myRun[q] /\ agent'[q] = agent[q] /\ outcome'[q] = outcome[q]
    BY <1>3 DEF WriteRunning, StartRun, Complete, WriteOutcome, CompleteAndAsk, Proceed, Goto, Inv,
                LocalInv, LocalTypeOK
  <2>3. CASE WriteRunning(p)
    <3>1. /\ pc[p] = "starting" /\ pc'[p] = "started" /\ current' = current /\ UNCHANGED runs
      BY <1>3, <2>3 DEF WriteRunning, RunTransition, Proceed, Goto, Inv, LocalInv, LocalTypeOK
    <3>2. runs[myRun[p]].status # "completed"
      BY <2>1, <3>1 DEF RowSays
    <3>3. RowSays(p)' /\ EndedRunMoves' /\ pc'[p] \notin Decided
      BY <2>1, <2>2, <3>1, <3>2 DEF RowSays, EndedRunMoves, Decided
    <3> QED BY <1>1, <2>1, <2>2, <3>1, <3>3, OutcomeStep
  <2>4. CASE StartRun(p)
    <3>1. /\ pc'[p] = "running" /\ current' = current /\ runs'[myRun[p]].status = "running"
      BY <1>1, <1>3, <2>4
         DEF StartRun, CreateRun, Goto, Inv, LocalInv, LocalTypeOK, StoreInv, StoreTypeOK
    <3>2. RowSays(p)' /\ EndedRunMoves' /\ pc'[p] \notin Decided
      BY <2>1, <2>2, <3>1 DEF RowSays, EndedRunMoves, Decided
    <3> QED BY <1>1, <2>1, <2>2, <3>1, <3>2, OutcomeStep
  <2>5. CASE Complete(p)
    <3>1. /\ phase' = phase /\ pc[p] = "settled" /\ pc'[p] = "completed" /\ current' = current
          /\ outcome[p] # "awaiting_human_input"
          /\ runs' = EndRun(myRun[p], "completed", outcome[p])
      BY <1>3, <2>5
         DEF Complete, CompleteRun, Proceed, Goto, Inv, LocalInv, LocalTypeOK
    <3>2. runs'[myRun[p]].status = "completed" /\ runs'[myRun[p]].next = outcome[p]
      BY <1>1, <3>1, Types, EndRunRow DEF Inv, StoreInv, RunStatus
    <3>3. phase = RunningPhase[agent[p]] /\ Edge(phase, outcome[p])
      BY <2>1, <3>1 DEF InPlace, DuringRun, OutcomeInv, DecisionsFit, Decided
    <3>4. RowSays(p)' /\ EndedRunMoves' /\ pc'[p] \notin Decided
      BY <2>1, <2>2, <3>1, <3>2, <3>3 DEF RowSays, EndedRunMoves, Decided
    <3> QED BY <1>1, <2>1, <2>2, <3>1, <3>4, OutcomeStep
  <2>6. CASE WriteOutcome(p)
    <3>1. /\ phase' = outcome[p] /\ pc[p] = "moving" /\ pc'[p] = "releasing"
          /\ current' = current /\ UNCHANGED runs
      BY <1>3, <2>6 DEF WriteOutcome, RunTransition, Proceed, Goto, Inv, LocalInv, LocalTypeOK
    <3>2. phase' \notin RunningPhases
      BY <2>1, <3>1, NoEdgeToRunning DEF InPlace
    <3>3. RowSays(p)' /\ EndedRunMoves' /\ pc'[p] \notin Decided
      BY <2>1, <2>2, <3>1, <3>2 DEF RowSays, EndedRunMoves, Decided
    <3> QED BY <1>1, <2>1, <2>2, <3>1, <3>3, OutcomeStep
  <2>7. CASE CompleteAndAsk(p)
    <3>1. pc'[p] = "releasing" /\ current' = NoRun
      BY <1>3, <2>7
         DEF CompleteAndAsk, CompleteRunAndAsk, Unlock, Proceed, Goto, Inv, LocalInv, LocalTypeOK
    <3>2. pc'[p] \notin Decided
      BY <3>1 DEF Decided
    <3> QED BY <1>1, <2>1, <2>2, <3>1, <3>2, OutcomeStep
  <2> QED BY <2>3, <2>4, <2>5, <2>6, <2>7
<1> QED BY <1>2, <1>3

(* What an orchestrator does of its run without writing the row, save for  *)
(* its lease.                                                              *)
LEMMA OutcomeReads ==
  ASSUME Inv, FlowInv, OutcomeInv, NEW p \in Proc,
         \/ ReadReady(p) \/ AgentReturns(p) \/ AgentCancelled(p) \/ RefreshAfterRun(p)
         \/ RecordOutcome(p) \/ ReadRunning(p) \/ Raise(p)
  PROVE  OutcomeInv'
<1>1. pc[p] \in BeforeRun \cup DuringRun
  BY DEF ReadReady, AgentReturns, AgentCancelled, RefreshAfterRun, RecordOutcome, ReadRunning,
         Raise, BeforeRun, DuringRun
<1>2. CASE Leave(p)
  BY <1>1, <1>2, OutcomeLeaves, Places
<1>3. CASE ~Leave(p)
  <2>1. Rests
    BY <1>3 DEF ReadReady, AgentReturns, AgentCancelled, RefreshAfterRun, RecordOutcome,
                ReadRunning, Raise, RefreshLock, storeVars, Rests
  <2>2. PICK w : /\ \A q \in Proc : /\ pc'[q] = IF q = p THEN w ELSE pc[q]
                                    /\ myRun'[q] = myRun[q] /\ agent'[q] = agent[q]
                                    /\ q # p => outcome'[q] = outcome[q]
                 /\ \/ w = "starting" /\ pc[p] = "acquired"
                    \/ /\ w = "returned" /\ pc[p] = "running"
                       /\ outcome'[p] \in Results(agent[p])
                    \/ /\ w \in {"recording", "settled"} /\ pc[p] \in Decided
                       /\ outcome'[p] \in {outcome[p], "blocked"}
                    \/ w = "moving" /\ pc[p] = "completed" /\ outcome'[p] = outcome[p]
    BY <1>3 DEF ReadReady, AgentReturns, AgentCancelled, RefreshAfterRun, RecordOutcome,
                ReadRunning, Raise, Proceed, Goto, Decided, Inv, LocalInv, LocalTypeOK
  <2>3. w \in Decided => Edge(RunningPhase[agent[p]], outcome'[p])
    <3>1. agent[p] \in Agent /\ RunningPhase[agent[p]] \in RunningPhases
      BY Types, PhaseTables
    <3> QED BY <2>2, <3>1, ResultsAreMoves, RunningEdges DEF Decided, OutcomeInv, DecisionsFit
  <2>4. /\ w \in Pipeline
        /\ pc[p] \notin {"completed", "moving", "releasing"} \/ (w = "moving" /\ pc[p] = "completed")
    BY <2>2 DEF Decided, Pipeline
  <2> QED BY <1>1, <2>1, <2>2, <2>3, <2>4, OutcomeProceeds, Places
<1> QED BY <1>2, <1>3

(* What a monitor does before it writes its verdict.                       *)
LEMMA OutcomeMonitors ==
  ASSUME Inv, FlowInv, OutcomeInv, NEW p \in Proc, Monitor(p) \/ MonitorRaises(p)
  PROVE  OutcomeInv'
<1>1. pc[p] \in Monitoring
  BY DEF Monitor, MonitorRaises, AskProvider, RecordSighting, PrepareConflicts, RecordVerdict,
         ReadWaiting, Monitoring
<1>2. CASE Leave(p)
  BY <1>1, <1>2, OutcomeLeaves, Places
<1>3. CASE ~Leave(p)
  <2>1. Rests
    BY <1>3 DEF Monitor, MonitorRaises, AskProvider, RecordSighting, PrepareConflicts,
                RecordVerdict, ReadWaiting, Reclaim, FallBack, RefreshLock, storeVars, Rests
  <2>2. PICK w \in Monitoring \cup {"releasing", "moving"} :
          \A q \in Proc : /\ pc'[q] = IF q = p THEN w ELSE pc[q]
                          /\ myRun'[q] = myRun[q] /\ agent'[q] = agent[q]
                          /\ q # p => outcome'[q] = outcome[q]
    <3>1. CASE FallBack(p)
      BY <1>3, <3>1 DEF FallBack, Goto, Monitoring, Inv, LocalInv, LocalTypeOK
    <3>2. CASE ~FallBack(p)
      BY <1>3, <3>2
         DEF Monitor, MonitorRaises, AskProvider, RecordSighting, PrepareConflicts, RecordVerdict,
             ReadWaiting, Reclaim, Proceed, Goto, Monitoring, Inv, LocalInv, LocalTypeOK
    <3> QED BY <3>1, <3>2
  <2>3. w \notin Decided /\ pc[p] \notin {"completed", "moving", "releasing"}
    BY <1>1, <2>2 DEF Monitoring, Decided
  <2> QED BY <1>1, <2>1, <2>2, <2>3, OutcomeProceeds, Places
<1> QED BY <1>2, <1>3

(* Threads beside the run, and what conflicts do to it.                    *)
LEMMA OutcomeBeside ==
  ASSUME Inv, FlowInv, OutcomeInv, NEW p \in Proc,
         Heartbeat(p) \/ SourceConflicts(p) \/ CommitsConflicts(p)
  PROVE  OutcomeInv'
<1>1. Rests
  BY DEF Heartbeat, SourceConflicts, CommitsConflicts, RefreshLock, storeVars, Rests
<1>2. CASE SourceConflicts(p)
  <2>1. /\ pc[p] \in {"running", "recording"}
        /\ pc[p] = "recording" => /\ agent[p] = "review"
                                  /\ outcome'[p] = "ready_for_merge_conflict_resolution"
        /\ \A q \in Proc : /\ pc'[q] = IF q = p THEN pc[p] ELSE pc[q]
                           /\ myRun'[q] = myRun[q] /\ agent'[q] = agent[q]
                           /\ q # p => outcome'[q] = outcome[q]
    BY <1>2 DEF SourceConflicts, SyncsSource, Inv, LocalInv, LocalTypeOK
  <2>2. "reviewing" \in Phase
    BY PhaseNames DEF Phase
  <2>3. pc[p] \in Decided => Edge(RunningPhase[agent[p]], outcome'[p])
    BY <2>1, <2>2, RunningMoves, RunningNames DEF Decided, Edge
  <2> QED BY <1>1, <2>1, <2>3, OutcomeProceeds
<1>3. CASE ~SourceConflicts(p)
  <2>1. UNCHANGED <<pc, myRun, agent, outcome>>
    BY <1>3 DEF Heartbeat, CommitsConflicts, procVars
  <2> QED BY <1>1, <2>1, OutcomeOthers DEF Rests
<1> QED BY <1>2, <1>3

(* The ends of calls.                                                      *)
LEMMA OutcomeEnds ==
  ASSUME Inv, FlowInv, OutcomeInv, NEW p \in Proc,
         GiveUp(p) \/ Release(p) \/ Stop(p) \/ Crash(p) \/ RecoveryFails(p)
  PROVE  OutcomeInv'
<1>1. PICK w \in {"idle", "dead"} : Return(p, w)
  BY DEF GiveUp, Release, Stop, Crash, RecoveryFails
<1>2. w \notin Pipeline
  BY Places DEF Goal
<1>3. current' = NoRun \/ (current' = current /\ UNCHANGED <<phase, runs>>)
  BY DEF GiveUp, Release, Stop, Crash, RecoveryFails, ReleaseLock, ForceStop, Unlock, storeVars
<1> QED BY <1>1, <1>2, <1>3, OutcomeReturns

(* A recovery ends with the lock cleared, or has touched nothing but the   *)
(* owner and the lease.                                                    *)
LEMMA OutcomeRecovers ==
  ASSUME Inv, FlowInv, OutcomeInv, NEW p \in Proc,
         (\E then \in Goal : Recovery(p, then)) \/ LookAtGit(p)
  PROVE  OutcomeInv'
<1>1. current' = NoRun \/ (current' = current /\ UNCHANGED <<phase, runs>>)
  BY DEF Recovery, RecoverIssue, ClaimRecovery, ClaimLock, LookAtGit, ReportFinding, ConflictsGone,
         ClaimLost, FinishRecovery, NoResult, RecoverRow, RecoverRunning, RecoverReady,
         RecoverWaiting, RecoverMonitored, RecoverClaimed, ApplyRecovery, RefreshLock,
         ReleaseLock, Unlock, storeVars
<1>2. /\ pc'[p] \notin Pipeline
      /\ \A q \in Proc : q # p => /\ pc'[q] = pc[q] /\ myRun'[q] = myRun[q]
                                  /\ agent'[q] = agent[q] /\ outcome'[q] = outcome[q]
  BY Types, Places
     DEF Recovery, RecoverIssue, ClaimRecovery, LookAtGit, ReportFinding, ConflictsGone, ClaimLost,
         FinishRecovery, NoResult, Proceed, Return, Goto, Inv, LocalInv, LocalTypeOK
<1>3. pc'[p] \notin Decided
  BY <1>2 DEF Decided, Pipeline
<1> QED BY <1>1, <1>2, <1>3, OutcomeStep

LEMMA OutcomeNext ==
  ASSUME Inv, FlowInv, IntentFits, OutcomeInv, [Next]_vars PROVE OutcomeInv'
<1>1. ASSUME NEW p \in Proc, Work(p) PROVE OutcomeInv'
  BY <1>1, OutcomeReads, OutcomeWrites, OutcomeMonitors, OutcomeEnds, OutcomeAcquires DEF Work
<1>2. CASE Answer \/ Expire \/ (\E o \in LifecycleOp : Lifecycle(o)) \/ UNCHANGED vars
  <2>1. UNCHANGED <<pc, myRun, agent, outcome>>
    BY <1>2 DEF Answer, Expire, Lifecycle, BeginOp, FinishOp, FailOp, OpGoto, procVars, vars
  <2>2. current' = NoRun \/ (current' = current /\ UNCHANGED <<phase, runs>>)
    BY <1>2 DEF Answer, AnswerHumanInput, Expire, LeaseExpires, Lifecycle, BeginOp, Reserve,
                FinishOp, FailOp, ClearHistory, ReleaseLock, Unlock, vars, storeVars
  <2> QED BY <2>1, <2>2, OutcomeOthers
<1>3. ASSUME NEW m \in Manager, Manual(m) PROVE OutcomeInv'
  <2>1. UNCHANGED <<pc, myRun, agent, outcome, current, runs>>
    BY <1>3 DEF Manual, ManualRead, ManualWrite, ManualTransition, procVars, storeVars
  <2>2. CASE UNCHANGED phase
    BY <2>1, <2>2, OutcomeOthers
  <2>3. CASE phase' # phase
    <3>1. phase' = intent[m] /\ Edge(phase, intent[m]) /\ phase \in Gate
      BY <1>3, <2>3 DEF Manual, ManualRead, ManualWrite, ManualTransition, IntentFits, storeVars
    <3>2. phase' \notin RunningPhases
      BY <3>1, PhaseNames DEF Gate, Edge, ValidTransitions, Phase, WaitingPhases
    <3> QED BY <2>1, <3>2 DEF OutcomeInv, DecisionsFit, RowsSay, RowSays, EndedRunMoves
  <2> QED BY <2>2, <2>3
<1> QED BY <1>1, <1>2, <1>3, OutcomeReads, OutcomeMonitors, OutcomeEnds, OutcomeAcquires,
           OutcomeBeside, OutcomeRecovers DEF Next

-----------------------------------------------------------------------------
(* A step out of a running phase whose run has ended, and stays ended.     *)
Outlives(r) ==
  /\ phase \in RunningPhases \ {"merging"} /\ phase' # phase
  /\ runs[r].status = "completed" /\ current = r /\ runs'[r].status = "completed"

AsDecided(r) ==
  \/ phase' = runs[r].next
  \/ /\ phase = "reviewing" /\ phase' = "ready_for_merge_conflict_resolution"
     /\ \E p \in Proc : pc[p] = "reporting" /\ pc'[p] # "reporting"

(* The worker of the run moves the issue, ...                              *)
LEMMA WorkerMovesOn ==
  ASSUME Inv, FlowInv, OutcomeInv, NEW r \in RunId, Outlives(r), NEW p \in Proc, Work(p)
  PROVE  AsDecided(r)
<1>1. CASE WriteRunning(p)
  <2>1. pc[p] \in Pipeline /\ pc[p] \in BeforeRun /\ current = myRun[p] /\ agent[p] \in Agent
    BY <1>1, PipelinePlaces, Types
       DEF WriteRunning, BeforeRun, Leave, storeVars, Outlives
  <2>2. phase \in ReadyPhases
    BY <2>1, PhaseTables DEF FlowInv, PhasesFit, InPlace
  <2> QED BY <2>2, PhaseNames DEF Outlives
<1>2. CASE WriteOutcome(p)
  <2>1. /\ pc[p] = "moving" /\ pc[p] \in Pipeline /\ current = myRun[p] /\ phase' = outcome[p]
    BY <1>2, PipelinePlaces DEF WriteOutcome, RunTransition, Leave, storeVars, Outlives
  <2> QED BY <2>1 DEF OutcomeInv, RowsSay, RowSays, Outlives, AsDecided
<1>3. CASE CompleteAndAsk(p)
  BY <1>3 DEF CompleteAndAsk, CanAsk, CanComplete, Leave, storeVars, Outlives
<1>4. CASE Stop(p)
  <2>1. ForceStop
    BY <1>4 DEF Stop, storeVars, Outlives
  <2>2. runs' = EndRun(r, "stopped", "blocked")
    BY <2>1, MaxRunsAssumption DEF ForceStop, Outlives, RunId, NoRun
  <2>3. runs'[r].status = "stopped"
    BY <2>2, EndRunRow DEF Inv, StoreInv, RunStatus, Phase, WaitingPhases
  <2> QED BY <2>3 DEF Outlives
<1>5. CASE UNCHANGED phase
  BY <1>5 DEF Outlives
<1> QED
  BY <1>1, <1>2, <1>3, <1>4, <1>5
     DEF Work, GiveUp, Acquire, AcquireLock, ReadReady, StartRun, CreateRun, AgentReturns,
         AgentCancelled, RefreshAfterRun, RefreshLock, RecordOutcome, Complete, CompleteRun,
         ReadRunning, Release, ReleaseLock, Monitor, AskProvider, RecordSighting, PrepareConflicts,
         RecordVerdict, ReadWaiting, Reclaim, FallBack, Leave, storeVars

(* ... or a recovery does, which reads the row of the run.                 *)
LEMMA RecoveryMovesOn ==
  ASSUME Inv, FlowInv, OutcomeInv, NEW r \in RunId, Outlives(r), NEW p \in Proc,
         (\E then \in Goal : Recovery(p, then)) \/ LookAtGit(p)
  PROVE  AsDecided(r)
<1>1. r # NoRun
  BY MaxRunsAssumption DEF RunId, NoRun
<1>2. CASE RecoverRow
  <2>1. RecoverRunning
    BY <1>2 DEF RecoverRow, RecoverReady, RecoverWaiting, RecoverMonitored, ApplyRecovery, Outlives
  <2>2. RunForRecovery(AgentOfRunning(phase)) = r
    BY <1>1 DEF RunForRecovery, Outlives
  <2>3. phase' = TerminalTarget(r)
    BY <1>1, <2>1, <2>2 DEF RecoverRunning, ApplyRecovery, Outlives
  <2>4. Edge(phase, runs[r].next) /\ runs[r].next # "awaiting_human_input"
    BY <1>1 DEF OutcomeInv, EndedRunMoves, Outlives
  <2> QED BY <2>3, <2>4 DEF TerminalTarget, AsDecided
<1>3. CASE FinishRecovery(p)
  <2>1. /\ pc[p] = "reporting" /\ phase = RunningPhase[agent[p]] /\ phase' = outcome[p]
        /\ Return(p, goal[p])
    BY <1>3 DEF FinishRecovery, NoResult, RecoverClaimed, ApplyRecovery, storeVars, Outlives
  <2>2. agent[p] = "review" /\ outcome[p] = "ready_for_merge_conflict_resolution"
    BY <2>1, RunningNames DEF Inv, LocalInv, OutcomesFit, Outlives
  <2>3. pc'[p] # "reporting"
    BY <2>1, Types, Places DEF Return, Goto, Inv, LocalInv, LocalTypeOK
  <2> QED BY <2>1, <2>2, <2>3, RunningNames DEF AsDecided
<1>4. CASE UNCHANGED phase
  BY <1>4 DEF Outlives
<1> QED
  BY <1>2, <1>3, <1>4
     DEF Recovery, RecoverIssue, ClaimRecovery, ClaimLock, LookAtGit, ReportFinding, RefreshLock,
         ConflictsGone, ReleaseLock, ClaimLost, NoResult, storeVars

(* A run that ended keeps its outcome through a crash of its worker, on    *)
(* however many hosts and whoever stops, answers or resets meanwhile:      *)
(* whatever moves the issue on moves it where the run said, or has claimed *)
(* a review and seen the conflicts in its worktree.                        *)
THEOREM OutcomesSurviveCrashes == ASSUME KeepToGates PROVE Spec => OutcomeSurvivesCrash
<1>1. Init => OutcomeInv
  BY Places DEF Init, StoreInit, OutcomeInv, DecisionsFit, Decided, RowsSay, EndedRunMoves, Goal
<1>2. Inv /\ FlowInv /\ IntentFits /\ OutcomeInv /\ [Next]_vars => OutcomeInv'
  BY OutcomeNext
<1>3. ASSUME Inv, FlowInv, IntentFits, OutcomeInv, Next, NEW r \in RunId, Outlives(r) PROVE AsDecided(r)
  <2>1. CASE UNCHANGED phase
    BY <2>1, <1>3 DEF Outlives
  <2>2. CASE Answer
    BY <1>3, <2>2, IdlePhases DEF Answer, CanAnswer, Outlives
  <2>3. ASSUME NEW o \in LifecycleOp, Lifecycle(o), phase' # phase PROVE runs'[r] = AbsentRow
    BY <2>3 DEF Lifecycle, BeginOp, Reserve, FinishOp, FailOp, ReleaseLock, ClearHistory, storeVars
  <2>4. \A o \in LifecycleOp : ~Lifecycle(o)
    BY <1>3, <2>3 DEF Outlives, AbsentRow
  <2>5. ASSUME NEW p \in Proc, Heartbeat(p) \/ SourceConflicts(p) \/ CommitsConflicts(p)
                 \/ Raise(p) \/ Crash(p) \/ MonitorRaises(p) \/ RecoveryFails(p) \/ ClaimMonitor(p)
        PROVE  UNCHANGED phase
    BY <2>5 DEF Heartbeat, SourceConflicts, CommitsConflicts, Raise, Crash, MonitorRaises,
                RecoveryFails, ClaimMonitor, AcquireMonitorLock, FallBack, Leave, RefreshLock,
                storeVars
  <2>6. Expire => UNCHANGED phase
    BY DEF Expire, LeaseExpires
  <2>7. ASSUME NEW m \in Manager, Manual(m) PROVE UNCHANGED phase
    <3>1. phase # Deleted /\ phase \notin Gate
      BY <1>3, Gates, IdlePhases DEF Outlives
    <3> QED BY <1>3, <2>7, <3>1 DEF Manual, ManualRead, ManualWrite, IntentFits, storeVars
  <2> QED BY <1>3, <2>1, <2>2, <2>4, <2>5, <2>6, <2>7, WorkerMovesOn, RecoveryMovesOn DEF Next
<1>4. Inv /\ FlowInv /\ IntentFits /\ OutcomeInv /\ [Next]_vars =>
        [\A r \in RunId : Outlives(r) => AsDecided(r)]_vars
  BY <1>3
<1>5. Inv /\ FlowInv /\ IntentFits /\ OutcomeInv /\ [Next]_vars =>
        [\A r \in RunId :
           /\ phase \in RunningPhases \ {"merging"} /\ phase' # phase
           /\ runs[r].status = "completed" /\ current = r /\ runs'[r].status = "completed"
           => \/ phase' = runs[r].next
              \/ /\ phase = "reviewing" /\ phase' = "ready_for_merge_conflict_resolution"
                 /\ \E p \in Proc : pc[p] = "reporting" /\ pc'[p] # "reporting"]_vars
  BY <1>4 DEF Outlives, AsDecided
<1> QED BY <1>1, <1>2, <1>5, Invariance, FlowInvariance, PTL DEF Spec, OutcomeSurvivesCrash
-----------------------------------------------------------------------------
(* A fresh start, whoever moves the issue.                                 *)

(* Nobody decides on a draft: no agent, no monitor, no manager.            *)
NoDrafts ==
  /\ \A p \in Proc : outcome[p] # "draft"
  /\ \A m \in Manager : intent[m] # "draft"

LEMMA DraftsNext == ASSUME Inv, NoDrafts, [Next]_vars PROVE NoDrafts'
<1> DEFINE Decides == \A p \in Proc : outcome'[p] # "draft"
<1>1. outcome' = outcome => Decides
  BY DEF NoDrafts
<1>2. ASSUME NEW p, NEW next, next # "draft", outcome' = [outcome EXCEPT ![p] = next]
      PROVE  Decides
  BY <1>2 DEF NoDrafts, Inv, LocalInv, LocalTypeOK
<1>3. ASSUME NEW p \in Proc, NEW w, Return(p, w) PROVE Decides
  BY <1>2, <1>3 DEF Return
<1>4. ASSUME NEW p \in Proc, AgentReturns(p) PROVE Decides
  <2>1. PICK next \in Results(agent[p]) : outcome' = [outcome EXCEPT ![p] = next]
    BY <1>4 DEF AgentReturns
  <2>2. next # "draft"
    BY <2>1, Types, ResultsAreMoves, RunningEdges
  <2> QED BY <1>2, <2>1, <2>2
<1>5. ASSUME NEW p \in Proc, FallBack(p) PROVE Decides
  BY <1>1, <1>2, <1>5 DEF FallBack, Leave, Proceed
<1>6. ASSUME NEW p \in Proc, Monitor(p) PROVE Decides
  BY <1>1, <1>2, <1>5, <1>6
     DEF Monitor, AskProvider, Sightings, RecordSighting, PrepareConflicts, RecordVerdict,
         ReadWaiting, Reclaim, Leave, Proceed
<1>7. ASSUME NEW p \in Proc, Work(p) PROVE Decides
  BY <1>1, <1>2, <1>3, <1>4, <1>6, <1>7
     DEF Work, GiveUp, Acquire, ReadReady, WriteRunning, StartRun, AgentCancelled,
         RefreshAfterRun, RecordOutcome, CompleteAndAsk, Complete, ReadRunning, WriteOutcome,
         Release, Stop, Leave, Proceed
<1>8. ASSUME NEW p \in Proc, LookAtGit(p) PROVE Decides
  <2>1. CASE ReportFinding(p)
    BY <1>2, <2>1 DEF ReportFinding, Findings, MergeFindings
  <2> QED BY <1>1, <1>3, <1>8, <2>1
          DEF LookAtGit, ConflictsGone, ClaimLost, FinishRecovery, NoResult, Proceed
<1>9. ASSUME NEW p \in Proc, NEW then \in Goal, Recovery(p, then) PROVE Decides
  BY <1>1, <1>3, <1>9 DEF Recovery, RecoverIssue, ClaimRecovery
<1>10. ASSUME NEW p \in Proc, \/ Heartbeat(p) \/ SourceConflicts(p) \/ CommitsConflicts(p)
                              \/ Raise(p) \/ Crash(p) \/ RecoveryFails(p)
                              \/ ClaimMonitor(p) \/ MonitorRaises(p)
       PROVE  Decides
  BY <1>1, <1>2, <1>3, <1>5, <1>10
     DEF Heartbeat, SourceConflicts, CommitsConflicts, Raise, Crash, RecoveryFails, ClaimMonitor,
         MonitorRaises, Leave, Proceed, procVars
<1>11. ASSUME \/ \E m \in Manager : Manual(m)
              \/ \E o \in LifecycleOp : Lifecycle(o)
              \/ Answer \/ Expire \/ UNCHANGED vars
       PROVE  Decides
  <2>1. outcome' = outcome
    BY <1>11 DEF Manual, ManualRead, ManualWrite, Lifecycle, BeginOp, FinishOp, FailOp, OpGoto,
                 Answer, Expire, procVars, vars
  <2> QED BY <1>1, <2>1
<1>12. Decides
  BY <1>7, <1>8, <1>9, <1>10, <1>11 DEF Next
<1>13. ASSUME NEW m \in Manager PROVE intent'[m] # "draft"
  <2>1. CASE \E n \in Manager : Manual(n)
    BY <2>1, RunningEdges
       DEF Manual, ManualRead, ManualWrite, TransitionAllowed, NoDrafts, Inv, LocalInv, LocalTypeOK
  <2>2. CASE UNCHANGED vars
    BY <2>2 DEF vars, NoDrafts
  <2> QED BY <2>1, <2>2, IntentIsTheirs DEF NoDrafts
<1> QED BY <1>12, <1>13 DEF NoDrafts

(* Clearing the history is the one way into a draft, or out of the table.  *)
LEMMA OnlyClearing ==
  ASSUME Inv, NoDrafts, Next, phase' \in {"draft", Deleted}, phase' # phase
  PROVE  \E next \in {"draft", Deleted} : ClearHistory(next)
<1>1. phase' \notin RunningPhases \cup ReadyPhases \cup {"awaiting_human_input", "blocked"}
  BY IdlePhases, PhaseNames DEF Deleted
<1>2. ASSUME NEW p \in Proc PROVE phase' # outcome[p]
  BY Types, IdlePhases DEF NoDrafts
<1>3. ASSUME NEW p \in Proc, Work(p) PROVE FALSE
  <2>1. CASE WriteRunning(p) \/ WriteOutcome(p) \/ CompleteAndAsk(p)
    <3>1. phase' \in {RunningPhase[agent[p]], outcome[p], "awaiting_human_input"}
      BY <2>1 DEF WriteRunning, WriteOutcome, CompleteAndAsk, RunTransition, CompleteRunAndAsk,
                  Leave, storeVars
    <3> QED BY <1>1, <1>2, <3>1, Types, PhaseTables
  <2>2. CASE Stop(p)
    BY <1>1, <2>2 DEF Stop, ForceStop, storeVars
  <2> QED
    BY <1>3, <2>1, <2>2
       DEF Work, GiveUp, Acquire, AcquireLock, ReadReady, StartRun, CreateRun, AgentReturns,
           AgentCancelled, RefreshAfterRun, RefreshLock, RecordOutcome, Complete, CompleteRun,
           ReadRunning, Release, ReleaseLock, Monitor, AskProvider, RecordSighting,
           PrepareConflicts, RecordVerdict, ReadWaiting, Reclaim, FallBack, Leave, storeVars
<1>4. ASSUME NEW p \in Proc, LookAtGit(p) PROVE FALSE
  BY <1>2, <1>4
     DEF LookAtGit, ReportFinding, ConflictsGone, ClaimLost, FinishRecovery, NoResult, RefreshLock,
         ReleaseLock, RecoverClaimed, ApplyRecovery, storeVars
<1>5. ASSUME RecoverRunning PROVE FALSE
  <2>1. AgentOfRunning(phase) \in Agent
    BY <1>5, AgentOfPhase DEF RecoverRunning
  <2>2. \/ phase' = ReadyPhase[AgentOfRunning(phase)]
        \/ \E r : phase' = TerminalTarget(r)
    BY <1>5 DEF RecoverRunning, ApplyRecovery
  <2>3. \A r : TerminalTarget(r) \notin {"draft", Deleted}
    BY EdgeTarget, RunningEdges, IdlePhases DEF TerminalTarget, Deleted
  <2> QED BY <1>1, <2>1, <2>2, <2>3, PhaseTables
<1>6. ASSUME NEW p \in Proc, NEW then \in Goal, Recovery(p, then) PROVE FALSE
  BY <1>5, <1>6
     DEF Recovery, RecoverIssue, ClaimRecovery, ClaimLock, RecoverRow, RecoverReady,
         RecoverWaiting, RecoverMonitored, ApplyRecovery, storeVars
<1>7. ASSUME NEW p \in Proc, \/ Heartbeat(p) \/ SourceConflicts(p) \/ CommitsConflicts(p)
                             \/ Raise(p) \/ Crash(p) \/ RecoveryFails(p)
                             \/ ClaimMonitor(p) \/ MonitorRaises(p)
      PROVE  FALSE
  BY <1>7 DEF Heartbeat, SourceConflicts, CommitsConflicts, Raise, Crash, RecoveryFails,
              ClaimMonitor, AcquireMonitorLock, MonitorRaises, FallBack, Leave, RefreshLock,
              storeVars
<1>8. ASSUME NEW m \in Manager, Manual(m) PROVE FALSE
  BY <1>8, IdlePhases
     DEF Manual, ManualRead, ManualWrite, ManualTransition, NoDrafts, storeVars, Inv, LocalInv,
         LocalTypeOK, Deleted
<1>9. ASSUME NEW o \in LifecycleOp, Lifecycle(o)
      PROVE  \E next \in {"draft", Deleted} : ClearHistory(next)
  BY <1>9 DEF Lifecycle, BeginOp, FinishOp, FailOp, Reserve, ReleaseLock, storeVars
<1>10. ~Answer
  BY <1>1, PhaseTables DEF Answer, CanAnswer, AnswerHumanInput, Inv, StoreInv, StoreTypeOK, Request
<1>11. ~Expire
  BY DEF Expire, LeaseExpires
<1> QED BY <1>3, <1>4, <1>6, <1>7, <1>8, <1>9, <1>10, <1>11 DEF Next

(* A fresh issue has nothing a late worker, a recovery or a manager could  *)
(* add to.                                                                 *)
LEMMA FreshStays ==
  ASSUME Inv, FreshStart, Next, phase \in {"draft", Deleted}, phase' = phase PROVE FreshStart'
<1> DEFINE Same == UNCHANGED <<runs, request, mover>> /\ current' = NoRun
           Clears == \E next \in {"draft", Deleted} : ClearHistory(next)
<1>1. /\ current = NoRun
      /\ phase \notin ReadyPhases \cup RunningPhases
                        \cup {"awaiting_pr_closure", "awaiting_human_input"}
  BY IdlePhases DEF FreshStart, Deleted
<1>2. ASSUME NEW p \in Proc, pc[p] \in Pipeline PROVE current # myRun[p]
  BY <1>1, <1>2, Types, MaxRunsAssumption DEF RunId, NoRun
<1>3. UNCHANGED storeVars \/ RefreshLock \/ ReleaseLock => Same
  BY <1>1 DEF RefreshLock, ReleaseLock, Unlock, storeVars
<1>4. ASSUME NEW p \in Proc, Work(p) PROVE Same
  <2>1. CASE WriteRunning(p) \/ StartRun(p) \/ Complete(p) \/ WriteOutcome(p) \/ CompleteAndAsk(p)
    <3>1. current # myRun[p]
      BY <1>2, <2>1, PipelinePlaces
         DEF WriteRunning, StartRun, Complete, WriteOutcome, CompleteAndAsk
    <3> QED BY <1>3, <2>1, <3>1
            DEF WriteRunning, StartRun, Complete, WriteOutcome, CompleteAndAsk, CanAsk, CanComplete,
                Leave
  <2>2. CASE Stop(p)
    BY <1>3, <2>2 DEF Stop, Stoppable
  <2> QED
    BY <1>1, <1>3, <1>4, <2>1, <2>2
       DEF Work, GiveUp, Acquire, ReadReady, AgentReturns, AgentCancelled, RefreshAfterRun,
           RecordOutcome, ReadRunning, Release, Monitor, AskProvider, RecordSighting,
           PrepareConflicts, RecordVerdict, ReadWaiting, Reclaim, FallBack, Leave
<1>5. ASSUME NEW p \in Proc, LookAtGit(p) PROVE Same
  <2>1. RunningPhase[agent[p]] \in RunningPhases
    BY Types, PhaseTables
  <2> QED BY <1>1, <1>3, <1>5, <2>1
          DEF LookAtGit, ReportFinding, ConflictsGone, ClaimLost, FinishRecovery, NoResult
<1>6. ASSUME NEW p \in Proc, NEW then \in Goal, Recovery(p, then) PROVE Same
  BY <1>1, <1>3, <1>6
     DEF Recovery, RecoverIssue, ClaimRecovery, MustClaim, RecoverRow, RecoverRunning, RecoverReady,
         StaleReady, RecoverWaiting, StaleWaiting, RecoverMonitored, StaleMonitored, Deleted
<1>7. ASSUME NEW p \in Proc, \/ Heartbeat(p) \/ SourceConflicts(p) \/ CommitsConflicts(p)
                             \/ Raise(p) \/ Crash(p) \/ RecoveryFails(p)
                             \/ ClaimMonitor(p) \/ MonitorRaises(p)
      PROVE  Same
  BY <1>1, <1>3, <1>7
     DEF Heartbeat, SourceConflicts, CommitsConflicts, Raise, Crash, RecoveryFails, ClaimMonitor,
         CanAcquire, MonitorRaises, FallBack, Leave
<1>8. ASSUME NEW m \in Manager, Manual(m) PROVE Same
  BY <1>1, <1>3, <1>8 DEF Manual, ManualRead, ManualWrite, ManualTransition
<1>9. ASSUME NEW o \in LifecycleOp, Lifecycle(o) PROVE Same \/ Clears
  BY <1>3, <1>9 DEF Lifecycle, BeginOp, Reserve, FinishOp, FailOp
<1>10. ~Answer
  BY <1>1 DEF Answer, CanAnswer
<1>11. Expire => Same
  BY <1>1 DEF Expire, LeaseExpires
<1>12. Same \/ Clears
  BY <1>4, <1>5, <1>6, <1>7, <1>8, <1>9, <1>10, <1>11 DEF Next
<1>13. Clears => FreshStart'
  BY DEF ClearHistory, Unlock, FreshStart
<1> QED BY <1>12, <1>13 DEF FreshStart

(* A reset leaves no trace of the work done before, and no late worker, no *)
(* recovery and no manager, however many there are and wherever they move  *)
(* the issue, brings one back.                                             *)
THEOREM ResetsStartAfresh == Spec => []FreshStart
<1>1. Init => NoDrafts /\ FreshStart
  BY DEF Init, StoreInit, NoDrafts, FreshStart
<1>2. Inv /\ (NoDrafts /\ FreshStart) /\ [Next]_vars => (NoDrafts /\ FreshStart)'
  <2> SUFFICES ASSUME Inv, NoDrafts, FreshStart, [Next]_vars PROVE NoDrafts' /\ FreshStart'
    OBVIOUS
  <2>1. CASE UNCHANGED vars
    BY <2>1, DraftsNext DEF vars, storeVars, FreshStart
  <2>2. CASE Next /\ phase' \in {"draft", Deleted} /\ phase' # phase
    <3>1. PICK next \in {"draft", Deleted} : ClearHistory(next)
      BY <2>2, OnlyClearing
    <3> QED BY <3>1, DraftsNext DEF ClearHistory, Unlock, FreshStart
  <2>3. CASE phase' \notin {"draft", Deleted}
    BY <2>3, DraftsNext DEF FreshStart
  <2> QED BY <2>1, <2>2, <2>3, FreshStays, DraftsNext
<1> QED BY <1>1, <1>2, Invariance, PTL DEF Spec
=============================================================================

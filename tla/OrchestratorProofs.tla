------------------------- MODULE OrchestratorProofs -------------------------
(***************************************************************************)
(* Theorems about Orchestrator, for any number of orchestrators, managers, *)
(* resets, deletes and runs.  Inv is inductive: the stored issue is sound  *)
(* (IssueStoreProofs), every orchestrator that executes a run has drawn it *)
(* and holds its lock, and what it has decided fits its agent phase.       *)
(***************************************************************************)
EXTENDS Orchestrator, IssueStoreProofs

(* Where an orchestrator has not decided on anything yet.                  *)
Undecided == Goal \cup {"recovering", "dead", "acquired", "starting", "started", "running",
                      "looking"}

RunsAreTheirs ==
  \A p \in Proc : pc[p] \in Pipeline =>
    /\ myRun[p] \in RunId /\ myRun[p] <= lastRun
    /\ OneHost /\ current = myRun[p] => owner = p

OutcomesFit ==
  \A p \in Proc :
    /\ pc[p] \in Undecided => outcome[p] = "blocked"
    /\ pc[p] \in Pipeline =>
         /\ outcome[p] # "ready_for_merge"
         /\ outcome[p] = "awaiting_human_input" => agent[p] # "merge"
    /\ pc[p] \in {"recovering", "reporting"} => agent[p] \in {"merge", "review"}
    /\ pc[p] = "reporting" /\ agent[p] = "review" =>
         outcome[p] = "ready_for_merge_conflict_resolution"

LocalInv == LocalTypeOK /\ RunsAreTheirs /\ OutcomesFit

Inv == StoreInv /\ LocalInv

(* A step that draws no run and hands the lock of the current run to       *)
(* nobody else.                                                            *)
Quiet ==
  /\ lastRun' = lastRun
  /\ current' = NoRun \/ (current' = current /\ owner' = owner)

(* A step that leaves the stored issue alone keeps it sound.               *)
LEMMA UnchangedStore == ASSUME StoreInv, UNCHANGED storeVars PROVE StoreInv' /\ Quiet
  BY DEF StoreInv, StoreTypeOK, LeaseCoherent, RetiredRunsFenced, RunsDrawn, Quiet, storeVars

(* A step from one place of the pipeline to the next.                      *)
LEMMA ProceedInv ==
  ASSUME LocalInv, Quiet, NEW p \in Proc, NEW w \in PC, Proceed(p, w),
         w \in Pipeline => pc[p] \in Pipeline,
         w \in Undecided => pc[p] \in Undecided,
         w \notin {"recovering", "reporting"}
  PROVE  LocalInv'
<1>1. LocalTypeOK'
  BY DEF LocalInv, LocalTypeOK, Proceed, Goto
<1>2. \A q \in Proc : /\ myRun'[q] = myRun[q] /\ outcome'[q] = outcome[q] /\ agent'[q] = agent[q]
                      /\ pc'[q] = IF q = p THEN w ELSE pc[q]
  BY DEF LocalInv, LocalTypeOK, Proceed, Goto
<1>3. RunsAreTheirs'
  BY <1>2, MaxRunsAssumption
     DEF LocalInv, RunsAreTheirs, Quiet, NoRun, RunId, OneHost
<1>4. OutcomesFit'
  BY <1>2 DEF LocalInv, OutcomesFit
<1> QED BY <1>1, <1>3, <1>4 DEF LocalInv

(* A step out of whatever an orchestrator was doing.                       *)
LEMMA ReturnInv ==
  ASSUME LocalInv, Quiet, NEW p \in Proc, NEW w \in PC \ (Pipeline \cup {"recovering", "reporting"}), Return(p, w)
  PROVE  LocalInv'
<1>1. LocalTypeOK'
  BY DEF LocalInv, LocalTypeOK, Return, Goto, Goal, Agent, Phase, WaitingPhases, RunId, NoRun
<1>2. \A q \in Proc : /\ q # p => /\ myRun'[q] = myRun[q] /\ outcome'[q] = outcome[q]
                                  /\ agent'[q] = agent[q] /\ pc'[q] = pc[q]
                      /\ q = p => pc'[q] = w /\ outcome'[q] = "blocked"
  BY DEF LocalInv, LocalTypeOK, Return, Goto
<1>3. RunsAreTheirs'
  BY <1>2, MaxRunsAssumption
     DEF LocalInv, RunsAreTheirs, Quiet, NoRun, RunId, OneHost
<1>4. OutcomesFit'
  BY <1>2 DEF LocalInv, OutcomesFit
<1> QED BY <1>1, <1>3, <1>4 DEF LocalInv

(* A step of somebody else.                                                *)
LEMMA OthersInv ==
  ASSUME LocalInv, Quiet, UNCHANGED procVars, UNCHANGED conflicted \/ conflicted' \in BOOLEAN,
         intent' \in [Manager -> Phase \cup {"none"}],
         opState' \in [LifecycleOp -> {"idle", "reserved", "over"}]
  PROVE  LocalInv'
  BY MaxRunsAssumption
     DEF LocalInv, LocalTypeOK, RunsAreTheirs, OutcomesFit, Quiet, procVars, NoRun, RunId, OneHost

(* The invariant holds at the start.                                       *)
LEMMA InitInv == Init => Inv
<1> SUFFICES ASSUME Init PROVE Inv
  OBVIOUS
<1>1. StoreInv
  BY StoreInitInv DEF Init
<1>2. LocalTypeOK
  BY DEF Init, LocalTypeOK, PC, Goal, Agent, Phase, WaitingPhases
<1>3. RunsAreTheirs /\ OutcomesFit
  BY DEF Init, RunsAreTheirs, OutcomesFit, Pipeline, Monitoring, Goal
<1> QED BY <1>1, <1>2, <1>3 DEF Inv, LocalInv
-----------------------------------------------------------------------------
(* One lemma per group of actions: each keeps Inv.                         *)

(* Places outside the pipeline, by name.                                   *)
LEMMA PlacesType ==
  /\ Goal \subseteq PC \ (Pipeline \cup {"recovering", "reporting"})
  /\ Goal \subseteq Undecided
  /\ Pipeline \subseteq PC
  /\ {"recovering", "reporting", "rescan", "dead"} \subseteq PC \ Pipeline
  BY DEF Goal, PC, Pipeline, Monitoring, Undecided

(* What the variables of one orchestrator range over.                      *)
LEMMA Types ==
  ASSUME Inv, NEW p \in Proc
  PROVE  /\ p \in Owner
         /\ agent[p] \in Agent /\ outcome[p] \in Phase /\ goal[p] \in Goal /\ pc[p] \in PC
         /\ myRun[p] \in RunId \cup {NoRun}
         /\ pc[p] \in Pipeline => myRun[p] \in RunId
         /\ RunningPhase[agent[p]] \in Phase
  BY OwnerAssumption, PhaseTables DEF Inv, LocalInv, LocalTypeOK, RunsAreTheirs

(* Leaving the pipeline for its finally clause.                            *)
LEMMA LeaveInv ==
  ASSUME Inv, NEW p \in Proc, pc[p] \in Pipeline, Leave(p) PROVE Inv'
<1>1. StoreInv' /\ Quiet
  BY UnchangedStore DEF Inv, Leave
<1>2. "releasing" \in PC /\ "releasing" \in Pipeline /\ "releasing" \notin Undecided
  BY DEF PC, Pipeline, Monitoring, Undecided, Goal
<1> QED BY <1>1, <1>2, ProceedInv DEF Inv, Leave

(* An ordinary recovery may break a lock, but ends the run it belonged to. *)
LEMMA RecoverIssueInv ==
  ASSUME Inv, NEW p \in Proc, NEW then \in Goal, RecoverIssue(p, then) PROVE Inv'
<1>1. CASE Recoverable(p) /\ RecoverRow
  <2>1. StoreInv'
    BY <1>1, RecoverRowInv DEF Inv
  <2>2. Quiet
    BY <1>1 DEF RecoverRow, RecoverRunning, RecoverReady, RecoverWaiting, RecoverMonitored,
                 ApplyRecovery, Unlock, Quiet
  <2> QED BY <2>1, <2>2, ReturnInv, PlacesType DEF Inv, RecoverIssue
<1>2. CASE UNCHANGED storeVars
  BY <1>2, UnchangedStore, ReturnInv, PlacesType DEF Inv, RecoverIssue
<1> QED BY <1>1, <1>2 DEF RecoverIssue

(* A claim leaves the run current under a new owner; on one host its       *)
(* living orchestrator would not have let it happen.                       *)
LEMMA ClaimRecoveryInv ==
  ASSUME Inv, NEW p \in Proc, NEW then \in Goal, ClaimRecovery(p, then) PROVE Inv'
<1> USE DEF Inv
<1>1. StoreInv'
  BY Types, ClaimLockInv DEF ClaimRecovery
<1>2. AgentOfRunning(phase) \in Agent
  BY AgentOfPhase, PhaseNames DEF ClaimRecovery, MustClaim
<1>3. current \in RunId \cup {NoRun}
  BY DEF StoreInv, StoreTypeOK
<1>4. LocalTypeOK'
  BY <1>2, <1>3, PlacesType DEF LocalInv, LocalTypeOK, ClaimRecovery, Goto
<1>5. ASSUME NEW q \in Proc, pc'[q] \in Pipeline
      PROVE  q # p /\ pc[q] \in Pipeline /\ myRun'[q] = myRun[q] /\ agent'[q] = agent[q]
  BY <1>5 DEF ClaimRecovery, LocalInv, LocalTypeOK, Goto, Pipeline, Monitoring
<1>6. ASSUME NEW q \in Proc, pc[q] \in Pipeline, OneHost, current = myRun[q] PROVE FALSE
  <2>1. owner = q /\ myRun[q] \in RunId /\ HostOf[q] = HostOf[p]
    BY <1>6 DEF LocalInv, RunsAreTheirs, OneHost
  <2>2. Alive(q)
    BY <1>6 DEF Alive, Pipeline, Monitoring
  <2>3. lease # "none"
    BY <1>6, <2>1, MaxRunsAssumption DEF StoreInv, LeaseCoherent, RunId, NoRun
  <2> QED BY <2>1, <2>2, <2>3 DEF ClaimRecovery, MustClaim, Recoverable, KnownDead, KnownLive
<1>7. current' = current /\ lastRun' = lastRun
  BY DEF ClaimRecovery, ClaimLock
<1>8. RunsAreTheirs'
  BY <1>5, <1>6, <1>7 DEF LocalInv, RunsAreTheirs, OneHost
<1>9. OutcomesFit'
  <2>1. outcome' = outcome /\ outcome[p] = "blocked"
    BY PlacesType DEF ClaimRecovery, LocalInv, OutcomesFit, Goal
  <2>2. \A q \in Proc : pc'[q] = IF q = p THEN "recovering" ELSE pc[q]
    BY DEF ClaimRecovery, Goto, LocalInv, LocalTypeOK
  <2>3. "recovering" \notin Pipeline
    BY DEF Pipeline, Monitoring
  <2>4. /\ agent'[p] \in {"merge", "review"}
        /\ \A q \in Proc : q # p => agent'[q] = agent[q]
    <3>1. phase \in {"merging", "reviewing"}
      BY DEF ClaimRecovery, MustClaim
    <3>2. RunningPhase[AgentOfRunning(phase)] = phase
      BY <3>1, AgentOfPhase, PhaseNames
    <3>3. AgentOfRunning(phase) \in {"merge", "review"}
      BY <1>2, <3>1, <3>2 DEF RunningPhase, Agent
    <3> QED BY <3>3 DEF ClaimRecovery, LocalInv, LocalTypeOK
  <2> QED BY <2>1, <2>2, <2>3, <2>4 DEF LocalInv, OutcomesFit
<1> QED BY <1>1, <1>4, <1>8, <1>9 DEF LocalInv

(* A recovery that finds nothing.                                          *)
LEMMA NoResultInv == ASSUME Inv, NEW p \in Proc, NoResult(p) PROVE Inv'
<1>1. StoreInv' /\ Quiet
  BY UnchangedStore DEF Inv, NoResult
<1>2. "rescan" \in PC /\ "rescan" \notin Pipeline /\ "rescan" \notin Undecided
  BY DEF PC, Pipeline, Monitoring, Undecided, Goal
<1>3. CASE Proceed(p, "rescan")
  BY <1>1, <1>2, <1>3, ProceedInv DEF Inv
<1>4. CASE Return(p, goal[p])
  BY <1>1, <1>4, ReturnInv, Types, PlacesType DEF Inv
<1> QED BY <1>3, <1>4 DEF NoResult

(* A finding about a review is always a conflict, one about a merge may be *)
(* anything.                                                               *)
LEMMA ReportFindingInv == ASSUME Inv, NEW p \in Proc, ReportFinding(p) PROVE Inv'
<1> USE DEF Inv
<1>1. StoreInv'
  BY Types, RefreshLockInv DEF ReportFinding, StillClaimed
<1>2. PICK next \in Findings(p) : outcome' = [outcome EXCEPT ![p] = next]
  BY DEF ReportFinding
<1>3. next \in Phase
  BY PhaseNames DEF Findings, MergeFindings, Phase, WaitingPhases
<1>4. LocalTypeOK'
  BY <1>2, <1>3, PlacesType DEF ReportFinding, Goto, LocalInv, LocalTypeOK
<1>5. \A q \in Proc : /\ pc'[q] = IF q = p THEN "reporting" ELSE pc[q]
                      /\ q # p => outcome'[q] = outcome[q]
  BY <1>2 DEF ReportFinding, Goto, LocalInv, LocalTypeOK
<1>6. "reporting" \notin Pipeline /\ "reporting" \notin Undecided
  BY DEF Pipeline, Monitoring, Undecided, Goal
<1>7. UNCHANGED <<myRun, agent, owner, current, lastRun>>
  BY DEF ReportFinding, RefreshLock
<1>8. RunsAreTheirs'
  BY <1>5, <1>6, <1>7 DEF LocalInv, RunsAreTheirs, OneHost
<1>9. OutcomesFit'
  <2>1. agent[p] \in {"merge", "review"}
    BY DEF ReportFinding, LocalInv, OutcomesFit
  <2>2. agent[p] = "review" => outcome'[p] = "ready_for_merge_conflict_resolution"
    BY <1>2 DEF Findings, LocalInv, LocalTypeOK
  <2> QED BY <1>5, <1>6, <1>7, <2>1, <2>2 DEF LocalInv, OutcomesFit
<1> QED BY <1>1, <1>4, <1>8, <1>9 DEF LocalInv

(* A review without conflicts gives the claim back.                        *)
LEMMA ConflictsGoneInv == ASSUME Inv, NEW p \in Proc, ConflictsGone(p) PROVE Inv'
<1>1. StoreInv' /\ Quiet
  BY ReleaseLockInv DEF Inv, ConflictsGone, ReleaseLock, Unlock, Quiet
<1>2. "rescan" \in PC /\ "rescan" \notin Pipeline /\ "rescan" \notin Undecided
  BY DEF PC, Pipeline, Monitoring, Undecided, Goal
<1> QED BY <1>1, <1>2, ProceedInv DEF Inv, ConflictsGone

(* What was found is written, and the lock cleared.                        *)
LEMMA FinishRecoveryInv == ASSUME Inv, NEW p \in Proc, FinishRecovery(p) PROVE Inv'
<1>1. CASE /\ RecoverClaimed(agent[p], outcome[p], FindingStatus(outcome[p]))
           /\ Return(p, goal[p])
  <2>1. FindingStatus(outcome[p]) \in {"completed", "interrupted"}
    BY DEF FindingStatus
  <2>2. StoreInv'
    BY <1>1, <2>1, Types, RecoverClaimedInv DEF Inv
  <2>3. Quiet
    BY <1>1 DEF RecoverClaimed, ApplyRecovery, Unlock, Quiet
  <2> QED BY <1>1, <2>2, <2>3, Types, ReturnInv, PlacesType DEF Inv
<1>2. CASE NoResult(p)
  BY <1>2, NoResultInv
<1> QED BY <1>1, <1>2 DEF FinishRecovery

(* A fresh run id belongs to nobody else.                                  *)
LEMMA AcquireInv == ASSUME Inv, NEW p \in Proc, Acquire(p) PROVE Inv'
<1> USE DEF Inv
<1>1. StoreInv'
  BY Types, AcquireLockInv DEF Acquire
<1>2. AgentOfReady(phase) \in Agent
  BY AgentOfPhase DEF Acquire
<1>3. /\ lastRun + 1 \in RunId /\ lastRun' = lastRun + 1 /\ current' = lastRun + 1
      /\ owner' = p /\ lastRun \in Nat
  BY MaxRunsAssumption DEF Acquire, AcquireLock, StoreInv, StoreTypeOK, RunId
<1>4. LocalTypeOK'
  BY <1>2, <1>3, PlacesType DEF Acquire, Goto, LocalInv, LocalTypeOK, Pipeline
<1>5. /\ pc'[p] = "acquired" /\ myRun'[p] = lastRun + 1
      /\ \A q \in Proc : q # p => pc'[q] = pc[q] /\ myRun'[q] = myRun[q] /\ agent'[q] = agent[q]
  BY DEF Acquire, Goto, LocalInv, LocalTypeOK
<1>6. outcome' = outcome /\ outcome[p] = "blocked"
  BY PlacesType DEF Acquire, LocalInv, OutcomesFit, Goal
<1>7. RunsAreTheirs'
  <2> SUFFICES ASSUME NEW q \in Proc, pc'[q] \in Pipeline
               PROVE  /\ myRun'[q] \in RunId /\ myRun'[q] <= lastRun'
                      /\ current' = myRun'[q] => owner' = q
    BY DEF RunsAreTheirs, OneHost
  <2>1. CASE q = p
    BY <1>3, <1>5, <2>1, MaxRunsAssumption
  <2>2. CASE q # p
    BY <1>3, <1>5, <2>2, MaxRunsAssumption DEF LocalInv, RunsAreTheirs, RunId
  <2> QED BY <2>1, <2>2
<1>8. OutcomesFit'
  BY <1>5, <1>6 DEF LocalInv, OutcomesFit
<1> QED BY <1>1, <1>4, <1>7, <1>8 DEF LocalInv

(* Nothing to process.                                                     *)
LEMMA GiveUpInv == ASSUME Inv, NEW p \in Proc, GiveUp(p) PROVE Inv'
  BY UnchangedStore, ReturnInv, PlacesType DEF Inv, GiveUp, Goal

(* The places of the pipeline, and whether a decision has been made there. *)
LEMMA PipelinePlaces ==
  /\ {"starting", "started", "running"} \subseteq PC \cap Pipeline \cap Undecided
  /\ {"acquired", "starting", "started", "running"} \subseteq Pipeline \cap Undecided
  /\ {"returned", "recording", "settled", "completed", "moving", "releasing"}
       \subseteq (PC \cap Pipeline) \ Undecided
  /\ "looking" \in Undecided
  /\ {"looked", "repairing", "deciding", "checked"} \subseteq Monitoring \ Undecided
  /\ Monitoring \subseteq PC \cap Pipeline
  /\ Pipeline \cap {"recovering", "reporting"} = {}
  BY DEF PC, Pipeline, Monitoring, Undecided, Goal

(* First half of the transition to the running phase.                      *)
LEMMA ReadReadyInv == ASSUME Inv, NEW p \in Proc, ReadReady(p) PROVE Inv'
<1>1. CASE UNCHANGED storeVars /\ Proceed(p, "starting")
  BY <1>1, UnchangedStore, ProceedInv, PipelinePlaces DEF Inv, ReadReady
<1>2. CASE Leave(p)
  BY <1>2, LeaveInv, PipelinePlaces DEF ReadReady
<1> QED BY <1>1, <1>2 DEF ReadReady

(* Second half of it, guarded by the current run.                          *)
LEMMA WriteRunningInv == ASSUME Inv, NEW p \in Proc, WriteRunning(p) PROVE Inv'
<1>1. pc[p] \in Pipeline \cap Undecided
  BY PipelinePlaces DEF WriteRunning
<1>2. CASE /\ current = myRun[p]
           /\ RunTransition(myRun[p], RunningPhase[agent[p]])
           /\ Proceed(p, "started")
  <2>1. StoreInv'
    BY <1>1, <1>2, Types, RunTransitionInv DEF Inv
  <2>2. Quiet
    BY <1>2 DEF RunTransition, Quiet
  <2> QED BY <1>1, <1>2, <2>1, <2>2, ProceedInv, PipelinePlaces DEF Inv
<1>3. CASE Leave(p)
  BY <1>1, <1>3, LeaveInv
<1> QED BY <1>2, <1>3 DEF WriteRunning

(* The row of the run appears while the run is current.                    *)
LEMMA StartRunInv == ASSUME Inv, NEW p \in Proc, StartRun(p) PROVE Inv'
<1>1. pc[p] \in Pipeline \cap Undecided
  BY PipelinePlaces DEF StartRun
<1>2. CASE current = myRun[p] /\ CreateRun(myRun[p], agent[p]) /\ Goto(p, "running")
           /\ beating' = [beating EXCEPT ![p] = TRUE]
           /\ UNCHANGED <<myRun, agent, outcome, goal, conflicted, intent, opState>>
  <2>1. StoreInv'
    BY <1>1, <1>2, Types, CreateRunInv DEF Inv
  <2>2. Quiet
    BY <1>2 DEF CreateRun, Quiet
  <2>3. LocalTypeOK'
    BY <1>2, PipelinePlaces DEF Inv, LocalInv, LocalTypeOK, Goto
  <2>4. \A q \in Proc : pc'[q] = IF q = p THEN "running" ELSE pc[q]
    BY <1>2 DEF Inv, LocalInv, LocalTypeOK, Goto
  <2>5. RunsAreTheirs' /\ OutcomesFit'
    BY <1>1, <1>2, <2>2, <2>4, PipelinePlaces, MaxRunsAssumption
       DEF Inv, LocalInv, RunsAreTheirs, OutcomesFit, Quiet, OneHost, RunId, NoRun
  <2> QED BY <2>1, <2>3, <2>5 DEF Inv, LocalInv
<1>3. CASE Leave(p)
  BY <1>1, <1>3, LeaveInv
<1> QED BY <1>2, <1>3 DEF StartRun

(* A heartbeat refreshes the lock it holds and no other.                   *)
LEMMA HeartbeatInv == ASSUME Inv, NEW p \in Proc, Heartbeat(p) PROVE Inv'
<1> USE DEF Inv
<1>1. StoreInv' /\ Quiet
  <2>1. CASE StillClaimed(p) /\ RefreshLock
    BY <2>1, Types, RefreshLockInv DEF StillClaimed, RefreshLock, Quiet
  <2>2. CASE UNCHANGED storeVars
    BY <2>2, UnchangedStore
  <2> QED BY <2>1, <2>2 DEF Heartbeat
<1>2. UNCHANGED <<pc, myRun, agent, outcome, goal, conflicted, intent, opState>>
  BY DEF Heartbeat
<1>3. LocalTypeOK'
  BY <1>2 DEF LocalInv, LocalTypeOK, Heartbeat
<1>4. RunsAreTheirs' /\ OutcomesFit'
  BY <1>1, <1>2, MaxRunsAssumption
     DEF LocalInv, RunsAreTheirs, OutcomesFit, Quiet, OneHost, RunId, NoRun
<1> QED BY <1>1, <1>3, <1>4 DEF LocalInv

(* What an agent can come back with suits its agent phase.                 *)
LEMMA ResultsType ==
  ASSUME NEW a \in Agent, NEW next \in Results(a)
  PROVE  next \in Phase /\ next # "ready_for_merge"
         /\ (next = "awaiting_human_input" => a # "merge")
<1>1. CASE a = "merge"
  BY <1>1, PhaseNames DEF Results, Phase, WaitingPhases
<1>2. CASE a # "merge"
  <2>1. ASSUME NEW r \in Recommendations[a]
        PROVE  Normalised(a, r) \in Phase \ {"ready_for_merge", "awaiting_human_input"}
    BY <1>2, PhaseNames
       DEF Recommendations, Normalised, DefaultNextPhase, AskingAgents, Agent, Phase, WaitingPhases
  <2>2. {"awaiting_human_input", "blocked", "ready_for_plan"} \subseteq Phase
    BY PhaseNames DEF Phase, WaitingPhases
  <2> QED BY <1>2, <2>1, <2>2 DEF Results
<1> QED BY <1>1, <1>2

(* The agent decides.                                                      *)
LEMMA AgentReturnsInv == ASSUME Inv, NEW p \in Proc, AgentReturns(p) PROVE Inv'
<1> USE DEF Inv
<1>1. StoreInv' /\ Quiet
  BY UnchangedStore DEF AgentReturns
<1>2. PICK next \in Results(agent[p]) : outcome' = [outcome EXCEPT ![p] = next]
  BY DEF AgentReturns
<1>3. next \in Phase /\ next # "ready_for_merge"
      /\ (next = "awaiting_human_input" => agent[p] # "merge")
  BY Types, ResultsType
<1>4. LocalTypeOK'
  BY <1>2, <1>3, PipelinePlaces DEF AgentReturns, Goto, LocalInv, LocalTypeOK
<1>5. \A q \in Proc : /\ q # p => pc'[q] = pc[q] /\ outcome'[q] = outcome[q]
                      /\ q = p => pc'[q] = "returned" /\ outcome'[q] = next
  BY <1>2 DEF AgentReturns, Goto, LocalInv, LocalTypeOK
<1>6. myRun' = myRun /\ agent' = agent /\ pc[p] \in Pipeline
  BY PipelinePlaces DEF AgentReturns
<1>7. RunsAreTheirs'
  BY <1>1, <1>5, <1>6, MaxRunsAssumption DEF LocalInv, RunsAreTheirs, Quiet, OneHost, RunId, NoRun
<1>8. OutcomesFit'
  BY <1>3, <1>5, <1>6, PipelinePlaces DEF LocalInv, OutcomesFit
<1> QED BY <1>1, <1>4, <1>7, <1>8 DEF LocalInv

(* The refresh after the agent returned.                                   *)
LEMMA RefreshAfterRunInv == ASSUME Inv, NEW p \in Proc, RefreshAfterRun(p) PROVE Inv'
<1>1. CASE Holds(p, myRun[p]) /\ RefreshLock /\ Proceed(p, "recording")
  <2>1. StoreInv' /\ Quiet
    BY <1>1, Types, RefreshLockInv DEF Inv, RefreshLock, Quiet
  <2> QED BY <1>1, <2>1, ProceedInv, PipelinePlaces DEF Inv, RefreshAfterRun
<1>2. CASE Leave(p)
  BY <1>2, LeaveInv, PipelinePlaces DEF RefreshAfterRun
<1> QED BY <1>1, <1>2 DEF RefreshAfterRun

(* A source merge leaves conflicts in the worktree, and a review under way *)
(* then decides on their resolution.                                       *)
LEMMA SourceConflictsInv == ASSUME Inv, NEW p \in Proc, SourceConflicts(p) PROVE Inv'
<1>1. StoreInv' /\ Quiet
  BY UnchangedStore DEF Inv, SourceConflicts
<1>2. PICK next \in {outcome[p], "ready_for_merge_conflict_resolution"} :
        /\ outcome' = [outcome EXCEPT ![p] = next]
        /\ next # outcome[p] => pc[p] = "recording"
  BY DEF Inv, LocalInv, LocalTypeOK, SourceConflicts
<1>3. next \in Phase
  BY Types, PhaseNames DEF Inv, Phase, WaitingPhases
<1>4. pc' = pc /\ myRun' = myRun /\ agent' = agent
  BY DEF SourceConflicts
<1>5. LocalTypeOK'
  BY <1>2, <1>3 DEF Inv, LocalInv, LocalTypeOK, SourceConflicts
<1>6. \A q \in Proc : outcome'[q] = IF q = p THEN next ELSE outcome[q]
  BY <1>2 DEF Inv, LocalInv, LocalTypeOK
<1>7. RunsAreTheirs'
  BY <1>1, <1>4, MaxRunsAssumption
     DEF Inv, LocalInv, RunsAreTheirs, Quiet, OneHost, RunId, NoRun
<1>8. OutcomesFit'
  BY <1>2, <1>4, <1>6 DEF Inv, LocalInv, OutcomesFit, Undecided, Goal
<1> QED BY <1>1, <1>5, <1>7, <1>8 DEF Inv, LocalInv

(* The merge phase commits what the worktree holds.                        *)
LEMMA CommitsConflictsInv == ASSUME Inv, NEW p \in Proc, CommitsConflicts(p) PROVE Inv'
<1>1. StoreInv' /\ Quiet
  BY UnchangedStore DEF Inv, CommitsConflicts
<1>2. /\ UNCHANGED procVars /\ conflicted' \in BOOLEAN
      /\ intent' \in [Manager -> Phase \cup {"none"}]
      /\ opState' \in [LifecycleOp -> {"idle", "reserved", "over"}]
  BY DEF Inv, LocalInv, LocalTypeOK, CommitsConflicts
<1> QED BY <1>1, <1>2, OthersInv DEF Inv

(* A decision may still become blocked or a conflict, never a merge.       *)
LEMMA RecordOutcomeInv == ASSUME Inv, NEW p \in Proc, RecordOutcome(p) PROVE Inv'
<1> USE DEF Inv
<1>1. CASE Leave(p)
  BY <1>1, LeaveInv, PipelinePlaces DEF RecordOutcome
<1>2. CASE ~Leave(p)
  <2>1. StoreInv' /\ Quiet
    BY <1>2, UnchangedStore DEF RecordOutcome
  <2>2. PICK next \in {outcome[p], "blocked", "ready_for_merge_conflict_resolution"} :
           outcome' = [outcome EXCEPT ![p] = next]
    BY <1>2 DEF RecordOutcome, LocalInv, LocalTypeOK
  <2>3. next \in Phase
    BY Types, PhaseNames DEF Phase, WaitingPhases
  <2>4. conflicted' \in BOOLEAN
    BY <1>2, Zenon DEF RecordOutcome, LocalInv, LocalTypeOK
  <2>5. LocalTypeOK'
    BY <1>2, <2>2, <2>3, <2>4, PipelinePlaces DEF RecordOutcome, Goto, LocalInv, LocalTypeOK
  <2>6. \A q \in Proc : /\ q # p => pc'[q] = pc[q] /\ outcome'[q] = outcome[q]
                        /\ q = p => pc'[q] = "settled" /\ outcome'[q] = next
    BY <1>2, <2>2 DEF RecordOutcome, Goto, LocalInv, LocalTypeOK
  <2>7. myRun' = myRun /\ agent' = agent /\ pc[p] \in Pipeline
    BY <1>2, PipelinePlaces DEF RecordOutcome
  <2>8. RunsAreTheirs'
    BY <2>1, <2>6, <2>7, MaxRunsAssumption
       DEF LocalInv, RunsAreTheirs, Quiet, OneHost, RunId, NoRun
  <2>9. OutcomesFit'
    BY <2>2, <2>6, <2>7, PipelinePlaces DEF LocalInv, OutcomesFit
  <2> QED BY <2>1, <2>5, <2>8, <2>9 DEF LocalInv
<1> QED BY <1>1, <1>2

(* Only an agent that may ask ends with a question.                        *)
LEMMA CompleteAndAskInv == ASSUME Inv, NEW p \in Proc, CompleteAndAsk(p) PROVE Inv'
<1>1. pc[p] \in Pipeline
  BY PipelinePlaces DEF CompleteAndAsk
<1>2. CASE CanAsk(myRun[p]) /\ CompleteRunAndAsk(myRun[p], agent[p]) /\ Proceed(p, "releasing")
  <2>1. agent[p] \in AskingAgents
    BY <1>1, Types DEF Inv, LocalInv, OutcomesFit, CompleteAndAsk, AskingAgents
  <2>2. StoreInv'
    BY <1>1, <1>2, <2>1, Types, CompleteRunAndAskInv DEF Inv
  <2>3. Quiet
    BY <1>2 DEF CompleteRunAndAsk, Unlock, Quiet
  <2> QED BY <1>1, <1>2, <2>2, <2>3, ProceedInv, PipelinePlaces DEF Inv
<1>3. CASE Leave(p)
  BY <1>1, <1>3, LeaveInv
<1> QED BY <1>2, <1>3 DEF CompleteAndAsk

(* The run records its outcome.                                            *)
LEMMA CompleteInv == ASSUME Inv, NEW p \in Proc, Complete(p) PROVE Inv'
<1>1. pc[p] \in Pipeline
  BY PipelinePlaces DEF Complete
<1>2. CASE CanComplete(myRun[p]) /\ CompleteRun(myRun[p], outcome[p]) /\ Proceed(p, "completed")
  <2>1. StoreInv'
    BY <1>1, <1>2, Types, CompleteRunInv DEF Inv
  <2>2. Quiet
    BY <1>2 DEF CompleteRun, Quiet
  <2> QED BY <1>1, <1>2, <2>1, <2>2, ProceedInv, PipelinePlaces DEF Inv
<1>3. CASE Leave(p)
  BY <1>1, <1>3, LeaveInv
<1> QED BY <1>2, <1>3 DEF Complete

(* First half of the transition to the outcome.                            *)
LEMMA ReadRunningInv == ASSUME Inv, NEW p \in Proc, ReadRunning(p) PROVE Inv'
<1>1. CASE UNCHANGED storeVars /\ Proceed(p, "moving")
  BY <1>1, UnchangedStore, ProceedInv, PipelinePlaces DEF Inv, ReadRunning
<1>2. CASE Leave(p)
  BY <1>2, LeaveInv, PipelinePlaces DEF ReadRunning
<1> QED BY <1>1, <1>2 DEF ReadRunning

(* Second half of it, guarded by the current run.                          *)
LEMMA WriteOutcomeInv == ASSUME Inv, NEW p \in Proc, WriteOutcome(p) PROVE Inv'
<1>1. pc[p] \in Pipeline
  BY PipelinePlaces DEF WriteOutcome
<1>2. CASE /\ current = myRun[p]
           /\ RunTransition(myRun[p], outcome[p]) /\ Proceed(p, "releasing")
  <2>1. StoreInv'
    BY <1>1, <1>2, Types, RunTransitionInv DEF Inv
  <2>2. Quiet
    BY <1>2 DEF RunTransition, Quiet
  <2> QED BY <1>1, <1>2, <2>1, <2>2, ProceedInv, PipelinePlaces DEF Inv
<1>3. CASE Leave(p)
  BY <1>1, <1>3, LeaveInv
<1> QED BY <1>2, <1>3 DEF WriteOutcome

(* An exception leads to the finally clause.                               *)
LEMMA RaiseInv == ASSUME Inv, NEW p \in Proc, Raise(p) PROVE Inv'
  BY LeaveInv, PipelinePlaces DEF Raise

(* So does a cancelled agent.                                              *)
LEMMA AgentCancelledInv == ASSUME Inv, NEW p \in Proc, AgentCancelled(p) PROVE Inv'
  BY LeaveInv, PipelinePlaces DEF AgentCancelled

(* The finally clause gives back a lock that is still held.                *)
LEMMA ReleaseInv == ASSUME Inv, NEW p \in Proc, Release(p) PROVE Inv'
<1>1. StoreInv' /\ Quiet
  <2>1. CASE ReleaseLock
    BY <2>1, ReleaseLockInv DEF Inv, ReleaseLock, Unlock, Quiet
  <2>2. CASE UNCHANGED storeVars
    BY <2>2, UnchangedStore DEF Inv
  <2> QED BY <2>1, <2>2 DEF Release
<1> QED BY <1>1, ReturnInv, PlacesType DEF Inv, Release, Goal

(* A monitor's claim belongs to nobody else.                               *)
LEMMA ClaimMonitorInv == ASSUME Inv, NEW p \in Proc, ClaimMonitor(p) PROVE Inv'
<1> USE DEF Inv
<1>1. StoreInv'
  BY Types, AcquireMonitorLockInv DEF ClaimMonitor
<1>2. /\ lastRun + 1 \in RunId /\ lastRun' = lastRun + 1 /\ current' = lastRun + 1
      /\ owner' = p /\ lastRun \in Nat
  BY MaxRunsAssumption DEF ClaimMonitor, AcquireMonitorLock, StoreInv, StoreTypeOK, RunId
<1>3. /\ pc'[p] = "looking" /\ myRun'[p] = lastRun + 1
      /\ \A q \in Proc : q # p => pc'[q] = pc[q] /\ myRun'[q] = myRun[q]
      /\ agent' = agent /\ outcome' = outcome /\ outcome[p] = "blocked"
  BY PlacesType DEF ClaimMonitor, Goto, LocalInv, LocalTypeOK, OutcomesFit, Goal
<1>4. LocalTypeOK'
  BY <1>2, PipelinePlaces DEF ClaimMonitor, Goto, LocalInv, LocalTypeOK, Monitoring
<1>5. RunsAreTheirs'
  <2> SUFFICES ASSUME NEW q \in Proc, pc'[q] \in Pipeline
               PROVE  /\ myRun'[q] \in RunId /\ myRun'[q] <= lastRun'
                      /\ current' = myRun'[q] => owner' = q
    BY DEF RunsAreTheirs, OneHost
  <2>1. CASE q = p
    BY <1>2, <1>3, <2>1, MaxRunsAssumption
  <2>2. CASE q # p
    BY <1>2, <1>3, <2>2, MaxRunsAssumption DEF LocalInv, RunsAreTheirs, RunId
  <2> QED BY <2>1, <2>2
<1>6. OutcomesFit'
  BY <1>3 DEF LocalInv, OutcomesFit
<1> QED BY <1>1, <1>4, <1>5, <1>6 DEF LocalInv

(* A step of a monitor that decides on a verdict.                          *)
LEMMA VerdictInv ==
  ASSUME Inv, NEW p \in Proc, NEW w \in Monitoring \ Undecided, NEW next \in Sightings \cup {"ready_for_validation"},
         pc[p] \in Pipeline, UNCHANGED <<storeVars, myRun, agent, goal, intent, opState>>,
         Goto(p, w), outcome' = [outcome EXCEPT ![p] = next],
         conflicted' \in BOOLEAN,
         beating' \in [Proc -> BOOLEAN]
  PROVE  Inv'
<1> USE DEF Inv
<1>1. StoreInv' /\ Quiet
  BY UnchangedStore
<1>2. next \in Phase /\ next \notin {"ready_for_merge", "awaiting_human_input"}
  BY PhaseNames DEF Sightings, Phase, WaitingPhases
<1>3. LocalTypeOK'
  BY <1>2, PipelinePlaces DEF LocalInv, LocalTypeOK, Goto
<1>4. \A q \in Proc : /\ q # p => pc'[q] = pc[q] /\ outcome'[q] = outcome[q]
                      /\ q = p => pc'[q] = w /\ outcome'[q] = next
  BY DEF Goto, LocalInv, LocalTypeOK
<1>5. RunsAreTheirs'
  BY <1>1, <1>4, MaxRunsAssumption
     DEF LocalInv, RunsAreTheirs, Quiet, OneHost, RunId, NoRun
<1>6. OutcomesFit'
  BY <1>2, <1>4, PipelinePlaces DEF LocalInv, OutcomesFit
<1> QED BY <1>1, <1>3, <1>5, <1>6 DEF LocalInv

(* What a failing monitor falls back on.                                   *)
LEMMA FallBackInv == ASSUME Inv, NEW p \in Proc, pc[p] \in Monitoring, FallBack(p) PROVE Inv'
<1>1. pc[p] \in Pipeline
  BY PipelinePlaces
<1>2. CASE Leave(p)
  BY <1>1, <1>2, LeaveInv
<1>3. CASE /\ Goto(p, "deciding")
           /\ outcome' = [outcome EXCEPT ![p] = "blocked"]
           /\ beating' = [beating EXCEPT ![p] = FALSE]
           /\ UNCHANGED <<storeVars, myRun, agent, goal, conflicted, intent, opState>>
  <2>1. conflicted' \in BOOLEAN /\ beating' \in [Proc -> BOOLEAN] /\ "blocked" \in Sightings
    BY <1>3 DEF Inv, LocalInv, LocalTypeOK, Sightings
  <2> QED BY <1>1, <1>3, <2>1, VerdictInv, PipelinePlaces
<1> QED BY <1>2, <1>3 DEF FallBack

(* A monitor that looks at its claim keeps it or leaves.                   *)
LEMMA ReclaimInv ==
  ASSUME Inv, NEW p \in Proc, pc[p] \in Monitoring,
         NEW w \in {"repairing", "deciding", "checked", "releasing"}, Reclaim(p, w)
  PROVE  Inv'
<1>1. pc[p] \in Pipeline /\ w \in (PC \cap Pipeline) \ Undecided
  BY PipelinePlaces
<1>2. CASE StillClaimed(p) /\ RefreshLock /\ Proceed(p, w)
  <2>1. StoreInv' /\ Quiet
    BY <1>2, Types, RefreshLockInv DEF Inv, StillClaimed, RefreshLock, Quiet
  <2> QED BY <1>1, <1>2, <2>1, ProceedInv, PipelinePlaces DEF Inv
<1>3. CASE Leave(p)
  BY <1>1, <1>3, LeaveInv
<1> QED BY <1>2, <1>3 DEF Reclaim

(* The steps of a monitor.                                                 *)
LEMMA MonitorInv == ASSUME Inv, NEW p \in Proc, Monitor(p) PROVE Inv'
<1>1. pc[p] \in Monitoring /\ pc[p] \in Pipeline
  BY PipelinePlaces
     DEF Monitor, AskProvider, RecordSighting, PrepareConflicts, RecordVerdict, ReadWaiting,
         Monitoring
<1>2. beating \in [Proc -> BOOLEAN] /\ conflicted \in BOOLEAN
  BY DEF Inv, LocalInv, LocalTypeOK
<1>3. CASE AskProvider(p)
  <2>1. CASE Leave(p)
    BY <1>1, <2>1, LeaveInv
  <2>2. CASE ~Leave(p)
    <3>1. PICK next \in Sightings : outcome' = [outcome EXCEPT ![p] = next]
      BY <1>3, <2>2 DEF AskProvider
    <3> QED BY <1>1, <1>2, <1>3, <2>2, <3>1, VerdictInv, PipelinePlaces DEF AskProvider
  <2> QED BY <2>1, <2>2
<1>4. CASE RecordSighting(p)
  BY <1>1, <1>4, ReclaimInv DEF RecordSighting
<1>5. CASE PrepareConflicts(p)
  <2>1. PICK next \in Sightings \cup {"ready_for_validation"} :
           outcome' = [outcome EXCEPT ![p] = next]
    BY <1>5 DEF PrepareConflicts, Sightings
  <2>2. beating' \in [Proc -> BOOLEAN] /\ conflicted' \in BOOLEAN
    BY <1>2, <1>5 DEF PrepareConflicts
  <2> QED BY <1>1, <1>5, <2>1, <2>2, VerdictInv, PipelinePlaces DEF PrepareConflicts
<1>6. CASE RecordVerdict(p)
  BY <1>1, <1>6, ReclaimInv DEF RecordVerdict
<1>7. CASE ReadWaiting(p)
  <2>1. CASE UNCHANGED storeVars /\ Proceed(p, "moving")
    BY <1>1, <1>7, <2>1, UnchangedStore, ProceedInv, PipelinePlaces DEF Inv, ReadWaiting
  <2>2. CASE FallBack(p)
    BY <1>1, <2>2, FallBackInv
  <2> QED BY <1>7, <2>1, <2>2 DEF ReadWaiting
<1> QED BY <1>3, <1>4, <1>5, <1>6, <1>7 DEF Monitor

(* A crash, or a recovery that fails, changes nothing in the store.        *)
LEMMA LifeEndsInv ==
  ASSUME Inv, NEW p \in Proc, Crash(p) \/ RecoveryFails(p) PROVE Inv'
<1>1. StoreInv' /\ Quiet
  BY UnchangedStore DEF Inv, Crash, RecoveryFails
<1> QED BY <1>1, ReturnInv, PlacesType DEF Inv, Crash, RecoveryFails, Goal

(* A forced stop retires the current run.                                  *)
LEMMA StopInv == ASSUME Inv, NEW p \in Proc, Stop(p) PROVE Inv'
<1>1. StoreInv' /\ Quiet
  <2>1. CASE Stoppable /\ ForceStop
    BY <2>1, ForceStopInv DEF Inv, ForceStop, Unlock, Quiet
  <2>2. CASE UNCHANGED storeVars
    BY <2>2, UnchangedStore DEF Inv
  <2> QED BY <2>1, <2>2 DEF Stop
<1> QED BY <1>1, ReturnInv, PlacesType DEF Inv, Stop, Goal

(* A manager changes the phase and nothing else.                           *)
LEMMA ManualInv == ASSUME Inv, NEW m \in Manager, Manual(m) PROVE Inv'
<1> USE DEF Inv
<1>1. CASE \E next \in Phase : ManualRead(m, next)
  <2>1. StoreInv' /\ Quiet
    BY <1>1, UnchangedStore DEF ManualRead
  <2>2. /\ UNCHANGED procVars /\ UNCHANGED conflicted
        /\ intent' \in [Manager -> Phase \cup {"none"}]
        /\ opState' \in [LifecycleOp -> {"idle", "reserved", "over"}]
    BY <1>1 DEF ManualRead, LocalInv, LocalTypeOK
  <2> QED BY <2>1, <2>2, OthersInv
<1>2. CASE ManualWrite(m)
  <2>1. intent[m] \in Phase
    BY <1>2 DEF ManualWrite, LocalInv, LocalTypeOK
  <2>2. StoreInv' /\ Quiet
    <3>1. CASE ManualTransition(intent[m])
      BY <2>1, <3>1, ManualTransitionInv DEF ManualTransition, Quiet
    <3>2. CASE UNCHANGED storeVars
      BY <3>2, UnchangedStore
    <3> QED BY <1>2, <3>1, <3>2 DEF ManualWrite
  <2>3. /\ UNCHANGED procVars /\ UNCHANGED conflicted
        /\ intent' \in [Manager -> Phase \cup {"none"}]
        /\ opState' \in [LifecycleOp -> {"idle", "reserved", "over"}]
    BY <1>2 DEF ManualWrite, LocalInv, LocalTypeOK
  <2> QED BY <2>2, <2>3, OthersInv
<1> QED BY <1>1, <1>2 DEF Manual

(* An answer clears a lock that was not held.                              *)
LEMMA AnswerInv == ASSUME Inv, Answer PROVE Inv'
<1>1. StoreInv' /\ Quiet
  BY AnswerHumanInputInv DEF Inv, Answer, AnswerHumanInput, Unlock, Quiet
<1> QED BY <1>1, OthersInv DEF Inv, Answer, LocalInv, LocalTypeOK

(* Resets and deletes take the lock from a run only by making it not       *)
(* current.                                                                *)
LEMMA LifecycleInv == ASSUME Inv, NEW o \in LifecycleOp, Lifecycle(o) PROVE Inv'
<1> USE DEF Inv
<1>1. o \in Owner
  BY OwnerAssumption
<1>2. StoreInv' /\ Quiet
  <2>1. CASE Reserve(o)
    BY <1>1, <2>1, ReserveInv DEF Reserve, Quiet
  <2>2. CASE ClearHistory(IF o \in ResetOp THEN "draft" ELSE Deleted)
    BY <2>2, ClearHistoryInv DEF ClearHistory, Unlock, Quiet, Phase, WaitingPhases
  <2>3. CASE ReleaseLock
    BY <2>3, ReleaseLockInv DEF ReleaseLock, Unlock, Quiet
  <2>4. CASE UNCHANGED storeVars
    BY <2>4, UnchangedStore
  <2> QED BY <2>1, <2>2, <2>3, <2>4 DEF Lifecycle, BeginOp, FinishOp, FailOp
<1>3. /\ UNCHANGED procVars /\ (UNCHANGED conflicted \/ conflicted' \in BOOLEAN)
      /\ intent' \in [Manager -> Phase \cup {"none"}]
      /\ opState' \in [LifecycleOp -> {"idle", "reserved", "over"}]
  BY DEF Lifecycle, BeginOp, FinishOp, FailOp, OpGoto, LocalInv, LocalTypeOK
<1> QED BY <1>2, <1>3, OthersInv

(* The expiry of a lease changes no ownership.                             *)
LEMMA ExpireInv == ASSUME Inv, Expire PROVE Inv'
<1>1. StoreInv' /\ Quiet
  BY LeaseExpiresInv DEF Inv, Expire, LeaseExpires, Quiet
<1> QED BY <1>1, OthersInv DEF Inv, Expire, LocalInv, LocalTypeOK

(* Stuttering.                                                             *)
LEMMA StutterInv == ASSUME Inv, UNCHANGED vars PROVE Inv'
<1>1. StoreInv' /\ Quiet
  BY UnchangedStore DEF Inv, vars
<1> QED BY <1>1, OthersInv DEF Inv, vars, LocalInv, LocalTypeOK
-----------------------------------------------------------------------------
(* Theorems.                                                               *)

(* Every step keeps Inv.                                                   *)
LEMMA NextInv == ASSUME Inv, [Next]_vars PROVE Inv'
<1>1. ASSUME NEW p \in Proc, Work(p) PROVE Inv'
  BY <1>1, GiveUpInv, AcquireInv, ReadReadyInv, WriteRunningInv, StartRunInv, AgentReturnsInv,
     AgentCancelledInv, RefreshAfterRunInv, RecordOutcomeInv, CompleteAndAskInv, CompleteInv,
     ReadRunningInv, WriteOutcomeInv, ReleaseInv, StopInv, MonitorInv DEF Work
<1>2. ASSUME NEW p \in Proc, LookAtGit(p) PROVE Inv'
  <2>1. CASE ClaimLost(p)
    BY <2>1, NoResultInv DEF ClaimLost
  <2> QED BY <1>2, <2>1, ReportFindingInv, ConflictsGoneInv, FinishRecoveryInv DEF LookAtGit
<1>3. ASSUME NEW p \in Proc, NEW then \in Goal, Recovery(p, then) PROVE Inv'
  BY <1>3, RecoverIssueInv, ClaimRecoveryInv DEF Recovery
<1> QED
  BY <1>1, <1>2, <1>3, HeartbeatInv, SourceConflictsInv, CommitsConflictsInv, RaiseInv,
     ClaimMonitorInv, FallBackInv, LifeEndsInv, ManualInv, LifecycleInv, AnswerInv, ExpireInv, StutterInv
     DEF Next, MonitorRaises

(* The invariant holds in every reachable state: whoever crashes, stops or *)
(* is late, the stored issue is sound and every run is led by its owner.   *)
THEOREM Invariance == Spec => []Inv
<1>1. Init => Inv
  BY InitInv
<1>2. Inv /\ [Next]_vars => Inv'
  BY NextInv
<1> QED BY <1>1, <1>2, PTL DEF Spec

(* Every variable keeps to its type.                                       *)
THEOREM TypeCorrect == Spec => []TypeOK
<1>1. Inv => TypeOK
  BY DEF Inv, StoreInv, LocalInv, TypeOK
<1> QED BY <1>1, Invariance, PTL

(* The lock columns always agree.                                          *)
THEOREM LocksAgree == Spec => []LeaseCoherent
<1>1. Inv => LeaseCoherent
  BY DEF Inv, StoreInv
<1> QED BY <1>1, Invariance, PTL

(* No stopped or interrupted run is ever the current run again, so that no *)
(* write of its worker can pass.                                           *)
THEOREM StaleWorkersFenced == Spec => []RetiredRunsFenced
<1>1. Inv => RetiredRunsFenced
  BY DEF Inv, StoreInv
<1> QED BY <1>1, Invariance, PTL

(* On one host, a living orchestrator never loses the lock of its run to   *)
(* another that leaves the run current.                                    *)
THEOREM LiveRunsKeepTheirLock == Spec => []LiveRunKeepsLock
<1>1. Inv => LiveRunKeepsLock
  BY DEF Inv, LocalInv, RunsAreTheirs, LiveRunKeepsLock
<1> QED BY <1>1, Invariance, PTL
-----------------------------------------------------------------------------
(* How the phase changes.                                                  *)

(* The ways in which it changes when no person moves the issue: a run that *)
(* is current moves it, recovery moves it out of a running phase, an       *)
(* answer takes it back to the agent that asked, or a stop blocks it.      *)
Moved ==
  \/ current # NoRun /\ phase' # "ready_for_merge"
  \/ phase \in RunningPhases /\ (phase' = "ready_for_merge" => phase = "merging")
  \/ phase = "awaiting_human_input" /\ phase' # "ready_for_merge"
  \/ phase' = "blocked"

(* Only a merge that is retried leads from a running phase to readiness    *)
(* for a merge.                                                            *)
LEMMA NoWayToMerge ==
  /\ \A q \in RunningPhases : ~Edge(q, "ready_for_merge")
  /\ \A a \in Agent : ReadyPhase[a] = "ready_for_merge" => a = "merge"
  /\ \A a \in AskingAgents : ResumePhase[a] # "ready_for_merge"
  /\ \A a \in Agent : RunningPhase[a] # "ready_for_merge"
<1>1. \A q \in RunningPhases : ~Edge(q, "ready_for_merge")
  BY PhaseNames DEF Edge, ValidTransitions
<1> QED BY <1>1 DEF ReadyPhase, RunningPhase, ResumePhase, AskingAgents, Agent

(* A run moves the issue only while it is the current run.                 *)
LEMMA RunMoves ==
  ASSUME Inv, NEW p \in Proc, phase' # phase,
         WriteRunning(p) \/ WriteOutcome(p) \/ CompleteAndAsk(p)
  PROVE  Moved
<1>1. pc[p] \in Pipeline
  BY PipelinePlaces DEF WriteRunning, WriteOutcome, CompleteAndAsk
<1>2. myRun[p] # NoRun /\ agent[p] \in Agent /\ outcome[p] # "ready_for_merge"
  BY <1>1, Types, MaxRunsAssumption DEF Inv, LocalInv, OutcomesFit, RunId, NoRun
<1>3. current = myRun[p]
  BY DEF WriteRunning, WriteOutcome, CompleteAndAsk, CanAsk, CanComplete, Leave, storeVars
<1>4. phase' \in {RunningPhase[agent[p]], outcome[p], "awaiting_human_input"}
  BY DEF WriteRunning, WriteOutcome, CompleteAndAsk, RunTransition, CompleteRunAndAsk, Leave,
         storeVars
<1> QED BY <1>2, <1>3, <1>4, NoWayToMerge DEF Moved

(* Recovery of a running phase leads to its ready phase or to the outcome  *)
(* of its run, and never from another agent's phase to a merge.            *)
LEMMA RowMoves == ASSUME Inv, RecoverRow, phase' # phase PROVE Moved
<1>1. RecoverRunning
  BY DEF RecoverRow, RecoverReady, RecoverWaiting, RecoverMonitored, ApplyRecovery
<1>2. phase \in RunningPhases /\ phase # "merging"
  BY <1>1 DEF RecoverRunning
<1>3. AgentOfRunning(phase) \in Agent /\ RunningPhase[AgentOfRunning(phase)] = phase
  BY <1>2, AgentOfPhase
<1>4. ReadyPhase[AgentOfRunning(phase)] # "ready_for_merge"
  <2>1. RunningPhase["merge"] = "merging"
    BY DEF RunningPhase, Agent
  <2> QED BY <1>2, <1>3, <2>1, NoWayToMerge
<1>5. \A r : TerminalTarget(r) # "ready_for_merge"
  BY <1>2, NoWayToMerge DEF TerminalTarget
<1>6. \/ phase' = ReadyPhase[AgentOfRunning(phase)]
      \/ \E r : phase' = TerminalTarget(r)
  BY <1>1 DEF RecoverRunning, ApplyRecovery
<1> QED BY <1>2, <1>4, <1>5, <1>6 DEF Moved

(* So does the recovery of a merge or a review that was claimed first.     *)
LEMMA ClaimMoves == ASSUME Inv, NEW p \in Proc, FinishRecovery(p), phase' # phase PROVE Moved
<1>1. phase = RunningPhase[agent[p]] /\ phase' = outcome[p]
  BY DEF FinishRecovery, NoResult, storeVars, RecoverClaimed, ApplyRecovery
<1>2. agent[p] \in {"merge", "review"} /\ agent[p] \in Agent
  BY Types DEF FinishRecovery, Inv, LocalInv, OutcomesFit
<1>3. agent[p] = "review" => outcome[p] # "ready_for_merge"
  BY DEF FinishRecovery, Inv, LocalInv, OutcomesFit
<1>4. RunningPhase["merge"] = "merging"
  BY DEF RunningPhase, Agent
<1> QED BY <1>1, <1>2, <1>3, <1>4, PhaseTables DEF Moved

(* Nobody else changes the phase but a person.                             *)
LEMMA PhaseMoves == ASSUME Inv, Next, phase' # phase PROVE Moved \/ ByHand
<1>1. ASSUME NEW p \in Proc, Work(p) PROVE Moved
  <2>1. CASE WriteRunning(p) \/ WriteOutcome(p) \/ CompleteAndAsk(p)
    BY <2>1, RunMoves
  <2>2. CASE Stop(p)
    BY <2>2 DEF Stop, ForceStop, storeVars, Moved
  <2> QED
    BY <1>1, <2>1, <2>2
       DEF Work, GiveUp, Acquire, AcquireLock, ReadReady, StartRun, CreateRun, AgentReturns,
           AgentCancelled, RefreshAfterRun, RefreshLock, RecordOutcome, Complete, CompleteRun,
           ReadRunning, Release, ReleaseLock, Monitor, AskProvider, RecordSighting,
           PrepareConflicts, RecordVerdict, ReadWaiting, Reclaim, FallBack, Leave, storeVars
<1>2. ASSUME NEW p \in Proc, LookAtGit(p) PROVE Moved
  <2>1. CASE FinishRecovery(p)
    BY <2>1, ClaimMoves
  <2> QED
    BY <1>2, <2>1
       DEF LookAtGit, ReportFinding, ConflictsGone, ClaimLost, NoResult, RefreshLock, ReleaseLock,
           storeVars
<1>3. ASSUME NEW p \in Proc, NEW then \in Goal, Recovery(p, then) PROVE Moved
  BY <1>3, RowMoves DEF Recovery, RecoverIssue, ClaimRecovery, ClaimLock, storeVars
<1>4. ASSUME NEW p \in Proc, Heartbeat(p) \/ SourceConflicts(p) \/ CommitsConflicts(p)
                             \/ Raise(p) \/ Crash(p) \/ RecoveryFails(p)
                             \/ ClaimMonitor(p) \/ MonitorRaises(p)
      PROVE  FALSE
  BY <1>4 DEF Heartbeat, SourceConflicts, CommitsConflicts, Raise, Crash, RecoveryFails,
              ClaimMonitor, AcquireMonitorLock, MonitorRaises, FallBack, Leave, RefreshLock,
              storeVars
<1>5. ASSUME NEW m \in Manager, Manual(m) PROVE ByHand
  BY <1>5 DEF Manual, ManualRead, ManualWrite, ByHand, storeVars, Inv, LocalInv, LocalTypeOK
<1>6. ASSUME NEW o \in LifecycleOp, Lifecycle(o) PROVE ByHand
  BY <1>6 DEF Lifecycle, BeginOp, FinishOp, FailOp, OpGoto, Reserve, ReleaseLock, ByHand,
              storeVars, Inv, LocalInv, LocalTypeOK
<1>7. CASE Answer
  <2>1. request.by \in AskingAgents
    BY <1>7 DEF Answer, CanAnswer, Inv, StoreInv, StoreTypeOK, Request
  <2> QED BY <1>7, <2>1, NoWayToMerge DEF Answer, CanAnswer, AnswerHumanInput, Moved
<1>8. CASE Expire
  BY <1>8 DEF Expire, LeaseExpires
<1> QED BY <1>1, <1>2, <1>3, <1>4, <1>5, <1>6, <1>7, <1>8 DEF Next

(* Nobody but a person, a stop or the current run itself ends a wait for   *)
(* a pull request: a wait is neither a running phase nor a question.       *)
LEMMA WaitMoves ==
  ASSUME Inv, Next, phase = "awaiting_pr_closure", phase' # phase
  PROVE  \/ ByHand
         \/ phase' = "blocked" /\ current' = NoRun
         \/ current # NoRun /\ mover' = current
<1> DEFINE Ends == phase' = "blocked" /\ current' = NoRun
           Moves == current # NoRun /\ mover' = current
<1>1. phase \notin RunningPhases /\ phase \notin ReadyPhases /\ phase # "awaiting_human_input"
  BY PhaseNames
<1>2. ASSUME NEW p \in Proc, Work(p) PROVE Ends \/ Moves
  <2>1. CASE WriteRunning(p) \/ WriteOutcome(p) \/ CompleteAndAsk(p)
    <3>1. pc[p] \in Pipeline
      BY <2>1, PipelinePlaces DEF WriteRunning, WriteOutcome, CompleteAndAsk
    <3>2. myRun[p] # NoRun
      BY <3>1, Types, MaxRunsAssumption DEF RunId, NoRun
    <3>3. current = myRun[p] /\ mover' = myRun[p]
      BY <2>1 DEF WriteRunning, WriteOutcome, CompleteAndAsk, CanAsk, CanComplete, Leave,
                  RunTransition, CompleteRunAndAsk, storeVars
    <3> QED BY <3>2, <3>3
  <2>2. CASE Stop(p)
    BY <2>2 DEF Stop, ForceStop, Unlock, storeVars
  <2> QED
    BY <1>2, <2>1, <2>2
       DEF Work, GiveUp, Acquire, AcquireLock, ReadReady, StartRun, CreateRun, AgentReturns,
           AgentCancelled, RefreshAfterRun, RefreshLock, RecordOutcome, Complete, CompleteRun,
           ReadRunning, Release, ReleaseLock, Monitor, AskProvider, RecordSighting,
           PrepareConflicts, RecordVerdict, ReadWaiting, Reclaim, FallBack, Leave, storeVars
<1>3. ASSUME NEW p \in Proc, LookAtGit(p) PROVE FALSE
  <2>1. CASE FinishRecovery(p)
    <3>1. phase = RunningPhase[agent[p]]
      BY <2>1 DEF FinishRecovery, NoResult, storeVars
    <3> QED BY <1>1, <3>1, Types, PhaseTables
  <2> QED
    BY <1>3, <2>1
       DEF LookAtGit, ReportFinding, ConflictsGone, ClaimLost, NoResult, RefreshLock, ReleaseLock,
           storeVars
<1>4. ASSUME NEW p \in Proc, NEW then \in Goal, Recovery(p, then) PROVE FALSE
  BY <1>1, <1>4
     DEF Recovery, RecoverIssue, ClaimRecovery, ClaimLock, RecoverRow, RecoverRunning,
         RecoverReady, RecoverWaiting, RecoverMonitored, ApplyRecovery, storeVars
<1>5. ASSUME NEW p \in Proc, Heartbeat(p) \/ SourceConflicts(p) \/ CommitsConflicts(p)
                             \/ Raise(p) \/ Crash(p) \/ RecoveryFails(p)
                             \/ ClaimMonitor(p) \/ MonitorRaises(p)
      PROVE  FALSE
  BY <1>5 DEF Heartbeat, SourceConflicts, CommitsConflicts, Raise, Crash, RecoveryFails,
              ClaimMonitor, AcquireMonitorLock, MonitorRaises, FallBack, Leave, RefreshLock,
              storeVars
<1>6. ASSUME NEW m \in Manager, Manual(m) PROVE ByHand
  BY <1>6 DEF Manual, ManualRead, ManualWrite, ByHand, storeVars, Inv, LocalInv, LocalTypeOK
<1>7. ASSUME NEW o \in LifecycleOp, Lifecycle(o) PROVE ByHand
  BY <1>7 DEF Lifecycle, BeginOp, FinishOp, FailOp, OpGoto, Reserve, ReleaseLock, ByHand,
              storeVars, Inv, LocalInv, LocalTypeOK
<1>8. ~Answer
  BY <1>1 DEF Answer, CanAnswer
<1>9. ~Expire
  BY DEF Expire, LeaseExpires
<1> QED BY <1>2, <1>3, <1>4, <1>5, <1>6, <1>7, <1>8, <1>9 DEF Next

(* What a stop blocked, nobody but a person moves on: neither the worker   *)
(* that was stopped nor any recovery.                                      *)
THEOREM StopIsFinal == Spec => StopSticks
<1>1. Inv /\ [Next]_vars =>
        [phase = "blocked" /\ current = NoRun /\ phase' # "blocked" => ByHand]_vars
  <2> SUFFICES ASSUME Inv, Next, phase = "blocked", current = NoRun, phase' # "blocked"
               PROVE  ByHand
    OBVIOUS
  <2>1. "blocked" \notin RunningPhases
    BY PhaseNames
  <2> QED BY <2>1, PhaseMoves DEF Moved
<1> QED BY <1>1, Invariance, PTL DEF Spec, StopSticks

(* A monitor that lost its claim, to a person, a stop or another monitor,  *)
(* does not act on what the provider told it.                              *)
THEOREM WaitsEndWithTheirClaim == Spec => WaitEndsByItsMonitor
<1>1. Inv /\ [Next]_vars =>
        [phase = "awaiting_pr_closure" /\ phase' # phase =>
           \/ ByHand
           \/ phase' = "blocked" /\ current' = NoRun
           \/ current # NoRun /\ mover' = current]_vars
  BY WaitMoves
<1> QED BY <1>1, Invariance, PTL DEF Spec, WaitEndsByItsMonitor

(* No agent, answer or recovery makes an issue ready to merge that was not *)
(* being merged already: a person does.                                    *)
THEOREM MergesAreApproved == Spec => MergeIsApproved
<1>1. Inv /\ [Next]_vars =>
        [phase' = "ready_for_merge" /\ phase # "ready_for_merge"
           => ByHand \/ phase = "merging"]_vars
  <2> SUFFICES ASSUME Inv, Next, phase' = "ready_for_merge", phase # "ready_for_merge"
               PROVE  ByHand \/ phase = "merging"
    OBVIOUS
  <2> QED BY PhaseMoves DEF Moved
<1> QED BY <1>1, Invariance, PTL DEF Spec, MergeIsApproved
=============================================================================

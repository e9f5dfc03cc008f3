-------------------------- MODULE SourceSyncProofs --------------------------
(***************************************************************************)
(* No implementation and no validation begins in the middle of a merge,    *)
(* for any number of processes, crashes, runs and commits, and although    *)
(* the recovery sweep races with the sync (SourceSync).  The argument is   *)
(* SyncInv: whoever is at work holds the lock, the issue is in the phase   *)
(* of that work, and the run that brought the issue there has not decided  *)
(* to pass an unfinished merge on.                                         *)
(* Where the processes follow one another, the conflicts of a sync find    *)
(* the resolver with their own report, and rework starts from the source:  *)
(* OrderInv follows the conflicts, their report and the head that was asked*)
(* for through the deaths and the recoveries.                              *)
(***************************************************************************)
EXTENDS SourceSync, IssueStoreProofs

Finished == tree.merging = NoHead /\ ~tree.conflicts
Passing  == {"ready_for_implementation", "implementing", "ready_for_validation", "validating"}

AtWork  == {"working", "staging", "committing", "settled"} \cup SyncPC
Working == {"acquired", "started", "completed", "releasing"} \cup AtWork
Holding == Working \cup RescuePC

(* Whoever is at work, or recovers, holds the lock under the issue's run,  *)
(* and the issue is in the phase of that work.                             *)
Fits(p) ==
  /\ pc[p] \in Holding => Holds(p, myRun[p])
  /\ pc[p] \in Working => myRun[p] # NoRun /\ agent[p] \in Loop
  /\ pc[p] = "acquired" => phase = ReadyPhase[agent[p]] /\ runs[myRun[p]] = AbsentRow
  /\ pc[p] \in {"started", "completed"} \cup AtWork =>
       phase = RunningPhase[agent[p]] /\ mover = myRun[p]
  /\ pc[p] = "started" => runs[myRun[p]] = AbsentRow
  /\ pc[p] \in AtWork => runs[myRun[p]].next = "none"
  /\ pc[p] = "completed" => runs[myRun[p]].next = outcome[p]
  /\ pc[p] \in SyncPC => agent[p] = "review"
  /\ pc[p] \in RescuePC => phase = "reviewing"

(* Recovery finds the run that brought the issue to its running phase.     *)
MoverRuns ==
  phase \in RunningPhases => mover # NoRun /\ (current # NoRun => current = mover)

(* No unfinished merge is passed on: not by the issue's phase, by what its *)
(* run decided, or by what a process is about to decide.                   *)
Passed ==
  /\ phase \in Passing => Finished
  /\ phase \in RunningPhases /\ runs[mover].next \in Passing => Finished

Careful(p) ==
  /\ pc[p] = "merging" => Finished
  /\ pc[p] = "noting" => tree.conflicts \/ Finished
  /\ pc[p] = "committing" => ~tree.conflicts
  /\ pc[p] = "settled" /\ outcome[p] \in Passing => Finished

SyncInv ==
  /\ SyncTypeOK /\ StoreInv /\ lease # "expired"
  /\ \A p \in Owner : Fits(p) /\ Careful(p)
  /\ MoverRuns /\ Passed
-----------------------------------------------------------------------------
(* Facts about phases and places.                                          *)

(* The agents of the loop and their phases.                                *)
LEMMA LoopFacts ==
  /\ Loop \subseteq Agent /\ LoopReady \subseteq ReadyPhases
  /\ \A a \in Loop : Answers[a] \subseteq Phase
  /\ RunningPhase["review"] = "reviewing" /\ RunningPhase["validation"] = "validating"
  /\ ReadyPhase["review"] = "ready_for_review"
  /\ RunningPhase["implementation"] = "implementing"
  /\ RunningPhase["merge_conflict_resolution"] = "resolving_merge_conflicts"
  BY PhaseNames DEF Loop, LoopReady, Answers, Agent, ReadyPhase, RunningPhase, ReadyPhases,
                    Phase, WaitingPhases

(* What the agent of a ready phase of the loop is.                         *)
LEMMA LoopAgent ==
  ASSUME phase \in LoopReady PROVE AgentOfReady(phase) \in Loop /\ ReadyPhase[AgentOfReady(phase)] = phase
  BY DEF LoopReady, Loop, AgentOfReady, ReadyPhase, Agent

(* No phase is entered by a run except from its ready phase.               *)
LEMMA RunningLeadsOut ==
  ASSUME NEW p \in RunningPhases, NEW q, Edge(p, q) PROVE q \notin RunningPhases
  BY PhaseNames DEF Edge, ValidTransitions, AskingAgents, Phase, WaitingPhases

(* Ready, running and waiting phases differ.                               *)
LEMMA PhasesDiffer ==
  /\ ReadyPhases \cap RunningPhases = {} /\ WaitingPhases \cap RunningPhases = {}
  /\ {"ready_for_merge_conflict_resolution", "blocked"} \cap (RunningPhases \cup Passing) = {}
  BY PhaseNames DEF WaitingPhases, Passing

(* The places by name.                                                     *)
LEMMA Places ==
  /\ Working \subseteq Holding /\ AtWork \subseteq Working /\ SyncPC \subseteq AtWork
  /\ RescuePC \subseteq Holding /\ RescuePC \cap Working = {} /\ Holding \subseteq PC
  /\ {"acquired", "started", "completed", "releasing"} \cap AtWork = {}
  /\ {"working", "staging", "committing", "settled"} \cap SyncPC = {}
  /\ {"absent", "idle", "found", "sweep", "claim", "dead"} \cap Holding = {}
  /\ {"working", "staging", "committing", "settled", "checking", "merging", "noting",
      "archiving", "writing"} \subseteq AtWork
  BY DEF Holding, Working, AtWork, SyncPC, RescuePC, PC

(* Somebody who is nowhere at work bears no duty.                          *)
LEMMA Elsewhere ==
  ASSUME NEW p, (pc[p] \notin Holding)' PROVE Fits(p)' /\ Careful(p)'
<1>1. /\ pc'[p] \notin Working /\ pc'[p] \notin AtWork /\ pc'[p] \notin SyncPC
      /\ pc'[p] \notin RescuePC /\ pc'[p] \notin {"acquired", "started", "completed"} \cup AtWork
      /\ pc'[p] \notin {"acquired", "started", "completed", "merging", "noting", "committing", "settled"}
  BY DEF Holding, Working, AtWork, SyncPC, RescuePC
<1> QED BY <1>1 DEF Fits, Careful

(* Who holds the lock is alone at work ...                                 *)
LEMMA OneHolder ==
  ASSUME SyncInv, NEW p \in Owner, NEW q \in Owner, pc[p] \in Holding, pc[q] \in Holding
  PROVE  p = q
  BY DEF SyncInv, Fits, Holds

(* ... and nobody is at work when the lock may be broken or is free.       *)
LEMMA NoHolder ==
  ASSUME SyncInv, Recoverable \/ ~Locked, NEW q \in Owner PROVE pc[q] \notin Holding
<1>1. owner = q => lease # "none"
  BY NoOwnerAssumption DEF SyncInv, StoreInv, LeaseCoherent
<1>2. lease # "expired" /\ lease \in Lease
  BY DEF SyncInv, StoreInv, StoreTypeOK
<1> QED
  BY <1>1, <1>2, Places DEF SyncInv, Fits, Holds, Recoverable, Locked, Lease, At

(* Recovery finds the run that moved the issue, or none.                   *)
LEMMA RecoversMover ==
  ASSUME SyncInv, phase \in RunningPhases, NEW a
  PROVE  RunForRecovery(a) \in {NoRun, mover}
  BY DEF SyncInv, MoverRuns, RunForRecovery
-----------------------------------------------------------------------------
(* SyncInv is inductive.                                                   *)

(* A step of process p alone, everybody else's view of the world being the *)
(* same or of no consequence.                                              *)
LEMMA OneStep ==
  ASSUME SyncInv, NEW p \in Owner,
         \A q \in Owner : q # p => /\ pc'[q] = pc[q] /\ myRun'[q] = myRun[q]
                                   /\ agent'[q] = agent[q] /\ outcome'[q] = outcome[q],
         \/ \A q \in Owner : q # p => pc[q] \notin Holding
         \/ UNCHANGED <<phase, owner, lease, current, runs, mover, tree>>,
         SyncTypeOK', StoreInv', lease' # "expired", MoverRuns', Passed',
         Fits(p)', Careful(p)'
  PROVE  SyncInv'
<1> SUFFICES ASSUME NEW q \in Owner, q # p PROVE Fits(q)' /\ Careful(q)'
  BY DEF SyncInv
<1>1. CASE pc[q] \notin Holding
  BY <1>1, Elsewhere
<1>2. CASE UNCHANGED <<phase, owner, lease, current, runs, mover, tree>>
  BY <1>2 DEF SyncInv, Fits, Careful, Finished, Holds
<1> QED BY <1>1, <1>2

(* A step that leaves the store alone.                                     *)
LEMMA QuietStep ==
  ASSUME SyncInv, NEW p \in Owner, UNCHANGED storeVars,
         \A q \in Owner : q # p => /\ pc'[q] = pc[q] /\ myRun'[q] = myRun[q]
                                   /\ agent'[q] = agent[q] /\ outcome'[q] = outcome[q],
         pc[p] \in Holding \/ UNCHANGED tree,
         SyncTypeOK', Finished => Finished', Fits(p)', Careful(p)'
  PROVE  SyncInv'
<1>1. StoreInv' /\ lease' # "expired" /\ MoverRuns' /\ Passed'
  BY DEF SyncInv, storeVars, StoreInv, StoreTypeOK, LeaseCoherent, RetiredRunsFenced, RunsDrawn,
         MoverRuns, Passed, Finished
<1>2. \/ \A q \in Owner : q # p => pc[q] \notin Holding
      \/ UNCHANGED <<phase, owner, lease, current, runs, mover, tree>>
  BY OneHolder DEF storeVars
<1> QED BY <1>1, <1>2, OneStep

(* Steps that lead nowhere at work.                                        *)
LEMMA AwayStep ==
  ASSUME SyncInv, NEW p \in Owner, NEW where \in PC \ Holding,
         UNCHANGED <<storeVars, local, files>>, Goto(p, where)
  PROVE  SyncInv'
<1>1. SyncTypeOK'
  BY DEF SyncInv, SyncTypeOK, Goto, local, files, storeVars, StoreTypeOK
<1>2. pc'[p] = where /\ \A q \in Owner : q # p => pc'[q] = pc[q]
  BY DEF SyncInv, SyncTypeOK, Goto
<1>3. Fits(p)' /\ Careful(p)'
  BY <1>2, Elsewhere
<1>4. UNCHANGED <<storeVars, tree, myRun, agent, outcome>>
  BY DEF local, files
<1> QED BY <1>1, <1>2, <1>3, <1>4, QuietStep DEF Finished

(* A process starts.                                                       *)
LEMMA StartStep == ASSUME SyncInv, NEW p \in Owner, Start(p) PROVE SyncInv'
  BY AwayStep, Places DEF Start, PC

(* The sweep looks for conflicts.                                          *)
LEMMA LookStep == ASSUME SyncInv, NEW p \in Owner, Look(p) PROVE SyncInv'
  BY AwayStep, Places DEF Look, PC

(* Somebody else has the review.                                           *)
LEMMA ClaimRefusedStep == ASSUME SyncInv, NEW p \in Owner, ClaimRefused(p) PROVE SyncInv'
  BY AwayStep, Places DEF ClaimRefused, PC

(* Nothing to run.                                                         *)
LEMMA GiveUpStep == ASSUME SyncInv, NEW p \in Owner, GiveUp(p) PROVE SyncInv'
  BY AwayStep, Places DEF GiveUp, PC

(* While the source is being merged, nothing has been decided.             *)
LEMMA WhileMerging ==
  ASSUME SyncInv, NEW p \in Owner, At(p, "merging"), UNCHANGED storeVars PROVE Passed'
<1>1. pc[p] \in SyncPC /\ pc[p] \in AtWork /\ pc[p] \in {"started", "completed"} \cup AtWork
  BY DEF At, SyncPC, AtWork
<1>2. phase = "reviewing" /\ runs[mover].next = "none"
  BY <1>1, LoopFacts DEF SyncInv, Fits
<1> QED BY <1>2 DEF Passed, Passing, storeVars

(* A crash, in the middle of git merge or elsewhere.                       *)
LEMMA CrashStep == ASSUME SyncInv, NEW p \in Owner, Crash(p) PROVE SyncInv'
<1>1. /\ pc' = [pc EXCEPT ![p] = "dead"]
      /\ UNCHANGED <<phase, owner, lease, current, runs, request, mover, lastRun>>
      /\ UNCHANGED <<myRun, agent, outcome, head, source, noted, report, wanted>>
  BY DEF Crash, Goto, local, storeVars
<1>2. myRun[p] \in RunId \cup {NoRun} /\ source \in Heads /\ tree \in Tree
  BY DEF SyncInv, SyncTypeOK
<1>3. tree' \in Tree
  BY <1>2 DEF Crash, HalfMerged, Tree
<1>4. SyncTypeOK'
  BY <1>1, <1>3 DEF SyncInv, SyncTypeOK, PC, StoreTypeOK
<1>5. pc'[p] = "dead" /\ \A q \in Owner : q # p => pc'[q] = pc[q]
  BY <1>1 DEF SyncInv, SyncTypeOK
<1>6. Fits(p)' /\ Careful(p)'
  BY <1>5, Places, Elsewhere
<1>7. CASE UNCHANGED tree
  BY <1>1, <1>4, <1>5, <1>6, <1>7, QuietStep DEF storeVars, Finished
<1>8. CASE At(p, "merging")
  <2>1. \A q \in Owner : q # p => pc[q] \notin Holding
    BY <1>8, OneHolder, Places DEF At
  <2>2. Passed'
    BY <1>1, <1>8, WhileMerging DEF storeVars
  <2>3. StoreInv' /\ lease' # "expired" /\ MoverRuns'
    BY <1>1 DEF SyncInv, StoreInv, StoreTypeOK, LeaseCoherent, RetiredRunsFenced, RunsDrawn,
                MoverRuns
  <2> QED BY <1>1, <1>4, <1>5, <1>6, <2>1, <2>2, <2>3, OneStep
<1> QED BY <1>7, <1>8 DEF Crash

(* The source moves on; nobody's duty depends on it.                       *)
LEMMA AdvanceStep == ASSUME SyncInv, Advance PROVE SyncInv'
<1>1. SyncTypeOK'
  BY SyncAssumption DEF SyncInv, SyncTypeOK, Advance, Heads, storeVars, local, StoreTypeOK
<1>2. UNCHANGED <<phase, owner, lease, current, runs, request, mover, lastRun, pc, myRun, agent,
                  outcome, tree>>
  BY DEF Advance, storeVars, local
<1>3. \A p \in Owner : Fits(p)' /\ Careful(p)'
  BY <1>2 DEF SyncInv, Fits, Careful, Finished, Holds
<1> QED
  BY <1>1, <1>2, <1>3 DEF SyncInv, StoreInv, StoreTypeOK, LeaseCoherent, RetiredRunsFenced,
                          RunsDrawn, MoverRuns, Passed, Finished
-----------------------------------------------------------------------------
(* The recovery of a review.                                               *)

(* A claim is made when nobody is at work.                                 *)
LEMMA ClaimStep == ASSUME SyncInv, NEW p \in Owner, Claim(p) PROVE SyncInv'
<1>1. /\ pc' = [pc EXCEPT ![p] = "claimed"] /\ myRun' = [myRun EXCEPT ![p] = current]
      /\ owner' = p /\ lease' = "live" /\ phase = "reviewing"
      /\ UNCHANGED <<phase, current, runs, request, mover, lastRun>>
      /\ UNCHANGED <<agent, outcome, head, source, tree, noted, report, wanted>>
  BY DEF Claim, Goto, ClaimLock, files
<1>2. StoreInv'
  BY ClaimLockInv DEF Claim, SyncInv
<1>3. SyncTypeOK'
  BY <1>1, <1>2 DEF SyncInv, StoreInv, StoreTypeOK, SyncTypeOK, PC, RescuePC
<1>4. \A q \in Owner : q # p => pc[q] \notin Holding
  BY NoHolder DEF Claim
<1>5. /\ pc'[p] = "claimed" /\ myRun'[p] = current
      /\ \A q \in Owner : q # p => pc'[q] = pc[q] /\ myRun'[q] = myRun[q]
  BY <1>1 DEF SyncInv, SyncTypeOK
<1>6. Fits(p)' /\ Careful(p)'
  BY <1>1, <1>5 DEF Fits, Careful, Holds, Holding, Working, AtWork, SyncPC, RescuePC
<1>7. MoverRuns' /\ Passed'
  BY <1>1 DEF SyncInv, MoverRuns, Passed, Finished
<1> QED BY <1>1, <1>2, <1>3, <1>4, <1>5, <1>6, <1>7, OneStep

(* From one place of the rescue to the next.                               *)
LEMMA RescueOn ==
  ASSUME SyncInv, NEW p \in Owner, pc[p] \in RescuePC, NEW where \in RescuePC, Goto(p, where),
         UNCHANGED <<storeVars, myRun, agent, outcome, tree>>, SyncTypeOK'
  PROVE  SyncInv'
<1>1. pc'[p] = where /\ \A q \in Owner : q # p => pc'[q] = pc[q]
  BY DEF SyncInv, SyncTypeOK, Goto
<1>2. pc[p] \in Holding /\ pc'[p] \in Holding
  BY <1>1, Places
<1>3. Fits(p)' /\ Careful(p)'
  BY <1>1, <1>2 DEF SyncInv, Fits, Careful, Holds, storeVars, Working, AtWork, SyncPC, RescuePC
<1> QED BY <1>1, <1>2, <1>3, QuietStep DEF Finished

(* The head to report is chosen.                                           *)
LEMMA RescueStep == ASSUME SyncInv, NEW p \in Owner, Rescue(p) PROVE SyncInv'
<1> DEFINE where == IF myRun[p] = NoRun THEN "handing_over" ELSE "rearchiving"
<1>1. (IF noted = NoHead THEN source ELSE noted) \in Heads
  BY DEF SyncInv, SyncTypeOK
<1>2. head' \in [Owner -> Heads] /\ noted' \in Heads
  BY <1>1 DEF SyncInv, SyncTypeOK, Rescue
<1>3. where \in RescuePC /\ Goto(p, where)
  BY DEF Rescue, RescuePC
<1> HIDE DEF where
<1>4. pc' \in [Owner -> PC]
  BY <1>3, Places DEF SyncInv, SyncTypeOK, Goto, PC
<1>5. SyncTypeOK'
  BY <1>2, <1>4 DEF SyncInv, SyncTypeOK, Rescue, storeVars, StoreTypeOK
<1> QED BY <1>3, <1>5, RescueOn DEF Rescue, At, RescuePC

(* The claim is given back.                                                *)
LEMMA NothingToRescueStep == ASSUME SyncInv, NEW p \in Owner, NothingToRescue(p) PROVE SyncInv'
<1>1. /\ pc' = [pc EXCEPT ![p] = "sweep"] /\ pc[p] = "claimed"
      /\ owner' = NoOwner /\ lease' = "none" /\ current' = NoRun
      /\ UNCHANGED <<phase, runs, request, mover, lastRun>>
      /\ UNCHANGED <<myRun, agent, outcome, head, source, tree, noted, report, wanted>>
  BY DEF NothingToRescue, At, Goto, ReleaseLock, Unlock, local, files
<1>2. StoreInv'
  BY ReleaseLockInv DEF NothingToRescue, SyncInv
<1>3. SyncTypeOK'
  BY <1>1, <1>2 DEF SyncInv, StoreInv, StoreTypeOK, SyncTypeOK, PC
<1>4. \A q \in Owner : q # p => pc[q] \notin Holding
  BY <1>1, OneHolder, Places DEF Holding, RescuePC
<1>5. pc'[p] = "sweep" /\ \A q \in Owner : q # p => pc'[q] = pc[q]
  BY <1>1 DEF SyncInv, SyncTypeOK
<1>6. Fits(p)' /\ Careful(p)'
  BY <1>5, Elsewhere, Places
<1>7. MoverRuns' /\ Passed'
  BY <1>1 DEF SyncInv, MoverRuns, Passed, Finished
<1> QED BY <1>1, <1>2, <1>3, <1>4, <1>5, <1>6, <1>7, OneStep

(* The rescued issue goes to the resolver.                                 *)
LEMMA HandOverStep == ASSUME SyncInv, NEW p \in Owner, HandOver(p) PROVE SyncInv'
<1>1. /\ pc' = [pc EXCEPT ![p] = "sweep"] /\ pc[p] = "handing_over"
      /\ phase' = "ready_for_merge_conflict_resolution" /\ lease' = "none"
      /\ UNCHANGED <<myRun, agent, outcome, head, source, tree, noted, report, wanted>>
  BY DEF HandOver, At, Goto, RecoverClaimed, ApplyRecovery, Unlock, local, files
<1>2. "review" \in Agent /\ "ready_for_merge_conflict_resolution" \in Phase
  BY PhaseNames DEF Agent, Phase
<1>3. StoreInv'
  BY <1>2, RecoverClaimedInv DEF HandOver, SyncInv
<1>4. SyncTypeOK'
  BY <1>1, <1>3 DEF SyncInv, StoreInv, StoreTypeOK, SyncTypeOK, PC
<1>5. \A q \in Owner : q # p => pc[q] \notin Holding
  BY <1>1, OneHolder, Places DEF Holding, RescuePC
<1>6. pc'[p] = "sweep" /\ \A q \in Owner : q # p => pc'[q] = pc[q]
  BY <1>1 DEF SyncInv, SyncTypeOK
<1>7. Fits(p)' /\ Careful(p)'
  BY <1>6, Elsewhere, Places
<1>8. MoverRuns' /\ Passed'
  BY <1>1, PhasesDiffer DEF MoverRuns, Passed
<1> QED BY <1>1, <1>3, <1>4, <1>5, <1>6, <1>7, <1>8, OneStep

(* The generic recovery returns a running issue to the beginning of its    *)
(* phase or moves it to where its run had decided.                         *)
LEMMA SweptPhase ==
  ASSUME SyncInv, RecoverRow
  PROVE  phase' \notin RunningPhases /\ (phase' \in Passing => Finished)
<1>1. CASE RecoverRunning
  <2> DEFINE a == AgentOfRunning(phase)
             r == RunForRecovery(a)
  <2>1. a \in Agent /\ RunningPhase[a] = phase /\ phase \in RunningPhases /\ r \in {NoRun, mover}
    BY <1>1, AgentOfPhase, RecoversMover DEF RecoverRunning
  <2>2. phase' = IF r # NoRun /\ runs[r].status # "running" THEN TerminalTarget(r)
                 ELSE ReadyPhase[a]
    BY <1>1 DEF RecoverRunning, ApplyRecovery
  <2> HIDE DEF r, a
  <2>3. CASE phase' = ReadyPhase[a]
    <3>1. ReadyPhase[a] \in Passing => RunningPhase[a] \in Passing
      BY <2>1 DEF Agent, ReadyPhase, RunningPhase, Passing
    <3> QED BY <2>1, <2>3, <3>1, PhaseTables, PhasesDiffer DEF SyncInv, Passed
  <2>4. CASE r = mover /\ phase' = TerminalTarget(mover)
    <3>1. phase' = "blocked" \/ (phase' = runs[mover].next /\ Edge(phase, phase'))
      BY <2>4 DEF TerminalTarget
    <3> QED BY <2>1, <3>1, RunningLeadsOut, PhasesDiffer DEF SyncInv, Passed
  <2> QED BY <2>1, <2>2, <2>3, <2>4
<1>2. CASE RecoverReady \/ RecoverWaiting \/ RecoverMonitored
  <2>1. phase' = phase /\ phase \in ReadyPhases \cup WaitingPhases
    BY <1>2 DEF RecoverReady, RecoverWaiting, RecoverMonitored, StaleReady, StaleWaiting,
                StaleMonitored, ApplyRecovery, WaitingPhases
  <2> QED BY <2>1, PhasesDiffer DEF SyncInv, Passed
<1> QED BY <1>1, <1>2 DEF RecoverRow

(* The sweep breaks a lock only when nobody is at work.                    *)
LEMMA SweepStep == ASSUME SyncInv, NEW p \in Owner, Sweep(p) PROVE SyncInv'
<1>1. CASE UNCHANGED storeVars
  BY <1>1, AwayStep, Places DEF Sweep, PC
<1>2. CASE Recoverable /\ RecoverRow
  <2>1. /\ pc' = [pc EXCEPT ![p] = "claim"] /\ pc[p] = "sweep" /\ lease' = "none"
        /\ UNCHANGED <<myRun, agent, outcome, head, source, tree, noted, report, wanted>>
    BY <1>2 DEF Sweep, At, Goto, RecoverRow, RecoverRunning, RecoverReady, RecoverWaiting,
                RecoverMonitored, ApplyRecovery, Unlock, local, files
  <2>2. StoreInv'
    BY <1>2, RecoverRowInv DEF SyncInv
  <2>3. SyncTypeOK'
    BY <2>1, <2>2 DEF SyncInv, StoreInv, StoreTypeOK, SyncTypeOK, PC
  <2>4. \A q \in Owner : q # p => pc[q] \notin Holding
    BY <1>2, NoHolder
  <2>5. pc'[p] = "claim" /\ \A q \in Owner : q # p => pc'[q] = pc[q]
    BY <2>1 DEF SyncInv, SyncTypeOK
  <2>6. Fits(p)' /\ Careful(p)'
    BY <2>5, Elsewhere, Places
  <2>7. MoverRuns' /\ Passed'
    BY <1>2, <2>1, SweptPhase DEF MoverRuns, Passed, Finished
  <2> QED BY <2>1, <2>2, <2>3, <2>4, <2>5, <2>6, <2>7, OneStep
<1> QED BY <1>1, <1>2 DEF Sweep
-----------------------------------------------------------------------------
(* A run, from the lock to the agent.                                      *)

(* The lock is taken when it is free, under a run that has no row yet.     *)
LEMMA AcquireStep == ASSUME SyncInv, NEW p \in Owner, Acquire(p) PROVE SyncInv'
<1> DEFINE a == AgentOfReady(phase)
<1>1. /\ pc' = [pc EXCEPT ![p] = "acquired"]
      /\ myRun' = [myRun EXCEPT ![p] = lastRun + 1] /\ agent' = [agent EXCEPT ![p] = a]
      /\ owner' = p /\ lease' = "live" /\ current' = lastRun + 1 /\ lastRun' = lastRun + 1
      /\ lastRun < MaxRuns /\ phase \in LoopReady /\ ~Locked
      /\ UNCHANGED <<phase, runs, request, mover>>
      /\ UNCHANGED <<outcome, head, source, tree, noted, report, wanted>>
  BY DEF Acquire, Goto, AcquireLock, CanAcquire, files
<1>2. StoreInv'
  BY AcquireLockInv DEF Acquire, SyncInv
<1>3. a \in Loop /\ a \in Agent /\ ReadyPhase[a] = phase
  BY <1>1, LoopAgent, LoopFacts
<1> HIDE DEF a
<1>4. lastRun + 1 \in RunId /\ runs[lastRun + 1] = AbsentRow /\ lastRun + 1 # NoRun
  BY <1>1, MaxRunsAssumption DEF SyncInv, StoreInv, StoreTypeOK, RunsDrawn, RunId, NoRun
<1>5. SyncTypeOK'
  BY <1>1, <1>2, <1>3, <1>4 DEF SyncInv, StoreInv, StoreTypeOK, SyncTypeOK, PC
<1>6. \A q \in Owner : q # p => pc[q] \notin Holding
  BY <1>1, NoHolder
<1>7. /\ pc'[p] = "acquired" /\ myRun'[p] = lastRun + 1 /\ agent'[p] = a
      /\ \A q \in Owner : q # p => pc'[q] = pc[q] /\ myRun'[q] = myRun[q] /\ agent'[q] = agent[q]
  BY <1>1 DEF SyncInv, SyncTypeOK
<1>8. Fits(p)' /\ Careful(p)'
  BY <1>1, <1>3, <1>4, <1>7 DEF Fits, Careful, Holds, Holding, Working, AtWork, SyncPC, RescuePC
<1>9. MoverRuns' /\ Passed'
  BY <1>1, LoopFacts, PhasesDiffer DEF SyncInv, MoverRuns, Passed, Finished
<1> QED BY <1>1, <1>2, <1>5, <1>6, <1>7, <1>8, <1>9, OneStep

(* The run moves the issue to its running phase.                           *)
LEMMA EnterPhaseStep == ASSUME SyncInv, NEW p \in Owner, EnterPhase(p) PROVE SyncInv'
<1> DEFINE running == RunningPhase[agent[p]]
<1>1. /\ pc' = [pc EXCEPT ![p] = "started"] /\ pc[p] = "acquired"
      /\ current = myRun[p] /\ phase' = running /\ mover' = myRun[p]
      /\ UNCHANGED <<owner, lease, current, runs, request, lastRun>>
      /\ UNCHANGED <<myRun, agent, outcome, head, source, tree, noted, report, wanted>>
  BY DEF EnterPhase, At, Goto, RunTransition, local, files
<1>2. /\ phase = ReadyPhase[agent[p]] /\ runs[myRun[p]] = AbsentRow /\ agent[p] \in Loop
      /\ Holds(p, myRun[p]) /\ myRun[p] # NoRun /\ myRun[p] \in RunId
  BY <1>1, Places DEF SyncInv, Fits, SyncTypeOK, Holding, Working
<1>3. running \in Phase /\ running \in RunningPhases
  BY <1>2, LoopFacts, PhaseTables
<1>4. StoreInv'
  BY <1>1, <1>2, <1>3, RunTransitionInv DEF EnterPhase, SyncInv
<1>5. SyncTypeOK'
  BY <1>1, <1>4 DEF SyncInv, StoreInv, StoreTypeOK, SyncTypeOK, PC
<1>6. \A q \in Owner : q # p => pc[q] \notin Holding
  BY <1>1, OneHolder, Places DEF Holding, Working
<1>7. pc'[p] = "started" /\ \A q \in Owner : q # p => pc'[q] = pc[q]
  BY <1>1 DEF SyncInv, SyncTypeOK
<1>8. Fits(p)' /\ Careful(p)'
  BY <1>1, <1>2, <1>7 DEF Fits, Careful, Holds, Holding, Working, AtWork, SyncPC, RescuePC
<1>9. running \in Passing => phase \in Passing
  BY <1>2 DEF Loop, ReadyPhase, RunningPhase, Agent, Passing
<1>10. MoverRuns'
  BY <1>1, <1>2 DEF MoverRuns
<1>11. runs'[mover'].next \notin Passing /\ (phase' \in Passing => phase \in Passing)
  BY <1>1, <1>2, <1>9 DEF AbsentRow, Passing
<1>12. Passed'
  BY <1>1, <1>11 DEF SyncInv, Passed, Finished
<1>13. lease' # "expired"
  BY <1>1 DEF SyncInv
<1> QED BY <1>1, <1>4, <1>5, <1>6, <1>7, <1>8, <1>10, <1>12, <1>13, OneStep

(* The run gets its row, which has decided nothing yet.                    *)
LEMMA StartRunStep == ASSUME SyncInv, NEW p \in Owner, StartRun(p) PROVE SyncInv'
<1>1. /\ pc' = [pc EXCEPT ![p] = "working"] /\ pc[p] = "started" /\ current = myRun[p]
      /\ runs' = [runs EXCEPT ![myRun[p]] =
                    [status |-> "running", agent |-> agent[p], next |-> "none"]]
      /\ UNCHANGED <<phase, owner, lease, current, request, mover, lastRun>>
      /\ UNCHANGED <<myRun, agent, outcome, head, source, tree, noted, report, wanted>>
  BY DEF StartRun, At, Goto, CreateRun, local, files
<1>2. /\ phase = RunningPhase[agent[p]] /\ mover = myRun[p] /\ agent[p] \in Loop
      /\ Holds(p, myRun[p]) /\ myRun[p] # NoRun /\ myRun[p] \in RunId
  BY <1>1, Places DEF SyncInv, Fits, SyncTypeOK, Holding, Working
<1>3. StoreInv'
  BY <1>1, <1>2, LoopFacts, CreateRunInv DEF StartRun, SyncInv
<1>4. SyncTypeOK'
  BY <1>1, <1>3 DEF SyncInv, StoreInv, StoreTypeOK, SyncTypeOK, PC
<1>5. \A q \in Owner : q # p => pc[q] \notin Holding
  BY <1>1, OneHolder, Places DEF Holding, Working
<1>6. /\ pc'[p] = "working" /\ runs'[myRun[p]].next = "none"
      /\ \A q \in Owner : q # p => pc'[q] = pc[q]
  BY <1>1, <1>2 DEF SyncInv, SyncTypeOK, StoreTypeOK
<1>7. Fits(p)' /\ Careful(p)'
  BY <1>1, <1>2, <1>6 DEF Fits, Careful, Holds, Holding, Working, AtWork, SyncPC, RescuePC
<1>8. MoverRuns'
  BY <1>1, <1>2 DEF MoverRuns
<1>9. runs'[mover'].next \notin Passing
  BY <1>1, <1>2, <1>6 DEF Passing
<1>10. Passed'
  BY <1>1, <1>9 DEF SyncInv, Passed, Finished
<1>11. lease' # "expired"
  BY <1>1 DEF SyncInv
<1> QED BY <1>1, <1>3, <1>4, <1>5, <1>6, <1>7, <1>8, <1>10, <1>11, OneStep
-----------------------------------------------------------------------------
(* A run, from the agent's answer to its commit.                           *)

(* From one place of a run at work to another.                             *)
LEMMA WorkOn ==
  ASSUME SyncInv, NEW p \in Owner, pc[p] \in AtWork, NEW where \in AtWork, Goto(p, where),
         UNCHANGED <<storeVars, myRun, agent>>, SyncTypeOK',
         \A q \in Owner : q # p => outcome'[q] = outcome[q],
         where \in SyncPC => agent[p] = "review",
         At(p, "merging") \/ (Finished => Finished'),
         Careful(p)'
  PROVE  SyncInv'
<1>1. pc'[p] = where /\ \A q \in Owner : q # p => pc'[q] = pc[q]
  BY DEF SyncInv, SyncTypeOK, Goto
<1>2. pc[p] \in Holding /\ pc[p] \in Working /\ where \in Holding /\ where \in Working
  BY Places
<1>3. /\ Holds(p, myRun[p]) /\ myRun[p] # NoRun /\ agent[p] \in Loop
      /\ phase = RunningPhase[agent[p]] /\ mover = myRun[p] /\ runs[myRun[p]].next = "none"
  BY <1>2 DEF SyncInv, Fits
<1>4. where \notin {"acquired", "started", "completed"} /\ where \notin RescuePC
  BY <1>2, Places
<1>5. Fits(p)'
  BY <1>1, <1>3, <1>4 DEF Fits, Holds, storeVars
<1>6. \A q \in Owner : q # p => pc[q] \notin Holding
  BY <1>2, OneHolder
<1>7. StoreInv' /\ lease' # "expired" /\ MoverRuns'
  BY DEF SyncInv, storeVars, StoreInv, StoreTypeOK, LeaseCoherent, RetiredRunsFenced, RunsDrawn,
         MoverRuns
<1>8. Passed'
  <2>1. CASE At(p, "merging")
    BY <2>1, WhileMerging
  <2>2. CASE Finished => Finished'
    BY <2>2 DEF SyncInv, Passed, storeVars
  <2> QED BY <2>1, <2>2
<1> QED BY <1>1, <1>5, <1>6, <1>7, <1>8, OneStep

(* The agent answers: what a reviewer or a resolver says is not yet        *)
(* settled, and what the other agents say leaves no merge behind, because  *)
(* their phase began without one.                                          *)
LEMMA AgentReturnsStep == ASSUME SyncInv, NEW p \in Owner, AgentReturns(p) PROVE SyncInv'
<1>1. /\ pc[p] = "working" /\ UNCHANGED <<storeVars, myRun, agent, head, source, noted, report>>
      /\ wanted' \in {source, wanted}
  BY DEF AgentReturns, At
<1>2. PICK next \in Answers[agent[p]] :
        /\ outcome' = [outcome EXCEPT ![p] = next]
        /\ pc' = [pc EXCEPT ![p] = IF ShouldSync(agent[p], next) THEN "checking"
                                   ELSE IF ShouldCommit(agent[p], next) THEN "staging" ELSE "settled"]
  BY DEF AgentReturns, Decide, Goto
<1>3. PICK left \in BOOLEAN : tree' = [tree EXCEPT !.dirty = @ \/ left]
  BY DEF AgentReturns
<1> DEFINE where == IF ShouldSync(agent[p], next) THEN "checking"
                    ELSE IF ShouldCommit(agent[p], next) THEN "staging" ELSE "settled"
<1>4. agent[p] \in Loop /\ phase = RunningPhase[agent[p]]
  BY <1>1, Places DEF SyncInv, Fits
<1>5. next \in Phase /\ where \in AtWork /\ (where \in SyncPC => agent[p] = "review")
  BY <1>2, <1>4, LoopFacts, Places DEF ShouldSync
<1>6. /\ tree' \in Tree /\ tree'.merging = tree.merging /\ tree'.conflicts = tree.conflicts
  BY <1>3 DEF SyncInv, SyncTypeOK, Tree
<1>7. pc'[p] = where /\ outcome'[p] = next /\ \A q \in Owner : q # p => outcome'[q] = outcome[q]
  BY <1>2 DEF SyncInv, SyncTypeOK
<1>8. pc' \in [Owner -> PC] /\ outcome' \in [Owner -> Phase]
  BY <1>2, <1>5, Places DEF SyncInv, SyncTypeOK, PC, SyncPC
<1>9. SyncTypeOK'
  BY <1>1, <1>6, <1>8 DEF SyncInv, SyncTypeOK, storeVars, StoreTypeOK
<1>10. ASSUME where = "settled", next \in Passing PROVE Finished
  <2>1. agent[p] = "validation"
    BY <1>4, <1>2, <1>10 DEF ShouldSync, ShouldCommit, Answers, Loop, Passing
  <2> QED BY <2>1, <1>4, LoopFacts DEF SyncInv, Passed, Passing
<1>11. Careful(p)'
  BY <1>6, <1>7, <1>10 DEF Careful, Finished
<1>12. Goto(p, where) /\ (Finished => Finished')
  BY <1>2, <1>6 DEF Goto, Finished
<1>13. pc[p] \in AtWork
  BY <1>1, Places
<1> HIDE DEF where
<1> QED BY <1>1, <1>5, <1>7, <1>9, <1>11, <1>12, <1>13, WorkOn

(* A step of a run at work that stops the issue.                           *)
LEMMA FailStep ==
  ASSUME SyncInv, NEW p \in Owner, pc[p] \in AtWork, Fail(p),
         UNCHANGED <<storeVars, myRun, agent, head, source, noted, report, wanted>>,
         tree' \in Tree, At(p, "merging") \/ (Finished => Finished')
  PROVE  SyncInv'
<1>1. pc' = [pc EXCEPT ![p] = "settled"] /\ outcome' = [outcome EXCEPT ![p] = "blocked"]
  BY DEF Fail, Decide, Goto
<1>2. "blocked" \in Phase /\ "blocked" \notin Passing
  BY PhaseNames DEF Phase, WaitingPhases, Passing
<1>3. SyncTypeOK'
  BY <1>1, <1>2 DEF SyncInv, SyncTypeOK, storeVars, StoreTypeOK, PC
<1>4. /\ pc'[p] = "settled" /\ outcome'[p] = "blocked"
      /\ \A q \in Owner : q # p => outcome'[q] = outcome[q]
  BY <1>1 DEF SyncInv, SyncTypeOK
<1>5. Careful(p)'
  BY <1>2, <1>4 DEF Careful
<1> QED BY <1>3, <1>4, <1>5, WorkOn, Places DEF Fail

(* A worktree that is not clean refuses the sync.                          *)
LEMMA SyncRefusedStep == ASSUME SyncInv, NEW p \in Owner, SyncRefused(p) PROVE SyncInv'
  BY FailStep, Places DEF SyncRefused, At, files, Finished, SyncInv, SyncTypeOK

(* A report that cannot be written stops the issue.                        *)
LEMMA ReportFailsStep == ASSUME SyncInv, NEW p \in Owner, ReportFails(p) PROVE SyncInv'
  BY FailStep, Places DEF ReportFails, files, Finished, SyncInv, SyncTypeOK

(* A snapshot that cannot be committed stops the issue.                    *)
LEMMA SnapshotFailsStep == ASSUME SyncInv, NEW p \in Owner, SnapshotFails(p) PROVE SyncInv'
  BY FailStep, Places DEF SnapshotFails, files, Finished, SyncInv, SyncTypeOK

(* A merge that fails otherwise than with conflicts stops the issue.       *)
LEMMA MergeFailsStep == ASSUME SyncInv, NEW p \in Owner, MergeFails(p) PROVE SyncInv'
<1>1. myRun[p] \in RunId \cup {NoRun} /\ source \in Heads /\ tree \in Tree
  BY DEF SyncInv, SyncTypeOK
<1>2. tree' \in Tree
  BY <1>1 DEF MergeFails, HalfMerged, Tree
<1> QED BY <1>2, FailStep, Places DEF MergeFails, At

(* Nothing to merge.                                                       *)
LEMMA UpToDateStep == ASSUME SyncInv, NEW p \in Owner, UpToDate(p) PROVE SyncInv'
<1>1. /\ pc' = [pc EXCEPT ![p] = "settled"] /\ pc[p] = "checking" /\ Clean(tree) /\ noted' = source
      /\ UNCHANGED <<storeVars, myRun, agent, outcome, head, source, tree, report, wanted>>
  BY DEF UpToDate, At, Goto, local
<1>2. SyncTypeOK'
  BY <1>1 DEF SyncInv, SyncTypeOK, PC, storeVars, StoreTypeOK
<1>3. Finished /\ Finished'
  BY <1>1 DEF Clean, Finished
<1>4. pc'[p] = "settled"
  BY <1>1 DEF SyncInv, SyncTypeOK
<1>5. Careful(p)'
  BY <1>3, <1>4 DEF Careful
<1> QED BY <1>1, <1>2, <1>3, <1>5, WorkOn, Places DEF UpToDate

(* The merge begins in a clean worktree.                                   *)
LEMMA ReadSourceStep == ASSUME SyncInv, NEW p \in Owner, ReadSource(p) PROVE SyncInv'
<1>1. /\ pc' = [pc EXCEPT ![p] = "merging"] /\ pc[p] = "checking" /\ Clean(tree)
      /\ head' = [head EXCEPT ![p] = source]
      /\ UNCHANGED <<storeVars, myRun, agent, outcome, source, tree, noted, report, wanted>>
  BY DEF ReadSource, At, Goto, files
<1>2. SyncTypeOK'
  BY <1>1 DEF SyncInv, SyncTypeOK, PC, SyncPC, storeVars, StoreTypeOK
<1>3. Finished /\ Finished'
  BY <1>1 DEF Clean, Finished
<1>4. pc'[p] = "merging" /\ pc[p] \in SyncPC
  BY <1>1 DEF SyncInv, SyncTypeOK, SyncPC
<1>5. Careful(p)' /\ agent[p] = "review"
  BY <1>3, <1>4 DEF SyncInv, Fits, Careful
<1> QED BY <1>1, <1>2, <1>3, <1>5, WorkOn, Places DEF ReadSource

(* The merge is committed or in conflict.                                  *)
LEMMA MergeSourceStep == ASSUME SyncInv, NEW p \in Owner, MergeSource(p) PROVE SyncInv'
<1>1. /\ pc' = [pc EXCEPT ![p] = "noting"] /\ pc[p] = "merging"
      /\ UNCHANGED <<storeVars, myRun, agent, outcome, head, source, noted, report, wanted>>
      /\ tree' \in {[tree EXCEPT !.base = source],
                    [tree EXCEPT !.merging = source, !.conflicts = TRUE, !.by = myRun[p]]}
  BY DEF MergeSource, At, Goto, local
<1>2. myRun[p] \in RunId \cup {NoRun} /\ source \in Heads /\ tree \in Tree
  BY DEF SyncInv, SyncTypeOK
<1>3. tree' \in Tree
  BY <1>1, <1>2 DEF Tree
<1>4. SyncTypeOK'
  BY <1>1, <1>3 DEF SyncInv, SyncTypeOK, PC, SyncPC, storeVars, StoreTypeOK
<1>5. pc'[p] = "noting" /\ pc[p] \in SyncPC
  BY <1>1 DEF SyncInv, SyncTypeOK, SyncPC
<1>6. Finished /\ agent[p] = "review"
  BY <1>1, <1>5 DEF SyncInv, Careful, Fits
<1>7. tree'.conflicts \/ Finished'
  BY <1>1, <1>2, <1>6 DEF Finished, Tree
<1>8. Careful(p)'
  BY <1>5, <1>7 DEF Careful
<1> QED BY <1>1, <1>4, <1>6, <1>8, WorkOn, Places DEF MergeSource

(* The metadata are written; conflicts are reported, the rest is settled.  *)
LEMMA NoteStep == ASSUME SyncInv, NEW p \in Owner, Note(p) PROVE SyncInv'
<1> DEFINE where == IF tree.conflicts THEN "archiving" ELSE "settled"
<1>1. /\ pc' = [pc EXCEPT ![p] = where] /\ pc[p] = "noting" /\ noted' = head[p]
      /\ UNCHANGED <<storeVars, myRun, agent, outcome, head, source, tree, report, wanted>>
  BY DEF Note, At, Goto, local
<1>2. SyncTypeOK'
  BY <1>1 DEF SyncInv, SyncTypeOK, PC, SyncPC, storeVars, StoreTypeOK
<1>3. pc'[p] = where /\ pc[p] \in SyncPC
  BY <1>1 DEF SyncInv, SyncTypeOK, SyncPC
<1>4. agent[p] = "review" /\ (tree.conflicts \/ Finished)
  BY <1>1, <1>3 DEF SyncInv, Careful, Fits
<1>5. Careful(p)' /\ (Finished => Finished')
  BY <1>1, <1>3, <1>4 DEF Careful, Finished
<1>6. where \in AtWork /\ Goto(p, where)
  BY <1>1, Places DEF Goto
<1> HIDE DEF where
<1> QED BY <1>1, <1>2, <1>4, <1>5, <1>6, WorkOn, Places

(* The old report goes.                                                    *)
LEMMA ArchiveReportStep == ASSUME SyncInv, NEW p \in Owner, ArchiveReport(p) PROVE SyncInv'
<1>1. /\ report' = NoReport
      /\ UNCHANGED <<storeVars, myRun, agent, outcome, head, source, tree, noted, wanted>>
      /\ \/ At(p, "archiving") /\ Goto(p, "writing")
         \/ At(p, "rearchiving") /\ Goto(p, "rewriting")
  BY DEF ArchiveReport, local
<1>2. SyncTypeOK'
  <2>1. pc' \in [Owner -> PC]
    BY <1>1 DEF SyncInv, SyncTypeOK, Goto, PC, SyncPC, RescuePC
  <2> QED BY <1>1, <2>1 DEF SyncInv, SyncTypeOK, storeVars, StoreTypeOK, NoReport
<1>3. CASE At(p, "archiving") /\ Goto(p, "writing")
  <2>1. pc[p] \in SyncPC /\ pc'[p] = "writing"
    BY <1>3 DEF SyncInv, SyncTypeOK, At, Goto, SyncPC
  <2>2. agent[p] = "review" /\ Careful(p)'
    BY <2>1 DEF SyncInv, Fits, Careful
  <2> QED BY <1>1, <1>2, <1>3, <2>2, WorkOn, Places DEF At, Finished
<1>4. CASE At(p, "rearchiving") /\ Goto(p, "rewriting")
  BY <1>1, <1>2, <1>4, RescueOn DEF At, RescuePC
<1> QED BY <1>1, <1>3, <1>4

(* The new report is written: the issue is to go to the resolver.          *)
LEMMA WriteReportStep == ASSUME SyncInv, NEW p \in Owner, WriteReport(p) PROVE SyncInv'
<1> DEFINE resolve == "ready_for_merge_conflict_resolution"
<1>1. /\ report' = [run |-> myRun[p], head |-> head[p]]
      /\ UNCHANGED <<storeVars, myRun, agent, head, source, tree, noted, wanted>>
      /\ \/ At(p, "writing") /\ Goto(p, "settled") /\ outcome' = [outcome EXCEPT ![p] = resolve]
         \/ At(p, "rewriting") /\ Goto(p, "handing_over") /\ UNCHANGED outcome
  BY DEF WriteReport, Decide
<1>2. SyncTypeOK'
  <2>1. resolve \in Phase
    BY PhaseNames DEF Phase
  <2>2. pc' \in [Owner -> PC] /\ outcome' \in [Owner -> Phase]
    BY <1>1, <2>1 DEF SyncInv, SyncTypeOK, Goto, PC, SyncPC, RescuePC
  <2>3. report' \in [run : RunId \cup {NoRun}, head : Heads \cup {NoHead}]
    BY <1>1 DEF SyncInv, SyncTypeOK
  <2> QED BY <1>1, <2>2, <2>3 DEF SyncInv, SyncTypeOK, storeVars, StoreTypeOK
<1>3. CASE At(p, "writing") /\ Goto(p, "settled") /\ outcome' = [outcome EXCEPT ![p] = resolve]
  <2>1. /\ pc'[p] = "settled" /\ outcome'[p] = resolve
        /\ \A q \in Owner : q # p => outcome'[q] = outcome[q]
    BY <1>3 DEF SyncInv, SyncTypeOK, At, Goto
  <2>2. Careful(p)'
    BY <2>1, PhasesDiffer DEF Careful
  <2> QED BY <1>1, <1>2, <1>3, <2>1, <2>2, WorkOn, Places DEF At, Finished
<1>4. CASE At(p, "rewriting") /\ Goto(p, "handing_over") /\ UNCHANGED outcome
  BY <1>1, <1>2, <1>4, RescueOn DEF At, RescuePC
<1> QED BY <1>1, <1>3, <1>4

(* Staging takes the conflicts out of the index ...                        *)
LEMMA StageStep == ASSUME SyncInv, NEW p \in Owner, Stage(p) PROVE SyncInv'
<1>1. /\ pc' = [pc EXCEPT ![p] = "committing"] /\ pc[p] = "staging"
      /\ tree' = [tree EXCEPT !.conflicts = FALSE]
      /\ UNCHANGED <<storeVars, myRun, agent, outcome, head, source, noted, report, wanted>>
  BY DEF Stage, At, Goto, local
<1>2. tree' \in Tree /\ ~tree'.conflicts /\ tree'.merging = tree.merging
  BY <1>1 DEF SyncInv, SyncTypeOK, Tree
<1>3. SyncTypeOK'
  BY <1>1, <1>2 DEF SyncInv, SyncTypeOK, PC, storeVars, StoreTypeOK
<1>4. pc'[p] = "committing"
  BY <1>1 DEF SyncInv, SyncTypeOK
<1>5. Careful(p)' /\ (Finished => Finished')
  BY <1>2, <1>4 DEF Careful, Finished
<1> QED BY <1>1, <1>3, <1>5, WorkOn, Places DEF Stage

(* ... and the commit concludes the merge.                                 *)
LEMMA CommitStep == ASSUME SyncInv, NEW p \in Owner, Commit(p) PROVE SyncInv'
<1>1. /\ pc' = [pc EXCEPT ![p] = "settled"] /\ pc[p] = "committing"
      /\ tree' = [tree EXCEPT !.base = IF tree.merging = NoHead THEN @ ELSE tree.merging,
                             !.merging = NoHead, !.dirty = FALSE, !.by = NoRun]
      /\ UNCHANGED <<storeVars, myRun, agent, outcome, head, source, noted, report, wanted>>
  BY DEF Commit, At, Goto, local
<1>2. ~tree.conflicts /\ tree \in Tree
  BY <1>1 DEF SyncInv, Careful, SyncTypeOK
<1>3. tree' \in Tree /\ Finished'
  BY <1>1, <1>2 DEF Finished, Tree
<1>4. SyncTypeOK'
  BY <1>1, <1>3 DEF SyncInv, SyncTypeOK, PC, storeVars, StoreTypeOK
<1>5. pc'[p] = "settled"
  BY <1>1 DEF SyncInv, SyncTypeOK
<1>6. Careful(p)'
  BY <1>3, <1>5 DEF Careful
<1> QED BY <1>1, <1>3, <1>4, <1>6, WorkOn, Places DEF Commit
-----------------------------------------------------------------------------
(* A run, from its commit to its end.                                      *)

(* The run records what it has decided; if that passes the work on, the    *)
(* worktree has no unfinished merge.                                       *)
LEMMA CompleteStep == ASSUME SyncInv, NEW p \in Owner, Complete(p) PROVE SyncInv'
<1>1. /\ pc' = [pc EXCEPT ![p] = "completed"] /\ pc[p] = "settled"
      /\ runs' = [runs EXCEPT ![myRun[p]].status = "completed", ![myRun[p]].next = outcome[p]]
      /\ UNCHANGED <<phase, owner, lease, current, request, mover, lastRun>>
      /\ UNCHANGED <<myRun, agent, outcome, head, source, tree, noted, report, wanted>>
  BY DEF Complete, At, Goto, CompleteRun, EndRun, local, files
<1>2. /\ phase = RunningPhase[agent[p]] /\ mover = myRun[p] /\ agent[p] \in Loop
      /\ Holds(p, myRun[p]) /\ myRun[p] # NoRun /\ myRun[p] \in RunId /\ outcome[p] \in Phase
  BY <1>1, Places DEF SyncInv, Fits, SyncTypeOK, Holding, Working
<1>3. StoreInv'
  BY <1>2, CompleteRunInv DEF Complete, SyncInv
<1>4. SyncTypeOK'
  BY <1>1, <1>3 DEF SyncInv, StoreInv, StoreTypeOK, SyncTypeOK, PC
<1>5. \A q \in Owner : q # p => pc[q] \notin Holding
  BY <1>1, OneHolder, Places
<1>6. runs \in [RunId -> Row]
  BY DEF SyncInv, SyncTypeOK, StoreTypeOK
<1>7. runs'[myRun[p]].next = outcome[p]
  BY <1>1, <1>2, <1>6 DEF Row
<1>8. pc'[p] = "completed" /\ \A q \in Owner : q # p => pc'[q] = pc[q]
  BY <1>1 DEF SyncInv, SyncTypeOK
<1>9. Fits(p)' /\ Careful(p)'
  BY <1>1, <1>2, <1>7, <1>8 DEF Fits, Careful, Holds, Holding, Working, AtWork, SyncPC, RescuePC
<1>10. MoverRuns' /\ lease' # "expired"
  BY <1>1 DEF SyncInv, MoverRuns
<1>11. runs'[mover'].next \in Passing => Finished
  BY <1>1, <1>2, <1>7 DEF SyncInv, Careful
<1>12. Passed'
  BY <1>1, <1>11 DEF SyncInv, Passed, Finished
<1> QED BY <1>1, <1>3, <1>4, <1>5, <1>8, <1>9, <1>10, <1>12, OneStep

(* The run moves the issue to where it had decided.                        *)
LEMMA MoveStep == ASSUME SyncInv, NEW p \in Owner, Move(p) PROVE SyncInv'
<1>1. /\ pc' = [pc EXCEPT ![p] = "releasing"] /\ pc[p] = "completed"
      /\ current = myRun[p] /\ phase' = outcome[p] /\ mover' = myRun[p] /\ Edge(phase, phase')
      /\ UNCHANGED <<owner, lease, current, runs, request, lastRun>>
      /\ UNCHANGED <<myRun, agent, outcome, head, source, tree, noted, report, wanted>>
  BY DEF Move, At, Goto, RunTransition, TransitionAllowed, local, files
<1>2. /\ phase = RunningPhase[agent[p]] /\ mover = myRun[p] /\ agent[p] \in Loop
      /\ runs[myRun[p]].next = outcome[p]
      /\ Holds(p, myRun[p]) /\ myRun[p] # NoRun /\ myRun[p] \in RunId /\ outcome[p] \in Phase
  BY <1>1, Places DEF SyncInv, Fits, SyncTypeOK, Holding, Working
<1>3. StoreInv'
  BY <1>1, <1>2, RunTransitionInv DEF Move, SyncInv
<1>4. SyncTypeOK'
  BY <1>1, <1>3 DEF SyncInv, StoreInv, StoreTypeOK, SyncTypeOK, PC
<1>5. \A q \in Owner : q # p => pc[q] \notin Holding
  BY <1>1, OneHolder, Places DEF Holding, Working
<1>6. pc'[p] = "releasing" /\ \A q \in Owner : q # p => pc'[q] = pc[q]
  BY <1>1 DEF SyncInv, SyncTypeOK
<1>7. Fits(p)' /\ Careful(p)'
  BY <1>1, <1>2, <1>6 DEF Fits, Careful, Holds, Holding, Working, AtWork, SyncPC, RescuePC
<1>8. phase \in RunningPhases
  BY <1>2, LoopFacts, PhaseTables
<1>9. phase' \notin RunningPhases /\ (phase' \in Passing => Finished)
  BY <1>1, <1>2, <1>8, RunningLeadsOut DEF SyncInv, Passed
<1>10. MoverRuns' /\ Passed' /\ lease' # "expired"
  BY <1>1, <1>9 DEF SyncInv, MoverRuns, Passed, Finished
<1> QED BY <1>1, <1>3, <1>4, <1>5, <1>6, <1>7, <1>10, OneStep

(* The lock is given back, at the end of a run or by an exception.         *)
LEMMA ReleaseStep ==
  ASSUME SyncInv, NEW p \in Owner, Release(p) \/ NoteRaises(p) PROVE SyncInv'
<1>1. /\ pc' = [pc EXCEPT ![p] = "idle"] /\ pc[p] \in {"releasing", "checking", "noting"}
      /\ owner' = NoOwner /\ lease' = "none" /\ current' = NoRun
      /\ UNCHANGED <<phase, runs, request, mover, lastRun>>
      /\ UNCHANGED <<myRun, agent, outcome, head, source, tree, noted, report, wanted>>
  BY DEF Release, NoteRaises, At, Goto, ReleaseLock, Unlock, local, files
<1>2. StoreInv'
  BY ReleaseLockInv DEF Release, NoteRaises, SyncInv
<1>3. SyncTypeOK'
  BY <1>1, <1>2 DEF SyncInv, StoreInv, StoreTypeOK, SyncTypeOK, PC
<1>4. \A q \in Owner : q # p => pc[q] \notin Holding
  BY <1>1, OneHolder, Places DEF Holding, Working
<1>5. pc'[p] = "idle" /\ \A q \in Owner : q # p => pc'[q] = pc[q]
  BY <1>1 DEF SyncInv, SyncTypeOK
<1>6. Fits(p)' /\ Careful(p)'
  BY <1>5, Elsewhere, Places
<1>7. MoverRuns' /\ Passed'
  BY <1>1 DEF SyncInv, MoverRuns, Passed, Finished
<1> QED BY <1>1, <1>2, <1>3, <1>4, <1>5, <1>6, <1>7, OneStep
-----------------------------------------------------------------------------
(* SyncInv is an invariant.                                                *)

(* At first nobody is at work and nothing is being merged.                 *)
LEMMA SyncInit == Init => SyncInv
<1> SUFFICES ASSUME Init PROVE SyncInv
  OBVIOUS
<1>1. StoreInv /\ lease # "expired" /\ phase \notin RunningPhases
  BY StoreInitInv, StartPhasesAssumption, PhasesDiffer DEF Init, StoreInit
<1>2. 0 \in Heads /\ "review" \in Agent /\ "blocked" \in Phase
  BY SyncAssumption, PhaseNames DEF Heads, Agent, Phase, WaitingPhases
<1>3. SyncTypeOK
  BY <1>1, <1>2 DEF Init, StoreInv, SyncTypeOK, PC, Tree, NoReport
<1>4. \A p \in Owner : pc[p] = "absent"
  BY DEF Init
<1>5. \A p \in Owner : Fits(p) /\ Careful(p)
  BY <1>4 DEF Fits, Careful, Holding, Working, AtWork, SyncPC, RescuePC
<1>6. MoverRuns /\ Passed
  BY <1>1 DEF Init, MoverRuns, Passed, Finished
<1> QED BY <1>1, <1>3, <1>5, <1>6 DEF SyncInv

(* Every step keeps it.                                                    *)
LEMMA SyncNext == SyncInv /\ [Next]_vars => SyncInv'
<1> SUFFICES ASSUME SyncInv, [Next]_vars PROVE SyncInv'
  OBVIOUS
<1>1. CASE UNCHANGED vars
  BY <1>1 DEF vars, local, files, storeVars, SyncInv, SyncTypeOK, StoreTypeOK, StoreInv, LeaseCoherent,
              RetiredRunsFenced, RunsDrawn, Fits, Careful, Holds, MoverRuns, Passed, Finished
<1>2. CASE Advance
  BY <1>2, AdvanceStep
<1>3. ASSUME NEW p \in Owner, Start(p) \/ NoteRaises(p) \/ Crash(p) PROVE SyncInv'
  BY <1>3, StartStep, ReleaseStep, CrashStep
<1>4. ASSUME NEW p \in Owner, Recovery(p) PROVE SyncInv'
  BY <1>4, LookStep, ClaimStep, ClaimRefusedStep, RescueStep, NothingToRescueStep, HandOverStep,
     SweepStep DEF Recovery
<1>5. ASSUME NEW p \in Owner, Run(p) PROVE SyncInv'
  BY <1>5, GiveUpStep, AcquireStep, EnterPhaseStep, StartRunStep, AgentReturnsStep, StageStep,
     CommitStep, SnapshotFailsStep, CompleteStep, MoveStep, ReleaseStep DEF Run
<1>6. ASSUME NEW p \in Owner, Sync(p) PROVE SyncInv'
  BY <1>6, SyncRefusedStep, UpToDateStep, ReadSourceStep, MergeSourceStep, MergeFailsStep, NoteStep,
     ArchiveReportStep, WriteReportStep, ReportFailsStep DEF Sync
<1> QED BY <1>1, <1>2, <1>3, <1>4, <1>5, <1>6 DEF Next, Goes

(* Every reachable state is described by the variables' types (TypeOK of   *)
(* SourceSync).                                                            *)
THEOREM SyncTypeCorrect == Spec => []TypeOK
<1> DEFINE Judged == orderly \in BOOLEAN
<1>1. Init => Judged
  BY DEF Init
<1>2. Judged /\ [Next]_vars => Judged'
  BY DEF Next, Start, NoteRaises, Crash, Goes, Advance, vars
<1>3. SyncInv /\ Judged => TypeOK
  BY DEF SyncInv, TypeOK
<1> QED BY SyncInit, SyncNext, <1>1, <1>2, <1>3, PTL DEF Spec

(* For every number of processes, crashes, runs and source commits:        *)
(* implementation and validation never begin in the middle of a merge      *)
(* (commit_phase_snapshot, sync_source_into_workspace and both recoveries).*)
THEOREM MergesConcluded == Spec => []MergesAreConcluded
<1>1. SyncInv => MergesAreConcluded
  BY DEF SyncInv, Passed, Passing, Finished, MergesAreConcluded
<1> QED BY SyncInit, SyncNext, <1>1, PTL DEF Spec

(* For every number of processes: no two of them are at work or recover,   *)
(* and the one that does holds the lock under the issue's current run.     *)
THEOREM OneAtWork ==
  Spec => [](\A p, q \in Owner : /\ pc[p] \in Holding => Holds(p, myRun[p])
                                /\ pc[p] \in Holding /\ pc[q] \in Holding => p = q)
<1>1. SyncInv => \A p, q \in Owner : /\ pc[p] \in Holding => Holds(p, myRun[p])
                                    /\ pc[p] \in Holding /\ pc[q] \in Holding => p = q
  BY OneHolder DEF SyncInv, Fits
<1> QED BY SyncInit, SyncNext, <1>1, PTL DEF Spec
-----------------------------------------------------------------------------
(* Where the processes follow one another (orderly), the conflicts of a    *)
(* sync find the resolver, with their report, and no rework forgets the    *)
(* source.                                                                 *)

Resolve    == "ready_for_merge_conflict_resolution"
Resolving  == {Resolve, "resolving_merge_conflicts"}
Reworked   == Passing \cup Resolving
Conflicted == phase = "reviewing" /\ tree.conflicts

(* The worktree includes all that a reviewer asked for, or will include it *)
(* when the merge in it is concluded.                                      *)
Caught == (IF tree.merging = NoHead THEN tree.base ELSE tree.merging) >= wanted

(* A lock has an owner at work or a dead one.                              *)
OwnerPlaced == owner # NoOwner => pc[owner] \in Holding \cup {"dead"}

Alone == \A p, q \in Owner : Alive(p) /\ Alive(q) => p = q

(* What the store, the worktree and the report say of one another: no      *)
(* review begins with conflicts, those of a review are of its own sync and *)
(* are not passed on by what it decided, and the resolver has their report.*)
Routed ==
  /\ phase = "ready_for_review" => ~tree.conflicts
  /\ phase = "reviewing" => current = mover
  /\ Conflicted =>
       tree.by = mover /\ Caught /\ runs[mover].next \in {"none", "blocked", Resolve}
  /\ phase \in Resolving /\ tree.conflicts => report.run >= tree.by
  /\ phase \in Reworked => Caught
  /\ phase = "reviewing" /\ runs[mover].next \in Reworked => Caught

(* What a living process may count on where it is.                         *)
Counts(p) ==
  /\ pc[p] = "found" => Conflicted
  /\ pc[p] \in RescuePC => tree.conflicts
  /\ pc[p] = "handing_over" => report.run = myRun[p]
  /\ pc[p] = "sweep" => ~Conflicted
  /\ pc[p] \in {"claim", "staging", "committing", "releasing"} => phase # "reviewing"
  /\ pc[p] \in {"started", "working", "checking", "merging"} => ~Conflicted
  /\ pc[p] = "noting" => Caught
  /\ pc[p] \in {"archiving", "writing"} => tree.conflicts
  /\ pc[p] = "settled" /\ phase = "reviewing" => (outcome[p] \in Reworked => Caught)
  /\ pc[p] = "settled" /\ Conflicted => outcome[p] \in {"blocked", Resolve}
  /\ pc[p] \in {"settled", "completed"} /\ Conflicted /\ outcome[p] = Resolve =>
       report.run >= tree.by

InOrder == Alone /\ Routed /\ \A p \in Owner : Counts(p)

OrderInv == OwnerPlaced /\ wanted <= source /\ (orderly => InOrder)
-----------------------------------------------------------------------------
(* Where the phases of the loop come from, and that places differ.         *)
LEMMA LoopEdges ==
  ASSUME NEW x \in RunningPhases, NEW y, Edge(x, y)
  PROVE  /\ y \notin RunningPhases
         /\ y = "ready_for_review" => x = "validating"
         /\ y \in Resolving => y = Resolve /\ x \in {"reviewing", "merging"}
         /\ y \in Reworked => x \in Reworked \cup {"reviewing", "merging"}
         /\ x = "reviewing" /\ y \in Passing => y = "ready_for_implementation"
  BY PhaseNames DEF Edge, ValidTransitions, AskingAgents, Phase, WaitingPhases, Resolving, Resolve,
                    Reworked, Passing

(* Where a process goes, nobody else goes.                                 *)
LEMMA Going ==
  ASSUME SyncTypeOK, NEW p \in Owner, NEW where, Goto(p, where)
  PROVE  pc'[p] = where /\ \A q \in Owner : q # p => pc'[q] = pc[q]
  BY DEF SyncTypeOK, Goto

(* Whoever goes on its way without holding the lock finds it free, or held *)
(* by a dead process.                                                      *)
LEMMA FindsRecoverable ==
  ASSUME SyncInv, OwnerPlaced, Alone, NEW p \in Owner, Alive(p), pc[p] \notin Holding
  PROVE  Recoverable
<1>1. owner = NoOwner => lease = "none"
  BY DEF SyncInv, StoreInv, LeaseCoherent
<1>2. ASSUME owner # NoOwner PROVE At(owner, "dead")
  <2>1. owner \in Owner /\ pc[owner] \in Holding \cup {"dead"}
    BY <1>2 DEF SyncInv, SyncTypeOK, StoreTypeOK, OwnerPlaced
  <2>2. pc[owner] \in Holding => Alive(owner)
    BY Places DEF Alive
  <2> QED BY <2>1, <2>2 DEF Alone, At
<1> QED BY <1>1, <1>2 DEF Recoverable

(* Who is dead or has not come yet counts on nothing.                      *)
LEMMA Nothing ==
  ASSUME NEW p, pc[p] \in {"absent", "idle", "dead"} PROVE Counts(p)
<1>1. /\ pc[p] \notin RescuePC
      /\ pc[p] \notin {"found", "handing_over", "sweep", "claim", "staging", "committing",
                       "releasing", "started", "working", "checking", "merging", "noting",
                       "archiving", "writing", "settled", "completed"}
  BY DEF RescuePC
<1> QED BY <1>1 DEF Counts

(* A step of the only living process.                                      *)
LEMMA InOrderStep ==
  ASSUME InOrder, NEW p \in Owner, Alive(p), \A q \in Owner : q # p => pc'[q] = pc[q],
         Routed', Counts(p)'
  PROVE  InOrder'
<1>1. ASSUME NEW q \in Owner, q # p PROVE ~Alive(q)' /\ pc'[q] \in {"absent", "idle", "dead"}
  BY <1>1 DEF InOrder, Alone, Alive
<1>2. Alone'
  BY <1>1 DEF Alone
<1>3. \A q \in Owner : q # p => Counts(q)'
  <2>1. \A q \in Owner : pc'[q] \in {"absent", "idle", "dead"} => Counts(q)'
    BY DEF Counts, RescuePC
  <2> QED BY <1>1, <2>1
<1> QED BY <1>2, <1>3 DEF InOrder

(* Nothing that Routed is about has changed.                               *)
LEMMA StillRouted ==
  ASSUME Routed, UNCHANGED <<phase, current, runs, mover, tree, report, wanted>> PROVE Routed'
  BY DEF Routed, Conflicted, Caught

(* The lock and its owner: a step of p takes the lock, gives it back, goes *)
(* on with it or goes on without.                                          *)
LEMMA OwnerStep ==
  ASSUME OwnerPlaced, NEW p \in Owner, \A q \in Owner : q # p => pc'[q] = pc[q],
         owner \in Owner \cup {NoOwner},
         \/ owner' = NoOwner
         \/ owner' \in {owner, p} /\ pc'[p] \in Holding \cup {"dead"}
         \/ owner' = owner /\ pc[p] \notin Holding \cup {"dead"}
  PROVE  OwnerPlaced'
  BY DEF OwnerPlaced
-----------------------------------------------------------------------------
(* One lemma per action of the only living process: recovery.              *)

(* The sweep looks before it leaves for one place or the other.            *)
LEMMA LookKeeps ==
  ASSUME SyncInv, InOrder, NEW p \in Owner, Look(p) PROVE Routed' /\ Counts(p)'
<1>1. /\ UNCHANGED <<phase, current, runs, mover, tree, report, wanted>>
      /\ Goto(p, IF Conflicted THEN "found" ELSE "sweep")
  BY DEF Look, storeVars, files, Conflicted
<1>2. pc'[p] = IF Conflicted THEN "found" ELSE "sweep"
  BY <1>1 DEF SyncInv, SyncTypeOK, Goto
<1>3. Conflicted' = Conflicted
  BY <1>1 DEF Conflicted
<1>4. Counts(p)'
  BY <1>2, <1>3 DEF Counts, RescuePC
<1> QED BY <1>1, <1>4, StillRouted DEF InOrder

(* A claim of conflicts that are there.                                    *)
LEMMA ClaimKeeps ==
  ASSUME SyncInv, InOrder, NEW p \in Owner, Claim(p) PROVE Routed' /\ Counts(p)'
<1>1. /\ UNCHANGED <<phase, current, runs, mover, tree, report, wanted>>
      /\ pc[p] = "found" /\ pc'[p] = "claimed"
  BY DEF SyncInv, SyncTypeOK, Claim, At, Goto, ClaimLock, files
<1>2. tree'.conflicts
  BY <1>1 DEF InOrder, Counts, Conflicted
<1>3. Counts(p)'
  BY <1>1, <1>2 DEF Counts, RescuePC
<1> QED BY <1>1, <1>3, StillRouted DEF InOrder

(* Nobody else has taken what the sweep found.                             *)
LEMMA NoClaimRefused ==
  ASSUME SyncInv, OwnerPlaced, InOrder, NEW p \in Owner PROVE ~ClaimRefused(p)
<1> SUFFICES ASSUME ClaimRefused(p) PROVE FALSE
  OBVIOUS
<1>1. pc[p] = "found"
  BY DEF ClaimRefused, At
<1>2. Alive(p) /\ pc[p] \notin Holding
  BY <1>1, Places DEF Alive
<1>3. Recoverable /\ phase = "reviewing"
  BY <1>1, <1>2, FindsRecoverable DEF InOrder, Counts, Conflicted
<1> QED BY <1>3 DEF ClaimRefused

(* What is claimed is still in conflict.                                   *)
LEMMA NoNothingToRescue ==
  ASSUME InOrder, NEW p \in Owner PROVE ~NothingToRescue(p)
  BY DEF NothingToRescue, At, InOrder, Counts, RescuePC

(* Who rescues a review knows its run, so the conflicts are reported.      *)
LEMMA RescueKeeps ==
  ASSUME SyncInv, InOrder, NEW p \in Owner, Rescue(p) PROVE Routed' /\ Counts(p)'
<1>1. /\ UNCHANGED <<phase, current, runs, mover, tree, report, wanted>>
      /\ pc[p] = "claimed" /\ pc[p] \in RescuePC /\ tree.conflicts
      /\ Goto(p, IF myRun[p] = NoRun THEN "handing_over" ELSE "rearchiving")
  BY DEF Rescue, At, storeVars, RescuePC
<1>2. phase = "reviewing" /\ current = myRun[p] /\ mover # NoRun
  BY <1>1, Places, PhaseNames DEF SyncInv, Fits, Holds, MoverRuns
<1>3. pc'[p] = "rearchiving"
  BY <1>1, <1>2 DEF SyncInv, SyncTypeOK, Goto, InOrder, Routed
<1>4. Counts(p)'
  BY <1>1, <1>3 DEF Counts, RescuePC
<1> QED BY <1>1, <1>4, StillRouted DEF InOrder

(* The resolver gets the conflicts, the report of the run that left them,  *)
(* and a merge that brings in what the reviewer asked for.                 *)
LEMMA HandOverKeeps ==
  ASSUME SyncInv, InOrder, NEW p \in Owner, HandOver(p) PROVE Routed' /\ Counts(p)'
<1>1. /\ pc[p] = "handing_over" /\ pc[p] \in RescuePC /\ pc'[p] = "sweep"
      /\ phase' = Resolve /\ Holds(p, myRun[p])
      /\ UNCHANGED <<myRun, tree, report, wanted>>
  BY DEF SyncInv, SyncTypeOK, HandOver, At, Goto, RecoverClaimed, ApplyRecovery, local, files,
         RescuePC, Resolve
<1>2. phase = "reviewing"
  BY <1>1 DEF SyncInv, Fits
<1>3. /\ Conflicted /\ report.run = myRun[p] /\ tree.by = mover /\ current = mover /\ Caught
  BY <1>1, <1>2 DEF InOrder, Counts, Routed, Conflicted
<1>4. report.run >= tree.by /\ Caught'
  BY <1>1, <1>3 DEF Holds, Caught, SyncInv, SyncTypeOK, StoreTypeOK, RunId, NoRun
<1>5. Routed'
  BY <1>1, <1>4 DEF Routed, Conflicted, Resolve
<1>6. Counts(p)'
  BY <1>1 DEF Counts, RescuePC, Conflicted, Resolve
<1> QED BY <1>5, <1>6

(* Where the generic recovery leads: a review without conflicts goes back  *)
(* to its beginning or on to what its run had decided.                     *)
LEMMA SweptRoute ==
  ASSUME SyncInv, Routed, ~Conflicted, RecoverRow,
         UNCHANGED <<tree, report, wanted>>
  PROVE  Routed' /\ phase' # "reviewing"
<1>1. phase' \notin RunningPhases /\ (phase' \in Passing => Finished)
  BY SweptPhase
<1>2. phase' # "reviewing" /\ ~Conflicted' /\ Caught' = Caught
  BY <1>1, PhaseNames DEF Conflicted, Caught
<1>3. CASE RecoverReady \/ RecoverWaiting \/ RecoverMonitored
  <2>1. phase' = phase
    BY <1>3 DEF RecoverReady, RecoverWaiting, RecoverMonitored, ApplyRecovery
  <2> QED BY <1>2, <2>1 DEF Routed
<1>4. CASE RecoverRunning
  <2> DEFINE a == AgentOfRunning(phase)
             r == RunForRecovery(a)
  <2>1. /\ a \in Agent /\ RunningPhase[a] = phase /\ phase \in RunningPhases \ {"merging"}
        /\ r \in {NoRun, mover}
    BY <1>4, AgentOfPhase, RecoversMover DEF RecoverRunning
  <2>2. phase' = IF r # NoRun /\ runs[r].status # "running" THEN TerminalTarget(r)
                 ELSE ReadyPhase[a]
    BY <1>4 DEF RecoverRunning, ApplyRecovery
  <2> HIDE DEF r, a
  <2>3. CASE phase' = ReadyPhase[a]
    <3>1. /\ ReadyPhase[a] = "ready_for_review" => phase = "reviewing"
          /\ ReadyPhase[a] \in Resolving => phase \in Resolving
          /\ ReadyPhase[a] \in Reworked => phase \in Reworked
      BY <2>1 DEF Agent, ReadyPhase, RunningPhase, Resolving, Resolve, Reworked, Passing
    <3> QED BY <1>2, <2>3, <3>1 DEF Routed, Conflicted
  <2>4. CASE phase' = TerminalTarget(mover)
    <3>1. CASE phase' = "blocked"
      BY <1>2, <3>1 DEF Routed, Resolving, Resolve, Reworked, Passing
    <3>2. CASE phase' = runs[mover].next /\ Edge(phase, phase')
      <4>1. /\ phase' = "ready_for_review" => phase = "validating"
            /\ phase' \in Resolving => phase = "reviewing"
            /\ phase' \in Reworked => phase \in Reworked \cup {"reviewing"}
        BY <2>1, <3>2, LoopEdges
      <4>2. phase' = "ready_for_review" => ~tree.conflicts
        BY <4>1 DEF SyncInv, Passed, Passing, Finished
      <4>3. phase' \in Resolving => ~tree.conflicts
        BY <4>1 DEF Conflicted
      <4>4. phase' \in Reworked => Caught
        BY <3>2, <4>1 DEF Routed
      <4> QED BY <1>2, <4>2, <4>3, <4>4 DEF Routed
    <3> QED BY <2>4, <3>1, <3>2 DEF TerminalTarget
  <2> QED BY <2>1, <2>2, <2>3, <2>4
<1> QED BY <1>3, <1>4 DEF RecoverRow

(* A sweep finds the lock free or its owner dead, and nothing in conflict. *)
LEMMA SweepKeeps ==
  ASSUME SyncInv, OwnerPlaced, InOrder, NEW p \in Owner, Sweep(p) PROVE Routed' /\ Counts(p)'
<1>1. /\ pc[p] = "sweep" /\ pc'[p] = "claim" /\ UNCHANGED <<tree, report, wanted>>
  BY DEF SyncInv, SyncTypeOK, Sweep, At, Goto, files
<1>2. ~Conflicted
  BY <1>1 DEF InOrder, Counts
<1>3. Recoverable
  BY <1>1, FindsRecoverable, Places DEF InOrder, Alive
<1>4. Routed' /\ phase' # "reviewing"
  <2>1. CASE RecoverRow
    BY <1>1, <1>2, <2>1, SweptRoute DEF InOrder
  <2>2. CASE ~NeedsRecovery /\ UNCHANGED storeVars
    <3>1. phase # "reviewing"
      BY <2>2, PhaseNames DEF NeedsRecovery
    <3>2. UNCHANGED <<phase, current, runs, mover>>
      BY <2>2 DEF storeVars
    <3> QED BY <1>1, <3>1, <3>2, StillRouted DEF InOrder
  <2> QED BY <1>3, <2>1, <2>2 DEF Sweep
<1>5. Counts(p)'
  BY <1>1, <1>4 DEF Counts, RescuePC
<1> QED BY <1>4, <1>5
-----------------------------------------------------------------------------
(* A run, from the lock to the agent's answer.                             *)

(* Nothing is under review when the next run takes the lock.               *)
LEMMA AcquireKeeps ==
  ASSUME SyncInv, InOrder, NEW p \in Owner, Acquire(p) PROVE Routed' /\ Counts(p)'
<1>1. /\ UNCHANGED <<phase, runs, mover, tree, report, wanted>>
      /\ pc[p] = "claim" /\ pc'[p] = "acquired"
  BY DEF SyncInv, SyncTypeOK, Acquire, At, Goto, AcquireLock, files
<1>2. phase # "reviewing"
  BY <1>1 DEF InOrder, Counts
<1>3. Routed'
  BY <1>1, <1>2 DEF InOrder, Routed, Conflicted, Caught
<1>4. Counts(p)'
  BY <1>1 DEF Counts, RescuePC
<1> QED BY <1>3, <1>4

(* A review begins under its own run, without conflicts, undecided.        *)
LEMMA EnterPhaseKeeps ==
  ASSUME SyncInv, InOrder, NEW p \in Owner, EnterPhase(p) PROVE Routed' /\ Counts(p)'
<1> DEFINE a == agent[p]
<1>1. /\ pc[p] = "acquired" /\ pc'[p] = "started"
      /\ phase' = RunningPhase[a] /\ mover' = myRun[p] /\ current = myRun[p]
      /\ UNCHANGED <<current, runs, tree, report, wanted>>
  BY DEF SyncInv, SyncTypeOK, EnterPhase, At, Goto, RunTransition, local, files
<1>2. /\ a \in Loop /\ phase = ReadyPhase[a] /\ runs[myRun[p]] = AbsentRow
  BY <1>1, Places DEF SyncInv, Fits, Working
<1>3. /\ RunningPhase[a] = "reviewing" => ReadyPhase[a] = "ready_for_review"
      /\ RunningPhase[a] \in Resolving => ReadyPhase[a] \in Resolving
      /\ RunningPhase[a] \in Reworked => ReadyPhase[a] \in Reworked
      /\ RunningPhase[a] # "ready_for_review"
  BY <1>2 DEF Loop, Agent, ReadyPhase, RunningPhase, Resolving, Resolve, Reworked, Passing
<1> HIDE DEF a
<1>4. runs'[mover'].next = "none" /\ Caught' = Caught
  BY <1>1, <1>2 DEF AbsentRow, Caught
<1>5. phase' = "reviewing" => ~tree.conflicts
  BY <1>1, <1>2, <1>3 DEF InOrder, Routed
<1>6. Routed'
  BY <1>1, <1>2, <1>3, <1>4, <1>5
     DEF InOrder, Routed, Conflicted, Reworked, Passing, Resolving, Resolve
<1>7. Counts(p)'
  BY <1>1, <1>5 DEF Counts, RescuePC, Conflicted
<1> QED BY <1>6, <1>7

(* The row of the run says nothing yet.                                    *)
LEMMA StartRunKeeps ==
  ASSUME SyncInv, InOrder, NEW p \in Owner, StartRun(p) PROVE Routed' /\ Counts(p)'
<1>1. /\ pc[p] = "started" /\ pc'[p] = "working"
      /\ runs' = [runs EXCEPT ![myRun[p]] =
                    [status |-> "running", agent |-> agent[p], next |-> "none"]]
      /\ UNCHANGED <<phase, current, mover, tree, report, wanted>>
  BY DEF SyncInv, SyncTypeOK, StartRun, At, Goto, CreateRun, files
<1>2. mover = myRun[p] /\ myRun[p] \in RunId
  BY <1>1, Places DEF SyncInv, SyncTypeOK, Fits, Working
<1>3. runs'[mover].next = "none"
  BY <1>1, <1>2 DEF SyncInv, SyncTypeOK, StoreTypeOK
<1>4. ~Conflicted /\ ~Conflicted' /\ Caught' = Caught
  BY <1>1 DEF InOrder, Counts, Conflicted, Caught
<1>5. Routed'
  BY <1>1, <1>3, <1>4 DEF InOrder, Routed, Reworked, Passing, Resolving, Resolve
<1>6. Counts(p)'
  BY <1>1, <1>4 DEF Counts, RescuePC
<1> QED BY <1>5, <1>6

(* A step of the agent or of the sync that leaves the store and the report *)
(* alone.                                                                  *)
LEMMA WorkKeepsRoute ==
  ASSUME SyncInv, InOrder, NEW p \in Owner, pc[p] \in AtWork, UNCHANGED <<storeVars, report>>,
         phase = "ready_for_review" => ~tree'.conflicts,
         Conflicted' => tree'.by = mover /\ Caught',
         phase \in Resolving /\ tree'.conflicts => tree'.by = tree.by /\ tree.conflicts,
         phase \in Reworked => Caught'
  PROVE  Routed'
<1>1. mover = myRun[p] /\ runs[mover].next = "none"
  BY Places DEF SyncInv, Fits
<1>2. UNCHANGED <<phase, current, runs, mover>>
  BY DEF storeVars
<1> QED
  BY <1>1, <1>2 DEF InOrder, Routed, Conflicted, Reworked, Passing, Resolving, Resolve

(* A reviewer asks for the source as it is now; the others leave what was  *)
(* asked for as it was.                                                    *)
LEMMA AgentReturnsKeeps ==
  ASSUME SyncInv, InOrder, NEW p \in Owner, AgentReturns(p) PROVE Routed' /\ Counts(p)'
<1>1. pc[p] = "working" /\ pc[p] \in AtWork /\ UNCHANGED <<storeVars, report>>
  BY Places DEF AgentReturns, At
<1>2. PICK next \in Answers[agent[p]] :
        /\ outcome' = [outcome EXCEPT ![p] = next]
        /\ pc' = [pc EXCEPT ![p] = IF ShouldSync(agent[p], next) THEN "checking"
                                   ELSE IF ShouldCommit(agent[p], next) THEN "staging" ELSE "settled"]
        /\ wanted' = IF ShouldSync(agent[p], next) THEN source ELSE wanted
  BY DEF AgentReturns, Decide, Goto
<1>3. PICK left \in BOOLEAN : tree' = [tree EXCEPT !.dirty = @ \/ left]
  BY DEF AgentReturns
<1>4. /\ tree'.merging = tree.merging /\ tree'.conflicts = tree.conflicts
      /\ tree'.base = tree.base /\ tree'.by = tree.by
  BY <1>3 DEF SyncInv, SyncTypeOK, Tree
<1>5. agent[p] \in Loop /\ phase = RunningPhase[agent[p]]
  BY <1>1, Places DEF SyncInv, Fits
<1>6. ~Conflicted /\ ~Conflicted'
  BY <1>1, <1>4 DEF InOrder, Counts, Conflicted, storeVars
<1>7. ASSUME phase # "reviewing" PROVE Caught' = Caught
  <2>1. agent[p] # "review"
    BY <1>5, <1>7, LoopFacts
  <2> QED BY <1>2, <1>4, <2>1 DEF ShouldSync, Caught
<1>8. phase \in Reworked => Caught'
  BY <1>7 DEF InOrder, Routed, Reworked, Passing, Resolving, Resolve
<1>9. phase # "ready_for_review"
  BY <1>5 DEF Loop, RunningPhase, Agent
<1>10. Routed'
  BY <1>1, <1>4, <1>6, <1>8, <1>9, WorkKeepsRoute
<1>11. /\ outcome'[p] = next
       /\ pc'[p] = IF ShouldSync(agent[p], next) THEN "checking"
                   ELSE IF ShouldCommit(agent[p], next) THEN "staging" ELSE "settled"
  BY <1>2 DEF SyncInv, SyncTypeOK
<1>12. ASSUME pc'[p] = "staging" PROVE phase' # "reviewing"
  <2>1. agent[p] \in {"implementation", "merge_conflict_resolution"}
    BY <1>11, <1>12 DEF ShouldCommit
  <2> QED BY <1>1, <1>5, <2>1, LoopFacts DEF storeVars
<1>13. ASSUME pc'[p] = "settled", phase' = "reviewing" PROVE next \notin Reworked
  <2>1. agent[p] = "review"
    BY <1>1, <1>5, <1>13 DEF storeVars, Loop, RunningPhase, Agent
  <2>2. next \in {"blocked", "awaiting_merge_approval"}
    BY <1>2, <1>11, <1>13, <2>1 DEF ShouldSync, Answers, Loop
  <2> QED BY <2>2 DEF Reworked, Passing, Resolving, Resolve
<1>14. Counts(p)'
  BY <1>6, <1>11, <1>12, <1>13 DEF Counts, RescuePC
<1> QED BY <1>10, <1>14
-----------------------------------------------------------------------------
(* The sync.                                                               *)

(* Whoever syncs does so in a review, and knows its run and its phase.     *)
LEMMA InReview ==
  ASSUME SyncInv, NEW p \in Owner, pc[p] \in SyncPC
  PROVE  /\ phase = "reviewing" /\ mover = myRun[p] /\ current = myRun[p]
         /\ runs[mover].next = "none" /\ pc[p] \in AtWork
  BY Places, LoopFacts DEF SyncInv, Fits, Holds

(* A step of the sync in a review without conflicts that leaves none.      *)
LEMMA SyncKeepsRoute ==
  ASSUME SyncInv, InOrder, NEW p \in Owner, pc[p] \in SyncPC, UNCHANGED <<storeVars, report>>,
         tree'.conflicts => tree'.by = mover /\ Caught'
  PROVE  Routed'
<1>1. phase = "reviewing" /\ pc[p] \in AtWork
  BY InReview
<1>2. phase \notin Resolving /\ phase \notin Reworked
  BY <1>1 DEF Resolving, Resolve, Reworked, Passing
<1> QED BY <1>1, <1>2, WorkKeepsRoute DEF Conflicted

(* A step that blocks the issue, whatever else it does to a worktree       *)
(* without conflicts, keeps the order.                                     *)
LEMMA FailKeeps ==
  ASSUME SyncInv, InOrder, NEW p \in Owner, Fail(p) PROVE Counts(p)'
<1>1. pc'[p] = "settled" /\ outcome'[p] = "blocked"
  BY DEF SyncInv, SyncTypeOK, Fail, Decide, Goto
<1> QED BY <1>1 DEF Counts, RescuePC, Reworked, Passing, Resolving, Resolve

(* The sync is refused, or its report fails.                               *)
LEMMA RefusedKeeps ==
  ASSUME SyncInv, InOrder, NEW p \in Owner, SyncRefused(p) \/ ReportFails(p) \/ SnapshotFails(p)
  PROVE  Routed' /\ Counts(p)'
<1>1. Fail(p) /\ UNCHANGED <<phase, current, runs, mover, tree, report, wanted>>
  BY DEF SyncRefused, ReportFails, SnapshotFails, storeVars, files
<1> QED BY <1>1, FailKeeps, StillRouted DEF InOrder

(* A worktree that includes the source includes what was asked for.        *)
LEMMA UpToDateKeeps ==
  ASSUME SyncInv, InOrder, wanted <= source, NEW p \in Owner, UpToDate(p)
  PROVE  Routed' /\ Counts(p)'
<1>1. /\ pc'[p] = "settled" /\ Clean(tree) /\ source <= tree.base
      /\ UNCHANGED <<storeVars, local, source, tree, report, wanted>>
  BY DEF SyncInv, SyncTypeOK, UpToDate, Goto
<1>2. Routed'
  BY <1>1, StillRouted DEF InOrder, storeVars
<1>3. Caught' /\ ~Conflicted'
  BY <1>1 DEF Clean, Caught, Conflicted, SyncInv, SyncTypeOK, Tree, Heads
<1>4. Counts(p)'
  BY <1>1, <1>3 DEF Counts, RescuePC
<1> QED BY <1>2, <1>4

(* The merge begins.                                                       *)
LEMMA ReadSourceKeeps ==
  ASSUME SyncInv, InOrder, NEW p \in Owner, ReadSource(p) PROVE Routed' /\ Counts(p)'
<1>1. /\ pc'[p] = "merging" /\ Clean(tree)
      /\ UNCHANGED <<phase, current, runs, mover, tree, report, wanted>>
  BY DEF SyncInv, SyncTypeOK, ReadSource, Goto, storeVars, files
<1>2. Counts(p)'
  BY <1>1 DEF Counts, RescuePC, Conflicted, Clean
<1> QED BY <1>1, <1>2, StillRouted DEF InOrder

(* It brings in at least what was asked for, at once or when its conflicts *)
(* are resolved, and they are this run's.                                  *)
LEMMA MergeSourceKeeps ==
  ASSUME SyncInv, InOrder, wanted <= source, NEW p \in Owner, MergeSource(p)
  PROVE  Routed' /\ Counts(p)'
<1>1. /\ pc[p] = "merging" /\ pc[p] \in SyncPC /\ pc'[p] = "noting"
      /\ tree' \in {[tree EXCEPT !.base = source],
                    [tree EXCEPT !.merging = source, !.conflicts = TRUE, !.by = myRun[p]]}
      /\ UNCHANGED <<storeVars, report, wanted>>
  BY DEF SyncInv, SyncTypeOK, MergeSource, At, Goto, SyncPC
<1>2. Finished /\ mover = myRun[p] /\ tree \in Tree /\ source \in Heads
  BY <1>1, InReview DEF SyncInv, SyncTypeOK, Careful
<1>3. \/ tree'.base = source /\ tree'.merging = NoHead /\ ~tree'.conflicts
      \/ tree'.merging = source /\ tree'.by = mover
  BY <1>1, <1>2 DEF Finished, Tree
<1>4. Caught' /\ (tree'.conflicts => tree'.by = mover)
  BY <1>1, <1>2, <1>3 DEF Caught, Heads, NoHead
<1>5. Routed'
  BY <1>1, <1>4, SyncKeepsRoute
<1>6. Counts(p)'
  BY <1>1, <1>4 DEF Counts, RescuePC
<1> QED BY <1>5, <1>6

(* A merge that fails leaves no conflicts; its issue is blocked.           *)
LEMMA MergeFailsKeeps ==
  ASSUME SyncInv, InOrder, NEW p \in Owner, MergeFails(p) PROVE Routed' /\ Counts(p)'
<1>1. /\ pc[p] = "merging" /\ pc[p] \in SyncPC /\ Fail(p)
      /\ tree' \in {tree, HalfMerged(p), [tree EXCEPT !.base = source, !.dirty = TRUE]}
      /\ UNCHANGED <<storeVars, report>>
  BY DEF MergeFails, At, SyncPC
<1>2. ~tree.conflicts /\ tree \in Tree
  BY <1>1 DEF SyncInv, SyncTypeOK, Careful, Finished
<1>3. ~tree'.conflicts
  BY <1>1, <1>2 DEF HalfMerged, Tree
<1> QED BY <1>1, <1>3, SyncKeepsRoute, FailKeeps

(* The merge is noted.                                                     *)
LEMMA NoteKeeps ==
  ASSUME SyncInv, InOrder, NEW p \in Owner, Note(p) PROVE Routed' /\ Counts(p)'
<1>1. /\ pc[p] = "noting" /\ pc'[p] = IF tree.conflicts THEN "archiving" ELSE "settled"
      /\ UNCHANGED <<phase, current, runs, mover, tree, report, wanted>>
  BY DEF SyncInv, SyncTypeOK, Note, At, Goto, storeVars
<1>2. Caught' /\ (pc'[p] = "settled" => ~Conflicted')
  BY <1>1 DEF InOrder, Counts, Caught, Conflicted
<1>3. Counts(p)'
  BY <1>1, <1>2 DEF Counts, RescuePC
<1> QED BY <1>1, <1>3, StillRouted DEF InOrder

(* While the report is being written, the issue is under review.           *)
LEMMA ReportKeepsRoute ==
  ASSUME SyncInv, InOrder, NEW p \in Owner, pc[p] \in SyncPC \cup RescuePC,
         UNCHANGED <<phase, current, runs, mover, tree, wanted>>
  PROVE  phase = "reviewing" /\ Routed'
<1>1. phase = "reviewing"
  BY InReview DEF SyncInv, Fits
<1>2. phase \notin Resolving
  BY <1>1 DEF Resolving, Resolve
<1> QED BY <1>1, <1>2 DEF InOrder, Routed, Conflicted, Caught

(* The old report goes ...                                                 *)
LEMMA ArchiveReportKeeps ==
  ASSUME SyncInv, InOrder, NEW p \in Owner, ArchiveReport(p) PROVE Routed' /\ Counts(p)'
<1>1. /\ \/ pc[p] = "archiving" /\ pc'[p] = "writing"
         \/ pc[p] = "rearchiving" /\ pc'[p] = "rewriting"
      /\ UNCHANGED <<phase, current, runs, mover, tree, wanted>>
  BY DEF SyncInv, SyncTypeOK, ArchiveReport, At, Goto, storeVars
<1>2. pc[p] \in SyncPC \cup RescuePC /\ tree'.conflicts
  BY <1>1 DEF SyncPC, RescuePC, InOrder, Counts
<1>3. Counts(p)'
  BY <1>1, <1>2 DEF Counts, RescuePC
<1> QED BY <1>1, <1>2, <1>3, ReportKeepsRoute

(* ... and the new one is written by the run that left the conflicts, or   *)
(* in its name.                                                            *)
LEMMA WriteReportKeeps ==
  ASSUME SyncInv, InOrder, NEW p \in Owner, WriteReport(p) PROVE Routed' /\ Counts(p)'
<1>1. /\ \/ pc[p] = "writing" /\ pc'[p] = "settled" /\ outcome'[p] = Resolve
         \/ pc[p] = "rewriting" /\ pc'[p] = "handing_over"
      /\ report' = [run |-> myRun[p], head |-> head[p]]
      /\ UNCHANGED <<phase, current, runs, mover, tree, wanted, myRun>>
  BY DEF SyncInv, SyncTypeOK, WriteReport, At, Goto, Decide, storeVars, Resolve
<1>2. pc[p] \in SyncPC \cup RescuePC /\ tree.conflicts
  BY <1>1 DEF SyncPC, RescuePC, InOrder, Counts
<1>3. phase = "reviewing" /\ Routed'
  BY <1>1, <1>2, ReportKeepsRoute
<1>4. current = myRun[p]
  BY <1>2, Places DEF SyncInv, Fits, Holds
<1>5. report'.run = myRun[p] /\ tree'.by = myRun[p] /\ Caught'
  BY <1>1, <1>2, <1>3, <1>4 DEF InOrder, Routed, Conflicted, Caught
<1>6. report'.run >= tree'.by
  BY <1>5 DEF SyncInv, SyncTypeOK, RunId, NoRun
<1>7. Counts(p)'
  BY <1>1, <1>2, <1>5, <1>6 DEF Counts, RescuePC
<1> QED BY <1>3, <1>7
-----------------------------------------------------------------------------
(* A run, from its commit to its end.                                      *)

(* Staging takes the conflicts out of the index.                           *)
LEMMA StageKeeps ==
  ASSUME SyncInv, InOrder, NEW p \in Owner, Stage(p) PROVE Routed' /\ Counts(p)'
<1>1. /\ pc[p] = "staging" /\ pc'[p] = "committing"
      /\ tree' = [tree EXCEPT !.conflicts = FALSE]
      /\ UNCHANGED <<phase, current, runs, mover, report, wanted>>
  BY DEF SyncInv, SyncTypeOK, Stage, At, Goto, storeVars
<1>2. phase # "reviewing"
  BY <1>1 DEF InOrder, Counts
<1>3. /\ ~tree'.conflicts /\ tree'.base = tree.base /\ tree'.merging = tree.merging
  BY <1>1 DEF SyncInv, SyncTypeOK, Tree
<1>4. Caught' = Caught
  BY <1>1, <1>3 DEF Caught
<1>5. Routed'
  BY <1>1, <1>2, <1>3, <1>4 DEF InOrder, Routed, Conflicted
<1>6. Counts(p)'
  BY <1>1, <1>2 DEF Counts, RescuePC
<1> QED BY <1>5, <1>6

(* The commit brings in what the merge was to bring in.                    *)
LEMMA CommitKeeps ==
  ASSUME SyncInv, InOrder, NEW p \in Owner, Commit(p) PROVE Routed' /\ Counts(p)'
<1>1. /\ pc[p] = "committing" /\ pc'[p] = "settled"
      /\ tree' = [tree EXCEPT !.base = IF tree.merging = NoHead THEN @ ELSE tree.merging,
                             !.merging = NoHead, !.dirty = FALSE, !.by = NoRun]
      /\ UNCHANGED <<phase, current, runs, mover, report, wanted>>
  BY DEF SyncInv, SyncTypeOK, Commit, At, Goto, storeVars
<1>2. phase # "reviewing" /\ ~tree.conflicts
  BY <1>1 DEF InOrder, Counts, SyncInv, Careful
<1>3. /\ ~tree'.conflicts /\ tree'.merging = NoHead
      /\ tree'.base = IF tree.merging = NoHead THEN tree.base ELSE tree.merging
  BY <1>1, <1>2 DEF SyncInv, SyncTypeOK, Tree
<1>4. Caught' = Caught
  BY <1>1, <1>3 DEF Caught
<1>5. Routed'
  BY <1>1, <1>2, <1>3, <1>4 DEF InOrder, Routed, Conflicted
<1>6. Counts(p)'
  BY <1>1, <1>2 DEF Counts, RescuePC, Conflicted
<1> QED BY <1>5, <1>6

(* What a review has decided about its conflicts is recorded.              *)
LEMMA CompleteKeeps ==
  ASSUME SyncInv, InOrder, NEW p \in Owner, Complete(p) PROVE Routed' /\ Counts(p)'
<1>1. /\ pc[p] = "settled" /\ pc'[p] = "completed"
      /\ runs' = [runs EXCEPT ![myRun[p]].status = "completed", ![myRun[p]].next = outcome[p]]
      /\ UNCHANGED <<phase, current, mover, outcome, tree, report, wanted>>
  BY DEF SyncInv, SyncTypeOK, Complete, At, Goto, CompleteRun, EndRun, local, files
<1>2. mover = myRun[p] /\ myRun[p] \in RunId
  BY <1>1, Places DEF SyncInv, SyncTypeOK, Fits
<1>3. runs'[mover].next = outcome[p]
  BY <1>1, <1>2 DEF SyncInv, SyncTypeOK, StoreTypeOK, Row
<1>4. Conflicted' = Conflicted /\ Caught' = Caught
  BY <1>1 DEF Conflicted, Caught
<1>5. /\ phase = "reviewing" => (outcome[p] \in Reworked => Caught)
      /\ Conflicted => outcome[p] \in {"blocked", Resolve}
      /\ Conflicted /\ outcome[p] = Resolve => report.run >= tree.by
  BY <1>1 DEF InOrder, Counts
<1>6. Routed'
  BY <1>1, <1>3, <1>4, <1>5 DEF InOrder, Routed
<1>7. Counts(p)'
  BY <1>1, <1>4, <1>5 DEF Counts, RescuePC
<1> QED BY <1>6, <1>7

(* A review with conflicts ends at the resolver, who has their report, or  *)
(* in a block; every other move finds what it needs.                       *)
LEMMA MoveKeeps ==
  ASSUME SyncInv, InOrder, NEW p \in Owner, Move(p) PROVE Routed' /\ Counts(p)'
<1>1. /\ pc[p] = "completed" /\ pc'[p] = "releasing"
      /\ phase' = outcome[p] /\ Edge(phase, phase')
      /\ UNCHANGED <<current, runs, outcome, tree, report, wanted>>
  BY DEF SyncInv, SyncTypeOK, Move, At, Goto, RunTransition, TransitionAllowed, local, files
<1>2. /\ agent[p] \in Loop /\ phase = RunningPhase[agent[p]] /\ mover = myRun[p]
      /\ runs[mover].next = outcome[p]
  BY <1>1, Places DEF SyncInv, Fits, Working
<1>3. phase \in RunningPhases \ {"merging"}
  BY <1>2, LoopFacts, PhaseTables DEF Loop
<1>4. /\ phase' \notin RunningPhases
      /\ phase' = "ready_for_review" => phase = "validating"
      /\ phase' \in Resolving => phase' = Resolve /\ phase = "reviewing"
      /\ phase' \in Reworked => phase \in Reworked \cup {"reviewing"}
  BY <1>1, <1>3, LoopEdges
<1>5. phase' # "reviewing"
  BY <1>4, PhaseNames
<1>6. phase' = "ready_for_review" => ~tree'.conflicts
  BY <1>1, <1>4 DEF SyncInv, Passed, Passing, Finished
<1>7. phase' \in Resolving /\ tree.conflicts => report.run >= tree.by
  BY <1>1, <1>4 DEF InOrder, Counts, Conflicted
<1>8. phase' \in Reworked => Caught'
  BY <1>1, <1>2, <1>4 DEF InOrder, Routed, Caught
<1>9. Routed'
  BY <1>1, <1>5, <1>6, <1>7, <1>8 DEF Routed, Conflicted
<1>10. Counts(p)'
  BY <1>1, <1>5 DEF Counts, RescuePC, Conflicted
<1> QED BY <1>9, <1>10

(* The lock is given back when the review has ended.                       *)
LEMMA ReleaseKeeps ==
  ASSUME SyncInv, InOrder, NEW p \in Owner, Release(p) PROVE Routed' /\ Counts(p)'
<1>1. /\ pc[p] = "releasing" /\ pc'[p] = "idle"
      /\ UNCHANGED <<phase, runs, mover, tree, report, wanted>>
  BY DEF SyncInv, SyncTypeOK, Release, At, Goto, ReleaseLock, files
<1>2. phase # "reviewing"
  BY <1>1 DEF InOrder, Counts
<1>3. Routed'
  BY <1>1, <1>2 DEF InOrder, Routed, Conflicted, Caught
<1>4. Counts(p)'
  BY <1>1 DEF Counts, RescuePC
<1> QED BY <1>3, <1>4

(* Nothing to run.                                                         *)
LEMMA GiveUpKeeps ==
  ASSUME SyncInv, InOrder, NEW p \in Owner, GiveUp(p) PROVE Routed' /\ Counts(p)'
<1>1. /\ pc'[p] = "idle" /\ UNCHANGED <<phase, current, runs, mover, tree, report, wanted>>
  BY DEF SyncInv, SyncTypeOK, GiveUp, Goto, storeVars, files
<1>2. Counts(p)'
  BY <1>1 DEF Counts, RescuePC
<1> QED BY <1>1, <1>2, StillRouted DEF InOrder

(* Whoever dies counts on nothing any more, and a merge that dies with it  *)
(* leaves no conflicts.                                                    *)
LEMMA CrashKeeps ==
  ASSUME SyncInv, InOrder, NEW p \in Owner, Crash(p) PROVE Routed' /\ Counts(p)'
<1>1. pc'[p] = "dead" /\ UNCHANGED <<storeVars, report, wanted>>
  BY DEF SyncInv, SyncTypeOK, Crash, Goto
<1>2. Counts(p)'
  BY <1>1 DEF Counts, RescuePC
<1>3. CASE UNCHANGED tree
  BY <1>1, <1>2, <1>3, StillRouted DEF InOrder, storeVars
<1>4. CASE At(p, "merging") /\ tree' = HalfMerged(p)
  <2>1. pc[p] \in SyncPC /\ ~tree.conflicts /\ tree \in Tree
    BY <1>4 DEF At, SyncPC, SyncInv, SyncTypeOK, Careful, Finished
  <2>2. ~tree'.conflicts
    BY <1>4, <2>1 DEF HalfMerged, Tree
  <2> QED BY <1>1, <1>2, <2>1, <2>2, SyncKeepsRoute
<1> QED BY <1>3, <1>4 DEF Crash
-----------------------------------------------------------------------------
(* OrderInv is an invariant.                                               *)

(* At first there is nobody, and nothing to be careful about.              *)
LEMMA OrderInit == Init => OrderInv
<1> SUFFICES ASSUME Init PROVE OrderInv
  OBVIOUS
<1>1. \A p \in Owner : pc[p] = "absent"
  BY DEF Init
<1>2. Alone /\ \A p \in Owner : Counts(p)
  BY <1>1, Nothing DEF Alone, Alive
<1>3. phase \notin RunningPhases
  BY StartPhasesAssumption, PhasesDiffer DEF Init, StoreInit
<1>4. Routed
  BY <1>3, PhaseNames DEF Init, Routed, Conflicted, Caught
<1> QED BY <1>2, <1>4 DEF Init, StoreInit, OrderInv, OwnerPlaced, InOrder

(* The lock has its owner at work or dead, whatever a process does.        *)
LEMMA OwnerPlacedNext ==
  ASSUME SyncInv, OwnerPlaced, NEW p \in Owner, Start(p) \/ NoteRaises(p) \/ Crash(p) \/ Goes(p)
  PROVE  OwnerPlaced'
<1> DEFINE where == {"absent", "idle", "found", "sweep", "claim"}
<1>1. owner \in Owner \cup {NoOwner} /\ pc \in [Owner -> PC]
  BY DEF SyncInv, SyncTypeOK, StoreTypeOK
<1>2. where \cap (Holding \cup {"dead"}) = {}
  BY Places
<1> HIDE DEF where
<1>3. CASE Start(p) \/ Look(p) \/ ClaimRefused(p) \/ GiveUp(p)
  <2>1. pc[p] \in where /\ owner' = owner /\ \A q \in Owner : q # p => pc'[q] = pc[q]
    BY <1>1, <1>3 DEF Start, Look, ClaimRefused, GiveUp, At, Goto, storeVars, where
  <2> QED BY <1>1, <1>2, <2>1, OwnerStep
<1>4. CASE NoteRaises(p) \/ NothingToRescue(p) \/ HandOver(p) \/ Release(p)
  <2>1. owner' = NoOwner
    BY <1>4 DEF NoteRaises, NothingToRescue, HandOver, Release, ReleaseLock, RecoverClaimed,
                ApplyRecovery, Unlock
  <2> QED BY <2>1 DEF OwnerPlaced
<1>5. CASE Sweep(p)
  <2>1. pc[p] \in where /\ \A q \in Owner : q # p => pc'[q] = pc[q]
    BY <1>1, <1>5 DEF Sweep, At, Goto, where
  <2>2. owner' \in {NoOwner, owner}
    BY <1>5 DEF Sweep, RecoverRow, RecoverRunning, RecoverReady, RecoverWaiting, RecoverMonitored,
                ApplyRecovery, Unlock, storeVars
  <2> QED BY <1>1, <1>2, <2>1, <2>2, OwnerStep
<1>6. CASE Crash(p)
  <2>1. pc'[p] = "dead" /\ owner' = owner /\ \A q \in Owner : q # p => pc'[q] = pc[q]
    BY <1>1, <1>6 DEF Crash, Goto, storeVars
  <2> QED BY <1>1, <2>1, OwnerStep
<1>7. CASE Claim(p) \/ Acquire(p)
  <2>1. /\ pc'[p] \in {"claimed", "acquired"} /\ owner' = p
        /\ \A q \in Owner : q # p => pc'[q] = pc[q]
    BY <1>1, <1>7 DEF Claim, Acquire, Goto, ClaimLock, AcquireLock
  <2>2. pc'[p] \in Holding
    BY <2>1 DEF Holding, Working, RescuePC
  <2> QED BY <1>1, <2>1, <2>2, OwnerStep
<1>8. CASE Rescue(p) \/ Sync(p) \/ EnterPhase(p) \/ StartRun(p) \/ AgentReturns(p)
           \/ Stage(p) \/ Commit(p) \/ SnapshotFails(p) \/ Complete(p) \/ Move(p)
  <2>1. owner' = owner
    BY <1>8 DEF Rescue, Sync, SyncRefused, UpToDate, ReadSource, MergeSource, MergeFails, Note,
                ArchiveReport, WriteReport, ReportFails, EnterPhase, StartRun, AgentReturns, Stage,
                Commit, SnapshotFails, Complete, Move, storeVars, RunTransition, CreateRun, CompleteRun
  <2>2. /\ pc'[p] \in RescuePC \cup SyncPC \cup
                       {"started", "working", "staging", "committing", "settled", "completed", "releasing"}
        /\ \A q \in Owner : q # p => pc'[q] = pc[q]
    BY <1>1, <1>8 DEF Rescue, Sync, SyncRefused, UpToDate, ReadSource, MergeSource, MergeFails, Note,
                ArchiveReport, WriteReport, ReportFails, EnterPhase, StartRun, AgentReturns, Stage,
                Commit, SnapshotFails, Complete, Move, At, Goto, Fail, RescuePC, SyncPC
  <2>3. pc'[p] \in Holding
    BY <2>2 DEF Holding, Working, AtWork
  <2> QED BY <1>1, <2>1, <2>2, <2>3, OwnerStep
<1> QED BY <1>3, <1>4, <1>5, <1>6, <1>7, <1>8 DEF Goes, Recovery, Run

(* A step of the only living process keeps the order.                      *)
LEMMA GoesKeeps ==
  ASSUME SyncInv, OwnerPlaced, wanted <= source, InOrder, NEW p \in Owner, Crash(p) \/ Goes(p)
  PROVE  InOrder'
<1>1. Alive(p) /\ \A q \in Owner : q # p => pc'[q] = pc[q]
  <2>1. CASE Crash(p)
    BY <2>1 DEF SyncInv, SyncTypeOK, Crash, Goto
  <2>2. CASE Recovery(p)
    BY <2>2 DEF SyncInv, SyncTypeOK, Recovery, Look, Claim, ClaimRefused, Rescue, NothingToRescue,
                HandOver, Sweep, At, Goto, Alive
  <2>3. CASE Run(p)
    BY <2>3 DEF SyncInv, SyncTypeOK, Run, GiveUp, Acquire, EnterPhase, StartRun, AgentReturns, Stage,
                Commit, SnapshotFails, Complete, Move, Release, At, Goto, Fail, Alive
  <2>4. CASE Sync(p)
    BY <2>4 DEF SyncInv, SyncTypeOK, Sync, SyncRefused, UpToDate, ReadSource, MergeSource, MergeFails,
                Note, ArchiveReport, WriteReport, ReportFails, At, Goto, Fail, Alive
  <2> QED BY <2>1, <2>2, <2>3, <2>4 DEF Goes
<1>2. Routed' /\ Counts(p)'
  <2>1. CASE Crash(p)
    BY <2>1, CrashKeeps
  <2>2. CASE Recovery(p)
    BY <2>2, LookKeeps, ClaimKeeps, NoClaimRefused, RescueKeeps, NoNothingToRescue, HandOverKeeps,
       SweepKeeps DEF Recovery
  <2>3. CASE Run(p)
    BY <2>3, GiveUpKeeps, AcquireKeeps, EnterPhaseKeeps, StartRunKeeps, AgentReturnsKeeps, StageKeeps,
       CommitKeeps, RefusedKeeps, CompleteKeeps, MoveKeeps, ReleaseKeeps DEF Run
  <2>4. CASE Sync(p)
    BY <2>4, RefusedKeeps, UpToDateKeeps, ReadSourceKeeps, MergeSourceKeeps, MergeFailsKeeps,
       NoteKeeps, ArchiveReportKeeps, WriteReportKeeps DEF Sync
  <2> QED BY <2>1, <2>2, <2>3, <2>4 DEF Goes
<1> QED BY <1>1, <1>2, InOrderStep

(* Nobody asks for more than the source has.                               *)
LEMMA WantedNext ==
  ASSUME SyncInv, wanted <= source, Next PROVE wanted' <= source'
<1>1. source \in Int /\ wanted \in Int
  BY DEF SyncInv, SyncTypeOK, Heads
<1>2. CASE Advance
  BY <1>1, <1>2 DEF Advance
<1>3. ASSUME NEW p \in Owner, Start(p) \/ NoteRaises(p) \/ Crash(p) \/ Goes(p)
      PROVE  source' = source /\ wanted' \in {wanted, source}
  <2>1. CASE Start(p) \/ NoteRaises(p) \/ Crash(p)
    BY <2>1 DEF Start, NoteRaises, Crash, files
  <2>2. CASE Recovery(p)
    BY <2>2 DEF Recovery, Look, Claim, ClaimRefused, Rescue, NothingToRescue, HandOver, Sweep, files
  <2>3. CASE Run(p)
    BY <2>3 DEF Run, GiveUp, Acquire, EnterPhase, StartRun, AgentReturns, Stage, Commit,
                SnapshotFails, Complete, Move, Release, files
  <2>4. CASE Sync(p)
    BY <2>4 DEF Sync, SyncRefused, UpToDate, ReadSource, MergeSource, MergeFails, Note,
                ArchiveReport, WriteReport, ReportFails, files
  <2> QED BY <1>3, <2>1, <2>2, <2>3, <2>4 DEF Goes
<1> QED BY <1>1, <1>2, <1>3 DEF Next

(* Every step keeps it.                                                    *)
LEMMA OrderNext == SyncInv /\ OrderInv /\ [Next]_vars => OrderInv'
<1> SUFFICES ASSUME SyncInv, OrderInv, [Next]_vars PROVE OrderInv'
  OBVIOUS
<1>1. CASE UNCHANGED vars
  <2>1. UNCHANGED <<phase, owner, lease, current, runs, mover, pc, myRun, agent, outcome,
                    source, tree, report, wanted, orderly>>
    BY <1>1 DEF vars, local, files, storeVars
  <2>2. InOrder => InOrder'
    BY <2>1 DEF InOrder, Alone, Alive, Routed, Counts, Conflicted, Caught
  <2> QED BY <2>1, <2>2 DEF OrderInv, OwnerPlaced
<1>2. CASE Advance
  <2>1. UNCHANGED <<phase, owner, lease, current, runs, mover, pc, myRun, agent, outcome,
                    tree, report, wanted, orderly>>
    BY <1>2 DEF Advance, local, storeVars
  <2>2. InOrder => InOrder'
    BY <2>1 DEF InOrder, Alone, Alive, Routed, Counts, Conflicted, Caught
  <2>3. wanted' <= source'
    BY <1>2, WantedNext DEF OrderInv, Next
  <2> QED BY <2>1, <2>2, <2>3 DEF OrderInv, OwnerPlaced
<1>3. ASSUME NEW p \in Owner, Start(p) \/ NoteRaises(p) \/ Crash(p) \/ Goes(p) PROVE OrderInv'
  <2>1. OwnerPlaced'
    BY <1>3, OwnerPlacedNext DEF OrderInv
  <2>2. wanted' <= source'
    BY <1>3, WantedNext DEF OrderInv, Next
  <2>3. ASSUME orderly' PROVE InOrder'
    <3>1. CASE Start(p)
      <4>1. orderly /\ Deserted /\ pc'[p] = "idle" /\ \A q \in Owner : q # p => pc'[q] = pc[q]
        BY <2>3, <3>1 DEF SyncInv, SyncTypeOK, Start, Goto
      <4>2. UNCHANGED <<phase, current, runs, mover, tree, report, wanted>>
        BY <3>1 DEF Start, storeVars, files
      <4>3. \A q \in Owner : pc'[q] \in {"absent", "idle", "dead"}
        BY <4>1 DEF Deserted, Alive
      <4>4. Alone' /\ \A q \in Owner : Counts(q)'
        <5>1. \A q \in Owner : q # p => ~Alive(q)'
          BY <4>1 DEF Deserted, Alive
        <5>2. \A q \in Owner : pc'[q] \in {"absent", "idle", "dead"} => Counts(q)'
          BY DEF Counts, RescuePC
        <5> QED BY <4>3, <5>1, <5>2 DEF Alone
      <4>5. Routed'
        BY <4>1, <4>2, StillRouted DEF OrderInv, InOrder
      <4> QED BY <4>4, <4>5 DEF InOrder
    <3>2. CASE Crash(p) \/ Goes(p)
      <4>1. orderly
        BY <2>3, <3>2 DEF Crash, Goes
      <4> QED BY <3>2, <4>1, GoesKeeps DEF OrderInv
    <3>3. ~NoteRaises(p)
      BY <2>3 DEF NoteRaises
    <3> QED BY <1>3, <3>1, <3>2, <3>3
  <2> QED BY <2>1, <2>2, <2>3 DEF OrderInv
<1> QED BY <1>1, <1>2, <1>3 DEF Next

(* Rework starts from the source (ReworkStartsFromSource): for every number*)
(* of processes that follow one another, of deaths, runs and commits to the*)
(* source, the issue is not implemented again before its worktree includes *)
(* all that the source had when a reviewer last sent the work back         *)
(* (sync_source_into_workspace, its recovery, and commit_phase_snapshot).  *)
THEOREM ReworkIncludesSource == Spec => []ReworkStartsFromSource
<1>1. SyncInv /\ OrderInv => ReworkStartsFromSource
  <2> SUFFICES ASSUME SyncInv, OrderInv, orderly, phase = "ready_for_implementation"
               PROVE  tree.base >= wanted
    BY DEF ReworkStartsFromSource
  <2>1. phase \in Reworked /\ phase \in Passing
    BY DEF Reworked, Passing
  <2>2. Caught /\ tree.merging = NoHead
    BY <2>1 DEF OrderInv, InOrder, Routed, SyncInv, Passed, Finished
  <2> QED BY <2>2 DEF Caught
<1> QED BY SyncInit, SyncNext, OrderInit, OrderNext, <1>1, PTL DEF Spec

(* The resolver's conflicts come with their own report                     *)
(* (ReportIsOfTheseConflicts), if the processes follow one another: written*)
(* by the run whose sync left them or by its recovery, never by an earlier *)
(* one (write_phase_artifact in the sync and in recover_interrupted_...).  *)
THEOREM ReportsAreCurrent == Spec => []ReportIsOfTheseConflicts
<1>1. OrderInv => ReportIsOfTheseConflicts
  BY DEF OrderInv, InOrder, Routed, Resolving, Resolve, ReportIsOfTheseConflicts
<1> QED BY SyncInit, SyncNext, OrderInit, OrderNext, <1>1, PTL DEF Spec

(* Every conflict that a sync leaves in a review reaches the resolver or   *)
(* stops the issue (ConflictsReachResolver), whoever dies where, if the    *)
(* processes follow one another: neither the run's own transition nor      *)
(* either recovery takes the review anywhere else.                         *)
THEOREM ConflictsAreRouted == Spec => ConflictsReachResolver
<1>1. SyncInv /\ OrderInv /\ [Next]_vars => [orderly => EndsAtResolver]_vars
  <2> SUFFICES ASSUME SyncInv, OrderInv, Next, orderly, Conflicted, phase' # "reviewing"
               PROVE  phase' \in {Resolve, "blocked"}
    BY DEF EndsAtResolver, Conflicted, Resolve
  <2>1. InOrder /\ OwnerPlaced
    BY DEF OrderInv
  <2>2. ASSUME NEW p \in Owner, Move(p) PROVE phase' \in {Resolve, "blocked"}
    <3>1. /\ pc[p] = "completed" /\ phase' = outcome[p] /\ Edge(phase, phase')
      BY <2>2 DEF Move, At, RunTransition, TransitionAllowed
    <3>2. runs[mover].next = outcome[p]
      BY <3>1, Places DEF SyncInv, Fits
    <3>3. runs[mover].next \in {"none", "blocked", Resolve}
      BY <2>1 DEF InOrder, Routed
    <3>4. phase' # "none"
      BY <3>1, EdgeTarget, PhaseNames DEF Phase, WaitingPhases
    <3> QED BY <3>1, <3>2, <3>3, <3>4
  <2>3. ASSUME NEW p \in Owner PROVE ~Sweep(p) /\ ~EnterPhase(p)
    <3>1. ~Sweep(p)
      BY <2>1 DEF Sweep, At, InOrder, Counts
    <3>2. ASSUME EnterPhase(p) PROVE FALSE
      <4>1. pc[p] = "acquired"
        BY <3>2 DEF EnterPhase, At
      <4>2. agent[p] \in Loop /\ phase = ReadyPhase[agent[p]]
        BY <4>1, Places DEF SyncInv, Fits, Working
      <4> QED BY <4>2 DEF Conflicted, Loop, ReadyPhase, Agent
    <3> QED BY <3>1, <3>2
  <2>4. ASSUME NEW p \in Owner, HandOver(p) PROVE phase' = Resolve
    BY <2>4 DEF HandOver, RecoverClaimed, ApplyRecovery, Resolve
  <2>5. ASSUME NEW p \in Owner,
               \/ Start(p) \/ NoteRaises(p) \/ Crash(p) \/ Sync(p)
               \/ Recovery(p) /\ ~Sweep(p) /\ ~HandOver(p)
               \/ Run(p) /\ ~EnterPhase(p) /\ ~Move(p)
        PROVE  phase' = phase
    <3>1. CASE Start(p) \/ NoteRaises(p) \/ Crash(p)
      BY <3>1 DEF Start, NoteRaises, Crash, ReleaseLock, storeVars
    <3>2. CASE Recovery(p) /\ ~Sweep(p) /\ ~HandOver(p)
      BY <3>2 DEF Recovery, Look, Claim, ClaimLock, ClaimRefused, Rescue, NothingToRescue,
                  ReleaseLock, storeVars
    <3>3. CASE Run(p) /\ ~EnterPhase(p) /\ ~Move(p)
      BY <3>3 DEF Run, GiveUp, Acquire, AcquireLock, StartRun, CreateRun, AgentReturns, Stage, Commit,
                  SnapshotFails, Complete, CompleteRun, Release, ReleaseLock, storeVars
    <3>4. CASE Sync(p)
      BY <3>4 DEF Sync, SyncRefused, UpToDate, ReadSource, MergeSource, MergeFails, Note,
                  ArchiveReport, WriteReport, ReportFails, storeVars
    <3> QED BY <2>5, <3>1, <3>2, <3>3, <3>4
  <2>6. CASE Advance
    BY <2>6 DEF Advance, storeVars, Conflicted
  <2>7. ASSUME NEW p \in Owner, Start(p) \/ NoteRaises(p) \/ Crash(p) \/ Goes(p)
        PROVE  phase' \in {Resolve, "blocked"}
    BY <2>2, <2>3, <2>4, <2>5, <2>7 DEF Goes, Conflicted
  <2> QED BY <2>6, <2>7 DEF Next
<1> QED BY SyncInit, SyncNext, OrderInit, OrderNext, <1>1, PTL DEF Spec, ConflictsReachResolver
=============================================================================

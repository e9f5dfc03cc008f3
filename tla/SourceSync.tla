----------------------------- MODULE SourceSync -----------------------------
(***************************************************************************)
(* The synchronisation of the source branch into an issue's worktree when  *)
(* a review sends the work back (sync_source_into_workspace in             *)
(* src/agent_team/workspaces.py, called by process_issue), one step per    *)
(* Git effect and per file, and its recovery after a crash, with the       *)
(* processes of Orchestrator on top of IssueStore.  Here the recovery      *)
(* sweep is not atomic: it looks at the worktree, then claims, then sweeps *)
(* all other issues.                                                       *)
(*                                                                         *)
(* All processes are on one host, where the lock of a living owner is      *)
(* never broken, so its expiry does not matter, nor does the repository    *)
(* lock; stops and managers are in Orchestrator.                           *)
(***************************************************************************)
EXTENDS IssueStore

CONSTANTS
  Mortal,     \* the processes that may crash
  Beside,     \* the processes that start beside others; the rest start when the others died
  Raisers,    \* the processes that may be unable to write the metadata
  MaxSource   \* bound on the commits people add to the source branch

ASSUME SyncAssumption ==
  Mortal \cup Beside \cup Raisers \subseteq Owner /\ MaxSource \in Nat

VARIABLES
  pc,       \* where a process is
  myRun,    \* the run id it drew or claimed
  agent,    \* the agent phase it executes
  outcome,  \* the next phase it has decided on
  head,     \* new_source_head, as it was read
  source,   \* the source branch: the number of its commits
  tree,     \* the worktree of the issue
  noted,    \* last_source_sync_head in the workspace metadata
  report,   \* the merge artifact, merge.md
  wanted,   \* auxiliary: the source when a reviewer last sent the work back
  orderly   \* auxiliary: no two processes have lived at once, and none has raised

local    == <<myRun, agent, outcome, head>>
files    == <<source, tree, noted, report, wanted>>
vars     == <<storeVars, pc, local, files, orderly>>

Heads    == 0..MaxSource
NoHead   == -1

(* The worktree: the source commits its HEAD includes, the one that an     *)
(* unfinished merge brings in (MERGE_HEAD), whether the index has unmerged *)
(* files and whether there are other changes; and who began the merge.     *)
Tree     == [base : Heads, merging : Heads \cup {NoHead}, conflicts : BOOLEAN,
             dirty : BOOLEAN, by : RunId \cup {NoRun}]
Clean(t) == t.merging = NoHead /\ ~t.conflicts /\ ~t.dirty

NoReport == [run |-> NoRun, head |-> NoHead]

SyncPC   == {"checking", "merging", "noting", "archiving", "writing"}
RescuePC == {"claimed", "rearchiving", "rewriting", "handing_over"}
PC       == {"absent", "idle", "found", "sweep", "claim", "acquired", "started", "working",
             "staging", "committing", "settled", "completed", "releasing", "dead"}
            \cup SyncPC \cup RescuePC

SyncTypeOK ==
  /\ StoreTypeOK
  /\ pc \in [Owner -> PC] /\ myRun \in [Owner -> RunId \cup {NoRun}]
  /\ agent \in [Owner -> Agent] /\ outcome \in [Owner -> Phase]
  /\ head \in [Owner -> Heads]
  /\ source \in Heads /\ tree \in Tree
  /\ noted \in Heads \cup {NoHead}
  /\ report \in [run : RunId \cup {NoRun}, head : Heads \cup {NoHead}]
  /\ wanted \in Heads

TypeOK == SyncTypeOK /\ orderly \in BOOLEAN

Init ==
  /\ StoreInit
  /\ pc = [p \in Owner |-> "absent"]
  /\ myRun = [p \in Owner |-> NoRun]
  /\ agent = [p \in Owner |-> "review"]
  /\ outcome = [p \in Owner |-> "blocked"]
  /\ head = [p \in Owner |-> 0]
  /\ source = 0
  /\ tree = [base |-> 0, merging |-> NoHead, conflicts |-> FALSE, dirty |-> FALSE, by |-> NoRun]
  /\ noted = NoHead /\ report = NoReport
  /\ wanted = 0 /\ orderly = TRUE

At(p, where)   == pc[p] = where
Goto(p, where) == pc' = [pc EXCEPT ![p] = where]
Decide(p, next) == outcome' = [outcome EXCEPT ![p] = next]

Alive(p)       == pc[p] \notin {"absent", "dead"}
Deserted       == \A q \in Owner : ~Alive(q)

(* Mutant of Recoverable: the lock of a dead process is not broken.        *)
RecoverableUnlocked == lease = "none"

Recoverable == lease = "none" \/ (owner # NoOwner /\ At(owner, "dead"))

-----------------------------------------------------------------------------
(* Processes and people.                                                   *)

Start(p) ==
  /\ At(p, "absent")
  /\ p \in Beside \/ Deserted
  /\ orderly' = (orderly /\ Deserted)
  /\ Goto(p, "idle") /\ UNCHANGED <<storeVars, local, files>>

(* A crash in the middle of git merge leaves a merge that is neither in    *)
(* conflict nor committed.                                                 *)
HalfMerged(p) == [tree EXCEPT !.merging = source, !.dirty = TRUE, !.by = myRun[p]]

Crash(p) ==
  /\ p \in Mortal /\ Alive(p)
  /\ Goto(p, "dead")
  /\ \/ UNCHANGED tree
     \/ At(p, "merging") /\ tree' = HalfMerged(p)
  /\ UNCHANGED <<storeVars, local, source, noted, report, wanted, orderly>>

(* People commit to the source branch whenever they like.                  *)
Advance ==
  /\ source < MaxSource /\ source' = source + 1
  /\ UNCHANGED <<storeVars, pc, local, tree, noted, report, wanted, orderly>>

-----------------------------------------------------------------------------
(* recover_interrupted_runs.                                               *)

(* Mutant of Look: nobody asks for conflicts.                              *)
LookAway(p) ==
  /\ At(p, "idle")
  /\ Goto(p, "sweep")
  /\ UNCHANGED <<storeVars, local, files>>

(* has_interrupted_source_sync_conflicts, asked of an issue in review.     *)
Look(p) ==
  /\ At(p, "idle")
  /\ Goto(p, IF phase = "reviewing" /\ tree.conflicts THEN "found" ELSE "sweep")
  /\ UNCHANGED <<storeVars, local, files>>

(* claim_interrupted_review_source_sync_recovery.                          *)
Claim(p) ==
  /\ At(p, "found") /\ phase = "reviewing" /\ Recoverable
  /\ ClaimLock(p)
  /\ myRun' = [myRun EXCEPT ![p] = current]
  /\ Goto(p, "claimed") /\ UNCHANGED <<agent, outcome, head, files>>

ClaimRefused(p) ==
  /\ At(p, "found") /\ ~(phase = "reviewing" /\ Recoverable)
  /\ Goto(p, "sweep") /\ UNCHANGED <<storeVars, local, files>>

(* Mutants of Rescue: no branch head in place of a missing one ...         *)
RescueNoted(p) ==
  /\ At(p, "claimed") /\ tree.conflicts
  /\ head' = [head EXCEPT ![p] = noted]
  /\ noted' = head'[p]
  /\ Goto(p, IF myRun[p] = NoRun THEN "handing_over" ELSE "rearchiving")
  /\ UNCHANGED <<storeVars, myRun, agent, outcome, source, tree, report, wanted>>

(* ... or no artifact.                                                     *)
RescueUnreported(p) ==
  /\ At(p, "claimed") /\ tree.conflicts
  /\ Goto(p, "handing_over")
  /\ UNCHANGED <<storeVars, local, files>>

(* recover_interrupted_source_sync reports the head that the metadata name *)
(* or, if they name none, the branch as it is now, and notes it again.     *)
(* Without a current run nothing is reported.                              *)
Rescue(p) ==
  /\ At(p, "claimed") /\ tree.conflicts
  /\ head' = [head EXCEPT ![p] = IF noted = NoHead THEN source ELSE noted]
  /\ noted' = head'[p]
  /\ Goto(p, IF myRun[p] = NoRun THEN "handing_over" ELSE "rearchiving")
  /\ UNCHANGED <<storeVars, myRun, agent, outcome, source, tree, report, wanted>>

(* The conflicts were resolved between the look and the claim.             *)
NothingToRescue(p) ==
  /\ At(p, "claimed") /\ ~tree.conflicts
  /\ ReleaseLock /\ Goto(p, "sweep") /\ UNCHANGED <<local, files>>

(* recover_interrupted_review_source_sync.                                 *)
HandOver(p) ==
  /\ At(p, "handing_over") /\ Holds(p, myRun[p])
  /\ RecoverClaimed("review", "ready_for_merge_conflict_resolution", "interrupted")
  /\ Goto(p, "sweep") /\ UNCHANGED <<local, files>>

(* The transaction that recovers whatever else is interrupted; it does not *)
(* look at the worktree.                                                   *)
Sweep(p) ==
  /\ At(p, "sweep")
  /\ \/ Recoverable /\ RecoverRow
     \/ ~(Recoverable /\ NeedsRecovery) /\ UNCHANGED storeVars
  /\ Goto(p, "claim") /\ UNCHANGED <<local, files>>

-----------------------------------------------------------------------------
(* process_issue, up to the agent's answer.                                *)

(* The agents of the rework loop, which this module follows until it ends  *)
(* in a merge approval or in a block, and what they answer besides a       *)
(* question.                                                               *)
Loop == {"implementation", "validation", "review", "merge_conflict_resolution"}
LoopReady == {ReadyPhase[a] : a \in Loop}

Answers ==
  [a \in Loop |->
     {"blocked"} \cup
     CASE a = "implementation" -> {"ready_for_validation"}
       [] a = "validation"     -> {"ready_for_review", "ready_for_implementation"}
       [] a = "review"         -> {"awaiting_merge_approval", "ready_for_implementation"}
       [] a = "merge_conflict_resolution" -> {"ready_for_validation", "ready_for_implementation"}]

GiveUp(p) ==
  /\ At(p, "claim") /\ (phase \notin LoopReady \/ Locked \/ lastRun = MaxRuns)
  /\ Goto(p, "idle") /\ UNCHANGED <<storeVars, local, files>>

Acquire(p) ==
  /\ At(p, "claim") /\ phase \in LoopReady /\ CanAcquire(phase)
  /\ AcquireLock(p)
  /\ myRun' = [myRun EXCEPT ![p] = lastRun + 1]
  /\ agent' = [agent EXCEPT ![p] = AgentOfReady(phase)]
  /\ Goto(p, "acquired") /\ UNCHANGED <<outcome, head, files>>

EnterPhase(p) ==
  /\ At(p, "acquired") /\ current = myRun[p] /\ TransitionAllowed(RunningPhase[agent[p]])
  /\ RunTransition(myRun[p], RunningPhase[agent[p]])
  /\ Goto(p, "started") /\ UNCHANGED <<local, files>>

StartRun(p) ==
  /\ At(p, "started") /\ current = myRun[p]
  /\ CreateRun(myRun[p], agent[p])
  /\ Goto(p, "working") /\ UNCHANGED <<local, files>>

(* _should_sync_source_before_rework and _should_commit_phase_snapshot.    *)
ShouldSync(a, next)   == a = "review" /\ next = "ready_for_implementation"
ShouldCommit(a, next) ==
  a \in {"implementation", "merge_conflict_resolution"} /\ next # "blocked"

(* An agent answers; it may leave changes, or resolve conflicts so that    *)
(* nothing differs from HEAD any more.                                     *)
AgentReturns(p) ==
  /\ At(p, "working")
  /\ \E next \in Answers[agent[p]] :
       /\ Decide(p, next)
       /\ Goto(p, IF ShouldSync(agent[p], next) THEN "checking"
                  ELSE IF ShouldCommit(agent[p], next) THEN "staging" ELSE "settled")
       /\ wanted' = IF ShouldSync(agent[p], next) THEN source ELSE wanted
  /\ \E left \in BOOLEAN :
       tree' = [tree EXCEPT !.dirty = @ \/ left]
  /\ UNCHANGED <<storeVars, myRun, agent, head, source, noted, report>>

-----------------------------------------------------------------------------
(* sync_source_into_workspace.                                             *)

Fail(p) == Decide(p, "blocked") /\ Goto(p, "settled")

(* _ensure_clean_repo: a worktree with changes or with an unfinished merge *)
(* refuses the sync; so may the source repository, whose state is not      *)
(* modelled.                                                               *)
SyncRefused(p) ==
  /\ At(p, "checking")
  /\ Fail(p) /\ UNCHANGED <<storeVars, myRun, agent, head, files>>

(* The branch is an ancestor of the worktree's HEAD.                       *)
UpToDate(p) ==
  /\ At(p, "checking") /\ Clean(tree) /\ source <= tree.base
  /\ noted' = source
  /\ Goto(p, "settled")
  /\ UNCHANGED <<storeVars, local, source, tree, report, wanted>>

ReadSource(p) ==
  /\ At(p, "checking") /\ Clean(tree) /\ source > tree.base
  /\ head' = [head EXCEPT ![p] = source]
  /\ Goto(p, "merging")
  /\ UNCHANGED <<storeVars, myRun, agent, outcome, files>>

(* git merge takes the branch by its name, wherever it points by then.     *)
MergeSource(p) ==
  /\ At(p, "merging")
  /\ tree' \in {[tree EXCEPT !.base = source],
                [tree EXCEPT !.merging = source, !.conflicts = TRUE, !.by = myRun[p]]}
  /\ Goto(p, "noting")
  /\ UNCHANGED <<storeVars, local, source, noted, report, wanted>>

(* Mutant of MergeFails: the error is swallowed.                           *)
MergeFailsQuietly(p) ==
  /\ At(p, "merging")
  /\ Goto(p, "settled") /\ UNCHANGED <<storeVars, local, files>>

(* git merge fails without conflicts (a hook, say) and is aborted, unless  *)
(* that fails as well; or it commits and leaves changes.                   *)
MergeFails(p) ==
  /\ At(p, "merging")
  /\ tree' \in {tree, HalfMerged(p), [tree EXCEPT !.base = source, !.dirty = TRUE]}
  /\ Fail(p)
  /\ UNCHANGED <<storeVars, myRun, agent, head, source, noted, report, wanted>>

(* _write_source_sync_metadata, with the head that was read before.        *)
Note(p) ==
  /\ At(p, "noting")
  /\ noted' = head[p]
  /\ Goto(p, IF tree.conflicts THEN "archiving" ELSE "settled")
  /\ UNCHANGED <<storeVars, local, source, tree, report, wanted>>

(* The metadata cannot be written (OSError, which nothing here catches):   *)
(* process_issue ends, its lock is released, its issue stays in review.    *)
NoteRaises(p) ==
  /\ p \in Raisers /\ pc[p] \in {"checking", "noting"} /\ Holds(p, myRun[p])
  /\ orderly' = FALSE
  /\ ReleaseLock /\ Goto(p, "idle") /\ UNCHANGED <<local, files>>

(* archive_phase_artifact_before_run, then write_phase_artifact, for the   *)
(* sync itself and for its recovery.                                       *)
ArchiveReport(p) ==
  /\ \/ At(p, "archiving") /\ Goto(p, "writing")
     \/ At(p, "rearchiving") /\ Goto(p, "rewriting")
  /\ report' = NoReport
  /\ UNCHANGED <<storeVars, local, source, tree, noted, wanted>>

WriteReport(p) ==
  /\ \/ /\ At(p, "writing") /\ Goto(p, "settled")
        /\ Decide(p, "ready_for_merge_conflict_resolution")
     \/ At(p, "rewriting") /\ Goto(p, "handing_over") /\ UNCHANGED outcome
  /\ report' = [run |-> myRun[p], head |-> head[p]]
  /\ UNCHANGED <<storeVars, myRun, agent, head, source, tree, noted, wanted>>

ReportFails(p) ==
  /\ pc[p] \in {"archiving", "writing"}
  /\ Fail(p) /\ UNCHANGED <<storeVars, myRun, agent, head, files>>

-----------------------------------------------------------------------------
(* commit_phase_snapshot: git add -A, then git commit, which concludes an  *)
(* unfinished merge.                                                       *)
Stage(p) ==
  /\ At(p, "staging")
  /\ tree' = [tree EXCEPT !.conflicts = FALSE]
  /\ Goto(p, "committing")
  /\ UNCHANGED <<storeVars, local, source, noted, report, wanted>>

(* Mutant of Commit: nothing staged, nothing committed, not even a merge.  *)
CommitUnlessEmpty(p) ==
  /\ At(p, "committing")
  /\ tree' = IF tree.dirty THEN [tree EXCEPT !.base = source, !.merging = NoHead, !.dirty = FALSE]
             ELSE tree
  /\ Goto(p, "settled")
  /\ UNCHANGED <<storeVars, local, source, noted, report, wanted>>

Commit(p) ==
  /\ At(p, "committing")
  /\ tree' = [tree EXCEPT !.base = IF tree.merging = NoHead THEN @ ELSE tree.merging,
                          !.merging = NoHead, !.dirty = FALSE, !.by = NoRun]
  /\ Goto(p, "settled")
  /\ UNCHANGED <<storeVars, local, source, noted, report, wanted>>

SnapshotFails(p) ==
  /\ pc[p] \in {"staging", "committing"}
  /\ Fail(p) /\ UNCHANGED <<storeVars, myRun, agent, head, files>>

(* complete_run, transition_issue and release_lock.                        *)
Complete(p) ==
  /\ At(p, "settled") /\ CanComplete(myRun[p])
  /\ CompleteRun(myRun[p], outcome[p])
  /\ Goto(p, "completed") /\ UNCHANGED <<local, files>>

Move(p) ==
  /\ At(p, "completed") /\ current = myRun[p] /\ TransitionAllowed(outcome[p])
  /\ RunTransition(myRun[p], outcome[p])
  /\ Goto(p, "releasing") /\ UNCHANGED <<local, files>>

Release(p) ==
  /\ At(p, "releasing") /\ Holds(p, myRun[p])
  /\ ReleaseLock /\ Goto(p, "idle") /\ UNCHANGED <<local, files>>

-----------------------------------------------------------------------------
Recovery(p) ==
  Look(p) \/ Claim(p) \/ ClaimRefused(p) \/ Rescue(p) \/ NothingToRescue(p) \/ HandOver(p) \/ Sweep(p)

Sync(p) ==
  \/ SyncRefused(p) \/ UpToDate(p) \/ ReadSource(p) \/ MergeSource(p) \/ MergeFails(p)
  \/ Note(p) \/ ArchiveReport(p) \/ WriteReport(p) \/ ReportFails(p)

Run(p) ==
  \/ GiveUp(p) \/ Acquire(p) \/ EnterPhase(p) \/ StartRun(p) \/ AgentReturns(p)
  \/ Stage(p) \/ Commit(p) \/ SnapshotFails(p)
  \/ Complete(p) \/ Move(p) \/ Release(p)

Goes(p) == (Recovery(p) \/ Run(p) \/ Sync(p)) /\ UNCHANGED orderly

Next ==
  \/ \E p \in Owner : Start(p) \/ NoteRaises(p) \/ Crash(p) \/ Goes(p)
  \/ Advance

Spec == Init /\ [][Next]_vars

(* A process that died is replaced, and whoever lives goes on: sweeps come *)
(* again and again, and the runner's timeout ends every agent.             *)
FairSpec ==
  /\ Spec
  /\ \A p \in Owner : WF_vars(Start(p)) /\ WF_vars(Goes(p))

-----------------------------------------------------------------------------
(* Properties.                                                             *)

(* Implementation and validation never begin in the middle of a merge:     *)
(* what a sync, its crash or a failed abort leaves is concluded by the     *)
(* resolver's commit or stops the issue, whoever recovers it and whenever. *)
MergesAreConcluded ==
  phase \in {"ready_for_implementation", "implementing", "ready_for_validation", "validating"}
    => tree.merging = NoHead /\ ~tree.conflicts

(* Rework starts from the source: once a reviewer has sent the work back,  *)
(* it is not implemented again before the worktree includes every commit   *)
(* the source branch had by then, through conflicts, crashes and the       *)
(* repeated reviews that follow them; if the processes follow one another. *)
ReworkStartsFromSource ==
  orderly /\ phase = "ready_for_implementation" => tree.base >= wanted

(* The resolver finds a merge artifact, and it was written in the review   *)
(* whose sync left the conflicts, or in one recovered after it, never for  *)
(* an earlier sync.                                                        *)
ReportIsOfTheseConflicts ==
  orderly /\ phase \in {"ready_for_merge_conflict_resolution", "resolving_merge_conflicts"}
    => (tree.conflicts => report.run >= tree.by)

(* A review in whose worktree a source sync left conflicts ends at the     *)
(* resolver or in a block.                                                 *)
EndsAtResolver ==
  phase = "reviewing" /\ tree.conflicts /\ phase' # "reviewing"
    => phase' \in {"ready_for_merge_conflict_resolution", "blocked"}

(* Whoever dies in the sync or in its recovery, conflicts go to the        *)
(* resolver or stop the issue; if the processes follow one another.        *)
ConflictsReachResolver == [][orderly => EndsAtResolver]_vars

(* Recovery routes conflicts to resolution (tests/test_store_and_worker.py *)
(* says so), whoever else is there.                                        *)
RecoveryRoutesConflicts == [][EndsAtResolver]_vars

(* A review whose sync left conflicts does not stay under review, whoever  *)
(* dies in it or in its recovery, and whoever else is there.               *)
ConflictsEnd ==
  phase = "reviewing" /\ tree.conflicts ~> phase # "reviewing"
=============================================================================

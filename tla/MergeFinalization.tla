------------------------- MODULE MergeFinalization -------------------------
(***************************************************************************)
(* The merge of one issue's worktree into its source repository, or into a *)
(* hosted pull request, and the recovery of a merge that was interrupted   *)
(* (WorkspaceManager in src/agent_team/workspaces.py), at the granularity  *)
(* of its effects: a process may crash between any two Git commands and    *)
(* metadata files, and be stopped by a manager at any time.                *)
(*                                                                         *)
(* The processes run on one host, where no lock of a living process is     *)
(* broken; the database is reduced to the issue's phase and to the holder  *)
(* of its lock (Orchestrator has the rest).  A revision is the set of the  *)
(* commits it contains, so that "is an ancestor" is set inclusion.         *)
(***************************************************************************)
EXTENDS Naturals

CONSTANTS
  Worker,       \* processes
  NoWorker,     \* nobody
  Modes,        \* how approved merges are finalized: local, pull_request
  ResumePhases, \* the phases managers send a blocked issue to
  StopKinds,    \* the calls during which managers stop an issue
  Abandonable,  \* whether the cleanup of a merge may end before it is complete
                \* with nobody to recover it: Git fails in it, or its process
                \* crashes after a stop
  MaxCommits,   \* bound on the commits made after the first one
  MaxCrashes    \* bound on crashes

ASSUME WorkerAssumption == NoWorker \notin Worker /\ "gone" \notin Worker /\ NoWorker # "gone"
ASSUME FaultAssumption  ==
  StopKinds \subseteq {"none", "merge", "recovery", "repair"} /\ Abandonable \in BOOLEAN
ASSUME BoundAssumption  == MaxCommits \in Nat /\ MaxCrashes \in Nat
ASSUME ModeAssumption   ==
  /\ Modes \subseteq {"local", "pull_request"}
  /\ ResumePhases \subseteq {"working", "resolving", "ready_for_merge", "awaiting_pr_closure"}

VARIABLES
  phase,    \* the issue's phase; working stands for implementation to approval
  holder,   \* who holds the issue's lock
  flock,    \* who holds the repository's lock file
  pc, job,  \* where a process is, and its local variables
  target,   \* the revision of the target branch
  tree,     \* the issue's worktree
  remote,   \* the pull request's branch at the remote
  pr,       \* the pull request
  ws,       \* workspace.json
  merged,   \* merged_workspace.json
  request,  \* pull_request.json
  made,     \* history: the commits made for the issue
  marked,   \* history: those with conflict markers in them
  commits,  \* commits so far
  crashes   \* crashes so far

control == <<phase, holder, flock, pc, job>>
git     == <<target, tree, remote, pr, made, marked, commits>>
files   == <<ws, merged, request>>
vars    == <<control, git, files, crashes>>

Revision == SUBSET (0 .. MaxCommits)

(* theirs is the revision whose merge left conflicts in the worktree;      *)
(* branch: the internal merge branch is checked out.                       *)
NoTree  == [here |-> FALSE, head |-> {}, dirty |-> FALSE, theirs |-> {}, branch |-> FALSE]
NoFile  == [state |-> "none", head |-> {}]
NoSpace == [kind |-> "none", source |-> {}]
NoJob   == [kind |-> "none", route |-> "none", seen |-> "none", source |-> {},
            head |-> {}, outcome |-> "none"]

Phases  == {"working", "resolving", "ready_for_merge", "merging", "awaiting_pr_closure",
            "blocked", "done"}
Written == {"none", "recorded", "cleaned"}
Record  == [state : Written, head : Revision]
Cleanup == {"recording", "removing", "marking", "forgetting", "pruning"}
Locking == {"committing", "integrating", "finalizing", "opening", "deciding",
            "recreating", "repairing", "syncing"} \cup Cleanup

TypeOK ==
  /\ phase \in Phases
  /\ holder \in Worker \cup {NoWorker, "gone"}
  /\ flock \in Worker \cup {NoWorker}
  /\ pc \in [Worker -> Locking \cup {"idle", "reading", "waiting", "reporting"}]
  /\ job \in [Worker -> [kind : {"none", "merge", "recovery", "repair"},
                         route : {"none", "merged", "request", "repair", "plain", "landed"},
                         seen : Written, source : Revision, head : Revision,
                         outcome : Phases \cup {"none"}]]
  /\ target \in Revision /\ made \in Revision /\ marked \in Revision
  /\ tree \in [here : BOOLEAN, head : Revision, dirty : BOOLEAN, theirs : Revision,
               branch : BOOLEAN]
  /\ remote \in Revision
  /\ pr \in {"none", "open", "closed"}
  /\ ws \in [kind : {"none", "plain", "repair"}, source : Revision]
  /\ merged \in Record /\ request \in Record
  /\ commits \in 0 .. MaxCommits /\ crashes \in 0 .. MaxCrashes
  /\ \A w \in Worker : (flock = w) <=> pc[w] \in Locking

Init ==
  /\ phase = "working" /\ holder = NoWorker /\ flock = NoWorker
  /\ pc = [w \in Worker |-> "idle"] /\ job = [w \in Worker |-> NoJob]
  /\ target = {0} /\ tree = NoTree /\ remote = {} /\ pr = "none"
  /\ ws = NoSpace /\ merged = NoFile /\ request = NoFile
  /\ made = {} /\ marked = {} /\ commits = 0 /\ crashes = 0

-----------------------------------------------------------------------------
(* Revisions.                                                              *)

Clean     == ~tree.dirty /\ tree.theirs = {}
NewCommit == commits + 1

(* git add -A and git commit in the worktree: whatever is there, with the  *)
(* merge that left conflicts, if any.                                      *)
CommitTree ==
  /\ commits < MaxCommits
  /\ tree' = [tree EXCEPT !.head = @ \cup tree.theirs \cup {NewCommit},
                          !.dirty = FALSE, !.theirs = {}]
  /\ made' = made \cup {NewCommit}
  /\ commits' = NewCommit

(* git merge --no-ff of a revision into the worktree t: nothing to do, a   *)
(* merge commit or, where both sides have commits of their own, conflicts. *)
Merges(t, rev) ==
  IF rev \subseteq t.head THEN {t}
  ELSE {[t EXCEPT !.head = @ \cup rev \cup {NewCommit}]}
       \cup {c \in {[t EXCEPT !.theirs = rev]} : ~(t.head \subseteq rev)}

MergeGives(t) ==
  /\ tree' = t
  /\ commits' = IF NewCommit \in t.head THEN NewCommit ELSE commits
  /\ commits' <= MaxCommits

-----------------------------------------------------------------------------
(* Control.                                                                *)

Goto(w, where) ==
  pc' = [pc EXCEPT ![w] = where] /\ UNCHANGED <<phase, holder, flock>>

Step(w, where) == Goto(w, where) /\ UNCHANGED job

Leave(w, where) ==
  /\ pc' = [pc EXCEPT ![w] = where]
  /\ flock' = IF flock = w THEN NoWorker ELSE flock
  /\ UNCHANGED <<phase, holder>>

(* Mutant of Conclude: the repository lock is not given back.              *)
ConcludeLocked(w, outcome) ==
  /\ Goto(w, "reporting")
  /\ job' = [job EXCEPT ![w].outcome = outcome]

(* The call is over: the repository lock is given back and the outcome is  *)
(* still to be written to the database.                                    *)
Conclude(w, outcome) ==
  /\ Leave(w, "reporting")
  /\ job' = [job EXCEPT ![w].outcome = outcome]

(* An exception that leaves a recovery: its claim stays behind.            *)
Raise(w) == Leave(w, "idle") /\ job' = [job EXCEPT ![w] = NoJob]

(* _raise_if_cancelled, before the next step: a stop took the lock away.   *)
Stopped(w) == holder # w

(* Mutant of Unlocked: the lock of a dead process is not broken.           *)
UnlockedOnlyWhenFree == holder = NoWorker

Unlocked == holder \in {NoWorker, "gone"}

Begin(w, kind, where) ==
  /\ pc[w] = "idle"
  /\ holder' = w
  /\ pc' = [pc EXCEPT ![w] = where]
  /\ job' = [job EXCEPT ![w] = [NoJob EXCEPT !.kind = kind]]
  /\ UNCHANGED <<flock, git, files, crashes>>

(* Only a merge asks whether it was stopped while it waited.               *)
TakeLock(w) ==
  /\ pc[w] = "waiting" /\ flock = NoWorker
  /\ IF job[w].kind = "merge" /\ Stopped(w)
       THEN Conclude(w, "blocked")
       ELSE /\ flock' = w
            /\ pc' = [pc EXCEPT ![w] = CASE job[w].kind = "merge"    -> "committing"
                                         [] job[w].kind = "recovery" -> "deciding"
                                         [] job[w].kind = "repair"   -> "recreating"]
            /\ UNCHANGED <<phase, holder, job>>
  /\ UNCHANGED <<git, files, crashes>>

(* The outcome is written if the process still holds the issue's lock.     *)
Report(w) ==
  /\ pc[w] = "reporting"
  /\ IF holder = w
       THEN phase' = job[w].outcome /\ holder' = NoWorker
       ELSE UNCHANGED <<phase, holder>>
  /\ pc' = [pc EXCEPT ![w] = "idle"] /\ job' = [job EXCEPT ![w] = NoJob]
  /\ UNCHANGED <<flock, git, files, crashes>>

(* A Git command fails under the repository lock, and the issue blocks; a  *)
(* recovery handles that only where it removes a worktree.                 *)
GitFails(w) ==
  /\ pc[w] \in Locking
  /\ job[w].kind = "recovery" => pc[w] = "removing" /\ job[w].route # "landed"
  /\ pc[w] \in Cleanup => Abandonable
  /\ Conclude(w, "blocked")
  /\ UNCHANGED <<git, files, crashes>>

-----------------------------------------------------------------------------
(* merge_and_cleanup.                                                      *)

StartMerge(w) ==
  /\ phase = "ready_for_merge" /\ Unlocked
  /\ phase' = "merging"
  /\ Begin(w, "merge", "reading")

(* Read and validated before the repository lock is taken.                 *)
ReadSpace(w) ==
  /\ pc[w] = "reading" /\ job[w].kind = "merge"
  /\ IF Stopped(w) \/ ws.kind = "none" \/ ~tree.here
       THEN Conclude(w, "blocked")
       ELSE Goto(w, "waiting") /\ job' = [job EXCEPT ![w].source = ws.source]
  /\ UNCHANGED <<git, files, crashes>>

(* _commit_dirty_worktree commits what it finds, conflict markers too;     *)
(* then there has to be something to merge.                                *)
CommitWork(w) ==
  /\ pc[w] = "committing" /\ tree.here
  /\ IF Clean
       THEN UNCHANGED <<tree, made, marked, commits>>
       ELSE /\ CommitTree
            /\ marked' = IF tree.theirs # {} THEN marked \cup {NewCommit} ELSE marked
  /\ IF Stopped(w) \/ tree'.head = job[w].source
       THEN Conclude(w, "blocked") ELSE Step(w, "integrating")
  /\ UNCHANGED <<target, remote, pr, files, crashes>>

(* The rest of _prepare_merge_in_worktree: the internal branch is checked  *)
(* out and the target merged into it.                                      *)
Integrate(w) ==
  /\ pc[w] = "integrating" /\ tree.here
  /\ \E t \in Merges([tree EXCEPT !.branch = TRUE], target) :
       /\ MergeGives(t)
       /\ IF t.theirs # {} THEN Conclude(w, "resolving")
          ELSE IF Stopped(w) THEN Conclude(w, "blocked")
          ELSE Goto(w, "finalizing") /\ job' = [job EXCEPT ![w].head = t.head]
  /\ UNCHANGED <<target, remote, pr, made, marked, files, crashes>>

RecordIn(w, file) ==
  Goto(w, "recording") /\ job' = [job EXCEPT ![w].route = file]

(* Mutant of Land: the arguments of is-ancestor the other way round.       *)
LandSwapped(w) ==
  /\ "local" \in Modes /\ pc[w] = "finalizing"
  /\ IF target \subseteq job[w].head
       THEN UNCHANGED <<target, commits>>
       ELSE target' = target \cup job[w].head /\ UNCHANGED commits
  /\ RecordIn(w, "merged")
  /\ UNCHANGED <<tree, remote, pr, made, marked, files, crashes>>

(* _finalize_local_merge: the merge commit on the target branch, unless    *)
(* the target has the work already.                                        *)
Land(w) ==
  /\ "local" \in Modes /\ pc[w] = "finalizing"
  /\ IF job[w].head \subseteq target
       THEN UNCHANGED <<target, commits>>
       ELSE /\ commits < MaxCommits
            /\ target' = target \cup job[w].head \cup {NewCommit}
            /\ commits' = NewCommit
  /\ RecordIn(w, "merged")
  /\ UNCHANGED <<tree, remote, pr, made, marked, files, crashes>>

(* _push_pull_request_branch: a branch that is there is overwritten only   *)
(* where pull_request.json says that it is still ours.                     *)
MayPush(head) ==
  \/ remote \in {{}, head}
  \/ request.state # "none" /\ request.head = remote

Push(w) ==
  /\ "pull_request" \in Modes /\ pc[w] = "finalizing"
  /\ IF MayPush(job[w].head)
       THEN remote' = job[w].head /\ Step(w, "opening")
       ELSE UNCHANGED remote /\ Conclude(w, "blocked")
  /\ UNCHANGED <<target, tree, pr, made, marked, commits, files, crashes>>

(* create_or_get_pull_request.                                             *)
OpenPullRequest(w) ==
  /\ pc[w] = "opening"
  /\ pr' = "open"
  /\ RecordIn(w, "request")
  /\ UNCHANGED <<target, tree, remote, made, marked, commits, files, crashes>>

-----------------------------------------------------------------------------
(* The cleanup both finalizations end with, and recovery takes up again.   *)

WriteRecord(w, state) ==
  LET record == [state |-> state, head |-> job[w].head] IN
  IF job[w].route = "request"
    THEN request' = record /\ UNCHANGED <<merged, ws>>
    ELSE merged' = record /\ UNCHANGED <<request, ws>>

RecordResult(w) ==
  /\ pc[w] = "recording"
  /\ WriteRecord(w, "recorded")
  /\ Step(w, "removing")
  /\ UNCHANGED <<git, crashes>>

(* git worktree remove refuses a worktree with changes.  A recovery that   *)
(* continues a cleanup blocks on that and does not mind a missing tree.    *)
RemoveTree(w) ==
  /\ pc[w] = "removing"
  /\ IF tree.here /\ Clean
       THEN tree' = NoTree /\ Step(w, "marking")
       ELSE /\ UNCHANGED tree
            /\ IF job[w].kind = "recovery" /\ job[w].route # "landed" /\ ~tree.here
                 THEN Step(w, "marking")
               ELSE IF job[w].kind = "recovery" /\ job[w].route = "landed" THEN Raise(w)
               ELSE Conclude(w, "blocked")
  /\ UNCHANGED <<target, remote, pr, made, marked, commits, files, crashes>>

MarkCleaned(w) ==
  /\ pc[w] = "marking"
  /\ WriteRecord(w, "cleaned")
  /\ Step(w, "forgetting")
  /\ UNCHANGED <<git, crashes>>

ForgetSpace(w) ==
  /\ pc[w] = "forgetting"
  /\ ws' = NoSpace
  /\ IF job[w].route = "landed" THEN Conclude(w, "done") ELSE Step(w, "pruning")
  /\ UNCHANGED <<git, merged, request, crashes>>

(* _delete_internal_merge_branches fails on a branch that is checked out.  *)
PruneBranches(w) ==
  /\ pc[w] = "pruning"
  /\ IF tree.here /\ tree.branch /\ job[w].kind = "recovery"
       THEN Raise(w)
       ELSE Conclude(w, IF tree.here /\ tree.branch THEN "blocked"
                        ELSE IF job[w].route = "request" THEN "awaiting_pr_closure" ELSE "done")
  /\ UNCHANGED <<git, files, crashes>>

-----------------------------------------------------------------------------
(* recover_interrupted_merge.                                              *)

Claim(w) ==
  /\ phase = "merging" /\ Unlocked
  /\ Begin(w, "recovery", "reading")
  /\ UNCHANGED phase

(* What a record found tells of the cleanup to be completed.               *)
ContinueCleanup(route, record) ==
  [NoJob EXCEPT !.kind = "recovery", !.route = route,
                !.seen = record.state, !.head = record.head]

(* Mutant of PrefersRequest: an old pull_request.json hides the workspace  *)
(* in which the conflicts of the pull request were resolved.               *)
AnyRequest == request.state # "none"

PrefersRequest == ws.kind # "repair" /\ request.state # "none"

(* The metadata, read before the repository lock is taken, tell what is to *)
(* be recovered, in this order.                                            *)
Recovered(w) ==
  IF merged.state # "none" THEN ContinueCleanup("merged", merged)
  ELSE IF PrefersRequest THEN ContinueCleanup("request", request)
  ELSE IF ws.kind # "none" /\ tree.here
    THEN [job[w] EXCEPT !.route = ws.kind, !.source = ws.source]
  ELSE NoJob

Look(w) ==
  /\ pc[w] = "reading" /\ job[w].kind = "recovery"
  /\ IF Recovered(w) = NoJob
       THEN Conclude(w, "blocked")
       ELSE Goto(w, "waiting") /\ job' = [job EXCEPT ![w] = Recovered(w)]
  /\ UNCHANGED <<git, files, crashes>>

(* ... and some of them are read again under the lock.                     *)
Reread(w) ==
  LET j == job[w] IN
  IF j.route \in {"merged", "request"} THEN j
  ELSE IF merged.state # "none" THEN ContinueCleanup("merged", merged)
  ELSE IF j.route = "repair" /\ ws.kind # "none" THEN [j EXCEPT !.source = ws.source]
  ELSE IF request.state # "none" THEN ContinueCleanup("request", request)
  ELSE IF j.route = "plain" THEN j
  ELSE NoJob

DecideCleanup(w) ==
  /\ pc[w] = "deciding"
  /\ Reread(w).route \in {"merged", "request"}
  /\ Goto(w, IF Reread(w).seen = "cleaned" THEN "forgetting" ELSE "removing")
  /\ job' = [job EXCEPT ![w] = Reread(w)]
  /\ UNCHANGED <<git, files, crashes>>

(* Mutant of AlreadyLanded: whatever has commits of its own has landed.    *)
AlreadyLandedIfChanged(source) == tree.head # source

(* _recover_interrupted_merge_locked: the worktree has commits of its own, *)
(* and the target branch has them.                                         *)
AlreadyLanded(source) == tree.head # source /\ tree.head \subseteq target

(* Uncommitted changes in the source repository block every recovery that  *)
(* has to look at its branches.                                            *)
SourceIsDirty(w) ==
  /\ pc[w] = "deciding"
  /\ Reread(w).route \notin {"merged", "request"}
  /\ Conclude(w, "blocked")
  /\ UNCHANGED <<git, files, crashes>>

DecideFromTree(w) ==
  /\ pc[w] = "deciding"
  /\ Reread(w).route \notin {"merged", "request"}
  /\ IF Reread(w).route = "none" THEN Conclude(w, "blocked")
     ELSE IF ~tree.here THEN Raise(w)
     ELSE IF tree.theirs # {} THEN Conclude(w, "resolving")
     ELSE IF ~AlreadyLanded(Reread(w).source) THEN Conclude(w, "ready_for_merge")
     ELSE IF ~Clean THEN Conclude(w, "blocked")
     ELSE /\ Goto(w, "recording")
          /\ job' = [job EXCEPT ![w].route = "landed", ![w].head = tree.head]
  /\ UNCHANGED <<git, files, crashes>>

-----------------------------------------------------------------------------
(* The pull request's monitor: it closes the issue with the pull request,  *)
(* and prepares a workspace for the conflicts of one that is open.         *)

MonitorFinds(next) ==
  /\ phase = "awaiting_pr_closure" /\ Unlocked
  /\ phase' = next /\ holder' = NoWorker
  /\ UNCHANGED <<flock, pc, job, git, files, crashes>>

CloseIssue      == request.state # "none" /\ pr = "closed" /\ MonitorFinds("done")

(* The metadata are missing, or the provider does not answer as it should, *)
(* which it may do at any time.                                            *)
BlockMonitoring == MonitorFinds("blocked")

StartRepair(w) ==
  /\ phase = "awaiting_pr_closure" /\ Unlocked
  /\ request.state # "none" /\ pr = "open" /\ ~(target \subseteq remote)
  /\ Begin(w, "repair", "waiting")
  /\ UNCHANGED phase

(* _recreate_pull_request_repair_worktree, at the fetched revisions:       *)
(* conflicts under resolution are kept if they are still those of today.   *)
RecreateTree(w) ==
  /\ pc[w] = "recreating"
  /\ IF tree.here /\ tree.theirs # {}
       THEN /\ UNCHANGED tree
            /\ IF tree.head = remote /\ ws = [kind |-> "repair", source |-> target]
                 THEN Goto(w, "repairing") /\ job' = [job EXCEPT ![w].source = target]
                 ELSE Conclude(w, "blocked")
     ELSE IF tree.here /\ tree.dirty
       THEN UNCHANGED tree /\ Conclude(w, "blocked")
     ELSE /\ tree' = [NoTree EXCEPT !.here = TRUE, !.head = remote]
          /\ Goto(w, "repairing") /\ job' = [job EXCEPT ![w].source = target]
  /\ UNCHANGED <<target, remote, pr, made, marked, commits, files, crashes>>

WriteRepairSpace(w) ==
  /\ pc[w] = "repairing"
  /\ ws' = [kind |-> "repair", source |-> job[w].source]
  /\ Step(w, "syncing")
  /\ UNCHANGED <<git, merged, request, crashes>>

SyncRepairTree(w) ==
  /\ pc[w] = "syncing" /\ tree.here
  /\ \E t \in IF tree.theirs # {} THEN {tree} ELSE Merges(tree, job[w].source) :
       /\ MergeGives(t)
       /\ Conclude(w, IF t.theirs # {} THEN "resolving" ELSE "working")
  /\ UNCHANGED <<target, remote, pr, made, marked, files, crashes>>

-----------------------------------------------------------------------------
(* The work on the issue between merges.                                   *)

NoControl == UNCHANGED <<control, crashes>>

(* prepare: a new worktree at the source's head, and its metadata.         *)
Prepare ==
  /\ phase = "working" /\ ws.kind = "none" /\ ~tree.here
  /\ tree' = [NoTree EXCEPT !.here = TRUE, !.head = target]
  /\ ws' = [kind |-> "plain", source |-> target]
  /\ NoControl /\ UNCHANGED <<target, remote, pr, made, marked, commits, merged, request>>

(* A crash between the two leaves an orphan ...                            *)
PrepareCrashes ==
  /\ phase = "working" /\ ws.kind = "none" /\ ~tree.here
  /\ crashes < MaxCrashes /\ crashes' = crashes + 1
  /\ tree' = [NoTree EXCEPT !.here = TRUE, !.head = target]
  /\ UNCHANGED <<control, target, remote, pr, made, marked, commits, files>>

(* ... to be adopted, if it is clean and has all of the source.            *)
Adoptable == tree.here /\ Clean /\ target \subseteq tree.head

AdoptOrphan ==
  /\ phase = "working" /\ ws.kind = "none" /\ Adoptable
  /\ ws' = [kind |-> "plain", source |-> target]
  /\ NoControl /\ UNCHANGED <<git, merged, request>>

(* Anything else that is not a workspace blocks the phase.                 *)
NoWorkspace ==
  /\ \/ phase = "working" /\ ws.kind # "none" /\ ~tree.here
     \/ phase = "working" /\ ws.kind = "none" /\ tree.here /\ ~Adoptable
     \/ phase = "resolving" /\ (ws.kind = "none" \/ ~tree.here)
  /\ phase' = "blocked"
  /\ UNCHANGED <<holder, flock, pc, job, git, files, crashes>>

InWorkspace(p) == phase = p /\ ws.kind # "none" /\ tree.here

Edit ==
  /\ InWorkspace("working") /\ ~tree.dirty
  /\ tree' = [tree EXCEPT !.dirty = TRUE]
  /\ NoControl /\ UNCHANGED <<target, remote, pr, made, marked, commits, files>>

(* commit_phase_snapshot.                                                  *)
Snapshot ==
  /\ InWorkspace("working") /\ tree.dirty
  /\ CommitTree
  /\ NoControl /\ UNCHANGED <<target, remote, pr, marked, files>>

(* An agent resolves the conflicts and its work is committed.              *)
Resolve ==
  /\ InWorkspace("resolving")
  /\ CommitTree
  /\ phase' = "working"
  /\ UNCHANGED <<holder, flock, pc, job, target, remote, pr, marked, files, crashes>>

Approve ==
  /\ phase = "working" /\ phase' = "ready_for_merge"
  /\ UNCHANGED <<holder, flock, pc, job, git, files, crashes>>

-----------------------------------------------------------------------------
(* Managers, other people's commits, the provider, and crashes.            *)

(* A stop of a dead process's merge recovers that merge first; the lock of *)
(* a living process is just cleared.                                       *)
InCall == IF holder \in Worker THEN job[holder].kind ELSE "none"

Stop ==
  /\ phase \notin {"blocked", "done"} /\ holder # "gone"
  /\ InCall \in StopKinds
  /\ phase' = "blocked" /\ holder' = NoWorker
  /\ UNCHANGED <<flock, pc, job, git, files, crashes>>

Resume ==
  /\ phase = "blocked"
  /\ phase' \in ResumePhases
  /\ UNCHANGED <<holder, flock, pc, job, git, files, crashes>>

TargetMoves ==
  /\ commits < MaxCommits
  /\ target' = target \cup {NewCommit}
  /\ commits' = NewCommit
  /\ NoControl /\ UNCHANGED <<tree, remote, pr, made, marked, files>>

PullRequestEnds ==
  /\ pr = "open" /\ pr' = "closed"
  /\ target' \in {target, target \cup remote}
  /\ NoControl /\ UNCHANGED <<tree, remote, made, marked, commits, files>>

Crash(w) ==
  /\ pc[w] # "idle" /\ crashes < MaxCrashes
  /\ pc[w] \in Cleanup /\ Stopped(w) => Abandonable
  /\ crashes' = crashes + 1
  /\ holder' = IF holder = w THEN "gone" ELSE holder
  /\ flock' = IF flock = w THEN NoWorker ELSE flock
  /\ pc' = [pc EXCEPT ![w] = "idle"] /\ job' = [job EXCEPT ![w] = NoJob]
  /\ UNCHANGED <<phase, git, files>>

Act(w) ==
  \/ StartMerge(w) \/ ReadSpace(w) \/ TakeLock(w) \/ CommitWork(w) \/ Integrate(w)
  \/ Land(w) \/ Push(w) \/ OpenPullRequest(w)
  \/ RecordResult(w) \/ RemoveTree(w) \/ MarkCleaned(w) \/ ForgetSpace(w) \/ PruneBranches(w)
  \/ Claim(w) \/ Look(w) \/ DecideCleanup(w) \/ DecideFromTree(w) \/ SourceIsDirty(w)
  \/ StartRepair(w) \/ RecreateTree(w) \/ WriteRepairSpace(w) \/ SyncRepairTree(w)
  \/ GitFails(w) \/ Report(w)

Work == Prepare \/ PrepareCrashes \/ AdoptOrphan \/ NoWorkspace \/ Edit \/ Snapshot
        \/ Resolve \/ Approve

Others == CloseIssue \/ BlockMonitoring \/ Stop \/ Resume \/ TargetMoves \/ PullRequestEnds

Next == (\E w \in Worker : Act(w) \/ Crash(w)) \/ Work \/ Others

Spec == Init /\ [][Next]_vars

(* Processes that are up go on: nothing else is assumed.                   *)
FairSpec == Spec /\ \A w \in Worker : WF_vars(Act(w))

-----------------------------------------------------------------------------
(* Properties.                                                             *)

(* No commit made for the issue is ever lost: whatever crashes, stops and  *)
(* recoveries do, it is in the target branch, in the pull request's branch *)
(* or still in the worktree (the cleanup of _finalize_local_merge,         *)
(* _finalize_pull_request and every recovery removes the worktree).        *)
WorkIsKept == made \subseteq target \cup remote \cup tree.head

(* An issue that is done, or that waits for its pull request, has handed   *)
(* over all of its commits: recovery reports neither for a merge that got  *)
(* only part of the way (recover_interrupted_merge).                       *)
FinishedWorkIsDelivered ==
  phase \in {"done", "awaiting_pr_closure"} => made \subseteq target \cup remote

(* The metadata a recovery trusts are written only of what has happened:   *)
(* a recorded merge is in the target branch, a recorded pull request has   *)
(* been pushed.                                                            *)
RecordsFollowTheWork ==
  /\ merged.state # "none" => merged.head # {} /\ merged.head \subseteq target
  /\ request.state # "none" => request.head # {} /\ request.head \subseteq remote

(* A merge that starts also ends, whichever process crashes in it and      *)
(* whoever waits for the repository lock: the issue leaves merging.        *)
MergeEnds == (phase = "merging") ~> (phase # "merging")

(* Conflict markers never reach the target branch or a pull request: the   *)
(* conflicts of a merge are resolved before it is tried again (artifact    *)
(* text of WorkspaceMergeResult).                                          *)
MarkersStayOut == marked \cap (target \cup remote) = {}
=============================================================================

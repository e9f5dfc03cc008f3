-------------------------- MODULE BrowserRunsProofs --------------------------
(***************************************************************************)
(* Proofs about BrowserRuns, for any actions, issues, pool and history.    *)
(* The invariant has a part for each of the three modules: JobsInv for the *)
(* list and the pool, RunnerInv for the agents' processes, and RunsInv for *)
(* what ties them together.                                                *)
(***************************************************************************)
EXTENDS BrowserRuns, SequenceTheorems, TLAPS

-----------------------------------------------------------------------------
(* Where the thread of an action is decides what its status may be, and    *)
(* its future says where the thread is.                                    *)
JobFits(j) ==
  /\ handler[j] = "idle" <=> jobs[j] = "absent"
  /\ handler[j] \in {"idle", "inserted"} => futures[j] = "none"
  /\ thread[j] = "none" <=> futures[j] \in {"none", "pending", "cancelled"}
  /\ thread[j] = "over" <=> futures[j] = "done"
  /\ thread[j] = "none" => jobs[j] \in {"absent", "queued", "cancelled", "forgotten"}
  /\ thread[j] = "called" => jobs[j] \in {"queued", "cancelled", "forgotten"}
  /\ thread[j] \in {"running", "ran", "decided"} => jobs[j] \in {"running", "cancelling"}
  /\ thread[j] = "decided" => result[j] \in TerminalJobStatuses
  /\ thread[j] \in {"ending", "over"} => jobs[j] \in TerminalJobStatuses \cup {"forgotten"}

(* The pool's queue has each future at most once, and none that was taken. *)
QueueFits ==
  \A m, n \in 1..Len(queue) :
    /\ futures[queue[m]] \in {"pending", "cancelled"}
    /\ queue[m] = queue[n] => m = n

JobsInv == JobsTypeOK /\ QueueFits /\ \A j \in Job : JobFits(j)

(* What JobLifecycle allows to one step.                                   *)
JobsMove == \A j \in Job : jobs'[j] = jobs[j] \/ jobs'[j] \in Lifecycle!Edge(jobs[j])

LEMMA Edges ==
  /\ "queued" \in Lifecycle!Edge("absent")
  /\ Lifecycle!Edge("queued") = {"running", "cancelled"}
  /\ Lifecycle!Edge("running") = {"cancelling", "succeeded", "failed", "cancelled"}
  /\ Lifecycle!Edge("cancelling") = {"succeeded", "failed", "cancelled"}
  /\ \A s \in TerminalJobStatuses : Lifecycle!Edge(s) = {"forgotten"}
  BY DEF Lifecycle!Edge, Lifecycle!TerminalJobStatuses, TerminalJobStatuses

(* An action whose thread has yet to look for it.                          *)
Waits(j) == handler[j] = "inserted" \/ futures[j] = "pending" \/ thread[j] = "called"

(* No step but forgetting takes such an action from the list, and none     *)
(* takes a thread from process_issue.                                      *)
JobsKept ==
  \A j \in Job : /\ Waits(j)' => Listed(j)' \/ (Waits(j) /\ ~Listed(j))
                 /\ thread[j] = "running" => thread'[j] = "running"

JobStatus == TerminalJobStatuses \cup ActiveJobStatuses \cup {"absent", "forgotten"}

(* What a step that pruning takes part in may do to an action beside what  *)
(* it is there for.                                                        *)
PrunedAway(j, all) ==
  /\ jobs'[j] = "forgotten" /\ all[j] \in TerminalJobStatuses
  /\ futures[j] \in {"done", "cancelled"}

LEMMA Pruned ==
  ASSUME JobsTypeOK, NEW all \in [Job -> JobStatus], NEW known \in [Job -> BOOLEAN],
         SetJobs(all, known)
  PROVE  /\ jobs' \in [Job -> JobStatus] /\ recorded' \in [Job -> BOOLEAN]
         /\ \A j \in Job : jobs'[j] = all[j] \/ PrunedAway(j, all)
  BY DEF SetJobs, Prunable, JobStatus, PrunedAway

LEMMA JobsInitInv == ASSUME Init PROVE JobsInv
  BY DEF Init, JobsInit, JobsInv, JobsTypeOK, QueueFits, JobFits, TerminalJobStatuses,
         ActiveJobStatuses

-----------------------------------------------------------------------------
(* The steps of WebJobs.                                                   *)
LEMMA InsertJobInv ==
  ASSUME JobsInv, NEW j \in Job, InsertJob(j) PROVE JobsInv' /\ JobsMove /\ JobsKept
<1>. DEFINE all == [jobs EXCEPT ![j] = "queued"]
<1>1. /\ all \in [Job -> JobStatus] /\ recorded \in [Job -> BOOLEAN]
      /\ SetJobs(all, recorded) /\ JobsTypeOK
  BY DEF JobsInv, JobsTypeOK, InsertJob, SetStatus, ActiveJobStatuses, JobStatus
<1>2. \A k \in Job : all[k] = IF k = j THEN "queued" ELSE jobs[k]
  BY DEF JobsInv, JobsTypeOK
<1>. HIDE DEF all
<1>3. /\ jobs' \in [Job -> JobStatus] /\ recorded' \in [Job -> BOOLEAN]
      /\ \A k \in Job : jobs'[k] = all[k] \/ PrunedAway(k, all)
  BY <1>1, Pruned
<1>4. /\ handler[j] = "idle" /\ handler' = [handler EXCEPT ![j] = "inserted"]
      /\ UNCHANGED <<futures, queue, accepting, thread, result>>
  BY DEF InsertJob, Handle
<1>5. JobsTypeOK'
  BY <1>3, <1>4 DEF JobsInv, JobsTypeOK, JobStatus
<1>6. ASSUME NEW k \in Job PROVE JobFits(k)'
  BY <1>2, <1>3, <1>4 DEF JobsInv, JobsTypeOK, JobFits, PrunedAway, TerminalJobStatuses
<1>7. JobsMove
  BY <1>2, <1>3, <1>4, Edges DEF JobsInv, JobsTypeOK, JobFits, JobsMove, PrunedAway,
                                 TerminalJobStatuses
<1>8. JobsKept
  BY <1>2, <1>3, <1>4
  DEF JobsKept, Waits, Listed, PrunedAway, TerminalJobStatuses, JobsInv, JobsTypeOK, JobFits
<1>. QED BY <1>4, <1>5, <1>6, <1>7, <1>8 DEF JobsInv, QueueFits

LEMMA HandOverInv ==
  ASSUME JobsInv, NEW j \in Job, HandOver(j) PROVE JobsInv' /\ UNCHANGED jobs /\ JobsKept
<1>1. CASE accepting
  <2>1. /\ handler[j] = "inserted" /\ handler' = [handler EXCEPT ![j] = "submitted"]
        /\ futures[j] = "none" /\ futures' = [futures EXCEPT ![j] = "pending"]
        /\ queue \in Seq(Job) /\ queue' = Append(queue, j)
        /\ UNCHANGED <<jobs, recorded, accepting, thread, result>>
    BY <1>1 DEF HandOver, Handle, JobsInv, JobsTypeOK, JobFits
  <2>2. /\ queue' \in Seq(Job) /\ Len(queue) \in Nat /\ Len(queue') = Len(queue) + 1
        /\ \A n \in 1..Len(queue) : queue[n] \in Job
        /\ \A n \in 1..Len(queue') : queue'[n] = IF n <= Len(queue) THEN queue[n] ELSE j
    BY <2>1
  <2>3. JobsTypeOK' /\ \A k \in Job : JobFits(k)'
    BY <2>1, <2>2 DEF JobsInv, JobsTypeOK, JobFits
  <2>4. QueueFits'
    BY <2>1, <2>2 DEF JobsInv, JobsTypeOK, QueueFits
  <2>5. JobsKept
    BY <2>1
    DEF JobsKept, Waits, Listed, PrunedAway, TerminalJobStatuses, JobsInv, JobsTypeOK, JobFits
  <2>. QED BY <2>1, <2>3, <2>4, <2>5 DEF JobsInv
<1>2. CASE ~accepting
  BY <1>2 DEF HandOver, Handle, JobsInv, JobsTypeOK, QueueFits, JobFits,
                  JobsKept, Waits, Listed
<1>. QED BY <1>1, <1>2

LEMMA RecordFutureInv ==
  ASSUME JobsInv, NEW j \in Job, RecordFuture(j) PROVE JobsInv' /\ JobsMove /\ JobsKept
<1>. DEFINE known == [recorded EXCEPT ![j] = TRUE]
<1>1. /\ jobs \in [Job -> JobStatus] /\ known \in [Job -> BOOLEAN]
      /\ SetJobs(jobs, known) /\ JobsTypeOK
  BY DEF JobsInv, JobsTypeOK, RecordFuture, JobStatus
<1>. HIDE DEF known
<1>2. /\ jobs' \in [Job -> JobStatus] /\ recorded' \in [Job -> BOOLEAN]
      /\ \A k \in Job : jobs'[k] = jobs[k] \/ PrunedAway(k, jobs)
  BY <1>1, Pruned
<1>3. /\ handler[j] = "submitted" /\ handler' = [handler EXCEPT ![j] = "over"]
      /\ UNCHANGED <<futures, queue, accepting, thread, result>>
  BY DEF RecordFuture, Handle
<1>4. JobsTypeOK'
  BY <1>2, <1>3 DEF JobsInv, JobsTypeOK, JobStatus
<1>5. ASSUME NEW k \in Job PROVE JobFits(k)'
  BY <1>2, <1>3 DEF JobsInv, JobsTypeOK, JobFits, PrunedAway, TerminalJobStatuses
<1>6. JobsMove
  BY <1>2, <1>3, Edges DEF JobsInv, JobsMove, PrunedAway, TerminalJobStatuses
<1>7. JobsKept
  BY <1>2, <1>3
  DEF JobsKept, Waits, Listed, PrunedAway, TerminalJobStatuses, JobsInv, JobsTypeOK, JobFits
<1>. QED BY <1>3, <1>4, <1>5, <1>6, <1>7 DEF JobsInv, QueueFits

LEMMA TakeJobInv ==
  ASSUME JobsInv, NEW j \in Job, TakeJob(j) PROVE JobsInv' /\ UNCHANGED jobs /\ JobsKept
<1>1. /\ queue \in Seq(Job) /\ queue # <<>> /\ queue[1] = j /\ queue' = Tail(queue)
      /\ UNCHANGED <<jobs, recorded, accepting, handler, result>>
      /\ \/ /\ futures[j] = "pending" /\ futures' = [futures EXCEPT ![j] = "working"]
            /\ thread' = [thread EXCEPT ![j] = "called"]
         \/ futures[j] = "cancelled" /\ UNCHANGED <<futures, thread>>
  BY DEF TakeJob, ThreadAt, JobsInv, JobsTypeOK
<1>2. /\ queue' \in Seq(Job) /\ Len(queue) \in Nat \ {0} /\ Len(queue') = Len(queue) - 1
      /\ \A n \in 1..Len(queue) : queue[n] \in Job
      /\ \A n \in 1..Len(queue') : queue'[n] = queue[n+1]
  BY <1>1
<1>3. JobsTypeOK' /\ \A k \in Job : JobFits(k)'
  <2>1. JobsTypeOK'
    BY <1>1, <1>2 DEF JobsInv, JobsTypeOK
  <2>2. ASSUME NEW k \in Job PROVE JobFits(k)'
    BY <1>1 DEF JobsInv, JobsTypeOK, JobFits
  <2>. QED BY <2>1, <2>2
<1>4. ASSUME NEW m \in 1..Len(queue'), NEW n \in 1..Len(queue')
      PROVE  futures'[queue'[m]] \in {"pending", "cancelled"}
             /\ (queue'[m] = queue'[n] => m = n)
  <2>1. /\ m + 1 \in 1..Len(queue) /\ n + 1 \in 1..Len(queue) /\ 1 \in 1..Len(queue)
        /\ m + 1 # 1
    BY <1>2
  <2>2. queue[m+1] # j /\ futures[queue[m+1]] \in {"pending", "cancelled"}
        /\ (queue[m+1] = queue[n+1] => m + 1 = n + 1)
    BY <1>1, <2>1 DEF JobsInv, QueueFits
  <2>. QED BY <1>1, <1>2, <2>1, <2>2 DEF JobsInv, JobsTypeOK
<1>5. JobsKept
  BY <1>1
  DEF JobsKept, Waits, Listed, PrunedAway, TerminalJobStatuses, JobsInv, JobsTypeOK, JobFits
<1>. QED BY <1>1, <1>3, <1>4, <1>5 DEF JobsInv, QueueFits

LEMMA MarkRunningInv ==
  ASSUME JobsInv, NEW j \in Job, MarkRunning(j) PROVE JobsInv' /\ JobsMove /\ JobsKept
<1>. DEFINE all == [jobs EXCEPT ![j] = "running"]
<1>1. /\ all \in [Job -> JobStatus] /\ jobs \in [Job -> JobStatus]
      /\ recorded \in [Job -> BOOLEAN] /\ JobsTypeOK
      /\ \A k \in Job : all[k] = IF k = j THEN "running" ELSE jobs[k]
  BY DEF JobsInv, JobsTypeOK, ActiveJobStatuses, JobStatus
<1>2. /\ thread[j] = "called"
      /\ UNCHANGED <<futures, queue, accepting, handler, result>>
      /\ jobs[j] \in {"queued", "cancelled", "forgotten"}
  BY DEF MarkRunning, JobsInv, JobFits
<1>3. CASE ~Listed(j) /\ thread' = [thread EXCEPT ![j] = "ending"] /\ UNCHANGED <<jobs, recorded>>
  <2>1. JobsTypeOK' /\ \A k \in Job : JobFits(k)'
    BY <1>2, <1>3 DEF JobsInv, JobsTypeOK, JobFits, Listed
  <2>2. JobsKept
    BY <1>2, <1>3
    DEF JobsKept, Waits, Listed, PrunedAway, TerminalJobStatuses, JobsInv, JobsTypeOK, JobFits
  <2>. QED BY <1>2, <1>3, <2>1, <2>2 DEF JobsInv, QueueFits, JobsMove
<1>4. CASE jobs[j] = "cancelled" /\ SetJobs(jobs, recorded) /\ thread' = [thread EXCEPT ![j] = "ending"]
  <2>1. /\ jobs' \in [Job -> JobStatus] /\ recorded' \in [Job -> BOOLEAN]
        /\ \A k \in Job : jobs'[k] = jobs[k] \/ PrunedAway(k, jobs)
    BY <1>1, <1>4, Pruned
  <2>2. JobsTypeOK'
    BY <1>2, <1>4, <2>1 DEF JobsInv, JobsTypeOK, JobStatus
  <2>3. ASSUME NEW k \in Job PROVE JobFits(k)'
    BY <1>2, <1>4, <2>1 DEF JobsInv, JobsTypeOK, JobFits, PrunedAway, TerminalJobStatuses
  <2>4. JobsMove
    BY <2>1, Edges DEF JobsMove, PrunedAway
  <2>5. JobsKept
    BY <1>2, <1>4, <2>1
    DEF JobsKept, Waits, Listed, PrunedAway, TerminalJobStatuses, JobsInv, JobsTypeOK, JobFits
  <2>. QED BY <1>2, <2>2, <2>3, <2>4, <2>5 DEF JobsInv, QueueFits
<1>5. CASE jobs[j] = "queued" /\ SetJobs(all, recorded) /\ thread' = [thread EXCEPT ![j] = "running"]
  <2>. HIDE DEF all
  <2>1. /\ jobs' \in [Job -> JobStatus] /\ recorded' \in [Job -> BOOLEAN]
        /\ \A k \in Job : jobs'[k] = all[k] \/ PrunedAway(k, all)
    BY <1>1, <1>5, Pruned
  <2>2. JobsTypeOK'
    BY <1>2, <1>5, <2>1 DEF JobsInv, JobsTypeOK, JobStatus
  <2>3. ASSUME NEW k \in Job PROVE JobFits(k)'
    BY <1>1, <1>2, <1>5, <2>1 DEF JobsInv, JobsTypeOK, JobFits, PrunedAway, TerminalJobStatuses
  <2>4. JobsMove
    BY <1>1, <1>5, <2>1, Edges DEF JobsMove, PrunedAway, TerminalJobStatuses
  <2>5. JobsKept
    BY <1>1, <1>2, <1>5, <2>1
    DEF JobsKept, Waits, Listed, PrunedAway, TerminalJobStatuses, JobsInv, JobsTypeOK, JobFits
  <2>. QED BY <1>2, <2>2, <2>3, <2>4, <2>5 DEF JobsInv, QueueFits
<1>. QED BY <1>2, <1>3, <1>4, <1>5 DEF MarkRunning, ThreadAt, SetStatus, Listed

LEMMA DecideStatusInv ==
  ASSUME JobsInv, NEW j \in Job, DecideStatus(j) PROVE JobsInv' /\ UNCHANGED jobs /\ JobsKept
<1>1. /\ thread[j] = "ran" /\ thread' = [thread EXCEPT ![j] = "decided"]
      /\ UNCHANGED <<jobs, futures, recorded, queue, accepting, handler>>
  BY DEF DecideStatus, ThreadAt
<1>2. \E d \in TerminalJobStatuses : result' = [result EXCEPT ![j] = d]
  BY DEF DecideStatus, TerminalJobStatuses
<1>3. JobsTypeOK'
  BY <1>1, <1>2 DEF JobsInv, JobsTypeOK
<1>4. ASSUME NEW k \in Job PROVE JobFits(k)'
  BY <1>1, <1>2 DEF JobsInv, JobsTypeOK, JobFits
<1>5. JobsKept
  BY <1>1
  DEF JobsKept, Waits, Listed, PrunedAway, TerminalJobStatuses, JobsInv, JobsTypeOK, JobFits
<1>. QED BY <1>1, <1>3, <1>4, <1>5 DEF JobsInv, QueueFits

LEMMA UpdateJobInv ==
  ASSUME JobsInv, NEW j \in Job, UpdateJob(j) PROVE JobsInv' /\ JobsMove /\ JobsKept
<1>. DEFINE all == [jobs EXCEPT ![j] = result[j]]
<1>1. /\ thread[j] = "decided" /\ thread' = [thread EXCEPT ![j] = "ending"]
      /\ UNCHANGED <<futures, queue, accepting, handler, result>>
      /\ jobs[j] \in {"running", "cancelling"} /\ result[j] \in TerminalJobStatuses
  BY DEF UpdateJob, ThreadAt, JobsInv, JobFits
<1>2. /\ all \in [Job -> JobStatus] /\ recorded \in [Job -> BOOLEAN]
      /\ SetJobs(all, recorded) /\ JobsTypeOK
      /\ \A k \in Job : all[k] = IF k = j THEN result[j] ELSE jobs[k]
  BY <1>1 DEF UpdateJob, SetStatus, Listed, JobsInv, JobsTypeOK, JobStatus
<1>. HIDE DEF all
<1>3. /\ jobs' \in [Job -> JobStatus] /\ recorded' \in [Job -> BOOLEAN]
      /\ \A k \in Job : jobs'[k] = all[k] \/ PrunedAway(k, all)
  BY <1>2, Pruned
<1>4. JobsTypeOK'
  BY <1>1, <1>3 DEF JobsInv, JobsTypeOK, JobStatus
<1>5. futures[j] = "working"
  BY <1>1 DEF JobsInv, JobsTypeOK, JobFits
<1>6. ASSUME NEW k \in Job PROVE JobFits(k)'
  BY <1>1, <1>2, <1>3, <1>5 DEF JobsInv, JobsTypeOK, JobFits, PrunedAway, TerminalJobStatuses
<1>7. JobsMove
  BY <1>1, <1>2, <1>3, <1>5, Edges DEF JobsMove, PrunedAway, TerminalJobStatuses
<1>8. JobsKept
  BY <1>1, <1>2, <1>3, <1>5
  DEF JobsKept, Waits, Listed, PrunedAway, TerminalJobStatuses, JobsInv, JobsTypeOK, JobFits
<1>. QED BY <1>1, <1>4, <1>6, <1>7, <1>8 DEF JobsInv, QueueFits

LEMMA FinishFutureInv ==
  ASSUME JobsInv, NEW j \in Job, FinishFuture(j) PROVE JobsInv' /\ UNCHANGED jobs /\ JobsKept
<1>1. /\ thread[j] = "ending" /\ thread' = [thread EXCEPT ![j] = "over"]
      /\ futures' = [futures EXCEPT ![j] = "done"] /\ futures[j] = "working"
      /\ UNCHANGED <<jobs, recorded, queue, accepting, handler, result>>
  BY DEF FinishFuture, ThreadAt, JobsInv, JobsTypeOK, JobFits
<1>2. JobsTypeOK'
  BY <1>1 DEF JobsInv, JobsTypeOK
<1>3. ASSUME NEW k \in Job PROVE JobFits(k)'
  BY <1>1 DEF JobsInv, JobsTypeOK, JobFits
<1>4. ASSUME NEW m \in 1..Len(queue), NEW n \in 1..Len(queue)
      PROVE  futures'[queue[m]] \in {"pending", "cancelled"}
             /\ (queue[m] = queue[n] => m = n)
  BY <1>1 DEF JobsInv, JobsTypeOK, QueueFits
<1>5. JobsKept
  BY <1>1
  DEF JobsKept, Waits, Listed, PrunedAway, TerminalJobStatuses, JobsInv, JobsTypeOK, JobFits
<1>. QED BY <1>1, <1>2, <1>3, <1>4, <1>5 DEF JobsInv, QueueFits

(* A future that is cancelled was pending.                                 *)
LEMMA CancelFuturesInv ==
  ASSUME JobsInv, NEW some, CancelFutures(some), UNCHANGED <<handler, thread, result>>
  PROVE  /\ futures' \in [Job -> {"none", "pending", "working", "cancelled", "done"}]
         /\ \A j \in Job : \/ futures'[j] = futures[j]
                           \/ futures[j] = "pending" /\ futures'[j] = "cancelled"
  BY DEF JobsInv, JobsTypeOK, CancelFutures

LEMMA CancelJobsInv ==
  ASSUME JobsInv, NEW i \in Issue, CancelJobs(i) PROVE JobsInv' /\ JobsMove /\ JobsKept
<1>1. /\ futures' \in [Job -> {"none", "pending", "working", "cancelled", "done"}]
      /\ \A j \in Job : \/ futures'[j] = futures[j]
                        \/ futures[j] = "pending" /\ futures'[j] = "cancelled"
      /\ UNCHANGED <<recorded, queue, accepting, handler, thread, result>>
  BY CancelFuturesInv DEF CancelJobs
<1>2. /\ jobs' \in [Job -> JobStatus]
      /\ \A j \in Job : \/ jobs'[j] = jobs[j]
                        \/ jobs[j] = "queued" /\ jobs'[j] = "cancelled"
                        \/ jobs[j] \in {"running", "cancelling"} /\ jobs'[j] = "cancelling"
  BY DEF CancelJobs, JobsInv, JobsTypeOK, ActiveJobStatuses, TerminalJobStatuses, JobStatus
<1>3. JobsTypeOK'
  BY <1>1, <1>2 DEF JobsInv, JobsTypeOK, JobStatus
<1>4. ASSUME NEW j \in Job PROVE JobFits(j)'
  BY <1>1, <1>2 DEF JobsInv, JobFits, TerminalJobStatuses
<1>5. QueueFits'
  BY <1>1 DEF JobsInv, JobsTypeOK, QueueFits
<1>6. JobsMove
  BY <1>2, Edges DEF JobsMove
<1>7. JobsKept
  BY <1>1, <1>2
  DEF JobsKept, Waits, Listed, PrunedAway, TerminalJobStatuses, JobsInv, JobsTypeOK, JobFits
<1>. QED BY <1>3, <1>4, <1>5, <1>6, <1>7 DEF JobsInv

LEMMA ForgetJobsInv ==
  ASSUME JobsInv, NEW i \in Issue, ForgetJobs(i)
  PROVE  /\ JobsInv' /\ JobsMove
         /\ \A j \in Job : jobs'[j] = jobs[j] \/ j \in JobsOf(i)
<1>1. /\ jobs' \in [Job -> JobStatus] /\ recorded' \in [Job -> BOOLEAN]
      /\ \A j \in Job : \/ jobs'[j] = jobs[j]
                        \/ /\ jobs[j] \in TerminalJobStatuses /\ jobs'[j] = "forgotten"
                           /\ j \in JobsOf(i)
      /\ UNCHANGED <<futures, queue, accepting, handler, thread, result>>
  BY DEF ForgetJobs, Forgotten, JobsInv, JobsTypeOK, JobStatus
<1>2. JobsTypeOK'
  BY <1>1 DEF JobsInv, JobsTypeOK, JobStatus
<1>3. ASSUME NEW j \in Job PROVE JobFits(j)'
  BY <1>1 DEF JobsInv, JobFits, TerminalJobStatuses
<1>4. JobsMove
  BY <1>1, Edges DEF JobsMove
<1>. QED BY <1>1, <1>2, <1>3, <1>4 DEF JobsInv, QueueFits

LEMMA ShutDownInv ==
  ASSUME JobsInv, ShutDown PROVE JobsInv' /\ UNCHANGED jobs /\ JobsKept
<1>1. /\ futures' \in [Job -> {"none", "pending", "working", "cancelled", "done"}]
      /\ \A j \in Job : \/ futures'[j] = futures[j]
                        \/ futures[j] = "pending" /\ futures'[j] = "cancelled"
      /\ UNCHANGED <<jobs, recorded, handler, thread, result>>
      /\ accepting' = FALSE /\ queue' = <<>>
  BY CancelFuturesInv DEF ShutDown
<1>2. JobsTypeOK'
  BY <1>1, EmptySeq DEF JobsInv, JobsTypeOK
<1>3. ASSUME NEW j \in Job PROVE JobFits(j)'
  BY <1>1 DEF JobsInv, JobFits
<1>4. QueueFits'
  BY <1>1 DEF QueueFits
<1>5. JobsKept
  BY <1>1
  DEF JobsKept, Waits, Listed, PrunedAway, TerminalJobStatuses, JobsInv, JobsTypeOK, JobFits
<1>. QED BY <1>1, <1>2, <1>3, <1>4, <1>5 DEF JobsInv

(* run() has returned to _execute.                                         *)
LEMMA ReturnsInv ==
  ASSUME JobsInv, NEW j \in Job, thread[j] = "running",
         NEW res \in {"ok", "stopped", "error"}, Returns(j, res)
  PROVE  JobsInv' /\ UNCHANGED jobs
<1>1. /\ thread' = [thread EXCEPT ![j] = "ran"] /\ result' = [result EXCEPT ![j] = res]
      /\ UNCHANGED <<jobs, futures, recorded, queue, accepting, handler>>
  BY DEF Returns, ThreadAt
<1>2. JobsTypeOK'
  BY <1>1 DEF JobsInv, JobsTypeOK
<1>3. ASSUME NEW k \in Job PROVE JobFits(k)'
  BY <1>1 DEF JobsInv, JobsTypeOK, JobFits
<1>. QED BY <1>1, <1>2, <1>3 DEF JobsInv, QueueFits

-----------------------------------------------------------------------------
(* What the runner knows of the agent's processes from where it is: the    *)
(* leader has exited once it saw that, and it is done with no one left.    *)
RunnerFits(j) ==
  /\ runner[j] \in {"idle", "over", "returned"} => ~GroupLives(j)
  /\ runner[j] \in {"exited", "sweeping"} => leader[j] = "exited"

RunnerInv == RunnerTypeOK /\ \A j \in Job : RunnerFits(j)

(* A runner that is neither idle nor over.                                 *)
AtWork(j) == runner[j] \notin {"idle", "returned", "raised"}

LEMMA RunnerInitInv == ASSUME Init PROVE RunnerInv
  BY BrowserAssumption
  DEF Init, RunnerInit, RunnerInv, RunnerTypeOK, RunnerFits, GroupLives

(* SIGTERM and SIGKILL only make a group smaller.                          *)
Shrinks ==
  /\ leader' \in [Job -> {"none", "alive", "exited"}] /\ others' \in [Job -> BOOLEAN]
  /\ \A k \in Job : leader'[k] = leader[k] \/ leader'[k] = "exited"
  /\ \A k \in Job : others'[k] => others[k]

LEMMA Terminated ==
  ASSUME RunnerTypeOK, NEW j \in Job, Terminate(j) PROVE Shrinks
<1>1. PICK l \in {leader[j], "exited"} : leader' = [leader EXCEPT ![j] = l]
  BY DEF Terminate
<1>2. PICK o \in {others[j], FALSE} : others' = [others EXCEPT ![j] = o]
  BY DEF Terminate
<1>3. others' \in [Job -> BOOLEAN] /\ \A k \in Job : others'[k] => others[k]
  BY <1>2, BrowserAssumption DEF RunnerTypeOK
<1>4. /\ leader' \in [Job -> {"none", "alive", "exited"}]
      /\ \A k \in Job : leader'[k] = leader[k] \/ leader'[k] = "exited"
  BY <1>1, BrowserAssumption DEF RunnerTypeOK
<1>. QED BY <1>3, <1>4 DEF Shrinks

LEMMA Killed ==
  ASSUME RunnerTypeOK, NEW j \in Job, Kill(j)
  PROVE  Shrinks /\ leader'[j] = "exited" /\ ~others'[j]
  BY BrowserAssumption DEF Kill, RunnerTypeOK, Shrinks

(* A group that shrinks while its runner goes on: the runner may only have *)
(* gone where RunnerFits already holds of it.                              *)
LEMMA ShrinkInv ==
  ASSUME RunnerInv, Shrinks, NEW j \in Job, NEW there,
         there \in {"overtime", "sweeping", "over", runner[j]},
         runner' = [runner EXCEPT ![j] = there],
         there = "sweeping" => leader[j] = "exited",
         there = "over" => ~others'[j] /\ leader'[j] # "alive",
         registered' \in [Job -> BOOLEAN],
         canceller' \in [Job -> {"off", "polling", "asked", "signalling", "grace"}]
  PROVE  RunnerInv'
<1>1. RunnerTypeOK'
  BY BrowserAssumption DEF RunnerInv, RunnerTypeOK, Shrinks
<1>2. ASSUME NEW k \in Job PROVE RunnerFits(k)'
  <2>1. /\ leader'[k] = leader[k] \/ leader'[k] = "exited"
        /\ others'[k] => others[k]
        /\ runner'[k] = IF k = j THEN there ELSE runner[k]
        /\ RunnerFits(k)
    BY BrowserAssumption DEF RunnerInv, RunnerTypeOK, Shrinks
  <2>. QED BY <2>1 DEF RunnerFits, GroupLives
<1>. QED BY <1>1, <1>2 DEF RunnerInv

(* The runner's thread, the agent's processes and the canceller.           *)
LEMMA RunnerStepInv ==
  ASSUME RunnerInv, NEW j \in Job,
         \/ Spawn(j) \/ SpawnFails(j) \/ Register(j) \/ SeeExit(j) \/ Deadline(j)
         \/ OvertimeKill(j) \/ Sweep(j) \/ SweepKill(j) \/ Unregister(j)
  PROVE  RunnerInv'
<1>. USE BrowserAssumption
<1>0. /\ RunnerTypeOK /\ registered \in [Job -> BOOLEAN] /\ RunnerFits(j)
      /\ canceller \in [Job -> {"off", "polling", "asked", "signalling", "grace"}]
  BY DEF RunnerInv, RunnerTypeOK
<1>1. CASE Spawn(j)
  BY <1>1 DEF Spawn, RunnerAt, RunnerInv, RunnerTypeOK, RunnerFits, GroupLives
<1>2. CASE SpawnFails(j)
  BY <1>2 DEF SpawnFails, groupVars, RunnerAt, RunnerInv, RunnerTypeOK, RunnerFits, GroupLives
<1>3. CASE Register(j)
  BY <1>3 DEF Register, groupVars, RunnerAt, RunnerInv, RunnerTypeOK, RunnerFits, GroupLives
<1>4. CASE SeeExit(j)
  BY <1>4 DEF SeeExit, groupVars, RunnerAt, RunnerInv, RunnerTypeOK, RunnerFits, GroupLives
<1>5. CASE Deadline(j)
  <2>1. Shrinks
    BY <1>0, <1>5, Terminated DEF Deadline
  <2>. QED BY <1>0, <1>5, <2>1, ShrinkInv DEF Deadline, RunnerAt
<1>6. CASE OvertimeKill(j)
  <2>1. Shrinks /\ leader'[j] = "exited" /\ ~others'[j]
    BY <1>0, <1>6, Killed DEF OvertimeKill
  <2>. QED BY <1>0, <1>6, <2>1, ShrinkInv DEF OvertimeKill, RunnerAt
<1>7. CASE Sweep(j)
  <2>1. Shrinks /\ leader[j] = "exited"
    BY <1>0, <1>7, Terminated DEF Sweep, RunnerFits
  <2>2. leader'[j] = "exited" /\ (others'[j] => others[j])
    BY <2>1 DEF Shrinks
  <2>3. CASE others[j]
    BY <1>0, <1>7, <2>1, <2>3, ShrinkInv DEF Sweep, RunnerAt
  <2>4. CASE ~others[j]
    BY <1>0, <1>7, <2>1, <2>2, <2>4, ShrinkInv DEF Sweep, RunnerAt
  <2>. QED BY <2>3, <2>4
<1>8. CASE SweepKill(j)
  <2>1. Shrinks /\ leader'[j] = "exited" /\ ~others'[j]
    BY <1>0, <1>8, Killed DEF SweepKill
  <2>. QED BY <1>0, <1>8, <2>1, ShrinkInv DEF SweepKill, RunnerAt
<1>9. CASE Unregister(j)
  BY <1>9 DEF Unregister, groupVars, RunnerAt, RunnerInv, RunnerTypeOK, RunnerFits, GroupLives
<1>. QED BY <1>1, <1>2, <1>3, <1>4, <1>5, <1>6, <1>7, <1>8, <1>9

LEMMA AgentStepInv ==
  ASSUME RunnerInv, NEW j \in Job,
         StartOther(j) \/ LeaderExits(j) \/ OthersExit(j) \/ LogWriteFails(j)
  PROVE  RunnerInv'
  BY BrowserAssumption
  DEF StartOther, LeaderExits, OthersExit, LogWriteFails, groupVars, RunnerAt, RunnerInv,
      RunnerTypeOK, RunnerFits, GroupLives

LEMMA CancellerStepInv ==
  ASSUME RunnerInv, NEW j \in Job,
         SeeStop(j) \/ CancelRun(j) \/ CancelTerminate(j) \/ CancelKill(j)
  PROVE  RunnerInv' /\ UNCHANGED runner
<1>. USE BrowserAssumption
<1>0. /\ RunnerTypeOK /\ registered \in [Job -> BOOLEAN]
      /\ runner = [runner EXCEPT ![j] = runner[j]]
      /\ canceller \in [Job -> {"off", "polling", "asked", "signalling", "grace"}]
      /\ runner[j] = "over" => ~others[j] /\ leader[j] # "alive"
      /\ runner[j] = "sweeping" => leader[j] = "exited"
  BY DEF RunnerInv, RunnerTypeOK, RunnerFits, GroupLives
<1>1. CASE SeeStop(j)
  BY <1>1 DEF SeeStop, groupVars, CancellerAt, RunnerInv, RunnerTypeOK, RunnerFits, GroupLives
<1>2. CASE CancelRun(j)
  BY <1>2 DEF CancelRun, groupVars, CancellerAt, RunnerInv, RunnerTypeOK, RunnerFits, GroupLives
<1>3. CASE CancelTerminate(j)
  <2>1. Shrinks
    BY <1>0, <1>3, Terminated DEF CancelTerminate, groupVars, RunnerTypeOK, Shrinks
  <2>2. canceller' \in [Job -> {"off", "polling", "asked", "signalling", "grace"}]
    BY <1>0, <1>3 DEF CancelTerminate, CancellerAt
  <2>3. runner[j] = "over" => ~others'[j] /\ leader'[j] # "alive"
    BY <1>0, <2>1 DEF Shrinks
  <2>. QED BY <1>0, <1>3, <2>1, <2>2, <2>3, ShrinkInv DEF CancelTerminate
<1>4. CASE CancelKill(j)
  <2>1. Shrinks /\ canceller' \in [Job -> {"off", "polling", "asked", "signalling", "grace"}]
    BY <1>0, <1>4, Killed DEF CancelKill, CancellerAt
  <2>3. runner[j] = "over" => ~others'[j] /\ leader'[j] # "alive"
    BY <1>0, <2>1 DEF Shrinks
  <2>. QED BY <1>0, <1>4, <2>1, <2>3, ShrinkInv DEF CancelKill
<1>. QED BY <1>1, <1>2, <1>3, <1>4

(* The orchestrator starts and ends the canceller.                         *)
LEMMA CancellerSetInv ==
  ASSUME RunnerInv, NEW j \in Job, NEW c \in {"off", "polling", canceller[j]},
         CancellerAt(j, c), UNCHANGED <<groupVars, runner, registered>>
  PROVE  RunnerInv'
  BY BrowserAssumption
  DEF CancellerAt, groupVars, RunnerInv, RunnerTypeOK, RunnerFits, GroupLives

-----------------------------------------------------------------------------
BrowserTypeOK ==
  /\ phase \in [Issue -> {"ready", "running", "waiting", "blocked", "gone"}]
  /\ current \in [Issue -> Job \cup {NoRun}]
  /\ stopped \in [Job -> BOOLEAN]
  /\ run \in [Job -> {NotRunning} \cup [at : {"started", "agent"}, issue : Issue]]
  /\ stopping \in [Issue -> BOOLEAN]
  /\ removing \in [Issue -> {"idle", "checked", "deleted"}]

(* process_issue is on the stack of the thread that runs the action, and   *)
(* the runner is on that of process_issue.                                 *)
RunFits(j) ==
  /\ run[j] # NotRunning => thread[j] = "running"
  /\ AtWork(j) => run[j].at = "agent"

(* An issue that is gone stays gone, with nobody to run it, and only then  *)
(* are its actions forgotten before their threads have looked.             *)
RemovalFits(i) ==
  /\ removing[i] = "checked" => phase[i] # "gone"
  /\ removing[i] = "deleted" => phase[i] = "gone"
  /\ phase[i] = "gone" => current[i] = NoRun

CallsFind(j) ==
  Waits(j) => Listed(j) \/ (j \in IssueJob /\ phase[IssueOf[j]] = "gone")

RunsInv ==
  /\ BrowserTypeOK
  /\ \A j \in Job : RunFits(j) /\ CallsFind(j)
  /\ \A i \in Issue : RemovalFits(i)

Inv == JobsInv /\ RunnerInv /\ RunsInv

LEMMA InitInv == ASSUME Init PROVE Inv
<1>1. RunsInv
  BY BrowserAssumption DEF Init, JobsInit, RunnerInit, RunsInv, BrowserTypeOK, RunFits, AtWork,
     RemovalFits, CallsFind, Waits
<1>. QED BY <1>1, JobsInitInv, RunnerInitInv DEF Inv

LEMMA ListSame == ASSUME JobsInv, UNCHANGED jobVars PROVE JobsInv'
<1>1. JobsTypeOK' /\ QueueFits'
  BY DEF jobVars, JobsInv, JobsTypeOK, QueueFits
<1>2. \A j \in Job : JobFits(j)'
  BY DEF jobVars, JobsInv, JobFits
<1>. QED BY <1>1, <1>2 DEF JobsInv

LEMMA RunnerSame == ASSUME RunnerInv, UNCHANGED runnerVars PROVE RunnerInv'
  BY DEF runnerVars, groupVars, RunnerInv, RunnerTypeOK, RunnerFits, GroupLives

(* What a step has to keep, by the variables it leaves alone.              *)
LEMMA ListOnly ==
  ASSUME Inv, JobsInv', JobsKept, UNCHANGED <<runnerVars, browserVars>>
  PROVE  Inv'
<1>1. RunnerInv'
  BY RunnerSame DEF Inv
<1>. USE DEF runnerVars, groupVars, browserVars, issueVars, webVars
<1>2. BrowserTypeOK' /\ \A i \in Issue : RemovalFits(i)'
  BY DEF Inv, RunsInv, BrowserTypeOK, RemovalFits
<1>3. \A j \in Job : RunFits(j)'
  BY DEF Inv, RunsInv, RunFits, AtWork, JobsKept
<1>4. ASSUME NEW j \in Job PROVE CallsFind(j)'
  <2>1. CallsFind(j) /\ (Waits(j)' => Listed(j)' \/ (Waits(j) /\ ~Listed(j)))
    BY DEF Inv, RunsInv, JobsKept
  <2>. QED BY <2>1 DEF CallsFind
<1>. QED BY <1>1, <1>2, <1>3, <1>4 DEF Inv, RunsInv

LEMMA RunnerOnly ==
  ASSUME Inv, RunnerInv', UNCHANGED <<jobVars, browserVars>>,
         \A j \in Job : AtWork(j)' => AtWork(j) \/ run[j].at = "agent"
  PROVE  Inv'
<1>1. JobsInv'
  BY ListSame DEF Inv
<1>. USE DEF jobVars, browserVars, issueVars, webVars
<1>2. BrowserTypeOK' /\ \A i \in Issue : RemovalFits(i)'
  BY DEF Inv, RunsInv, BrowserTypeOK, RemovalFits
<1>3. ASSUME NEW j \in Job PROVE RunFits(j)' /\ CallsFind(j)'
  <2>1. RunFits(j) /\ CallsFind(j)
    BY DEF Inv, RunsInv
  <2>. QED BY <2>1 DEF RunFits, CallsFind, Waits, Listed
<1>. QED BY <1>1, <1>2, <1>3 DEF Inv, RunsInv

LEMMA IssuesOnly ==
  ASSUME Inv, UNCHANGED <<jobVars, runnerVars, run>>, BrowserTypeOK',
         \A i \in Issue : RemovalFits(i)' /\ (phase[i] = "gone" => phase'[i] = "gone")
  PROVE  Inv'
<1>1. JobsInv' /\ RunnerInv'
  BY ListSame, RunnerSame DEF Inv
<1>. USE DEF jobVars, runnerVars, groupVars
<1>2. ASSUME NEW j \in Job PROVE RunFits(j)' /\ CallsFind(j)'
  <2>1. RunFits(j) /\ CallsFind(j) /\ (j \in IssueJob => IssueOf[j] \in Issue)
    BY JobAssumption DEF Inv, RunsInv
  <2>. QED BY <2>1 DEF RunFits, AtWork, CallsFind, Waits, Listed
<1>. QED BY <1>1, <1>2 DEF Inv, RunsInv

-----------------------------------------------------------------------------
(* The steps that only the list and the pool take part in.                 *)
LEMMA ListSteps ==
  ASSUME Inv, NEW j \in Job, RequestRun(j) \/ HandlerStep(j) \/ JobStep(j)
  PROVE  Inv' /\ JobsMove
<1>0. JobsInv
  BY DEF Inv
<1>1. /\ UNCHANGED <<runnerVars, browserVars>>
      /\ \/ InsertJob(j) \/ HandOver(j) \/ RecordFuture(j) \/ TakeJob(j) \/ MarkRunning(j)
         \/ DecideStatus(j) \/ UpdateJob(j) \/ FinishFuture(j)
  BY DEF RequestRun, HandlerStep, JobStep
<1>2. JobsInv' /\ (JobsMove \/ UNCHANGED jobs) /\ JobsKept
  BY <1>0, <1>1, InsertJobInv, HandOverInv, RecordFutureInv, TakeJobInv, MarkRunningInv,
     DecideStatusInv, UpdateJobInv, FinishFutureInv
<1>. QED BY <1>1, <1>2, ListOnly DEF JobsMove

LEMMA ServerCloses == ASSUME Inv, CloseWeb PROVE Inv' /\ JobsMove
  BY ShutDownInv, ListOnly DEF CloseWeb, Inv, JobsMove

(* The steps of the runner, of the agent and of the canceller.             *)
LEMMA AgentSteps ==
  ASSUME Inv, NEW j \in Job,
         RunnerStep(j) \/ CancellerStep(j) \/ TimeOut(j) \/ AgentStep(j)
  PROVE  Inv' /\ JobsMove
<1>0. RunnerInv
  BY DEF Inv
<1>1. /\ UNCHANGED <<jobVars, browserVars>>
      /\ \/ run[j].at = "agent" /\ (Spawn(j) \/ SpawnFails(j))
         \/ Register(j) \/ SeeExit(j) \/ Deadline(j) \/ OvertimeKill(j) \/ Sweep(j)
         \/ SweepKill(j) \/ Unregister(j)
         \/ StartOther(j) \/ LeaderExits(j) \/ OthersExit(j) \/ LogWriteFails(j)
         \/ SeeStop(j) \/ CancelRun(j) \/ CancelTerminate(j) \/ CancelKill(j)
  BY DEF RunnerStep, BeginSpawn, CancellerStep, SeeForcedStop, TimeOut, AgentStep
<1>2. RunnerInv'
  BY <1>0, <1>1, RunnerStepInv, AgentStepInv, CancellerStepInv
<1>3. ASSUME NEW k \in Job PROVE AtWork(k)' => AtWork(k) \/ run[k].at = "agent"
  <2>1. runner'[k] = runner[k] \/ k = j
    BY <1>0, <1>1, BrowserAssumption
    DEF RunnerInv, RunnerTypeOK, RunnerAt, Spawn, SpawnFails, Register, SeeExit, Deadline,
        OvertimeKill, Sweep, SweepKill, Unregister, StartOther, LeaderExits, OthersExit,
        LogWriteFails, SeeStop, CancelRun, CancelTerminate, CancelKill
  <2>2. AtWork(j) \/ run[j].at = "agent" \/ runner'[j] = runner[j] \/ ~AtWork(j)'
    BY <1>0, <1>1, BrowserAssumption
    DEF AtWork, RunnerInv, RunnerTypeOK, RunnerAt, Register, SeeExit, Deadline, OvertimeKill,
        Sweep, SweepKill, Unregister, StartOther, LeaderExits, OthersExit, LogWriteFails,
        SeeStop, CancelRun, CancelTerminate, CancelKill
  <2>. QED BY <2>1, <2>2 DEF AtWork
<1>4. UNCHANGED jobs
  BY <1>1 DEF jobVars
<1>. QED BY <1>1, <1>2, <1>3, <1>4, RunnerOnly DEF JobsMove

(* The steps that only the issue takes part in.                            *)
LEMMA StopIssueInv ==
  ASSUME Inv, NEW i \in Issue, NEW fromWeb \in BOOLEAN, StopIssue(i, fromWeb)
  PROVE  Inv' /\ JobsMove
<1>1. /\ phase[i] # "gone" /\ phase' = [phase EXCEPT ![i] = "blocked"]
      /\ current' = [current EXCEPT ![i] = NoRun] /\ stopping' = [stopping EXCEPT ![i] = fromWeb]
      /\ stopped' = [j \in Job |-> stopped[j] \/ current[i] = j]
      /\ UNCHANGED <<jobVars, runnerVars, run, removing>>
  BY DEF StopIssue, Move
<1>2. stopped' \in [Job -> BOOLEAN]
  BY <1>1, Zenon DEF Inv, RunsInv, BrowserTypeOK
<1>3. BrowserTypeOK'
  BY <1>1, <1>2 DEF Inv, RunsInv, BrowserTypeOK
<1>4. \A k \in Issue : RemovalFits(k)' /\ (phase[k] = "gone" => phase'[k] = "gone")
  BY <1>1 DEF Inv, RunsInv, BrowserTypeOK, RemovalFits
<1>. QED BY <1>1, <1>3, <1>4, IssuesOnly DEF JobsMove, jobVars

LEMMA MakeReadyInv ==
  ASSUME Inv, NEW i \in Issue, MakeReady(i) \/ CheckRemoval(i) PROVE Inv' /\ JobsMove
<1>1. BrowserTypeOK'
  BY DEF MakeReady, CheckRemoval, Move, issueVars, webVars, Inv, RunsInv, BrowserTypeOK
<1>2. \A k \in Issue : RemovalFits(k)' /\ (phase[k] = "gone" => phase'[k] = "gone")
  BY DEF MakeReady, CheckRemoval, Move, issueVars, webVars, Inv, RunsInv, BrowserTypeOK,
         RemovalFits
<1>. QED BY <1>1, <1>2, IssuesOnly
         DEF MakeReady, CheckRemoval, issueVars, webVars, JobsMove, jobVars

LEMMA RemoveIssueInv == ASSUME Inv, NEW i \in Issue, RemoveIssue(i) PROVE Inv' /\ JobsMove
<1>1. /\ removing[i] = "checked" /\ UNCHANGED <<jobVars, runnerVars, current, run, stopping>>
      /\ \/ /\ current[i] = NoRun /\ stopped' = [j \in Job |-> stopped[j] /\ run[j].issue # i]
            /\ \/ /\ phase' = [phase EXCEPT ![i] = "waiting"]
                  /\ removing' = [removing EXCEPT ![i] = "idle"]
               \/ /\ phase' = [phase EXCEPT ![i] = "gone"]
                  /\ removing' = [removing EXCEPT ![i] = "deleted"]
         \/ removing' = [removing EXCEPT ![i] = "idle"] /\ UNCHANGED <<phase, stopped>>
  BY DEF RemoveIssue, Move, NoActiveLock
<1>2. stopped' \in [Job -> BOOLEAN]
  <2>1. CASE stopped' = [j \in Job |-> stopped[j] /\ run[j].issue # i]
    BY <2>1, Zenon
  <2>2. CASE UNCHANGED stopped
    BY <2>2 DEF Inv, RunsInv, BrowserTypeOK
  <2>. QED BY <1>1, <2>1, <2>2
<1>3. BrowserTypeOK'
  BY <1>1, <1>2 DEF Inv, RunsInv, BrowserTypeOK
<1>4. \A k \in Issue : RemovalFits(k)' /\ (phase[k] = "gone" => phase'[k] = "gone")
  BY <1>1 DEF Inv, RunsInv, BrowserTypeOK, RemovalFits
<1>. QED BY <1>1, <1>3, <1>4, IssuesOnly DEF JobsMove, jobVars

(* The steps of the handlers that change the list too.                     *)
LEMMA CancelStoppedInv == ASSUME Inv, NEW i \in Issue, CancelStopped(i) PROVE Inv' /\ JobsMove
<1>1. JobsInv' /\ JobsMove /\ JobsKept
  BY CancelJobsInv DEF CancelStopped, Inv
<1>2. /\ stopping' = [stopping EXCEPT ![i] = FALSE]
      /\ UNCHANGED <<runnerVars, phase, current, stopped, run, removing>>
  BY DEF CancelStopped, issueVars
<1>3. RunnerInv'
  BY <1>2, RunnerSame DEF Inv
<1>4. BrowserTypeOK' /\ \A k \in Issue : RemovalFits(k)'
  BY <1>2 DEF Inv, RunsInv, BrowserTypeOK, RemovalFits
<1>5. ASSUME NEW j \in Job PROVE RunFits(j)' /\ CallsFind(j)'
  <2>1. RunFits(j) /\ CallsFind(j) /\ (Waits(j)' => Listed(j)' \/ (Waits(j) /\ ~Listed(j)))
        /\ (thread[j] = "running" => thread'[j] = "running")
    BY <1>1 DEF Inv, RunsInv, JobsKept
  <2>. QED BY <1>2, <2>1 DEF RunFits, AtWork, CallsFind, runnerVars
<1>. QED BY <1>1, <1>3, <1>4, <1>5 DEF Inv, RunsInv

LEMMA ForgetRemovedInv == ASSUME Inv, NEW i \in Issue, ForgetRemoved(i) PROVE Inv' /\ JobsMove
<1>1. JobsInv' /\ JobsMove /\ \A j \in Job : jobs'[j] = jobs[j] \/ j \in JobsOf(i)
  BY ForgetJobsInv DEF ForgetRemoved, Inv
<1>2. /\ removing[i] = "deleted" /\ removing' = [removing EXCEPT ![i] = "idle"]
      /\ phase[i] = "gone"
      /\ UNCHANGED <<runnerVars, phase, current, stopped, run, stopping>>
      /\ UNCHANGED <<futures, handler, thread>>
  BY DEF ForgetRemoved, ForgetJobs, issueVars, Inv, RunsInv, RemovalFits
<1>3. RunnerInv'
  BY <1>2, RunnerSame DEF Inv
<1>4. BrowserTypeOK' /\ \A k \in Issue : RemovalFits(k)'
  BY <1>2 DEF Inv, RunsInv, BrowserTypeOK, RemovalFits
<1>5. ASSUME NEW j \in Job PROVE RunFits(j)' /\ CallsFind(j)'
  <2>1. /\ RunFits(j) /\ CallsFind(j)
        /\ jobs'[j] = jobs[j] \/ (j \in IssueJob /\ IssueOf[j] = i)
    BY <1>1 DEF Inv, RunsInv, JobsOf
  <2>. QED BY <1>2, <2>1 DEF RunFits, AtWork, CallsFind, Waits, Listed, runnerVars
<1>. QED BY <1>1, <1>3, <1>4, <1>5 DEF Inv, RunsInv

-----------------------------------------------------------------------------
(* The steps of process_issue.                                             *)
LEMMA StartRunInv == ASSUME Inv, NEW j \in Job, StartRun(j) PROVE Inv' /\ JobsMove
<1>1. PICK i \in Issue :
        /\ phase[i] = "ready" /\ phase' = [phase EXCEPT ![i] = "running"]
        /\ current' = [current EXCEPT ![i] = j]
        /\ run' = [run EXCEPT ![j] = [at |-> "started", issue |-> i]]
        /\ run[j] = NotRunning /\ thread[j] = "running"
  BY DEF StartRun, Move
<1>2. /\ CancellerAt(j, "polling") /\ UNCHANGED <<groupVars, runner, registered>>
      /\ UNCHANGED <<jobVars, stopped, stopping, removing>>
  BY DEF StartRun, webVars
<1>3. RunnerInv'
  BY <1>2, CancellerSetInv DEF Inv
<1>4. JobsInv' /\ UNCHANGED jobs
  BY <1>2, ListSame DEF Inv, jobVars
<1>5. BrowserTypeOK'
  BY <1>1, <1>2 DEF Inv, RunsInv, BrowserTypeOK
<1>6. \A k \in Issue : RemovalFits(k)' /\ (phase[k] = "gone" => phase'[k] = "gone")
  BY <1>1, <1>2 DEF Inv, RunsInv, BrowserTypeOK, RemovalFits
<1>7. ASSUME NEW k \in Job PROVE RunFits(k)' /\ CallsFind(k)'
  <2>1. RunFits(k) /\ CallsFind(k) /\ (k \in IssueJob => IssueOf[k] \in Issue)
    BY JobAssumption DEF Inv, RunsInv
  <2>2. run'[k] = run[k] \/ (k = j /\ thread[k] = "running" /\ run[k] = NotRunning)
    BY <1>1 DEF Inv, RunsInv, BrowserTypeOK
  <2>3. NotRunning.at # "agent"
    BY DEF NotRunning
  <2>4. RunFits(k)'
    BY <1>2, <2>1, <2>2, <2>3 DEF RunFits, AtWork, jobVars
  <2>5. CallsFind(k)'
    BY <1>2, <1>6, <2>1 DEF CallsFind, Waits, Listed, jobVars
  <2>. QED BY <2>4, <2>5
<1>. QED BY <1>3, <1>4, <1>5, <1>6, <1>7 DEF Inv, RunsInv, JobsMove

LEMMA RunAgentInv == ASSUME Inv, NEW j \in Job, RunAgent(j) PROVE Inv' /\ JobsMove
<1>1. /\ run[j].at = "started" /\ run' = [run EXCEPT ![j].at = "agent"]
      /\ UNCHANGED <<jobVars, runnerVars, issueVars, webVars>>
  BY DEF RunAgent
<1>2. run[j] \in [at : {"started", "agent"}, issue : Issue] /\ run[j] # NotRunning
  BY <1>1 DEF Inv, RunsInv, BrowserTypeOK, NotRunning
<1>3. run' \in [Job -> {NotRunning} \cup [at : {"started", "agent"}, issue : Issue]]
  BY <1>1, <1>2 DEF Inv, RunsInv, BrowserTypeOK
<1>4. JobsInv' /\ RunnerInv' /\ UNCHANGED jobs
  BY <1>1, ListSame, RunnerSame DEF Inv, jobVars
<1>5. BrowserTypeOK' /\ \A i \in Issue : RemovalFits(i)'
  BY <1>1, <1>3 DEF issueVars, webVars, Inv, RunsInv, BrowserTypeOK, RemovalFits
<1>6. ASSUME NEW k \in Job PROVE RunFits(k)' /\ CallsFind(k)'
  <2>1. RunFits(k) /\ CallsFind(k)
    BY DEF Inv, RunsInv
  <2>2. run'[k] = run[k] \/ (k = j /\ run'[k].at = "agent" /\ run[k] # NotRunning)
    BY <1>1, <1>2 DEF Inv, RunsInv, BrowserTypeOK
  <2>. QED BY <1>1, <2>1, <2>2
           DEF RunFits, AtWork, CallsFind, Waits, Listed, jobVars, runnerVars, issueVars
<1>. QED BY <1>4, <1>5, <1>6 DEF Inv, RunsInv, JobsMove

(* process_issue is left, and the runner with it.                          *)
LEMMA LeaveInv ==
  ASSUME Inv, NEW j \in Job, thread[j] = "running", ~AtWork(j),
         NEW res \in {"ok", "stopped", "error"}, Returns(j, res),
         RunnerInv', UNCHANGED <<runner, stopping, removing>>,
         phase' \in [Issue -> {"ready", "running", "waiting", "blocked", "gone"}],
         current' \in [Issue -> Job \cup {NoRun}], stopped' \in [Job -> BOOLEAN],
         \A i \in Issue : RemovalFits(i)' /\ (phase[i] = "gone" => phase'[i] = "gone")
  PROVE  Inv' /\ JobsMove
<1>1. JobsInv' /\ UNCHANGED jobs
  BY ReturnsInv DEF Inv
<1>2. /\ run' = [run EXCEPT ![j] = NotRunning] /\ thread' = [thread EXCEPT ![j] = "ran"]
      /\ UNCHANGED <<jobs, futures, handler>>
  BY DEF Returns, ThreadAt
<1>3. BrowserTypeOK'
  BY <1>2 DEF Inv, RunsInv, BrowserTypeOK
<1>4. ASSUME NEW k \in Job PROVE RunFits(k)' /\ CallsFind(k)'
  <2>1. RunFits(k) /\ CallsFind(k) /\ (k \in IssueJob => IssueOf[k] \in Issue)
    BY JobAssumption DEF Inv, RunsInv
  <2>2. /\ run'[k] = IF k = j THEN NotRunning ELSE run[k]
        /\ thread'[k] = IF k = j THEN "ran" ELSE thread[k]
    BY <1>2 DEF Inv, JobsInv, JobsTypeOK, RunsInv, BrowserTypeOK
  <2>3. RunFits(k)'
    BY <2>1, <2>2 DEF RunFits, AtWork
  <2>4. CallsFind(k)'
    BY <1>2, <2>1, <2>2 DEF CallsFind, Waits, Listed
  <2>. QED BY <2>3, <2>4
<1>. QED BY <1>1, <1>3, <1>4 DEF Inv, RunsInv, JobsMove

LEMMA RefuseRunInv == ASSUME Inv, NEW j \in Job, RefuseRun(j) PROVE Inv' /\ JobsMove
<1>1. thread[j] = "running" /\ ~AtWork(j)
  BY DEF RefuseRun, Inv, RunsInv, RunFits, NotRunning
<1>2. \E res \in {"ok", "stopped", "error"} : Returns(j, res)
  BY DEF RefuseRun
<1>3. UNCHANGED <<runnerVars, issueVars, webVars>>
  BY DEF RefuseRun
<1>4. RunnerInv'
  BY <1>3, RunnerSame DEF Inv
<1>. QED
  BY <1>1, <1>2, <1>3, <1>4, LeaveInv
  DEF runnerVars, issueVars, webVars, Inv, RunsInv, BrowserTypeOK, RemovalFits

LEMMA StopBeforeAgentInv ==
  ASSUME Inv, NEW j \in Job, StopBeforeAgent(j) PROVE Inv' /\ JobsMove
<1>1. thread[j] = "running" /\ ~AtWork(j)
  BY DEF StopBeforeAgent, Inv, RunsInv, RunFits, NotRunning
<1>2. Returns(j, "stopped")
  BY DEF StopBeforeAgent
<1>3. RunnerInv' /\ UNCHANGED runner
  BY CancellerSetInv DEF StopBeforeAgent, LeaveCanceller, Inv
<1>4. stopped' = [stopped EXCEPT ![j] = FALSE] /\ UNCHANGED <<phase, current, webVars>>
  BY DEF StopBeforeAgent
<1>. QED
  BY <1>1, <1>2, <1>3, <1>4, LeaveInv DEF webVars, Inv, RunsInv, BrowserTypeOK, RemovalFits

LEMMA FinishRunInv == ASSUME Inv, NEW j \in Job, FinishRun(j) PROVE Inv' /\ JobsMove
<1>0. BrowserTypeOK /\ \A i \in Issue : RemovalFits(i)
  BY DEF Inv, RunsInv
<1>1. run[j] # NotRunning /\ run[j].issue \in Issue /\ thread[j] = "running" /\ ~AtWork(j)
  BY DEF FinishRun, NotRunning, Inv, RunsInv, BrowserTypeOK, RunFits, AtWork
<1>2. RunnerInv' /\ UNCHANGED runner
  BY CancellerSetInv DEF FinishRun, LeaveCanceller, Inv
<1>3. stopped' = [stopped EXCEPT ![j] = FALSE] /\ UNCHANGED webVars
  BY DEF FinishRun
<1>4. PICK res \in {"ok", "stopped", "error"} :
        /\ Returns(j, res)
        /\ \/ UNCHANGED <<phase, current>>
           \/ /\ current[run[j].issue] = j /\ current' = [current EXCEPT ![run[j].issue] = NoRun]
              /\ \/ UNCHANGED phase
                 \/ \E to \in {"ready", "waiting", "blocked"} :
                      phase' = [phase EXCEPT ![run[j].issue] = to]
  BY DEF FinishRun, Move
<1>5. /\ phase' \in [Issue -> {"ready", "running", "waiting", "blocked", "gone"}]
      /\ current' \in [Issue -> Job \cup {NoRun}] /\ stopped' \in [Job -> BOOLEAN]
  BY <1>0, <1>1, <1>3, <1>4 DEF BrowserTypeOK
<1>6. ASSUME NEW i \in Issue PROVE RemovalFits(i)' /\ (phase[i] = "gone" => phase'[i] = "gone")
  <2>1. RemovalFits(i) /\ (current[i] = j => phase[i] # "gone")
    BY <1>0, BrowserAssumption DEF RemovalFits
  <2>. QED BY <1>0, <1>1, <1>3, <1>4, <2>1 DEF BrowserTypeOK, RemovalFits, webVars
<1>. QED BY <1>1, <1>2, <1>3, <1>4, <1>5, <1>6, LeaveInv DEF webVars

-----------------------------------------------------------------------------
LEMMA NextInv == ASSUME Inv, [Next]_vars PROVE Inv' /\ JobsMove
<1>1. CASE UNCHANGED vars
  <2>1. UNCHANGED <<jobVars, runnerVars, browserVars>>
    BY <1>1 DEF vars
  <2>2. RunnerInv'
    BY <2>1, RunnerSame DEF Inv
  <2>3. \A j \in Job : AtWork(j)' => AtWork(j)
    BY <2>1 DEF AtWork, runnerVars
  <2>. QED BY <2>1, <2>2, <2>3, RunnerOnly DEF JobsMove, jobVars
<1>2. ASSUME NEW j \in Job,
             \/ RequestRun(j) \/ HandlerStep(j) \/ ThreadStep(j) \/ CancellerStep(j)
             \/ TimeOut(j) \/ AgentStep(j)
      PROVE  Inv' /\ JobsMove
  <2>1. CASE RunStep(j)
    BY <2>1, StartRunInv, RefuseRunInv, StopBeforeAgentInv, RunAgentInv, FinishRunInv DEF RunStep
  <2>. QED BY <1>2, <2>1, ListSteps, AgentSteps DEF ThreadStep
<1>3. ASSUME NEW i \in Issue, WebStep(i) \/ WebStepEnds(i) PROVE Inv' /\ JobsMove
  BY <1>3, StopIssueInv, MakeReadyInv, CancelStoppedInv, RemoveIssueInv, ForgetRemovedInv
  DEF WebStep, WebStepEnds
<1>4. CASE CloseWeb
  BY <1>4, ServerCloses
<1>. QED BY <1>1, <1>2, <1>3, <1>4 DEF Next

LEMMA BrowserInvariance == Spec => []Inv
  BY InitInv, NextInv, PTL DEF Spec

(* Every variable keeps to its type, for any actions, issues and pool.     *)
THEOREM BrowserTypeCorrect == Spec => []TypeOK
<1>1. Inv => TypeOK
  BY DEF Inv, JobsInv, RunnerInv, RunsInv, BrowserTypeOK, TypeOK
<1>. QED BY <1>1, BrowserInvariance, PTL

(* No process of an agent is left when its action has ended: the runner    *)
(* sweeps the process group, and process_issue waits for the runner.       *)
THEOREM NoAgentIsHidden == Spec => []AgentsAreListed
<1>1. Inv => AgentsAreListed
  <2>. SUFFICES ASSUME Inv, NEW j \in Job, GroupLives(j)
                PROVE  runner[j] = "raised" \/ jobs[j] \in {"running", "cancelling"}
    BY DEF AgentsAreListed
  <2>1. runner[j] = "raised" \/ AtWork(j)
    BY DEF Inv, RunnerInv, RunnerFits, AtWork
  <2>2. AtWork(j) => thread[j] = "running"
    BY DEF Inv, RunsInv, RunFits, NotRunning
  <2>. QED BY <2>1, <2>2 DEF Inv, JobsInv, JobFits
<1>. QED BY <1>1, BrowserInvariance, PTL

(* _mark_running and _update find the action in the list: what is pruned   *)
(* has a future that is over or will never be called.                      *)
THEOREM NoThreadIsLost == Spec => []ThreadsFindTheirJob
<1>1. Inv => ThreadsFindTheirJob
  BY DEF Inv, JobsInv, JobFits, RunsInv, CallsFind, Waits, ThreadsFindTheirJob
<1>. QED BY <1>1, BrowserInvariance, PTL

(* The list of actions implements JobLifecycle, whatever the pool, the     *)
(* handlers, the runs and the agents do.                                   *)
THEOREM ListFollowsLifecycle == Spec => FollowsLifecycle
<1>1. Init => Lifecycle!Init
  BY DEF Init, JobsInit, Lifecycle!Init
<1>2. Inv /\ Inv' /\ JobsMove => [Lifecycle!Next]_jobs
  <2>1. JobStatus = Lifecycle!JobStates
    BY DEF JobStatus, Lifecycle!JobStates, Lifecycle!JobStatuses, Lifecycle!TerminalJobStatuses,
           Lifecycle!ActiveJobStatuses, TerminalJobStatuses, ActiveJobStatuses
  <2>2. Inv' => jobs' \in [Job -> Lifecycle!JobStates]
    BY <2>1 DEF Inv, JobsInv, JobsTypeOK, JobStatus
  <2>. QED BY <2>2 DEF JobsMove, Lifecycle!Next
<1>3. Spec => []Inv
  BY BrowserInvariance
<1>4. Inv /\ [Next]_vars => [Lifecycle!Next]_jobs
  BY <1>2, NextInv
<1>. QED BY <1>1, <1>3, <1>4, PTL DEF Spec, FollowsLifecycle, Lifecycle!Spec
=============================================================================

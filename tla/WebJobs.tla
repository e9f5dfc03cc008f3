------------------------------- MODULE WebJobs -------------------------------
(***************************************************************************)
(* QueuedActionManager (src/agent_team/web_jobs.py): the browser's run     *)
(* requests, queued on a thread pool.  The handler that submits an action, *)
(* the pool's threads and the handlers that cancel and forget actions      *)
(* interleave; every critical section of its lock is one step here.        *)
(***************************************************************************)
EXTENDS Integers, Sequences, FiniteSets

CONSTANTS
  Job,        \* the actions ever submitted, one element for each
  IssueJob,   \* those submitted for an issue (the others run the next one)
  Issue,
  IssueOf,    \* the issue of each of IssueJob
  MaxWorkers, \* threads of the pool
  MaxHistory  \* how many actions are listed before ended ones are pruned

ASSUME JobAssumption ==
  /\ IssueJob \subseteq Job /\ IssueOf \in [IssueJob -> Issue]
  /\ MaxWorkers \in Nat \ {0} /\ MaxHistory \in Nat \ {0}

VARIABLES
  jobs,     \* _jobs: the status of each action, absent before, forgotten after
  futures,  \* the state of its future in the pool
  recorded, \* _futures has its future
  queue,    \* the pool's queue
  accepting,\* the pool takes work
  handler,  \* how far the handler that submits it is
  thread,   \* how far the pool's thread is in _execute
  result    \* what running the action gave, then the status decided on

jobVars == <<jobs, futures, recorded, queue, accepting, handler, thread, result>>

TerminalJobStatuses == {"succeeded", "failed", "cancelled"}
ActiveJobStatuses   == {"queued", "running", "cancelling"}
Listed(j) == jobs[j] \notin {"absent", "forgotten"}
JobsOf(i) == {j \in IssueJob : IssueOf[j] = i}

JobsTypeOK ==
  /\ jobs \in [Job -> TerminalJobStatuses \cup ActiveJobStatuses
                        \cup {"absent", "forgotten"}]
  /\ futures \in [Job -> {"none", "pending", "working", "cancelled", "done"}]
  /\ recorded \in [Job -> BOOLEAN]
  /\ queue \in Seq(Job)
  /\ accepting \in BOOLEAN
  /\ handler \in [Job -> {"idle", "inserted", "submitted", "over"}]
  /\ thread \in [Job -> {"none", "called", "running", "ran", "decided", "ending", "over"}]
  /\ result \in [Job -> TerminalJobStatuses \cup {"none", "ok", "stopped", "error"}]

JobsInit ==
  /\ jobs = [j \in Job |-> "absent"]
  /\ futures = [j \in Job |-> "none"]
  /\ recorded = [j \in Job |-> FALSE]
  /\ queue = <<>>
  /\ accepting = TRUE
  /\ handler = [j \in Job |-> "idle"]
  /\ thread = [j \in Job |-> "none"]
  /\ result = [j \in Job |-> "none"]

-----------------------------------------------------------------------------
(* Mutant of Prunable: the future may still call _mark_running.            *)
PrunableWhenEnded(all, known) ==
  {j \in Job : all[j] \in TerminalJobStatuses /\ known[j]}

(* _prune_locked: with more actions listed than MaxHistory, ended ones go, *)
(* the oldest first (any of them here), if their future is known and done. *)
Prunable(all, known) ==
  {j \in Job : all[j] \in TerminalJobStatuses /\ known[j]
              /\ futures[j] \in {"done", "cancelled"}}

Overflow(all) == Cardinality({j \in Job : all[j] \notin {"absent", "forgotten"}}) - MaxHistory

(* The actions are all but for what pruning takes away.                    *)
SetJobs(all, known) ==
  \E gone \in SUBSET Prunable(all, known) :
    /\ LET over == Overflow(all)
           n    == Cardinality(Prunable(all, known))
       IN  Cardinality(gone) = IF over <= 0 THEN 0 ELSE IF over < n THEN over ELSE n
    /\ jobs' = [j \in Job |-> IF j \in gone THEN "forgotten" ELSE all[j]]
    /\ recorded' = [j \in Job |-> known[j] /\ j \notin gone]

SetStatus(j, status) == SetJobs([jobs EXCEPT ![j] = status], recorded)

Handle(j, where) == handler' = [handler EXCEPT ![j] = where]
ThreadAt(j, where) == thread' = [thread EXCEPT ![j] = where]

-----------------------------------------------------------------------------
(* _submit lists the action ...                                            *)
InsertJob(j) ==
  /\ handler[j] = "idle"
  /\ SetStatus(j, "queued")
  /\ Handle(j, "inserted")
  /\ UNCHANGED <<futures, queue, accepting, thread, result>>

(* ... hands it to the pool, which may start it at once and which raises   *)
(* RuntimeError when it has been shut down ...                             *)
HandOver(j) ==
  /\ handler[j] = "inserted"
  /\ \/ /\ accepting
        /\ futures' = [futures EXCEPT ![j] = "pending"]
        /\ queue' = Append(queue, j)
        /\ Handle(j, "submitted")
     \/ /\ ~accepting
        /\ Handle(j, "over")
        /\ UNCHANGED <<futures, queue>>
  /\ UNCHANGED <<jobs, recorded, accepting, thread, result>>

(* ... and records the future, whatever has become of the action.          *)
RecordFuture(j) ==
  /\ handler[j] = "submitted"
  /\ SetJobs(jobs, [recorded EXCEPT ![j] = TRUE])
  /\ Handle(j, "over")
  /\ UNCHANGED <<futures, queue, accepting, thread, result>>

(* A thread of the pool takes the next future, and drops a cancelled one.  *)
TakeJob(j) ==
  /\ queue # <<>> /\ Head(queue) = j
  /\ Cardinality({k \in Job : futures[k] = "working"}) < MaxWorkers
  /\ queue' = Tail(queue)
  /\ \/ /\ futures[j] = "pending"
        /\ futures' = [futures EXCEPT ![j] = "working"]
        /\ ThreadAt(j, "called")
     \/ futures[j] = "cancelled" /\ UNCHANGED <<futures, thread>>
  /\ UNCHANGED <<jobs, recorded, accepting, handler, result>>

(* Mutant of MarkRunning: the status is not looked at.                     *)
MarkRunningAnyway(j) ==
  /\ thread[j] = "called"
  /\ \/ /\ ~Listed(j)
        /\ ThreadAt(j, "ending")
        /\ UNCHANGED <<jobs, recorded>>
     \/ /\ Listed(j)
        /\ SetStatus(j, "running")
        /\ ThreadAt(j, "running")
  /\ UNCHANGED <<futures, queue, accepting, handler, result>>

(* _mark_running: a cancelled action ends here, and so does one that was   *)
(* forgotten (KeyError).                                                   *)
MarkRunning(j) ==
  /\ thread[j] = "called"
  /\ \/ /\ ~Listed(j)
        /\ ThreadAt(j, "ending")
        /\ UNCHANGED <<jobs, recorded>>
     \/ /\ jobs[j] = "cancelled"
        /\ SetJobs(jobs, recorded)
        /\ ThreadAt(j, "ending")
     \/ /\ Listed(j) /\ jobs[j] # "cancelled"
        /\ SetStatus(j, "running")
        /\ ThreadAt(j, "running")
  /\ UNCHANGED <<futures, queue, accepting, handler, result>>

(* Mutant of DecideStatus: the status is what the run reports.             *)
DecideStatusVerbatim(j) ==
  /\ thread[j] = "ran"
  /\ ThreadAt(j, "decided")
  /\ UNCHANGED <<jobs, futures, recorded, queue, accepting, handler, result>>

(* The action returned or raised; the rest of _execute decides on its      *)
(* status: a stopped run was cancelled, and so was one whose action was    *)
(* asked to cancel before it looks ...                                     *)
DecideStatus(j) ==
  /\ thread[j] = "ran"
  /\ result' = [result EXCEPT ![j] =
       IF result[j] = "stopped" \/ jobs[j] \in {"cancelling", "cancelled"} THEN "cancelled"
       ELSE IF result[j] = "error" THEN "failed" ELSE "succeeded"]
  /\ ThreadAt(j, "decided")
  /\ UNCHANGED <<jobs, futures, recorded, queue, accepting, handler>>

(* ... and writes it (_update, KeyError if it is not listed any more).     *)
UpdateJob(j) ==
  /\ thread[j] = "decided"
  /\ IF Listed(j) THEN SetStatus(j, result[j]) ELSE UNCHANGED <<jobs, recorded>>
  /\ ThreadAt(j, "ending")
  /\ UNCHANGED <<futures, queue, accepting, handler, result>>

(* The pool marks the future done once _execute has returned.              *)
FinishFuture(j) ==
  /\ thread[j] = "ending"
  /\ futures' = [futures EXCEPT ![j] = "done"]
  /\ ThreadAt(j, "over")
  /\ UNCHANGED <<jobs, recorded, queue, accepting, handler, result>>

-----------------------------------------------------------------------------
(* cancel() reaches the futures that no thread has taken.                  *)
CancelFutures(some) ==
  futures' = [j \in Job |-> IF j \in some /\ futures[j] = "pending"
                            THEN "cancelled" ELSE futures[j]]

(* cancel_jobs_for_issue                                                   *)
CancelJobs(i) ==
  LET active == {j \in JobsOf(i) : jobs[j] \in ActiveJobStatuses}
  IN  /\ jobs' = [j \in Job |-> IF j \notin active THEN jobs[j]
                                ELSE IF jobs[j] = "queued" THEN "cancelled"
                                ELSE "cancelling"]
      /\ CancelFutures({j \in active : recorded[j]})
      /\ UNCHANGED <<recorded, queue, accepting, handler, thread, result>>

(* forget_jobs_for_issue                                                   *)
Forgotten(i) == {j \in JobsOf(i) : jobs[j] \in TerminalJobStatuses}

ForgetJobs(i) ==
  /\ jobs' = [j \in Job |-> IF j \in Forgotten(i) THEN "forgotten" ELSE jobs[j]]
  /\ recorded' = [j \in Job |-> recorded[j] /\ j \notin Forgotten(i)]
  /\ UNCHANGED <<futures, queue, accepting, handler, thread, result>>

(* shutdown(cancel_futures=True): what waits in the pool never runs and    *)
(* stays listed as queued; what runs goes on.                              *)
ShutDown ==
  /\ accepting
  /\ accepting' = FALSE
  /\ CancelFutures(Job)
  /\ queue' = <<>>
  /\ UNCHANGED <<jobs, recorded, handler, thread, result>>
=============================================================================

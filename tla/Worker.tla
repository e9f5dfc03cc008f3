------------------------------- MODULE Worker -------------------------------
(***************************************************************************)
(* The worker loop (src/agent_team/worker.py) and the service around it    *)
(* (serve_web_and_worker of web.py): slots that are refilled with ready    *)
(* issues in the order of IssueStore's queries, one look at one pull       *)
(* request per batch, the exceptions that end the loop, and the stop that  *)
(* drains it.  Managers and other workers change issues at any time.       *)
(***************************************************************************)
EXTENDS Integers, Sequences, FiniteSets

CONSTANTS
  Issue,
  Priority,   \* lower comes first
  Concurrency,
  NoIssue,
  Shared      \* the issues that managers and other workers touch, in this instance

ASSUME WorkerAssumption ==
  /\ IsFiniteSet(Issue) /\ Priority \in [Issue -> Nat]
  /\ NoIssue \notin Issue /\ Shared \subseteq Issue
  /\ Concurrency \in Nat \ {0}

Slot == 1..Concurrency

VARIABLES
  phase,      \* of each issue, as far as the loop looks at it
  order,      \* the issues by last_scheduled_at
  slots,      \* futures: which issue each runs, and how far its thread is
  active,     \* active_issue_ids
  at,         \* where the loop is
  candidates, \* what it has listed and not submitted, or looked at, yet
  monitored,  \* monitored_pull_requests of this batch
  stop,       \* stop_event
  service     \* the main thread of serve_web_and_worker

issueVars == <<phase, order>>
vars == <<issueVars, slots, active, at, candidates, monitored, stop, service>>

Free == [issue |-> NoIssue, at |-> "free"]
Finished == {"done", "locked", "invalid"}
Place == {"pause", "top", "refill", "submit", "check", "wait", "monitor", "claim",
          "monitoring", "raising", "ended"}

(* Sequences in which each issue has one place.                            *)
Orders == {s \in [1..Cardinality(Issue) -> Issue] :
             \A i \in Issue : \E n \in DOMAIN s : s[n] = i}

TypeOK ==
  /\ phase \in [Issue -> {"ready", "running", "waiting", "awaiting_pr_closure"}]
  /\ order \in Orders
  /\ slots \in [Slot -> {Free} \cup
                  [issue : Issue, at : {"submitted", "read", "running", "stopped"} \cup Finished]]
  /\ active \subseteq Issue
  /\ at \in Place
  /\ candidates \in Seq(Issue)
  /\ monitored \in BOOLEAN /\ stop \in BOOLEAN
  /\ service \in {"up", "down"}

Busy == {s \in Slot : slots[s] # Free}
Idle == Slot \ Busy
Done == {s \in Slot : slots[s].at \in Finished}

(* What this worker has locked; a running issue that it has not locked is  *)
(* another worker's, or was interrupted.                                   *)
LockedHere(i) == \/ \E s \in Slot : slots[s] = [issue |-> i, at |-> "running"]
                 \/ at = "monitoring" /\ Head(candidates) = i

Goto(where) == at' = where

PlaceOf(i) == CHOOSE n \in DOMAIN order : order[n] = i

-----------------------------------------------------------------------------
(* list_next_ready_issues and list_issues_awaiting_pr_closure: each issue  *)
(* once, by priority, then by the time of the last scheduling.  There is   *)
(* one such list.                                                          *)
InOrder(some) ==
  LET Before(i, k) == \/ Priority[i] < Priority[k]
                      \/ Priority[i] = Priority[k] /\ PlaceOf(i) < PlaceOf(k)
  IN  {s \in [1..Cardinality(some) -> some] :
         \A m, n \in 1..Cardinality(some) : m < n => s[m] # s[n] /\ Before(s[m], s[n])}

FirstOf(n, s) == SubSeq(s, 1, IF n < Len(s) THEN n ELSE Len(s))

(* _ready_candidates                                                       *)
ReadyCandidates ==
  {FirstOf(Cardinality(Idle), s) : s \in
     InOrder({i \in Issue : phase[i] = "ready" /\ ~LockedHere(i) /\ i \notin active})}

(* PULL_REQUEST_MONITOR_SWEEP_LIMIT of them                                *)
PullRequestCandidates ==
  {FirstOf(1, s) : s \in InOrder({i \in Issue : phase[i] = "awaiting_pr_closure"})}

(* Mutant of MarkScheduled: the query's order never changes.               *)
MarkScheduledNever(i) == order' = order

(* Mutant of MarkScheduled: it keeps its place as well.                    *)
MarkScheduledAgain(i) == order' = Append(order, i)

(* acquire_lock with mark_scheduled: to the end of the queue.              *)
MarkScheduled(i) ==
  LET k == PlaceOf(i)
  IN  order' = Append(SubSeq(order, 1, k-1) \o SubSeq(order, k+1, Len(order)), i)

-----------------------------------------------------------------------------
(* run_worker_loop: a batch after every interval, until it is stopped.     *)
StartBatch ==
  /\ at = "pause"
  /\ IF stop THEN Goto("ended") ELSE Goto("top")
  /\ monitored' = FALSE
  /\ UNCHANGED <<issueVars, slots, active, candidates, stop, service>>

(* The head of the loop of process_batch: with nothing running here, what  *)
(* interrupted runs have left is recovered, to be run again or blocked.    *)
Sweep ==
  /\ at = "top"
  /\ \/ Busy = {} /\ ~stop
        /\ \E lost \in SUBSET {i \in Issue : phase[i] = "running"} :
           \E to \in [lost -> {"ready", "waiting"}] :
             phase' = [i \in Issue |-> IF i \in lost THEN to[i] ELSE phase[i]]
     \/ (Busy # {} \/ stop) /\ UNCHANGED phase
  /\ Goto("refill")
  /\ UNCHANGED <<order, slots, active, candidates, monitored, stop, service>>

(* Mutant of Refill: it does not look at the stop.                         *)
RefillAnyway ==
  /\ at = "refill"
  /\ candidates' \in IF Idle = {} THEN {<<>>} ELSE ReadyCandidates
  /\ Goto(IF candidates' = <<>> THEN "check" ELSE "submit")
  /\ UNCHANGED <<issueVars, slots, active, monitored, stop, service>>

(* _refill_slots lists candidates for the free slots ...                   *)
Refill ==
  /\ at = "refill"
  /\ candidates' \in IF stop \/ Idle = {} THEN {<<>>} ELSE ReadyCandidates
  /\ Goto(IF candidates' = <<>> THEN "check" ELSE "submit")
  /\ UNCHANGED <<issueVars, slots, active, monitored, stop, service>>

(* Mutant of Submit: active_issue_ids is not told.                         *)
SubmitUnrecorded ==
  /\ at = "submit" /\ candidates # <<>> /\ ~stop
  /\ LET s == CHOOSE s \in Idle : TRUE
     IN  slots' = [slots EXCEPT ![s] = [issue |-> Head(candidates), at |-> "submitted"]]
  /\ candidates' = Tail(candidates)
  /\ UNCHANGED <<issueVars, active, at, monitored, stop, service>>

(* ... submits them one by one, unless it is stopped in between (that they *)
(* are not active and that a slot is free, which it asks again, was so     *)
(* when it listed them and still is) ...                                   *)
Submit ==
  /\ at = "submit" /\ candidates # <<>> /\ ~stop
  /\ LET s == CHOOSE s \in Idle : TRUE
     IN  slots' = [slots EXCEPT ![s] = [issue |-> Head(candidates), at |-> "submitted"]]
  /\ active' = active \cup {Head(candidates)}
  /\ candidates' = Tail(candidates)
  /\ UNCHANGED <<issueVars, at, monitored, stop, service>>

(* ... and lists again.                                                    *)
EndSubmit ==
  /\ at = "submit" /\ (candidates = <<>> \/ stop)
  /\ candidates' = <<>>
  /\ Goto("refill")
  /\ UNCHANGED <<issueVars, slots, active, monitored, stop, service>>

(* Without a future, pull requests are looked at, once per batch, and the  *)
(* batch is over.                                                          *)
CheckFutures ==
  /\ at = "check"
  /\ Goto(CASE Busy # {} -> "wait"
            [] Busy = {} /\ ~monitored /\ ~stop -> "monitor"
            [] OTHER -> "pause")
  /\ UNCHANGED <<issueVars, slots, active, candidates, monitored, stop, service>>

(* monitor_pull_requests lists one, ...                                    *)
ListPullRequests ==
  /\ at = "monitor"
  /\ candidates' \in PullRequestCandidates
  /\ monitored' = TRUE
  /\ Goto(IF candidates' = <<>> THEN "top" ELSE "claim")
  /\ UNCHANGED <<issueVars, slots, active, stop, service>>

(* ... claims it if nobody else has by now, ...                            *)
ClaimPullRequest ==
  /\ at = "claim"
  /\ LET i == Head(candidates) IN
       IF phase[i] = "awaiting_pr_closure"
       THEN MarkScheduled(i) /\ Goto("monitoring") /\ UNCHANGED candidates
       ELSE UNCHANGED order /\ Goto("top") /\ candidates' = <<>>
  /\ UNCHANGED <<phase, slots, active, monitored, stop, service>>

(* ... and leaves it waiting, closed, blocked or ready for the conflicts.  *)
EndMonitor ==
  /\ at = "monitoring"
  /\ LET i == Head(candidates) IN
       phase' \in {[phase EXCEPT ![i] = to] :
                     to \in IF phase[i] = "awaiting_pr_closure"
                            THEN {"awaiting_pr_closure", "ready", "waiting"} ELSE {phase[i]}}
  /\ candidates' = <<>>
  /\ Goto("top")
  /\ UNCHANGED <<order, slots, active, monitored, stop, service>>

(* Mutant of Collect: an issue stays active.                               *)
CollectKeepsActive ==
  /\ at = "wait" /\ Done # {}
  /\ slots' = [s \in Slot |-> IF s \in Done THEN Free ELSE slots[s]]
  /\ Goto(IF \E s \in Done : slots[s].at = "invalid" THEN "raising" ELSE "top")
  /\ UNCHANGED <<issueVars, active, candidates, monitored, stop, service>>

(* Completed futures are taken; a RuntimeError (an issue that was locked,  *)
(* a run that lost its issue) is swallowed, any other exception is not.    *)
Collect ==
  /\ at = "wait" /\ Done # {}
  /\ slots' = [s \in Slot |-> IF s \in Done THEN Free ELSE slots[s]]
  /\ active' = active \ {slots[s].issue : s \in Done}
  /\ Goto(IF \E s \in Done : slots[s].at = "invalid" THEN "raising" ELSE "top")
  /\ UNCHANGED <<issueVars, candidates, monitored, stop, service>>

(* With a free slot the wait is a poll.                                    *)
PollTimesOut ==
  /\ at = "wait" /\ Done = {} /\ Idle # {}
  /\ Goto("top")
  /\ UNCHANGED <<issueVars, slots, active, candidates, monitored, stop, service>>

(* Leaving the with block of the executor waits for its threads; the       *)
(* exception ends the loop and, through record_error, the service.         *)
Raise ==
  /\ at = "raising" /\ Busy = Done
  /\ Goto("ended")
  /\ stop' = TRUE
  /\ UNCHANGED <<issueVars, slots, active, candidates, monitored, service>>

-----------------------------------------------------------------------------
(* process_issue in a thread of the executor: it reads the issue, which    *)
(* must be ready (ValueError), ...                                         *)
ReadIssue(s) ==
  /\ slots[s].at = "submitted"
  /\ slots' = [slots EXCEPT ![s].at =
                 IF phase[slots[s].issue] = "ready" THEN "read" ELSE "invalid"]
  /\ UNCHANGED <<issueVars, active, at, candidates, monitored, stop, service>>

(* ... locks it in the phase it was read in (RuntimeError), and runs it.   *)
LockIssue(s) ==
  /\ slots[s].at = "read"
  /\ LET i == slots[s].issue IN
       IF phase[i] = "ready" /\ ~LockedHere(i)
       THEN /\ phase' = [phase EXCEPT ![i] = "running"]
            /\ MarkScheduled(i)
            /\ slots' = [slots EXCEPT ![s].at = "running"]
       ELSE /\ slots' = [slots EXCEPT ![s].at = "locked"]
            /\ UNCHANGED <<phase, order>>
  /\ UNCHANGED <<active, at, candidates, monitored, stop, service>>

(* The run moves its issue on, unless a manager stopped it meanwhile; or   *)
(* it raises, a RuntimeError or another, and leaves the issue as it is.    *)
EndRun(s) ==
  /\ slots[s].at \in {"running", "stopped"}
  /\ \/ /\ slots' = [slots EXCEPT ![s].at = "done"]
        /\ \/ slots[s].at = "stopped" /\ UNCHANGED phase
           \/ /\ slots[s].at = "running"
              /\ \E to \in {"ready", "waiting", "awaiting_pr_closure"} :
                   phase' = [phase EXCEPT ![slots[s].issue] = to]
     \/ /\ slots' \in {[slots EXCEPT ![s].at = e] : e \in {"locked", "invalid"}}
        /\ UNCHANGED phase
  /\ UNCHANGED <<order, active, at, candidates, monitored, stop, service>>

-----------------------------------------------------------------------------
(* Everyone else: workers of other processes, whose runs and looks at pull *)
(* requests schedule an issue as those of this one do, ...                 *)
TakeElsewhere(i) ==
  /\ phase[i] = "ready" /\ ~LockedHere(i)
  /\ phase' = [phase EXCEPT ![i] = "running"]
  /\ MarkScheduled(i)
  /\ UNCHANGED <<slots, active, at, candidates, monitored, stop, service>>

ReturnElsewhere(i) ==
  /\ phase[i] = "running" /\ ~LockedHere(i)
  /\ phase' \in {[phase EXCEPT ![i] = to] : to \in {"ready", "waiting", "awaiting_pr_closure"}}
  /\ UNCHANGED <<order, slots, active, at, candidates, monitored, stop, service>>

(* ... and managers who move issues and stop runs, which lose their lock.  *)
ByHand(i) ==
  /\ phase' = [phase EXCEPT ![i] = IF @ = "waiting" THEN "ready" ELSE "waiting"]
  /\ slots' = [s \in Slot |-> IF slots[s] = [issue |-> i, at |-> "running"]
                              THEN [slots[s] EXCEPT !.at = "stopped"] ELSE slots[s]]
  /\ UNCHANGED <<order, active, at, candidates, monitored, stop, service>>

-----------------------------------------------------------------------------
(* serve_web_and_worker: a signal, or an error of its threads, stops it;   *)
(* the process ends when the worker's thread has.                          *)
RequestShutdown ==
  /\ ~stop
  /\ stop' = TRUE
  /\ UNCHANGED <<issueVars, slots, active, at, candidates, monitored, service>>

EndService ==
  /\ service = "up" /\ stop /\ at = "ended"
  /\ service' = "down"
  /\ UNCHANGED <<issueVars, slots, active, at, candidates, monitored, stop>>

Init ==
  /\ phase \in [Issue -> {"ready", "awaiting_pr_closure"}]
  /\ order = CHOOSE s \in Orders : TRUE
  /\ slots = [s \in Slot |-> Free]
  /\ active = {}
  /\ at = "pause"
  /\ candidates = <<>>
  /\ monitored = FALSE
  /\ stop = FALSE
  /\ service = "up"

LoopStep ==
  \/ StartBatch \/ Sweep \/ Refill \/ Submit \/ EndSubmit \/ CheckFutures
  \/ ListPullRequests \/ ClaimPullRequest \/ EndMonitor \/ Collect \/ PollTimesOut \/ Raise

RunStep(s) == ReadIssue(s) \/ LockIssue(s) \/ EndRun(s)
Others(i)  == TakeElsewhere(i) \/ ReturnElsewhere(i) \/ ByHand(i)

Next ==
  \/ LoopStep
  \/ \E s \in Slot : RunStep(s)
  \/ \E i \in Shared : Others(i)
  \/ RequestShutdown \/ EndService

(* The loop's thread and the main thread take the steps they can take, and *)
(* runs and looks at pull requests end (their timeouts see to that).       *)
Fairness == WF_vars(LoopStep) /\ WF_vars(EndService) /\ \A s \in Slot : WF_vars(RunStep(s))

Spec == Init /\ [][Next]_vars /\ Fairness

-----------------------------------------------------------------------------
(* No issue has two futures, whatever the queries return while a submitted *)
(* run has not locked its issue yet; and active_issue_ids says which have. *)
SlotsAreActive ==
  /\ \A s, t \in Busy : slots[s].issue = slots[t].issue => s = t
  /\ at # "raising" => active = {slots[s].issue : s \in Busy}

Urgent(i) == \A k \in Issue : Priority[i] <= Priority[k]

(* No issue of the first priority stays ready for ever, also  *)
(* when others of that priority become ready again and again: a run puts   *)
(* its issue at the end of the queue.  Unless the loop has ended.          *)
ReadyIssuesRun ==
  \A i \in Issue : Urgent(i) =>
    []<>(phase[i] # "ready" \/ at = "ended")

(* Nor does a pull request stay unlooked at, if batches end: with a limit  *)
(* of one per batch, each of them has its turn.                            *)
PullRequestsAreSeen ==
  ([]<>(at = "pause")) =>
    \A i \in Issue : Urgent(i) =>
      []<>(phase[i] # "awaiting_pr_closure" \/ LockedHere(i) \/ at = "ended")

(* A stop, or an exception that ends the loop, ends the service, once the  *)
(* runs under way have ended.                                              *)
ShutdownDrains == stop ~> (service = "down")
=============================================================================

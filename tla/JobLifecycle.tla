---------------------------- MODULE JobLifecycle ----------------------------
(***************************************************************************)
(* What the list of queued browser actions promises to those who read it:  *)
(* the page of an issue, and the checks before it is reset or deleted.     *)
(* WebJobs implements it.                                                  *)
(***************************************************************************)
CONSTANT Job

VARIABLE status

(* _TERMINAL_JOB_STATUSES and _ACTIVE_JOB_STATUSES of web_jobs.py          *)
TerminalJobStatuses == {"succeeded", "failed", "cancelled"}
ActiveJobStatuses   == {"queued", "running", "cancelling"}
JobStatuses == TerminalJobStatuses \cup ActiveJobStatuses
JobStates   == JobStatuses \cup {"absent", "forgotten"}

Init == status = [j \in Job |-> "absent"]

(* Where an action may go from each status.  What has ended stays as it    *)
(* ended until it is forgotten, and only what has ended is forgotten.      *)
Edge(from) ==
  CASE from = "absent"     -> {"queued"}
    [] from = "queued"     -> {"running", "cancelled"}
    [] from = "running"    -> {"cancelling"} \cup TerminalJobStatuses
    [] from = "cancelling" -> TerminalJobStatuses
    [] from \in TerminalJobStatuses -> {"forgotten"}
    [] OTHER -> {}

(* One critical section may move several of them: stopping an issue        *)
(* cancels all of its actions.                                             *)
Next ==
  /\ status' \in [Job -> JobStates]
  /\ \A j \in Job : status'[j] = status[j] \/ status'[j] \in Edge(status[j])

Spec == Init /\ [][Next]_status
=============================================================================

---------------------------- MODULE StateMachine ----------------------------
(***************************************************************************)
(* The phase graph of src/agent_team/state_machine.py: the ready phases a  *)
(* worker may pick up, the running phase each agent phase occupies, the    *)
(* transitions that validate_transition accepts and the tables that say    *)
(* where an agent's result or a human answer leads.  Pure definitions; the *)
(* modules that keep an issue's phase as state extend this one.            *)
(***************************************************************************)

Agent == {"research", "plan", "implementation", "validation", "review",
          "merge", "merge_conflict_resolution"}

(* The phase a worker takes an issue from, for each agent phase.           *)
ReadyPhase ==
  [a \in Agent |->
     CASE a = "research"       -> "needs_research"
       [] a = "plan"           -> "ready_for_plan"
       [] a = "implementation" -> "ready_for_implementation"
       [] a = "validation"     -> "ready_for_validation"
       [] a = "review"         -> "ready_for_review"
       [] a = "merge"          -> "ready_for_merge"
       [] a = "merge_conflict_resolution" -> "ready_for_merge_conflict_resolution"]

(* The phase the issue is in while that agent phase executes.              *)
RunningPhase ==
  [a \in Agent |->
     CASE a = "research"       -> "researching"
       [] a = "plan"           -> "planning"
       [] a = "implementation" -> "implementing"
       [] a = "validation"     -> "validating"
       [] a = "review"         -> "reviewing"
       [] a = "merge"          -> "merging"
       [] a = "merge_conflict_resolution" -> "resolving_merge_conflicts"]

ReadyPhases   == {ReadyPhase[a] : a \in Agent}
RunningPhases == {RunningPhase[a] : a \in Agent}

(* Phases in which only a person or the pull request monitor acts.         *)
WaitingPhases == {"draft", "awaiting_plan_approval", "awaiting_merge_approval",
                  "awaiting_pr_closure", "awaiting_human_input", "blocked", "done"}

Phase == ReadyPhases \cup RunningPhases \cup WaitingPhases

AgentOfReady(p)   == CHOOSE a \in Agent : ReadyPhase[a] = p
AgentOfRunning(p) == CHOOSE a \in Agent : RunningPhase[a] = p

(* Merging is deterministic Git work: it cannot ask a person, so it is the *)
(* one agent phase without a resume phase.                                 *)
AskingAgents == Agent \ {"merge"}
ResumePhase == [a \in AskingAgents |-> ReadyPhase[a]]

ValidTransitions ==
  [p \in Phase |->
     CASE p = "draft" -> {"needs_research"}
       [] p = "needs_research" -> {"researching", "blocked"}
       [] p = "researching" -> {"ready_for_plan", "awaiting_human_input", "blocked"}
       [] p = "ready_for_plan" -> {"planning", "blocked"}
       [] p = "planning" ->
            {"awaiting_plan_approval", "ready_for_plan", "awaiting_human_input", "blocked"}
       [] p = "awaiting_plan_approval" ->
            {"ready_for_implementation", "ready_for_plan", "blocked"}
       [] p = "ready_for_implementation" -> {"implementing", "blocked"}
       [] p = "implementing" -> {"ready_for_validation", "awaiting_human_input", "blocked"}
       [] p = "ready_for_validation" -> {"validating", "blocked"}
       [] p = "validating" ->
            {"ready_for_review", "ready_for_implementation", "awaiting_human_input", "blocked"}
       [] p = "ready_for_review" -> {"reviewing", "blocked"}
       [] p = "reviewing" ->
            {"awaiting_merge_approval", "ready_for_implementation",
             "ready_for_merge_conflict_resolution", "awaiting_human_input", "blocked"}
       [] p = "awaiting_merge_approval" ->
            {"ready_for_merge", "ready_for_review", "ready_for_implementation", "blocked"}
       [] p = "ready_for_merge" -> {"merging", "blocked"}
       [] p = "merging" ->
            {"done", "awaiting_pr_closure", "ready_for_merge_conflict_resolution", "blocked"}
       [] p = "awaiting_pr_closure" ->
            {"done", "ready_for_merge_conflict_resolution", "ready_for_validation", "blocked"}
       [] p = "ready_for_merge_conflict_resolution" ->
            {"resolving_merge_conflicts", "blocked"}
       [] p = "resolving_merge_conflicts" ->
            {"ready_for_validation", "ready_for_implementation", "awaiting_human_input", "blocked"}
       [] p = "awaiting_human_input" -> {ReadyPhase[a] : a \in AskingAgents} \cup {"blocked"}
       [] p = "blocked" ->
            ReadyPhases \cup
            {"awaiting_plan_approval", "awaiting_merge_approval", "awaiting_pr_closure"}
       [] p = "done" -> {}]

(* validate_transition accepts the move from p to q.                       *)
Edge(p, q) == p \in Phase /\ q \in ValidTransitions[p]

(* Where a successful agent phase leads when its runner suggests nothing.  *)
DefaultNextPhase ==
  [a \in Agent |->
     CASE a = "research"       -> "ready_for_plan"
       [] a = "plan"           -> "awaiting_plan_approval"
       [] a = "implementation" -> "ready_for_validation"
       [] a = "validation"     -> "ready_for_review"
       [] a = "review"         -> "awaiting_merge_approval"
       [] a = "merge"          -> "done"
       [] a = "merge_conflict_resolution" -> "ready_for_validation"]
=============================================================================

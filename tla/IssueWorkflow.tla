---------------------------- MODULE IssueWorkflow ----------------------------
(***************************************************************************)
(* What the team promises about the phase of an issue, whoever crashes,    *)
(* stops or is late: every change of phase is one of the moves below.      *)
(* There are no locks, runs or processes here; Orchestrator is shown to    *)
(* implement this specification under its own variable phase.              *)
(***************************************************************************)
EXTENDS StateMachine

CONSTANTS StartPhases, Deleted

VARIABLE phase

Init == phase \in StartPhases

(* A worker takes a ready issue into the running phase of the same agent.  *)
PickUp == \E a \in Agent : phase = ReadyPhase[a] /\ phase' = RunningPhase[a]

(* An agent phase ends in one of the phases its running phase leads to.    *)
Conclude == phase \in RunningPhases /\ Edge(phase, phase')

(* Work that was interrupted is to be done again.                          *)
GiveBack == \E a \in Agent : phase = RunningPhase[a] /\ phase' = ReadyPhase[a]

(* A person, asked or not, or the monitor of its pull request decides      *)
(* about an issue nobody works on.                                         *)
Decide == phase \in WaitingPhases /\ Edge(phase, phase')

(* A person stops the issue, whoever works on it.                          *)
Stop == phase \notin {"draft", "done", Deleted} /\ phase' = "blocked"

(* A person starts the issue afresh or throws it away.                     *)
Reset  == phase # Deleted /\ phase' = "draft"
Delete == phase # Deleted /\ phase' = Deleted

Next == PickUp \/ Conclude \/ GiveBack \/ Decide \/ Stop \/ Reset \/ Delete

Spec == Init /\ [][Next]_phase
=============================================================================

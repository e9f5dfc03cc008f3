---------------------------- MODULE CopilotRunner ----------------------------
(***************************************************************************)
(* CopilotCliRunner (src/agent_team/runners/copilot_cli.py) with a live    *)
(* log, and the thread of the orchestrator that cancels it: an agent is a  *)
(* process group whose members may start others, outlive their leader and  *)
(* ignore SIGTERM.  The runner's own thread and the canceller share the    *)
(* registry of active processes and may terminate one group together.      *)
(***************************************************************************)
EXTENDS Naturals

CONSTANT Run \* runs of an agent

VARIABLES
  leader,     \* the process that Popen started
  others,     \* the rest of its process group has a member
  runner,     \* where CopilotCliRunner.run is
  registered, \* _active_processes has the run
  canceller   \* where the _RunCancellationMonitor is

groupVars  == <<leader, others>>
runnerVars == <<leader, others, runner, registered, canceller>>

RunnerTypeOK ==
  /\ leader \in [Run -> {"none", "alive", "exited"}]
  /\ others \in [Run -> BOOLEAN]
  /\ runner \in [Run -> {"idle", "spawned", "watching", "overtime", "exited", "sweeping",
                         "over", "returned", "raised"}]
  /\ registered \in [Run -> BOOLEAN]
  /\ canceller \in [Run -> {"off", "polling", "asked", "signalling", "grace"}]

RunnerInit ==
  /\ leader = [r \in Run |-> "none"]
  /\ others = [r \in Run |-> FALSE]
  /\ runner = [r \in Run |-> "idle"]
  /\ registered = [r \in Run |-> FALSE]
  /\ canceller = [r \in Run |-> "off"]

(* _process_group_exists                                                   *)
GroupLives(r) == leader[r] = "alive" \/ others[r]

RunnerAt(r, where)    == runner' = [runner EXCEPT ![r] = where]
CancellerAt(r, where) == canceller' = [canceller EXCEPT ![r] = where]

-----------------------------------------------------------------------------
(* The agent's processes: external.                                        *)
StartOther(r) ==
  /\ leader[r] = "alive" /\ ~others[r]
  /\ others' = [others EXCEPT ![r] = TRUE]
  /\ UNCHANGED <<leader, runner, registered, canceller>>

LeaderExits(r) ==
  /\ leader[r] = "alive"
  /\ leader' = [leader EXCEPT ![r] = "exited"]
  /\ UNCHANGED <<others, runner, registered, canceller>>

OthersExit(r) ==
  /\ others[r]
  /\ others' = [others EXCEPT ![r] = FALSE]
  /\ UNCHANGED <<leader, runner, registered, canceller>>

(* _terminate_process_group: SIGTERM, which any member may ignore, and     *)
(* two seconds later SIGKILL for the whole group if one is left.           *)
Terminate(r) ==
  /\ leader' \in {[leader EXCEPT ![r] = l] : l \in {leader[r], "exited"}}
  /\ others' \in {[others EXCEPT ![r] = o] : o \in {others[r], FALSE}}

Kill(r) ==
  /\ leader' = [leader EXCEPT ![r] = "exited"]
  /\ others' = [others EXCEPT ![r] = FALSE]

-----------------------------------------------------------------------------
(* The runner's thread: Popen, then _register_process ...                  *)
Spawn(r) ==
  /\ runner[r] = "idle"
  /\ leader' = [leader EXCEPT ![r] = "alive"]
  /\ RunnerAt(r, "spawned")
  /\ UNCHANGED <<others, registered, canceller>>

(* (the command cannot be started)                                         *)
SpawnFails(r) ==
  /\ runner[r] = "idle"
  /\ RunnerAt(r, "raised")
  /\ UNCHANGED <<groupVars, registered, canceller>>

Register(r) ==
  /\ runner[r] = "spawned"
  /\ registered' = [registered EXCEPT ![r] = TRUE]
  /\ RunnerAt(r, "watching")
  /\ UNCHANGED <<groupVars, canceller>>

(* ... and the loop over the agent's output, until it exits ...            *)
SeeExit(r) ==
  /\ runner[r] = "watching" /\ leader[r] = "exited"
  /\ RunnerAt(r, "exited")
  /\ UNCHANGED <<groupVars, registered, canceller>>

(* ... or its time is up.                                                  *)
Deadline(r) ==
  /\ runner[r] = "watching" /\ leader[r] = "alive"
  /\ Terminate(r)
  /\ RunnerAt(r, "overtime")
  /\ UNCHANGED <<registered, canceller>>

(* Mutant of OvertimeKill: SIGTERM has to do.                              *)
OvertimeWaits(r) ==
  /\ runner[r] = "overtime"
  /\ RunnerAt(r, "over")
  /\ UNCHANGED <<groupVars, registered, canceller>>

OvertimeKill(r) ==
  /\ runner[r] = "overtime"
  /\ Kill(r)
  /\ RunnerAt(r, "over")
  /\ UNCHANGED <<registered, canceller>>

(* Mutant of Sweep: the exit of the leader is enough.                      *)
SweepNothing(r) ==
  /\ runner[r] = "exited"
  /\ RunnerAt(r, "over")
  /\ UNCHANGED <<groupVars, registered, canceller>>

(* _terminate_remaining_process_group: what the agent left running.        *)
Sweep(r) ==
  /\ runner[r] = "exited"
  /\ Terminate(r)
  /\ RunnerAt(r, IF others[r] THEN "sweeping" ELSE "over")
  /\ UNCHANGED <<registered, canceller>>

SweepKill(r) ==
  /\ runner[r] = "sweeping"
  /\ Kill(r)
  /\ RunnerAt(r, "over")
  /\ UNCHANGED <<registered, canceller>>

(* The run leaves the registry; process.wait(), which has no timeout,      *)
(* needs an exited leader.  (What the registry keeps of the reason of a    *)
(* cancellation goes to the log only.)                                     *)
Unregister(r) ==
  /\ runner[r] = "over" /\ leader[r] = "exited"
  /\ registered' = [registered EXCEPT ![r] = FALSE]
  /\ RunnerAt(r, "returned")
  /\ UNCHANGED <<groupVars, canceller>>

(* The log cannot be opened or written to: the finally clause takes the    *)
(* run out of the registry, and the agent works on.                        *)
LogWriteFails(r) ==
  /\ runner[r] \in {"watching", "exited", "over"}
  /\ registered' = [registered EXCEPT ![r] = FALSE]
  /\ RunnerAt(r, "raised")
  /\ UNCHANGED <<groupVars, canceller>>

-----------------------------------------------------------------------------
(* The canceller: it asks the store for a stop five times a second, and    *)
(* asks again when cancel_run does not know the run.                       *)
SeeStop(r) ==
  /\ canceller[r] = "polling"
  /\ CancellerAt(r, "asked")
  /\ UNCHANGED <<groupVars, runner, registered>>

(* Mutant of CancelRun: it is asked once.                                  *)
CancelRunOnce(r) ==
  /\ canceller[r] = "asked"
  /\ IF registered[r]
     THEN CancellerAt(r, "signalling")
     ELSE CancellerAt(r, "off")
  /\ UNCHANGED <<groupVars, runner, registered>>

CancelRun(r) ==
  /\ canceller[r] = "asked"
  /\ IF registered[r]
     THEN CancellerAt(r, "signalling")
     ELSE CancellerAt(r, "polling")
  /\ UNCHANGED <<groupVars, runner, registered>>

(* Outside the lock, the run may end meanwhile.                            *)
CancelTerminate(r) ==
  /\ canceller[r] = "signalling"
  /\ IF GroupLives(r)
     THEN Terminate(r) /\ CancellerAt(r, "grace")
     ELSE CancellerAt(r, "off") /\ UNCHANGED groupVars
  /\ UNCHANGED <<runner, registered>>

CancelKill(r) ==
  /\ canceller[r] = "grace"
  /\ Kill(r)
  /\ CancellerAt(r, "off")
  /\ UNCHANGED <<runner, registered>>
=============================================================================

--------------------------- MODULE MCOrchestrator ---------------------------
(***************************************************************************)
(* Instances of Orchestrator for TLC: which phases, which hosts and which  *)
(* managers' moves an instance has.                                        *)
(***************************************************************************)
EXTENDS Orchestrator

CONSTANTS p1, p2, o1, o2

(* Owners: two orchestrators, and the resets and deletes of the instance.  *)
TwoOwners    == {p1, p2}
OwnersAndOps == {p1, p2, o1, o2}

SameHost == [p \in Proc |-> 1]
FarHosts == [p \in Proc |-> IF p = p1 THEN 1 ELSE 2]

NoMoves  == {}

(* What managers do in the ordinary course: approve, send back and resume. *)
GateMoves ==
  {<<"awaiting_plan_approval", "ready_for_implementation">>,
   <<"awaiting_plan_approval", "ready_for_plan">>,
   <<"awaiting_merge_approval", "ready_for_merge">>,
   <<"awaiting_merge_approval", "ready_for_review">>,
   <<"blocked", "ready_for_merge">>}

AllReady      == ReadyPhases
ReadyOrOpen   == ReadyPhases \cup {"awaiting_pr_closure"}
AtReview      == {"ready_for_review"}
Gates         == {"awaiting_plan_approval", "awaiting_merge_approval"}
GatesAndMerge == Gates \cup {"ready_for_merge"}
=============================================================================

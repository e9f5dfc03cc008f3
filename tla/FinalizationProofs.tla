------------------------- MODULE FinalizationProofs -------------------------
(***************************************************************************)
(* Proofs that MergeFinalization loses no commit, and reports nothing as   *)
(* finished that it has not delivered, as long as managers keep to Careful *)
(* and the cleanup of a merge is completed unless its process crashes with *)
(* the issue's lock.                                                       *)
(***************************************************************************)
EXTENDS MergeFinalizationProofs

Delivered == made \subseteq target \cup remote

(* A record that recovery would act on.                                    *)
Recorded == merged.state # "none" \/ (request.state # "none" /\ ws.kind # "repair")

(* A call that is about to write something other than blocked.             *)
Settled(w) == holder = w /\ pc[w] = "reporting" /\ job[w].outcome # "blocked"

(* A merge that is about to remove the worktree, perhaps without the       *)
(* issue's lock, or a recovery that will.                                  *)
Cleaner(w) == job[w].kind = "merge" /\ pc[w] \in {"recording", "removing"}

Pending ==
  /\ phase = "merging"
  /\ \/ holder = "gone"
     \/ \E w \in Worker : holder = w /\ job[w].kind = "recovery" /\ pc[w] # "reporting"

(* What is recorded has been delivered, and its worktree has nothing new   *)
(* and is about to go.                                                     *)
SharedFits ==
  /\ WorkIsKept
  /\ tree.here \/ tree = NoTree
  /\ phase \in {"awaiting_pr_closure", "done"} => Delivered
  /\ phase = "awaiting_pr_closure" => merged.state = "none" /\ ws.kind # "plain"
  /\ phase = "done" \/ (\E w \in Worker : Settled(w)) => \A v \in Worker : pc[v] \notin Locking
  /\ Recorded => Delivered /\ (tree.here => Clean)
  /\ Recorded /\ phase \in AtWork => phase = "resolving" /\ (ws.kind = "none" \/ ~tree.here)
  /\ Recorded /\ ws.kind # "none" /\ tree.here => Pending \/ \E z \in Worker : Cleaner(z)

(* What a call takes for granted where it is ...                           *)
PlaceFits(w) ==
  /\ phase = "awaiting_pr_closure" /\ pc[w] \in Locking => job[w].kind = "repair"
  /\ pc[w] \in {"integrating", "finalizing", "opening", "recording", "removing"} /\ tree.here
       => Clean
  /\ pc[w] = "finalizing" => tree.here /\ tree.head \subseteq job[w].head
  /\ pc[w] \in Cleanup \cup {"opening"} => Delivered
  /\ job[w].kind = "merge" /\ pc[w] \in {"marking", "forgetting", "pruning"} => ~tree.here
  /\ pc[w] = "syncing" => ws.kind = "repair"
  /\ pc[w] = "pruning" => ws.kind = "none"

(* ... of the records ...                                                  *)
RecordFits(w) ==
  /\ Recorded => /\ pc[w] \notin {"integrating", "finalizing", "opening", "recording"}
                 /\ pc[w] = "committing" => ~tree.here
  /\ job[w].route = "request" /\ pc[w] \in Cleanup => merged.state = "none"
  /\ job[w].route # "request" /\ pc[w] \in Cleanup \ {"recording"} => merged.state # "none"
  /\ job[w].kind = "merge" /\ holder = w /\ pc[w] = "waiting" /\ Recorded /\ tree.here =>
       \E z \in Worker : Cleaner(z)

(* ... and of what a recovery found, when it found it ...                  *)
RecoveryFits(w) ==
  job[w].kind = "recovery" =>
    /\ job[w].route = "repair" => ws.kind # "plain"
    /\ job[w].route = "plain" => ws.kind # "repair"
    /\ job[w].route \in {"merged", "request"} /\ pc[w] # "reporting" => Recorded
    /\ pc[w] \in {"waiting", "deciding"} =>
         /\ job[w].route \in {"merged", "request", "repair", "plain"}
         /\ job[w].route = "merged" => merged.state # "none"
         /\ job[w].route = "request" => merged.state = "none"

(* ... and of what is about to be written to the database.                 *)
OutcomeFits(w) ==
  Settled(w) =>
    /\ job[w].outcome \in {"awaiting_pr_closure", "done"} => Delivered
    /\ job[w].outcome = "awaiting_pr_closure" => merged.state = "none" /\ ws.kind # "plain"
    /\ Recorded => job[w].outcome \notin AtWork

CallFits(w) == PlaceFits(w) /\ RecordFits(w) /\ RecoveryFits(w) /\ OutcomeFits(w)

KeptInv == SharedFits /\ \A w \in Worker : CallFits(w)

(* Of local merges that managers do not stop on the way: one that is       *)
(* recorded is finished before anything else is done with the issue, ...   *)
Finishing(w) ==
  /\ job[w].kind \in {"merge", "recovery"}
  /\ \/ pc[w] \in Cleanup
     \/ job[w].kind = "recovery" /\ pc[w] \in {"reading", "waiting", "deciding"}
     \/ pc[w] = "reporting" /\ job[w].outcome = "done"

Unfinished == phase = "merging" /\ (holder = "gone" \/ \E w \in Worker : holder = w /\ Finishing(w))

(* ... and its cleanup knows whether the worktree is still there.          *)
TreeFits(w) ==
  /\ pc[w] \in {"recording", "removing"} /\ (job[w].kind = "merge" \/ job[w].route = "landed")
       => tree.here
  /\ pc[w] \in {"marking", "forgetting", "pruning"} => ~tree.here
  /\ pc[w] \in {"waiting", "deciding"} /\ job[w].route = "merged" /\ job[w].seen = "cleaned"
       => ~tree.here

LocalFits ==
  /\ merged.state # "none" => phase = "done" \/ Unfinished
  /\ merged.state = "cleaned" => ~tree.here
  /\ \A w \in Worker : TreeFits(w)

(* Besides, nobody declares that an issue waits for its pull request, and  *)
(* no cleanup ends with nobody to complete it.                             *)
Careful == Managed /\ "awaiting_pr_closure" \notin ResumePhases /\ ~Abandonable

Known == Careful /\ Inv /\ CareInv /\ KeptInv /\ (Patient /\ Local => LocalFits)

LEMMA Knowledge ==
  ASSUME Known
  PROVE  /\ \A v \in Worker : v # NoWorker /\ v # "gone"
         /\ \A v, u \in Worker : pc[v] \in Locking /\ pc[u] \in Locking => v = u
         /\ \A v \in Worker : job[v].kind \in {"recovery", "repair"} => holder = v
         /\ \A v \in Worker : holder = v => phase = IF job[v].kind = "repair"
                                              THEN "awaiting_pr_closure" ELSE "merging"
         /\ \A v \in Worker : job[v].kind \in {"none", "merge", "recovery", "repair"}
         /\ \A v \in Worker : JobFits(pc[v], job[v])
         /\ \A v \in Worker : CallFits(v)
         /\ phase \in AtWork => \A v \in Worker : pc[v] \notin Locking
         /\ SharedFits
<1>1. /\ \A v \in Worker : v # NoWorker /\ v # "gone"
      /\ \A v, u \in Worker : pc[v] \in Locking /\ pc[u] \in Locking => v = u
      /\ \A v \in Worker : job[v].kind \in {"none", "merge", "recovery", "repair"}
  BY WorkerAssumption DEF Known, Inv, ControlTypeOK, Job
<1>2. /\ \A v \in Worker : job[v].kind \in {"recovery", "repair"} => holder = v
      /\ \A v \in Worker : holder = v => phase = IF job[v].kind = "repair"
                                           THEN "awaiting_pr_closure" ELSE "merging"
      /\ phase \in AtWork => \A v \in Worker : pc[v] \notin Locking
  BY DEF Known, CareInv, HoldersFit, WorkFits
<1>. QED BY <1>1, <1>2 DEF Known, Inv, KeptInv

LEMMA KeptInit == ASSUME Init PROVE KeptInv
<1>1. \A w \in Worker : ~Settled(w) /\ pc[w] = "idle" /\ job[w] = NoJob
  BY WorkerAssumption, Places DEF Init, Settled
<1>2. ~Recorded /\ SharedFits
  BY <1>1, Places DEF Init, SharedFits, Recorded, NoFile, WorkIsKept, NoTree, AtWork
<1>3. \A w \in Worker : CallFits(w)
  BY <1>1, <1>2, Places DEF CallFits, PlaceFits, RecordFits, RecoveryFits, OutcomeFits, NoJob, Init
<1>. QED BY <1>2, <1>3 DEF KeptInv

(* A step of a call without the repository lock.                           *)
LEMMA KeptFree ==
  ASSUME Known, NEW w \in Worker, Effects(w), pc[w] \notin Locking, UNCHANGED <<git, files>>,
         ~Settled(w)',
         phase' \in {phase, "merging", "blocked"} \/ (Settled(w) /\ phase' = job[w].outcome),
         Pending /\ Recorded /\ ws.kind # "none" /\ tree.here => Pending',
         CallFits(w)'
  PROVE  KeptInv'
<1>. /\ UNCHANGED <<tree, made, target, remote, merged, request, ws>>
     /\ Delivered' = Delivered /\ Recorded' = Recorded /\ WorkIsKept' = WorkIsKept /\ Clean' = Clean
  BY DEF git, files, Delivered, Recorded, WorkIsKept, Clean
<1>1. /\ SharedFits /\ \A v \in Worker : CallFits(v) /\ v # NoWorker
      /\ \A v \in Worker : holder = v => phase = IF job[v].kind = "repair"
                                                 THEN "awaiting_pr_closure" ELSE "merging"
      /\ phase \in AtWork => \A v \in Worker : pc[v] \notin Locking
      /\ \A v \in Worker : job[v].kind \in {"recovery", "repair"} => holder = v
  BY Knowledge
<1>2. ASSUME NEW v \in Worker, v # w
      PROVE  /\ pc'[v] = pc[v] /\ job'[v] = job[v] /\ (holder' = v => holder = v)
             /\ (Cleaner(v)' <=> Cleaner(v)) /\ (Settled(v)' => Settled(v))
  <2>1. pc'[v] = pc[v] /\ job'[v] = job[v]
    BY <1>2 DEF Effects, OthersRest
  <2>2. holder' = v => holder = v
    BY <1>1, <1>2 DEF Effects, HolderMoves
  <2>. QED BY <2>1, <2>2 DEF Cleaner, Settled
<1>3. \A v \in Worker : Cleaner(v) => Cleaner(v)'
  BY <1>2, Places DEF Cleaner
<1>4. pc'[w] \in Locking => holder = w
  BY <1>1 DEF Effects, PlaceMoves
<1>5. phase' = "done" \/ (\E v \in Worker : Settled(v)') => \A v \in Worker : pc'[v] \notin Locking
  <2>1. CASE phase' = "done"
    <3>1. \A v \in Worker : pc[v] \notin Locking
      BY <1>1, <2>1 DEF SharedFits
    <3>2. pc'[w] \notin Locking
      BY <1>1, <1>4, <2>1, Places DEF Effects, HolderMoves
    <3>. QED BY <1>2, <3>1, <3>2
  <2>2. CASE \E v \in Worker : Settled(v)'
    <3>1. PICK v \in Worker : Settled(v)' /\ v # w /\ Settled(v)
      BY <1>2, <2>2
    <3>2. (\A u \in Worker : pc[u] \notin Locking) /\ holder = v
      BY <1>1, <3>1 DEF SharedFits, Settled
    <3>. QED BY <1>2, <1>4, <3>1, <3>2
  <2>. QED BY <2>1, <2>2
<1>6. SharedFits'
  <2>1. phase' \in {"awaiting_pr_closure", "done"} => Delivered
    BY <1>1 DEF SharedFits, CallFits, OutcomeFits
  <2>2. phase' = "awaiting_pr_closure" => merged.state = "none" /\ ws.kind # "plain"
    BY <1>1 DEF SharedFits, CallFits, OutcomeFits
  <2>3. Recorded /\ phase' \in AtWork => phase' = "resolving" /\ (ws.kind = "none" \/ ~tree.here)
    BY <1>1 DEF SharedFits, CallFits, OutcomeFits, AtWork
  <2>. QED BY <1>1, <1>3, <1>5, <2>1, <2>2, <2>3 DEF SharedFits
<1>7. ASSUME NEW v \in Worker, v # w PROVE CallFits(v)'
  <2>. CallFits(v) /\ pc'[v] = pc[v] /\ job'[v] = job[v]
    BY <1>1, <1>2, <1>7
  <2>1. phase' = "awaiting_pr_closure" /\ pc[v] \in Locking => phase = "awaiting_pr_closure"
    BY <1>1 DEF SharedFits
  <2>2. PlaceFits(v)'
    BY <2>1 DEF CallFits, PlaceFits
  <2>3. RecordFits(v)'
    BY <1>2, <1>3, <1>7 DEF CallFits, RecordFits
  <2>4. RecoveryFits(v)'
    BY DEF CallFits, RecoveryFits
  <2>5. OutcomeFits(v)'
    BY <1>2, <1>7 DEF CallFits, OutcomeFits
  <2>. QED BY <2>2, <2>3, <2>4, <2>5 DEF CallFits
<1>. QED BY <1>6, <1>7 DEF KeptInv

(* A step of the call that has the repository lock.                        *)
LEMMA KeptLocked ==
  ASSUME Known, NEW w \in Worker, OthersRest(w), pc[w] \in Locking, UNCHANGED <<phase, holder>>,
         WorkIsKept', tree'.here \/ tree' = NoTree,
         target \subseteq target', remote \subseteq remote',
         job[w].kind = "repair" => UNCHANGED <<made, merged>>,
         job[w].kind # "repair" /\ Recorded => Recorded',
         ws'.kind = "plain" => ws.kind = "plain",
         ws'.kind = "repair" => ws.kind = "repair" \/ job[w].kind = "repair",
         merged.state # "none" => merged'.state # "none",
         merged'.state # "none" => merged.state # "none" \/ pc[w] = "recording",
         Recorded' => Delivered' /\ (tree'.here => Clean'),
         Recorded' /\ tree'.here /\ job[w].kind = "merge" => Cleaner(w)',
         Recorded' /\ tree'.here /\ ws'.kind # "none" /\ job[w].kind # "merge" =>
           job[w].kind = "recovery" /\ job'[w].kind = "recovery" /\ pc'[w] # "reporting",
         Settled(w)' => pc'[w] \notin Locking,
         CallFits(w)'
  PROVE  KeptInv'
<1>1. /\ SharedFits /\ phase \notin AtWork
      /\ \A v \in Worker : CallFits(v) /\ v # NoWorker /\ v # "gone" /\ JobFits(pc[v], job[v])
      /\ \A v \in Worker : v # w => pc[v] \notin Locking /\ pc'[v] = pc[v] /\ job'[v] = job[v]
      /\ \A v \in Worker : holder = v => phase = IF job[v].kind = "repair"
                                                 THEN "awaiting_pr_closure" ELSE "merging"
      /\ \A v \in Worker : job[v].kind \in {"recovery", "repair"} => holder = v
      /\ job[w].kind \in {"merge", "recovery", "repair"}
  BY Knowledge, Places DEF OthersRest, JobFits
<1>2. phase # "done" /\ (phase = "awaiting_pr_closure" => job[w].kind = "repair")
  BY <1>1 DEF SharedFits, CallFits, PlaceFits
<1>3. \A v \in Worker : v # w => ~Settled(v)' /\ (Cleaner(v)' <=> Cleaner(v)) /\ ~Cleaner(v)
  BY <1>1, Places DEF SharedFits, Settled, Cleaner
<1>4. SharedFits'
  <2>1. phase = "awaiting_pr_closure" => /\ Delivered' /\ merged'.state = "none"
                                         /\ ws'.kind # "plain"
    BY <1>1, <1>2 DEF SharedFits, Delivered
  <2>2. (\E v \in Worker : Settled(v)') => \A v \in Worker : pc'[v] \notin Locking
    BY <1>1, <1>3
  <2>3. Recorded' /\ ws'.kind # "none" /\ tree'.here => Pending' \/ \E z \in Worker : Cleaner(z)'
    <3>1. CASE job[w].kind = "merge"
      BY <3>1
    <3>2. CASE /\ job[w].kind = "recovery" /\ job'[w].kind = "recovery"
               /\ pc'[w] # "reporting"
      <4>1. holder = w /\ phase = "merging"
        BY <1>1, <3>2
      <4>. QED BY <3>2, <4>1 DEF Pending
    <3>. QED BY <3>1, <3>2
  <2>. QED BY <1>1, <1>2, <2>1, <2>2, <2>3 DEF SharedFits
<1>5. ASSUME NEW v \in Worker, v # w PROVE CallFits(v)'
  <2>. /\ CallFits(v) /\ pc'[v] = pc[v] /\ job'[v] = job[v] /\ pc[v] \notin Locking
       /\ pc[v] \notin Cleanup
       /\ JobFits(pc[v], job[v])
    BY <1>1, <1>5, Places
  <2>1. PlaceFits(v)'
    BY Places DEF PlaceFits
  <2>2. RecordFits(v)'
    <3>1. job[v].kind = "merge" /\ holder = v => job[w].kind = "merge"
      BY <1>1, <1>5
    <3>. QED BY <3>1, Places DEF RecordFits
  <2>3. RecoveryFits(v)'
    <3>1. job[v].kind = "recovery" => job[w].kind = "merge"
      BY <1>1, <1>5
    <3>2. pc[w] = "recording" => ~Recorded
      BY <1>1 DEF CallFits, RecordFits
    <3>. QED BY <3>1, <3>2 DEF CallFits, RecoveryFits, Recorded
  <2>4. OutcomeFits(v)'
    BY <1>3, <1>5 DEF OutcomeFits
  <2>. QED BY <2>1, <2>2, <2>3, <2>4 DEF CallFits
<1>. QED BY <1>4, <1>5 DEF KeptInv

-----------------------------------------------------------------------------
(* Where a call is after its step.                                         *)
LEMMA IdleFits ==
  ASSUME NEW w \in Worker, pc'[w] = "idle", job'[w] = NoJob
  PROVE  CallFits(w)' /\ ~Settled(w)'
<1>1. NoJob.kind = "none" /\ NoJob.route = "none"
  BY DEF NoJob
<1>. QED BY <1>1, Places
     DEF CallFits, PlaceFits, RecordFits, RecoveryFits, OutcomeFits, Settled

LEMMA ConcludeFits ==
  ASSUME Known, NEW w \in Worker, NEW outcome, Conclude(w, outcome),
         ws'.kind \in {ws.kind, "none"}, OutcomeFits(w)' \/ outcome = "blocked"
  PROVE  /\ CallFits(w)' /\ OthersRest(w) /\ UNCHANGED <<phase, holder>>
         /\ pc'[w] = "reporting" /\ job'[w].outcome = outcome
         /\ job'[w].kind = job[w].kind /\ job'[w].route = job[w].route
         /\ outcome = "blocked" => ~Settled(w)'
<1>1. pc \in [Worker -> Place] /\ job \in [Worker -> Job] /\ job[w] \in Job /\ CallFits(w)
  BY Knowledge DEF Known, Inv, ControlTypeOK
<1>2. /\ OthersRest(w) /\ UNCHANGED <<phase, holder>>
      /\ pc'[w] = "reporting" /\ job'[w].outcome = outcome
      /\ job'[w].kind = job[w].kind /\ job'[w].route = job[w].route
  BY <1>1 DEF Conclude, Leave, OthersRest, Job
<1>3. PlaceFits(w)' /\ RecordFits(w)'
  BY <1>2, Places DEF PlaceFits, RecordFits
<1>4. RecoveryFits(w)'
  BY <1>1, <1>2 DEF CallFits, RecoveryFits
<1>5. (outcome = "blocked" => ~Settled(w)') /\ OutcomeFits(w)'
  BY <1>2 DEF Settled, OutcomeFits
<1>. QED BY <1>2, <1>3, <1>4, <1>5 DEF CallFits

(* A call that goes on has nothing to write yet.                           *)
LEMMA GoingFits ==
  ASSUME NEW w \in Worker, pc'[w] # "reporting"
  PROVE  OutcomeFits(w)' /\ ~Settled(w)'
  BY DEF OutcomeFits, Settled

-----------------------------------------------------------------------------
(* The steps without the repository lock.                                  *)
LEMMA KeptStartMerge == ASSUME Known, NEW w \in Worker, StartMerge(w) PROVE KeptInv'
<1>1. Effects(w)
  BY EffectsOfMerge DEF Known
<1>2. /\ pc[w] = "idle" /\ pc'[w] = "reading" /\ job'[w].kind = "merge" /\ job'[w].route = "none"
      /\ phase = "ready_for_merge" /\ phase' = "merging" /\ UNCHANGED <<git, files>>
  BY DEF StartMerge, Begin, Known, Inv, ControlTypeOK, NoJob
<1>3. PlaceFits(w)' /\ RecordFits(w)' /\ RecoveryFits(w)' /\ OutcomeFits(w)' /\ ~Settled(w)'
  BY <1>2, Places, GoingFits DEF PlaceFits, RecordFits, RecoveryFits
<1>. QED BY <1>1, <1>2, <1>3, Places, KeptFree DEF CallFits, Pending

LEMMA KeptReadSpace == ASSUME Known, NEW w \in Worker, ReadSpace(w) PROVE KeptInv'
<1>1. Effects(w)
  BY EffectsOfMerge DEF Known
<1>2. pc[w] = "reading" /\ job[w].kind = "merge" /\ UNCHANGED <<git, files, ws>>
  BY DEF ReadSpace, files
<1>3. UNCHANGED <<phase, holder>>
  BY DEF ReadSpace, Conclude, Leave, Goto
<1>4. Pending => Pending'
  <2>1. \A v \in Worker : v # w => pc'[v] = pc[v] /\ job'[v] = job[v]
    BY <1>1 DEF Effects, OthersRest
  <2>. QED BY <1>2, <1>3, <2>1 DEF Pending
<1>5. CASE Conclude(w, "blocked")
  BY <1>1, <1>2, <1>3, <1>4, <1>5, Places, ConcludeFits, KeptFree
<1>6. CASE /\ Goto(w, "waiting") /\ job' = [job EXCEPT ![w].source = ws.source]
           /\ holder = w /\ ws.kind # "none"
  <2>1. pc'[w] = "waiting" /\ job'[w].kind = "merge" /\ job'[w].route = "none"
    <3>1. JobFits("reading", job[w]) /\ job[w] \in Job /\ job \in [Worker -> Job]
      BY <1>2 DEF Known, Inv, ControlTypeOK
    <3>2. job[w].route = "none"
      BY <1>2, <3>1, Places DEF JobFits
    <3>. QED BY <1>2, <1>6, <3>1, <3>2 DEF Goto, Job, Known, Inv, ControlTypeOK
  <2>2. Recorded /\ tree.here => \E z \in Worker : Cleaner(z)
    <3>1. ~Pending
      BY <1>2, <1>6, Knowledge DEF Pending
    <3>. QED BY <1>6, <3>1, Knowledge DEF SharedFits
  <2>3. \A z \in Worker : Cleaner(z) => Cleaner(z)'
    BY <1>1, <1>2 DEF Cleaner, Effects, OthersRest
  <2>4. Recorded' = Recorded /\ tree' = tree
    BY <1>2 DEF Recorded, git, files
  <2>5. PlaceFits(w)' /\ RecordFits(w)' /\ RecoveryFits(w)' /\ OutcomeFits(w)' /\ ~Settled(w)'
    BY <2>1, <2>2, <2>3, <2>4, Places, GoingFits DEF PlaceFits, RecordFits, RecoveryFits
  <2>. QED BY <1>1, <1>2, <1>3, <1>4, <2>5, Places, KeptFree DEF CallFits
<1>. QED BY <1>5, <1>6 DEF ReadSpace, Stopped

LEMMA KeptTakeLock == ASSUME Known, NEW w \in Worker, TakeLock(w) PROVE KeptInv'
<1>1. Effects(w)
  BY EffectsOfMerge DEF Known
<1>2. pc[w] = "waiting" /\ UNCHANGED <<git, files, ws, phase, holder>>
  BY DEF TakeLock, Conclude, Leave, files
<1>3. \A v \in Worker : v # w => pc'[v] = pc[v] /\ job'[v] = job[v]
  BY <1>1 DEF Effects, OthersRest
<1>4. CASE Conclude(w, "blocked") /\ job[w].kind = "merge"
  <2>1. Pending => Pending'
    BY <1>2, <1>3, <1>4 DEF Pending
  <2>. QED BY <1>1, <1>2, <1>4, <2>1, Places, ConcludeFits, KeptFree
<1>5. CASE ~(job[w].kind = "merge" /\ Stopped(w))
  <2>1. /\ job[w].kind \in {"merge", "recovery", "repair"} /\ CallFits(w)
        /\ holder = w => phase = IF job[w].kind = "repair" THEN "awaiting_pr_closure" ELSE "merging"
        /\ holder = w
    BY <1>2, <1>5, Knowledge, Places DEF JobFits, Stopped
  <2>2. /\ UNCHANGED job
        /\ pc'[w] = CASE job[w].kind = "merge"    -> "committing"
                      [] job[w].kind = "recovery" -> "deciding"
                      [] job[w].kind = "repair"   -> "recreating"
    BY <1>5 DEF TakeLock, Known, Inv, ControlTypeOK
  <2>3. flock = NoWorker
    BY <1>5 DEF TakeLock
  <2>4. \A z \in Worker : ~Cleaner(z)
    BY <2>3, WorkerAssumption, Places DEF Cleaner, Known, Inv, ControlTypeOK
  <2>5. /\ Recorded' = Recorded /\ UNCHANGED <<tree, merged, job>> /\ pc'[w] # "reporting"
        /\ pc'[w] \notin Cleanup
    BY <1>2, <2>1, <2>2, Places DEF Recorded, git, files
  <2>6. PlaceFits(w)'
    BY <1>2, <2>1, <2>2, Places DEF PlaceFits
  <2>7. RecordFits(w)'
    BY <1>2, <2>1, <2>2, <2>4, <2>5, Places DEF CallFits, RecordFits
  <2>8. RecoveryFits(w)'
    BY <1>2, <2>1, <2>2, <2>5 DEF CallFits, RecoveryFits
  <2>9. Pending => Pending'
    BY <1>2, <1>3, <2>5 DEF Pending
  <2>. QED BY <1>1, <1>2, <2>5, <2>6, <2>7, <2>8, <2>9, Places, GoingFits, KeptFree DEF CallFits
<1>. QED BY <1>4, <1>5 DEF TakeLock

LEMMA KeptClaim == ASSUME Known, NEW w \in Worker, Claim(w) PROVE KeptInv'
<1>1. Effects(w)
  BY EffectsOfRecovery DEF Known
<1>2. /\ pc[w] = "idle" /\ pc'[w] = "reading" /\ job'[w].kind = "recovery"
      /\ job'[w].route = "none" /\ phase' = "merging" /\ holder' = w /\ UNCHANGED <<git, files>>
  BY DEF Claim, Begin, Known, Inv, ControlTypeOK, NoJob
<1>3. PlaceFits(w)' /\ RecordFits(w)' /\ RecoveryFits(w)' /\ OutcomeFits(w)' /\ ~Settled(w)'
  BY <1>2, Places, GoingFits DEF PlaceFits, RecordFits, RecoveryFits
<1>4. Pending'
  BY <1>2 DEF Pending
<1>. QED BY <1>1, <1>2, <1>3, <1>4, Places, KeptFree DEF CallFits

LEMMA KeptLook == ASSUME Known, NEW w \in Worker, Look(w) PROVE KeptInv'
<1>1. Effects(w)
  BY EffectsOfRecovery DEF Known
<1>2. pc[w] = "reading" /\ job[w].kind = "recovery" /\ UNCHANGED <<git, files, phase, holder>>
  BY DEF Look, Conclude, Leave, Goto
<1>3. \A v \in Worker : v # w => pc'[v] = pc[v] /\ job'[v] = job[v]
  BY <1>1 DEF Effects, OthersRest
<1>4. holder = w /\ phase = "merging" /\ job[w] \in Job
  BY <1>2, Knowledge DEF Known, Inv, ControlTypeOK
<1>5. CASE Conclude(w, "blocked") /\ Recovered(w) = NoJob
  <2>1. ~(Recorded /\ ws.kind # "none" /\ tree.here)
    BY <1>2, <1>5 DEF Recovered, ContinueCleanup, PrefersRequest, Recorded, NoJob
  <2>2. ws'.kind = ws.kind
    BY <1>2 DEF files
  <2>. QED BY <1>1, <1>2, <1>5, <2>1, <2>2, Places, ConcludeFits, KeptFree
<1>6. CASE /\ Recovered(w) # NoJob /\ Goto(w, "waiting")
           /\ job' = [job EXCEPT ![w] = Recovered(w)]
  <2>1. pc'[w] = "waiting" /\ job'[w] = Recovered(w)
    BY <1>6 DEF Goto, Known, Inv, ControlTypeOK
  <2>2. /\ job'[w].kind = "recovery"
        /\ job'[w].route \in {"merged", "request", "repair", "plain"}
        /\ job'[w].route = "merged" => merged.state # "none"
        /\ job'[w].route = "request" => merged.state = "none" /\ Recorded
        /\ job'[w].route \in {"repair", "plain"} => ws.kind = job'[w].route
    <3>. PICK j : j = Recovered(w)
      OBVIOUS
    <3>1. CASE merged.state # "none"
      <4>1. j.kind = "recovery" /\ j.route = "merged"
        BY <3>1 DEF Recovered, ContinueCleanup, NoJob
      <4>. QED BY <2>1, <3>1, <4>1
    <3>2. CASE merged.state = "none" /\ PrefersRequest
      <4>1. j.kind = "recovery" /\ j.route = "request"
        BY <3>2 DEF Recovered, ContinueCleanup, NoJob
      <4>. QED BY <2>1, <3>2, <4>1 DEF PrefersRequest, Recorded
    <3>3. CASE merged.state = "none" /\ ~PrefersRequest
      <4>1. j = [job[w] EXCEPT !.route = ws.kind, !.source = ws.source]
        BY <1>6, <3>3 DEF Recovered
      <4>2. j.kind = "recovery" /\ j.route = ws.kind /\ ws.kind \in {"plain", "repair"}
        <5>1. ws.kind \in {"none", "plain", "repair"} /\ ws.kind # "none"
          BY <1>6, <3>3 DEF Recovered, Known, Inv, DataTypeOK
        <5>. QED BY <1>2, <1>4, <4>1, <5>1 DEF Job
      <4>. QED BY <2>1, <4>2
    <3>. QED BY <3>1, <3>2, <3>3
  <2>3. Recorded' = Recorded /\ UNCHANGED <<merged, ws>>
    BY <1>2 DEF Recorded, files
  <2>4. PlaceFits(w)' /\ RecordFits(w)' /\ OutcomeFits(w)' /\ ~Settled(w)'
    BY <2>1, <2>2, Places, GoingFits DEF PlaceFits, RecordFits
  <2>5. RecoveryFits(w)'
    BY <2>1, <2>2, <2>3 DEF RecoveryFits, Recorded
  <2>6. Pending'
    BY <1>2, <1>4, <2>1, <2>2 DEF Pending
  <2>. QED BY <1>1, <1>2, <2>4, <2>5, <2>6, Places, KeptFree DEF CallFits
<1>. QED BY <1>5, <1>6 DEF Look

LEMMA KeptStartRepair == ASSUME Known, NEW w \in Worker, StartRepair(w) PROVE KeptInv'
<1>1. Effects(w)
  BY EffectsOfRepair DEF Known
<1>2. /\ pc[w] = "idle" /\ pc'[w] = "waiting" /\ job'[w].kind = "repair"
      /\ job'[w].route = "none" /\ phase' = phase /\ phase = "awaiting_pr_closure"
      /\ UNCHANGED <<git, files>>
  BY DEF StartRepair, Begin, Known, Inv, ControlTypeOK, NoJob
<1>3. PlaceFits(w)' /\ RecordFits(w)' /\ RecoveryFits(w)' /\ OutcomeFits(w)' /\ ~Settled(w)'
  BY <1>2, Places, GoingFits DEF PlaceFits, RecordFits, RecoveryFits
<1>. QED BY <1>1, <1>2, <1>3, Places, KeptFree DEF CallFits, Pending

LEMMA KeptReport == ASSUME Known, NEW w \in Worker, Report(w) PROVE KeptInv'
<1>1. Effects(w)
  BY EffectsOfEnds DEF Known
<1>2. /\ pc[w] = "reporting" /\ pc'[w] = "idle" /\ job'[w] = NoJob /\ UNCHANGED <<git, files>>
      /\ IF holder = w THEN phase' = job[w].outcome /\ holder' = NoWorker
                       ELSE UNCHANGED <<phase, holder>>
  BY DEF Report, Known, Inv, ControlTypeOK
<1>3. phase' \in {phase, "blocked"} \/ (Settled(w) /\ phase' = job[w].outcome)
  BY <1>2 DEF Settled
<1>4. Pending => Pending'
  <2>1. \A v \in Worker : v # w => pc'[v] = pc[v] /\ job'[v] = job[v]
    BY <1>1 DEF Effects, OthersRest
  <2>. QED BY <1>2, <2>1, WorkerAssumption DEF Pending
<1>. QED BY <1>1, <1>2, <1>3, <1>4, Places, IdleFits, KeptFree

(* A process that crashes in a cleanup it was not stopped in leaves it to  *)
(* a recovery.                                                             *)
LEMMA KeptCrash == ASSUME Known, NEW w \in Worker, Crash(w) PROVE KeptInv'
<1>1. /\ UNCHANGED <<phase, git, files>> /\ pc'[w] = "idle" /\ job'[w] = NoJob
      /\ holder' = IF holder = w THEN "gone" ELSE holder
      /\ pc[w] \in Cleanup => holder = w
      /\ \A v \in Worker : v # w => pc'[v] = pc[v] /\ job'[v] = job[v]
  BY DEF Crash, Known, Careful, Inv, ControlTypeOK, Stopped
<1>. /\ UNCHANGED <<tree, made, target, remote, merged, request, ws>>
     /\ Delivered' = Delivered /\ Recorded' = Recorded /\ WorkIsKept' = WorkIsKept /\ Clean' = Clean
  BY <1>1 DEF git, files, Delivered, Recorded, WorkIsKept, Clean
<1>2. /\ SharedFits /\ \A v \in Worker : CallFits(v) /\ v # NoWorker /\ v # "gone"
      /\ \A v \in Worker : holder = v => phase = IF job[v].kind = "repair"
                                                 THEN "awaiting_pr_closure" ELSE "merging"
      /\ \A v \in Worker : job[v].kind \in {"recovery", "repair"} => holder = v
  BY Knowledge
<1>3. \A v \in Worker : v # w => /\ holder' = v => holder = v
                                 /\ Cleaner(v)' <=> Cleaner(v)
                                 /\ Settled(v)' => Settled(v)
  BY <1>1, <1>2 DEF Cleaner, Settled
<1>4. CallFits(w)' /\ ~Settled(w)'
  BY <1>1, IdleFits
<1>5. SharedFits'
  <2>1. phase' = "done" \/ (\E v \in Worker : Settled(v)') => \A v \in Worker : pc'[v] \notin Locking
    BY <1>1, <1>2, <1>3, <1>4, Places DEF SharedFits
  <2>2. Pending \/ (\E z \in Worker : Cleaner(z)) => Pending' \/ \E z \in Worker : Cleaner(z)'
    <3>1. CASE Pending
      BY <1>1, <3>1 DEF Pending
    <3>2. CASE Cleaner(w)
      BY <1>1, <1>2, <3>2, Places DEF Cleaner, Pending
    <3>3. CASE \E z \in Worker : z # w /\ Cleaner(z)
      BY <1>3, <3>3
    <3>. QED BY <3>1, <3>2, <3>3
  <2>. QED BY <1>1, <1>2, <2>1, <2>2 DEF SharedFits
<1>6. ASSUME NEW v \in Worker, v # w PROVE CallFits(v)'
  <2>. CallFits(v) /\ pc'[v] = pc[v] /\ job'[v] = job[v]
    BY <1>1, <1>2, <1>6
  <2>1. PlaceFits(v)'
    BY <1>1 DEF CallFits, PlaceFits
  <2>2. RecordFits(v)'
    <3>1. holder' = v => \A z \in Worker : Cleaner(z) => Cleaner(z)'
      BY <1>1, <1>3, <1>6, Places DEF Cleaner
    <3>. QED BY <1>3, <1>6, <3>1 DEF CallFits, RecordFits
  <2>3. RecoveryFits(v)'
    BY DEF CallFits, RecoveryFits
  <2>4. OutcomeFits(v)'
    BY <1>3, <1>6 DEF CallFits, OutcomeFits
  <2>. QED BY <2>1, <2>2, <2>3, <2>4 DEF CallFits
<1>. QED BY <1>4, <1>5, <1>6 DEF KeptInv

-----------------------------------------------------------------------------
(* The steps under the repository lock, first those that leave the         *)
(* worktree and the files alone.                                           *)
LEMMA Repairing ==
  ASSUME Known, NEW w \in Worker, job[w].kind = "repair"
  PROVE  /\ phase = "awaiting_pr_closure" /\ holder = w /\ Delivered /\ merged.state = "none"
         /\ ws.kind \in {"none", "repair"} /\ ~(Recorded /\ ws.kind # "none")
  BY Knowledge DEF SharedFits, Recorded, Known, Inv, DataTypeOK

LEMMA Merging ==
  ASSUME Known, NEW w \in Worker, job[w].kind = "merge", pc[w] \in Locking
  PROVE  /\ phase # "awaiting_pr_closure" /\ CallFits(w)
         /\ pc[w] # "removing" => ~(Recorded /\ tree.here)
<1>1. CallFits(w) /\ JobFits(pc[w], job[w])
  BY Knowledge
<1>2. phase # "awaiting_pr_closure"
  BY <1>1 DEF CallFits, PlaceFits
<1>3. pc[w] \in {"committing", "integrating", "finalizing", "opening"} \cup Cleanup
  BY <1>1 DEF JobFits, Locking
<1>4. ASSUME Recorded, tree.here PROVE pc[w] = "removing"
  <2>1. pc[w] \notin {"committing", "integrating", "finalizing", "opening", "recording"}
    BY <1>1, <1>4 DEF CallFits, RecordFits
  <2>2. pc[w] \notin {"marking", "forgetting", "pruning"}
    BY <1>1, <1>4 DEF CallFits, PlaceFits
  <2>. QED BY <1>3, <2>1, <2>2, Places
<1>. QED BY <1>1, <1>2, <1>4

LEMMA KeptCalm ==
  ASSUME Known, NEW w \in Worker, OthersRest(w), pc[w] \in Locking,
         UNCHANGED <<phase, holder, made, tree, files>>,
         target \subseteq target', remote \subseteq remote',
         Recorded /\ tree.here /\ job[w].kind = "merge" => Cleaner(w)',
         Recorded /\ tree.here /\ ws.kind # "none" /\ job[w].kind = "recovery" =>
           job'[w].kind = "recovery" /\ pc'[w] # "reporting",
         Settled(w)' => pc'[w] \notin Locking,
         CallFits(w)'
  PROVE  KeptInv'
<1>1. /\ UNCHANGED <<merged, request, ws>> /\ Recorded' = Recorded /\ Clean' = Clean
      /\ Delivered => Delivered'
  BY DEF files, Recorded, Clean, Delivered
<1>2. SharedFits /\ job[w].kind \in {"merge", "recovery", "repair"}
  BY Knowledge, Places DEF JobFits
<1>3. WorkIsKept' /\ (tree'.here \/ tree' = NoTree)
  BY <1>2 DEF SharedFits, WorkIsKept
<1>4. Recorded' => Delivered' /\ (tree'.here => Clean')
  BY <1>1, <1>2 DEF SharedFits
<1>5. Recorded' /\ tree'.here /\ ws'.kind # "none" /\ job[w].kind # "merge" =>
        job[w].kind = "recovery" /\ job'[w].kind = "recovery" /\ pc'[w] # "reporting"
  BY <1>1, <1>2, Repairing
<1>. QED BY <1>1, <1>3, <1>4, <1>5, KeptLocked

LEMMA KeptGitFails == ASSUME Known, NEW w \in Worker, GitFails(w) PROVE KeptInv'
<1>1. /\ pc[w] \in Locking \ Cleanup /\ job[w].kind # "recovery" /\ UNCHANGED <<git, files>>
      /\ UNCHANGED <<made, tree, target, remote, ws>> /\ Conclude(w, "blocked")
  BY Places DEF GitFails, Known, Careful, git, files
<1>2. job[w].kind = "merge" => ~(Recorded /\ tree.here)
  BY <1>1, Places, Merging
<1>. QED BY <1>1, <1>2, ConcludeFits, KeptCalm, Places

LEMMA KeptLand == ASSUME Known, NEW w \in Worker, Land(w) PROVE KeptInv'
<1>1. /\ pc[w] = "finalizing" /\ pc'[w] = "recording" /\ OthersRest(w)
      /\ job'[w].kind = job[w].kind /\ job'[w].route = "merged"
      /\ UNCHANGED <<phase, holder, made, tree, remote, files, merged, ws, request>>
  BY DEF Land, RecordIn, Goto, OthersRest, Known, Inv, ControlTypeOK, Job, files
<1>2. /\ job[w].kind = "merge" /\ CallFits(w) /\ SharedFits /\ phase # "awaiting_pr_closure"
      /\ ~Recorded
  BY <1>1, Knowledge, Merging, Places DEF JobFits, CallFits, RecordFits
<1>3. target \subseteq target' /\ Delivered'
  <2>1. target \cup job[w].head \subseteq target'
    BY DEF Land
  <2>2. made \subseteq target \cup remote \cup tree.head /\ tree.head \subseteq job[w].head
    BY <1>1, <1>2 DEF SharedFits, WorkIsKept, CallFits, PlaceFits
  <2>. QED BY <1>1, <2>1, <2>2 DEF Delivered
<1>4. PlaceFits(w)'
  BY <1>1, <1>2, <1>3, Places DEF CallFits, PlaceFits, Clean
<1>5. RecordFits(w)' /\ RecoveryFits(w)' /\ OutcomeFits(w)' /\ ~Settled(w)'
  BY <1>1, <1>2, Places, GoingFits DEF RecordFits, RecoveryFits, Recorded
<1>. QED BY <1>1, <1>2, <1>3, <1>4, <1>5, Places, KeptCalm DEF CallFits

LEMMA KeptPush == ASSUME Known, NEW w \in Worker, Push(w) PROVE KeptInv'
<1>1. /\ pc[w] = "finalizing" /\ job[w].kind = "merge" /\ CallFits(w) /\ SharedFits
      /\ phase # "awaiting_pr_closure" /\ ~Recorded
      /\ UNCHANGED <<made, tree, target, files, merged, ws, request>>
  <2>1. pc[w] = "finalizing" /\ UNCHANGED <<made, tree, target, files, merged, ws, request>>
    BY DEF Push, files
  <2>. QED BY <2>1, Knowledge, Merging, Places DEF JobFits, CallFits, RecordFits
<1>2. CASE Conclude(w, "blocked") /\ UNCHANGED remote
  BY <1>1, <1>2, Places, ConcludeFits, KeptCalm
<1>3. CASE remote' = job[w].head /\ Step(w, "opening")
  <2>1. /\ pc'[w] = "opening" /\ OthersRest(w) /\ UNCHANGED <<phase, holder, job>>
    BY <1>3 DEF Step, Goto, OthersRest, Known, Inv, ControlTypeOK
  <2>2. remote \subseteq remote'
    BY <1>1, <1>3 DEF Known, CareInv, RemoteFits, PushFits
  <2>3. Delivered'
    BY <1>1, <1>3, <2>2 DEF SharedFits, WorkIsKept, CallFits, PlaceFits, Delivered
  <2>4. PlaceFits(w)'
    BY <1>1, <2>1, <2>3, Places DEF CallFits, PlaceFits, Clean
  <2>5. RecordFits(w)' /\ RecoveryFits(w)' /\ OutcomeFits(w)' /\ ~Settled(w)'
    BY <1>1, <2>1, Places, GoingFits DEF RecordFits, RecoveryFits, Recorded
  <2>. QED BY <1>1, <2>1, <2>2, <2>4, <2>5, Places, KeptCalm DEF CallFits
<1>. QED BY <1>2, <1>3 DEF Push

LEMMA KeptOpenPullRequest == ASSUME Known, NEW w \in Worker, OpenPullRequest(w) PROVE KeptInv'
<1>1. /\ pc[w] = "opening" /\ pc'[w] = "recording" /\ OthersRest(w)
      /\ job'[w].kind = job[w].kind /\ job'[w].route = "request"
      /\ UNCHANGED <<phase, holder, made, tree, target, remote, files, merged, ws, request>>
  BY DEF OpenPullRequest, RecordIn, Goto, OthersRest, Known, Inv, ControlTypeOK, Job, files
<1>2. /\ job[w].kind = "merge" /\ CallFits(w) /\ SharedFits /\ phase # "awaiting_pr_closure"
      /\ ~Recorded
  BY <1>1, Knowledge, Merging, Places DEF JobFits, CallFits, RecordFits
<1>3. PlaceFits(w)'
  BY <1>1, <1>2, Places DEF CallFits, PlaceFits, Clean, Delivered
<1>4. RecordFits(w)' /\ RecoveryFits(w)' /\ OutcomeFits(w)' /\ ~Settled(w)'
  BY <1>1, <1>2, Places, GoingFits DEF RecordFits, RecoveryFits, Recorded
<1>. QED BY <1>1, <1>2, <1>3, <1>4, Places, KeptCalm DEF CallFits

LEMMA KeptPruneBranches == ASSUME Known, NEW w \in Worker, PruneBranches(w) PROVE KeptInv'
<1>1. /\ pc[w] = "pruning" /\ UNCHANGED <<git, files>> /\ CallFits(w) /\ pc[w] \in Locking
      /\ UNCHANGED <<made, tree, target, remote, merged, request, ws>>
  BY Knowledge, Places DEF PruneBranches, git, files
<1>2. ws.kind = "none" /\ Delivered /\ (job[w].kind = "merge" => ~tree.here)
  BY <1>1, Places DEF CallFits, PlaceFits
<1>3. CASE Raise(w)
  <2>1. /\ pc'[w] = "idle" /\ job'[w] = NoJob /\ OthersRest(w) /\ UNCHANGED <<phase, holder>>
    BY <1>3 DEF Raise, Leave, OthersRest, Known, Inv, ControlTypeOK
  <2>. QED BY <1>1, <1>2, <2>1, IdleFits, KeptCalm
<1>4. ASSUME NEW outcome \in {"blocked", "awaiting_pr_closure", "done"}, Conclude(w, outcome),
             outcome = "awaiting_pr_closure" => job[w].route = "request"
      PROVE  KeptInv'
  <2>1. job'[w].outcome = outcome
    BY <1>4 DEF Conclude, Known, Inv, ControlTypeOK, Job
  <2>2. OutcomeFits(w)'
    BY <1>1, <1>2, <1>4, <2>1, Places
       DEF OutcomeFits, AtWork, Delivered, CallFits, RecordFits
  <2>3. "reporting" \notin Locking /\ ws'.kind \in {ws.kind, "none"}
    BY <1>1, Places
  <2>. QED BY <1>1, <1>2, <1>4, <2>2, <2>3, ConcludeFits, KeptCalm
<1>. QED BY <1>3, <1>4 DEF PruneBranches

(* What recovery reads again is the latest word on the records.            *)
LEMMA Deciding ==
  ASSUME Known, NEW w \in Worker, pc[w] = "deciding", NEW j, j = Reread(w)
  PROVE  /\ job[w].kind = "recovery" /\ holder = w /\ phase = "merging" /\ CallFits(w)
         /\ j.route = "merged" => merged.state # "none"
         /\ j.route = "request" => merged.state = "none"
         /\ j.route \in {"merged", "request"} => j.kind = "recovery" /\ Recorded
         /\ j.route \notin {"merged", "request"} => ~Recorded
<1>1. /\ job[w].kind = "recovery" /\ holder = w /\ phase = "merging" /\ CallFits(w)
      /\ job[w] \in Job /\ ws.kind \in {"none", "plain", "repair"}
  BY Knowledge DEF JobFits, Known, Inv, ControlTypeOK, DataTypeOK
<1>2. CASE job[w].route \in {"merged", "request"}
  BY <1>1, <1>2 DEF CallFits, RecoveryFits, Reread
<1>3. CASE job[w].route \notin {"merged", "request"} /\ merged.state # "none"
  <2>1. j.route = "merged" /\ j.kind = "recovery"
    BY <1>3 DEF Reread, ContinueCleanup, NoJob
  <2>. QED BY <1>1, <1>3, <2>1 DEF Recorded
<1>4. CASE job[w].route = "plain" /\ merged.state = "none"
  <2>1. ws.kind # "repair"
    BY <1>1, <1>4 DEF CallFits, RecoveryFits
  <2>2. CASE request.state # "none"
    <3>1. j.route = "request" /\ j.kind = "recovery"
      BY <1>4, <2>2 DEF Reread, ContinueCleanup, NoJob
    <3>. QED BY <1>1, <1>4, <2>1, <2>2, <3>1 DEF Recorded
  <2>3. CASE request.state = "none"
    BY <1>1, <1>4, <2>3 DEF Reread, Recorded
  <2>. QED BY <2>2, <2>3
<1>5. CASE job[w].route = "repair" /\ merged.state = "none"
  <2>1. CASE ws.kind # "none"
    <3>1. ws.kind = "repair"
      BY <1>1, <1>5, <2>1 DEF CallFits, RecoveryFits
    <3>2. j.route = "repair"
      BY <1>1, <1>5, <2>1 DEF Reread, Job
    <3>. QED BY <1>1, <1>5, <3>1, <3>2 DEF Recorded
  <2>2. CASE ws.kind = "none" /\ request.state # "none"
    <3>1. j.route = "request" /\ j.kind = "recovery"
      BY <1>5, <2>2 DEF Reread, ContinueCleanup, NoJob
    <3>. QED BY <1>1, <1>5, <2>2, <3>1 DEF Recorded
  <2>3. CASE ws.kind = "none" /\ request.state = "none"
    BY <1>1, <1>5, <2>3 DEF Reread, NoJob, Recorded
  <2>. QED BY <2>1, <2>2, <2>3
<1>6. job[w].route \in {"merged", "request", "repair", "plain"}
  BY <1>1 DEF CallFits, RecoveryFits
<1>. QED BY <1>2, <1>3, <1>4, <1>5, <1>6

LEMMA KeptDecideCleanup == ASSUME Known, NEW w \in Worker, DecideCleanup(w) PROVE KeptInv'
<1>. PICK j : j = Reread(w)
  OBVIOUS
<1>1. /\ pc[w] = "deciding" /\ pc'[w] \in {"forgetting", "removing"} /\ job'[w] = j
      /\ j.route \in {"merged", "request"} /\ OthersRest(w)
      /\ UNCHANGED <<phase, holder, made, tree, target, remote, files, merged, request, ws>>
  BY DEF DecideCleanup, Goto, OthersRest, Known, Inv, ControlTypeOK, git, files
<1>2. /\ job[w].kind = "recovery" /\ phase = "merging" /\ SharedFits /\ Recorded
      /\ j.kind = "recovery" /\ (j.route = "request" <=> merged.state = "none")
  BY <1>1, Deciding, Knowledge
<1>3. PlaceFits(w)'
  BY <1>1, <1>2, Places DEF PlaceFits, SharedFits, Clean, Delivered
<1>4. RecordFits(w)' /\ RecoveryFits(w)' /\ OutcomeFits(w)' /\ ~Settled(w)'
  BY <1>1, <1>2, Places, GoingFits DEF RecordFits, RecoveryFits, Recorded
<1>. QED BY <1>1, <1>2, <1>3, <1>4, Places, KeptCalm DEF CallFits

LEMMA KeptDecides ==
  ASSUME Known, NEW w \in Worker, SourceIsDirty(w) \/ DecideFromTree(w)
  PROVE  KeptInv'
<1>. PICK j : j = Reread(w)
  OBVIOUS
<1>1. /\ pc[w] = "deciding" /\ j.route \notin {"merged", "request"}
      /\ UNCHANGED <<git, made, tree, target, remote, files, merged, request, ws>>
  BY DEF SourceIsDirty, DecideFromTree, git, files
<1>2. /\ job[w].kind = "recovery" /\ phase = "merging" /\ SharedFits /\ ~Recorded /\ ~Recorded'
  BY <1>1, Deciding, Knowledge DEF Recorded
<1>3. ASSUME NEW outcome \in {"blocked", "resolving", "ready_for_merge"}, Conclude(w, outcome)
      PROVE  KeptInv'
  <2>1. job'[w].outcome = outcome
    BY <1>3 DEF Conclude, Known, Inv, ControlTypeOK, Job
  <2>2. OutcomeFits(w)'
    BY <1>2, <2>1 DEF OutcomeFits
  <2>. QED BY <1>1, <1>2, <1>3, <2>2, Places, ConcludeFits, KeptCalm
<1>4. CASE Raise(w)
  <2>1. /\ pc'[w] = "idle" /\ job'[w] = NoJob /\ OthersRest(w) /\ UNCHANGED <<phase, holder>>
    BY <1>4 DEF Raise, Leave, OthersRest, Known, Inv, ControlTypeOK
  <2>. QED BY <1>1, <1>2, <2>1, Places, IdleFits, KeptCalm
<1>5. CASE /\ AlreadyLanded(j.source) /\ Clean /\ Goto(w, "recording")
           /\ job' = [job EXCEPT ![w].route = "landed", ![w].head = tree.head]
  <2>1. /\ pc'[w] = "recording" /\ job'[w].kind = "recovery" /\ job'[w].route = "landed"
        /\ OthersRest(w) /\ UNCHANGED <<phase, holder>>
    <3>1. job[w] \in Job /\ job \in [Worker -> Job] /\ pc \in [Worker -> Place]
      BY DEF Known, Inv, ControlTypeOK
    <3>. QED BY <1>2, <1>5, <3>1 DEF Goto, OthersRest, Job
  <2>2. Delivered
    BY <1>2, <1>5 DEF AlreadyLanded, SharedFits, WorkIsKept, Delivered
  <2>3. PlaceFits(w)'
    BY <1>1, <1>2, <1>5, <2>1, <2>2, Places DEF PlaceFits, Clean, Delivered
  <2>4. RecordFits(w)' /\ RecoveryFits(w)' /\ OutcomeFits(w)' /\ ~Settled(w)'
    BY <1>2, <2>1, Places, GoingFits DEF RecordFits, RecoveryFits
  <2>. QED BY <1>1, <1>2, <2>1, <2>3, <2>4, Places, KeptCalm DEF CallFits
<1>. QED BY <1>3, <1>4, <1>5 DEF SourceIsDirty, DecideFromTree

-----------------------------------------------------------------------------
(* The steps of a merge that change the worktree.                          *)
LEMMA KeptCommitWork == ASSUME Known, NEW w \in Worker, CommitWork(w) PROVE KeptInv'
<1>1. /\ pc[w] = "committing" /\ tree.here
      /\ UNCHANGED <<target, remote, files, merged, request, ws>>
  BY DEF CommitWork, files
<1>2. /\ job[w].kind = "merge" /\ CallFits(w) /\ SharedFits /\ phase # "awaiting_pr_closure"
      /\ ~Recorded /\ ~Recorded'
  BY <1>1, Knowledge, Merging, Places DEF JobFits, CallFits, RecordFits, Recorded
<1>3. tree'.here /\ WorkIsKept' /\ Clean'
  <2>1. CASE Clean
    BY <1>1, <1>2, <2>1 DEF CommitWork, Clean, SharedFits, WorkIsKept
  <2>2. CASE ~Clean
    <3>1. CommitTree /\ tree \in Tree
      BY <2>2 DEF CommitWork, Known, Inv, DataTypeOK
    <3>2. /\ tree'.here /\ tree.head \cup {NewCommit} \subseteq tree'.head
          /\ ~tree'.dirty /\ tree'.theirs = {} /\ made' = made \cup {NewCommit}
      BY <1>1, <3>1 DEF CommitTree, Tree
    <3>. QED BY <1>1, <1>2, <3>2 DEF SharedFits, WorkIsKept, Clean
  <2>. QED BY <2>1, <2>2
<1>4. CASE Conclude(w, "blocked")
  BY <1>1, <1>2, <1>3, <1>4, Places, ConcludeFits, KeptLocked
<1>5. CASE Step(w, "integrating")
  <2>1. pc'[w] = "integrating" /\ OthersRest(w) /\ UNCHANGED <<phase, holder, job>>
    BY <1>5 DEF Step, Goto, OthersRest, Known, Inv, ControlTypeOK
  <2>2. PlaceFits(w)' /\ RecordFits(w)' /\ RecoveryFits(w)' /\ OutcomeFits(w)' /\ ~Settled(w)'
    BY <1>2, <1>3, <2>1, Places, GoingFits DEF PlaceFits, RecordFits, RecoveryFits
  <2>. QED BY <1>1, <1>2, <1>3, <2>1, <2>2, Places, KeptLocked DEF CallFits
<1>. QED BY <1>4, <1>5 DEF CommitWork

LEMMA KeptIntegrate == ASSUME Known, NEW w \in Worker, Integrate(w) PROVE KeptInv'
<1>1. /\ pc[w] = "integrating" /\ tree.here /\ tree \in Tree
      /\ UNCHANGED <<target, remote, made, files, merged, request, ws>>
  BY DEF Integrate, files, Known, Inv, DataTypeOK
<1>2. /\ job[w].kind = "merge" /\ CallFits(w) /\ SharedFits /\ phase # "awaiting_pr_closure"
      /\ ~Recorded /\ ~Recorded' /\ Clean
  BY <1>1, Knowledge, Merging, Places DEF JobFits, CallFits, PlaceFits, RecordFits, Recorded
<1>3. PICK t \in Merges([tree EXCEPT !.branch = TRUE], target) :
        /\ MergeGives(t)
        /\ IF t.theirs # {} THEN Conclude(w, "resolving")
           ELSE IF Stopped(w) THEN Conclude(w, "blocked")
           ELSE Goto(w, "finalizing") /\ job' = [job EXCEPT ![w].head = t.head]
  BY DEF Integrate
<1>4. tree' = t /\ t.here /\ tree.head \subseteq t.head /\ ~t.dirty
  <2>1. PICK u \in Tree : /\ u = [tree EXCEPT !.branch = TRUE] /\ u.here
                         /\ u.head = tree.head /\ ~u.dirty
    <3>1. [tree EXCEPT !.branch = TRUE] \in Tree
      BY <1>1 DEF Tree
    <3>. QED BY <1>1, <1>2, <3>1 DEF Tree, Clean
  <2>2. t \in Merges(u, target) /\ tree' = t
    BY <1>3, <2>1 DEF MergeGives
  <2>3. CASE t = [u EXCEPT !.head = @ \cup target \cup {NewCommit}]
    BY <2>1, <2>2, <2>3 DEF Tree
  <2>4. CASE t = u \/ t = [u EXCEPT !.theirs = target]
    BY <2>1, <2>2, <2>4 DEF Tree
  <2>. QED BY <2>2, <2>3, <2>4 DEF Merges
<1>5. WorkIsKept'
  BY <1>1, <1>2, <1>4 DEF SharedFits, WorkIsKept
<1>6. ASSUME NEW outcome \in {"resolving", "blocked"}, Conclude(w, outcome) PROVE KeptInv'
  <2>1. job'[w].outcome = outcome
    BY <1>6 DEF Conclude, Known, Inv, ControlTypeOK, Job
  <2>2. OutcomeFits(w)'
    BY <1>2, <2>1 DEF OutcomeFits
  <2>. QED BY <1>1, <1>2, <1>4, <1>5, <1>6, <2>2, Places, ConcludeFits, KeptLocked
<1>7. CASE /\ t.theirs = {} /\ Goto(w, "finalizing")
           /\ job' = [job EXCEPT ![w].head = t.head]
  <2>1. /\ pc'[w] = "finalizing" /\ job'[w].kind = "merge" /\ job'[w].head = t.head
        /\ OthersRest(w) /\ UNCHANGED <<phase, holder>>
    BY <1>2, <1>7 DEF Goto, OthersRest, Known, Inv, ControlTypeOK, Job
  <2>2. PlaceFits(w)'
    BY <1>2, <1>4, <1>7, <2>1, Places DEF PlaceFits, Clean
  <2>3. RecordFits(w)' /\ RecoveryFits(w)' /\ OutcomeFits(w)' /\ ~Settled(w)'
    BY <1>2, <2>1, Places, GoingFits DEF RecordFits, RecoveryFits
  <2>. QED BY <1>1, <1>2, <1>4, <1>5, <2>1, <2>2, <2>3, Places, KeptLocked DEF CallFits
<1>. QED BY <1>3, <1>6, <1>7

-----------------------------------------------------------------------------
(* The steps of a cleanup.                                                 *)
LEMMA Cleaning ==
  ASSUME Known, NEW w \in Worker, pc[w] \in Cleanup
  PROVE  /\ SharedFits /\ CallFits(w) /\ phase # "awaiting_pr_closure" /\ pc[w] \in Locking
         /\ job[w].kind \in {"merge", "recovery"}
         /\ job[w].route \in {"merged", "request", "landed"}
         /\ Delivered /\ (tree.here => Clean)
         /\ job[w].kind = "recovery" /\ pc[w] # "recording" => Recorded
         /\ job[w].kind = "merge" /\ pc[w] \in {"marking", "forgetting", "pruning"} => ~tree.here
<1>1. /\ SharedFits /\ CallFits(w) /\ JobFits(pc[w], job[w]) /\ pc[w] \in Locking
  BY Knowledge, Places
<1>2. /\ job[w].kind \in {"merge", "recovery"}
      /\ job[w].route \in {"merged", "request", "landed"}
  BY <1>1 DEF JobFits
<1>3. /\ phase # "awaiting_pr_closure" /\ Delivered
      /\ job[w].kind = "merge" /\ pc[w] \in {"marking", "forgetting", "pruning"} => ~tree.here
      /\ pc[w] \in {"recording", "removing"} /\ tree.here => Clean
  BY <1>1, <1>2 DEF CallFits, PlaceFits
<1>4. job[w].kind = "recovery" /\ pc[w] # "recording" => Recorded
  <2>1. job[w].route # "request" /\ pc[w] # "recording" => merged.state # "none"
    BY <1>1 DEF CallFits, RecordFits
  <2>2. job[w].kind = "recovery" /\ job[w].route = "request" => Recorded
    BY <1>1, Places DEF CallFits, RecoveryFits
  <2>. QED BY <2>1, <2>2 DEF Recorded
<1>5. tree.here => Clean
  BY <1>1, <1>2, <1>3, <1>4, Places DEF SharedFits
<1>. QED BY <1>1, <1>2, <1>3, <1>4, <1>5

LEMMA KeptRecordResult == ASSUME Known, NEW w \in Worker, RecordResult(w) PROVE KeptInv'
<1>1. /\ pc[w] = "recording" /\ pc'[w] = "removing" /\ OthersRest(w)
      /\ UNCHANGED <<phase, holder, job, tree, made, target, remote, ws>>
  BY DEF RecordResult, Step, Goto, OthersRest, WriteRecord, git, Known, Inv, ControlTypeOK
<1>2. /\ SharedFits /\ CallFits(w) /\ phase # "awaiting_pr_closure" /\ pc[w] \in Locking
      /\ job[w].kind \in {"merge", "recovery"} /\ Delivered /\ (tree.here => Clean)
      /\ job[w].route \in {"merged", "request", "landed"}
  BY <1>1, Cleaning, Places
<1>3. ~Recorded /\ (job[w].route = "request" => merged.state = "none")
  BY <1>1, <1>2, Places DEF CallFits, RecordFits
<1>4. IF job[w].route = "request" THEN UNCHANGED merged ELSE merged'.state = "recorded"
  BY DEF RecordResult, WriteRecord
<1>5. WorkIsKept' /\ Delivered' /\ (tree'.here => Clean') /\ (tree'.here \/ tree' = NoTree)
  BY <1>1, <1>2 DEF SharedFits, WorkIsKept, Delivered, Clean
<1>6. PlaceFits(w)'
  BY <1>1, <1>2, <1>5, Places DEF PlaceFits
<1>7. RecordFits(w)'
  BY <1>1, <1>3, <1>4, Places DEF RecordFits
<1>8. RecoveryFits(w)'
  BY <1>1, <1>2, <1>3 DEF CallFits, RecoveryFits
<1>9. merged.state # "none" => merged'.state # "none"
  BY <1>4
<1>10. Cleaner(w)' \/ job[w].kind # "merge"
  BY <1>1 DEF Cleaner
<1>. QED BY <1>1, <1>2, <1>3, <1>5, <1>6, <1>7, <1>8, <1>9, <1>10, GoingFits, KeptLocked
     DEF CallFits

LEMMA KeptRemoveTree == ASSUME Known, NEW w \in Worker, RemoveTree(w) PROVE KeptInv'
<1>1. /\ pc[w] = "removing" /\ UNCHANGED <<made, target, remote, files, merged, request, ws>>
  BY DEF RemoveTree, files
<1>2. /\ SharedFits /\ CallFits(w) /\ phase # "awaiting_pr_closure" /\ pc[w] \in Locking
      /\ job[w].kind \in {"merge", "recovery"} /\ Delivered /\ (tree.here => Clean)
      /\ job[w].route \in {"merged", "request", "landed"}
  BY <1>1, Cleaning, Places
<1>3. tree' = NoTree /\ ~tree'.here
  BY <1>2 DEF RemoveTree, SharedFits, NoTree
<1>4. WorkIsKept' /\ Delivered' /\ Recorded' = Recorded
  BY <1>1, <1>2, <1>3 DEF WorkIsKept, Delivered, Recorded
<1>5. Recorded' => Delivered' /\ (tree'.here => Clean')
  BY <1>3, <1>4
<1>6. CASE Step(w, "marking")
  <2>1. pc'[w] = "marking" /\ OthersRest(w) /\ UNCHANGED <<phase, holder, job>>
    BY <1>6 DEF Step, Goto, OthersRest, Known, Inv, ControlTypeOK
  <2>2. PlaceFits(w)'
    BY <1>2, <1>3, <1>4, <2>1, Places DEF PlaceFits
  <2>3. RecordFits(w)'
    BY <1>1, <1>2, <2>1, Places DEF CallFits, RecordFits
  <2>4. RecoveryFits(w)'
    BY <1>1, <1>2, <1>4, <2>1 DEF CallFits, RecoveryFits
  <2>. QED BY <1>1, <1>2, <1>3, <1>4, <1>5, <2>1, <2>2, <2>3, <2>4, GoingFits, KeptLocked
       DEF CallFits
<1>7. CASE Raise(w)
  <2>1. /\ pc'[w] = "idle" /\ job'[w] = NoJob /\ OthersRest(w) /\ UNCHANGED <<phase, holder>>
    BY <1>7 DEF Raise, Leave, OthersRest, Known, Inv, ControlTypeOK
  <2>. QED BY <1>1, <1>2, <1>3, <1>4, <1>5, <2>1, IdleFits, KeptLocked
<1>8. CASE Conclude(w, "blocked")
  BY <1>1, <1>2, <1>3, <1>4, <1>5, <1>8, ConcludeFits, KeptLocked
<1>. QED BY <1>6, <1>7, <1>8 DEF RemoveTree

LEMMA KeptMarkCleaned == ASSUME Known, NEW w \in Worker, MarkCleaned(w) PROVE KeptInv'
<1>1. /\ pc[w] = "marking" /\ pc'[w] = "forgetting" /\ OthersRest(w)
      /\ UNCHANGED <<phase, holder, job, tree, made, target, remote, ws>>
  BY DEF MarkCleaned, Step, Goto, OthersRest, WriteRecord, git, Known, Inv, ControlTypeOK
<1>2. /\ SharedFits /\ CallFits(w) /\ phase # "awaiting_pr_closure" /\ pc[w] \in Locking
      /\ job[w].kind \in {"merge", "recovery"} /\ Delivered /\ (tree.here => Clean)
      /\ (job[w].kind = "recovery" => Recorded) /\ (job[w].kind = "merge" => ~tree.here)
  BY <1>1, Cleaning, Places
<1>3. IF job[w].route = "request" THEN merged.state = "none" ELSE merged.state # "none"
  BY <1>1, <1>2, Places DEF CallFits, RecordFits
<1>4. IF job[w].route = "request" THEN UNCHANGED merged /\ request'.state = "cleaned"
                                  ELSE UNCHANGED request /\ merged'.state = "cleaned"
  BY DEF MarkCleaned, WriteRecord
<1>5. WorkIsKept' /\ Delivered' /\ (tree'.here => Clean') /\ (tree'.here \/ tree' = NoTree)
  BY <1>1, <1>2 DEF SharedFits, WorkIsKept, Delivered, Clean
<1>6. Recorded => Recorded'
  BY <1>1, <1>3, <1>4 DEF Recorded
<1>7. PlaceFits(w)'
  BY <1>1, <1>2, <1>5, Places DEF PlaceFits
<1>8. RecordFits(w)'
  BY <1>1, <1>3, <1>4, Places DEF RecordFits
<1>9. RecoveryFits(w)'
  BY <1>1, <1>2, <1>6 DEF CallFits, RecoveryFits
<1>10. /\ merged.state # "none" => merged'.state # "none"
       /\ merged'.state # "none" => merged.state # "none"
  BY <1>3, <1>4
<1>. QED BY <1>1, <1>2, <1>5, <1>6, <1>7, <1>8, <1>9, <1>10, GoingFits, KeptLocked DEF CallFits

LEMMA KeptForgetSpace == ASSUME Known, NEW w \in Worker, ForgetSpace(w) PROVE KeptInv'
<1>1. /\ pc[w] = "forgetting" /\ ws'.kind = "none"
      /\ UNCHANGED <<tree, made, target, remote, merged, request>>
  BY DEF ForgetSpace, NoSpace, git
<1>2. /\ SharedFits /\ CallFits(w) /\ phase # "awaiting_pr_closure" /\ pc[w] \in Locking
      /\ job[w].kind \in {"merge", "recovery"} /\ Delivered /\ (tree.here => Clean)
      /\ (job[w].kind = "merge" => ~tree.here)
  BY <1>1, Cleaning, Places
<1>3. WorkIsKept' /\ Delivered' /\ (tree'.here => Clean') /\ (tree'.here \/ tree' = NoTree)
  BY <1>1, <1>2 DEF SharedFits, WorkIsKept, Delivered, Clean
<1>4. Recorded => Recorded'
  BY <1>1 DEF Recorded
<1>5. CASE Conclude(w, "done")
  <2>1. job'[w].outcome = "done"
    BY <1>5 DEF Conclude, Known, Inv, ControlTypeOK, Job
  <2>2. OutcomeFits(w)'
    BY <1>3, <2>1 DEF OutcomeFits, AtWork
  <2>. QED BY <1>1, <1>2, <1>3, <1>4, <1>5, <2>2, Places, ConcludeFits, KeptLocked
<1>6. CASE Step(w, "pruning")
  <2>1. pc'[w] = "pruning" /\ OthersRest(w) /\ UNCHANGED <<phase, holder, job>>
    BY <1>6 DEF Step, Goto, OthersRest, Known, Inv, ControlTypeOK
  <2>2. PlaceFits(w)'
    BY <1>1, <1>2, <1>3, <2>1, Places DEF PlaceFits
  <2>3. RecordFits(w)'
    BY <1>1, <1>2, <2>1, Places DEF CallFits, RecordFits
  <2>4. RecoveryFits(w)'
    BY <1>1, <1>2, <1>4, <2>1 DEF CallFits, RecoveryFits
  <2>. QED BY <1>1, <1>2, <1>3, <1>4, <2>1, <2>2, <2>3, <2>4, GoingFits, KeptLocked DEF CallFits
<1>. QED BY <1>5, <1>6 DEF ForgetSpace

-----------------------------------------------------------------------------
(* The steps of a repair.                                                  *)
LEMMA KeptRecreateTree == ASSUME Known, NEW w \in Worker, RecreateTree(w) PROVE KeptInv'
<1>1. /\ pc[w] = "recreating" /\ pc[w] \in Locking /\ job[w].kind = "repair"
      /\ UNCHANGED <<made, target, remote, files, merged, request, ws>>
  <2>1. pc[w] = "recreating" /\ UNCHANGED <<made, target, remote, files, merged, request, ws>>
    BY DEF RecreateTree, files
  <2>. QED BY <2>1, Knowledge, Places DEF JobFits
<1>2. /\ SharedFits /\ CallFits(w) /\ Delivered /\ ~(Recorded /\ ws.kind # "none")
  BY <1>1, Knowledge, Repairing
<1>3. /\ WorkIsKept' /\ Delivered' /\ Recorded' = Recorded
  BY <1>1, <1>2 DEF Delivered, WorkIsKept, Recorded
<1>4. tree' = tree \/ (tree'.here /\ Clean')
  BY DEF RecreateTree, NoTree, Clean
<1>5. (tree'.here \/ tree' = NoTree) /\ (Recorded' => Delivered' /\ (tree'.here => Clean'))
  BY <1>2, <1>3, <1>4 DEF SharedFits, Clean
<1>6. CASE Conclude(w, "blocked")
  BY <1>1, <1>2, <1>3, <1>5, <1>6, ConcludeFits, KeptLocked
<1>7. CASE Goto(w, "repairing") /\ job' = [job EXCEPT ![w].source = target]
  <2>1. pc'[w] = "repairing" /\ job'[w].kind = "repair" /\ OthersRest(w)
        /\ UNCHANGED <<phase, holder>>
    BY <1>1, <1>7 DEF Goto, OthersRest, Known, Inv, ControlTypeOK, Job
  <2>2. PlaceFits(w)' /\ RecordFits(w)' /\ RecoveryFits(w)'
    BY <2>1, Places DEF PlaceFits, RecordFits, RecoveryFits
  <2>. QED BY <1>1, <1>2, <1>3, <1>5, <2>1, <2>2, GoingFits, KeptLocked DEF CallFits
<1>. QED BY <1>6, <1>7 DEF RecreateTree

LEMMA KeptWriteRepairSpace ==
  ASSUME Known, NEW w \in Worker, WriteRepairSpace(w) PROVE KeptInv'
<1>1. /\ pc[w] = "repairing" /\ pc'[w] = "syncing" /\ OthersRest(w) /\ ws'.kind = "repair"
      /\ UNCHANGED <<phase, holder, job, made, tree, target, remote, merged, request>>
  BY DEF WriteRepairSpace, Step, Goto, OthersRest, git, Known, Inv, ControlTypeOK
<1>2. pc[w] \in Locking /\ job[w].kind = "repair"
  BY <1>1, Knowledge, Places DEF JobFits
<1>3. SharedFits /\ Delivered /\ ~Recorded'
  BY <1>1, <1>2, Knowledge, Repairing DEF Recorded
<1>4. WorkIsKept' /\ (tree'.here \/ tree' = NoTree)
  BY <1>1, <1>3 DEF SharedFits, WorkIsKept
<1>5. PlaceFits(w)' /\ RecordFits(w)' /\ RecoveryFits(w)'
  BY <1>1, <1>2, Places DEF PlaceFits, RecordFits, RecoveryFits
<1>. QED BY <1>1, <1>2, <1>3, <1>4, <1>5, GoingFits, KeptLocked DEF CallFits

LEMMA KeptSyncRepairTree == ASSUME Known, NEW w \in Worker, SyncRepairTree(w) PROVE KeptInv'
<1>1. /\ pc[w] = "syncing" /\ tree.here
      /\ UNCHANGED <<made, target, remote, files, merged, request, ws>>
  BY DEF SyncRepairTree, files
<1>2. /\ pc[w] \in Locking /\ job[w].kind = "repair" /\ CallFits(w) /\ ws.kind = "repair"
  BY <1>1, Knowledge, Places DEF JobFits, CallFits, PlaceFits
<1>3. SharedFits /\ Delivered /\ ~Recorded /\ ~Recorded'
  BY <1>1, <1>2, Knowledge, Repairing DEF Recorded
<1>4. PICK t \in IF tree.theirs # {} THEN {tree} ELSE Merges(tree, job[w].source) :
        MergeGives(t) /\ \E outcome \in {"resolving", "working"} : Conclude(w, outcome)
  BY DEF SyncRepairTree
<1>5. tree'.here /\ WorkIsKept'
  <2>1. tree' = t
    BY <1>4 DEF MergeGives
  <2>2. t.here = tree.here
    BY <1>4 DEF Merges, Known, Inv, DataTypeOK, Tree
  <2>. QED BY <1>1, <1>3, <2>1, <2>2 DEF WorkIsKept, Delivered
<1>6. PICK outcome \in {"resolving", "working"} : Conclude(w, outcome)
  BY <1>4
<1>7. job'[w].outcome = outcome
  BY <1>6 DEF Conclude, Known, Inv, ControlTypeOK, Job
<1>8. OutcomeFits(w)'
  BY <1>3, <1>7 DEF OutcomeFits
<1>. QED BY <1>1, <1>2, <1>3, <1>5, <1>6, <1>8, Places, ConcludeFits, KeptLocked

-----------------------------------------------------------------------------
(* The steps of agents, of people and of the provider.                     *)
LEMMA KeptRests ==
  ASSUME Known, UNCHANGED <<pc, job, tree, made, remote, files>>, target \subseteq target',
         \/ UNCHANGED <<phase, holder>>
         \/ /\ holder' \in {holder, NoWorker} /\ ~Pending
            /\ \/ phase' \in {"blocked", "ready_for_merge"}
               \/ /\ phase' \in AtWork
                  /\ Recorded => phase' = "resolving" /\ (ws.kind = "none" \/ ~tree.here)
         \/ /\ holder' = NoWorker /\ ~Pending /\ phase = "awaiting_pr_closure" /\ phase' = "done"
            /\ \A v \in Worker : pc[v] \notin Locking
  PROVE  KeptInv'
<1>1. /\ SharedFits /\ \A v \in Worker : CallFits(v) /\ v # NoWorker
      /\ UNCHANGED <<merged, request, ws>>
  BY Knowledge DEF files
<1>2. /\ Recorded' = Recorded /\ Clean' = Clean /\ (Delivered => Delivered') /\ WorkIsKept'
  BY <1>1 DEF Recorded, Clean, Delivered, SharedFits, WorkIsKept
<1>3. \A v \in Worker : /\ holder' = v => holder = v
                        /\ Settled(v)' => Settled(v)
                        /\ Cleaner(v)' <=> Cleaner(v)
  BY <1>1 DEF Settled, Cleaner
<1>4. SharedFits'
  <2>1. Pending => Pending'
    BY DEF Pending
  <2>2. phase' = "awaiting_pr_closure" => phase = "awaiting_pr_closure"
    BY DEF AtWork
  <2>3. phase' = "done" => phase \in {"done", "awaiting_pr_closure"}
    BY DEF AtWork
  <2>4. Recorded /\ phase' \in AtWork => phase' = "resolving" /\ (ws.kind = "none" \/ ~tree.here)
    BY <1>1 DEF AtWork, SharedFits
  <2>5. phase' = "done" \/ (\E v \in Worker : Settled(v)') => \A v \in Worker : pc'[v] \notin Locking
    BY <1>1, <1>3 DEF SharedFits, AtWork
  <2>. QED BY <1>1, <1>2, <1>3, <2>1, <2>2, <2>3, <2>4, <2>5 DEF SharedFits
<1>5. ASSUME NEW v \in Worker PROVE CallFits(v)'
  <2>. CallFits(v)
    BY <1>1
  <2>1. PlaceFits(v)'
    BY <1>1, <1>2 DEF CallFits, PlaceFits, AtWork
  <2>2. RecordFits(v)'
    BY <1>1, <1>2, <1>3 DEF CallFits, RecordFits
  <2>3. RecoveryFits(v)'
    BY <1>1, <1>2 DEF CallFits, RecoveryFits
  <2>4. OutcomeFits(v)'
    BY <1>1, <1>2, <1>3 DEF CallFits, OutcomeFits
  <2>. QED BY <2>1, <2>2, <2>3, <2>4 DEF CallFits
<1>. QED BY <1>4, <1>5 DEF KeptInv

LEMMA KeptWork == ASSUME Known, Work PROVE KeptInv'
<1>1. phase \in AtWork /\ UNCHANGED <<pc, job, holder, target, remote, merged, request>>
  BY DEF Work, Prepare, PrepareCrashes, AdoptOrphan, NoWorkspace, Edit, Snapshot, Resolve,
     Approve, InWorkspace, NoControl, control, git, files, AtWork
<1>2. /\ SharedFits /\ \A v \in Worker : pc[v] \notin Locking /\ CallFits(v)
      /\ \A v \in Worker : holder # v /\ job[v].kind \notin {"recovery", "repair"}
  BY <1>1, Knowledge DEF AtWork
<1>11. ASSUME Recorded PROVE KeptInv'
  <2>1. phase = "resolving" /\ (ws.kind = "none" \/ ~tree.here)
    BY <1>1, <1>2, <1>11 DEF SharedFits
  <2>2. NoWorkspace
    BY <2>1 DEF Work, Prepare, PrepareCrashes, AdoptOrphan, Edit, Snapshot, Resolve, Approve,
       InWorkspace
  <2>. QED BY <2>1, <2>2, KeptRests DEF NoWorkspace, git, Pending, AtWork
<1>3. SUFFICES ASSUME ~Recorded PROVE KeptInv'
  BY <1>11
<1>4. phase' \in {"working", "resolving", "ready_for_merge", "blocked"}
  BY <1>1 DEF Work, Prepare, PrepareCrashes, AdoptOrphan, NoWorkspace, Edit, Snapshot, Resolve,
     Approve, NoControl, control, AtWork
<1>5. ws' = ws \/ ws.kind = "none"
  BY DEF Work, Prepare, PrepareCrashes, AdoptOrphan, NoWorkspace, Edit, Snapshot, Resolve,
     Approve, NoControl, files
<1>6. ~Recorded'
  BY <1>1, <1>3, <1>5 DEF Recorded
<1>7. WorkIsKept' /\ (tree'.here \/ tree' = NoTree)
  <2>. tree \in Tree
    BY DEF Known, Inv, DataTypeOK
  <2>1. CASE Prepare \/ PrepareCrashes
    <3>1. ~tree.here /\ tree'.here /\ made' = made
      BY <2>1 DEF Prepare, PrepareCrashes, NoTree
    <3>2. made \subseteq target \cup remote
      BY <1>2, <3>1 DEF SharedFits, WorkIsKept, NoTree
    <3>. QED BY <1>1, <3>1, <3>2 DEF WorkIsKept
  <2>2. CASE AdoptOrphan \/ NoWorkspace \/ Approve
    BY <1>1, <1>2, <2>2 DEF AdoptOrphan, NoWorkspace, Approve, git, SharedFits, WorkIsKept
  <2>3. CASE Edit
    <3>1. tree'.here /\ tree'.head = tree.head /\ made' = made
      BY <2>3 DEF Edit, InWorkspace, Tree
    <3>. QED BY <1>1, <1>2, <3>1 DEF SharedFits, WorkIsKept
  <2>4. CASE Snapshot \/ Resolve
    <3>1. CommitTree /\ tree.here
      BY <2>4 DEF Snapshot, Resolve, InWorkspace
    <3>2. /\ tree'.here /\ tree.head \cup {NewCommit} \subseteq tree'.head
          /\ made' = made \cup {NewCommit}
      BY <3>1 DEF CommitTree, Tree
    <3>. QED BY <1>1, <1>2, <3>2 DEF SharedFits, WorkIsKept
  <2>. QED BY <2>1, <2>2, <2>3, <2>4 DEF Work
<1>8. \A v \in Worker : ~Settled(v)'
  BY <1>1, <1>2 DEF Settled
<1>9. SharedFits'
  BY <1>4, <1>6, <1>7, <1>8 DEF SharedFits
<1>10. ASSUME NEW v \in Worker PROVE CallFits(v)'
  <2>1. pc'[v] \notin Locking /\ pc'[v] \notin Cleanup /\ job'[v].kind # "recovery"
    BY <1>1, <1>2, Places
  <2>2. PlaceFits(v)' /\ RecordFits(v)' /\ RecoveryFits(v)'
    BY <1>6, <2>1, Places DEF PlaceFits, RecordFits, RecoveryFits
  <2>. QED BY <1>8, <2>2 DEF CallFits, OutcomeFits
<1>. QED BY <1>9, <1>10 DEF KeptInv

LEMMA KeptOthers == ASSUME Known, Others PROVE KeptInv'
<1>. /\ SharedFits
     /\ \A v \in Worker : /\ CallFits(v) /\ v # NoWorker /\ v # "gone"
                          /\ job[v].kind \in {"recovery", "repair"} => holder = v
  BY Knowledge
<1>1. CASE CloseIssue \/ BlockMonitoring
  <2>1. /\ phase = "awaiting_pr_closure" /\ Unlocked /\ phase' \in {"done", "blocked"}
        /\ holder' = NoWorker /\ UNCHANGED <<pc, job, tree, made, remote, target, files>>
    BY <1>1 DEF CloseIssue, BlockMonitoring, MonitorFinds, git
  <2>2. \A v \in Worker : pc[v] \notin Locking
    BY <2>1 DEF Unlocked, CallFits, PlaceFits
  <2>3. ~Pending
    BY <2>1 DEF Pending
  <2>. QED BY <2>1, <2>2, <2>3, KeptRests
<1>2. CASE Stop
  <2>1. ~Pending
    BY <1>2 DEF Stop, InCall, Pending, Known, Careful, Managed
  <2>. QED BY <1>2, <2>1, KeptRests DEF Stop, git
<1>3. CASE Resume
  <2>1. /\ phase = "blocked" /\ phase' \in ResumePhases /\ ~Pending
        /\ UNCHANGED <<pc, job, tree, made, remote, files, target, holder>>
    BY <1>3 DEF Resume, Pending, git
  <2>2. phase' \in {"ready_for_merge", "working", "resolving"}
    BY <2>1, ModeAssumption DEF Known, Careful
  <2>3. ASSUME phase' \in AtWork, Recorded
        PROVE  phase' = "resolving" /\ (ws.kind = "none" \/ ~tree.here)
    <3>1. Patient
      BY <2>1, <2>3 DEF Known, Careful, Managed
    <3>2. \A w \in Worker : job[w].kind = "none"
      BY <2>1, <3>1 DEF Known, CareInv, CallsHold, HoldersFit
    <3>3. ws.kind = "none" \/ ~tree.here
      BY <2>1, <2>3, <3>2 DEF SharedFits, Cleaner
    <3>4. ~Local
      <4>1. SUFFICES ASSUME Local PROVE FALSE
        OBVIOUS
      <4>2. merged.state # "none"
        BY <2>3, <4>1 DEF Recorded, Known, CareInv, RemoteFits, Rooted
      <4>. QED BY <2>1, <3>1, <4>1, <4>2 DEF Known, LocalFits, Unfinished
    <3>. QED BY <2>1, <2>3, <3>3, <3>4 DEF Known, Careful, Managed, AtWork
  <2>. QED BY <2>1, <2>2, <2>3, KeptRests DEF AtWork
<1>4. CASE TargetMoves \/ PullRequestEnds
  BY <1>4, KeptRests DEF TargetMoves, PullRequestEnds, NoControl, control
<1>. QED BY <1>1, <1>2, <1>3, <1>4 DEF Others

LEMMA KeptNext == ASSUME Known, [Next]_vars PROVE KeptInv'
<1>1. CASE UNCHANGED vars
  BY <1>1, KeptRests DEF vars, control, git
<1>2. ASSUME NEW w \in Worker, Act(w) PROVE KeptInv'
  BY <1>2, KeptStartMerge, KeptReadSpace, KeptTakeLock, KeptCommitWork, KeptIntegrate, KeptLand,
     KeptPush, KeptOpenPullRequest, KeptRecordResult, KeptRemoveTree, KeptMarkCleaned,
     KeptForgetSpace, KeptPruneBranches, KeptClaim, KeptLook, KeptDecideCleanup, KeptDecides,
     KeptStartRepair, KeptRecreateTree, KeptWriteRepairSpace, KeptSyncRepairTree,
     KeptGitFails, KeptReport DEF Act
<1>. QED BY <1>1, <1>2, KeptCrash, KeptWork, KeptOthers DEF Next

-----------------------------------------------------------------------------
(* Local merges that managers do not stop on the way.                      *)
LEMMA LocalCall ==
  ASSUME Known, Patient, Local, NEW w \in Worker, pc[w] # "idle"
  PROVE  /\ holder = w /\ phase = "merging" /\ job[w].kind \in {"merge", "recovery"}
         /\ job[w].route # "request" /\ request.state = "none" /\ pc[w] # "opening"
         /\ merged.state # "none" => Finishing(w)
         /\ merged.state = "cleaned" => ~tree.here
         /\ TreeFits(w) /\ CallFits(w) /\ JobFits(pc[w], job[w])
         /\ pc \in [Worker -> Place] /\ job \in [Worker -> Job] /\ job[w] \in Job
<1>1. /\ JobFits(pc[w], job[w]) /\ CallFits(w) /\ CareInv /\ LocalFits
      /\ pc \in [Worker -> Place] /\ job \in [Worker -> Job] /\ job[w] \in Job
  BY Knowledge DEF Known, Inv, ControlTypeOK
<1>2. remote = {}
  BY <1>1 DEF CareInv
<1>3. job[w].kind \in {"merge", "recovery"} /\ pc[w] # "opening"
  BY <1>1, <1>2 DEF JobFits, Rooted, Job
<1>4. job[w].route # "request" /\ request.state = "none"
  BY <1>1, <1>2 DEF CareInv, RemoteFits, PushFits, Rooted
<1>5. holder = w /\ phase = "merging"
  BY <1>1, <1>3 DEF CareInv, CallsHold, HoldersFit
<1>6. merged.state # "none" => Finishing(w)
  BY <1>1, <1>5, Knowledge DEF LocalFits, Unfinished
<1>. QED BY <1>1, <1>3, <1>4, <1>5, <1>6 DEF LocalFits

(* What the step of a call keeps up.                                       *)
Keeps(w) ==
  /\ merged'.state # "none" => phase' = "done" \/ (holder' = w /\ Finishing(w)')
  /\ merged'.state = "cleaned" => ~tree'.here
  /\ TreeFits(w)'

LEMMA LocalStarts ==
  ASSUME Known, Patient, Local, NEW w \in Worker, StartMerge(w) \/ Claim(w) \/ StartRepair(w)
  PROVE  Keeps(w)
<1>1. CareInv /\ LocalFits /\ job \in [Worker -> Job] /\ pc \in [Worker -> Place]
  BY DEF Known, Inv, ControlTypeOK
<1>2. ~StartRepair(w)
  BY <1>1 DEF StartRepair, CareInv, RemoteFits, Rooted
<1>3. CASE StartMerge(w)
  <2>1. merged'.state = "none" /\ pc'[w] = "reading"
    BY <1>1, <1>3 DEF StartMerge, Begin, files, LocalFits, Unfinished
  <2>. QED BY <2>1 DEF Keeps, TreeFits
<1>4. CASE Claim(w)
  <2>1. /\ UNCHANGED <<merged, tree>> /\ pc'[w] = "reading" /\ job'[w].kind = "recovery"
        /\ holder' = w
    BY <1>1, <1>4 DEF Claim, Begin, git, files, NoJob
  <2>. QED BY <1>1, <2>1 DEF Keeps, TreeFits, Finishing, LocalFits
<1>. QED BY <1>2, <1>3, <1>4

(* Until its merge is recorded a call keeps things as they are.            *)
LEMMA LocalMerges ==
  ASSUME Known, Patient, Local, NEW w \in Worker,
         \/ ReadSpace(w) \/ (TakeLock(w) /\ job[w].kind = "merge") \/ CommitWork(w) \/ Integrate(w)
         \/ Land(w) \/ Push(w) \/ OpenPullRequest(w) \/ GitFails(w)
  PROVE  Keeps(w)
<1>1. /\ pc[w] \in {"reading", "waiting", "committing", "integrating", "finalizing", "opening"}
         \/ GitFails(w)
      /\ pc[w] # "idle" /\ UNCHANGED merged
  BY Places DEF ReadSpace, TakeLock, CommitWork, Integrate, Land, Push, OpenPullRequest, GitFails,
     files
<1>2. job[w].kind = "merge" /\ pc[w] \notin Cleanup /\ pc[w] # "reporting" /\ pc[w] # "opening"
  <2>. JobFits(pc[w], job[w]) /\ pc[w] # "opening" /\ job[w].kind \in {"merge", "recovery"}
    BY <1>1, LocalCall
  <2>1. CASE GitFails(w)
    BY <2>1, Places DEF GitFails, Known, Careful
  <2>2. CASE ~GitFails(w)
    BY <1>1, <2>2, Places
       DEF JobFits, ReadSpace, TakeLock, CommitWork, Integrate, Land, Push, OpenPullRequest
  <2>. QED BY <2>1, <2>2
<1>3. merged'.state = "none" /\ CallFits(w) /\ job[w].route = "none"
      /\ pc \in [Worker -> Place] /\ job \in [Worker -> Job] /\ job[w] \in Job
  BY <1>1, <1>2, LocalCall DEF Finishing, JobFits
<1>4. \/ pc'[w] \in {"reporting", "committing", "integrating", "finalizing"}
      \/ pc'[w] = "waiting" /\ job'[w].route = "none"
      \/ pc'[w] = "recording" /\ tree'.here
  <2>1. CASE ReadSpace(w) \/ (TakeLock(w) /\ job[w].kind = "merge") \/ GitFails(w)
    BY <1>3, <2>1 DEF ReadSpace, TakeLock, GitFails, Conclude, Leave, Goto, Job
  <2>2. CASE CommitWork(w) \/ Integrate(w)
    BY <1>3, <2>2 DEF CommitWork, Integrate, Conclude, Leave, Step, Goto
  <2>3. CASE Land(w)
    BY <1>3, <2>3 DEF Land, RecordIn, Goto, CallFits, PlaceFits
  <2>4. ~Push(w) /\ ~OpenPullRequest(w)
    BY <1>2 DEF Push, OpenPullRequest, Local
  <2>. QED BY <2>1, <2>2, <2>3, <2>4
<1>. QED BY <1>3, <1>4 DEF Keeps, TreeFits

(* A recovery takes up what is recorded.                                   *)
LEMMA LocalRecovers ==
  ASSUME Known, Patient, Local, NEW w \in Worker,
         \/ Look(w) \/ (TakeLock(w) /\ job[w].kind # "merge") \/ DecideCleanup(w)
         \/ DecideFromTree(w) \/ SourceIsDirty(w)
  PROVE  Keeps(w)
<1>. PICK j : j = Reread(w)
  OBVIOUS
<1>1. /\ UNCHANGED <<merged, tree>> /\ pc[w] \in {"reading", "waiting", "deciding"}
      /\ holder' = holder
  BY DEF Look, TakeLock, DecideCleanup, DecideFromTree, SourceIsDirty, git, files, Conclude, Leave,
     Goto, Raise
<1>2. /\ job[w].kind = "recovery" /\ holder = w /\ job[w].route # "request"
      /\ request.state = "none" /\ CallFits(w) /\ TreeFits(w)
      /\ merged.state = "cleaned" => ~tree.here
      /\ pc \in [Worker -> Place] /\ job \in [Worker -> Job] /\ job[w] \in Job
  BY <1>1, LocalCall DEF JobFits, Look, TakeLock, DecideCleanup, DecideFromTree, SourceIsDirty
<1>3. CASE Look(w)
  <2>1. CASE Recovered(w) = NoJob /\ Conclude(w, "blocked")
    <3>1. merged'.state = "none" /\ pc'[w] = "reporting"
      BY <1>1, <1>2, <2>1 DEF Recovered, ContinueCleanup, NoJob, Conclude, Leave
    <3>. QED BY <3>1 DEF Keeps, TreeFits
  <2>2. CASE Recovered(w) # NoJob /\ Goto(w, "waiting") /\ job' = [job EXCEPT ![w] = Recovered(w)]
    <3>1. pc'[w] = "waiting" /\ job'[w] = Recovered(w)
      BY <1>2, <2>2 DEF Goto
    <3>2. Recovered(w).kind = "recovery"
      BY <1>2, <2>2, RequestsFound DEF Known
    <3>3. Recovered(w).route = "merged" => Recovered(w).seen = merged.state
      <4>1. CASE merged.state # "none"
        BY <4>1 DEF Recovered, ContinueCleanup, NoJob
      <4>2. CASE merged.state = "none"
        <5>1. ws.kind \in {"none", "plain", "repair"}
          BY DEF Known, Inv, DataTypeOK
        <5>2. Recovered(w) = [job[w] EXCEPT !.route = ws.kind, !.source = ws.source]
          BY <1>2, <2>2, <4>2 DEF Recovered, PrefersRequest
        <5>. QED BY <1>2, <5>1, <5>2 DEF Job
      <4>. QED BY <4>1, <4>2
    <3>. QED BY <1>1, <1>2, <3>1, <3>2, <3>3 DEF Keeps, TreeFits, Finishing
  <2>. QED BY <1>3, <2>1, <2>2 DEF Look
<1>4. CASE TakeLock(w) /\ job[w].kind # "merge"
  <2>1. pc'[w] = "deciding" /\ pc[w] = "waiting" /\ job' = job
    BY <1>2, <1>4 DEF TakeLock
  <2>. QED BY <1>1, <1>2, <2>1 DEF Keeps, TreeFits, Finishing
<1>5. CASE DecideCleanup(w)
  <2>1. /\ pc[w] = "deciding" /\ job'[w] = j /\ j.route \in {"merged", "request"}
        /\ pc'[w] = IF j.seen = "cleaned" THEN "forgetting" ELSE "removing"
    BY <1>2, <1>5 DEF DecideCleanup, Goto
  <2>2. j.kind = "recovery" /\ j.route = "merged"
    BY <1>2, <2>1, Deciding, RequestsFound DEF Known
  <2>3. j.seen = "cleaned" => ~tree.here
    <3>1. CASE j = job[w]
      BY <1>2, <2>1, <2>2, <3>1 DEF TreeFits
    <3>2. CASE j = ContinueCleanup("merged", merged)
      BY <1>2, <3>2 DEF ContinueCleanup, NoJob
    <3>3. CASE j \notin {job[w], ContinueCleanup("merged", merged)}
      BY <1>2, <2>2, <3>3 DEF Reread, Job, NoJob
    <3>. QED BY <3>1, <3>2, <3>3
  <2>. QED BY <1>1, <1>2, <2>1, <2>2, <2>3, Places DEF Keeps, TreeFits, Finishing
<1>6. CASE DecideFromTree(w) \/ SourceIsDirty(w)
  <2>1. merged'.state = "none"
    <3>1. pc[w] = "deciding" /\ j.route \notin {"merged", "request"}
      BY <1>6 DEF DecideFromTree, SourceIsDirty
    <3>. QED BY <1>1, <3>1, Deciding DEF Recorded
  <2>2. pc'[w] \in {"reporting", "idle"} \/ (pc'[w] = "recording" /\ tree.here)
    BY <1>2, <1>6 DEF DecideFromTree, SourceIsDirty, Conclude, Raise, Leave, Goto
  <2>. QED BY <1>1, <2>1, <2>2 DEF Keeps, TreeFits
<1>. QED BY <1>3, <1>4, <1>5, <1>6

(* A cleanup goes on to its end.                                           *)
LEMMA LocalCleans ==
  ASSUME Known, Patient, Local, NEW w \in Worker,
         \/ RecordResult(w) \/ RemoveTree(w) \/ MarkCleaned(w) \/ ForgetSpace(w)
         \/ PruneBranches(w) \/ Report(w)
  PROVE  Keeps(w)
<1>1. pc[w] \in Cleanup \cup {"reporting"} /\ pc[w] # "idle"
  BY Places DEF RecordResult, RemoveTree, MarkCleaned, ForgetSpace, PruneBranches, Report
<1>2. /\ holder = w /\ job[w].kind \in {"merge", "recovery"} /\ job[w].route # "request"
      /\ TreeFits(w) /\ (merged.state # "none" => Finishing(w))
      /\ (merged.state = "cleaned" => ~tree.here)
      /\ pc \in [Worker -> Place] /\ job \in [Worker -> Job] /\ job[w] \in Job
  BY <1>1, LocalCall
<1>3. CASE Report(w)
  <2>1. /\ pc[w] = "reporting" /\ pc'[w] = "idle" /\ phase' = job[w].outcome
        /\ UNCHANGED <<merged, tree>>
    BY <1>2, <1>3 DEF Report, git, files
  <2>2. merged.state # "none" => phase' = "done"
    BY <1>2, <2>1, Places DEF Finishing
  <2>. QED BY <1>2, <2>1, <2>2 DEF Keeps, TreeFits
<1>4. ASSUME pc'[w] \in {"removing", "marking", "forgetting", "pruning"}, job'[w] = job[w],
             holder' = holder, merged'.state = "cleaned" => ~tree'.here,
             IF pc'[w] = "removing" THEN tree' = tree /\ pc[w] = "recording" ELSE ~tree'.here
      PROVE  Keeps(w)
  BY <1>2, <1>4, Places DEF Keeps, TreeFits, Finishing
<1>5. CASE RecordResult(w)
  <2>1. /\ pc[w] = "recording" /\ pc'[w] = "removing" /\ job'[w] = job[w] /\ holder' = holder
        /\ tree' = tree /\ merged'.state = "recorded"
    BY <1>2, <1>5 DEF RecordResult, Step, Goto, WriteRecord, git
  <2>. QED BY <1>4, <2>1
<1>6. CASE RemoveTree(w)
  <2>1. /\ pc[w] = "removing" /\ (tree.here => Clean)
        /\ (job[w].kind = "recovery" /\ job[w].route # "landed") \/ tree.here
    BY <1>2, <1>6, Cleaning, Places DEF RemoveTree, TreeFits
  <2>2. Step(w, "marking") /\ ~tree'.here /\ UNCHANGED merged
    BY <1>6, <2>1 DEF RemoveTree, NoTree, files
  <2>. QED BY <1>2, <1>4, <2>2 DEF Step, Goto
<1>7. CASE MarkCleaned(w)
  <2>1. /\ pc[w] = "marking" /\ pc'[w] = "forgetting" /\ job'[w] = job[w] /\ holder' = holder
        /\ tree' = tree
    BY <1>2, <1>7 DEF MarkCleaned, Step, Goto, git
  <2>2. ~tree.here
    BY <1>2, <2>1 DEF TreeFits
  <2>. QED BY <1>4, <2>1, <2>2
<1>8. CASE ForgetSpace(w) \/ PruneBranches(w)
  <2>1. /\ pc[w] \in {"forgetting", "pruning"} /\ ~tree'.here
        /\ Conclude(w, "done") \/ Step(w, "pruning")
    <3>1. ~tree.here
      BY <1>2, <1>8 DEF ForgetSpace, PruneBranches, TreeFits
    <3>. QED BY <1>2, <1>8, <3>1 DEF ForgetSpace, PruneBranches, git
  <2>2. CASE Step(w, "pruning")
    BY <1>2, <1>4, <2>1, <2>2 DEF Step, Goto
  <2>3. CASE Conclude(w, "done")
    <3>1. /\ pc'[w] = "reporting" /\ job'[w].kind = job[w].kind /\ job'[w].outcome = "done"
          /\ holder' = holder
      BY <1>2, <2>3 DEF Conclude, Leave, Job
    <3>. QED BY <1>2, <2>1, <3>1 DEF Keeps, TreeFits, Finishing
  <2>. QED BY <2>1, <2>2, <2>3
<1>. QED BY <1>3, <1>5, <1>6, <1>7, <1>8

(* There are no repairs.                                                   *)
LEMMA LocalRepairs ==
  ASSUME Known, Patient, Local, NEW w \in Worker,
         RecreateTree(w) \/ WriteRepairSpace(w) \/ SyncRepairTree(w)
  PROVE  FALSE
<1>1. pc[w] \in {"recreating", "repairing", "syncing"}
  BY DEF RecreateTree, WriteRepairSpace, SyncRepairTree
<1>2. job[w].kind = "repair" /\ pc[w] # "idle"
  BY <1>1, Knowledge DEF JobFits
<1>. QED BY <1>2, LocalCall

LEMMA LocalNext ==
  ASSUME Known, Patient, Local, Inv', CareInv', [Next]_vars PROVE LocalFits'
<1>. /\ LocalFits /\ Inv /\ CareInv /\ CallsHold /\ HoldersFit
     /\ \A v \in Worker : v # NoWorker /\ v # "gone"
     /\ \A v \in Worker : pc[v] = "idle" <=> job[v].kind = "none"
  BY WorkerAssumption DEF Known, CareInv, Inv, JobFits
<1>1. ASSUME NEW w \in Worker, Act(w) PROVE LocalFits'
  <2>1. Keeps(w)
    BY <1>1, LocalStarts, LocalMerges, LocalRecovers, LocalCleans, LocalRepairs DEF Act
  <2>2. \A v \in Worker : v # w => pc'[v] = "idle"
    BY <1>1, OneCall
  <2>3. holder' = w /\ Finishing(w)' => phase' = "merging"
    BY DEF Finishing, CareInv, HoldersFit
  <2>. QED BY <2>1, <2>2, <2>3 DEF Keeps, LocalFits, Unfinished, TreeFits
<1>2. ASSUME NEW w \in Worker, Crash(w) PROVE LocalFits'
  <2>1. /\ UNCHANGED <<phase, merged, tree>> /\ pc'[w] = "idle" /\ holder = w /\ holder' = "gone"
        /\ \A v \in Worker : v # w => pc'[v] = pc[v] /\ job'[v] = job[v]
    BY <1>2 DEF Crash, CallsHold, git, files, Inv, ControlTypeOK
  <2>. QED BY <2>1 DEF LocalFits, Unfinished, TreeFits
<1>3. CASE Work
  <2>1. phase \in AtWork /\ UNCHANGED <<pc, job, merged>>
    BY <1>3 DEF Work, Prepare, PrepareCrashes, AdoptOrphan, NoWorkspace, Edit, Snapshot, Resolve,
       Approve, InWorkspace, NoControl, control, git, files, AtWork
  <2>2. merged'.state = "none"
    BY <2>1 DEF LocalFits, Unfinished, AtWork
  <2>3. \A v \in Worker : pc'[v] = "idle"
    BY <2>1 DEF CallsHold, HoldersFit, AtWork
  <2>. QED BY <2>2, <2>3 DEF LocalFits, TreeFits
<1>4. CASE Others
  <2>1. UNCHANGED <<pc, job, merged, tree>>
    BY <1>4 DEF Others, CloseIssue, BlockMonitoring, MonitorFinds, Stop, Resume, TargetMoves,
       PullRequestEnds, NoControl, control, git, files
  <2>2. UNCHANGED <<phase, holder>> \/ merged.state = "none"
    <3>1. CASE CloseIssue \/ BlockMonitoring \/ Resume
      BY <3>1 DEF CloseIssue, BlockMonitoring, MonitorFinds, Resume, LocalFits, Unfinished
    <3>2. CASE Stop
      BY <3>2 DEF Stop, InCall, LocalFits, Unfinished, Finishing, Patient
    <3>3. CASE TargetMoves \/ PullRequestEnds
      BY <3>3 DEF TargetMoves, PullRequestEnds, NoControl, control
    <3>. QED BY <1>4, <3>1, <3>2, <3>3 DEF Others
  <2>. QED BY <2>1, <2>2 DEF LocalFits, Unfinished, Finishing, TreeFits
<1>5. CASE UNCHANGED vars
  BY <1>5 DEF vars, control, git, files, LocalFits, Unfinished, Finishing, TreeFits
<1>. QED BY <1>1, <1>2, <1>3, <1>4, <1>5 DEF Next

LEMMA Keeping == ASSUME Careful PROVE Spec => []KeptInv
<1>. DEFINE Kept == CareInv /\ KeptInv /\ (Patient /\ Local => LocalFits)
<1>1. Init => Kept
  <2>1. Init => LocalFits
    BY Places DEF Init, LocalFits, TreeFits, NoFile
  <2>. QED BY <2>1, CareInit, KeptInit
<1>2. Inv /\ Kept /\ Inv' /\ [Next]_vars => Kept'
  <2>. SUFFICES ASSUME Inv, Kept, Inv', [Next]_vars PROVE Kept'
    OBVIOUS
  <2>1. Known /\ Managed
    BY DEF Careful, Known
  <2>2. CareInv' /\ KeptInv'
    BY <2>1, CareNext, KeptNext
  <2>3. ASSUME Patient, Local PROVE LocalFits'
    BY <2>1, <2>2, <2>3, LocalNext
  <2>. QED BY <2>2, <2>3 DEF Patient, Local
<1>3. Kept => KeptInv
  OBVIOUS
<1>. HIDE DEF Kept
<1>. QED BY <1>1, <1>2, <1>3, Invariance, PTL DEF Spec

(* No commit made for the issue is ever lost, whatever crashes and however *)
(* often a merge is stopped, recovered and tried again: it is in the       *)
(* target, in the pull request's branch or in the worktree, which is only  *)
(* removed when one of the two has all of it.                              *)
THEOREM NoCommitIsLost == ASSUME Careful PROVE Spec => []WorkIsKept
<1>1. KeptInv => WorkIsKept
  BY DEF KeptInv, SharedFits
<1>. QED BY <1>1, Keeping, PTL

(* An issue that is done or waits for its pull request has handed over all *)
(* of its commits: no recovery reports a merge that got only part of the   *)
(* way as finished.                                                        *)
THEOREM FinishedIsDelivered == ASSUME Careful PROVE Spec => []FinishedWorkIsDelivered
<1>1. KeptInv => FinishedWorkIsDelivered
  BY DEF KeptInv, SharedFits, FinishedWorkIsDelivered, Delivered
<1>. QED BY <1>1, Keeping, PTL
=============================================================================

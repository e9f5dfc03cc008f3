----------------------- MODULE MergeFinalizationProofs -----------------------
(***************************************************************************)
(* Proofs about MergeFinalization, for any processes, modes and bounds:    *)
(* its types, that the records of merges say only what has happened, and   *)
(* that merges find their conflicts resolved.                              *)
(***************************************************************************)
EXTENDS MergeFinalization, TLAPS

-----------------------------------------------------------------------------
(* What holds whatever managers do and whatever fails.                     *)

Place == Locking \cup {"idle", "reading", "waiting", "reporting"}
Job   == [kind : {"none", "merge", "recovery", "repair"},
          route : {"none", "merged", "request", "repair", "plain", "landed"},
          seen : Written, source : Revision, head : Revision,
          outcome : Phases \cup {"none"}]

ControlTypeOK ==
  /\ phase \in Phases /\ holder \in Worker \cup {NoWorker, "gone"}
  /\ flock \in Worker \cup {NoWorker}
  /\ pc \in [Worker -> Place] /\ job \in [Worker -> Job]
  /\ \A w \in Worker : (flock = w) <=> pc[w] \in Locking

Tree == [here : BOOLEAN, head : Revision, dirty : BOOLEAN, theirs : Revision, branch : BOOLEAN]

DataTypeOK ==
  /\ target \in Revision /\ made \in Revision /\ marked \in Revision
  /\ tree \in Tree
  /\ remote \in Revision /\ pr \in {"none", "open", "closed"}
  /\ ws \in [kind : {"none", "plain", "repair"}, source : Revision]
  /\ merged \in Record /\ request \in Record
  /\ commits \in 0 .. MaxCommits /\ crashes \in 0 .. MaxCrashes

(* Every revision anybody works with has the first commit, and a recorded  *)
(* merge is in the target.                                                 *)
Rooted(revision) == 0 \in revision

DataFits ==
  /\ Rooted(target)
  /\ remote = {} \/ Rooted(remote)
  /\ tree.here => Rooted(tree.head)
  /\ pr # "none" => Rooted(remote)
  /\ merged.state # "none" => Rooted(merged.head) /\ merged.head \subseteq target

(* Which call is where, and what it knows.                                 *)
JobFits(p, j) ==
  /\ p = "idle" <=> j.kind = "none"
  /\ p \in {"committing", "integrating", "finalizing", "opening"} => j.kind = "merge"
  /\ p = "deciding" => j.kind = "recovery"
  /\ p \in {"recreating", "repairing", "syncing"} => j.kind = "repair"
  /\ p \in Cleanup => /\ j.kind \in {"merge", "recovery"}
                      /\ j.route \in {"merged", "request", "landed"}
  /\ j.kind = "merge" /\ p \notin Cleanup \cup {"reporting"} => j.route = "none"
  /\ p = "reporting" => j.outcome \in Phases
  /\ j.kind = "repair" \/ p = "opening" => Rooted(remote)
  /\ p \in {"finalizing", "opening"} => Rooted(j.head)
  /\ j.route \in {"merged", "landed"} => Rooted(j.head) /\ j.head \subseteq target

Inv == ControlTypeOK /\ DataTypeOK /\ DataFits /\ \A w \in Worker : JobFits(pc[w], job[w])

LEMMA Types == TypeOK <=> ControlTypeOK /\ DataTypeOK
  BY DEF TypeOK, ControlTypeOK, DataTypeOK, Place, Job, Tree

LEMMA Places ==
  /\ Cleanup \subseteq Locking /\ Locking \subseteq Place
  /\ {"idle", "reading", "waiting", "reporting"} \subseteq Place
  /\ {"idle", "reading", "waiting", "reporting"} \cap Locking = {}
  /\ {"committing", "integrating", "finalizing", "opening", "deciding", "recreating",
      "repairing", "syncing"} \subseteq Locking \ Cleanup
  /\ {"recording", "removing", "marking", "forgetting", "pruning"} = Cleanup
  BY DEF Locking, Cleanup, Place

LEMMA NoRevision == {} \in Revision /\ NoJob \in Job /\ NoFile \in Record /\ {0} \in Revision
<1>1. {} \in Revision /\ {0} \in Revision
  BY BoundAssumption DEF Revision
<1>. QED BY <1>1 DEF NoJob, Job, NoFile, Record, Written, Phases

LEMMA InitInv == ASSUME Init PROVE Inv
<1>1. ControlTypeOK
  BY WorkerAssumption, NoRevision, Places DEF Init, ControlTypeOK, Phases
<1>2. DataTypeOK
  BY NoRevision, BoundAssumption DEF Init, DataTypeOK, NoTree, NoSpace, Tree
<1>3. DataFits
  BY DEF Init, DataFits, Rooted, NoTree, NoFile
<1>4. \A w \in Worker : JobFits(pc[w], job[w])
  BY Places DEF Init, JobFits, NoJob
<1>. QED BY <1>1, <1>2, <1>3, <1>4 DEF Inv

(* A step of one process.                                                  *)
LEMMA Moves ==
  ASSUME Inv, NEW w \in Worker, NEW p \in Place, NEW j \in Job,
         pc' = [pc EXCEPT ![w] = p], job' = [job EXCEPT ![w] = j],
         flock' \in Worker \cup {NoWorker},
         \A v \in Worker : flock' = v <=> IF v = w THEN p \in Locking ELSE flock = v,
         phase' \in Phases, holder' \in Worker \cup {NoWorker, "gone"},
         DataTypeOK', DataFits', JobFits(p, j)',
         target \subseteq target', Rooted(remote) => Rooted(remote')
  PROVE  Inv'
<1>1. ControlTypeOK'
  BY DEF Inv, ControlTypeOK
<1>2. ASSUME NEW v \in Worker PROVE JobFits(pc[v], job[v])'
  <2>1. CASE v = w
    <3>1. pc'[v] = p /\ job'[v] = j
      BY <2>1 DEF Inv, ControlTypeOK
    <3>. QED BY <3>1 DEF JobFits
  <2>2. CASE v # w
    <3>1. pc'[v] = pc[v] /\ job'[v] = job[v] /\ JobFits(pc[v], job[v])
      BY <2>2 DEF Inv, ControlTypeOK
    <3>. QED BY <3>1 DEF JobFits
  <2>. QED BY <2>1, <2>2
<1>. QED BY <1>1, <1>2 DEF Inv

(* A step of nobody's call.                                                *)
LEMMA Rests ==
  ASSUME Inv, UNCHANGED <<flock, pc, job>>,
         phase' \in Phases, holder' \in Worker \cup {NoWorker, "gone"},
         DataTypeOK', DataFits',
         target \subseteq target', Rooted(remote) => Rooted(remote')
  PROVE  Inv'
<1>1. ControlTypeOK'
  BY DEF Inv, ControlTypeOK
<1>2. \A w \in Worker : JobFits(pc[w], job[w])'
  BY DEF Inv, JobFits
<1>. QED BY <1>1, <1>2 DEF Inv

(* The data as they are.                                                   *)
LEMMA DataSame ==
  ASSUME Inv, UNCHANGED <<git, files>>, crashes' \in 0 .. MaxCrashes
  PROVE  /\ DataTypeOK' /\ DataFits' /\ target \subseteq target'
         /\ Rooted(remote) => Rooted(remote')
  BY DEF Inv, DataTypeOK, DataFits, git, files

(* From one place to the next under the repository lock, or without it.    *)
LEMMA Goes ==
  ASSUME Inv, NEW w \in Worker, NEW p \in Place, Goto(w, p), pc[w] \in Locking <=> p \in Locking,
         NEW j \in Job, job' = [job EXCEPT ![w] = j], JobFits(p, j)',
         DataTypeOK', DataFits', target \subseteq target', Rooted(remote) => Rooted(remote')
  PROVE  Inv'
<1>1. /\ phase' \in Phases /\ holder' \in Worker \cup {NoWorker, "gone"}
      /\ flock' \in Worker \cup {NoWorker}
      /\ \A v \in Worker : flock' = v <=> IF v = w THEN p \in Locking ELSE flock = v
  BY DEF Goto, Inv, ControlTypeOK
<1>. QED BY <1>1, Moves DEF Goto

(* The end of a call.                                                      *)
LEMMA Concludes ==
  ASSUME Inv, NEW w \in Worker, pc[w] # "idle", NEW outcome \in Phases, Conclude(w, outcome),
         DataTypeOK', DataFits', target \subseteq target', Rooted(remote) => Rooted(remote')
  PROVE  Inv'
<1>1. job[w] \in Job /\ JobFits(pc[w], job[w])
  BY DEF Inv, ControlTypeOK
<1>2. PICK j \in Job : /\ job' = [job EXCEPT ![w] = j] /\ j.kind = job[w].kind
                       /\ j.route = job[w].route /\ j.head = job[w].head
                       /\ j.outcome = outcome
  <2>1. [job[w] EXCEPT !.outcome = outcome] \in Job
    BY <1>1 DEF Job
  <2>. QED BY <1>1, <2>1 DEF Conclude, Job
<1>3. JobFits("reporting", j)'
  BY <1>1, <1>2, Places DEF JobFits
<1>4. /\ pc' = [pc EXCEPT ![w] = "reporting"]
      /\ phase' \in Phases /\ holder' \in Worker \cup {NoWorker, "gone"}
      /\ flock' \in Worker \cup {NoWorker}
      /\ \A v \in Worker : flock' = v <=> IF v = w THEN "reporting" \in Locking ELSE flock = v
  BY WorkerAssumption, Places DEF Conclude, Leave, Inv, ControlTypeOK
<1>. QED BY <1>2, <1>3, <1>4, Places, Moves

(* A call that is forgotten.                                               *)
LEMMA Returns ==
  ASSUME Inv, NEW w \in Worker, pc' = [pc EXCEPT ![w] = "idle"], job' = [job EXCEPT ![w] = NoJob],
         flock' = IF flock = w THEN NoWorker ELSE flock,
         phase' \in Phases, holder' \in Worker \cup {NoWorker, "gone"},
         UNCHANGED <<git, files>>, crashes' \in 0 .. MaxCrashes
  PROVE  Inv'
<1>1. JobFits("idle", NoJob)'
  BY Places DEF JobFits, NoJob
<1>2. /\ flock' \in Worker \cup {NoWorker}
      /\ \A v \in Worker : flock' = v <=> IF v = w THEN "idle" \in Locking ELSE flock = v
  BY WorkerAssumption, Places DEF Inv, ControlTypeOK
<1>. QED BY <1>1, <1>2, NoRevision, Places, DataSame, Moves

(* The same, with the call's variables as they are.                        *)
LEMMA Steps ==
  ASSUME Inv, NEW w \in Worker, NEW p \in Place, Step(w, p), pc[w] \in Locking <=> p \in Locking,
         JobFits(p, job[w])', DataTypeOK', DataFits', target \subseteq target',
         Rooted(remote) => Rooted(remote')
  PROVE  Inv'
<1>1. PICK j \in Job : j = job[w]
  BY DEF Inv, ControlTypeOK
<1>2. job' = [job EXCEPT ![w] = j] /\ JobFits(p, j)'
  BY <1>1 DEF Step, Inv, ControlTypeOK
<1>. QED BY <1>2, Goes DEF Step

LEMMA Begins ==
  ASSUME Inv, NEW w \in Worker, NEW kind \in {"merge", "recovery", "repair"},
         NEW p \in {"reading", "waiting"}, Begin(w, kind, p), phase' \in Phases,
         kind = "repair" => Rooted(remote)
  PROVE  Inv'
<1>1. PICK j \in Job : j = [NoJob EXCEPT !.kind = kind]
  BY NoRevision DEF NoJob, Job
<1>2. job' = [job EXCEPT ![w] = j] /\ crashes' \in 0 .. MaxCrashes
  BY <1>1 DEF Begin, Inv, DataTypeOK
<1>3. JobFits(p, j)'
  BY <1>1, Places DEF JobFits, NoJob, Begin, git
<1>4. /\ pc' = [pc EXCEPT ![w] = p] /\ p \in Place /\ holder' \in Worker
      /\ flock' \in Worker \cup {NoWorker}
      /\ \A v \in Worker : flock' = v <=> IF v = w THEN p \in Locking ELSE flock = v
  BY Places DEF Begin, Inv, ControlTypeOK
<1>5. UNCHANGED <<git, files>>
  BY DEF Begin
<1>. QED BY <1>2, <1>3, <1>4, <1>5, DataSame, Moves

(* Commits and merges make revisions that have what was there before.      *)
LEMMA Commits ==
  ASSUME DataTypeOK, CommitTree
  PROVE  /\ tree' \in Tree
         /\ made' \in Revision /\ commits' \in 0 .. MaxCommits
         /\ tree'.here = tree.here /\ tree.head \subseteq tree'.head
         /\ NewCommit \in 0 .. MaxCommits
<1>1. NewCommit \in 0 .. MaxCommits
  BY BoundAssumption DEF DataTypeOK, CommitTree, NewCommit
<1>2. tree.head \cup tree.theirs \cup {NewCommit} \in Revision /\ {} \in Revision
      /\ made \cup {NewCommit} \in Revision
  BY <1>1 DEF DataTypeOK, Tree, Revision
<1>. QED BY <1>1, <1>2 DEF DataTypeOK, Tree, CommitTree

LEMMA MergesKeep ==
  ASSUME DataTypeOK, NEW t \in Tree, NEW rev \in Revision, NEW u \in Merges(t, rev),
         MergeGives(u)
  PROVE  /\ tree' \in Tree /\ tree' = u /\ commits' \in 0 .. MaxCommits
         /\ u.here = t.here /\ t.head \subseteq u.head
<1>1. commits' \in 0 .. MaxCommits
  BY BoundAssumption DEF DataTypeOK, MergeGives, NewCommit
<1>2. CASE u = t
  BY <1>1, <1>2 DEF MergeGives
<1>3. CASE u = [t EXCEPT !.head = @ \cup rev \cup {NewCommit}]
  <2>1. NewCommit \in u.head
    BY <1>3 DEF Tree
  <2>2. NewCommit \in 0 .. MaxCommits
    BY <1>1, <2>1 DEF MergeGives
  <2>3. t.head \cup rev \cup {NewCommit} \in Revision
    BY <2>2 DEF Tree, Revision
  <2>. QED BY <1>1, <1>3, <2>3 DEF MergeGives, Tree
<1>4. CASE u = [t EXCEPT !.theirs = rev]
  BY <1>1, <1>4 DEF MergeGives, Tree
<1>. QED BY <1>2, <1>3, <1>4 DEF Merges

-----------------------------------------------------------------------------
LEMMA StartMergeInv == ASSUME Inv, NEW w \in Worker, StartMerge(w) PROVE Inv'
  BY Begins DEF StartMerge, Phases

LEMMA ReadSpaceInv == ASSUME Inv, NEW w \in Worker, ReadSpace(w) PROVE Inv'
<1>1. pc[w] # "idle" /\ crashes' \in 0 .. MaxCrashes /\ UNCHANGED <<git, files>>
  BY DEF ReadSpace, Inv, DataTypeOK
<1>2. CASE Conclude(w, "blocked")
  BY <1>1, <1>2, DataSame, Concludes DEF Phases
<1>3. CASE Goto(w, "waiting") /\ job' = [job EXCEPT ![w].source = ws.source]
  <2>1. job[w] \in Job /\ JobFits("reading", job[w]) /\ ws.source \in Revision
    BY DEF Inv, ControlTypeOK, DataTypeOK, ReadSpace
  <2>2. PICK j \in Job : /\ job' = [job EXCEPT ![w] = j] /\ j.kind = job[w].kind
                         /\ j.route = job[w].route /\ j.head = job[w].head
    <3>1. [job[w] EXCEPT !.source = ws.source] \in Job
      BY <2>1 DEF Job
    <3>. QED BY <1>3, <2>1, <3>1 DEF Job
  <2>3. JobFits("waiting", j)'
    BY <1>1, <2>1, <2>2, Places DEF JobFits, git
  <2>. QED BY <1>1, <1>3, <2>2, <2>3, Places, DataSame, Goes DEF ReadSpace
<1>. QED BY <1>2, <1>3 DEF ReadSpace

LEMMA TakeLockInv == ASSUME Inv, NEW w \in Worker, TakeLock(w) PROVE Inv'
<1>1. pc[w] # "idle" /\ crashes' \in 0 .. MaxCrashes /\ UNCHANGED <<git, files>>
  BY DEF TakeLock, Inv, DataTypeOK
<1>2. CASE job[w].kind = "merge" /\ Stopped(w)
  BY <1>1, <1>2, DataSame, Concludes DEF TakeLock, Phases
<1>3. CASE ~(job[w].kind = "merge" /\ Stopped(w))
  <2>1. job[w] \in Job /\ JobFits("waiting", job[w])
    BY DEF Inv, ControlTypeOK, TakeLock
  <2>2. job[w].kind \in {"merge", "recovery", "repair"}
    BY <2>1, Places DEF JobFits, Job
  <2>3. PICK p \in Locking \ Cleanup :
          /\ pc' = [pc EXCEPT ![w] = p]
          /\ p = CASE job[w].kind = "merge"    -> "committing"
                   [] job[w].kind = "recovery" -> "deciding"
                   [] job[w].kind = "repair"   -> "recreating"
    BY <1>3, <2>2, Places DEF TakeLock
  <2>4. JobFits(p, job[w])'
    BY <1>1, <1>3, <2>1, <2>2, <2>3, Places DEF JobFits, TakeLock, git
  <2>5. PICK j \in Job : j = job[w]
    BY <2>1
  <2>6. job' = [job EXCEPT ![w] = j] /\ JobFits(p, j)'
    BY <1>3, <2>4, <2>5 DEF TakeLock, Inv, ControlTypeOK
  <2>7. /\ phase' \in Phases /\ holder' \in Worker \cup {NoWorker, "gone"}
        /\ flock' \in Worker \cup {NoWorker}
        /\ \A v \in Worker : flock' = v <=> IF v = w THEN p \in Locking ELSE flock = v
    BY <1>3, WorkerAssumption DEF TakeLock, Inv, ControlTypeOK
  <2>8. /\ p \in Place /\ DataTypeOK' /\ DataFits' /\ target \subseteq target'
        /\ Rooted(remote) => Rooted(remote')
    BY <1>1, <2>3, Places, DataSame
  <2>. QED BY <2>3, <2>6, <2>7, <2>8, Moves
<1>. QED BY <1>2, <1>3

LEMMA ReportInv == ASSUME Inv, NEW w \in Worker, Report(w) PROVE Inv'
<1>1. phase' \in Phases /\ holder' \in Worker \cup {NoWorker, "gone"}
  <2>1. job[w].outcome \in Phases
    BY DEF Inv, JobFits, Report
  <2>. QED BY <2>1 DEF Report, Inv, ControlTypeOK
<1>2. flock' = IF flock = w THEN NoWorker ELSE flock
  BY Places DEF Report, Inv, ControlTypeOK
<1>3. crashes' \in 0 .. MaxCrashes /\ UNCHANGED <<git, files>>
  BY DEF Report, Inv, DataTypeOK
<1>. QED BY <1>1, <1>2, <1>3, Returns DEF Report

LEMMA CommitWorkInv == ASSUME Inv, NEW w \in Worker, CommitWork(w) PROVE Inv'
<1>1. /\ tree' \in Tree /\ made' \in Revision /\ marked' \in Revision
      /\ commits' \in 0 .. MaxCommits /\ tree'.here = tree.here /\ tree.head \subseteq tree'.head
  <2>1. CASE Clean
    BY <2>1 DEF CommitWork, Inv, DataTypeOK
  <2>2. CASE ~Clean
    <3>1. CommitTree /\ marked' \in {marked, marked \cup {NewCommit}}
      BY <2>2 DEF CommitWork
    <3>. QED BY <3>1, Commits DEF Inv, DataTypeOK, Revision
  <2>. QED BY <2>1, <2>2
<1>2. /\ DataTypeOK' /\ DataFits' /\ target \subseteq target'
      /\ Rooted(remote) => Rooted(remote')
  BY <1>1 DEF CommitWork, Inv, DataTypeOK, DataFits, Rooted, files
<1>. pc[w] = "committing" /\ "blocked" \in Phases
  BY DEF CommitWork, Phases
<1>3. CASE Conclude(w, "blocked")
  BY <1>2, <1>3, Concludes
<1>4. CASE Step(w, "integrating")
  <2>1. JobFits("committing", job[w])
    BY DEF Inv, CommitWork
  <2>2. JobFits("integrating", job[w])'
    BY <1>2, <1>4, <2>1, Places DEF JobFits, Step, CommitWork
  <2>3. "integrating" \in Place /\ (pc[w] \in Locking <=> "integrating" \in Locking)
    BY Places
  <2>. QED BY <1>2, <1>4, <2>2, <2>3, Steps
<1>. QED BY <1>3, <1>4 DEF CommitWork

LEMMA IntegrateInv == ASSUME Inv, NEW w \in Worker, Integrate(w) PROVE Inv'
<1>1. [tree EXCEPT !.branch = TRUE] \in Tree
      /\ [tree EXCEPT !.branch = TRUE].head = tree.head /\ [tree EXCEPT !.branch = TRUE].here
  BY DEF Inv, DataTypeOK, Tree, Integrate
<1>2. PICK t \in Merges([tree EXCEPT !.branch = TRUE], target) :
        /\ MergeGives(t)
        /\ IF t.theirs # {} THEN Conclude(w, "resolving")
           ELSE IF Stopped(w) THEN Conclude(w, "blocked")
           ELSE Goto(w, "finalizing") /\ job' = [job EXCEPT ![w].head = t.head]
  BY DEF Integrate
<1>3. /\ tree' \in Tree /\ tree' = t /\ commits' \in 0 .. MaxCommits
      /\ t.here /\ tree.head \subseteq t.head
  BY <1>1, <1>2, MergesKeep DEF Inv, DataTypeOK
<1>4. Rooted(t.head)
  BY <1>3 DEF Inv, DataFits, Rooted, Integrate
<1>5. /\ DataTypeOK' /\ DataFits' /\ target \subseteq target'
      /\ Rooted(remote) => Rooted(remote')
  BY <1>3, <1>4 DEF Integrate, Inv, DataTypeOK, DataFits, files
<1>. pc[w] = "integrating" /\ {"blocked", "resolving"} \subseteq Phases
  BY DEF Integrate, Phases
<1>6. CASE \E outcome \in {"resolving", "blocked"} : Conclude(w, outcome)
  BY <1>5, <1>6, Concludes
<1>7. CASE Goto(w, "finalizing") /\ job' = [job EXCEPT ![w].head = t.head]
  <2>1. job[w] \in Job /\ JobFits("integrating", job[w]) /\ t.head \in Revision
    BY <1>3 DEF Inv, ControlTypeOK, Tree
  <2>. DEFINE k == [job[w] EXCEPT !.head = t.head]
  <2>2. k \in Job /\ k.kind = job[w].kind /\ k.route = job[w].route /\ k.head = t.head
        /\ job' = [job EXCEPT ![w] = k]
    BY <1>7, <2>1 DEF Job
  <2>. HIDE DEF k
  <2>3. PICK j \in Job : j = k
    BY <2>2
  <2>4. JobFits("finalizing", j)'
    BY <1>4, <1>5, <2>1, <2>2, <2>3, Places DEF JobFits
  <2>5. "finalizing" \in Place /\ (pc[w] \in Locking <=> "finalizing" \in Locking)
    BY Places
  <2>. QED BY <1>5, <1>7, <2>2, <2>3, <2>4, <2>5, Goes
<1>. QED BY <1>2, <1>6, <1>7

LEMMA Records ==
  ASSUME Inv, NEW w \in Worker, pc[w] \in {"finalizing", "opening"},
         NEW file \in {"merged", "request"}, RecordIn(w, file),
         file = "merged" => job[w].head \subseteq target',
         DataTypeOK', DataFits', target \subseteq target', Rooted(remote) => Rooted(remote')
  PROVE  Inv'
<1>1. job[w] \in Job /\ JobFits(pc[w], job[w])
  BY DEF Inv, ControlTypeOK
<1>2. PICK j \in Job : /\ job' = [job EXCEPT ![w] = j] /\ j.kind = job[w].kind
                       /\ j.route = file /\ j.head = job[w].head
  <2>1. [job[w] EXCEPT !.route = file] \in Job
    BY <1>1 DEF Job
  <2>. QED BY <1>1, <2>1 DEF RecordIn, Job
<1>3. JobFits("recording", j)'
  BY <1>1, <1>2, Places DEF JobFits
<1>4. Goto(w, "recording") /\ "recording" \in Place /\ (pc[w] \in Locking <=> "recording" \in Locking)
  BY Places DEF RecordIn
<1>. QED BY <1>2, <1>3, <1>4, Goes

LEMMA LandInv == ASSUME Inv, NEW w \in Worker, Land(w) PROVE Inv'
<1>1. job[w] \in Job /\ JobFits("finalizing", job[w])
  BY DEF Inv, ControlTypeOK, Land
<1>2. /\ target' \in Revision /\ commits' \in 0 .. MaxCommits
      /\ target \subseteq target' /\ job[w].head \subseteq target'
  <2>1. CASE job[w].head \subseteq target
    BY <2>1 DEF Land, Inv, DataTypeOK
  <2>2. CASE ~(job[w].head \subseteq target)
    <3>1. /\ commits < MaxCommits /\ commits' = NewCommit
          /\ target' = target \cup job[w].head \cup {NewCommit}
      BY <2>2 DEF Land
    <3>2. NewCommit \in 0 .. MaxCommits
      BY <3>1, BoundAssumption DEF NewCommit, Inv, DataTypeOK
    <3>. QED BY <1>1, <3>1, <3>2 DEF Job, Inv, DataTypeOK, Revision
  <2>. QED BY <2>1, <2>2
<1>3. /\ DataTypeOK' /\ DataFits'
      /\ Rooted(remote) => Rooted(remote')
  BY <1>2 DEF Land, Inv, DataTypeOK, DataFits, Rooted, files
<1>4. pc[w] = "finalizing" /\ RecordIn(w, "merged")
  BY DEF Land
<1>. QED BY <1>2, <1>3, <1>4, Records

LEMMA PushInv == ASSUME Inv, NEW w \in Worker, Push(w) PROVE Inv'
<1>. pc[w] = "finalizing" /\ "blocked" \in Phases
  BY DEF Push, Phases
<1>1. job[w] \in Job /\ JobFits("finalizing", job[w])
  BY DEF Inv, ControlTypeOK
<1>2. remote' \in {remote, job[w].head} /\ job[w].head \in Revision /\ Rooted(job[w].head)
  BY <1>1 DEF Push, JobFits, Job
<1>3. /\ DataTypeOK' /\ DataFits' /\ target \subseteq target'
      /\ Rooted(remote) => Rooted(remote')
  BY <1>2 DEF Push, Inv, DataTypeOK, DataFits, files
<1>4. CASE Conclude(w, "blocked")
  BY <1>3, <1>4, Concludes
<1>5. CASE Step(w, "opening")
  <2>1. "opening" \in Place /\ (pc[w] \in Locking <=> "opening" \in Locking)
    BY Places
  <2>2. JobFits("opening", job[w])'
    <3>1. Rooted(remote')
      BY <1>2, <1>5, Places DEF Push, Conclude, Leave, Step, Goto, Inv, ControlTypeOK
    <3>. QED BY <1>1, <1>2, <1>3, <1>5, <3>1, Places DEF JobFits, Step
  <2>. QED BY <1>3, <1>5, <2>1, <2>2, Steps
<1>. QED BY <1>4, <1>5 DEF Push

LEMMA OpenPullRequestInv == ASSUME Inv, NEW w \in Worker, OpenPullRequest(w) PROVE Inv'
<1>1. JobFits("opening", job[w])
  BY DEF Inv, OpenPullRequest
<1>2. Rooted(remote)
  BY <1>1 DEF JobFits
<1>3. /\ DataTypeOK' /\ DataFits' /\ target \subseteq target'
      /\ Rooted(remote) => Rooted(remote')
  BY <1>2 DEF OpenPullRequest, Inv, DataTypeOK, DataFits, files
<1>4. pc[w] = "opening" /\ RecordIn(w, "request")
  BY DEF OpenPullRequest
<1>. QED BY <1>3, <1>4, Records

(* Writing a record.                                                       *)
LEMMA Writes ==
  ASSUME Inv, NEW w \in Worker, pc[w] \in Cleanup, NEW state \in {"recorded", "cleaned"},
         WriteRecord(w, state), UNCHANGED <<git, crashes>>
  PROVE  /\ DataTypeOK' /\ DataFits' /\ target \subseteq target'
         /\ Rooted(remote) => Rooted(remote')
<1>1. job[w] \in Job /\ JobFits(pc[w], job[w])
  BY DEF Inv, ControlTypeOK
<1>2. [state |-> state, head |-> job[w].head] \in Record
  BY <1>1 DEF Job, Record, Written
<1>3. \/ UNCHANGED <<merged, ws>> /\ request' = [state |-> state, head |-> job[w].head]
      \/ /\ UNCHANGED <<request, ws>> /\ merged' = [state |-> state, head |-> job[w].head]
         /\ job[w].route \in {"merged", "landed"}
  BY <1>1 DEF WriteRecord, JobFits
<1>. QED BY <1>1, <1>2, <1>3 DEF Inv, DataTypeOK, DataFits, JobFits, git

(* A step within the cleanup.                                              *)
LEMMA CleansUp ==
  ASSUME Inv, NEW w \in Worker, pc[w] \in Cleanup, NEW p \in Cleanup, Step(w, p),
         DataTypeOK', DataFits', target \subseteq target', Rooted(remote) => Rooted(remote')
  PROVE  Inv'
<1>1. JobFits(pc[w], job[w])
  BY DEF Inv
<1>2. JobFits(p, job[w])'
  BY <1>1, Places DEF JobFits, Step
<1>. QED BY <1>2, Places, Steps

LEMMA RecordResultInv == ASSUME Inv, NEW w \in Worker, RecordResult(w) PROVE Inv'
<1>1. pc[w] \in Cleanup /\ "removing" \in Cleanup
  BY Places DEF RecordResult
<1>. QED BY <1>1, Writes, CleansUp DEF RecordResult

LEMMA MarkCleanedInv == ASSUME Inv, NEW w \in Worker, MarkCleaned(w) PROVE Inv'
<1>1. pc[w] \in Cleanup /\ "forgetting" \in Cleanup
  BY Places DEF MarkCleaned
<1>. QED BY <1>1, Writes, CleansUp DEF MarkCleaned

LEMMA Raises ==
  ASSUME Inv, NEW w \in Worker, Raise(w), UNCHANGED <<git, files, crashes>>
  PROVE  Inv'
<1>1. /\ phase' \in Phases /\ holder' \in Worker \cup {NoWorker, "gone"}
      /\ crashes' \in 0 .. MaxCrashes
  BY DEF Raise, Leave, Inv, ControlTypeOK, DataTypeOK
<1>. QED BY <1>1, Returns DEF Raise, Leave

LEMMA RemoveTreeInv == ASSUME Inv, NEW w \in Worker, RemoveTree(w) PROVE Inv'
<1>. pc[w] = "removing" /\ pc[w] \in Cleanup /\ "marking" \in Cleanup /\ "blocked" \in Phases
  BY Places DEF RemoveTree, Phases
<1>1. /\ DataTypeOK' /\ DataFits' /\ target \subseteq target'
      /\ Rooted(remote) => Rooted(remote')
  <2>1. NoTree \in Tree /\ ~NoTree.here
    BY NoRevision DEF NoTree, Tree
  <2>2. tree' \in {tree, NoTree}
    BY DEF RemoveTree
  <2>. QED BY <2>1, <2>2 DEF RemoveTree, Inv, DataTypeOK, DataFits, files
<1>2. CASE Step(w, "marking")
  BY <1>1, <1>2, CleansUp
<1>3. CASE Conclude(w, "blocked")
  BY <1>1, <1>3, Concludes
<1>4. CASE Raise(w) /\ UNCHANGED tree
  BY <1>4, Raises DEF RemoveTree, git
<1>. QED BY <1>2, <1>3, <1>4 DEF RemoveTree

LEMMA ForgetSpaceInv == ASSUME Inv, NEW w \in Worker, ForgetSpace(w) PROVE Inv'
<1>. pc[w] \in Cleanup /\ pc[w] # "idle" /\ "pruning" \in Cleanup /\ "done" \in Phases
  BY Places DEF ForgetSpace, Phases
<1>1. /\ DataTypeOK' /\ DataFits' /\ target \subseteq target'
      /\ Rooted(remote) => Rooted(remote')
  BY NoRevision DEF ForgetSpace, Inv, DataTypeOK, DataFits, git, NoSpace
<1>2. CASE Step(w, "pruning")
  BY <1>1, <1>2, CleansUp
<1>3. CASE Conclude(w, "done")
  BY <1>1, <1>3, Concludes
<1>. QED BY <1>2, <1>3 DEF ForgetSpace

LEMMA PruneBranchesInv == ASSUME Inv, NEW w \in Worker, PruneBranches(w) PROVE Inv'
<1>. pc[w] # "idle" /\ UNCHANGED <<git, files, crashes>> /\ crashes' \in 0 .. MaxCrashes
  BY DEF PruneBranches, Inv, DataTypeOK
<1>1. CASE Raise(w)
  BY <1>1, Raises
<1>2. CASE \E outcome \in {"blocked", "awaiting_pr_closure", "done"} : Conclude(w, outcome)
  BY <1>2, DataSame, Concludes DEF Phases
<1>. QED BY <1>1, <1>2 DEF PruneBranches

LEMMA ClaimInv == ASSUME Inv, NEW w \in Worker, Claim(w) PROVE Inv'
<1>1. phase' \in Phases
  BY DEF Claim, Phases
<1>. QED BY <1>1, Begins DEF Claim

(* What a call finds in the records.                                       *)
LEMMA Finds ==
  ASSUME Inv, NEW w \in Worker, job[w].kind = "recovery",
         NEW j \in {ContinueCleanup("merged", merged), ContinueCleanup("request", request)},
         j.route = "merged" => merged.state # "none"
  PROVE  /\ j \in Job /\ j.kind = "recovery"
         /\ j.route \in {"merged", "landed"} => Rooted(j.head) /\ j.head \subseteq target
<1>1. merged \in Record /\ request \in Record
  BY DEF Inv, DataTypeOK
<1>2. \A r \in Record, route \in {"merged", "request"} :
        LET k == ContinueCleanup(route, r)
        IN  k \in Job /\ k.kind = "recovery" /\ k.route = route /\ k.head = r.head
  BY NoRevision DEF ContinueCleanup, NoJob, Job, Record
<1>3. CASE j = ContinueCleanup("merged", merged)
  BY <1>1, <1>2, <1>3 DEF Inv, DataFits
<1>4. CASE j = ContinueCleanup("request", request)
  BY <1>1, <1>2, <1>4
<1>. QED BY <1>3, <1>4

LEMMA LookInv == ASSUME Inv, NEW w \in Worker, Look(w) PROVE Inv'
<1>. pc[w] = "reading" /\ job[w].kind = "recovery" /\ UNCHANGED <<git, files, crashes>>
     /\ crashes' \in 0 .. MaxCrashes /\ "blocked" \in Phases
  BY DEF Look, Inv, DataTypeOK, Phases
<1>1. CASE Conclude(w, "blocked")
  BY <1>1, DataSame, Concludes
<1>2. CASE Recovered(w) # NoJob /\ Goto(w, "waiting") /\ job' = [job EXCEPT ![w] = Recovered(w)]
  <2>1. job[w] \in Job /\ JobFits("reading", job[w])
    BY DEF Inv, ControlTypeOK
  <2>2. PICK j \in Job : /\ j = Recovered(w) /\ j.kind = "recovery"
                         /\ j.route \in {"merged", "landed"} =>
                              Rooted(j.head) /\ j.head \subseteq target
    <3>1. CASE merged.state # "none" \/ PrefersRequest
      <4>1. /\ Recovered(w) \in {ContinueCleanup("merged", merged),
                                ContinueCleanup("request", request)}
            /\ Recovered(w).route = "merged" => merged.state # "none"
        BY <3>1 DEF Recovered, ContinueCleanup, NoJob
      <4>. QED BY <4>1, Finds
    <3>2. CASE ~(merged.state # "none" \/ PrefersRequest)
      <4>1. ws.kind \in {"plain", "repair"} /\ ws.source \in Revision
            /\ Recovered(w) = [job[w] EXCEPT !.route = ws.kind, !.source = ws.source]
        BY <1>2, <3>2 DEF Recovered, Inv, DataTypeOK
      <4>. QED BY <2>1, <4>1 DEF Job
    <3>. QED BY <3>1, <3>2
  <2>3. JobFits("waiting", j)'
    BY <2>2, Places DEF JobFits, git
  <2>4. "waiting" \in Place /\ (pc[w] \in Locking <=> "waiting" \in Locking)
    BY Places
  <2>. QED BY <1>2, <2>2, <2>3, <2>4, DataSame, Goes
<1>. QED BY <1>1, <1>2 DEF Look

LEMMA Rereads ==
  ASSUME Inv, NEW w \in Worker, pc[w] = "deciding"
  PROVE  LET j == Reread(w) IN
         j.route \in {"merged", "request"} =>
           /\ j \in Job /\ j.kind = "recovery"
           /\ j.route = "merged" => Rooted(j.head) /\ j.head \subseteq target
<1>1. job[w] \in Job /\ JobFits("deciding", job[w])
  BY DEF Inv, ControlTypeOK
<1>2. job[w].kind = "recovery"
  BY <1>1 DEF JobFits
<1>3. CASE Reread(w) = job[w]
  BY <1>1, <1>2, <1>3 DEF JobFits
<1>4. CASE Reread(w) = ContinueCleanup("merged", merged) /\ merged.state # "none"
  BY <1>2, <1>4, Finds
<1>5. CASE Reread(w) = ContinueCleanup("request", request)
  <2>1. Reread(w).route # "merged"
    BY <1>5 DEF ContinueCleanup, NoJob
  <2>. QED BY <1>2, <1>5, <2>1, Finds
<1>6. CASE Reread(w) = NoJob
  BY <1>6 DEF NoJob
<1>7. CASE job[w].route = "repair" /\ Reread(w) = [job[w] EXCEPT !.source = ws.source]
  BY <1>1, <1>7 DEF Job
<1>. QED BY <1>3, <1>4, <1>5, <1>6, <1>7 DEF Reread

LEMMA DecideCleanupInv == ASSUME Inv, NEW w \in Worker, DecideCleanup(w) PROVE Inv'
<1>. UNCHANGED <<git, files, crashes>> /\ crashes' \in 0 .. MaxCrashes /\ pc[w] = "deciding"
  BY DEF DecideCleanup, Inv, DataTypeOK
<1>1. PICK p \in {"forgetting", "removing"} : Goto(w, p)
  BY DEF DecideCleanup
<1>2. PICK j \in Job : /\ job' = [job EXCEPT ![w] = j] /\ j.kind = "recovery"
                       /\ j.route \in {"merged", "request"}
                       /\ j.route = "merged" => Rooted(j.head) /\ j.head \subseteq target
  BY Rereads DEF DecideCleanup
<1>3. JobFits(p, j)'
  BY <1>2, Places DEF JobFits, git
<1>4. p \in Place /\ (pc[w] \in Locking <=> p \in Locking)
  BY Places
<1>. QED BY <1>1, <1>2, <1>3, <1>4, DataSame, Goes

LEMMA SourceIsDirtyInv == ASSUME Inv, NEW w \in Worker, SourceIsDirty(w) PROVE Inv'
<1>1. pc[w] # "idle" /\ UNCHANGED <<git, files, crashes>> /\ crashes' \in 0 .. MaxCrashes
      /\ Conclude(w, "blocked") /\ "blocked" \in Phases
  BY DEF SourceIsDirty, Inv, DataTypeOK, Phases
<1>. QED BY <1>1, DataSame, Concludes

LEMMA DecideFromTreeInv == ASSUME Inv, NEW w \in Worker, DecideFromTree(w) PROVE Inv'
<1>. pc[w] = "deciding" /\ UNCHANGED <<git, files, crashes>> /\ crashes' \in 0 .. MaxCrashes
  BY DEF DecideFromTree, Inv, DataTypeOK
<1>1. CASE \E outcome \in {"blocked", "resolving", "ready_for_merge"} : Conclude(w, outcome)
  BY <1>1, DataSame, Concludes DEF Phases
<1>2. CASE Raise(w)
  BY <1>2, Raises
<1>3. CASE /\ tree.here /\ AlreadyLanded(Reread(w).source) /\ Goto(w, "recording")
           /\ job' = [job EXCEPT ![w].route = "landed", ![w].head = tree.head]
  <2>1. job[w] \in Job /\ JobFits("deciding", job[w]) /\ tree.head \in Revision
    BY DEF Inv, ControlTypeOK, DataTypeOK, Tree
  <2>2. PICK j \in Job : /\ job' = [job EXCEPT ![w] = j] /\ j.kind = job[w].kind
                         /\ j.route = "landed" /\ j.head = tree.head
    <3>1. [job[w] EXCEPT !.route = "landed", !.head = tree.head] \in Job
      BY <2>1 DEF Job
    <3>. QED BY <1>3, <2>1, <3>1 DEF Job
  <2>3. Rooted(tree.head) /\ tree.head \subseteq target
    BY <1>3 DEF Inv, DataFits, AlreadyLanded
  <2>4. JobFits("recording", j)'
    BY <2>1, <2>2, <2>3, Places DEF JobFits, git
  <2>5. "recording" \in Place /\ (pc[w] \in Locking <=> "recording" \in Locking)
    BY Places
  <2>. QED BY <1>3, <2>2, <2>4, <2>5, DataSame, Goes
<1>. QED BY <1>1, <1>2, <1>3 DEF DecideFromTree

-----------------------------------------------------------------------------
LEMMA StartRepairInv == ASSUME Inv, NEW w \in Worker, StartRepair(w) PROVE Inv'
<1>1. Rooted(remote) /\ phase' \in Phases
  BY DEF StartRepair, Inv, DataFits, Phases
<1>. QED BY <1>1, Begins DEF StartRepair

LEMMA RecreateTreeInv == ASSUME Inv, NEW w \in Worker, RecreateTree(w) PROVE Inv'
<1>. pc[w] = "recreating" /\ "blocked" \in Phases
  BY DEF RecreateTree, Phases
<1>1. job[w] \in Job /\ JobFits("recreating", job[w]) /\ target \in Revision
  BY DEF Inv, ControlTypeOK, DataTypeOK
<1>2. job[w].kind = "repair" /\ Rooted(remote)
  BY <1>1 DEF JobFits
<1>3. /\ DataTypeOK' /\ DataFits' /\ target \subseteq target'
      /\ Rooted(remote) => Rooted(remote')
  <2>1. PICK t \in Tree : t = [NoTree EXCEPT !.here = TRUE, !.head = remote] /\ t.head = remote
    <3>1. remote \in Revision /\ {} \in Revision
      BY NoRevision DEF Inv, DataTypeOK
    <3>2. [NoTree EXCEPT !.here = TRUE, !.head = remote] \in Tree
      BY <3>1 DEF NoTree, Tree
    <3>. QED BY <3>2 DEF NoTree
  <2>2. tree' \in {tree, t}
    BY <2>1 DEF RecreateTree
  <2>. QED BY <1>2, <2>1, <2>2 DEF RecreateTree, Inv, DataTypeOK, DataFits, files
<1>4. CASE Conclude(w, "blocked")
  BY <1>3, <1>4, Concludes
<1>5. CASE Goto(w, "repairing") /\ job' = [job EXCEPT ![w].source = target]
  <2>1. PICK j \in Job : /\ job' = [job EXCEPT ![w] = j] /\ j.kind = job[w].kind
                         /\ j.route = job[w].route /\ j.head = job[w].head
    <3>1. [job[w] EXCEPT !.source = target] \in Job
      BY <1>1 DEF Job
    <3>. QED BY <1>1, <1>5, <3>1 DEF Job
  <2>2. JobFits("repairing", j)'
    BY <1>1, <1>2, <1>3, <2>1, Places DEF JobFits
  <2>3. "repairing" \in Place /\ (pc[w] \in Locking <=> "repairing" \in Locking)
    BY Places
  <2>. QED BY <1>3, <1>5, <2>1, <2>2, <2>3, Goes
<1>. QED BY <1>4, <1>5 DEF RecreateTree

LEMMA WriteRepairSpaceInv == ASSUME Inv, NEW w \in Worker, WriteRepairSpace(w) PROVE Inv'
<1>1. job[w] \in Job /\ JobFits("repairing", job[w])
  BY DEF Inv, ControlTypeOK, WriteRepairSpace
<1>2. /\ DataTypeOK' /\ DataFits' /\ target \subseteq target'
      /\ Rooted(remote) => Rooted(remote')
  BY <1>1 DEF WriteRepairSpace, Inv, DataTypeOK, DataFits, git, Job
<1>3. JobFits("syncing", job[w])'
  BY <1>1, <1>2, Places DEF JobFits, WriteRepairSpace, Step
<1>4. /\ pc[w] = "repairing" /\ Step(w, "syncing") /\ "syncing" \in Place
      /\ pc[w] \in Locking <=> "syncing" \in Locking
  BY Places DEF WriteRepairSpace
<1>. QED BY <1>2, <1>3, <1>4, Steps

LEMMA SyncRepairTreeInv == ASSUME Inv, NEW w \in Worker, SyncRepairTree(w) PROVE Inv'
<1>. pc[w] = "syncing" /\ {"resolving", "working"} \subseteq Phases
  BY DEF SyncRepairTree, Phases
<1>1. PICK t \in IF tree.theirs # {} THEN {tree} ELSE Merges(tree, job[w].source) :
        MergeGives(t) /\ \E outcome \in {"resolving", "working"} : Conclude(w, outcome)
  BY DEF SyncRepairTree
<1>2. job[w].source \in Revision
  BY DEF Inv, ControlTypeOK, Job
<1>3. tree \in Merges(tree, {}) /\ tree \in Tree /\ {} \in Revision
  BY NoRevision DEF Merges, Inv, DataTypeOK
<1>4. /\ tree' \in Tree /\ commits' \in 0 .. MaxCommits
      /\ tree'.here = tree.here /\ tree.head \subseteq tree'.head
  BY <1>1, <1>2, <1>3, MergesKeep DEF Inv, DataTypeOK
<1>5. /\ DataTypeOK' /\ DataFits' /\ target \subseteq target'
      /\ Rooted(remote) => Rooted(remote')
  BY <1>4 DEF SyncRepairTree, Inv, DataTypeOK, DataFits, Rooted, files
<1>. QED BY <1>1, <1>5, Concludes

-----------------------------------------------------------------------------
LEMMA GitFailsInv == ASSUME Inv, NEW w \in Worker, GitFails(w) PROVE Inv'
<1>1. /\ pc[w] # "idle" /\ UNCHANGED <<git, files, crashes>> /\ crashes' \in 0 .. MaxCrashes
      /\ Conclude(w, "blocked") /\ "blocked" \in Phases
  BY Places DEF GitFails, Inv, DataTypeOK, Phases
<1>. QED BY <1>1, DataSame, Concludes

LEMMA CrashInv == ASSUME Inv, NEW w \in Worker, Crash(w) PROVE Inv'
<1>1. /\ phase' \in Phases /\ holder' \in Worker \cup {NoWorker, "gone"}
      /\ crashes' \in 0 .. MaxCrashes /\ UNCHANGED <<git, files>>
  BY BoundAssumption DEF Crash, Inv, ControlTypeOK, DataTypeOK
<1>. QED BY <1>1, Returns DEF Crash

LEMMA WorkInv == ASSUME Inv, Work PROVE Inv'
<1>1. PICK t \in Tree : t = [NoTree EXCEPT !.here = TRUE, !.head = target] /\ t.head = target
  <2>1. target \in Revision /\ {} \in Revision
    BY NoRevision DEF Inv, DataTypeOK
  <2>2. [NoTree EXCEPT !.here = TRUE, !.head = target] \in Tree
    BY <2>1 DEF NoTree, Tree
  <2>. QED BY <2>2 DEF NoTree
<1>2. CASE Prepare
  <2>1. DataTypeOK' /\ DataFits'
    BY <1>1, <1>2 DEF Prepare, Inv, DataTypeOK, DataFits, NoControl
  <2>. QED BY <1>2, <2>1, Rests DEF Prepare, NoControl, control, Inv, ControlTypeOK
<1>3. CASE PrepareCrashes
  <2>1. DataTypeOK' /\ DataFits'
    BY <1>1, <1>3, BoundAssumption DEF PrepareCrashes, Inv, DataTypeOK, DataFits, files
  <2>. QED BY <1>3, <2>1, Rests DEF PrepareCrashes, control, Inv, ControlTypeOK
<1>4. CASE AdoptOrphan
  <2>1. DataTypeOK' /\ DataFits'
    BY <1>4 DEF AdoptOrphan, Inv, DataTypeOK, DataFits, NoControl, git
  <2>. QED BY <1>4, <2>1, Rests DEF AdoptOrphan, NoControl, control, git, Inv, ControlTypeOK
<1>5. CASE NoWorkspace \/ Approve
  <2>1. /\ UNCHANGED <<holder, flock, pc, job, git, files, crashes>>
        /\ phase' \in Phases /\ crashes' \in 0 .. MaxCrashes
    BY <1>5 DEF NoWorkspace, Approve, Inv, DataTypeOK, Phases
  <2>. QED BY <2>1, DataSame, Rests DEF Inv, ControlTypeOK
<1>6. CASE Edit
  <2>1. DataTypeOK' /\ DataFits'
    BY <1>6 DEF Edit, Inv, DataTypeOK, DataFits, NoControl, files, Tree
  <2>. QED BY <1>6, <2>1, Rests DEF Edit, NoControl, control, Inv, ControlTypeOK
<1>7. CASE Snapshot \/ Resolve
  <2>1. /\ CommitTree /\ phase' \in Phases
        /\ UNCHANGED <<holder, flock, pc, job, target, remote, pr, marked, files, crashes>>
    BY <1>7 DEF Snapshot, Resolve, NoControl, control, Inv, ControlTypeOK, Phases
  <2>2. /\ tree' \in Tree /\ made' \in Revision /\ commits' \in 0 .. MaxCommits
        /\ tree'.here = tree.here /\ tree.head \subseteq tree'.head
    BY <2>1, Commits DEF Inv
  <2>3. DataTypeOK' /\ DataFits'
    BY <2>1, <2>2 DEF Inv, DataTypeOK, DataFits, Rooted, files
  <2>. QED BY <2>1, <2>3, Rests DEF Inv, ControlTypeOK
<1>. QED BY <1>2, <1>3, <1>4, <1>5, <1>6, <1>7 DEF Work

LEMMA OthersInv == ASSUME Inv, Others PROVE Inv'
<1>1. CASE CloseIssue \/ BlockMonitoring \/ Stop \/ Resume
  <2>1. /\ UNCHANGED <<flock, pc, job, git, files, crashes>>
        /\ phase' \in Phases /\ holder' \in Worker \cup {NoWorker, "gone"}
        /\ crashes' \in 0 .. MaxCrashes
    BY <1>1, ModeAssumption DEF CloseIssue, BlockMonitoring, MonitorFinds, Stop, Resume,
       Inv, ControlTypeOK, DataTypeOK, Phases
  <2>. QED BY <2>1, DataSame, Rests
<1>2. CASE TargetMoves
  <2>1. NewCommit \in 0 .. MaxCommits
    BY <1>2, BoundAssumption DEF TargetMoves, NewCommit, Inv, DataTypeOK
  <2>2. DataTypeOK' /\ DataFits'
    BY <1>2, <2>1 DEF TargetMoves, Inv, DataTypeOK, DataFits, Rooted, NoControl, files, Revision
  <2>. QED BY <1>2, <2>2, Rests DEF TargetMoves, NoControl, control, Inv, ControlTypeOK
<1>3. CASE PullRequestEnds
  <2>1. DataTypeOK' /\ DataFits' /\ target \subseteq target'
    BY <1>3 DEF PullRequestEnds, Inv, DataTypeOK, DataFits, Rooted, NoControl, files, Revision
  <2>. QED BY <1>3, <2>1, Rests DEF PullRequestEnds, NoControl, control, Inv, ControlTypeOK
<1>. QED BY <1>1, <1>2, <1>3 DEF Others

LEMMA ActInv == ASSUME Inv, NEW w \in Worker, Act(w) PROVE Inv'
  BY StartMergeInv, ReadSpaceInv, TakeLockInv, CommitWorkInv, IntegrateInv, LandInv, PushInv,
     OpenPullRequestInv, RecordResultInv, RemoveTreeInv, MarkCleanedInv, ForgetSpaceInv,
     PruneBranchesInv, ClaimInv, LookInv, DecideCleanupInv, DecideFromTreeInv,
     SourceIsDirtyInv, StartRepairInv, RecreateTreeInv, WriteRepairSpaceInv,
     SyncRepairTreeInv, GitFailsInv, ReportInv DEF Act

LEMMA NextInv == ASSUME Inv, [Next]_vars PROVE Inv'
<1>1. CASE UNCHANGED vars
  <2>1. crashes' \in 0 .. MaxCrashes /\ UNCHANGED <<control, git, files>>
    BY <1>1 DEF vars, Inv, DataTypeOK
  <2>. QED BY <2>1, DataSame, Rests DEF control, Inv, ControlTypeOK
<1>. QED BY <1>1, ActInv, CrashInv, WorkInv, OthersInv DEF Next

LEMMA Invariance == Spec => []Inv
  BY InitInv, NextInv, PTL DEF Spec

(* Every variable keeps to its type, and the repository lock is held by    *)
(* exactly the process that is where it needs it, for any processes,       *)
(* modes, stops and failures.                                              *)
THEOREM MergeTypeCorrect == Spec => []TypeOK
<1>1. Inv => TypeOK
  BY Types DEF Inv
<1>. QED BY <1>1, Invariance, PTL

-----------------------------------------------------------------------------
(* What holds as long as managers keep to Managed.                         *)

(* Recoveries and repairs keep the issue's lock; while somebody has it the *)
(* issue is being merged or waits for its pull request.                    *)
HoldersFit ==
  \A w \in Worker :
    /\ job[w].kind \in {"recovery", "repair"} => holder = w
    /\ holder = w => phase = IF job[w].kind = "repair" THEN "awaiting_pr_closure" ELSE "merging"

(* Agents work, or are about to, where nobody has the repository lock, and *)
(* on a worktree, or for the first time.                                   *)
AtWork == {"working", "resolving"}

Returning(w) == holder = w /\ pc[w] = "reporting" /\ job[w].outcome \in AtWork

WorkFits ==
  /\ phase \in AtWork \/ (\E w \in Worker : Returning(w)) => \A w \in Worker : pc[w] \notin Locking
  /\ phase = "working" \/ (\E w \in Worker : Returning(w)) => tree.here \/ remote = {}

(* What was pushed is in every worktree and in what is pushed next.        *)
PushFits(p, j) ==
  /\ p = "finalizing" => /\ remote \subseteq j.head
                         /\ tree.here => j.head \subseteq tree.head
  /\ p = "opening" => j.head \subseteq remote
  /\ j.route = "request" => Rooted(j.head) /\ j.head \subseteq remote

RemoteFits ==
  /\ tree.here => remote \subseteq tree.head
  /\ request.state # "none" => Rooted(request.head) /\ request.head \subseteq remote
  /\ \A w \in Worker : PushFits(pc[w], job[w])

(* Whoever is in a call has the issue's lock.                              *)
CallsHold == \A w \in Worker : job[w].kind # "none" => holder = w

(* What managers do decides on the last two.                               *)
Patient == StopKinds \subseteq {"none"}
Local   == Modes \subseteq {"local"}

CareInv ==
  HoldersFit /\ WorkFits /\ RemoteFits /\ (Patient => CallsHold) /\ (Local => remote = {})

(* What is asked of managers below: they do not stop a recovery, and they  *)
(* send an issue back to agents only if they stop none but between calls,  *)
(* to the work itself only where merges are local.                         *)
Managed ==
  /\ StopKinds \subseteq {"none", "merge"}
  /\ ResumePhases \cap AtWork # {} => Patient
  /\ "working" \in ResumePhases => Local

(* What one process's step may do to all of these.                         *)
OthersRest(w) == \A v \in Worker \ {w} : pc'[v] = pc[v] /\ job'[v] = job[v]

HolderMoves(w) ==
  \/ /\ pc[w] = "idle" /\ Unlocked /\ holder' = w /\ phase \notin AtWork
     /\ pc'[w] \in {"reading", "waiting"} /\ job'[w].kind \in {"merge", "recovery", "repair"}
     /\ phase' = IF job'[w].kind = "repair" THEN "awaiting_pr_closure" ELSE "merging"
  \/ /\ UNCHANGED <<phase, holder>>
     /\ job'[w].kind = job[w].kind \/ (job[w].kind = "recovery" /\ job'[w].kind = "none")
  \/ /\ pc[w] = "reporting" /\ pc'[w] = "idle" /\ job'[w].kind = "none" /\ UNCHANGED <<git, files>>
     /\ IF holder = w THEN phase' = job[w].outcome /\ holder' = NoWorker
                      ELSE UNCHANGED <<phase, holder>>

PlaceMoves(w) ==
  /\ pc'[w] \in Locking /\ pc[w] \notin Locking =>
       job[w].kind \in {"recovery", "repair"} \/ holder = w
  /\ pc'[w] = "reporting" /\ job'[w].outcome \in AtWork => pc[w] \in Locking /\ tree'.here
  /\ pc[w] \notin Locking => UNCHANGED <<tree, remote>>

DataMoves(w) ==
  /\ \/ UNCHANGED remote
     \/ /\ pc[w] = "finalizing" /\ pc'[w] = "opening" /\ UNCHANGED tree
        /\ ~Local /\ remote' = job[w].head /\ job'[w].head = job[w].head
  /\ tree'.here => \/ tree.here /\ tree.head \subseteq tree'.head
                   \/ remote' \subseteq tree'.head
  /\ pc'[w] = "finalizing" => /\ tree.here /\ UNCHANGED remote
                              /\ tree.head \subseteq tree'.head /\ job'[w].head = tree'.head
  /\ pc'[w] = "opening" => job'[w].head = remote'
  /\ job'[w].route = "request" =>
       \/ job[w].route = "request" /\ job'[w].head = job[w].head
       \/ pc[w] = "opening" /\ job'[w].head = job[w].head
       \/ request.state # "none" /\ job'[w].head = request.head
  /\ \/ UNCHANGED request
     \/ request'.state # "none" /\ job[w].route = "request" /\ request'.head = job[w].head

Effects(w) == OthersRest(w) /\ HolderMoves(w) /\ PlaceMoves(w) /\ DataMoves(w)

LEMMA CareStep ==
  ASSUME Inv, CareInv, NEW w \in Worker, Effects(w)
  PROVE  CareInv'
<1>. /\ \A v \in Worker : v # NoWorker /\ v # "gone"
     /\ \A v \in Worker : v # w => job'[v] = job[v] /\ pc'[v] = pc[v]
     /\ \A v \in Worker : pc[v] \in Locking /\ pc[w] \in Locking => v = w
     /\ {"reporting", "idle", "reading", "waiting"} \cap Locking = {}
     /\ {"finalizing", "opening"} \subseteq Locking
  BY WorkerAssumption, Places DEF Effects, OthersRest, Inv, ControlTypeOK
<1>1. HoldersFit'
  BY DEF CareInv, HoldersFit, Effects, HolderMoves, Unlocked
<1>2. ASSUME phase' \in AtWork \/ \E v \in Worker : Returning(v)'
      PROVE  /\ \A v \in Worker : pc'[v] \notin Locking
             /\ \/ tree'.here \/ remote' = {}
                \/ phase' = "resolving" /\ \A v \in Worker : ~Returning(v)'
  <2>1. CASE \/ phase \in AtWork /\ UNCHANGED phase
             \/ \E v \in Worker : v # w /\ Returning(v) /\ UNCHANGED <<phase, holder>>
    <3>1. holder # w
      BY <2>1 DEF CareInv, HoldersFit, Returning, AtWork
    <3>2. \A v \in Worker : pc[v] \notin Locking
      BY <2>1 DEF CareInv, WorkFits
    <3>3. pc'[w] \notin Locking /\ UNCHANGED <<tree, remote>>
      BY <3>1, <3>2 DEF Effects, PlaceMoves, CareInv, HoldersFit
    <3>4. CASE \E v \in Worker : v # w /\ Returning(v) /\ UNCHANGED <<phase, holder>>
      BY <3>2, <3>3, <3>4 DEF CareInv, WorkFits
    <3>5. CASE phase \in AtWork /\ UNCHANGED phase
      <4>1. \A v \in Worker : ~Returning(v)
        BY <3>5 DEF CareInv, HoldersFit, Returning, AtWork
      <4>2. holder' = holder
        BY <3>1, <3>5 DEF Effects, HolderMoves, AtWork
      <4>3. \A v \in Worker : ~Returning(v)'
        BY <3>1, <4>1, <4>2 DEF Returning
      <4>4. phase = "resolving" \/ tree.here \/ remote = {}
        BY <3>5 DEF CareInv, WorkFits, AtWork
      <4>. QED BY <3>2, <3>3, <3>5, <4>3, <4>4
    <3>. QED BY <2>1, <3>4, <3>5
  <2>2. CASE Returning(w) /\ pc'[w] = "idle" /\ UNCHANGED git
    BY <2>2 DEF CareInv, WorkFits, git
  <2>3. CASE Returning(w)' /\ pc'[w] = "reporting"
    BY <2>3 DEF Effects, PlaceMoves, Returning
  <2>. QED BY <1>2, <2>1, <2>2, <2>3 DEF Effects, HolderMoves, Returning, AtWork
<1>3. WorkFits'
  BY <1>2 DEF WorkFits, AtWork
<1>4. ASSUME pc[w] = "finalizing" \/ remote' # remote
      PROVE  remote \subseteq remote'
  BY <1>4 DEF Effects, DataMoves, CareInv, RemoteFits, PushFits
<1>5. remote \subseteq remote' /\ Rooted(remote) => Rooted(remote')
  BY <1>4 DEF Rooted
<1>6. tree'.here => remote' \subseteq tree'.head
  BY DEF Effects, DataMoves, CareInv, RemoteFits, PushFits
<1>7. request'.state # "none" => Rooted(request'.head) /\ request'.head \subseteq remote'
  BY <1>4 DEF Effects, DataMoves, CareInv, RemoteFits, PushFits
<1>8. ASSUME NEW v \in Worker PROVE PushFits(pc[v], job[v])'
  <2>1. CASE v = w
    BY <1>4, <2>1 DEF Effects, DataMoves, CareInv, RemoteFits, PushFits, Inv, JobFits
  <2>2. CASE v # w
    <3>1. PushFits(pc[v], job[v])
      BY DEF CareInv, RemoteFits
    <3>2. pc[v] \in Locking => UNCHANGED <<tree, remote>>
      BY <2>2 DEF Effects, PlaceMoves
    <3>. QED BY <1>4, <2>2, <3>1, <3>2 DEF PushFits
  <2>. QED BY <2>1, <2>2
<1>9. RemoteFits'
  BY <1>6, <1>7, <1>8 DEF RemoteFits
<1>10. CallsHold => CallsHold'
  BY DEF CallsHold, Effects, HolderMoves, Unlocked
<1>11. (Local => remote = {}) => (Local => remote' = {})
  BY DEF Effects, DataMoves
<1>. QED BY <1>1, <1>3, <1>9, <1>10, <1>11 DEF CareInv

LEMMA CareInit == ASSUME Init PROVE CareInv
<1>1. \A w \in Worker : w # NoWorker
  BY WorkerAssumption
<1>2. HoldersFit /\ WorkFits
  BY <1>1, Places DEF Init, HoldersFit, WorkFits, Returning, NoJob
<1>3. RemoteFits /\ remote = {}
  BY DEF Init, RemoteFits, PushFits, NoJob, NoTree, NoFile
<1>4. CallsHold
  BY DEF Init, CallsHold, NoJob
<1>. QED BY <1>2, <1>3, <1>4 DEF CareInv

LEMMA CareCrash == ASSUME Inv, CareInv, NEW w \in Worker, Crash(w) PROVE CareInv'
<1>. /\ \A v \in Worker : v # NoWorker /\ v # "gone"
     /\ \A v \in Worker : v # w => job'[v] = job[v] /\ pc'[v] = pc[v]
     /\ pc'[w] = "idle" /\ job'[w] = NoJob /\ NoJob.kind = "none" /\ NoJob.route = "none"
     /\ "idle" \notin Locking
  BY WorkerAssumption, Places DEF Crash, Inv, ControlTypeOK, NoJob
<1>1. HoldersFit'
  BY DEF Crash, CareInv, HoldersFit
<1>2. WorkFits'
  BY DEF Crash, CareInv, WorkFits, Returning, git
<1>3. RemoteFits'
  BY Places DEF Crash, CareInv, RemoteFits, PushFits, git, files
<1>4. (CallsHold => CallsHold') /\ remote' = remote
  BY DEF Crash, CallsHold, git
<1>. QED BY <1>1, <1>2, <1>3, <1>4 DEF CareInv

(* A step of people or of agents: no call moves, and no lock is taken.     *)
LEMMA CareRests ==
  ASSUME Inv, CareInv, UNCHANGED <<pc, job, remote, request>>,
         \/ phase' = phase /\ holder' = holder
         \/ (\A w \in Worker : job[w].kind \notin {"recovery", "repair"} /\ holder' # w)
            /\ (phase' \in AtWork => \A w \in Worker : pc[w] \notin Locking)
            /\ (Patient => holder' = holder \/ \A w \in Worker : job[w].kind = "none"),
         tree' = tree \/ phase \in AtWork,
         phase' = "working" => tree'.here \/ remote = {},
         tree'.here => (tree.here /\ tree.head \subseteq tree'.head) \/ remote \subseteq tree'.head
  PROVE  CareInv'
<1>1. HoldersFit'
  BY DEF CareInv, HoldersFit
<1>2. WorkFits'
  <2>1. \A w \in Worker : Returning(w)' => Returning(w) /\ tree' = tree
    BY DEF CareInv, Returning, HoldersFit, AtWork
  <2>. QED BY <2>1 DEF CareInv, WorkFits
<1>3. ASSUME NEW w \in Worker PROVE PushFits(pc[w], job[w])'
  <2>1. PushFits(pc[w], job[w]) /\ (pc[w] = "finalizing" => tree' = tree)
    BY Places DEF CareInv, RemoteFits, WorkFits
  <2>. QED BY <2>1 DEF PushFits
<1>4. RemoteFits'
  BY <1>3 DEF CareInv, RemoteFits
<1>5. Patient => CallsHold'
  BY DEF CareInv, CallsHold
<1>. QED BY <1>1, <1>2, <1>4, <1>5 DEF CareInv

LEMMA CareWork == ASSUME Inv, CareInv, Work PROVE CareInv'
<1>1. phase \in AtWork /\ UNCHANGED <<pc, job, remote, request, holder>>
  BY DEF Work, Prepare, PrepareCrashes, AdoptOrphan, NoWorkspace, Edit, Snapshot, Resolve,
     Approve, InWorkspace, NoControl, control, git, files, AtWork
<1>2. (\A w \in Worker : job[w].kind \notin {"recovery", "repair"} /\ holder' # w)
  BY <1>1 DEF CareInv, HoldersFit, AtWork
<1>3. /\ phase = "working" => tree.here \/ remote = {}
      /\ \A w \in Worker : pc[w] \notin Locking
  BY <1>1 DEF CareInv, WorkFits
<1>4. /\ phase' = "working" => tree'.here \/ remote = {}
      /\ tree'.here => (tree.here /\ tree.head \subseteq tree'.head) \/ remote \subseteq tree'.head
  <2>1. CASE Prepare \/ PrepareCrashes
    BY <1>3, <2>1 DEF Prepare, PrepareCrashes
  <2>2. CASE AdoptOrphan \/ NoWorkspace \/ Approve
    BY <1>3, <2>2 DEF AdoptOrphan, NoWorkspace, Approve, NoControl, control, git
  <2>3. CASE Edit
    BY <2>3 DEF Edit, InWorkspace, Inv, DataTypeOK, Tree
  <2>4. CASE Snapshot \/ Resolve
    BY <2>4, Commits DEF Snapshot, Resolve, InWorkspace, Inv
  <2>. QED BY <2>1, <2>2, <2>3, <2>4 DEF Work
<1>. QED BY <1>1, <1>2, <1>3, <1>4, CareRests

LEMMA CareOthers == ASSUME Managed, Inv, CareInv, Others PROVE CareInv'
<1>1. CASE TargetMoves \/ PullRequestEnds
  <2>1. UNCHANGED <<pc, job, remote, request, phase, holder, tree>>
    BY <1>1 DEF TargetMoves, PullRequestEnds, NoControl, control, files
  <2>. QED BY <2>1, CareRests DEF CareInv, WorkFits, RemoteFits
<1>2. CASE CloseIssue \/ BlockMonitoring \/ Stop
  <2>1. UNCHANGED <<pc, job, remote, request, tree>> /\ phase' \notin AtWork
    BY <1>2 DEF CloseIssue, BlockMonitoring, MonitorFinds, Stop, git, files, AtWork
  <2>2. /\ \A w \in Worker : job[w].kind \notin {"recovery", "repair"} /\ holder' # w
        /\ Patient => \A w \in Worker : job[w].kind = "none"
    <3>1. \A w \in Worker : w # NoWorker /\ w # "gone"
      BY WorkerAssumption
    <3>2. CASE CloseIssue \/ BlockMonitoring
      BY <3>1, <3>2 DEF CloseIssue, BlockMonitoring, MonitorFinds, Unlocked, CareInv, HoldersFit,
                        CallsHold
    <3>3. CASE Stop
      BY <3>1, <3>3 DEF Stop, InCall, CareInv, HoldersFit, CallsHold, Managed, Patient
    <3>. QED BY <1>2, <3>2, <3>3
  <2>. QED BY <2>1, <2>2, CareRests DEF CareInv, RemoteFits, AtWork
<1>3. CASE Resume
  <2>1. /\ UNCHANGED <<pc, job, remote, request, tree, holder>>
        /\ phase = "blocked" /\ phase' \in ResumePhases
    BY <1>3 DEF Resume, git, files
  <2>2. \A w \in Worker : job[w].kind \notin {"recovery", "repair"} /\ holder' # w
    BY <2>1 DEF CareInv, HoldersFit
  <2>3. ASSUME phase' \in AtWork, NEW w \in Worker PROVE pc[w] \notin Locking
    <3>1. job[w].kind = "none"
      BY <2>1, <2>2, <2>3 DEF Managed, CareInv, CallsHold
    <3>. QED BY <3>1, Places DEF Inv, JobFits
  <2>4. phase' = "working" => remote = {}
    BY <2>1 DEF Managed, CareInv
  <2>. QED BY <2>1, <2>2, <2>3, <2>4, CareRests DEF CareInv, RemoteFits
<1>. QED BY <1>1, <1>2, <1>3 DEF Others

-----------------------------------------------------------------------------
(* The ends of calls.                                                      *)
LEMMA EffectsOfConclude ==
  ASSUME Inv, NEW w \in Worker, NEW outcome, Conclude(w, outcome), UNCHANGED <<remote, request>>,
         pc[w] \notin Locking => outcome \notin AtWork /\ UNCHANGED tree,
         outcome \in AtWork => tree'.here,
         tree'.here => tree.here /\ tree.head \subseteq tree'.head
  PROVE  Effects(w)
<1>1. OthersRest(w) /\ UNCHANGED <<phase, holder>>
  BY DEF Conclude, Leave, OthersRest, Inv, ControlTypeOK
<1>2. /\ pc'[w] = "reporting" /\ job'[w].kind = job[w].kind /\ job'[w].route = job[w].route
      /\ job'[w].head = job[w].head /\ job'[w].outcome = outcome
  BY DEF Conclude, Leave, Inv, ControlTypeOK, Job
<1>. QED BY <1>1, <1>2, Places DEF Effects, HolderMoves, PlaceMoves, DataMoves, files

(* A call that goes on, with the data as they are.                         *)
LEMMA EffectsOfGoing ==
  ASSUME Inv, NEW w \in Worker, NEW p \in Place, Goto(w, p),
         p \notin {"finalizing", "opening", "reporting"}, NEW j, job' = [job EXCEPT ![w] = j],
         j.kind = job[w].kind,
         p \in Locking => pc[w] \in Locking,
         pc[w] \notin Locking => UNCHANGED tree,
         UNCHANGED <<remote, request>>,
         tree'.here => \/ tree.here /\ tree.head \subseteq tree'.head
                       \/ remote \subseteq tree'.head,
         j.route = "request" => \/ job[w].route = "request" /\ j.head = job[w].head
                                \/ pc[w] = "opening" /\ j.head = job[w].head
                                \/ request.state # "none" /\ j.head = request.head
  PROVE  Effects(w)
<1>1. /\ OthersRest(w) /\ UNCHANGED <<phase, holder>> /\ pc'[w] = p /\ job'[w] = j
  BY DEF Goto, OthersRest, Inv, ControlTypeOK
<1>. QED BY <1>1 DEF Effects, HolderMoves, PlaceMoves, DataMoves

LEMMA EffectsOfRaise ==
  ASSUME Inv, NEW w \in Worker, Raise(w), job[w].kind = "recovery", UNCHANGED <<git, files>>
  PROVE  Effects(w)
<1>1. /\ OthersRest(w) /\ UNCHANGED <<phase, holder>> /\ pc'[w] = "idle" /\ job'[w] = NoJob
  BY DEF Raise, Leave, OthersRest, Inv, ControlTypeOK
<1>. QED BY <1>1, Places DEF Effects, HolderMoves, PlaceMoves, DataMoves, git, files, NoJob

LEMMA EffectsOfBegin ==
  ASSUME Inv, NEW w \in Worker, NEW kind \in {"merge", "recovery", "repair"},
         NEW p \in {"reading", "waiting"}, Begin(w, kind, p), Unlocked, phase \notin AtWork,
         phase' = IF kind = "repair" THEN "awaiting_pr_closure" ELSE "merging"
  PROVE  Effects(w)
<1>1. /\ OthersRest(w) /\ holder' = w /\ pc[w] = "idle" /\ pc'[w] = p
      /\ job'[w].kind = kind /\ job'[w].route = "none" /\ UNCHANGED <<git, files>>
  BY DEF Begin, OthersRest, Inv, ControlTypeOK, NoJob
<1>. QED BY <1>1, Places DEF Effects, HolderMoves, PlaceMoves, DataMoves, git, files

LEMMA EffectsOfMerge ==
  ASSUME Inv, NEW w \in Worker,
         \/ StartMerge(w) \/ ReadSpace(w) \/ TakeLock(w) \/ CommitWork(w) \/ Integrate(w)
         \/ Land(w) \/ Push(w) \/ OpenPullRequest(w)
  PROVE  CareInv => Effects(w)
<1>. /\ job[w] \in Job /\ JobFits(pc[w], job[w]) /\ job \in [Worker -> Job]
     /\ job' = [job EXCEPT ![w] = job[w]] <=> UNCHANGED job
  BY DEF Inv, ControlTypeOK
<1>1. CASE StartMerge(w)
  BY <1>1, EffectsOfBegin DEF StartMerge, AtWork
<1>2. CASE ReadSpace(w)
  <2>1. CASE Conclude(w, "blocked")
    BY <1>2, <2>1, EffectsOfConclude DEF ReadSpace, git, files, AtWork
  <2>2. CASE Goto(w, "waiting") /\ job' = [job EXCEPT ![w].source = ws.source]
    <3>1. PICK j : j = [job[w] EXCEPT !.source = ws.source]
      OBVIOUS
    <3>2. /\ job' = [job EXCEPT ![w] = j] /\ j.kind = job[w].kind
          /\ j.route = job[w].route /\ j.head = job[w].head
      BY <2>2, <3>1 DEF Job
    <3>. QED BY <1>2, <2>2, <3>2, Places, EffectsOfGoing DEF ReadSpace, git, files
  <2>. QED BY <1>2, <2>1, <2>2 DEF ReadSpace
<1>3. CASE TakeLock(w)
  <2>1. CASE Conclude(w, "blocked")
    BY <1>3, <2>1, EffectsOfConclude DEF TakeLock, git, files, AtWork
  <2>2. CASE ~(job[w].kind = "merge" /\ Stopped(w))
    <3>1. job[w].kind \in {"merge", "recovery", "repair"}
      BY <1>3, Places DEF TakeLock, JobFits, Job
    <3>2. /\ pc' = [pc EXCEPT ![w] = CASE job[w].kind = "merge"    -> "committing"
                                       [] job[w].kind = "recovery" -> "deciding"
                                       [] job[w].kind = "repair"   -> "recreating"]
          /\ UNCHANGED <<phase, holder, job, git, files>> /\ pc[w] = "waiting"
      BY <1>3, <2>2 DEF TakeLock
    <3>3. pc'[w] \in {"committing", "deciding", "recreating"} /\ OthersRest(w)
      BY <3>1, <3>2 DEF OthersRest, Inv, ControlTypeOK
    <3>. QED BY <2>2, <3>1, <3>2, <3>3, Places DEF Effects, HolderMoves, PlaceMoves,
              DataMoves, Stopped, git, files
  <2>. QED BY <1>3, <2>1, <2>2 DEF TakeLock
<1>4. CASE CommitWork(w)
  <2>1. tree'.here = tree.here /\ tree.head \subseteq tree'.head
    BY <1>4, Commits DEF CommitWork, Inv
  <2>2. UNCHANGED <<remote, request, files>> /\ pc[w] = "committing"
    BY <1>4 DEF CommitWork, files
  <2>3. CASE Conclude(w, "blocked")
    BY <2>1, <2>2, <2>3, Places, EffectsOfConclude DEF AtWork
  <2>4. CASE Step(w, "integrating")
    BY <2>1, <2>2, <2>4, Places, EffectsOfGoing DEF Step
  <2>. QED BY <1>4, <2>3, <2>4 DEF CommitWork
<1>5. CASE Integrate(w)
  <2>1. [tree EXCEPT !.branch = TRUE] \in Tree /\ tree.here
        /\ [tree EXCEPT !.branch = TRUE].head = tree.head /\ [tree EXCEPT !.branch = TRUE].here
    BY <1>5 DEF Inv, DataTypeOK, Tree, Integrate
  <2>2. PICK t \in Merges([tree EXCEPT !.branch = TRUE], target) :
          /\ MergeGives(t)
          /\ IF t.theirs # {} THEN Conclude(w, "resolving")
             ELSE IF Stopped(w) THEN Conclude(w, "blocked")
             ELSE Goto(w, "finalizing") /\ job' = [job EXCEPT ![w].head = t.head]
    BY <1>5 DEF Integrate
  <2>3. tree' = t /\ t.here /\ tree.head \subseteq t.head
    <3>1. DataTypeOK /\ target \in Revision
      BY DEF Inv, DataTypeOK
    <3>. QED BY <2>1, <2>2, <3>1, MergesKeep
  <2>4. UNCHANGED <<remote, files, request>> /\ pc[w] = "integrating"
    BY <1>5 DEF Integrate, files
  <2>5. CASE \E outcome \in {"resolving", "blocked"} : Conclude(w, outcome)
    BY <2>1, <2>3, <2>4, <2>5, Places, EffectsOfConclude
  <2>6. CASE Goto(w, "finalizing") /\ job' = [job EXCEPT ![w].head = t.head]
    <3>1. /\ OthersRest(w) /\ UNCHANGED <<phase, holder>> /\ pc'[w] = "finalizing"
          /\ job'[w].kind = job[w].kind /\ job'[w].head = t.head /\ job'[w].route = job[w].route
      BY <2>6 DEF Goto, OthersRest, Inv, ControlTypeOK, Job
    <3>2. job[w].route = "none"
      BY <2>4, Places DEF JobFits
    <3>. QED BY <2>1, <2>3, <2>4, <3>1, <3>2, Places
         DEF Effects, HolderMoves, PlaceMoves, DataMoves
  <2>. QED BY <2>2, <2>5, <2>6
<1>6. CASE Land(w)
  <2>1. PICK j : j = [job[w] EXCEPT !.route = "merged"]
    OBVIOUS
  <2>2. job' = [job EXCEPT ![w] = j] /\ j.kind = job[w].kind /\ j.route = "merged"
    BY <1>6, <2>1 DEF Land, RecordIn, Job
  <2>3. /\ Goto(w, "recording") /\ pc[w] = "finalizing" /\ UNCHANGED <<tree, remote, request>>
    BY <1>6 DEF Land, RecordIn, files
  <2>. QED BY <2>2, <2>3, Places, EffectsOfGoing
<1>7. CASE Push(w)
  <2>1. CASE Conclude(w, "blocked") /\ UNCHANGED remote
    BY <1>7, <2>1, Places, EffectsOfConclude DEF Push, AtWork, files
  <2>2. CASE remote' = job[w].head /\ Step(w, "opening")
    <3>1. OthersRest(w) /\ UNCHANGED <<phase, holder, job>> /\ pc'[w] = "opening"
      BY <2>2 DEF Step, Goto, OthersRest, Inv, ControlTypeOK
    <3>2. UNCHANGED <<tree, request>> /\ pc[w] = "finalizing"
      BY <1>7 DEF Push, files
    <3>3. ~Local
      BY <1>7 DEF Push, Local
    <3>. QED BY <2>2, <3>1, <3>2, <3>3, Places DEF Effects, HolderMoves, PlaceMoves, DataMoves
  <2>. QED BY <1>7, <2>1, <2>2 DEF Push
<1>8. CASE OpenPullRequest(w)
  <2>1. PICK j : j = [job[w] EXCEPT !.route = "request"]
    OBVIOUS
  <2>2. job' = [job EXCEPT ![w] = j] /\ j.kind = job[w].kind /\ j.head = job[w].head
    BY <1>8, <2>1 DEF OpenPullRequest, RecordIn, Job
  <2>3. /\ Goto(w, "recording") /\ pc[w] = "opening" /\ UNCHANGED <<tree, remote, request>>
    BY <1>8 DEF OpenPullRequest, RecordIn, files
  <2>. QED BY <2>2, <2>3, Places, EffectsOfGoing
<1>. QED BY <1>1, <1>2, <1>3, <1>4, <1>5, <1>6, <1>7, <1>8

LEMMA EffectsOfCleanup ==
  ASSUME Inv, NEW w \in Worker,
         \/ RecordResult(w) \/ RemoveTree(w) \/ MarkCleaned(w) \/ ForgetSpace(w) \/ PruneBranches(w)
  PROVE  Effects(w)
<1>. /\ pc[w] \in Cleanup /\ pc[w] \in Locking /\ JobFits(pc[w], job[w])
     /\ {"removing", "marking", "forgetting", "pruning"} \subseteq Locking \cap Place
  BY Places DEF Inv, RecordResult, RemoveTree, MarkCleaned, ForgetSpace, PruneBranches
<1>. PICK j : j = job[w]
  OBVIOUS
<1>. UNCHANGED job => job' = [job EXCEPT ![w] = j]
  BY DEF Inv, ControlTypeOK
<1>1. CASE \E p \in {"removing", "forgetting"}, state \in {"recorded", "cleaned"} :
             Step(w, p) /\ WriteRecord(w, state) /\ UNCHANGED git
  <2>1. PICK p \in {"removing", "forgetting"}, state \in {"recorded", "cleaned"} :
          Step(w, p) /\ WriteRecord(w, state) /\ UNCHANGED git
    BY <1>1
  <2>2. \/ UNCHANGED request
        \/ request'.state # "none" /\ job[w].route = "request" /\ request'.head = job[w].head
    BY <2>1 DEF WriteRecord
  <2>3. /\ OthersRest(w) /\ UNCHANGED <<phase, holder, job, tree, remote>> /\ pc'[w] = p
    BY <2>1 DEF Step, Goto, OthersRest, Inv, ControlTypeOK, git
  <2>. QED BY <2>2, <2>3 DEF Effects, HolderMoves, PlaceMoves, DataMoves
<1>2. CASE \E p \in {"marking", "pruning"} :
             Step(w, p) /\ tree' \in {tree, NoTree} /\ UNCHANGED <<remote, request>>
  <2>1. tree'.here => tree.here /\ tree.head \subseteq tree'.head
    BY <1>2 DEF NoTree
  <2>. QED BY <1>2, <2>1, EffectsOfGoing DEF Step
<1>3. CASE \E outcome \in {"blocked", "done", "awaiting_pr_closure"} :
             Conclude(w, outcome) /\ UNCHANGED <<tree, remote, request>>
  <2>1. PICK outcome \in {"blocked", "done", "awaiting_pr_closure"} :
          Conclude(w, outcome) /\ UNCHANGED <<tree, remote, request>>
    BY <1>3
  <2>. QED BY <2>1, EffectsOfConclude DEF AtWork
<1>4. CASE Raise(w) /\ job[w].kind = "recovery" /\ UNCHANGED <<git, files>>
  BY <1>4, EffectsOfRaise
<1>. QED BY <1>1, <1>2, <1>3, <1>4
     DEF RecordResult, RemoveTree, MarkCleaned, ForgetSpace, PruneBranches, git, files

(* What a recovery knows of a pull request, it knows from its record.      *)
LEMMA RequestsFound ==
  ASSUME Inv, NEW w \in Worker, NEW j \in {Recovered(w), Reread(w)}, job[w].kind = "recovery"
  PROVE  /\ j # NoJob => j.kind = job[w].kind
         /\ j.route = "request" => \/ job[w].route = "request" /\ j.head = job[w].head
                                   \/ request.state # "none" /\ j.head = request.head
<1>. job[w] \in Job
  BY DEF Inv, ControlTypeOK
<1>1. CASE j = Recovered(w)
  BY <1>1 DEF Recovered, ContinueCleanup, PrefersRequest, NoJob, Job, Inv, DataTypeOK
<1>2. CASE j = Reread(w)
  BY <1>2 DEF Reread, ContinueCleanup, NoJob, Job
<1>. QED BY <1>1, <1>2

LEMMA EffectsOfRecovery ==
  ASSUME Inv, NEW w \in Worker,
         \/ Claim(w) \/ Look(w) \/ DecideCleanup(w) \/ DecideFromTree(w) \/ SourceIsDirty(w)
  PROVE  Effects(w)
<1>1. CASE Claim(w)
  BY <1>1, EffectsOfBegin DEF Claim, AtWork
<1>2. CASE ~Claim(w)
  <2>. /\ job[w] \in Job /\ job[w].kind = "recovery" /\ UNCHANGED <<git, files>>
       /\ pc[w] \in {"reading", "deciding"} /\ (DecideFromTree(w) => pc[w] = "deciding")
    BY <1>2 DEF Inv, ControlTypeOK, JobFits, Look, DecideCleanup, DecideFromTree, SourceIsDirty
  <2>1. CASE Conclude(w, "blocked") \/ Conclude(w, "ready_for_merge")
    BY <2>1, EffectsOfConclude DEF git, files, AtWork
  <2>2. CASE Conclude(w, "resolving") /\ tree.here /\ pc[w] = "deciding"
    BY <2>2, Places, EffectsOfConclude DEF git, files
  <2>3. CASE Raise(w)
    BY <2>3, EffectsOfRaise
  <2>4. CASE Look(w) /\ Recovered(w) # NoJob
    <3>1. PICK j : j = Recovered(w)
      OBVIOUS
    <3>. QED BY <2>4, <3>1, Places, RequestsFound, EffectsOfGoing DEF Look, git, files
  <2>5. CASE DecideCleanup(w)
    <3>1. PICK j : j = Reread(w)
      OBVIOUS
    <3>2. j # NoJob
      BY <2>5, <3>1 DEF DecideCleanup, NoJob
    <3>. QED BY <2>5, <3>1, <3>2, Places, RequestsFound, EffectsOfGoing
         DEF DecideCleanup, git, files
  <2>6. CASE /\ pc[w] = "deciding" /\ Goto(w, "recording")
             /\ job' = [job EXCEPT ![w].route = "landed", ![w].head = tree.head]
    <3>1. PICK j : j = [job[w] EXCEPT !.route = "landed", !.head = tree.head]
      OBVIOUS
    <3>2. job' = [job EXCEPT ![w] = j] /\ j.kind = job[w].kind /\ j.route = "landed"
      BY <2>6, <3>1 DEF Job, Inv, ControlTypeOK
    <3>. QED BY <2>6, <3>2, Places, EffectsOfGoing DEF git, files
  <2>. QED BY <1>2, <2>1, <2>2, <2>3, <2>4, <2>5, <2>6 DEF Look, DecideFromTree, SourceIsDirty
<1>. QED BY <1>1, <1>2

LEMMA EffectsOfRepair ==
  ASSUME Inv, NEW w \in Worker,
         \/ StartRepair(w) \/ RecreateTree(w) \/ WriteRepairSpace(w) \/ SyncRepairTree(w)
  PROVE  Effects(w)
<1>. job[w] \in Job /\ job \in [Worker -> Job]
  BY DEF Inv, ControlTypeOK
<1>1. CASE StartRepair(w)
  BY <1>1, EffectsOfBegin DEF StartRepair, AtWork
<1>2. CASE RecreateTree(w)
  <2>1. /\ pc[w] = "recreating" /\ UNCHANGED <<remote, request>>
        /\ tree' = tree \/ tree' = [NoTree EXCEPT !.here = TRUE, !.head = remote]
    BY <1>2 DEF RecreateTree, files
  <2>2. tree' = tree \/ remote \subseteq tree'.head
    BY <2>1 DEF NoTree
  <2>3. CASE Conclude(w, "blocked") /\ UNCHANGED tree
    BY <2>1, <2>3, EffectsOfConclude DEF AtWork
  <2>4. CASE Goto(w, "repairing") /\ job' = [job EXCEPT ![w].source = target]
    <3>1. PICK j : j = [job[w] EXCEPT !.source = target]
      OBVIOUS
    <3>2. /\ job' = [job EXCEPT ![w] = j] /\ j.kind = job[w].kind
          /\ j.route = job[w].route /\ j.head = job[w].head
      BY <2>4, <3>1 DEF Job
    <3>. QED BY <2>1, <2>2, <2>4, <3>2, Places, EffectsOfGoing
  <2>. QED BY <1>2, <2>3, <2>4 DEF RecreateTree
<1>3. CASE WriteRepairSpace(w)
  BY <1>3, Places, EffectsOfGoing DEF WriteRepairSpace, Step, git
<1>4. CASE SyncRepairTree(w)
  <2>1. PICK t \in IF tree.theirs # {} THEN {tree} ELSE Merges(tree, job[w].source) :
          MergeGives(t) /\ \E outcome \in AtWork : Conclude(w, outcome)
    BY <1>4 DEF SyncRepairTree, AtWork
  <2>2. job[w].source \in Revision /\ DataTypeOK /\ tree \in Tree /\ {} \in Revision
    BY NoRevision DEF Inv, DataTypeOK, Job
  <2>3. tree \in Merges(tree, {})
    BY DEF Merges
  <2>4. tree'.here = tree.here /\ tree.head \subseteq tree'.head
    BY <2>1, <2>2, <2>3, MergesKeep
  <2>5. UNCHANGED <<remote, request>> /\ pc[w] = "syncing" /\ tree.here
    BY <1>4 DEF SyncRepairTree, files
  <2>. QED BY <2>1, <2>4, <2>5, Places, EffectsOfConclude
<1>. QED BY <1>1, <1>2, <1>3, <1>4

LEMMA EffectsOfEnds ==
  ASSUME Inv, NEW w \in Worker, GitFails(w) \/ Report(w)
  PROVE  Effects(w)
<1>1. CASE GitFails(w)
  BY <1>1, EffectsOfConclude DEF GitFails, git, files, AtWork
<1>2. CASE Report(w)
  <2>1. /\ OthersRest(w) /\ pc[w] = "reporting" /\ pc'[w] = "idle" /\ job'[w] = NoJob
        /\ UNCHANGED <<git, files>>
    BY <1>2 DEF Report, OthersRest, Inv, ControlTypeOK
  <2>2. IF holder = w THEN phase' = job[w].outcome /\ holder' = NoWorker
                      ELSE UNCHANGED <<phase, holder>>
    BY <1>2 DEF Report
  <2>. QED BY <2>1, <2>2, Places
       DEF Effects, HolderMoves, PlaceMoves, DataMoves, NoJob, git, files
<1>. QED BY <1>1, <1>2

LEMMA CareNext == ASSUME Managed, Inv, CareInv, [Next]_vars PROVE CareInv'
<1>1. CASE UNCHANGED vars
  BY <1>1, CareRests DEF vars, control, git, files, CareInv, WorkFits, RemoteFits
<1>2. ASSUME NEW w \in Worker, Act(w) PROVE Effects(w)
  BY <1>2, EffectsOfMerge, EffectsOfCleanup, EffectsOfRecovery, EffectsOfRepair,
     EffectsOfEnds DEF Act
<1>. QED BY <1>1, <1>2, CareStep, CareCrash, CareWork, CareOthers DEF Next

(* The metadata a recovery trusts say only what has happened, whatever     *)
(* fails in a cleanup, crashes or is stopped in a merge: what is recorded  *)
(* as merged is in the target, and what is recorded as a pull request is   *)
(* in its branch, which is never overwritten with anything older.          *)
THEOREM RecordsAreTrue == ASSUME Managed PROVE Spec => []RecordsFollowTheWork
<1>1. Init => CareInv
  BY CareInit
<1>2. Inv /\ CareInv /\ [Next]_vars => CareInv'
  BY CareNext
<1>3. Inv /\ CareInv => RecordsFollowTheWork
  BY DEF Inv, DataFits, CareInv, RemoteFits, RecordsFollowTheWork, Rooted
<1>. QED BY <1>1, <1>2, <1>3, Invariance, PTL DEF Spec
-----------------------------------------------------------------------------
(* Conflict markers, where managers stop an issue between calls only, and  *)
(* send it past the resolver to no merge.                                  *)

Conflicts == tree.theirs # {}
Unmarked  == {"working", "ready_for_merge"}

(* A merge with conflicts in the worktree is about to report them, and no  *)
(* call sends the issue past the resolver.                                 *)
MarkFits(w) ==
  /\ job[w].kind = "merge" => pc[w] = "reporting"
  /\ pc[w] = "reporting" => job[w].outcome \notin Unmarked

MarksFit ==
  marked = {} /\ (Conflicts => phase \notin Unmarked /\ \A w \in Worker : MarkFits(w))

(* Who is in a call is there alone, and only who is in one goes on.        *)
LEMMA OneCall ==
  ASSUME Inv, CareInv, Inv', CareInv', Patient, NEW w \in Worker, Act(w)
  PROVE  \A v \in Worker : v # w => /\ job'[v] = job[v] /\ pc'[v] = pc[v]
                                    /\ job[v].kind = "none" /\ pc[v] = "idle"
<1>1. Effects(w)
  BY EffectsOfMerge, EffectsOfCleanup, EffectsOfRecovery, EffectsOfRepair, EffectsOfEnds DEF Act
<1>2. CASE \E kind \in {"merge", "recovery", "repair"}, p \in {"reading", "waiting"} :
             Begin(w, kind, p) /\ Unlocked
  <2>1. \A v \in Worker : v # NoWorker /\ v # "gone"
    BY WorkerAssumption
  <2>2. \A v \in Worker : job[v].kind = "none"
    BY <1>2, <2>1 DEF Unlocked, CareInv, CallsHold
  <2>. QED BY <1>1, <2>2 DEF Effects, OthersRest, Inv, JobFits
<1>3. CASE pc[w] # "idle"
  <2>1. job[w].kind # "none"
    BY <1>3 DEF Inv, JobFits
  <2>2. \A v \in Worker : v # w => job[v].kind = "none"
    BY <2>1 DEF CareInv, CallsHold
  <2>. QED BY <1>1, <2>2 DEF Effects, OthersRest, Inv, JobFits
<1>. QED BY <1>2, <1>3, Places
     DEF Act, StartMerge, ReadSpace, TakeLock, CommitWork, Integrate, Land, Push, OpenPullRequest,
         RecordResult, RemoveTree, MarkCleaned, ForgetSpace, PruneBranches, Claim, Look,
         DecideCleanup, DecideFromTree, SourceIsDirty, StartRepair, RecreateTree,
         WriteRepairSpace, SyncRepairTree, GitFails, Report

(* A call that reports something.                                          *)
LEMMA Reporting ==
  ASSUME Inv, NEW w \in Worker, NEW outcome, Conclude(w, outcome)
  PROVE  /\ pc'[w] = "reporting" /\ job'[w].outcome = outcome /\ job'[w].kind = job[w].kind
         /\ UNCHANGED phase
  BY DEF Conclude, Leave, Inv, ControlTypeOK, Job

(* A call that leaves the worktree as it is.                               *)
LEMMA MarksRest ==
  ASSUME Inv, CareInv, MarksFit, NEW w \in Worker, UNCHANGED <<tree, marked>>,
         \/ StartMerge(w) \/ ReadSpace(w) \/ TakeLock(w) \/ Land(w) \/ Push(w)
         \/ OpenPullRequest(w) \/ RecordResult(w) \/ MarkCleaned(w) \/ ForgetSpace(w)
         \/ PruneBranches(w) \/ Claim(w) \/ Look(w) \/ DecideCleanup(w) \/ DecideFromTree(w)
         \/ SourceIsDirty(w) \/ StartRepair(w) \/ WriteRepairSpace(w) \/ GitFails(w) \/ Report(w)
  PROVE  marked' = {} /\ (Conflicts' => phase' \notin Unmarked /\ MarkFits(w)')
<1> SUFFICES ASSUME Conflicts PROVE phase' \notin Unmarked /\ MarkFits(w)'
  BY DEF MarksFit, Conflicts
<1>. /\ phase \notin Unmarked /\ MarkFits(w) /\ JobFits(pc[w], job[w])
     /\ pc \in [Worker -> Place] /\ job \in [Worker -> Job] /\ job[w] \in Job
  BY DEF MarksFit, Inv, ControlTypeOK
<1>1. CASE Report(w)
  BY <1>1 DEF Report, MarkFits, NoJob
<1>2. CASE Claim(w) \/ StartRepair(w)
  BY <1>2 DEF Claim, StartRepair, Begin, MarkFits, NoJob
<1>3. ASSUME NEW outcome, Conclude(w, outcome), outcome \notin Unmarked
      PROVE  phase' \notin Unmarked /\ MarkFits(w)'
  BY <1>3, Reporting DEF MarkFits
<1>4. CASE Raise(w)
  BY <1>4 DEF Raise, Leave, MarkFits, NoJob
<1>5. ASSUME job[w].kind \in {"recovery", "repair"}, NEW p \in Place \ {"reporting"}, Goto(w, p),
             job'[w].kind # "merge"
      PROVE  phase' \notin Unmarked /\ MarkFits(w)'
  BY <1>5 DEF Goto, MarkFits
<1>6. CASE Look(w) \/ DecideCleanup(w) \/ DecideFromTree(w) \/ SourceIsDirty(w)
  <2>1. job[w].kind = "recovery"
    BY <1>6 DEF Look, DecideCleanup, DecideFromTree, SourceIsDirty, JobFits
  <2>. QED BY <1>3, <1>4, <1>5, <1>6, <2>1, RequestsFound, Places
       DEF Look, DecideCleanup, DecideFromTree, SourceIsDirty, Conflicts, Unmarked, NoJob, Job
<1>7. CASE /\ pc[w] \in Cleanup
           /\ RecordResult(w) \/ MarkCleaned(w) \/ ForgetSpace(w) \/ PruneBranches(w)
  <2>1. job[w].kind = "recovery"
    BY <1>7, Places DEF JobFits, MarkFits
  <2>. QED BY <1>3, <1>4, <1>5, <1>7, <2>1, Places
       DEF RecordResult, MarkCleaned, ForgetSpace, PruneBranches, Step, Unmarked
<1>8. CASE WriteRepairSpace(w)
  BY <1>5, <1>8, Places DEF WriteRepairSpace, Step, JobFits
<1>9. CASE TakeLock(w)
  <2>1. job[w].kind \in {"recovery", "repair"}
    BY <1>9, Places DEF TakeLock, JobFits, MarkFits, Job
  <2>. QED BY <1>9, <2>1, Places DEF TakeLock, MarkFits
<1>10. CASE GitFails(w)
  BY <1>3, <1>10 DEF GitFails, Unmarked
<1>11. CASE ReadSpace(w) \/ Land(w) \/ Push(w) \/ OpenPullRequest(w) \/ StartMerge(w)
  BY <1>11, Places DEF ReadSpace, Land, Push, OpenPullRequest, StartMerge, JobFits, MarkFits, Unmarked
<1>. QED BY <1>1, <1>2, <1>6, <1>7, <1>8, <1>9, <1>10, <1>11, Places
     DEF RecordResult, MarkCleaned, ForgetSpace, PruneBranches

(* A call that changes the worktree.                                       *)
LEMMA MarksMove ==
  ASSUME Patient, Inv, CareInv, MarksFit, NEW w \in Worker,
         CommitWork(w) \/ Integrate(w) \/ RemoveTree(w) \/ RecreateTree(w) \/ SyncRepairTree(w)
  PROVE  marked' = {} /\ (Conflicts' => phase' \notin Unmarked /\ MarkFits(w)')
<1>. /\ JobFits(pc[w], job[w]) /\ tree \in Tree /\ marked = {}
     /\ pc \in [Worker -> Place] /\ job \in [Worker -> Job] /\ job[w] \in Job
  BY DEF MarksFit, Inv, ControlTypeOK, DataTypeOK
<1>1. ASSUME NEW outcome, Conclude(w, outcome), outcome \notin Unmarked, phase \notin Unmarked
      PROVE  phase' \notin Unmarked /\ MarkFits(w)'
  BY <1>1, Reporting DEF MarkFits
<1>2. CASE CommitWork(w)
  <2>1. tree.theirs = {}
    BY <1>2, Places DEF CommitWork, JobFits, MarksFit, MarkFits, Conflicts
  <2>2. tree'.theirs = {} /\ marked' = marked
    BY <1>2, <2>1 DEF CommitWork, CommitTree, Tree
  <2>. QED BY <2>2 DEF Conflicts
<1>4. CASE Integrate(w)
  <2>1. PICK t \in Merges([tree EXCEPT !.branch = TRUE], target) :
          /\ MergeGives(t)
          /\ IF t.theirs # {} THEN Conclude(w, "resolving")
             ELSE IF Stopped(w) THEN Conclude(w, "blocked")
             ELSE Goto(w, "finalizing") /\ job' = [job EXCEPT ![w].head = t.head]
    BY <1>4 DEF Integrate
  <2>2. Conflicts' => Conclude(w, "resolving")
    BY <2>1 DEF MergeGives, Conflicts
  <2>3. Conflicts' => MarkFits(w)' /\ phase' = phase
    BY <2>2, Reporting DEF MarkFits, Unmarked
  <2>4. holder = w /\ phase \notin Unmarked
    BY <1>4, Places DEF Integrate, JobFits, CareInv, CallsHold, HoldersFit, Unmarked
  <2>. QED BY <1>4, <2>3, <2>4 DEF Integrate
<1>5. CASE RemoveTree(w)
  <2>1. marked' = marked /\ (Conflicts' => Conflicts)
    BY <1>5 DEF RemoveTree, Conflicts, NoTree
  <2>2. ASSUME Conflicts' PROVE MarkFits(w)' /\ phase' \notin Unmarked
    <3>1. job[w].kind = "recovery" /\ pc[w] = "removing" /\ phase \notin Unmarked
      BY <1>5, <2>1, <2>2, Places DEF RemoveTree, MarksFit, MarkFits, JobFits
    <3>2. CASE Conclude(w, "blocked")
      BY <1>1, <3>1, <3>2 DEF Unmarked
    <3>3. CASE Raise(w)
      BY <3>1, <3>3 DEF Raise, Leave, MarkFits, NoJob
    <3>4. CASE Step(w, "marking")
      BY <3>1, <3>4 DEF Step, Goto, MarkFits
    <3>. QED BY <1>5, <3>2, <3>3, <3>4 DEF RemoveTree
  <2>. QED BY <2>1, <2>2
<1>6. CASE RecreateTree(w)
  <2>1. /\ marked' = marked /\ (Conflicts' => Conflicts) /\ pc[w] = "recreating"
        /\ \/ Conclude(w, "blocked")
           \/ Goto(w, "repairing") /\ job' = [job EXCEPT ![w].source = target]
    BY <1>6 DEF RecreateTree, Conflicts, NoTree
  <2>2. job[w].kind = "repair"
    BY <2>1 DEF JobFits
  <2>3. CASE Goto(w, "repairing") /\ job' = [job EXCEPT ![w].source = target]
    BY <2>1, <2>2, <2>3 DEF Goto, MarkFits, MarksFit, Job
  <2>. QED BY <1>1, <2>1, <2>3 DEF MarksFit, Unmarked
<1>7. CASE SyncRepairTree(w)
  <2>1. PICK t : /\ MergeGives(t)
                 /\ Conclude(w, IF t.theirs # {} THEN "resolving" ELSE "working")
    BY <1>7 DEF SyncRepairTree
  <2>2. Conflicts' => Conclude(w, "resolving")
    BY <2>1 DEF MergeGives, Conflicts
  <2>3. Conflicts' => MarkFits(w)' /\ phase' = phase
    BY <2>2, Reporting DEF MarkFits, Unmarked
  <2>4. holder = w /\ phase = "awaiting_pr_closure"
    BY <1>7 DEF SyncRepairTree, JobFits, CareInv, HoldersFit
  <2>. QED BY <1>7, <2>3, <2>4 DEF SyncRepairTree, Unmarked
<1>. QED BY <1>2, <1>4, <1>5, <1>6, <1>7

(* The steps of agents, people and the provider.                           *)
LEMMA MarksBeside ==
  ASSUME Inv, CareInv, MarksFit, ResumePhases \cap Unmarked = {}, Work \/ Others
  PROVE  MarksFit'
<1>1. UNCHANGED <<pc, job, marked>>
  BY DEF Work, Prepare, PrepareCrashes, AdoptOrphan, NoWorkspace, Edit, Snapshot, Resolve, Approve,
     Others, CloseIssue, BlockMonitoring, MonitorFinds, Stop, Resume, TargetMoves, PullRequestEnds,
     NoControl, control, git
<1>2. ASSUME Conflicts' PROVE Conflicts /\ phase' \notin Unmarked
  <2>. tree \in Tree
    BY DEF Inv, DataTypeOK
  <2>1. CASE Prepare \/ PrepareCrashes \/ Snapshot \/ Resolve
    <3>1. tree'.theirs = {}
      BY <2>1 DEF Prepare, PrepareCrashes, Snapshot, Resolve, CommitTree, NoTree, Tree
    <3>. QED BY <1>2, <3>1 DEF Conflicts
  <2>2. CASE AdoptOrphan \/ NoWorkspace \/ Edit \/ Approve
    BY <1>2, <2>2 DEF AdoptOrphan, NoWorkspace, Edit, Approve, InWorkspace, NoControl, control, git,
       MarksFit, Conflicts, Unmarked, Tree
  <2>3. CASE Others
    BY <1>2, <2>3 DEF Others, CloseIssue, BlockMonitoring, MonitorFinds, Stop, Resume, TargetMoves,
       PullRequestEnds, NoControl, control, git, MarksFit, Conflicts, Unmarked
  <2>. QED BY <2>1, <2>2, <2>3 DEF Work
<1>. QED BY <1>1, <1>2 DEF MarksFit, MarkFits

LEMMA MarksNext ==
  ASSUME Patient, ResumePhases \cap Unmarked = {}, Inv, CareInv, Inv', CareInv', MarksFit, [Next]_vars
  PROVE  MarksFit'
<1>1. CASE UNCHANGED vars
  BY <1>1 DEF vars, control, git, MarksFit, MarkFits, Conflicts
<1>2. ASSUME NEW w \in Worker, Act(w) PROVE MarksFit'
  <2>1. marked' = {} /\ (Conflicts' => phase' \notin Unmarked /\ MarkFits(w)')
    <3>1. CASE CommitWork(w) \/ Integrate(w) \/ RemoveTree(w) \/ RecreateTree(w) \/ SyncRepairTree(w)
      BY <3>1, MarksMove
    <3>2. CASE UNCHANGED <<tree, marked>>
      BY <1>2, <3>1, <3>2, MarksRest DEF Act
    <3>. QED BY <1>2, <3>1, <3>2
         DEF Act, StartMerge, Begin, ReadSpace, TakeLock, Land, Push, OpenPullRequest, RecordResult,
             MarkCleaned, ForgetSpace, PruneBranches, Claim, Look, DecideCleanup, DecideFromTree,
             SourceIsDirty, StartRepair, WriteRepairSpace, GitFails, Report, git
  <2>2. \A v \in Worker : v # w => job'[v].kind = "none" /\ pc'[v] = "idle"
    BY <1>2, OneCall
  <2>. QED BY <2>1, <2>2 DEF MarksFit, MarkFits
<1>3. ASSUME NEW w \in Worker, Crash(w) PROVE MarksFit'
  <2>1. UNCHANGED <<phase, git>> /\ pc'[w] = "idle" /\ job'[w] = NoJob
        /\ \A v \in Worker : v # w => pc'[v] = pc[v] /\ job'[v] = job[v]
    BY <1>3 DEF Crash, Inv, ControlTypeOK
  <2>. QED BY <2>1 DEF MarksFit, MarkFits, Conflicts, NoJob, git
<1>. QED BY <1>1, <1>2, <1>3, MarksBeside DEF Next

(* Conflict markers never reach the target branch or a pull request        *)
(* (MarkersStayOut), whatever crashes or fails: as long as managers stop   *)
(* an issue between calls only and send it past the resolver neither to    *)
(* work nor to its merge, every merge finds the conflicts resolved.  The   *)
(* run ConflictMarkers shows that the last is needed.                      *)
THEOREM ResolvedBeforeMerged ==
  ASSUME Patient, ResumePhases \cap Unmarked = {} PROVE Spec => []MarkersStayOut
<1>1. Managed
  BY DEF Managed, Patient, Unmarked
<1>2. Init => CareInv /\ MarksFit
  BY CareInit DEF Init, MarksFit, Conflicts, NoTree
<1>3. Inv /\ CareInv /\ MarksFit /\ Inv' /\ [Next]_vars => CareInv' /\ MarksFit'
  BY <1>1, CareNext, MarksNext
<1>4. MarksFit => MarkersStayOut
  BY DEF MarksFit, MarkersStayOut
<1>. QED BY <1>2, <1>3, <1>4, Invariance, PTL DEF Spec
=============================================================================

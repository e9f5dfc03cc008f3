----------------------------- MODULE WorkerProofs -----------------------------
(***************************************************************************)
(* Proofs about Worker, for any issues, priorities and number of slots:    *)
(* active_issue_ids is exactly what the futures run, and no issue has two  *)
(* of them.  What makes it inductive is what the loop knows of the         *)
(* candidates it has listed and not submitted yet.                         *)
(***************************************************************************)
EXTENDS Worker, FiniteSetTheorems, SequenceTheorems, TLAPS

SlotState == {"submitted", "read", "running", "stopped"} \cup Finished

LoopTypeOK ==
  /\ slots \in [Slot -> {Free} \cup [issue : Issue, at : SlotState]]
  /\ active \subseteq Issue
  /\ at \in Place
  /\ candidates \in Seq(Issue)

OneSlotEach == \A s, t \in Busy : slots[s].issue = slots[t].issue => s = t

ActiveRun == active = {slots[s].issue : s \in Busy}

(* While they are submitted, the candidates are issues that are not        *)
(* active, each once, and no more of them than there are free slots.       *)
CandidatesFit ==
  at = "submit" =>
    /\ Len(candidates) <= Cardinality(Idle)
    /\ \A m, n \in 1..Len(candidates) :
         candidates[m] \notin active /\ (candidates[m] = candidates[n] => m = n)

Inv == LoopTypeOK /\ OneSlotEach /\ ActiveRun /\ CandidatesFit

LEMMA FreeIsNoRun == Free \notin [issue : Issue, at : SlotState]
  BY DEF Free, SlotState, Finished

LEMMA IdleIsFinite ==
  /\ IsFiniteSet(Slot) /\ IsFiniteSet(Idle) /\ Cardinality(Idle) \in Nat
  /\ Cardinality(Idle) = 0 <=> Idle = {}
<1>1. IsFiniteSet(Slot)
  BY WorkerAssumption, FS_Interval DEF Slot
<1>2. IsFiniteSet(Idle)
  BY <1>1, FS_Subset DEF Idle
<1>. QED BY <1>1, <1>2, FS_CardinalityType, FS_EmptySet

(* What a query returns: issues of those it is asked for, each once, and   *)
(* no more than its limit.                                                 *)
LEMMA Listing ==
  ASSUME NEW some \in SUBSET Issue, NEW s \in InOrder(some), NEW n \in Nat
  PROVE  /\ FirstOf(n, s) \in Seq(some) /\ Len(FirstOf(n, s)) <= n
         /\ \A k, l \in 1..Len(FirstOf(n, s)) : FirstOf(n, s)[k] = FirstOf(n, s)[l] => k = l
<1>. DEFINE c == Cardinality(some)
            m == IF n < c THEN n ELSE c
<1>1. c \in Nat /\ m \in 0..c /\ m <= n
  BY WorkerAssumption, FS_Subset, FS_CardinalityType
<1>2. s \in [1..c -> some] /\ \A k, l \in 1..c : k < l => s[k] # s[l]
  BY DEF InOrder
<1>. HIDE DEF c
<1>3. Len(s) = c
  BY <1>1, <1>2
<1>4. FirstOf(n, s) = SubSeq(s, 1, m)
  BY <1>3 DEF FirstOf
<1>5. /\ SubSeq(s, 1, m) \in Seq(some) /\ Len(SubSeq(s, 1, m)) = m
      /\ \A k \in 1..m : SubSeq(s, 1, m)[k] = s[k]
  BY <1>1, <1>2, SubSeqProperties
<1>6. ASSUME NEW k \in 1..m, NEW l \in 1..m, s[k] = s[l] PROVE k = l
  <2>1. k \in 1..c /\ l \in 1..c /\ k \in Int /\ l \in Int
    BY <1>1
  <2>. QED BY <1>2, <1>6, <2>1
<1>. QED BY <1>1, <1>4, <1>5, <1>6

LEMMA InitInv == ASSUME Init PROVE Inv
<1>1. Busy = {}
  BY DEF Init, Busy
<1>2. LoopTypeOK
  BY EmptySeq DEF Init, LoopTypeOK, Place
<1>. QED BY <1>1, <1>2 DEF Init, Inv, OneSlotEach, ActiveRun, CandidatesFit

(* Steps that neither list, submit nor collect, and do not begin to.       *)
LEMMA SlotsSame ==
  ASSUME Inv, UNCHANGED <<slots, active>>, candidates' \in Seq(Issue), at' \in Place,
         at' = "submit" => at = "submit" /\ UNCHANGED candidates
  PROVE  Inv'
<1>1. LoopTypeOK' /\ OneSlotEach' /\ ActiveRun'
  BY DEF Inv, LoopTypeOK, OneSlotEach, ActiveRun, Busy
<1>2. CandidatesFit'
  BY DEF Inv, CandidatesFit, Idle, Busy
<1>. QED BY <1>1, <1>2 DEF Inv

(* A run goes on in its slot.                                              *)
LEMMA SlotsGoOn ==
  ASSUME Inv, UNCHANGED <<active, at, candidates>>,
         slots' \in [Slot -> {Free} \cup [issue : Issue, at : SlotState]],
         \A s \in Slot : /\ slots'[s] = Free <=> slots[s] = Free
                         /\ slots'[s].issue = slots[s].issue
  PROVE  Inv'
<1>1. Busy' = Busy /\ Idle' = Idle
  BY DEF Busy, Idle
<1>2. \A s \in Busy : slots'[s].issue = slots[s].issue
  BY DEF Busy
<1>3. {slots'[s].issue : s \in Busy} = {slots[s].issue : s \in Busy}
  BY <1>2
<1>. QED BY <1>1, <1>2, <1>3 DEF Inv, LoopTypeOK, OneSlotEach, ActiveRun, CandidatesFit

-----------------------------------------------------------------------------
LEMMA RefillInv == ASSUME Inv, Refill PROVE Inv'
<1>1. CASE stop \/ Idle = {}
  <2>1. candidates' = <<>> /\ at' = "check" /\ UNCHANGED <<slots, active>>
    BY <1>1 DEF Refill, Goto
  <2>. QED BY <2>1, EmptySeq, SlotsSame DEF Place
<1>2. CASE ~(stop \/ Idle = {})
  <2>. DEFINE some == {i \in Issue : phase[i] = "ready" /\ ~LockedHere(i) /\ i \notin active}
  <2>1. PICK s \in InOrder(some) : candidates' = FirstOf(Cardinality(Idle), s)
    BY <1>2 DEF Refill, ReadyCandidates
  <2>2. some \in SUBSET Issue /\ \A i \in some : i \notin active
    OBVIOUS
  <2>3. UNCHANGED <<slots, active>> /\ at' \in {"check", "submit"}
    BY DEF Refill, Goto
  <2>. HIDE DEF some
  <2>4. /\ candidates' \in Seq(some) /\ Len(candidates') <= Cardinality(Idle)
        /\ \A k, l \in 1..Len(candidates') : candidates'[k] = candidates'[l] => k = l
    BY <2>1, <2>2, IdleIsFinite, Listing
  <2>5. candidates' \in Seq(Issue) /\ \A k \in 1..Len(candidates') : candidates'[k] \in some
    BY <2>2, <2>4, SeqMonotonic, ElementOfSeq
  <2>6. LoopTypeOK' /\ OneSlotEach' /\ ActiveRun'
    BY <2>3, <2>5 DEF Inv, LoopTypeOK, OneSlotEach, ActiveRun, Busy, Place
  <2>7. CandidatesFit'
    BY <2>2, <2>3, <2>4, <2>5 DEF CandidatesFit, Idle, Busy
  <2>. QED BY <2>6, <2>7 DEF Inv
<1>. QED BY <1>1, <1>2

LEMMA SubmitInv == ASSUME Inv, Submit PROVE Inv'
<1>1. /\ at = "submit" /\ candidates # <<>> /\ candidates \in Seq(Issue) /\ at' = "submit"
      /\ active' = active \cup {Head(candidates)} /\ candidates' = Tail(candidates)
      /\ CandidatesFit
  BY DEF Submit, Inv, LoopTypeOK
<1>2. /\ Head(candidates) = candidates[1] /\ Len(candidates) \in Nat \ {0}
      /\ candidates' \in Seq(Issue) /\ Len(candidates') = Len(candidates) - 1
      /\ \A n \in 1..Len(candidates') : candidates'[n] = candidates[n+1]
      /\ candidates[1] \in Issue
  BY <1>1
<1>3. candidates[1] \notin active
  BY <1>1, <1>2 DEF CandidatesFit
<1>4. PICK s \in Idle :
        slots' = [slots EXCEPT ![s] = [issue |-> candidates[1], at |-> "submitted"]]
  <2>1. Idle # {}
    BY <1>1, <1>2, IdleIsFinite DEF CandidatesFit
  <2>. QED BY <1>2, <2>1 DEF Submit
<1>5. /\ s \in Slot /\ s \notin Busy
      /\ [issue |-> candidates[1], at |-> "submitted"] \in [issue : Issue, at : SlotState]
      /\ [issue |-> candidates[1], at |-> "submitted"] # Free
  BY <1>2, FreeIsNoRun DEF Idle, SlotState
<1>6. LoopTypeOK'
  BY <1>1, <1>2, <1>4, <1>5 DEF Inv, LoopTypeOK, Place
<1>7. /\ \A t \in Slot : slots'[t] = IF t = s THEN [issue |-> candidates[1], at |-> "submitted"]
                                              ELSE slots[t]
      /\ Busy' = Busy \cup {s} /\ Idle' = Idle \ {s}
  <2>1. \A t \in Slot : slots'[t] = IF t = s THEN [issue |-> candidates[1], at |-> "submitted"]
                                              ELSE slots[t]
    BY <1>4 DEF Inv, LoopTypeOK
  <2>. QED BY <1>5, <2>1 DEF Busy, Idle
<1>8. /\ slots'[s].issue = candidates[1]
      /\ \A t \in Busy : slots'[t].issue = slots[t].issue /\ slots[t].issue \in active
  BY <1>5, <1>7 DEF Busy, Inv, ActiveRun
<1>9. OneSlotEach'
  BY <1>3, <1>7, <1>8 DEF Inv, OneSlotEach
<1>10. ActiveRun'
  <2>1. {slots'[t].issue : t \in Busy \cup {s}} = {slots[t].issue : t \in Busy} \cup {candidates[1]}
    BY <1>8
  <2>. QED BY <1>1, <1>2, <1>7, <2>1 DEF Inv, ActiveRun
<1>11. CandidatesFit'
  <2>1. Cardinality(Idle') = Cardinality(Idle) - 1
    BY <1>4, <1>7, IdleIsFinite, FS_RemoveElement
  <2>2. Len(candidates') <= Cardinality(Idle')
    BY <1>1, <1>2, <2>1, IdleIsFinite DEF CandidatesFit
  <2>3. ASSUME NEW m \in 1..Len(candidates'), NEW n \in 1..Len(candidates')
        PROVE  candidates'[m] \notin active' /\ (candidates'[m] = candidates'[n] => m = n)
    <3>1. /\ m + 1 \in 1..Len(candidates) /\ n + 1 \in 1..Len(candidates)
          /\ 1 \in 1..Len(candidates) /\ m + 1 # 1
      BY <1>2
    <3>2. /\ candidates[m+1] \notin active /\ candidates[m+1] # candidates[1]
          /\ candidates[m+1] = candidates[n+1] => m + 1 = n + 1
      BY <1>1, <3>1 DEF CandidatesFit
    <3>. QED BY <1>1, <1>2, <3>1, <3>2
  <2>. QED BY <2>2, <2>3 DEF CandidatesFit
<1>. QED BY <1>6, <1>9, <1>10, <1>11 DEF Inv

LEMMA CollectInv == ASSUME Inv, Collect PROVE Inv'
<1>1. /\ slots' = [s \in Slot |-> IF s \in Done THEN Free ELSE slots[s]]
      /\ active' = active \ {slots[s].issue : s \in Done}
      /\ at' \in {"raising", "top"} /\ UNCHANGED candidates
  BY DEF Collect, Goto
<1>2. Done \subseteq Busy /\ Busy' = Busy \ Done
  BY <1>1 DEF Done, Busy, Free, Finished
<1>3. LoopTypeOK'
  BY <1>1 DEF Inv, LoopTypeOK, Place
<1>4. \A s \in Busy' : slots'[s] = slots[s]
  BY <1>1, <1>2 DEF Busy
<1>5. OneSlotEach'
  BY <1>2, <1>4 DEF Inv, OneSlotEach
<1>6. ActiveRun'
  <2>1. {slots'[s].issue : s \in Busy'} = {slots[s].issue : s \in Busy \ Done}
    BY <1>2, <1>4
  <2>2. {slots[s].issue : s \in Busy \ Done}
          = {slots[s].issue : s \in Busy} \ {slots[s].issue : s \in Done}
    BY <1>2 DEF Inv, OneSlotEach
  <2>. QED BY <1>1, <2>1, <2>2 DEF Inv, ActiveRun
<1>. QED BY <1>1, <1>3, <1>5, <1>6 DEF Inv, CandidatesFit

(* The other steps of the loop.                                            *)
LEMMA LoopStepInv == ASSUME Inv, LoopStep PROVE Inv'
<1>. USE DEF Goto, Place
<1>0. candidates \in Seq(Issue) /\ at \in Place /\ <<>> \in Seq(Issue)
  BY EmptySeq DEF Inv, LoopTypeOK
<1>1. CASE StartBatch
  BY <1>0, <1>1, SlotsSame DEF StartBatch
<1>2. CASE Sweep
  BY <1>0, <1>2, SlotsSame DEF Sweep
<1>3. CASE EndSubmit
  BY <1>0, <1>3, SlotsSame DEF EndSubmit
<1>4. CASE CheckFutures
  <2>1. at' \in {"wait", "monitor", "pause"} /\ UNCHANGED <<slots, active, candidates>>
    BY <1>4, Zenon DEF CheckFutures
  <2>. QED BY <1>0, <2>1, SlotsSame
<1>5. CASE ListPullRequests
  <2>. DEFINE some == {i \in Issue : phase[i] = "awaiting_pr_closure"}
  <2>1. PICK s \in InOrder(some) : candidates' = FirstOf(1, s)
    BY <1>5 DEF ListPullRequests, PullRequestCandidates
  <2>2. some \in SUBSET Issue
    OBVIOUS
  <2>. HIDE DEF some
  <2>3. candidates' \in Seq(Issue)
    BY <2>1, <2>2, Listing, SeqMonotonic
  <2>. QED BY <1>5, <2>3, SlotsSame DEF ListPullRequests
<1>6. CASE ClaimPullRequest
  BY <1>0, <1>6, SlotsSame DEF ClaimPullRequest
<1>7. CASE EndMonitor
  BY <1>0, <1>7, SlotsSame DEF EndMonitor
<1>8. CASE PollTimesOut
  BY <1>0, <1>8, SlotsSame DEF PollTimesOut
<1>9. CASE Raise
  BY <1>0, <1>9, SlotsSame DEF Raise
<1>. QED
  BY <1>1, <1>2, <1>3, <1>4, <1>5, <1>6, <1>7, <1>8, <1>9, RefillInv, SubmitInv, CollectInv
  DEF LoopStep

LEMMA RunStepInv == ASSUME Inv, NEW s \in Slot, RunStep(s) PROVE Inv'
<1>1. PICK where \in SlotState : slots' = [slots EXCEPT ![s].at = where]
  BY DEF RunStep, ReadIssue, LockIssue, EndRun, SlotState, Finished
<1>2. UNCHANGED <<active, at, candidates>>
  BY DEF RunStep, ReadIssue, LockIssue, EndRun
<1>3. slots \in [Slot -> {Free} \cup [issue : Issue, at : SlotState]] /\ slots[s] # Free
  BY DEF RunStep, ReadIssue, LockIssue, EndRun, Inv, LoopTypeOK, Free
<1>4. slots[s] \in [issue : Issue, at : SlotState]
  BY <1>3
<1>5. /\ slots'[s] \in [issue : Issue, at : SlotState] /\ slots'[s].issue = slots[s].issue
      /\ slots'[s] # Free
  BY <1>1, <1>3, <1>4, FreeIsNoRun
<1>. QED BY <1>1, <1>2, <1>3, <1>5, SlotsGoOn

LEMMA OthersInv == ASSUME Inv, NEW i \in Issue, Others(i) PROVE Inv'
<1>1. CASE TakeElsewhere(i) \/ ReturnElsewhere(i)
  BY <1>1, SlotsSame DEF TakeElsewhere, ReturnElsewhere, Inv, LoopTypeOK
<1>2. CASE ByHand(i)
  <2>1. /\ UNCHANGED <<active, at, candidates>>
        /\ slots' = [s \in Slot |-> IF slots[s] = [issue |-> i, at |-> "running"]
                                   THEN [slots[s] EXCEPT !.at = "stopped"] ELSE slots[s]]
    BY <1>2 DEF ByHand
  <2>2. slots \in [Slot -> {Free} \cup [issue : Issue, at : SlotState]]
    BY DEF Inv, LoopTypeOK
  <2>3. ASSUME NEW s \in Slot
        PROVE  /\ slots'[s] \in {Free} \cup [issue : Issue, at : SlotState]
               /\ slots'[s] = Free <=> slots[s] = Free
               /\ slots'[s].issue = slots[s].issue
    <3>1. CASE slots[s] = [issue |-> i, at |-> "running"]
      <4>1. slots'[s] = [issue |-> i, at |-> "stopped"]
        BY <2>1, <3>1
      <4>. QED BY <3>1, <4>1, FreeIsNoRun DEF SlotState, Free
    <3>2. CASE slots[s] # [issue |-> i, at |-> "running"]
      BY <2>1, <2>2, <3>2
    <3>. QED BY <3>1, <3>2
  <2>4. slots' \in [Slot -> {Free} \cup [issue : Issue, at : SlotState]]
    BY <2>1, <2>3
  <2>. QED BY <2>1, <2>3, <2>4, SlotsGoOn
<1>. QED BY <1>1, <1>2 DEF Others

LEMMA NextInv == ASSUME Inv, [Next]_vars PROVE Inv'
<1>1. CASE LoopStep
  BY <1>1, LoopStepInv
<1>2. CASE \E s \in Slot : RunStep(s)
  BY <1>2, RunStepInv
<1>3. CASE \E i \in Shared : Others(i)
  BY <1>3, OthersInv, WorkerAssumption
<1>4. CASE RequestShutdown \/ EndService \/ UNCHANGED vars
  BY <1>4, SlotsSame DEF RequestShutdown, EndService, vars, Inv, LoopTypeOK
<1>. QED BY <1>1, <1>2, <1>3, <1>4 DEF Next

(* No issue has two futures at once, and active_issue_ids, by which the    *)
(* queries leave out what is being run, is what the futures run.           *)
THEOREM NoIssueRunsTwice == Spec => []SlotsAreActive
<1>1. Inv => SlotsAreActive
  BY DEF Inv, OneSlotEach, ActiveRun, SlotsAreActive
<1>. QED BY <1>1, InitInv, NextInv, PTL DEF Spec
-----------------------------------------------------------------------------
(* The queue: a look at, or a run of, an issue gives it the last place and *)
(* leaves every issue one.                                                 *)
LEMMA OrdersAreQueues ==
  ASSUME NEW s \in Orders
  PROVE  /\ s \in Seq(Issue) /\ Len(s) = Cardinality(Issue) /\ Cardinality(Issue) \in Nat
         /\ \A i \in Issue : \E n \in 1..Len(s) : s[n] = i
         /\ \A m, n \in 1..Len(s) : s[m] = s[n] => m = n
<1>. DEFINE c == Cardinality(Issue)
<1>1. c \in Nat /\ s \in [1..c -> Issue] /\ \A i \in Issue : \E n \in DOMAIN s : s[n] = i
  BY WorkerAssumption, FS_CardinalityType DEF Orders
<1>2. s \in Seq(Issue) /\ Len(s) = c
  BY <1>1
<1>3. IsFiniteSet(1..c) /\ Cardinality(1..c) = c
  BY <1>1, FS_Interval
<1>4. s \in Surjection(1..c, Issue)
  BY <1>1 DEF Surjection
<1>5. s \in Injection(1..c, Issue)
  <2>1. Cardinality(1..c) = Cardinality(Issue)
    BY <1>3
  <2>. HIDE DEF c
  <2>. QED BY <1>3, <1>4, <2>1, FS_SurjSameCardinalityImpliesInj
<1>. QED BY <1>1, <1>2, <1>5 DEF Injection, IsInjective

LEMMA AQueueExists == \E s \in Orders : TRUE
<1>. DEFINE c == Cardinality(Issue)
<1>1. c \in Nat /\ ExistsBijection(1..c, Issue)
  BY WorkerAssumption, FS_CardinalityType
<1>2. PICK s \in [1..c -> Issue] : \A i \in Issue : \E n \in 1..c : s[n] = i
  BY <1>1 DEF ExistsBijection, Bijection, Injection, Surjection
<1>. QED BY <1>2 DEF Orders

LEMMA Rescheduling ==
  ASSUME order \in Orders, NEW i \in Issue, MarkScheduled(i)
  PROVE  order' \in Orders /\ order'[Len(order')] = i
<1>. DEFINE c == Cardinality(Issue)
            k == PlaceOf(i)
            before == SubSeq(order, 1, k-1)
            after  == SubSeq(order, k+1, c)
<1>1. /\ c \in Nat /\ order \in Seq(Issue) /\ Len(order) = c
      /\ \A j \in Issue : \E n \in 1..c : order[n] = j
  BY OrdersAreQueues
<1>2. k \in 1..c /\ order[k] = i
  BY <1>1 DEF PlaceOf
<1>3. order' = Append(before \o after, i)
  BY <1>1 DEF MarkScheduled
<1>. HIDE DEF k, c
<1>4. /\ before \in Seq(Issue) /\ Len(before) = k - 1
      /\ \A n \in 1..(k-1) : before[n] = order[n]
  BY <1>1, <1>2, SubSeqProperties
<1>5. /\ after \in Seq(Issue) /\ Len(after) = c - k
      /\ \A n \in 1..(c-k) : after[n] = order[n+k]
  BY <1>1, <1>2, SubSeqProperties
<1>. HIDE DEF before, after
<1>6. /\ before \o after \in Seq(Issue) /\ Len(before \o after) = c - 1
      /\ \A n \in 1..(c-1) : (before \o after)[n] = IF n < k THEN order[n] ELSE order[n+1]
  <2>0. Len(before) + Len(after) = c - 1
    BY <1>1, <1>2, <1>4, <1>5
  <2>1. /\ before \o after \in Seq(Issue) /\ Len(before \o after) = Len(before) + Len(after)
        /\ \A n \in 1..(Len(before) + Len(after)) : (before \o after)[n] =
             IF n <= Len(before) THEN before[n] ELSE after[n - Len(before)]
    BY <1>4, <1>5, ConcatProperties
  <2>2. ASSUME NEW n \in 1..(c-1)
        PROVE  (before \o after)[n] = IF n < k THEN order[n] ELSE order[n+1]
    <3>1. CASE n < k
      BY <1>1, <1>2, <1>4, <2>0, <2>1, <3>1
    <3>2. CASE ~(n < k)
      <4>1. n - (k - 1) \in 1..(c-k) /\ n - (k - 1) + k = n + 1
        BY <1>1, <1>2, <3>2
      <4>2. ~(n <= Len(before)) /\ n - Len(before) = n - (k - 1)
        BY <1>1, <1>2, <1>4, <3>2
      <4>3. (before \o after)[n] = after[n - (k - 1)]
        BY <2>0, <2>1, <4>2
      <4>4. after[n - (k - 1)] = order[n+1]
        BY <1>5, <4>1
      <4>. QED BY <3>2, <4>3, <4>4
    <3>. QED BY <3>1, <3>2
  <2>. QED BY <2>0, <2>1, <2>2
<1>7. /\ order' \in Seq(Issue) /\ Len(order') = c /\ order'[c] = i
      /\ \A n \in 1..(c-1) : order'[n] = IF n < k THEN order[n] ELSE order[n+1]
  <2>. DEFINE rest == before \o after
  <2>1. rest \in Seq(Issue) /\ Len(rest) = c - 1 /\ (c - 1) + 1 = c
    BY <1>1, <1>2, <1>6
  <2>. HIDE DEF rest
  <2>2. /\ Append(rest, i) \in Seq(Issue) /\ Len(Append(rest, i)) = c
        /\ \A n \in 1..(c-1) : Append(rest, i)[n] = rest[n]
        /\ Append(rest, i)[c] = i
    BY <2>1, AppendProperties
  <2>. QED BY <1>3, <1>6, <2>2 DEF rest
<1>8. ASSUME NEW j \in Issue PROVE \E n \in 1..c : order'[n] = j
  <2>1. PICK n \in 1..c : order[n] = j
    BY <1>1
  <2>2. CASE n = k
    BY <1>1, <1>2, <1>7, <2>1, <2>2
  <2>3. CASE n < k
    <3>1. n \in 1..(c-1)
      BY <1>1, <1>2, <2>3
    <3>. QED BY <1>1, <1>7, <2>1, <2>3, <3>1
  <2>4. CASE n > k
    <3>1. n - 1 \in 1..(c-1) /\ n - 1 \in 1..c /\ ~(n - 1 < k) /\ (n - 1) + 1 = n
      BY <1>1, <1>2, <2>4
    <3>. QED BY <1>7, <2>1, <3>1
  <2>. QED BY <1>1, <1>2, <2>2, <2>3, <2>4
<1>9. order' \in [1..c -> Issue]
  BY <1>1, <1>7
<1>. QED BY <1>7, <1>8, <1>9 DEF Orders, c

(* What the rest of the type invariant rests on: a pull request that is    *)
(* claimed, or looked at, was listed.                                      *)
Listed == at \in {"claim", "monitoring"} => candidates # <<>>

IssuesOK ==
  /\ phase \in [Issue -> {"ready", "running", "waiting", "awaiting_pr_closure"}]
  /\ order \in Orders
  /\ monitored \in BOOLEAN /\ stop \in BOOLEAN
  /\ service \in {"up", "down"}

Typed == Inv /\ IssuesOK /\ Listed

LEMMA LoopIssuesOK == ASSUME Typed, LoopStep PROVE IssuesOK' /\ Listed'
<1>. USE DEF Typed, IssuesOK, Listed, Goto, issueVars
<1>1. CASE StartBatch
  BY <1>1 DEF StartBatch
<1>2. CASE Sweep
  <2>1. /\ UNCHANGED <<order, monitored, stop, service, candidates>> /\ at' = "refill"
    BY <1>2 DEF Sweep
  <2>2. phase' \in [Issue -> {"ready", "running", "waiting", "awaiting_pr_closure"}]
    <3>1. CASE UNCHANGED phase
      BY <3>1
    <3>2. ASSUME NEW lost \in SUBSET {i \in Issue : phase[i] = "running"},
                 NEW to \in [lost -> {"ready", "waiting"}],
                 phase' = [i \in Issue |-> IF i \in lost THEN to[i] ELSE phase[i]]
          PROVE  phase' \in [Issue -> {"ready", "running", "waiting", "awaiting_pr_closure"}]
      BY <3>2
    <3>. QED BY <1>2, <3>1, <3>2 DEF Sweep
  <2>. QED BY <2>1, <2>2
<1>3. CASE Refill
  BY <1>3 DEF Refill
<1>4. CASE Submit
  BY <1>4 DEF Submit
<1>5. CASE EndSubmit
  BY <1>5 DEF EndSubmit
<1>6. CASE CheckFutures
  <2>1. at' \in {"wait", "monitor", "pause"}
    BY <1>6, Zenon DEF CheckFutures, Goto
  <2>2. UNCHANGED <<phase, order, monitored, stop, service>>
    BY <1>6 DEF CheckFutures, issueVars
  <2>. QED BY <2>1, <2>2
<1>7. CASE ListPullRequests
  BY <1>7 DEF ListPullRequests
<1>8. CASE ClaimPullRequest
  <2>. DEFINE i == Head(candidates)
  <2>1. i \in Issue
    BY <1>8 DEF ClaimPullRequest, Inv, LoopTypeOK
  <2>2. CASE phase[i] = "awaiting_pr_closure"
    <3>1. /\ MarkScheduled(i) /\ at' = "monitoring" /\ UNCHANGED candidates
          /\ at = "claim" /\ UNCHANGED <<phase, monitored, stop, service>>
      BY <1>8, <2>2 DEF ClaimPullRequest
    <3>. QED BY <2>1, <3>1, Rescheduling
  <2>3. CASE phase[i] # "awaiting_pr_closure"
    BY <1>8, <2>3 DEF ClaimPullRequest
  <2>. QED BY <2>2, <2>3
<1>9. CASE EndMonitor
  BY <1>9 DEF EndMonitor
<1>10. CASE Collect \/ PollTimesOut
  BY <1>10 DEF Collect, PollTimesOut
<1>11. CASE Raise
  BY <1>11 DEF Raise
<1>. QED
  BY <1>1, <1>2, <1>3, <1>4, <1>5, <1>6, <1>7, <1>8, <1>9, <1>10, <1>11 DEF LoopStep

LEMMA RunIssuesOK ==
  ASSUME Typed, NEW s \in Slot, RunStep(s)
  PROVE  IssuesOK' /\ Listed'
<1>. USE DEF Typed, IssuesOK, Listed
<1>0. UNCHANGED <<at, candidates, monitored, stop, service>>
  BY DEF RunStep, ReadIssue, LockIssue, EndRun
<1>1. CASE ReadIssue(s)
  BY <1>0, <1>1 DEF ReadIssue, issueVars
<1>2. CASE LockIssue(s)
  <2>. DEFINE i == slots[s].issue
  <2>1. slots[s] # Free /\ slots[s] \in {Free} \cup [issue : Issue, at : SlotState]
    BY <1>2 DEF LockIssue, Free, Inv, LoopTypeOK
  <2>2. i \in Issue
    BY <2>1
  <2>3. CASE phase[i] = "ready" /\ ~LockedHere(i)
    <3>1. MarkScheduled(i) /\ phase' = [phase EXCEPT ![i] = "running"]
      BY <1>2, <2>3 DEF LockIssue
    <3>. QED BY <1>0, <2>2, <3>1, Rescheduling
  <2>4. CASE ~(phase[i] = "ready" /\ ~LockedHere(i))
    BY <1>0, <1>2, <2>4 DEF LockIssue
  <2>. QED BY <2>3, <2>4
<1>3. CASE EndRun(s)
  BY <1>0, <1>3 DEF EndRun
<1>. QED BY <1>1, <1>2, <1>3 DEF RunStep

LEMMA OthersIssuesOK ==
  ASSUME Typed, NEW i \in Issue, Others(i)
  PROVE  IssuesOK' /\ Listed'
<1>. USE DEF Typed, IssuesOK, Listed
<1>0. UNCHANGED <<at, candidates, monitored, stop, service>>
  BY DEF Others, TakeElsewhere, ReturnElsewhere, ByHand
<1>1. CASE TakeElsewhere(i)
  BY <1>0, <1>1, Rescheduling DEF TakeElsewhere
<1>2. CASE ReturnElsewhere(i)
  BY <1>0, <1>2 DEF ReturnElsewhere
<1>3. CASE ByHand(i)
  BY <1>0, <1>3 DEF ByHand
<1>. QED BY <1>1, <1>2, <1>3 DEF Others

(* Every value has its type; the queue, which every claim reorders, has    *)
(* one place for each issue at any time.                                   *)
THEOREM TypeCorrect == Spec => []TypeOK
<1>1. Init => Typed
  <2>1. ASSUME Init PROVE order \in Orders
    BY <2>1, AQueueExists DEF Init
  <2>. QED BY <2>1, InitInv DEF Init, Typed, IssuesOK, Listed
<1>2. Typed /\ [Next]_vars => Typed'
  <2>. SUFFICES ASSUME Typed, [Next]_vars PROVE IssuesOK' /\ Listed'
    BY NextInv DEF Typed
  <2>1. CASE LoopStep
    BY <2>1, LoopIssuesOK
  <2>2. CASE \E s \in Slot : RunStep(s)
    BY <2>2, RunIssuesOK
  <2>3. CASE \E i \in Shared : Others(i)
    BY <2>3, OthersIssuesOK, WorkerAssumption
  <2>4. CASE RequestShutdown \/ EndService \/ UNCHANGED vars
    BY <2>4 DEF RequestShutdown, EndService, vars, issueVars, Typed, IssuesOK, Listed
  <2>. QED BY <2>1, <2>2, <2>3, <2>4 DEF Next
<1>3. Typed => TypeOK
  BY DEF Typed, Inv, IssuesOK, LoopTypeOK, TypeOK, SlotState
<1>. QED BY <1>1, <1>2, <1>3, PTL DEF Spec
===============================================================================

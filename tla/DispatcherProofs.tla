-------------------------- MODULE DispatcherProofs --------------------------
(***************************************************************************)
(* Proofs about Dispatcher for any number of downloads, workers, queues    *)
(* and policies.  One inductive invariant carries all of them: the slots   *)
(* of a queue are counted right only because a worker holds a job exactly  *)
(* between its claim and its release, and capacity follows from the count. *)
(***************************************************************************)
EXTENDS Dispatcher, FiniteSetTheorems, SequenceTheorems, TLAPS

\* A worker holds a job from the claim to the release.
HoldsJob ==
  \A w \in Workers : (pc[w] \in {"claimed", "register", "run"}) <=> (job[w] # NoJob)

\* CapacityRespected for every number, in use as a limit or not.
CapacityBound ==
  \A q \in Queues : \A n \in Nat : Cardinality(AdmittedUnder(q, n)) <= n

IInv ==
  /\ TypeOK /\ HoldsJob /\ SlotsAccounted /\ CapacityBound
  /\ QueuedHasJob /\ OnlyLiveControls /\ NoLostWakeup

(***************************************************************************)
(* Removing an element of a sequence.                                      *)
(***************************************************************************)
\* RemoveAt, the library's operator for the deletion of nextJob, drops the
\* i-th element and moves the later ones up.
LEMMA RemoveAtProperties ==
  ASSUME NEW S, NEW s \in Seq(S), NEW i \in 1 .. Len(s)
  PROVE  /\ RemoveAt(s, i) \in Seq(S)
         /\ Len(RemoveAt(s, i)) = Len(s) - 1
         /\ \A k \in 1 .. Len(s) - 1 :
              RemoveAt(s, i)[k] = IF k < i THEN s[k] ELSE s[k + 1]
<1> DEFINE front == SubSeq(s, 1, i - 1)
           back == SubSeq(s, i + 1, Len(s))
<1>1. Len(s) \in Nat /\ \A k \in 1 .. Len(s) : s[k] \in S
  BY LenProperties, ElementOfSeq
<1>2. /\ front \in Seq(S)
      /\ Len(front) = i - 1
      /\ \A k \in 1 .. i - 1 : front[k] = s[k]
  <2>1. \A k \in 1 .. i - 1 : s[k] \in S
    BY <1>1
  <2>2. /\ front \in Seq(S)
        /\ Len(front) = IF 1 <= i - 1 THEN i - 1 - 1 + 1 ELSE 0
        /\ \A k \in 1 .. i - 1 - 1 + 1 : front[k] = s[1 + k - 1]
    BY <1>1, <2>1, SubSeqProperties
  <2> QED
    BY <1>1, <2>2
<1>3. /\ back \in Seq(S)
      /\ Len(back) = Len(s) - i
      /\ \A k \in 1 .. Len(s) - i : back[k] = s[i + k]
  <2>1. \A k \in i + 1 .. Len(s) : s[k] \in S
    BY <1>1
  <2>2. /\ back \in Seq(S)
        /\ Len(back) = IF i + 1 <= Len(s) THEN Len(s) - (i + 1) + 1 ELSE 0
        /\ \A k \in 1 .. Len(s) - (i + 1) + 1 : back[k] = s[i + 1 + k - 1]
    BY <1>1, <2>1, SubSeqProperties
  <2> QED
    BY <1>1, <2>2
<1>4. /\ front \o back \in Seq(S)
      /\ Len(front \o back) = Len(front) + Len(back)
      /\ \A k \in 1 .. Len(front) + Len(back) :
           (front \o back)[k] = IF k <= Len(front) THEN front[k] ELSE back[k - Len(front)]
  BY <1>2, <1>3, ConcatProperties
<1>5. RemoveAt(s, i) = front \o back
  BY DEF RemoveAt
<1> HIDE DEF front, back
<1>6. Len(front) + Len(back) = Len(s) - 1
  BY <1>1, <1>2, <1>3
<1>7. ASSUME NEW k \in 1 .. Len(s) - 1
      PROVE  RemoveAt(s, i)[k] = IF k < i THEN s[k] ELSE s[k + 1]
  <2>1. RemoveAt(s, i)[k] = IF k <= i - 1 THEN front[k] ELSE back[k - (i - 1)]
    BY <1>2, <1>4, <1>5, <1>6
  <2>2. CASE k < i
    <3>1. k \in 1 .. i - 1
      BY <1>1, <2>2
    <3> QED
      BY <1>2, <2>1, <2>2, <3>1
  <2>3. CASE ~(k < i)
    <3>1. k - (i - 1) \in 1 .. Len(s) - i
      BY <1>1, <2>3
    <3>2. back[k - (i - 1)] = s[i + (k - (i - 1))]
      BY <1>3, <3>1
    <3>3. i + (k - (i - 1)) = k + 1 /\ ~(k <= i - 1)
      BY <1>1, <2>3
    <3> QED
      BY <2>1, <2>3, <3>2, <3>3
  <2> QED
    BY <2>2, <2>3
<1> QED
  BY <1>4, <1>5, <1>6, <1>7

\* A set grows by one element at most.
LEMMA CardinalityGrows ==
  ASSUME NEW S, NEW x, IsFiniteSet(S)
  PROVE  Cardinality(S \cup {x}) <= Cardinality(S) + 1
<1>1. Cardinality(S) \in Nat
  BY FS_CardinalityType
<1>2. Cardinality(S \cup {x}) = IF x \in S THEN Cardinality(S) ELSE Cardinality(S) + 1
  BY FS_AddElement
<1>3. CASE x \in S
  BY <1>1, <1>2, <1>3
<1>4. CASE x \notin S
  BY <1>1, <1>2, <1>4
<1> QED
  BY <1>3, <1>4

(***************************************************************************)
(* Types.                                                                  *)
(***************************************************************************)
\* A policy in Policies has the fields and ranges of a queue row.
LEMMA NewJobType ==
  ASSUME TypeOK, NEW d \in Downloads, NEW a \in Actions
  PROVE  NewJob(d, a) \in Jobs
<1> DEFINE q == assigned[d]
<1>1. q \in Queues
  BY DEF TypeOK
<1>2. q # DefaultQueue =>
        policy[q] \in [exists : BOOLEAN, enabled : BOOLEAN, sequential : BOOLEAN,
                       maxParallel : Nat \ {0}, priority : Int]
  BY <1>1, DispatcherAssumption DEF TypeOK, NamedQueues
<1>3. Limit(q) \in Nat \ {0}
  BY <1>2, DispatcherAssumption DEF Limit
<1>4. JobPriority(d) \in Int
  BY <1>2, DispatcherAssumption DEF JobPriority
<1> QED
  BY <1>1, <1>3, <1>4 DEF NewJob, Jobs

\* No step of a caller or of a worker leaves the types.
LEMMA TypeStep ==
  TypeOK /\ HoldsJob /\ [Next]_vars => TypeOK'
<1> SUFFICES ASSUME TypeOK, HoldsJob, [Next]_vars PROVE TypeOK'
  OBVIOUS
<1>1. ASSUME NEW d \in Downloads, NEW a \in Actions, Enqueue(d, a) PROVE TypeOK'
  <2>1. NewJob(d, a) \in Jobs
    BY NewJobType
  <2>2. Len(pending) \in Nat /\ Len(pending) < MaxPending
    BY <1>1, DispatcherAssumption, LenProperties DEF TypeOK, Enqueue, Accepts, Refuses
  <2>3. pending' \in Seq(Jobs) /\ Len(pending') <= MaxPending
    BY <1>1, <2>1, <2>2, AppendProperties, DispatcherAssumption DEF TypeOK, Enqueue
  <2> QED
    BY <1>1, <2>3 DEF TypeOK, Enqueue, rowVars
<1>2. ASSUME NEW d \in Downloads, Withdraw(d) PROVE TypeOK'
  BY <1>2 DEF TypeOK, Withdraw, rowVars
<1>3. ASSUME NEW d \in Downloads, NEW q \in Queues, Assign(d, q) PROVE TypeOK'
  BY <1>3 DEF TypeOK, Assign, poolVars
<1>4. ASSUME NEW q \in NamedQueues, NEW p \in Policies, SetPolicy(q, p) PROVE TypeOK'
  BY <1>4 DEF TypeOK, SetPolicy, poolVars
<1>5. CASE Close
  BY <1>5 DEF TypeOK, Close, poolVars, rowVars
<1>6. ASSUME NEW w \in Workers, Claim(w) PROVE TypeOK'
  <2>1. PICK i \in Candidates :
          /\ job' = [job EXCEPT ![w] = pending[i]]
          /\ pending' = RemoveAt(pending, i)
          /\ queued' = queued \ {pending[i].id}
          /\ queueRunning' = [queueRunning EXCEPT ![pending[i].queue] = @ + 1]
    BY <1>6 DEF Claim
  <2>2. i \in 1 .. Len(pending) /\ pending[i] \in Jobs /\ Len(pending) \in Nat
    BY LenProperties, ElementOfSeq DEF TypeOK, Candidates
  <2>3. pending' \in Seq(Jobs) /\ Len(pending') <= MaxPending
    BY <2>1, <2>2, RemoveAtProperties, DispatcherAssumption DEF TypeOK
  <2>4. queueRunning' \in [Queues -> Int]
    <3>1. pending[i].queue \in Queues
      BY <2>2 DEF Jobs
    <3>2. queueRunning \in [Queues -> Int] /\ queueRunning[pending[i].queue] + 1 \in Int
      BY <3>1 DEF TypeOK
    <3> QED
      BY <2>1, <3>1, <3>2
  <2>5. job' \in [Workers -> Jobs \cup {NoJob}]
    BY <2>1, <2>2 DEF TypeOK
  <2>6. pc' \in [Workers -> Steps]
    BY <1>6 DEF TypeOK, Claim, Goto, Steps
  <2> QED
    BY <1>6, <2>1, <2>3, <2>4, <2>5, <2>6 DEF TypeOK, Claim, rowVars
<1>7. ASSUME NEW w \in Workers, ScanNothing(w) PROVE TypeOK'
  BY <1>7 DEF TypeOK, ScanNothing, Goto, Steps, poolVars, rowVars
<1>8. ASSUME NEW w \in Workers, Receive(w) PROVE TypeOK'
  BY <1>8 DEF TypeOK, Receive, Goto, Steps, poolVars, rowVars
<1>9. ASSUME NEW w \in Workers, Exit(w) PROVE TypeOK'
  BY <1>9 DEF TypeOK, Exit, Goto, Steps, poolVars, rowVars
<1>10. ASSUME NEW w \in Workers, SignalClaim(w) \/ SignalFree(w) PROVE TypeOK'
  BY <1>10 DEF TypeOK, SignalClaim, SignalFree, Signal, Goto, Steps, poolVars, rowVars
<1>11. ASSUME NEW w \in Workers, Register(w) PROVE TypeOK'
  BY <1>11 DEF TypeOK, Register, Goto, Steps, rowVars
<1>12. ASSUME NEW w \in Workers, Forget(w) PROVE running' \in [Downloads -> Workers \cup {NoWorker}]
  BY <1>12 DEF TypeOK, Forget
<1>13. ASSUME NEW w \in Workers, Unregister(w) PROVE TypeOK'
  BY <1>12, <1>13 DEF TypeOK, Unregister, rowVars
<1>14. ASSUME NEW w \in Workers, Release(w) PROVE TypeOK'
  <2>1. job[w].queue \in Queues
    BY <1>14 DEF TypeOK, HoldsJob, Release, At, Jobs
  <2>2. queueRunning' \in [Queues -> Int]
    BY <1>14, <2>1 DEF TypeOK, Release
  <2> QED
    BY <1>12, <1>14, <2>2 DEF TypeOK, Release, Goto, Steps, rowVars
<1>15. CASE UNCHANGED vars
  BY <1>15 DEF TypeOK, vars, poolVars, rowVars
<1> QED
  BY <1>1, <1>2, <1>3, <1>4, <1>5, <1>6, <1>7, <1>8, <1>9, <1>10, <1>11, <1>13, <1>14, <1>15
     DEF Next, CallerStep, WorkerStep, LoopStep

(***************************************************************************)
(* Holders and their number.                                               *)
(***************************************************************************)
LEMMA HoldersFinite ==
  \A q \in Queues :
    /\ IsFiniteSet(Holders(q)) /\ Cardinality(Holders(q)) \in Nat
    /\ \A n \in Nat : /\ IsFiniteSet(AdmittedUnder(q, n))
                     /\ Cardinality(AdmittedUnder(q, n)) \in Nat
                     /\ Cardinality(AdmittedUnder(q, n)) <= Cardinality(Holders(q))
<1>1. ASSUME NEW q \in Queues
      PROVE  IsFiniteSet(Holders(q)) /\ Cardinality(Holders(q)) \in Nat
  <2>1. Holders(q) \in SUBSET Workers
    BY DEF Holders
  <2> QED
    BY <2>1, FS_Subset, FS_CardinalityType, DispatcherAssumption
<1>2. ASSUME NEW q \in Queues, NEW n \in Nat
      PROVE  /\ IsFiniteSet(AdmittedUnder(q, n))
             /\ Cardinality(AdmittedUnder(q, n)) \in Nat
             /\ Cardinality(AdmittedUnder(q, n)) <= Cardinality(Holders(q))
  <2>1. AdmittedUnder(q, n) \in SUBSET Holders(q)
    BY DEF AdmittedUnder
  <2> QED
    BY <1>1, <2>1, FS_Subset, FS_CardinalityType
<1> QED
  BY <1>1, <1>2

\* A step that neither gives nor takes a job leaves the holders alone.
LEMMA SameJobs ==
  ASSUME SlotsAccounted, CapacityBound, UNCHANGED <<job, queueRunning>>
  PROVE  SlotsAccounted' /\ CapacityBound'
<1>1. \A q \in Queues : Holders(q)' = Holders(q)
  BY DEF Holders
<1>2. \A q \in Queues, n \in Nat : AdmittedUnder(q, n)' = AdmittedUnder(q, n)
  BY <1>1 DEF AdmittedUnder
<1> QED
  BY <1>1, <1>2 DEF SlotsAccounted, CapacityBound

(***************************************************************************)
(* The invariant, action by action.                                        *)
(***************************************************************************)
Inductive ==
  HoldsJob /\ SlotsAccounted /\ CapacityBound /\ QueuedHasJob /\ OnlyLiveControls /\ NoLostWakeup

LEMMA EnqueueStep ==
  ASSUME TypeOK, Inductive, NEW d \in Downloads, NEW a \in Actions, Enqueue(d, a)
  PROVE  Inductive'
<1>1. HoldsJob' /\ OnlyLiveControls' /\ NoLostWakeup'
  BY DEF Inductive, HoldsJob, OnlyLiveControls, NoLostWakeup, Enqueue, At
<1>2. SlotsAccounted' /\ CapacityBound'
  BY SameJobs DEF Inductive, Enqueue
<1>3. QueuedHasJob'
  <2>1. NewJob(d, a) \in Jobs /\ NewJob(d, a).id = d
    BY NewJobType DEF NewJob
  <2>2. /\ Len(pending) \in Nat /\ DOMAIN pending = 1 .. Len(pending)
        /\ pending' \in Seq(Jobs) /\ Len(pending') = Len(pending) + 1
        /\ \A i \in 1 .. Len(pending) : pending'[i] = pending[i]
        /\ pending'[Len(pending) + 1] = NewJob(d, a)
    BY <2>1, AppendProperties, LenProperties DEF TypeOK, Enqueue
  <2>3. DOMAIN pending' = 1 .. Len(pending) + 1
    BY <2>2, LenProperties
  <2>4. ASSUME NEW e \in queued' PROVE \E i \in DOMAIN pending' : pending'[i].id = e
    <3>1. CASE e = d
      BY <2>1, <2>2, <2>3, <3>1
    <3>2. CASE e \in queued
      BY <2>2, <2>3, <3>2 DEF Inductive, QueuedHasJob
    <3> QED
      BY <2>4, <3>1, <3>2 DEF Enqueue
  <2> QED
    BY <2>4 DEF QueuedHasJob
<1> QED
  BY <1>1, <1>2, <1>3 DEF Inductive

LEMMA ClaimStep ==
  ASSUME TypeOK, TypeOK', Inductive, NEW w \in Workers, Claim(w)
  PROVE  Inductive'
<1>1. PICK i \in Candidates :
        /\ job' = [job EXCEPT ![w] = pending[i]]
        /\ pending' = RemoveAt(pending, i)
        /\ queued' = queued \ {pending[i].id}
        /\ queueRunning' = [queueRunning EXCEPT ![pending[i].queue] = @ + 1]
  BY DEF Claim
<1> DEFINE j == pending[i]
<1>2. /\ i \in 1 .. Len(pending) /\ Len(pending) \in Nat /\ DOMAIN pending = 1 .. Len(pending)
      /\ j \in Jobs /\ j # NoJob
      /\ j.queue \in Queues /\ j.limit \in Nat \ {0}
      /\ queueRunning[j.queue] < j.limit
  <2>1. i \in DOMAIN pending /\ pending \in Seq(Jobs) /\ queueRunning[j.queue] < j.limit
    BY DEF TypeOK, Candidates
  <2>2. Len(pending) \in Nat /\ DOMAIN pending = 1 .. Len(pending)
    BY <2>1, LenProperties
  <2>3. j \in Jobs
    BY <2>1, <2>2, ElementOfSeq
  <2>4. j.queue \in Queues /\ j.limit \in Nat \ {0}
    BY <2>3 DEF Jobs
  <2> QED
    BY <2>1, <2>2, <2>3, <2>4, NoJobAssumption
<1>3. job[w] = NoJob /\ pc[w] = "scan" /\ pc' = [pc EXCEPT ![w] = "claimed"]
  BY DEF Inductive, HoldsJob, Claim, At, Goto
<1>4. \A v \in Workers : job'[v] = IF v = w THEN j ELSE job[v]
  BY <1>1 DEF TypeOK
<1> HIDE DEF j
<1>5. HoldsJob'
  BY <1>2, <1>3, <1>4 DEF Inductive, HoldsJob, TypeOK
<1>6. SlotsAccounted'
  <2>1. ASSUME NEW q \in Queues PROVE queueRunning'[q] = Cardinality(Holders(q)')
    <3>1. CASE q = j.queue
      <4>1. Holders(q)' = Holders(q) \cup {w} /\ w \notin Holders(q)
        BY <1>2, <1>3, <1>4, <3>1 DEF Holders
      <4>2. Cardinality(Holders(q)') = Cardinality(Holders(q)) + 1
        BY <4>1, HoldersFinite, FS_AddElement
      <4> QED
        BY <1>1, <3>1, <4>2 DEF Inductive, SlotsAccounted, TypeOK, j
    <3>2. CASE q # j.queue
      <4>1. Holders(q)' = Holders(q)
        BY <1>2, <1>3, <1>4, <3>2 DEF Holders
      <4> QED
        BY <1>1, <3>2, <4>1 DEF Inductive, SlotsAccounted, TypeOK, j
    <3> QED
      BY <3>1, <3>2
  <2> QED
    BY <2>1 DEF SlotsAccounted
<1>7. CapacityBound'
  <2>1. ASSUME NEW q \in Queues, NEW n \in Nat PROVE Cardinality(AdmittedUnder(q, n)') <= n
    <3>1. CASE q = j.queue /\ j.limit <= n
      <4>1. AdmittedUnder(q, n)' = AdmittedUnder(q, n) \cup {w}
        BY <1>2, <1>3, <1>4, <3>1 DEF AdmittedUnder, Holders
      <4>2. Cardinality(AdmittedUnder(q, n)') <= Cardinality(AdmittedUnder(q, n)) + 1
        <5>1. IsFiniteSet(AdmittedUnder(q, n)) /\ Cardinality(AdmittedUnder(q, n)) \in Nat
          BY HoldersFinite
        <5>2. Cardinality(AdmittedUnder(q, n) \cup {w}) <= Cardinality(AdmittedUnder(q, n)) + 1
          BY <5>1, CardinalityGrows
        <5> QED
          BY <4>1, <5>2
      <4>3. Cardinality(AdmittedUnder(q, n)) <= queueRunning[q]
        BY HoldersFinite DEF Inductive, SlotsAccounted
      <4>4. /\ Cardinality(AdmittedUnder(q, n)) \in Nat
            /\ Cardinality(AdmittedUnder(q, n) \cup {w}) \in Nat
            /\ queueRunning[q] \in Int
        BY HoldersFinite, FS_AddElement, FS_CardinalityType DEF TypeOK
      <4> QED
        BY <1>2, <3>1, <4>1, <4>2, <4>3, <4>4
    <3>2. CASE ~(q = j.queue /\ j.limit <= n)
      <4>1. AdmittedUnder(q, n)' = AdmittedUnder(q, n)
        BY <1>2, <1>3, <1>4, <3>2 DEF AdmittedUnder, Holders
      <4> QED
        BY <4>1 DEF Inductive, CapacityBound
    <3> QED
      BY <3>1, <3>2
  <2> QED
    BY <2>1 DEF CapacityBound
<1>8. QueuedHasJob'
  <2>1. /\ Len(pending') = Len(pending) - 1
        /\ \A k \in 1 .. Len(pending) - 1 :
             pending'[k] = IF k < i THEN pending[k] ELSE pending[k + 1]
    <3>1. pending \in Seq(Jobs)
      BY DEF TypeOK
    <3> QED
      BY <1>1, <1>2, <3>1, RemoveAtProperties
  <2>2. DOMAIN pending' = 1 .. Len(pending) - 1
    BY <2>1, LenProperties DEF TypeOK
  <2>3. ASSUME NEW e \in queued' PROVE \E k \in DOMAIN pending' : pending'[k].id = e
    <3>1. e \in queued /\ e # pending[i].id
      BY <1>1, <2>3
    <3>2. PICK k \in 1 .. Len(pending) : pending[k].id = e
      BY <1>2, <3>1 DEF Inductive, QueuedHasJob
    <3>3. CASE k < i
      BY <1>2, <2>1, <2>2, <3>2, <3>3
    <3>4. CASE k > i
      <4>1. k - 1 \in 1 .. Len(pending) - 1 /\ ~(k - 1 < i) /\ k - 1 + 1 = k
        BY <1>2, <3>4
      <4>2. pending'[k - 1] = pending[k]
        BY <2>1, <4>1
      <4> QED
        BY <2>2, <3>2, <4>1, <4>2
    <3> QED
      BY <1>2, <3>1, <3>2, <3>3, <3>4
  <2> QED
    BY <2>3 DEF QueuedHasJob
<1>9. OnlyLiveControls'
  BY <1>3, <1>4 DEF Inductive, OnlyLiveControls, At, TypeOK, Claim
<1>10. NoLostWakeup'
  BY <1>3 DEF NoLostWakeup, TypeOK
<1> QED
  BY <1>5, <1>6, <1>7, <1>8, <1>9, <1>10 DEF Inductive

LEMMA ReleaseStep ==
  ASSUME TypeOK, Inductive, NEW w \in Workers, Release(w)
  PROVE  Inductive'
<1> DEFINE j == job[w]
<1>1. pc[w] = "run" /\ pc' = [pc EXCEPT ![w] = "freed"] /\ j \in Jobs /\ j # NoJob
  BY DEF Inductive, HoldsJob, TypeOK, Release, At, Goto
<1>2. j.queue \in Queues /\ queueRunning' = [queueRunning EXCEPT ![j.queue] = @ - 1]
  BY <1>1 DEF Jobs, Release
<1>3. \A v \in Workers : job'[v] = IF v = w THEN NoJob ELSE job[v]
  BY DEF TypeOK, Release
<1> HIDE DEF j
<1>4. HoldsJob'
  BY <1>1, <1>3 DEF Inductive, HoldsJob, TypeOK
<1>5. SlotsAccounted'
  <2>1. ASSUME NEW q \in Queues PROVE queueRunning'[q] = Cardinality(Holders(q)')
    <3>1. CASE q = j.queue
      <4>1. Holders(q)' = Holders(q) \ {w} /\ w \in Holders(q)
        BY <1>1, <1>3, <3>1 DEF Holders, j
      <4>2. Cardinality(Holders(q)') = Cardinality(Holders(q)) - 1
        BY <4>1, HoldersFinite, FS_RemoveElement
      <4> QED
        BY <1>2, <3>1, <4>2 DEF Inductive, SlotsAccounted, TypeOK
    <3>2. CASE q # j.queue
      <4>1. Holders(q)' = Holders(q)
        BY <1>1, <1>3, <3>2 DEF Holders, j
      <4> QED
        BY <1>2, <3>2, <4>1 DEF Inductive, SlotsAccounted, TypeOK
    <3> QED
      BY <3>1, <3>2
  <2> QED
    BY <2>1 DEF SlotsAccounted
<1>6. CapacityBound'
  <2>1. ASSUME NEW q \in Queues, NEW n \in Nat PROVE Cardinality(AdmittedUnder(q, n)') <= n
    <3>1. AdmittedUnder(q, n)' \in SUBSET AdmittedUnder(q, n)
      BY <1>3 DEF AdmittedUnder, Holders
    <3>2. IsFiniteSet(AdmittedUnder(q, n)) /\ Cardinality(AdmittedUnder(q, n)) \in Nat
      BY HoldersFinite
    <3>3. /\ IsFiniteSet(AdmittedUnder(q, n)')
          /\ Cardinality(AdmittedUnder(q, n)') <= Cardinality(AdmittedUnder(q, n))
      BY <3>1, <3>2, FS_Subset
    <3>4. Cardinality(AdmittedUnder(q, n)') \in Nat
      BY <3>3, FS_CardinalityType
    <3>5. Cardinality(AdmittedUnder(q, n)) <= n
      BY DEF Inductive, CapacityBound
    <3> QED
      BY <3>2, <3>3, <3>4, <3>5
  <2> QED
    BY <2>1 DEF CapacityBound
<1>7. QueuedHasJob'
  BY DEF Inductive, QueuedHasJob, Release
<1>8. OnlyLiveControls'
  <2>1. ASSUME NEW d \in Downloads, NEW v \in Workers, running'[d] = v
        PROVE  pc'[v] = "run" /\ job'[v].id = d
    <3>1. running'[d] = IF d = job[w].id /\ running[d] = w THEN NoWorker ELSE running[d]
      BY DEF Release, Forget
    <3>2. running[d] = v /\ ~(d = job[w].id /\ running[d] = w)
      BY <2>1, <3>1, DispatcherAssumption
    <3>3. v # w /\ pc[v] = "run" /\ job[v].id = d
      BY <3>2 DEF Inductive, OnlyLiveControls, At
    <3> QED
      BY <1>1, <1>3, <3>3 DEF TypeOK
  <2> QED
    BY <2>1 DEF OnlyLiveControls, At
<1>9. NoLostWakeup'
  BY <1>1 DEF NoLostWakeup, TypeOK
<1> QED
  BY <1>4, <1>5, <1>6, <1>7, <1>8, <1>9 DEF Inductive

LEMMA RegisterStep ==
  ASSUME TypeOK, Inductive, NEW w \in Workers, Register(w)
  PROVE  Inductive'
<1>1. pc[w] = "register" /\ pc' = [pc EXCEPT ![w] = "run"] /\ job' = job
  BY DEF Register, At, Goto
<1>2. SlotsAccounted' /\ CapacityBound'
  BY SameJobs DEF Inductive, Register
<1>3. HoldsJob' /\ QueuedHasJob' /\ NoLostWakeup'
  BY <1>1 DEF Inductive, HoldsJob, QueuedHasJob, NoLostWakeup, Candidates, At, TypeOK, Register
<1>4. OnlyLiveControls'
  <2>1. ASSUME NEW d \in Downloads, NEW v \in Workers, running'[d] = v
        PROVE  pc'[v] = "run" /\ job'[v].id = d
    <3>1. CASE d = job[w].id
      BY <1>1, <2>1, <3>1 DEF Register, TypeOK
    <3>2. CASE d # job[w].id
      BY <1>1, <2>1, <3>2 DEF Inductive, OnlyLiveControls, Register, TypeOK, At
    <3> QED
      BY <3>1, <3>2
  <2> QED
    BY <2>1 DEF OnlyLiveControls, At
<1> QED
  BY <1>2, <1>3, <1>4 DEF Inductive

LEMMA UnregisterStep ==
  ASSUME TypeOK, Inductive, NEW w \in Workers, Unregister(w)
  PROVE  Inductive'
<1>1. SlotsAccounted' /\ CapacityBound'
  BY SameJobs DEF Inductive, Unregister
<1>2. HoldsJob' /\ QueuedHasJob' /\ NoLostWakeup'
  BY DEF Inductive, HoldsJob, QueuedHasJob, NoLostWakeup, Candidates, At, Unregister
<1>3. OnlyLiveControls'
  BY DispatcherAssumption DEF Inductive, OnlyLiveControls, Unregister, Forget, At
<1> QED
  BY <1>1, <1>2, <1>3 DEF Inductive

\* The steps that touch neither the jobs nor the map: the wake protocol.
LEMMA WakeStep ==
  ASSUME TypeOK, Inductive, NEW w \in Workers,
         ScanNothing(w) \/ Receive(w) \/ Exit(w) \/ SignalClaim(w) \/ SignalFree(w)
  PROVE  Inductive'
<1>1. UNCHANGED <<poolVars, job>>
  BY DEF ScanNothing, Receive, Exit, SignalClaim, SignalFree, Signal
<1>2. SlotsAccounted' /\ CapacityBound' /\ QueuedHasJob'
  BY <1>1, SameJobs DEF Inductive, QueuedHasJob, poolVars
<1>3. HoldsJob' /\ OnlyLiveControls'
  <2>1. \A v \in Workers :
          /\ (pc'[v] \in {"claimed", "register", "run"}) <=> (pc[v] \in {"claimed", "register", "run"})
          /\ pc[v] = "run" => pc'[v] = "run"
    <3>1. CASE ScanNothing(w) \/ Receive(w) \/ Exit(w)
      BY <3>1 DEF ScanNothing, Receive, Exit, At, Goto, TypeOK
    <3>2. CASE SignalClaim(w) \/ SignalFree(w)
      BY <3>2 DEF SignalClaim, SignalFree, Signal, At, Goto, TypeOK
    <3> QED
      BY <3>1, <3>2
  <2>2. HoldsJob'
    BY <1>1, <2>1 DEF Inductive, HoldsJob
  <2>3. OnlyLiveControls'
    BY <1>1, <2>1 DEF Inductive, OnlyLiveControls, At, poolVars
  <2> QED
    BY <2>2, <2>3
<1>4. NoLostWakeup'
  <2>1. Candidates' = Candidates
    BY <1>1 DEF Candidates, poolVars
  <2>2. CASE ScanNothing(w)
    BY <2>1, <2>2 DEF NoLostWakeup, ScanNothing
  <2>3. CASE Receive(w)
    BY <2>3 DEF NoLostWakeup, Receive, Goto, TypeOK
  <2>4. CASE Exit(w)
    BY <2>1, <2>4 DEF Inductive, NoLostWakeup, Exit, Goto, At, TypeOK
  <2>5. CASE SignalClaim(w) \/ SignalFree(w)
    BY <2>5 DEF NoLostWakeup, SignalClaim, SignalFree, Signal
  <2> QED
    BY <2>2, <2>3, <2>4, <2>5
<1> QED
  BY <1>2, <1>3, <1>4 DEF Inductive

\* The callers' other steps, and none at all.
LEMMA OtherStep ==
  ASSUME TypeOK, Inductive,
         \/ \E d \in Downloads : Withdraw(d)
         \/ \E d \in Downloads, q \in Queues : Assign(d, q)
         \/ \E q \in NamedQueues, p \in Policies : SetPolicy(q, p)
         \/ Close
         \/ UNCHANGED vars
  PROVE  Inductive'
<1>1. /\ UNCHANGED <<pending, running, queueRunning, wake, pc, job>>
      /\ queued' \in SUBSET queued
  BY DEF Withdraw, Assign, SetPolicy, Close, vars, poolVars
<1>2. SlotsAccounted' /\ CapacityBound'
  BY <1>1, SameJobs DEF Inductive
<1>3. HoldsJob' /\ OnlyLiveControls' /\ QueuedHasJob'
  BY <1>1 DEF Inductive, HoldsJob, OnlyLiveControls, QueuedHasJob, At
<1>4. NoLostWakeup'
  <2>1. Candidates' \in SUBSET Candidates
    BY <1>1 DEF Candidates
  <2> QED
    BY <1>1, <2>1 DEF Inductive, NoLostWakeup, At
<1> QED
  BY <1>2, <1>3, <1>4 DEF Inductive

LEMMA InitIInv ==
  Init => IInv
<1> SUFFICES ASSUME Init PROVE IInv
  OBVIOUS
<1>1. TypeOK
  <2>1. pending \in Seq(Jobs) /\ Len(pending) <= MaxPending
    BY EmptySeq, DispatcherAssumption DEF Init
  <2>2. /\ queued \in SUBSET Downloads
        /\ running \in [Downloads -> Workers \cup {NoWorker}]
        /\ queueRunning \in [Queues -> Int]
    BY DEF Init
  <2>3. /\ wake \in BOOLEAN /\ closed \in BOOLEAN
        /\ policy \in [NamedQueues -> Policies] /\ assigned \in [Downloads -> Queues]
    BY DEF Init
  <2>4. pc \in [Workers -> Steps] /\ job \in [Workers -> Jobs \cup {NoJob}]
    BY DEF Init, Steps
  <2> QED
    BY <2>1, <2>2, <2>3, <2>4 DEF TypeOK
<1>2. HoldsJob /\ QueuedHasJob /\ NoLostWakeup
  BY DEF Init, HoldsJob, QueuedHasJob, NoLostWakeup, At
<1>3. OnlyLiveControls
  BY DispatcherAssumption DEF Init, OnlyLiveControls
<1>4. \A q \in Queues : Holders(q) = {} /\ \A n \in Nat : AdmittedUnder(q, n) = {}
  BY DEF Init, Holders, AdmittedUnder
<1>5. SlotsAccounted /\ CapacityBound
  <2>1. \A q \in Queues : /\ Cardinality(Holders(q)) = 0
                         /\ \A n \in Nat : Cardinality(AdmittedUnder(q, n)) = 0
    BY <1>4, FS_EmptySet
  <2>2. \A q \in Queues : queueRunning[q] = 0
    BY DEF Init
  <2> QED
    BY <2>1, <2>2 DEF SlotsAccounted, CapacityBound
<1> QED
  BY <1>1, <1>2, <1>3, <1>5 DEF IInv

LEMMA NextIInv ==
  IInv /\ [Next]_vars => IInv'
<1> SUFFICES ASSUME IInv, [Next]_vars PROVE IInv'
  OBVIOUS
<1>1. TypeOK /\ Inductive
  BY DEF IInv, Inductive
<1>2. TypeOK'
  BY <1>1, TypeStep DEF Inductive
<1>3. Inductive'
  <2>1. ASSUME NEW d \in Downloads, NEW a \in Actions, Enqueue(d, a) PROVE Inductive'
    BY <1>1, <2>1, EnqueueStep
  <2>2. ASSUME NEW w \in Workers, Claim(w) PROVE Inductive'
    BY <1>1, <1>2, <2>2, ClaimStep
  <2>3. ASSUME NEW w \in Workers, Register(w) PROVE Inductive'
    BY <1>1, <2>3, RegisterStep
  <2>4. ASSUME NEW w \in Workers, Unregister(w) PROVE Inductive'
    BY <1>1, <2>4, UnregisterStep
  <2>5. ASSUME NEW w \in Workers, Release(w) PROVE Inductive'
    BY <1>1, <2>5, ReleaseStep
  <2>6. ASSUME NEW w \in Workers,
               ScanNothing(w) \/ Receive(w) \/ Exit(w) \/ SignalClaim(w) \/ SignalFree(w)
        PROVE  Inductive'
    BY <1>1, <2>6, WakeStep
  <2>7. ASSUME \/ \E d \in Downloads : Withdraw(d)
               \/ \E d \in Downloads, q \in Queues : Assign(d, q)
               \/ \E q \in NamedQueues, p \in Policies : SetPolicy(q, p)
               \/ Close
               \/ UNCHANGED vars
        PROVE  Inductive'
    BY <1>1, <2>7, OtherStep
  <2> QED
    BY <2>1, <2>2, <2>3, <2>4, <2>5, <2>6, <2>7 DEF Next, CallerStep, WorkerStep, LoopStep
<1> QED
  BY <1>2, <1>3 DEF IInv, Inductive

(***************************************************************************)
(* Theorems.                                                               *)
(***************************************************************************)
\* The inductive invariant holds in every state of every behaviour of the
\* pool: the one temporal argument all results below rest on.
THEOREM Invariance == Spec => []IInv
<1>1. Init => IInv
  BY InitIInv
<1>2. IInv /\ [Next]_vars => IInv'
  BY NextIInv
<1> QED
  BY <1>1, <1>2, PTL DEF Spec

\* The pool keeps its types: in particular enqueue never lets the pending
\* slice grow beyond maxQueuedDownloads.
THEOREM TypeCorrect == Spec => []TypeOK
<1>1. IInv => TypeOK
  BY DEF IInv
<1> QED
  BY <1>1, Invariance, PTL

\* The slot counters of nextJob and worker never leak and never go negative.
THEOREM SlotsNeverLeak == Spec => []SlotsAccounted
<1>1. IInv => SlotsAccounted
  BY DEF IInv
<1> QED
  BY <1>1, Invariance, PTL

\* No queue runs more jobs admitted under a limit of n than n, for any number
\* of workers and queues and any history of policy edits.
THEOREM CapacityHolds == Spec => []CapacityRespected
<1>1. IInv => CapacityRespected
  <2> SUFFICES ASSUME IInv, NEW q \in Queues, NEW n \in LimitsInUse
               PROVE  Cardinality(AdmittedUnder(q, n)) <= n
    BY DEF CapacityRespected
  <2>1. n \in Nat
    BY DEF LimitsInUse, IInv, TypeOK, Jobs
  <2> QED
    BY <2>1 DEF IInv, CapacityBound
<1> QED
  BY <1>1, Invariance, PTL

\* A download answered as "already queued" does have a job.
THEOREM QueuedIsBacked == Spec => []QueuedHasJob
<1>1. IInv => QueuedHasJob
  BY DEF IInv
<1> QED
  BY <1>1, Invariance, PTL

\* Pause and Cancel never find the control of a run that is over.
THEOREM ControlsAreLive == Spec => []OnlyLiveControls
<1>1. IInv => OnlyLiveControls
  BY DEF IInv
<1> QED
  BY <1>1, Invariance, PTL

\* The one-token wake channel loses no wake-up, for any number of workers.
THEOREM WakeupsAreKept == Spec => []NoLostWakeup
<1>1. IInv => NoLostWakeup
  BY DEF IInv
<1> QED
  BY <1>1, Invariance, PTL

\* Only its own run removes a control, whatever runs of the same download
\* unwind at the same time.
THEOREM OwnControls == Spec => OwnControlOnly
<1> DEFINE A == \A d \in Downloads, w, v \in Workers :
                  (running[d] = w /\ running'[d] = NoWorker /\ v # w) => job'[v] = job[v]
<1>1. TypeOK /\ [Next]_vars => [A]_running
  <2> SUFFICES ASSUME TypeOK, Next, running' # running,
                      NEW d \in Downloads, NEW w \in Workers, NEW v \in Workers,
                      running[d] = w, running'[d] = NoWorker, v # w
               PROVE  job'[v] = job[v]
    BY DEF vars, poolVars
  <2>1. ASSUME NEW u \in Workers, Unregister(u) \/ Release(u) PROVE job'[v] = job[v]
    <3>1. Forget(u)
      BY <2>1 DEF Unregister, Release
    <3>2. running'[d] = IF d = job[u].id /\ running[d] = u THEN NoWorker ELSE running[d]
      BY <3>1 DEF Forget
    <3>3. u = w
      BY <3>2, DispatcherAssumption
    <3>4. job' = job \/ job' = [job EXCEPT ![u] = NoJob]
      BY <2>1 DEF Unregister, Release
    <3> QED
      BY <3>3, <3>4 DEF TypeOK
  <2>2. ASSUME NEW u \in Workers, Register(u) PROVE job'[v] = job[v]
    BY <2>2 DEF Register
  <2>3. ASSUME CallerStep \/ \E u \in Workers : LoopStep(u) /\ ~Register(u) PROVE FALSE
    BY <2>3 DEF CallerStep, LoopStep, Enqueue, Withdraw, Assign, SetPolicy, Close, Claim,
       ScanNothing, Receive, Exit, SignalClaim, SignalFree, Signal, poolVars
  <2> QED
    BY <2>1, <2>2, <2>3 DEF Next, WorkerStep, LoopStep
<1> QED
  BY <1>1, TypeCorrect, PTL DEF Spec, OwnControlOnly
=============================================================================

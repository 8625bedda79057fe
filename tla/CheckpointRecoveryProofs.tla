---------------------- MODULE CheckpointRecoveryProofs ----------------------
(***************************************************************************)
(* Proofs about SegmentEngine and CheckpointRecovery for any length of the *)
(* resource, any number of workers and connections, and any number of      *)
(* crashes and calls of the user.                                          *)
(*                                                                         *)
(* The invariant has two layers.  The first is about the pool: a segment   *)
(* is in one place at a time, and only where its bytes cannot change under *)
(* it.  The second, which rests on it, is about the bytes behind cursors.  *)
(***************************************************************************)
EXTENDS CheckpointRecovery, SegmentsProofs, FiniteSetTheorems

(***************************************************************************)
(* The pool.                                                               *)
(***************************************************************************)
\* A division of the resource.
Plan(s) == s \in Seq(Segment) /\ ValidSegments(s, Total)

Members(s) == {s[k] : k \in 1 .. Len(s)}
Reported == {results[k][1] : k \in 1 .. Len(results)}

Distinct(s) == \A j, k \in 1 .. Len(s) : s[j] = s[k] => j = k

Quiet ==
  /\ toStart = <<>> /\ jobs = <<>> /\ results = <<>>
  /\ active = {} /\ cancelled = {} /\ splitSnap = <<>>

\* A segment is waiting to be sent, in the channel, with a worker, or in the channel
\* back, and in one place only.
OnePlace ==
  /\ Distinct(toStart) /\ Distinct(jobs)
  /\ \A j, k \in 1 .. Len(results) : results[j][1] = results[k][1] => j = k
  /\ Members(jobs) \cup Busy \cup Reported \subseteq active
  /\ Members(jobs) \cap Busy = {} /\ Members(jobs) \cap Reported = {} /\ Busy \cap Reported = {}
  /\ Members(toStart) \cap active = {}
  /\ Members(toStart) \cup active \subseteq 1 .. Len(segs)

Pool ==
  /\ at # "ranges" => Quiet
  /\ at \in {"off", "last", "rename", "ended"} => Busy = {}
  /\ at = "whole" => Busy = {1}
  /\ at = "ranges" => OnePlace /\ (toStart = <<>> => splitSnap = <<>>)
  /\ at # "off" => width >= 1

\* Whatever is or will be told divides the resource.
Plans ==
  /\ at # "off" => Plan(segs) /\ Plan(base) /\ Plan(told)
  /\ at = "off" => segs = <<>> /\ base = <<>> /\ told = <<>>
  /\ \A i \in Indexes : work[i] = "deliver" => Plan(snap[i])
  /\ splitSnap # <<>> => Plan(splitSnap)

Writing(i) == work[i] \in {"stream", "deliver"}

\* A segment does not change while a worker has it, other than by that worker, and
\* one that is reported complete is.
Outcome ==
  /\ at = "ranges" =>
       /\ size = Total
       /\ \A i \in Indexes :
            /\ Writing(i) => until[i] = segs[i].end
            /\ work[i] = "ok" => Remaining(segs[i]) = 0
       /\ \A k \in 1 .. Len(results) : results[k][2] = "ok" => Remaining(segs[results[k][1]]) = 0
       /\ failure = "ok" =>
            \A i \in 1 .. Len(segs) :
              i \in active \cup Members(toStart) \/ Remaining(segs[i]) = 0
  /\ at = "whole" =>
       /\ Writing(1) => until[1] = Total - 1
       /\ Writing(1) \/ work[1] = "ok" => size = Total
       /\ work[1] = "ok" => segs[1].cur = Total
  /\ NothingForgotten /\ FinalReportIsLast
  /\ at = "rename" => size = Total /\ failure = "ok" /\ Claimed(segs) = Bytes
  /\ at = "ended" => (size = -1 <=> failure = "ok")

\* What the length of the temporary file says.
Length ==
  /\ size \in {-1, 0, Total}
  /\ size # Total => good = {}
  /\ size = -1 => final # Nothing /\ at \in {"off", "ended"}

\* The row between runs and during one.
Row ==
  /\ row.segs = Unplanned => at = "off" /\ size = 0
  /\ row.segs # Unplanned => Plan(row.segs)
  /\ at # "off" => up /\ row.state \in {"downloading", "pausing"}
  /\ row.state \in {"queued", "probing"} => Claimed(row.segs) = {}
  /\ row.state = "preparing" => Claimed(row.segs) = {} \/ (size = Total /\ ranged)

EngineInv == EngineTypeOK /\ Pool /\ Plans /\ Outcome /\ Length
PoolInv == RecoveryTypeOK /\ EngineInv /\ Row

(***************************************************************************)
(* The bytes.                                                              *)
(***************************************************************************)
\* One stream moves only the first cursor.
Untouched == \A j \in 2 .. Len(segs) : segs[j].cur = segs[j].start

\* What may be in the row or what a call has started from is on the disk, unless one
\* stream is at work, which starts from nothing.
Backed ==
  /\ final = Nothing \/ final = Bytes
  /\ at \in {"off", "rename", "ended"} => durable = good
  /\ at # "off" /\ size # -1 => Claimed(segs) \subseteq good
  /\ at = "whole" => Claimed(base) = {} /\ Untouched
  /\ at \in {"ranges", "last", "rename"} => Claimed(base) \subseteq durable
  /\ at = "ranges" =>
       /\ Claimed(row.segs) \subseteq durable /\ Claimed(told) \subseteq durable
       /\ Claimed(splitSnap) \subseteq durable
       /\ \A i \in Indexes : work[i] = "deliver" => Claimed(snap[i]) \subseteq durable
  /\ CheckpointBacked

BytesInv == PoolInv /\ Backed

(***************************************************************************)
(* Lemmas about plans, channels and workers.                               *)
(***************************************************************************)
LEMMA PlanFacts ==
  ASSUME NEW s, Plan(s)
  PROVE  /\ s \in Seq(Segment) /\ ValidSegments(s, Total)
         /\ Len(s) \in Nat \ {0} /\ Len(s) <= Total /\ 1 .. Len(s) \subseteq Indexes
         /\ Claimed(s) \subseteq Bytes
         /\ \A i \in 1 .. Len(s) :
              /\ s[i].start \in Nat /\ s[i].end \in Int /\ s[i].cur \in Nat
              /\ s[i].start <= s[i].end /\ s[i].end <= Total - 1
              /\ s[i].start <= s[i].cur /\ s[i].cur <= s[i].end + 1
<1>1. s \in Seq(Segment) /\ ValidSegments(s, Total) /\ Total \in Nat \ {0}
  BY EngineAssumption DEF Plan
<1>2. /\ Len(s) \in Nat \ {0}
      /\ \A i \in 1 .. Len(s) :
           /\ s[i].start \in Nat /\ s[i].end \in Int /\ s[i].cur \in Nat
           /\ s[i].start <= s[i].end /\ s[i].start <= s[i].cur /\ s[i].cur <= s[i].end + 1
  BY <1>1, ValidParts
<1>3. Len(s) <= Total /\ \A i \in 1 .. Len(s) : s[i].end <= Total - 1
  BY <1>1, ValidOrder
<1>4. Claimed(s) \subseteq Bytes
  BY <1>1, ClaimedWithin DEF Bytes
<1>5. 1 .. Len(s) \subseteq Indexes
  BY <1>1, <1>2, <1>3 DEF Indexes
<1> QED
  BY <1>1, <1>2, <1>3, <1>4, <1>5

\* The members of a channel that something is sent to or received from.
LEMMA Sent ==
  ASSUME NEW S, NEW s \in Seq(S), NEW x \in S
  PROVE  /\ Append(s, x) \in Seq(S) /\ Len(Append(s, x)) = Len(s) + 1
         /\ Members(Append(s, x)) = Members(s) \cup {x}
         /\ Distinct(s) /\ x \notin Members(s) => Distinct(Append(s, x))
<1>1. /\ Append(s, x) \in Seq(S) /\ Len(Append(s, x)) = Len(s) + 1 /\ Len(s) \in Nat
      /\ \A k \in 1 .. Len(s) : Append(s, x)[k] = s[k]
      /\ Append(s, x)[Len(s) + 1] = x
  OBVIOUS
<1>2. \A k : k \in 1 .. Len(s) + 1 <=> k \in 1 .. Len(s) \/ k = Len(s) + 1
  BY <1>1
<1>3. Members(Append(s, x)) = Members(s) \cup {x}
  BY <1>1, <1>2, Zenon DEF Members
<1>4. ASSUME Distinct(s), x \notin Members(s)
      PROVE  Distinct(Append(s, x))
  <2>1. \A k \in 1 .. Len(s) : s[k] # x
    BY <1>4 DEF Members
  <2> QED
    BY <1>1, <1>2, <1>4, <2>1 DEF Distinct
<1> QED
  BY <1>1, <1>3, <1>4

LEMMA Received ==
  ASSUME NEW S, NEW s \in Seq(S), s # <<>>
  PROVE  /\ Tail(s) \in Seq(S) /\ Len(Tail(s)) = Len(s) - 1 /\ Len(s) >= 1
         /\ Head(s) \in S /\ Head(s) = s[1] /\ Head(s) \in Members(s)
         /\ \A k \in 1 .. Len(s) - 1 : Tail(s)[k] = s[k + 1]
         /\ Members(s) = Members(Tail(s)) \cup {Head(s)}
         /\ Distinct(s) => Distinct(Tail(s)) /\ Head(s) \notin Members(Tail(s))
<1>1. /\ Tail(s) \in Seq(S) /\ Len(Tail(s)) = Len(s) - 1 /\ Len(s) \in Nat \ {0}
      /\ Head(s) \in S /\ Head(s) = s[1]
      /\ \A k \in 1 .. Len(s) - 1 : Tail(s)[k] = s[k + 1]
  OBVIOUS
<1>2. \A k \in 1 .. Len(s) - 1 : k + 1 \in 1 .. Len(s) /\ k + 1 # 1 /\ (k + 1) - 1 = k
  BY <1>1
<1>3. \A k \in 1 .. Len(s) : k = 1 \/ (k - 1 \in 1 .. Len(s) - 1 /\ (k - 1) + 1 = k)
  BY <1>1
<1>4. 1 \in 1 .. Len(s)
  BY <1>1
<1>5. Members(s) = Members(Tail(s)) \cup {Head(s)}
  <2>1. \A x : x \in Members(Tail(s)) => x \in Members(s)
    BY <1>1, <1>2 DEF Members
  <2>2. Head(s) \in Members(s)
    BY <1>1, <1>4 DEF Members
  <2>3. ASSUME NEW k \in 1 .. Len(s)
        PROVE  s[k] \in Members(Tail(s)) \cup {Head(s)}
    <3>1. CASE k = 1
      BY <1>1, <3>1
    <3>2. CASE k # 1
      <4>1. k - 1 \in 1 .. Len(Tail(s)) /\ Tail(s)[k - 1] = s[k]
        BY <1>1, <1>3, <3>2
      <4> QED
        BY <4>1 DEF Members
    <3> QED
      BY <3>1, <3>2
  <2> QED
    BY <2>1, <2>2, <2>3 DEF Members
<1>6. ASSUME Distinct(s)
      PROVE  Distinct(Tail(s)) /\ Head(s) \notin Members(Tail(s))
  <2>1. \A j, k \in 1 .. Len(s) - 1 : Tail(s)[j] = Tail(s)[k] => j = k
    BY <1>1, <1>2, <1>6 DEF Distinct
  <2>2. \A k \in 1 .. Len(s) - 1 : Tail(s)[k] # Head(s)
    BY <1>1, <1>2, <1>4, <1>6 DEF Distinct
  <2> QED
    BY <1>1, <2>1, <2>2 DEF Distinct, Members
<1> QED
  BY <1>1, <1>5, <1>6

Doings == {"idle", "try", "stream", "deliver"} \cup Outcomes

LEMMA Becoming ==
  ASSUME EngineTypeOK, NEW i \in Indexes, NEW w \in Doings, Become(i, w)
  PROVE  /\ work' \in [Indexes -> Doings] /\ work'[i] = w
         /\ \A j \in Indexes \ {i} : work'[j] = work[j]
         /\ w # "idle" => Busy' = Busy \cup {i}
         /\ w = "idle" => Busy' = Busy \ {i}
<1>1. work' = [work EXCEPT ![i] = w] /\ work \in [Indexes -> Doings]
  BY DEF Become, EngineTypeOK, Doings
<1> QED
  BY <1>1 DEF Busy

LEMMA Retrying ==
  ASSUME EngineTypeOK, NEW i \in Indexes, RetryOrGiveUp(i)
  PROVE  /\ \E w \in {"cancelled", "try", "failed"} : Become(i, w)
         /\ attempt' \in [Indexes -> 0 .. MaxAttempts - 1]
<1>1. attempt \in [Indexes -> 0 .. MaxAttempts - 1] /\ MaxAttempts \in Nat \ {0}
  BY EngineAssumption DEF EngineTypeOK
<1>2. attempt' = attempt \/ (attempt[i] + 1 < MaxAttempts /\ attempt' = [attempt EXCEPT ![i] = @ + 1])
  BY DEF RetryOrGiveUp
<1>3. attempt' \in [Indexes -> 0 .. MaxAttempts - 1]
  BY <1>1, <1>2
<1> QED
  BY <1>3 DEF RetryOrGiveUp

LEMMA BusyFinite ==
  IsFiniteSet(Busy) /\ Cardinality(Busy) \in Nat
<1>1. IsFiniteSet(Indexes)
  BY FS_Interval, EngineAssumption DEF Indexes
<1>2. IsFiniteSet(Busy)
  BY <1>1, FS_Subset DEF Busy
<1> QED
  BY <1>2, FS_CardinalityType

(***************************************************************************)
(* What a step of one worker keeps.                                        *)
(***************************************************************************)
LEMMA KeepPool ==
  ASSUME Pool, UNCHANGED <<at, poolVars, active, cancelled, splitSnap>>,
         Busy' = Busy, Len(segs') = Len(segs)
  PROVE  Pool'
<1>1. at # "ranges" => Quiet'
  BY DEF Pool, Quiet, poolVars
<1>2. at = "ranges" => OnePlace' /\ (toStart' = <<>> => splitSnap' = <<>>)
  <2>1. UNCHANGED <<toStart, jobs, results, active, splitSnap>>
    BY DEF poolVars
  <2>2. Reported' = Reported /\ Members(jobs)' = Members(jobs) /\ Members(toStart)' = Members(toStart)
    BY <2>1 DEF Reported, Members
  <2>3. Distinct(toStart)' = Distinct(toStart) /\ Distinct(jobs)' = Distinct(jobs)
    BY <2>1 DEF Distinct
  <2> QED
    BY <2>1, <2>2, <2>3 DEF Pool, OnePlace
<1> QED
  BY <1>1, <1>2 DEF Pool, poolVars

\* Which segments a worker can have.
LEMMA BusyWhere ==
  ASSUME EngineInv, NEW i \in Busy
  PROVE  /\ at \in {"ranges", "whole"} /\ i \in 1 .. Len(segs) /\ i \in Indexes
         /\ at = "whole" => i = 1
         /\ at = "ranges" => i \in active /\ i \notin Reported
         /\ Plan(segs) /\ Plan(base) /\ Plan(told)
<1>1. at \in {"ranges", "whole"}
  BY DEF EngineInv, EngineTypeOK, Pool
<1>2. Plan(segs) /\ Plan(base) /\ Plan(told)
  BY <1>1 DEF EngineInv, Plans
<1>3. at = "ranges" => i \in active /\ i \notin Reported /\ i \in 1 .. Len(segs)
  BY DEF EngineInv, Pool, OnePlace
<1>4. at = "whole" => i = 1
  BY DEF EngineInv, Pool
<1>5. 1 \in 1 .. Len(segs)
  BY <1>2, PlanFacts
<1> QED
  BY <1>1, <1>2, <1>3, <1>4, <1>5 DEF Busy

LEMMA KeepOutcome ==
  ASSUME EngineInv, NEW i \in Busy,
         UNCHANGED <<at, toStart, results, active, failure, base, told>>,
         Len(segs') = Len(segs), \A j \in 1 .. Len(segs) \ {i} : segs'[j] = segs[j],
         \A j \in Indexes \ {i} : work'[j] = work[j] /\ until'[j] = until[j],
         Writing(i)' \/ work'[i] = "ok" => size' = Total,
         at = "ranges" => size' = Total,
         at = "ranges" /\ Writing(i)' => until'[i] = segs'[i].end,
         at = "ranges" /\ work'[i] = "ok" => Remaining(segs'[i]) = 0,
         at = "whole" /\ Writing(i)' => until'[i] = Total - 1,
         at = "whole" /\ work'[i] = "ok" => segs'[i].cur = Total
  PROVE  Outcome'
<1>0. /\ at \in {"ranges", "whole"} /\ i \in 1 .. Len(segs) /\ i \in Indexes
      /\ at = "whole" => i = 1
      /\ at = "ranges" => i \in active /\ i \notin Reported
  BY BusyWhere
<1>1. ASSUME at = "ranges"
      PROVE  /\ \A j \in Indexes : /\ Writing(j)' => until'[j] = segs'[j].end
                                   /\ work'[j] = "ok" => Remaining(segs'[j]) = 0
             /\ \A k \in 1 .. Len(results) :
                  results[k][2] = "ok" => Remaining(segs'[results[k][1]]) = 0
             /\ failure = "ok" =>
                  \A j \in 1 .. Len(segs) :
                    j \in active \cup Members(toStart) \/ Remaining(segs'[j]) = 0
  <2>1. ASSUME NEW j \in Indexes \ {i}
        PROVE  /\ Writing(j)' => until'[j] = segs'[j].end
               /\ work'[j] = "ok" => Remaining(segs'[j]) = 0
    <3>1. work'[j] # "idle" => j \in 1 .. Len(segs)
      BY <2>1, BusyWhere DEF Busy
    <3> QED
      BY <1>1, <2>1, <3>1 DEF EngineInv, Outcome, Writing
  <2>2. ASSUME NEW k \in 1 .. Len(results), results[k][2] = "ok"
        PROVE  Remaining(segs'[results[k][1]]) = 0
    <3>1. results[k][1] # i /\ results[k][1] \in 1 .. Len(segs)
      BY <1>0, <1>1 DEF Reported, EngineInv, Pool, OnePlace
    <3> QED
      BY <1>1, <2>2, <3>1 DEF EngineInv, Outcome
  <2>3. ASSUME failure = "ok", NEW j \in 1 .. Len(segs), j \notin active \cup Members(toStart)
        PROVE  Remaining(segs'[j]) = 0
    BY <1>0, <1>1, <2>3 DEF EngineInv, Outcome
  <2> QED
    BY <1>1, <2>1, <2>2, <2>3
<1>2. at = "ranges" => Outcome'
  BY <1>1 DEF Outcome, NothingForgotten, FinalReportIsLast, Members
<1>3. at = "whole" => Outcome'
  BY <1>0 DEF Outcome, NothingForgotten, FinalReportIsLast, Writing
<1> QED
  BY <1>0, <1>2, <1>3

\* A change of segs, or none, that only moves the cursor of i.
LEMMA KeepPlans ==
  ASSUME EngineInv, NEW i \in Busy, UNCHANGED <<at, base, splitSnap>>,
         Plan(segs'), told' = told \/ Plan(told'),
         \A j \in Indexes \ {i} : work'[j] = work[j] /\ snap'[j] = snap[j],
         work'[i] = "deliver" => Plan(snap'[i])
  PROVE  Plans'
BY BusyWhere DEF EngineInv, Plans

\* The types of what a worker may change.
LEMMA KeepTypes ==
  ASSUME EngineInv, NEW i \in Busy, Busy' = Busy, Plan(segs'), Plan(told'),
         UNCHANGED <<at, base, final, poolVars, coordVars, stopped>>,
         size' \in -1 .. Total, durable' \subseteq good', good' \subseteq Bytes,
         work' \in [Indexes -> Doings],
         attempt' \in [Indexes -> 0 .. MaxAttempts - 1],
         until' \in [Indexes -> -1 .. Total - 1], snap' \in [Indexes -> Seq(Segment)]
  PROVE  EngineTypeOK'
<1>1. \A s \in {segs', base', told'} : s \in Seq(Segment)
  BY BusyWhere DEF Plan
<1>2. Cardinality(Busy') <= width'
  BY DEF EngineInv, EngineTypeOK, poolVars
<1> QED
  BY <1>1, <1>2 DEF EngineInv, EngineTypeOK, Doings, poolVars, coordVars

(***************************************************************************)
(* The steps of workers.                                                   *)
(***************************************************************************)
\* What every step inside a call shows.
EngineStepOK == EngineInv' /\ at # "off" /\ at' # "off"

LEMMA RequestStep ==
  ASSUME EngineInv, NEW i \in Indexes, Request(i)
  PROVE  EngineStepOK
<1>1. i \in Busy /\ at = "ranges" /\ work[i] = "try"
  BY DEF Request, Busy
<1>2. /\ i \in 1 .. Len(segs) /\ Plan(segs) /\ Plan(base) /\ Plan(told)
  BY <1>1, BusyWhere
<1>3. UNCHANGED <<at, segs, base, told, good, durable, final, poolVars, coordVars, stopped, snap>>
  BY DEF Request
<1>4. PICK w \in {"cancelled", "ok", "stream", "unreliable", "failed", "try"} : Become(i, w)
  BY Retrying DEF Request, EngineInv
<1>5. /\ attempt' \in [Indexes -> 0 .. MaxAttempts - 1]
      /\ work'[i] = "ok" => Remaining(segs[i]) = 0
      /\ work'[i] = "stream" => until' = [until EXCEPT ![i] = segs[i].end] /\ size' = Total
      /\ work'[i] # "stream" => UNCHANGED <<until, size>>
      /\ UNCHANGED <<until, size>> \/ (until' = [until EXCEPT ![i] = segs[i].end] /\ size' = Total)
  <2>1. CASE RetryOrGiveUp(i) /\ UNCHANGED <<size, until>>
    <3>1. \E v \in {"cancelled", "try", "failed"} : Become(i, v)
      BY <2>1, Retrying DEF EngineInv
    <3>2. work'[i] \in {"cancelled", "try", "failed"}
      BY <3>1 DEF Become, EngineInv, EngineTypeOK
    <3> QED
      BY <2>1, <3>2, Retrying DEF EngineInv
  <2>2. CASE UNCHANGED attempt
    <3>1. attempt' \in [Indexes -> 0 .. MaxAttempts - 1]
      BY <2>2 DEF EngineInv, EngineTypeOK
    <3>2. CASE /\ ~Cancelled(i) /\ Remaining(segs[i]) > 0 /\ Become(i, "stream")
               /\ until' = [until EXCEPT ![i] = RangeEnd(i)] /\ size' = Total
      BY <3>1, <3>2 DEF Become, EngineInv, EngineTypeOK, RangeEnd
    <3>3. CASE /\ Become(i, "cancelled") \/ (Become(i, "ok") /\ Remaining(segs[i]) = 0)
                    \/ Become(i, "unreliable") \/ Become(i, "failed")
               /\ UNCHANGED <<size, until>>
      BY <3>1, <3>3 DEF Become, EngineInv, EngineTypeOK
    <3>4. CASE RetryOrGiveUp(i) /\ UNCHANGED <<size, until>>
      BY <2>1, <3>4
    <3> QED
      BY <3>2, <3>3, <3>4 DEF Request
  <2> QED
    BY <2>1, <2>2 DEF Request
<1>6. /\ work' \in [Indexes -> Doings] /\ work'[i] = w /\ Busy' = Busy
      /\ \A j \in Indexes \ {i} : work'[j] = work[j]
  BY <1>1, <1>4, Becoming DEF EngineInv, Doings, Outcomes
<1>7. /\ size' = Total
      /\ until' \in [Indexes -> -1 .. Total - 1] /\ \A j \in Indexes \ {i} : until'[j] = until[j]
      /\ Writing(i)' => until'[i] = segs'[i].end
  <2>1. size = Total /\ until \in [Indexes -> -1 .. Total - 1]
    BY <1>1 DEF EngineInv, Outcome, EngineTypeOK
  <2>2. segs[i].end \in -1 .. Total - 1
    BY <1>2, PlanFacts, EngineAssumption
  <2>3. Writing(i)' => work'[i] = "stream"
    BY <1>6 DEF Writing
  <2> QED
    BY <1>3, <1>5, <2>1, <2>2, <2>3
<1>8. Pool'
  BY <1>3, <1>6, KeepPool DEF EngineInv, coordVars
<1>9. Plans'
  BY <1>1, <1>2, <1>3, <1>6, KeepPlans DEF coordVars
<1>10. Outcome'
  BY <1>1, <1>3, <1>5, <1>6, <1>7, KeepOutcome DEF poolVars, coordVars
<1>11. EngineTypeOK'
  <2>1. size' \in -1 .. Total
    BY <1>7, EngineAssumption
  <2>2. durable' \subseteq good' /\ good' \subseteq Bytes /\ snap' \in [Indexes -> Seq(Segment)]
    BY <1>3 DEF EngineInv, EngineTypeOK
  <2> QED
    BY <1>1, <1>2, <1>3, <1>5, <1>6, <1>7, <2>1, <2>2, KeepTypes
<1>12. Length'
  BY <1>1, <1>3, <1>7 DEF EngineInv, Length, EngineAssumption
<1> QED
  BY <1>1, <1>3, <1>8, <1>9, <1>10, <1>11, <1>12 DEF EngineInv, EngineStepOK

LEMMA WriteByteStep ==
  ASSUME EngineInv, NEW i \in Indexes, WriteByte(i)
  PROVE  EngineStepOK
<1>1. i \in Busy /\ work[i] = "stream"
  BY DEF WriteByte, Busy
<1>2. /\ i \in 1 .. Len(segs) /\ Plan(segs) /\ Plan(base) /\ Plan(told)
      /\ at \in {"ranges", "whole"} /\ (at = "whole" => i = 1)
  BY <1>1, BusyWhere
<1>3. /\ UNCHANGED <<at, base, told, size, final, poolVars, coordVars, stopped, attempt, until>>
      /\ segs' = Advance(segs, i) /\ good' = good \cup {segs[i].cur}
      /\ segs[i].cur <= Least(until[i], segs[i].end)
      /\ durable' = durable \/ durable' = good'
  BY DEF WriteByte, Sync
<1>4. segs[i].cur <= segs[i].end
  <2>1. segs[i].cur \in Int /\ segs[i].end \in Int
    BY <1>2, PlanFacts
  <2>2. until[i] \in Int
    BY EngineAssumption DEF EngineInv, EngineTypeOK
  <2> QED
    BY <1>3, <2>1, <2>2 DEF Least
<1>5. /\ Plan(segs') /\ Len(segs') = Len(segs)
      /\ \A j \in 1 .. Len(segs) \ {i} : segs'[j] = segs[j]
      /\ segs'[i].end = segs[i].end
      /\ segs[i].cur \in Bytes
  BY <1>2, <1>3, <1>4, AdvanceKeepsValid, AdvanceParts, ClaimedAdvance, EngineAssumption DEF Plan, Bytes
<1>6. \E w \in {"stream", "deliver"} :
        /\ Become(i, w)
        /\ w = "stream" => snap' = snap
        /\ w = "deliver" => snap' = [snap EXCEPT ![i] = segs']
  BY <1>1 DEF WriteByte, Become, EngineInv, EngineTypeOK
<1>7. PICK w \in {"stream", "deliver"} :
        /\ Become(i, w)
        /\ w = "stream" => snap' = snap
        /\ w = "deliver" => snap' = [snap EXCEPT ![i] = segs']
  BY <1>6
<1>8. /\ work' \in [Indexes -> Doings] /\ work'[i] = w /\ Busy' = Busy
      /\ \A j \in Indexes \ {i} : work'[j] = work[j]
  BY <1>1, <1>7, Becoming DEF EngineInv, Doings
<1>9. /\ snap' \in [Indexes -> Seq(Segment)]
      /\ \A j \in Indexes \ {i} : snap'[j] = snap[j]
      /\ work'[i] = "deliver" => snap'[i] = segs'
  BY <1>5, <1>7, <1>8 DEF EngineInv, EngineTypeOK, Plan
<1>10. Pool'
  BY <1>3, <1>5, <1>8, KeepPool DEF EngineInv, coordVars
<1>11. Plans'
  BY <1>1, <1>3, <1>5, <1>8, <1>9, KeepPlans DEF coordVars
<1>12. Outcome'
  <2>1. size' = Total
    BY <1>1, <1>2, <1>3 DEF EngineInv, Outcome, Writing
  <2>2. at = "ranges" => until'[i] = segs'[i].end
    BY <1>1, <1>3, <1>5 DEF EngineInv, Outcome, Writing
  <2>3. at = "whole" => until'[i] = Total - 1
    BY <1>1, <1>2, <1>3 DEF EngineInv, Outcome, Writing
  <2>4. work'[i] # "ok"
    BY <1>8
  <2> QED
    BY <1>1, <1>3, <1>5, <1>8, <2>1, <2>2, <2>3, <2>4, KeepOutcome DEF poolVars, coordVars
<1>13. EngineTypeOK'
  <2>1. /\ size' \in -1 .. Total /\ durable' \subseteq good' /\ good' \subseteq Bytes
        /\ attempt' \in [Indexes -> 0 .. MaxAttempts - 1]
        /\ until' \in [Indexes -> -1 .. Total - 1]
    BY <1>3, <1>5 DEF EngineInv, EngineTypeOK
  <2> QED
    BY <1>1, <1>2, <1>3, <1>5, <1>8, <1>9, <2>1, KeepTypes
<1>14. Length'
  BY <1>1, <1>2, <1>3 DEF EngineInv, Length, Outcome, Writing
<1> QED
  BY <1>2, <1>3, <1>10, <1>11, <1>12, <1>13, <1>14 DEF EngineInv, EngineStepOK

LEMMA DeliverStep ==
  ASSUME EngineInv, NEW i \in Indexes, Deliver(i)
  PROVE  EngineStepOK /\ Plan(told')
<1>1. i \in Busy /\ work[i] = "deliver"
  BY DEF Deliver, Busy
<1>2. /\ i \in 1 .. Len(segs) /\ Plan(segs) /\ Plan(base) /\ Plan(told)
      /\ at \in {"ranges", "whole"} /\ (at = "whole" => i = 1)
  BY <1>1, BusyWhere
<1>3. /\ UNCHANGED <<at, segs, base, fileVars, final, poolVars, coordVars, stopped, attempt, until>>
      /\ told' = snap[i] /\ snap' = [snap EXCEPT ![i] = <<>>] /\ Become(i, "stream")
  BY DEF Deliver
<1>4. Plan(told')
  BY <1>1, <1>3 DEF EngineInv, Plans
<1>5. /\ work' \in [Indexes -> Doings] /\ work'[i] = "stream" /\ Busy' = Busy
      /\ \A j \in Indexes \ {i} : work'[j] = work[j]
  BY <1>1, <1>3, Becoming DEF EngineInv, Doings
<1>6. snap' \in [Indexes -> Seq(Segment)] /\ \A j \in Indexes \ {i} : snap'[j] = snap[j]
  BY <1>3 DEF EngineInv, EngineTypeOK
<1>7. Pool'
  BY <1>3, <1>5, KeepPool DEF EngineInv, coordVars
<1>8. Plans'
  BY <1>1, <1>2, <1>3, <1>4, <1>5, <1>6, KeepPlans DEF coordVars
<1>9. size = Total /\ size' = Total
  BY <1>1, <1>2, <1>3 DEF EngineInv, Outcome, Writing, fileVars
<1>10. Outcome'
  <2>1. CASE at = "ranges"
    <3>1. \A j \in Indexes : Writing(j)' => Writing(j)
      BY <1>1, <1>5 DEF Writing
    <3>2. \A j \in Indexes : work'[j] = "ok" => work[j] = "ok"
      BY <1>5
    <3> QED
      BY <1>3, <1>9, <2>1, <3>1, <3>2
      DEF EngineInv, Outcome, NothingForgotten, FinalReportIsLast, poolVars, coordVars, Members
  <2>2. CASE at = "whole"
    BY <1>1, <1>2, <1>3, <1>5, <1>9, <2>2
    DEF EngineInv, Outcome, NothingForgotten, FinalReportIsLast, Writing
  <2> QED
    BY <1>2, <2>1, <2>2
<1>11. EngineTypeOK'
  <2>1. /\ size' \in -1 .. Total /\ durable' \subseteq good' /\ good' \subseteq Bytes
        /\ attempt' \in [Indexes -> 0 .. MaxAttempts - 1]
        /\ until' \in [Indexes -> -1 .. Total - 1]
    BY <1>3 DEF EngineInv, EngineTypeOK, fileVars
  <2> QED
    BY <1>1, <1>2, <1>3, <1>4, <1>5, <1>6, <2>1, KeepTypes
<1>12. Length'
  BY <1>2, <1>3, <1>9 DEF EngineInv, Length, fileVars
<1> QED
  BY <1>2, <1>3, <1>4, <1>7, <1>8, <1>10, <1>11, <1>12 DEF EngineInv, EngineStepOK

LEMMA EndOfBodyStep ==
  ASSUME EngineInv, NEW i \in Indexes, EndOfBody(i)
  PROVE  EngineStepOK
<1>1. i \in Busy /\ work[i] = "stream"
  BY DEF EndOfBody, Busy
<1>2. /\ i \in 1 .. Len(segs) /\ Plan(segs) /\ Plan(base) /\ Plan(told)
      /\ at \in {"ranges", "whole"} /\ (at = "whole" => i = 1)
  BY <1>1, BusyWhere
<1>3. UNCHANGED <<at, segs, base, told, fileVars, final, poolVars, coordVars, stopped, until, snap>>
  BY DEF EndOfBody
<1>4. \E w \in {"ok", "cancelled", "try", "failed"} :
        Become(i, w) /\ (w = "ok" => segs[i].cur = until[i] + 1)
  BY Retrying DEF EndOfBody, EngineInv
<1>5. PICK w \in {"ok", "cancelled", "try", "failed"} :
        Become(i, w) /\ (w = "ok" => segs[i].cur = until[i] + 1)
  BY <1>4
<1>6. attempt' \in [Indexes -> 0 .. MaxAttempts - 1]
  BY Retrying DEF EndOfBody, EngineInv, EngineTypeOK
<1>7. /\ work' \in [Indexes -> Doings] /\ work'[i] = w /\ Busy' = Busy
      /\ \A j \in Indexes \ {i} : work'[j] = work[j]
  BY <1>1, <1>5, Becoming DEF EngineInv, Doings, Outcomes
<1>8. size = Total /\ size' = Total
  BY <1>1, <1>2, <1>3 DEF EngineInv, Outcome, Writing, fileVars
<1>9. at = "ranges" /\ work'[i] = "ok" => Remaining(segs'[i]) = 0
  <2>1. segs[i].end \in Int /\ segs[i].cur \in Int
    BY <1>2, PlanFacts
  <2>2. at = "ranges" => until[i] = segs[i].end
    BY <1>1 DEF EngineInv, Outcome, Writing
  <2>3. \A e, c \in Int : c = e + 1 => e - c + 1 = 0
    OBVIOUS
  <2> QED
    BY <1>3, <1>5, <1>7, <2>1, <2>2, <2>3 DEF Remaining
<1>10. at = "whole" /\ work'[i] = "ok" => segs'[i].cur = Total
  <2>1. at = "whole" => until[i] = Total - 1
    BY <1>1, <1>2 DEF EngineInv, Outcome, Writing
  <2> QED
    BY <1>3, <1>5, <1>7, <2>1, EngineAssumption
<1>11. Pool'
  BY <1>3, <1>7, KeepPool DEF EngineInv, coordVars
<1>12. Plans'
  BY <1>1, <1>2, <1>3, <1>5, <1>7, KeepPlans DEF coordVars
<1>13. Outcome'
  <2>1. ~Writing(i)'
    BY <1>7 DEF Writing
  <2> QED
    BY <1>1, <1>3, <1>7, <1>8, <1>9, <1>10, <2>1, KeepOutcome DEF poolVars, coordVars
<1>14. EngineTypeOK'
  <2>1. /\ size' \in -1 .. Total /\ durable' \subseteq good' /\ good' \subseteq Bytes
        /\ until' \in [Indexes -> -1 .. Total - 1] /\ snap' \in [Indexes -> Seq(Segment)]
    BY <1>3 DEF EngineInv, EngineTypeOK, fileVars
  <2> QED
    BY <1>1, <1>2, <1>3, <1>6, <1>7, <2>1, KeepTypes
<1>15. Length'
  BY <1>2, <1>3, <1>8 DEF EngineInv, Length, fileVars
<1> QED
  BY <1>2, <1>3, <1>11, <1>12, <1>13, <1>14, <1>15 DEF EngineInv, EngineStepOK

LEMMA RequestWholeStep ==
  ASSUME EngineInv, RequestWhole
  PROVE  EngineStepOK
<1>1. 1 \in Busy /\ work[1] = "try" /\ at = "whole" /\ 1 \in Indexes
  BY EngineAssumption DEF RequestWhole, Busy, Indexes
<1>2. 1 \in 1 .. Len(segs) /\ Plan(segs) /\ Plan(base) /\ Plan(told)
  BY <1>1, BusyWhere
<1>3. UNCHANGED <<at, base, told, final, poolVars, coordVars, stopped, snap>>
  BY DEF RequestWhole
<1>4. \/ UNCHANGED <<segs, fileVars, attempt, until>> /\ Become(1, "cancelled")
      \/ /\ size' = Total /\ good' = {} /\ durable' = {}
         /\ segs' = [segs EXCEPT ![1].cur = segs[1].start]
         /\ \/ Become(1, "stream") /\ until' = [until EXCEPT ![1] = Total - 1] /\ UNCHANGED attempt
            \/ Become(1, "failed") /\ UNCHANGED <<attempt, until>>
            \/ RetryOrGiveUp(1) /\ UNCHANGED until
  BY DEF RequestWhole
<1>5. \E w \in {"stream", "cancelled", "try", "failed"} :
        /\ Become(1, w)
        /\ w = "stream" => until' = [until EXCEPT ![1] = Total - 1] /\ size' = Total
        /\ w # "stream" => until' = until
  BY <1>1, <1>4, Retrying DEF EngineInv
<1>6. PICK w \in {"stream", "cancelled", "try", "failed"} :
        /\ Become(1, w)
        /\ w = "stream" => until' = [until EXCEPT ![1] = Total - 1] /\ size' = Total
        /\ w # "stream" => until' = until
  BY <1>5
<1>7. attempt' \in [Indexes -> 0 .. MaxAttempts - 1]
  BY <1>1, <1>4, Retrying DEF EngineInv, EngineTypeOK
<1>8. /\ work' \in [Indexes -> Doings] /\ work'[1] = w /\ Busy' = Busy
      /\ \A j \in Indexes \ {1} : work'[j] = work[j]
  BY <1>1, <1>6, Becoming DEF EngineInv, Doings, Outcomes
<1>9. /\ until' \in [Indexes -> -1 .. Total - 1]
      /\ \A j \in Indexes \ {1} : until'[j] = until[j]
      /\ w = "stream" => until'[1] = Total - 1
  <2>1. until \in [Indexes -> -1 .. Total - 1] /\ Total - 1 \in -1 .. Total - 1
    BY EngineAssumption DEF EngineInv, EngineTypeOK
  <2>2. CASE w = "stream"
    BY <1>1, <1>6, <2>1, <2>2
  <2>3. CASE w # "stream"
    BY <1>6, <2>1, <2>3
  <2> QED
    BY <2>2, <2>3
<1>10. /\ Plan(segs') /\ Len(segs') = Len(segs)
       /\ \A j \in 1 .. Len(segs) \ {1} : segs'[j] = segs[j]
  <2>1. CASE segs' = segs
    BY <1>2, <2>1
  <2>2. CASE segs' = [segs EXCEPT ![1].cur = segs[1].start]
    <3>1. segs \in Seq(Segment) /\ ValidSegments(segs, Total) /\ Total \in Nat \ {0}
      BY <1>2, EngineAssumption DEF Plan
    <3>2. Plan(segs') /\ Len(segs') = Len(segs)
      <4>1. \A t : t = [segs EXCEPT ![1].cur = segs[1].start] =>
              t \in Seq(Segment) /\ ValidSegments(t, Total) /\ Len(t) = Len(segs)
        BY <3>1, FromTheStart, Zenon
      <4>2. segs' \in Seq(Segment) /\ ValidSegments(segs', Total) /\ Len(segs') = Len(segs)
        BY <2>2, <4>1, Zenon
      <4> QED
        BY <4>2 DEF Plan
    <3>3. \A j \in 1 .. Len(segs) \ {1} : segs'[j] = segs[j]
      BY <2>2, <3>1
    <3> QED
      BY <3>2, <3>3
  <2> QED
    BY <1>4, <2>1, <2>2
<1>11. Pool'
  BY <1>3, <1>8, <1>10, KeepPool DEF EngineInv, coordVars
<1>12. Plans'
  BY <1>1, <1>3, <1>8, <1>10, KeepPlans DEF coordVars
<1>13. Outcome'
  <2>1. work'[1] # "ok" /\ (Writing(1)' => w = "stream")
    BY <1>8 DEF Writing
  <2> QED
    BY <1>1, <1>3, <1>6, <1>8, <1>9, <1>10, <2>1, KeepOutcome DEF poolVars, coordVars
<1>14. \/ size' = size /\ good' = good /\ durable' = durable
       \/ size' = Total /\ good' = {} /\ durable' = {}
  BY <1>4, Zenon DEF fileVars
<1>15. EngineTypeOK'
  <2>1. /\ size' \in -1 .. Total /\ durable' \subseteq good' /\ good' \subseteq Bytes
        /\ snap' \in [Indexes -> Seq(Segment)]
    BY <1>3, <1>14, EngineAssumption DEF EngineInv, EngineTypeOK
  <2> QED
    BY <1>1, <1>2, <1>3, <1>7, <1>8, <1>9, <1>10, <2>1, KeepTypes
<1>16. Length'
  BY <1>1, <1>3, <1>14, EngineAssumption DEF EngineInv, Length
<1> QED
  BY <1>1, <1>3, <1>11, <1>12, <1>13, <1>15, <1>16 DEF EngineInv, EngineStepOK

\* A worker hands in its segment.
LEMMA SendResultStep ==
  ASSUME EngineInv, NEW i \in Indexes, SendResult(i)
  PROVE  EngineStepOK
<1>1. /\ i \in Busy /\ work[i] \in Outcomes /\ at = "ranges"
      /\ ~Writing(i)
  BY DEF SendResult, Busy, Outcomes, Writing
<1>2. /\ i \in 1 .. Len(segs) /\ Plan(segs) /\ i \in active /\ i \notin Reported
  BY <1>1, BusyWhere
<1>3. /\ UNCHANGED <<at, segs, base, told, fileVars, final, width, toStart, jobs, coordVars,
                 stopped, attempt, until, snap>>
      /\ Len(results) < 2 * width /\ results' = Append(results, <<i, work[i]>>)
      /\ Become(i, "idle")
  BY DEF SendResult
<1>4. /\ work' \in [Indexes -> Doings] /\ work'[i] = "idle" /\ Busy' = Busy \ {i}
      /\ \A j \in Indexes \ {i} : work'[j] = work[j]
  BY <1>3, Becoming DEF EngineInv, Doings
<1>5. results \in Seq(Indexes \X Outcomes) /\ <<i, work[i]>> \in Indexes \X Outcomes
  BY <1>1 DEF EngineInv, EngineTypeOK
<1>6. /\ results' \in Seq(Indexes \X Outcomes) /\ Len(results') = Len(results) + 1
      /\ \A k \in 1 .. Len(results) : results'[k] = results[k]
      /\ results'[Len(results) + 1] = <<i, work[i]>> /\ Len(results) \in Nat
  BY <1>3, <1>5
<1>7. \A k : k \in 1 .. Len(results') <=> k \in 1 .. Len(results) \/ k = Len(results) + 1
  BY <1>6
<1>8. Reported' = Reported \cup {i}
  BY <1>6, <1>7 DEF Reported
<1>9. \A j, k \in 1 .. Len(results') : results'[j][1] = results'[k][1] => j = k
  <2>1. \A k \in 1 .. Len(results) : results[k][1] # i
    BY <1>2 DEF Reported
  <2>2. \A j, k \in 1 .. Len(results) : results[j][1] = results[k][1] => j = k
    BY <1>1 DEF EngineInv, Pool, OnePlace
  <2> QED
    BY <1>6, <1>7, <2>1, <2>2
<1>10. Members(toStart)' = Members(toStart) /\ Members(jobs)' = Members(jobs)
  BY <1>3 DEF Members
<1>11. Pool'
  <2>1. OnePlace'
    <3>1. Distinct(toStart)' /\ Distinct(jobs)'
      BY <1>1, <1>3 DEF Distinct, EngineInv, Pool, OnePlace
    <3> QED
      BY <1>1, <1>2, <1>3, <1>4, <1>8, <1>9, <1>10, <3>1 DEF EngineInv, Pool, OnePlace, coordVars
  <2> QED
    BY <1>1, <1>3, <2>1 DEF EngineInv, Pool, coordVars
<1>12. Plans'
  BY <1>1, <1>2, <1>3, <1>4, KeepPlans DEF EngineInv, Plans, coordVars
<1>13. Outcome'
  <2>1. ASSUME NEW j \in Indexes
        PROVE  /\ Writing(j)' => until'[j] = segs'[j].end
               /\ work'[j] = "ok" => Remaining(segs'[j]) = 0
    <3>1. (Writing(j)' => Writing(j)) /\ (work'[j] = "ok" => work[j] = "ok")
      BY <1>4 DEF Writing
    <3> QED
      BY <1>1, <1>3, <3>1 DEF EngineInv, Outcome
  <2>2. ASSUME NEW k \in 1 .. Len(results'), results'[k][2] = "ok"
        PROVE  Remaining(segs'[results'[k][1]]) = 0
    <3>1. CASE k \in 1 .. Len(results)
      BY <1>1, <1>3, <1>6, <2>2, <3>1 DEF EngineInv, Outcome
    <3>2. CASE k = Len(results) + 1
      BY <1>1, <1>3, <1>6, <2>2, <3>2 DEF EngineInv, Outcome
    <3> QED
      BY <1>7, <3>1, <3>2
  <2> QED
    BY <1>1, <1>3, <1>10, <2>1, <2>2
    DEF EngineInv, Outcome, NothingForgotten, FinalReportIsLast, fileVars, coordVars
<1>14. EngineTypeOK'
  <2>1. Cardinality(Busy') <= width'
    <3>1. Cardinality(Busy \ {i}) <= Cardinality(Busy) /\ Cardinality(Busy \ {i}) \in Nat
      BY BusyFinite, FS_Subset, FS_CardinalityType
    <3>2. Cardinality(Busy) <= width /\ width' = width /\ width \in Nat
      BY <1>3 DEF EngineInv, EngineTypeOK
    <3> QED
      BY <1>4, <3>1, <3>2, BusyFinite
  <2>2. Len(results') <= 2 * width'
    BY <1>3, <1>6 DEF EngineInv, EngineTypeOK
  <2> QED
    BY <1>3, <1>4, <1>6, <2>1, <2>2 DEF EngineInv, EngineTypeOK, Doings, fileVars, coordVars
<1>15. Length'
  BY <1>1, <1>3 DEF EngineInv, Length, fileVars
<1> QED
  BY <1>1, <1>3, <1>11, <1>12, <1>13, <1>14, <1>15 DEF EngineInv, EngineStepOK

LEMMA TakeStep ==
  ASSUME EngineInv, Take
  PROVE  EngineStepOK
<1> DEFINE i == Head(jobs)
<1>1. /\ jobs # <<>> /\ Cardinality(Busy) < width /\ Become(i, "try")
      /\ attempt' = [attempt EXCEPT ![i] = 0] /\ jobs' = Tail(jobs)
      /\ UNCHANGED <<at, segs, base, told, fileVars, final, width, toStart, results,
                 coordVars, stopped, until, snap>>
  BY DEF Take
<1>2. at = "ranges"
  BY <1>1 DEF EngineInv, Pool, Quiet
<1>3. jobs \in Seq(Indexes)
  BY DEF EngineInv, EngineTypeOK
<1>4. /\ jobs' \in Seq(Indexes) /\ Len(jobs') = Len(jobs) - 1 /\ i \in Indexes
      /\ Members(jobs) = Members(jobs') \cup {i}
      /\ Distinct(jobs) => Distinct(jobs') /\ i \notin Members(jobs')
  BY <1>1, <1>3, Received
<1> HIDE DEF i
<1>5. /\ work' \in [Indexes -> Doings] /\ work'[i] = "try" /\ Busy' = Busy \cup {i}
      /\ \A j \in Indexes \ {i} : work'[j] = work[j]
  BY <1>1, <1>4, Becoming DEF EngineInv, Doings
<1>6. Distinct(jobs) /\ OnePlace
  BY <1>2 DEF EngineInv, Pool, OnePlace
<1>7. /\ Members(jobs)' = Members(jobs') /\ Members(toStart)' = Members(toStart)
      /\ Reported' = Reported /\ Distinct(jobs)' /\ Distinct(toStart)'
  BY <1>1, <1>4, <1>6 DEF Members, Reported, Distinct, OnePlace
<1>8. Pool'
  <2>1. OnePlace'
    BY <1>1, <1>4, <1>5, <1>6, <1>7 DEF OnePlace, coordVars
  <2> QED
    BY <1>1, <1>2, <2>1 DEF EngineInv, Pool, coordVars
<1>9. Plans'
  <2>1. \A j \in Indexes : work'[j] = "deliver" => work[j] = "deliver"
    BY <1>5
  <2> QED
    BY <1>1, <2>1 DEF EngineInv, Plans, coordVars
<1>10. Outcome'
  <2>1. \A j \in Indexes : (Writing(j)' => Writing(j)) /\ (work'[j] = "ok" => work[j] = "ok")
    BY <1>5 DEF Writing
  <2> QED
    BY <1>1, <1>2, <1>7, <2>1
    DEF EngineInv, Outcome, NothingForgotten, FinalReportIsLast, fileVars, coordVars
<1>11. EngineTypeOK'
  <2>1. Cardinality(Busy') <= width'
    <3>1. Cardinality(Busy \cup {i}) <= Cardinality(Busy) + 1 /\ Cardinality(Busy \cup {i}) \in Nat
      BY BusyFinite, FS_AddElement
    <3>2. width' = width /\ width \in Nat
      BY <1>1 DEF EngineInv, EngineTypeOK
    <3> QED
      BY <1>1, <1>5, <3>1, <3>2, BusyFinite
  <2>2. Len(jobs') <= width'
    BY <1>1, <1>3, <1>4 DEF EngineInv, EngineTypeOK
  <2>3. attempt' \in [Indexes -> 0 .. MaxAttempts - 1]
    <3>1. attempt \in [Indexes -> 0 .. MaxAttempts - 1] /\ 0 \in 0 .. MaxAttempts - 1
      BY EngineAssumption DEF EngineInv, EngineTypeOK
    <3> QED
      BY <1>1, <3>1
  <2> QED
    BY <1>1, <1>4, <1>5, <2>1, <2>2, <2>3 DEF EngineInv, EngineTypeOK, Doings, fileVars, coordVars
<1>12. Length'
  BY <1>1, <1>2 DEF EngineInv, Length, fileVars
<1> QED
  BY <1>1, <1>2, <1>8, <1>9, <1>10, <1>11, <1>12 DEF EngineInv, EngineStepOK

(***************************************************************************)
(* The steps of the coordinator.                                           *)
(***************************************************************************)
LEMMA LaunchStep ==
  ASSUME EngineInv, Launch
  PROVE  EngineStepOK
<1> DEFINE i == Head(toStart)
<1>1. /\ at = "ranges" /\ toStart # <<>> /\ splitSnap = <<>> /\ Len(jobs) < width
      /\ jobs' = Append(jobs, i) /\ toStart' = Tail(toStart) /\ active' = active \cup {i}
      /\ UNCHANGED <<at, segs, base, told, fileVars, final, width, results, cancelled, splitting,
                 failure, splitSnap, stopped, workVars>>
  BY DEF Launch
<1>2. jobs \in Seq(Indexes) /\ toStart \in Seq(Indexes)
  BY DEF EngineInv, EngineTypeOK
<1>3. /\ toStart' \in Seq(Indexes) /\ i \in Indexes
      /\ Members(toStart) = Members(toStart') \cup {i}
      /\ Distinct(toStart) => Distinct(toStart') /\ i \notin Members(toStart')
  BY <1>1, <1>2, Received
<1> HIDE DEF i
<1>4. /\ jobs' \in Seq(Indexes) /\ Len(jobs') = Len(jobs) + 1
      /\ Members(jobs') = Members(jobs) \cup {i}
      /\ Distinct(jobs) /\ i \notin Members(jobs) => Distinct(jobs')
  BY <1>1, <1>2, <1>3, Sent
<1>5. OnePlace
  BY <1>1 DEF EngineInv, Pool
<1>6. i \notin active /\ i \notin Members(jobs)
  BY <1>3, <1>5 DEF OnePlace
<1>7. /\ Members(jobs)' = Members(jobs') /\ Members(toStart)' = Members(toStart')
      /\ Reported' = Reported /\ Distinct(jobs)' /\ Distinct(toStart)' /\ Busy' = Busy
  BY <1>1, <1>3, <1>4, <1>5, <1>6 DEF Members, Reported, Distinct, OnePlace, Busy, workVars
<1>8. Pool'
  <2>1. OnePlace'
    BY <1>1, <1>3, <1>4, <1>5, <1>6, <1>7 DEF OnePlace
  <2> QED
    BY <1>1, <2>1 DEF EngineInv, Pool
<1>9. Plans'
  BY <1>1 DEF EngineInv, Plans, workVars
<1>10. Outcome'
  <2>1. active' \cup Members(toStart)' = active \cup Members(toStart)
    BY <1>1, <1>3, <1>7
  <2> QED
    BY <1>1, <2>1
    DEF EngineInv, Outcome, Writing, NothingForgotten, FinalReportIsLast, fileVars, workVars
<1>11. EngineTypeOK'
  <2>1. Cardinality(Busy') <= width' /\ Len(jobs') <= width'
    BY <1>1, <1>4, <1>7 DEF EngineInv, EngineTypeOK
  <2> QED
    BY <1>1, <1>3, <1>4, <2>1 DEF EngineInv, EngineTypeOK, fileVars, workVars
<1>12. Length'
  BY <1>1 DEF EngineInv, Length, fileVars
<1> QED
  BY <1>1, <1>8, <1>9, <1>10, <1>11, <1>12 DEF EngineInv, EngineStepOK

LEMMA PassOnStopStep ==
  ASSUME EngineInv, PassOnStop
  PROVE  EngineStepOK
<1>1. /\ at = "ranges" /\ cancelled' = active
      /\ failure' = IF failure = "ok" THEN "cancelled" ELSE failure
      /\ UNCHANGED <<at, segs, base, told, fileVars, final, poolVars, active, splitting, splitSnap,
                 stopped, workVars>>
  BY DEF PassOnStop, Looping
<1>2. /\ UNCHANGED <<toStart, jobs, results, width>>
      /\ UNCHANGED <<work, attempt, until, snap>>
      /\ UNCHANGED <<size, good, durable>>
  BY <1>1 DEF poolVars, workVars, fileVars
<1>3. /\ Members(jobs)' = Members(jobs) /\ Members(toStart)' = Members(toStart)
      /\ Reported' = Reported /\ Busy' = Busy
      /\ Distinct(jobs)' = Distinct(jobs) /\ Distinct(toStart)' = Distinct(toStart)
  BY <1>2 DEF Members, Reported, Busy, Distinct
<1>4. Pool'
  BY <1>1, <1>2, <1>3 DEF EngineInv, Pool, OnePlace
<1>5. Plans'
  BY <1>1, <1>2 DEF EngineInv, Plans
<1>6. Outcome'
  BY <1>1, <1>2, <1>3 DEF EngineInv, Outcome, Writing, NothingForgotten, FinalReportIsLast
<1>7. EngineTypeOK'
  <2>1. Cardinality(Busy') <= width' /\ failure' \in Outcomes
    BY <1>1, <1>2, <1>3 DEF EngineInv, EngineTypeOK, Outcomes
  <2> QED
    BY <1>1, <1>2, <2>1 DEF EngineInv, EngineTypeOK
<1>8. Length'
  BY <1>1, <1>2 DEF EngineInv, Length
<1> QED
  BY <1>1, <1>4, <1>5, <1>6, <1>7, <1>8 DEF EngineInv, EngineStepOK

LEMMA RequestSplitStep ==
  ASSUME EngineInv, RequestSplit
  PROVE  EngineStepOK
<1>1. /\ at = "ranges" /\ Len(segs) \in active
      /\ splitting' = splitting \cup {Len(segs)} /\ cancelled' = cancelled \cup {Len(segs)}
      /\ UNCHANGED <<at, segs, base, told, fileVars, final, poolVars, active, failure, splitSnap,
                 stopped, workVars>>
  BY DEF RequestSplit, Looping
<1>2. /\ UNCHANGED <<toStart, jobs, results, width>>
      /\ UNCHANGED <<work, attempt, until, snap>>
      /\ UNCHANGED <<size, good, durable>>
  BY <1>1 DEF poolVars, workVars, fileVars
<1>3. /\ Members(jobs)' = Members(jobs) /\ Members(toStart)' = Members(toStart)
      /\ Reported' = Reported /\ Busy' = Busy
      /\ Distinct(jobs)' = Distinct(jobs) /\ Distinct(toStart)' = Distinct(toStart)
  BY <1>2 DEF Members, Reported, Busy, Distinct
<1>4. Pool'
  BY <1>1, <1>2, <1>3 DEF EngineInv, Pool, OnePlace
<1>5. Plans'
  BY <1>1, <1>2 DEF EngineInv, Plans
<1>6. Outcome'
  BY <1>1, <1>2, <1>3 DEF EngineInv, Outcome, Writing, NothingForgotten, FinalReportIsLast
<1>7. EngineTypeOK'
  <2>1. Cardinality(Busy') <= width' /\ cancelled' \subseteq active' /\ splitting' \subseteq Indexes
    BY <1>1, <1>2, <1>3 DEF EngineInv, EngineTypeOK
  <2> QED
    BY <1>1, <1>2, <2>1 DEF EngineInv, EngineTypeOK
<1>8. Length'
  BY <1>1, <1>2 DEF EngineInv, Length
<1> QED
  BY <1>1, <1>4, <1>5, <1>6, <1>7, <1>8 DEF EngineInv, EngineStepOK

LEMMA DeliverSplitStep ==
  ASSUME EngineInv, DeliverSplit
  PROVE  EngineStepOK /\ Plan(told')
<1>1. /\ splitSnap # <<>> /\ told' = splitSnap /\ splitSnap' = <<>>
      /\ UNCHANGED <<at, segs, base, fileVars, final, poolVars, active, cancelled, splitting,
                 failure, stopped, workVars>>
  BY DEF DeliverSplit
<1>2. at = "ranges" /\ Plan(told')
  BY <1>1 DEF EngineInv, Pool, Quiet, Plans
<1>3. /\ UNCHANGED <<toStart, jobs, results, width>>
      /\ UNCHANGED <<work, attempt, until, snap>>
      /\ UNCHANGED <<size, good, durable>>
  BY <1>1 DEF poolVars, workVars, fileVars
<1>4. /\ Members(jobs)' = Members(jobs) /\ Members(toStart)' = Members(toStart)
      /\ Reported' = Reported /\ Busy' = Busy
      /\ Distinct(jobs)' = Distinct(jobs) /\ Distinct(toStart)' = Distinct(toStart)
  BY <1>3 DEF Members, Reported, Busy, Distinct
<1>5. Pool'
  BY <1>1, <1>2, <1>3, <1>4 DEF EngineInv, Pool, OnePlace
<1>6. Plans'
  BY <1>1, <1>2, <1>3 DEF EngineInv, Plans
<1>7. Outcome'
  BY <1>1, <1>2, <1>3, <1>4 DEF EngineInv, Outcome, Writing, NothingForgotten, FinalReportIsLast
<1>8. EngineTypeOK'
  <2>1. /\ Cardinality(Busy') <= width' /\ told' \in Seq(Segment)
        /\ <<>> \in Seq(Segment)
    BY <1>1, <1>2, <1>3, <1>4 DEF EngineInv, EngineTypeOK, Plan
  <2> QED
    BY <1>1, <1>3, <2>1 DEF EngineInv, EngineTypeOK
<1>9. Length'
  BY <1>1, <1>3 DEF EngineInv, Length
<1> QED
  BY <1>1, <1>2, <1>5, <1>6, <1>7, <1>8, <1>9 DEF EngineInv, EngineStepOK

\* What a collected segment leaves behind, whether it is settled, started again, or
\* started again with its tail as a segment of its own.
LEMMA Collected ==
  ASSUME EngineInv, Collect, NEW i, i = results[1][1]
  PROVE  /\ i \in active /\ active' = active \ {i}
         /\ Plan(segs') /\ (\A j \in active' : segs'[j] = segs[j] /\ j \in 1 .. Len(segs'))
         /\ toStart' \in Seq(Indexes) /\ Distinct(toStart')
         /\ Members(toStart') \cap active' = {} /\ Members(toStart') \subseteq 1 .. Len(segs')
         /\ failure' = "ok" => \A j \in 1 .. Len(segs') :
                                j \in active' \cup Members(toStart') \/ Remaining(segs'[j]) = 0
         /\ cancelled' \subseteq active' /\ splitting' \subseteq Indexes /\ failure' \in Outcomes
         /\ durable' \subseteq good /\ splitSnap' \in Seq(Segment)
         /\ splitSnap' # <<>> => Plan(splitSnap') /\ toStart' # <<>>
<1> DEFINE o == results[1][2]
<1>1. /\ at = "ranges" /\ toStart = <<>> /\ results # <<>> /\ active' = active \ {i}
      /\ IF i \in splitting /\ o = "cancelled" /\ ~stopped THEN StartAgain(i) ELSE Settle(i, o)
  BY DEF Collect, Looping
<1>2. /\ results \in Seq(Indexes \X Outcomes) /\ toStart \in Seq(Indexes)
      /\ cancelled \subseteq active /\ splitting \subseteq Indexes /\ failure \in Outcomes
      /\ durable \subseteq good /\ splitSnap \in Seq(Segment)
  BY DEF EngineInv, EngineTypeOK
<1>3. 1 \in 1 .. Len(results) /\ i \in Indexes /\ o \in Outcomes
  <2>1. Len(results) \in Nat \ {0} /\ results[1] \in Indexes \X Outcomes
    BY <1>1, <1>2
  <2> QED
    BY <2>1
<1>4. OnePlace /\ splitSnap = <<>> /\ Plan(segs)
  BY <1>1 DEF EngineInv, Pool, Plans
<1>5. i \in active /\ active \subseteq 1 .. Len(segs) /\ i \in 1 .. Len(segs)
  BY <1>3, <1>4 DEF OnePlace, Reported
<1>6. /\ o = "ok" => Remaining(segs[i]) = 0
      /\ failure = "ok" =>
           \A j \in 1 .. Len(segs) : j \in active \cup Members(toStart) \/ Remaining(segs[j]) = 0
  BY <1>1, <1>3 DEF EngineInv, Outcome
<1>7. Members(<<>>) = {} /\ Distinct(<<>>)
  BY DEF Members, Distinct
<1> HIDE DEF o
<1>8. CASE Settle(i, o)
  <2>1. /\ UNCHANGED <<segs, durable, splitSnap, toStart, splitting>>
        /\ failure' = IF failure = "ok" THEN o ELSE failure
        /\ cancelled' = active' \/ cancelled' = cancelled \ {i}
    BY <1>8 DEF Settle
  <2>2. Plan(segs') /\ \A j \in active' : segs'[j] = segs[j] /\ j \in 1 .. Len(segs')
    BY <1>1, <1>4, <1>5, <2>1
  <2>3. /\ toStart' = <<>> /\ toStart' \in Seq(Indexes) /\ Distinct(toStart')
        /\ Members(toStart') = {}
    BY <1>1, <1>2, <1>7, <2>1
  <2>4. failure' = "ok" => \A j \in 1 .. Len(segs') : j \in active' \/ Remaining(segs'[j]) = 0
    <3>1. failure' = "ok" => failure = "ok" /\ o = "ok"
      BY <2>1
    <3>2. Members(toStart) = {}
      BY <1>1, <1>7
    <3>3. \A j \in 1 .. Len(segs) : j \in active => j \in active' \/ j = i
      BY <1>1
    <3> QED
      BY <1>6, <2>1, <3>1, <3>2, <3>3
  <2>5. /\ cancelled' \subseteq active' /\ splitting' \subseteq Indexes /\ failure' \in Outcomes
        /\ durable' \subseteq good /\ splitSnap' = <<>> /\ splitSnap' \in Seq(Segment)
    BY <1>1, <1>2, <1>3, <1>4, <2>1
  <2> QED
    BY <1>1, <1>5, <2>2, <2>3, <2>4, <2>5
<1>9. CASE StartAgain(i) /\ ~CanSplit(segs, i, SplitMinimum)
  <2>1. /\ splitting' = splitting \ {i} /\ cancelled' = cancelled \ {i}
        /\ toStart' = <<i>> /\ UNCHANGED <<segs, durable, splitSnap, failure>>
    BY <1>9 DEF StartAgain
  <2>2. Plan(segs') /\ \A j \in active' : segs'[j] = segs[j] /\ j \in 1 .. Len(segs')
    BY <1>1, <1>4, <1>5, <2>1
  <2>3. toStart' \in Seq(Indexes) /\ Distinct(toStart') /\ Members(toStart') = {i}
    <3>1. <<i>> \in Seq(Indexes) /\ Len(<<i>>) = 1 /\ <<i>>[1] = i
      BY <1>3
    <3>2. \A k : k \in 1 .. 1 <=> k = 1
      OBVIOUS
    <3> QED
      BY <2>1, <3>1, <3>2 DEF Members, Distinct
  <2>4. failure' = "ok" =>
          \A j \in 1 .. Len(segs') : j \in active' \cup {i} \/ Remaining(segs'[j]) = 0
    BY <1>1, <1>6, <1>7, <2>1
  <2>5. /\ cancelled' \subseteq active' /\ splitting' \subseteq Indexes /\ failure' \in Outcomes
        /\ durable' \subseteq good /\ splitSnap' = <<>> /\ splitSnap' \in Seq(Segment)
    BY <1>1, <1>2, <1>3, <1>4, <2>1
  <2> QED
    BY <1>1, <1>5, <2>1, <2>2, <2>3, <2>4, <2>5
<1>10. CASE StartAgain(i) /\ CanSplit(segs, i, SplitMinimum)
  <2> DEFINE n == Len(segs)
  <2>1. /\ splitting' = splitting \ {i} /\ cancelled' = cancelled \ {i}
        /\ segs' = SplitTail(segs, i) /\ toStart' = <<i, n + 1>>
        /\ durable' = good /\ splitSnap' = segs' /\ UNCHANGED failure /\ i = n
    BY <1>10 DEF StartAgain, Sync, CanSplit
  <2>2. segs \in Seq(Segment) /\ ValidSegments(segs, Total) /\ n \in Nat \ {0}
    BY <1>4, PlanFacts
  <2>3. /\ Plan(segs') /\ Len(segs') = n + 1
        /\ \A j \in 1 .. n - 1 : segs'[j] = segs[j]
    BY <1>5, <1>10, <2>1, <2>2, SplitKeepsValid, EngineAssumption DEF Plan
  <2>4. 1 .. Len(segs') \subseteq Indexes
    BY <2>3, PlanFacts
  <2>5. \A j \in active' : j \in 1 .. n - 1
    BY <1>1, <1>5, <2>1, <2>2
  <2>6. \A j \in 1 .. n - 1 : j \in 1 .. n + 1
    BY <2>2
  <2>7. toStart' \in Seq(Indexes) /\ Distinct(toStart') /\ Members(toStart') = {n, n + 1}
    <3>1. n \in Indexes /\ n + 1 \in Indexes
      BY <2>2, <2>3, <2>4
    <3> DEFINE m == n + 1
    <3>2. n # m /\ i = n /\ toStart' = <<n, m>> /\ m \in Indexes
      BY <2>1, <2>2, <3>1
    <3> HIDE DEF m
    <3>3. toStart' \in Seq(Indexes) /\ Len(toStart') = 2 /\ toStart'[1] = n /\ toStart'[2] = m
      BY <3>1, <3>2
    <3>4. \A k : k \in 1 .. 2 <=> k = 1 \/ k = 2
      OBVIOUS
    <3>5. Members(toStart') = {n, m} /\ Distinct(toStart')
      BY <3>2, <3>3, <3>4 DEF Members, Distinct
    <3> QED
      BY <3>3, <3>5 DEF m
  <2>8. Members(toStart') \cap active' = {} /\ Members(toStart') \subseteq 1 .. Len(segs')
    BY <2>2, <2>3, <2>5, <2>7
  <2>9. failure' = "ok" =>
          \A j \in 1 .. Len(segs') : j \in active' \cup Members(toStart') \/ Remaining(segs'[j]) = 0
    <3>1. ASSUME failure = "ok", NEW j \in 1 .. n + 1, j # n, j # n + 1
          PROVE  j \in active' \/ Remaining(segs'[j]) = 0
      <4>1. j \in 1 .. n - 1 /\ j \in 1 .. n
        BY <2>2, <3>1
      <4>2. j \in active \/ Remaining(segs[j]) = 0
        BY <1>1, <1>6, <1>7, <3>1, <4>1
      <4> QED
        BY <1>1, <2>1, <2>3, <3>1, <4>1, <4>2
    <3> QED
      BY <2>1, <2>3, <2>7, <3>1
  <2>10. /\ cancelled' \subseteq active' /\ splitting' \subseteq Indexes /\ failure' \in Outcomes
         /\ durable' \subseteq good /\ splitSnap' = segs' /\ splitSnap' \in Seq(Segment)
         /\ toStart' # <<>>
    BY <1>1, <1>2, <2>1, <2>3 DEF Plan
  <2>11. \A j \in active' : segs'[j] = segs[j] /\ j \in 1 .. Len(segs')
    BY <2>3, <2>5, <2>6
  <2> QED
    BY <1>1, <1>5, <2>3, <2>7, <2>8, <2>9, <2>10, <2>11
<1> QED
  BY <1>1, <1>8, <1>9, <1>10

LEMMA CollectStep ==
  ASSUME EngineInv, Collect
  PROVE  EngineStepOK
<1> DEFINE i == results[1][1]
<1>1. /\ at = "ranges" /\ results # <<>> /\ results' = Tail(results)
      /\ UNCHANGED <<at, base, told, size, good, final, width, jobs, stopped, workVars>>
  BY DEF Collect, Looping
<1>2. /\ i \in active /\ active' = active \ {i}
      /\ Plan(segs') /\ (\A j \in active' : segs'[j] = segs[j] /\ j \in 1 .. Len(segs'))
      /\ toStart' \in Seq(Indexes) /\ Distinct(toStart')
      /\ Members(toStart') \cap active' = {} /\ Members(toStart') \subseteq 1 .. Len(segs')
      /\ failure' = "ok" => \A j \in 1 .. Len(segs') :
                             j \in active' \cup Members(toStart') \/ Remaining(segs'[j]) = 0
      /\ cancelled' \subseteq active' /\ splitting' \subseteq Indexes /\ failure' \in Outcomes
      /\ durable' \subseteq good /\ splitSnap' \in Seq(Segment)
      /\ splitSnap' # <<>> => Plan(splitSnap') /\ toStart' # <<>>
  BY Collected
<1>3. OnePlace
  BY <1>1 DEF EngineInv, Pool
<1>4. /\ results' \in Seq(Indexes \X Outcomes) /\ Len(results') = Len(results) - 1
      /\ Len(results) \in Nat \ {0}
      /\ \A k \in 1 .. Len(results') : results'[k] = results[k + 1] /\ k + 1 \in 1 .. Len(results)
      /\ \A k \in 1 .. Len(results') : k + 1 # 1
      /\ 1 \in 1 .. Len(results)
  <2>1. results \in Seq(Indexes \X Outcomes)
    BY DEF EngineInv, EngineTypeOK
  <2> QED
    BY <1>1, <2>1, Received
<1>5. \A j, k \in 1 .. Len(results) : results[j][1] = results[k][1] => j = k
  BY <1>3 DEF OnePlace
<1>6. ASSUME NEW j \in 1 .. Len(results'), NEW k \in 1 .. Len(results'),
             results'[j][1] = results'[k][1]
      PROVE  j = k
  <2>1. /\ results'[j] = results[j + 1] /\ j + 1 \in 1 .. Len(results)
        /\ results'[k] = results[k + 1] /\ k + 1 \in 1 .. Len(results)
    BY <1>4
  <2>2. j + 1 = k + 1
    BY <1>5, <1>6, <2>1
  <2> QED
    BY <2>2
<1>7. Reported' \subseteq Reported \ {i}
  <2>1. ASSUME NEW k \in 1 .. Len(results')
        PROVE  results'[k][1] \in Reported /\ results'[k][1] # i
    <3>1. /\ results'[k] = results[k + 1] /\ k + 1 \in 1 .. Len(results) /\ k + 1 # 1
          /\ 1 \in 1 .. Len(results)
      BY <1>4
    <3>2. results[k + 1][1] \in Reported
      BY <3>1 DEF Reported
    <3>3. results[1][1] = i
      BY <1>1
    <3>4. results[k + 1][1] # results[1][1]
      BY <1>5, <3>1
    <3> QED
      BY <3>1, <3>2, <3>3, <3>4
  <2> QED
    BY <2>1 DEF Reported
<1>8. i \in Reported
  BY <1>4 DEF Reported
<1> HIDE DEF i
<1>9. /\ Members(jobs)' = Members(jobs) /\ Busy' = Busy /\ Distinct(jobs)' = Distinct(jobs)
      /\ Members(toStart)' = Members(toStart') /\ Distinct(toStart)' = Distinct(toStart')
      /\ UNCHANGED <<work, attempt, until, snap>>
  BY <1>1 DEF Members, Busy, Distinct, workVars
<1>10. Pool'
  <2>1. Members(jobs) \cup Busy \cup Reported' \subseteq active'
    BY <1>2, <1>3, <1>7, <1>8 DEF OnePlace
  <2>2. OnePlace'
    BY <1>2, <1>3, <1>6, <1>7, <1>9, <2>1 DEF OnePlace
  <2> QED
    BY <1>1, <1>2, <2>2 DEF EngineInv, Pool
<1>11. Plans'
  BY <1>1, <1>2, <1>9 DEF EngineInv, Plans
<1>12. Outcome'
  <2>1. ASSUME NEW j \in Indexes
        PROVE  /\ Writing(j)' => until'[j] = segs'[j].end
               /\ work'[j] = "ok" => Remaining(segs'[j]) = 0
    <3>1. work[j] # "idle" => j \in active'
      BY <1>2, <1>3, <1>8 DEF OnePlace, Busy
    <3> QED
      BY <1>1, <1>2, <1>9, <3>1 DEF EngineInv, Outcome, Writing
  <2>2. ASSUME NEW k \in 1 .. Len(results'), results'[k][2] = "ok"
        PROVE  Remaining(segs'[results'[k][1]]) = 0
    <3>1. results'[k] = results[k + 1] /\ k + 1 \in 1 .. Len(results)
      BY <1>4
    <3>2. results[k + 1][1] \in active'
      <4>1. results[k + 1][1] \in Reported'
        BY <3>1 DEF Reported
      <4> QED
        BY <1>2, <1>3, <1>7, <4>1 DEF OnePlace
    <3>3. Remaining(segs[results[k + 1][1]]) = 0
      BY <1>1, <2>2, <3>1 DEF EngineInv, Outcome
    <3> QED
      BY <1>2, <3>1, <3>2, <3>3
  <2>3. size' = Total
    BY <1>1 DEF EngineInv, Outcome
  <2> QED
    BY <1>1, <1>2, <1>9, <2>1, <2>2, <2>3 DEF Outcome, NothingForgotten, FinalReportIsLast
<1>13. EngineTypeOK'
  <2>1. Cardinality(Busy') <= width' /\ Len(results') <= 2 * width'
    BY <1>1, <1>4, <1>9 DEF EngineInv, EngineTypeOK
  <2>2. active' \subseteq Indexes /\ segs' \in Seq(Segment)
    BY <1>2 DEF EngineInv, EngineTypeOK, Plan
  <2> QED
    BY <1>1, <1>2, <1>4, <1>9, <2>1, <2>2 DEF EngineInv, EngineTypeOK
<1>14. Length'
  BY <1>1 DEF EngineInv, Length
<1> QED
  BY <1>1, <1>10, <1>11, <1>12, <1>13, <1>14 DEF EngineInv, EngineStepOK

\* When everything has been collected no worker has anything, and the channels are
\* empty.
LEMMA AllCollected ==
  ASSUME EngineInv, at = "ranges", toStart = <<>>, active = {}
  PROVE  Quiet /\ Busy = {}
<1>1. /\ OnePlace /\ splitSnap = <<>> /\ cancelled = {}
      /\ jobs \in Seq(Indexes) /\ results \in Seq(Indexes \X Outcomes)
  BY DEF EngineInv, Pool, EngineTypeOK
<1>2. jobs = <<>>
  <2>1. 1 \notin 1 .. Len(jobs)
    BY <1>1 DEF OnePlace, Members
  <2> QED
    BY <1>1, <2>1
<1>3. results = <<>>
  <2>1. ASSUME 1 \in 1 .. Len(results)
        PROVE  FALSE
    <3>1. results[1][1] \in Reported
      BY <2>1 DEF Reported
    <3> QED
      BY <1>1, <3>1 DEF OnePlace
  <2> QED
    BY <1>1, <2>1
<1> QED
  BY <1>1, <1>2, <1>3 DEF Quiet, OnePlace

LEMMA EndRangesStep ==
  ASSUME EngineInv, EndRanges
  PROVE  EngineStepOK
<1>1. /\ at = "ranges" /\ toStart = <<>> /\ active = {}
      /\ UNCHANGED <<told, final, poolVars, active, cancelled, splitSnap, stopped, until, snap>>
  BY DEF EndRanges
<1>2. Quiet /\ Busy = {} /\ width >= 1 /\ width \in Nat
  BY <1>1, AllCollected DEF EngineInv, Pool, EngineTypeOK
<1>3. Quiet'
  BY <1>1, <1>2 DEF Quiet, poolVars
<1>4. /\ Plan(segs) /\ Plan(base) /\ Plan(told) /\ Plan(told)'
      /\ \A j \in Indexes : work[j] = "idle"
  BY <1>1, <1>2 DEF EngineInv, Plans, Plan, Busy
<1>5. 1 \in Indexes
  BY EngineAssumption DEF Indexes
<1>6. CASE MayFallBack
  <2>1. /\ at' = "whole" /\ base' = Whole(Total) /\ segs' = Whole(Total)
        /\ size' = 0 /\ good' = {} /\ durable' = {}
        /\ work' = [work EXCEPT ![1] = "try"] /\ attempt' = [attempt EXCEPT ![1] = 0]
        /\ failure' = "ok" /\ splitting' = {}
    BY <1>6 DEF EndRanges
  <2>2. Plan(Whole(Total)) /\ Total \in Nat \ {0}
    BY WholeIsPlan, EngineAssumption DEF Plan
  <2>3. /\ work' \in [Indexes -> Doings] /\ work'[1] = "try" /\ Busy' = {1}
        /\ \A j \in Indexes \ {1} : work'[j] = "idle"
    BY <1>2, <1>4, <1>5, <2>1 DEF EngineInv, EngineTypeOK, Doings, Busy
  <2>4. Pool'
    BY <1>1, <1>2, <1>3, <2>1, <2>3 DEF Pool, poolVars
  <2>5. Plans'
    <3>1. \A j \in Indexes : work'[j] # "deliver"
      BY <2>3
    <3> QED
      BY <1>3, <1>4, <2>1, <2>2, <3>1 DEF Plans, Quiet, Plan
  <2>6. Outcome'
    BY <2>1, <2>3 DEF Outcome, Writing, NothingForgotten, FinalReportIsLast
  <2>7. EngineTypeOK'
    <3>1. Cardinality(Busy') <= width'
      BY <1>1, <1>2, <2>3, FS_Singleton DEF poolVars
    <3>2. attempt' \in [Indexes -> 0 .. MaxAttempts - 1]
      <4>1. attempt \in [Indexes -> 0 .. MaxAttempts - 1] /\ 0 \in 0 .. MaxAttempts - 1
        BY EngineAssumption DEF EngineInv, EngineTypeOK
      <4> QED
        BY <2>1, <4>1
    <3>3. /\ size' \in -1 .. Total /\ failure' \in Outcomes
          /\ segs' \in Seq(Segment) /\ base' \in Seq(Segment)
      BY <2>1, <2>2 DEF Plan, Outcomes
    <3> QED
      BY <1>1, <2>1, <2>3, <3>1, <3>2, <3>3 DEF EngineInv, EngineTypeOK, Doings, poolVars
  <2>8. Length'
    BY <2>1 DEF Length
  <2> QED
    BY <1>1, <2>1, <2>4, <2>5, <2>6, <2>7, <2>8 DEF EngineInv, EngineStepOK
<1>7. CASE ~MayFallBack
  <2>1. /\ at' = "last"
        /\ failure' = IF failure = "ok" /\ stopped THEN "cancelled" ELSE failure
        /\ UNCHANGED <<base, segs, fileVars, work, attempt, splitting>>
    BY <1>7 DEF EndRanges
  <2>2. UNCHANGED <<size, good, durable>> /\ Busy' = {}
    BY <1>2, <2>1 DEF fileVars, Busy
  <2>3. Pool'
    BY <1>1, <1>2, <1>3, <2>1, <2>2 DEF Pool, poolVars
  <2>4. Plans'
    BY <1>1, <1>3, <1>4, <2>1 DEF Plans, Quiet, Plan
  <2>5. Outcome'
    <3>1. ASSUME failure' = "ok"
          PROVE  size = Total /\ Claimed(segs) = Bytes
      <4>1. failure = "ok"
        BY <2>1, <3>1
      <4>2. Members(toStart) = {}
        BY <1>1 DEF Members
      <4>3. \A j \in 1 .. Len(segs) : Remaining(segs[j]) = 0
        BY <1>1, <4>1, <4>2 DEF EngineInv, Outcome
      <4> QED
        BY <1>1, <1>4, <4>3, ClaimedAll, EngineAssumption DEF Plan, Bytes, EngineInv, Outcome
    <3> QED
      BY <2>1, <2>2, <3>1 DEF Outcome, NothingForgotten, FinalReportIsLast
  <2>6. EngineTypeOK'
    <3>1. Cardinality(Busy') <= width' /\ failure' \in Outcomes
      BY <1>1, <1>2, <2>1, <2>2, FS_EmptySet DEF EngineInv, EngineTypeOK, Outcomes, poolVars
    <3> QED
      BY <1>1, <2>1, <2>2, <3>1 DEF EngineInv, EngineTypeOK, poolVars
  <2>7. Length'
    BY <1>1, <2>1, <2>2 DEF EngineInv, Length
  <2> QED
    BY <1>1, <2>1, <2>3, <2>4, <2>5, <2>6, <2>7 DEF EngineInv, EngineStepOK
<1> QED
  BY <1>6, <1>7

LEMMA EndWholeStep ==
  ASSUME EngineInv, EndWhole
  PROVE  EngineStepOK
<1>1. /\ at = "whole" /\ work[1] \in Outcomes /\ at' = "last" /\ failure' = work[1]
      /\ Become(1, "idle") /\ 1 \in Indexes
      /\ UNCHANGED <<segs, base, told, fileVars, final, poolVars, active, cancelled, splitting,
                 splitSnap, stopped, attempt, until, snap>>
  BY EngineAssumption DEF EndWhole, Indexes
<1>2. Busy = {1} /\ Quiet /\ width >= 1 /\ Plan(segs) /\ Plan(base) /\ Plan(told)
  BY <1>1 DEF EngineInv, Pool, Plans
<1>3. /\ work' \in [Indexes -> Doings] /\ Busy' = {} /\ work'[1] = "idle"
      /\ \A j \in Indexes \ {1} : work'[j] = work[j]
  BY <1>1, <1>2, Becoming DEF EngineInv, Doings
<1>4. Pool'
  BY <1>1, <1>2, <1>3 DEF Pool, Quiet, poolVars
<1>5. Plans'
  <2>1. \A j \in Indexes : work'[j] = "deliver" => work[j] = "deliver"
    BY <1>3
  <2> QED
    BY <1>1, <2>1 DEF EngineInv, Plans, Plan
<1>6. Outcome'
  <2>1. ASSUME failure' = "ok"
        PROVE  size = Total /\ Claimed(segs) = Bytes
    <3>1. size = Total /\ segs[1].cur = Total
      BY <1>1, <2>1 DEF EngineInv, Outcome
    <3>2. segs[1].start = 0 /\ 1 \in 1 .. Len(segs) /\ Claimed(segs) \subseteq Bytes
      BY <1>2, PlanFacts, ValidParts, EngineAssumption DEF Plan
    <3>3. Bytes \subseteq Claimed(segs)
      BY <3>1, <3>2 DEF Claimed, Bytes
    <3> QED
      BY <3>1, <3>2, <3>3
  <2> QED
    BY <1>1, <2>1 DEF Outcome, NothingForgotten, FinalReportIsLast, fileVars
<1>7. EngineTypeOK'
  <2>1. Cardinality(Busy') <= width' /\ width \in Nat
    BY <1>1, <1>3, FS_EmptySet DEF EngineInv, EngineTypeOK, poolVars
  <2> QED
    BY <1>1, <1>3, <2>1 DEF EngineInv, EngineTypeOK, poolVars, fileVars, Doings
<1>8. Length'
  BY <1>1 DEF EngineInv, Length, fileVars
<1> QED
  BY <1>1, <1>4, <1>5, <1>6, <1>7, <1>8 DEF EngineInv, EngineStepOK

LEMMA LastReportStep ==
  ASSUME EngineInv, LastReport
  PROVE  EngineStepOK /\ Plan(told')
<1>1. /\ at = "last" /\ durable' = good /\ told' = segs
      /\ IF failure # "ok" THEN at' = "ended" /\ UNCHANGED failure
         ELSE IF size = Total /\ Claimed(segs) = Bytes THEN at' = "rename" /\ UNCHANGED failure
         ELSE at' = "ended" /\ failure' = "failed"
      /\ UNCHANGED <<segs, base, size, good, final, poolVars, active, cancelled, splitting,
                 splitSnap, stopped, workVars>>
  BY DEF LastReport, Sync
<1>2. /\ at' \in {"rename", "ended"} /\ size # -1 /\ failure' \in Outcomes
      /\ at' = "rename" => failure' = "ok" /\ size = Total /\ Claimed(segs) = Bytes
      /\ at' = "ended" => failure' # "ok"
  BY <1>1 DEF EngineInv, Length, EngineTypeOK, Outcomes
<1>3. Busy = {} /\ Quiet /\ width >= 1 /\ Plan(segs) /\ Plan(base)
  BY <1>1 DEF EngineInv, Pool, Plans
<1>4. Busy' = {} /\ Quiet' /\ UNCHANGED <<work, attempt, until, snap>>
  BY <1>1, <1>3 DEF Busy, Quiet, poolVars, workVars
<1>5. Pool'
  BY <1>1, <1>2, <1>3, <1>4 DEF Pool, poolVars
<1>6. Plans'
  BY <1>1, <1>2, <1>3, <1>4 DEF EngineInv, Plans, Plan
<1>7. Outcome'
  BY <1>1, <1>2 DEF Outcome, NothingForgotten, FinalReportIsLast
<1>8. EngineTypeOK'
  <2>1. Cardinality(Busy') <= width' /\ told' \in Seq(Segment)
    BY <1>1, <1>3, <1>4 DEF EngineInv, EngineTypeOK, poolVars, Plan
  <2> QED
    BY <1>1, <1>2, <1>4, <2>1 DEF EngineInv, EngineTypeOK, poolVars
<1>9. Length'
  BY <1>1, <1>2 DEF EngineInv, Length
<1> QED
  BY <1>1, <1>2, <1>3, <1>5, <1>6, <1>7, <1>8, <1>9 DEF EngineInv, EngineStepOK

LEMMA RenameStep ==
  ASSUME EngineInv, Rename
  PROVE  EngineStepOK
<1>1. /\ at = "rename" /\ at' = "ended" /\ final' = good
      /\ size' = -1 /\ good' = {} /\ durable' = {}
      /\ UNCHANGED <<segs, base, told, poolVars, coordVars, stopped, workVars>>
  BY DEF Rename
<1>2. failure = "ok" /\ told = segs /\ good \subseteq Bytes
  BY <1>1 DEF EngineInv, Outcome, FinalReportIsLast, EngineTypeOK
<1>3. final' # Nothing
  <2>1. -1 \notin Bytes
    BY EngineAssumption DEF Bytes
  <2> QED
    BY <1>1, <1>2, <2>1 DEF Nothing
<1>4. Busy = {} /\ Quiet /\ width >= 1 /\ Plan(segs) /\ Plan(base) /\ Plan(told)
  BY <1>1 DEF EngineInv, Pool, Plans
<1>5. Busy' = {} /\ Quiet' /\ UNCHANGED <<work, attempt, until, snap>>
  BY <1>1, <1>4 DEF Busy, Quiet, poolVars, coordVars, workVars
<1>6. Pool'
  BY <1>1, <1>4, <1>5 DEF Pool, poolVars
<1>7. Plans'
  BY <1>1, <1>4, <1>5 DEF EngineInv, Plans, Plan, coordVars
<1>8. Outcome'
  BY <1>1, <1>2 DEF Outcome, NothingForgotten, FinalReportIsLast, coordVars
<1>9. EngineTypeOK'
  <2>1. Cardinality(Busy') <= width' /\ size' \in -1 .. Total
    BY <1>1, <1>4, <1>5, EngineAssumption DEF EngineInv, EngineTypeOK, poolVars
  <2> QED
    BY <1>1, <1>2, <1>5, <2>1 DEF EngineInv, EngineTypeOK, poolVars, coordVars
<1>10. Length'
  BY <1>1, <1>3 DEF Length
<1> QED
  BY <1>1, <1>6, <1>7, <1>8, <1>9, <1>10 DEF EngineInv, EngineStepOK

LEMMA EngineStepHolds ==
  ASSUME EngineInv, EngineStep
  PROVE  EngineStepOK
<1>1. CASE Coordinator
  BY <1>1, LaunchStep, PassOnStopStep, CollectStep, EndRangesStep, RequestWholeStep, EndWholeStep,
     RenameStep DEF Coordinator
<1>2. CASE RequestSplit \/ Take
  BY <1>2, RequestSplitStep, TakeStep
<1>3. ASSUME NEW i \in Indexes, Worker(i)
      PROVE  EngineStepOK
  BY <1>3, RequestStep, WriteByteStep, EndOfBodyStep, SendResultStep DEF Worker
<1> QED
  BY <1>1, <1>2, <1>3 DEF EngineStep

LEMMA ReportHolds ==
  ASSUME EngineInv, (\E i \in Indexes : Deliver(i)) \/ DeliverSplit \/ LastReport
  PROVE  EngineStepOK /\ Plan(told')
BY DeliverStep, DeliverSplitStep, LastReportStep

(***************************************************************************)
(* The row.                                                                *)
(***************************************************************************)
LEMMA NothingPlanned ==
  /\ Unplanned \in Seq(Segment) /\ Claimed(Unplanned) = {} /\ Len(Unplanned) = 1
  /\ Unplanned[1] = [start |-> 0, end |-> -1, cur |-> 0]
  /\ ~Plan(Unplanned)
<1>1. /\ Unplanned \in Seq(Segment) /\ Claimed(Unplanned) = {} /\ Len(Unplanned) = 1
      /\ Unplanned[1] = [start |-> 0, end |-> -1, cur |-> 0]
  BY WholeIsPlan DEF Unplanned
<1>2. ~Plan(Unplanned)
  <2>1. Unplanned[1].start = 0 /\ Unplanned[1].end = -1 /\ 1 \in 1 .. Len(Unplanned)
    BY <1>1
  <2> QED
    BY <2>1, PlanFacts
<1> QED
  BY <1>1, <1>2

\* What may be in the row, given the length of the file.
Kept(s, length) == (s = Unplanned /\ length = 0) \/ Plan(s)

LEMMA Reconciled ==
  ASSUME Length, NEW s, Kept(s, size)
  PROVE  /\ s \in Seq(Segment) /\ Reconcile(s) \in Seq(Segment)
         /\ Kept(Reconcile(s), size)
         /\ Plan(s) => Plan(Reconcile(s))
         /\ Claimed(Reconcile(s)) \subseteq Claimed(s)
         /\ Reconcilable(s) => Claimed(Reconcile(s)) = {} \/ size = Total
<1>1. size \in {-1, 0, Total} /\ Total \in Nat \ {0}
  BY EngineAssumption DEF Length
<1>2. CASE s = Unplanned /\ size = 0
  <2>1. [Unplanned EXCEPT ![1].cur = 0] = Unplanned
    <3> DEFINE r == [start |-> 0, end |-> -1, cur |-> 0]
    <3>1. Unplanned = <<r>>
      BY DEF Unplanned, Whole
    <3>2. [r EXCEPT !.cur = 0] = r
      OBVIOUS
    <3>3. <<r>>[1] = r
      OBVIOUS
    <3> HIDE DEF r
    <3>4. [<<r>> EXCEPT ![1] = r] = <<r>>
      OBVIOUS
    <3> QED
      BY <3>1, <3>2, <3>3, <3>4
  <2>2. Reconcile(s) = s
    BY <1>2, <2>1 DEF Reconcile
  <2> QED
    BY <1>2, <2>2, NothingPlanned DEF Kept
<1>3. CASE Plan(s)
  <2>1. /\ s \in Seq(Segment) /\ ValidSegments(s, Total) /\ Len(s) \in Nat \ {0}
        /\ 1 \in 1 .. Len(s) /\ s[1].start \in Nat /\ s[1].end \in Int /\ s[1].start <= s[1].end
        /\ s[1].start = 0
    BY <1>1, <1>3, PlanFacts, ValidParts
  <2>2. Planned(s)
    BY <2>1 DEF Planned
  <2>3. CASE size = 0 /\ Len(s) = 1
    <3>1. Reconcile(s) = [s EXCEPT ![1].cur = 0]
      BY <1>1, <2>3 DEF Reconcile
    <3>2. \A t : t = [s EXCEPT ![1].cur = s[1].start] =>
            /\ t \in Seq(Segment) /\ ValidSegments(t, Total)
            /\ Claimed(t) \subseteq Claimed(s) /\ (Len(s) = 1 => Claimed(t) = {})
      BY <1>1, <2>1, FromTheStart, Zenon
    <3>3. /\ Reconcile(s) \in Seq(Segment) /\ ValidSegments(Reconcile(s), Total)
          /\ Claimed(Reconcile(s)) = {}
      BY <2>1, <2>3, <3>1, <3>2, Zenon
    <3> QED
      BY <2>1, <3>3 DEF Kept, Plan
  <2>4. CASE ~(size = 0 /\ Len(s) = 1)
    <3>1. Reconcile(s) = s
      BY <1>1, <2>2, <2>4 DEF Reconcile
    <3>2. Reconcilable(s) => Claimed(s) = {} \/ size = Total
      <4>1. CASE size = 0
        <5>1. Len(s) > 1
          <6>1. Len(s) \in Nat \ {0} /\ Len(s) # 1
            BY <2>1, <2>4, <4>1, Zenon
          <6>2. \A n \in Nat \ {0} : n # 1 => n > 1
            OBVIOUS
          <6> QED
            BY <6>1, <6>2, Zenon
        <5> QED
          BY <2>2, <4>1, <5>1 DEF Reconcilable
      <4>2. CASE size = -1
        BY <4>2 DEF Reconcilable
      <4> QED
        BY <1>1, <4>1, <4>2
    <3> QED
      BY <1>3, <2>1, <3>1, <3>2 DEF Kept
  <2> QED
    BY <2>3, <2>4
<1> QED
  BY <1>2, <1>3 DEF Kept

LEMMA RowFacts ==
  ASSUME PoolInv
  PROVE  /\ Kept(row.segs, size) /\ row.segs \in Seq(Segment) /\ row.state \in States
         /\ at # "off" => Plan(row.segs)
         /\ Length /\ EngineInv /\ Row
BY NothingPlanned DEF PoolInv, Row, RecoveryTypeOK, EngineInv, Kept

LEMMA EngineSame ==
  ASSUME EngineInv, UNCHANGED engineVars
  PROVE  EngineInv'
<1>1. /\ UNCHANGED <<at, segs, base, told, final, active, cancelled, splitting, failure, splitSnap>>
      /\ UNCHANGED <<size, good, durable, width, toStart, jobs, results, stopped>>
      /\ UNCHANGED <<work, attempt, until, snap>>
  BY DEF engineVars, fileVars, poolVars, coordVars, workVars
<1>2. Busy' = Busy /\ Reported' = Reported
  BY <1>1 DEF Busy, Reported
<1>3. EngineTypeOK'
  BY <1>1, <1>2 DEF EngineInv, EngineTypeOK
<1>4. Pool'
  BY <1>1, <1>2 DEF EngineInv, Pool, Quiet, OnePlace, Members, Distinct
<1>5. Plans'
  BY <1>1 DEF EngineInv, Plans, Plan
<1>6. Outcome'
  BY <1>1 DEF EngineInv, Outcome, NothingForgotten, FinalReportIsLast, Writing, Members
<1>7. Length'
  BY <1>1 DEF EngineInv, Length
<1> QED
  BY <1>3, <1>4, <1>5, <1>6, <1>7 DEF EngineInv

\* The rest of the state is of its type.
SideTypes ==
  up \in BOOLEAN /\ ranged \in BOOLEAN /\ intent \in {"none", "pause", "close"}
    /\ budget \in [DOMAIN Budget -> Nat]

LEMMA SpendType ==
  ASSUME PoolInv, NEW what \in {"crash", "user"}, Spend(what)
  PROVE  budget' \in [DOMAIN Budget -> Nat]
<1>1. budget \in [DOMAIN Budget -> Nat] /\ DOMAIN Budget = {"crash", "user"}
  BY RecoveryAssumption DEF PoolInv, RecoveryTypeOK
<1>2. budget[what] \in Nat /\ budget[what] > 0
  BY <1>1 DEF Spend
<1>3. budget[what] - 1 \in Nat
  BY <1>2
<1> QED
  BY <1>1, <1>3 DEF Spend

\* A step inside a call, which leaves the row or checkpoints what is told.
LEMMA InCall ==
  ASSUME PoolInv, EngineStepOK, SideTypes', up' = up,
         \/ row' = row
         \/ Plan(row'.segs) /\ row'.state \in {"downloading", "pausing"}
             /\ row' \in [state : States, segs : Seq(Segment)]
  PROVE  PoolInv'
<1>1. Plan(row.segs) /\ up /\ row.state \in {"downloading", "pausing"}
  BY RowFacts DEF EngineStepOK, Row
<1>2. /\ Plan(row'.segs) /\ row'.state \in {"downloading", "pausing"}
      /\ row' \in [state : States, segs : Seq(Segment)]
  BY <1>1 DEF PoolInv, RecoveryTypeOK
<1>3. EngineInv' /\ at' # "off"
  BY DEF EngineStepOK
<1>4. row'.segs # Unplanned
  BY <1>2, NothingPlanned
<1>5. Row'
  BY <1>1, <1>2, <1>3, <1>4 DEF Row, Plan
<1>6. RecoveryTypeOK'
  BY <1>2, <1>3 DEF RecoveryTypeOK, EngineInv, SideTypes
<1> QED
  BY <1>3, <1>5, <1>6 DEF PoolInv

\* A step between two calls, or one that ends a call.
LEMMA BetweenCalls ==
  ASSUME EngineInv', SideTypes', at' = "off",
         NEW state \in States, NEW s, Kept(s, size'),
         row' = [state |-> state, segs |-> s],
         state \in {"queued", "probing"} => Claimed(s) = {},
         state = "preparing" => Claimed(s) = {} \/ (size' = Total /\ ranged')
  PROVE  PoolInv'
<1>1. s \in Seq(Segment) /\ (s = Unplanned => size' = 0) /\ (s # Unplanned => Plan(s))
  BY NothingPlanned DEF Kept, Plan
<1>2. row'.state = state /\ row'.segs = s
  OBVIOUS
<1>3. Row'
  BY <1>1, <1>2 DEF Row, Plan
<1>4. RecoveryTypeOK'
  BY <1>1 DEF RecoveryTypeOK, EngineInv, SideTypes
<1> QED
  BY <1>3, <1>4 DEF PoolInv

(***************************************************************************)
(* The steps of process, of the user and of startup.                       *)
(***************************************************************************)
\* Between calls, what does not touch the engine.
LEMMA SaveStep ==
  ASSUME PoolInv, at = "off", UNCHANGED engineVars, SideTypes',
         NEW state \in States, NEW s, Save(state, s), Kept(s, size),
         state \in {"queued", "probing"} => Claimed(s) = {},
         state = "preparing" => Claimed(s) = {} \/ (size = Total /\ ranged')
  PROVE  PoolInv'
<1>1. EngineInv' /\ at' = "off" /\ size' = size
  BY EngineSame, RowFacts DEF engineVars, fileVars
<1> QED
  BY <1>1, BetweenCalls DEF Save

LEMMA SaveSame ==
  ASSUME PoolInv, at = "off", UNCHANGED engineVars, SideTypes',
         NEW state \in States, Save(state, row.segs),
         state # "preparing", state \in {"queued", "probing"} => Claimed(row.segs) = {}
  PROVE  PoolInv'
BY SaveStep, RowFacts

LEMMA ProbeStep ==
  ASSUME PoolInv, Probe
  PROVE  PoolInv'
<1>1. /\ at = "off" /\ Save("probing", row.segs) /\ UNCHANGED <<engineVars, up, ranged, intent, budget>>
      /\ Claimed(row.segs) = {}
  BY DEF Probe, Idle, PoolInv, Row
<1>2. SideTypes' /\ "probing" \in States
  BY <1>1 DEF PoolInv, RecoveryTypeOK, SideTypes, States
<1> QED
  BY <1>1, <1>2, SaveSame

LEMMA PrepareStep ==
  ASSUME PoolInv, Prepare
  PROVE  PoolInv'
<1>1. /\ at = "off" /\ UNCHANGED <<engineVars, up, intent, budget>>
      /\ "failed" \in States /\ "preparing" \in States
  BY DEF Prepare, Idle, States
<1>2. CASE Save("failed", row.segs) /\ UNCHANGED ranged
  <2>1. SideTypes'
    BY <1>1, <1>2 DEF PoolInv, RecoveryTypeOK, SideTypes
  <2> QED
    BY <1>1, <1>2, <2>1, SaveSame
<1>3. ASSUME NEW supported \in BOOLEAN, NEW connections \in Connections, ranged' = supported,
             Save("preparing", PlanSegments(Total, IF supported THEN connections ELSE 1))
      PROVE  PoolInv'
  <2> DEFINE n == IF supported THEN connections ELSE 1
             s == PlanSegments(Total, n)
  <2>1. n \in Nat \ {0}
    BY RecoveryAssumption
  <2>2. Plan(s) /\ Claimed(s) = {}
    BY <2>1, PlanIsValid, EngineAssumption DEF Plan
  <2>3. SideTypes'
    BY <1>1, <1>3 DEF PoolInv, RecoveryTypeOK, SideTypes
  <2>4. Save("preparing", s) /\ Kept(s, size)
    BY <1>3, <2>2 DEF Kept
  <2> HIDE DEF s, n
  <2> QED
    BY <1>1, <2>2, <2>3, <2>4, SaveStep
<1> QED
  BY <1>2, <1>3 DEF Prepare

LEMMA ContinueHolds ==
  ASSUME PoolInv, at = "off", UNCHANGED <<engineVars, up, intent>>,
         budget' \in [DOMAIN Budget -> Nat],
         NEW supported \in BOOLEAN, Continue(supported)
  PROVE  PoolInv'
<1>1. "failed" \in States /\ "preparing" \in States
  BY DEF States
<1>2. SideTypes'
  BY DEF PoolInv, RecoveryTypeOK, SideTypes, Continue
<1>3. CASE Save("failed", row.segs)
  BY <1>1, <1>2, <1>3, SaveSame
<1>4. CASE /\ Claimed(row.segs) = {} \/ supported
           /\ ranged' = supported
           /\ Reconcilable(row.segs) /\ Save("preparing", Reconcile(row.segs))
  <2>1. /\ Kept(Reconcile(row.segs), size) /\ Claimed(Reconcile(row.segs)) \subseteq Claimed(row.segs)
        /\ Claimed(Reconcile(row.segs)) = {} \/ size = Total
    BY <1>4, Reconciled, RowFacts
  <2>2. Claimed(Reconcile(row.segs)) = {} \/ (size = Total /\ ranged')
    BY <1>4, <2>1
  <2> QED
    BY <1>1, <1>2, <1>4, <2>1, <2>2, SaveStep
<1> QED
  BY <1>3, <1>4 DEF Continue

LEMMA ResumeStep ==
  ASSUME PoolInv, Resume
  PROVE  PoolInv'
BY ContinueHolds, SpendType DEF Resume, Idle

LEMMA RetryStep ==
  ASSUME PoolInv, Retry
  PROVE  PoolInv'
<1>1. /\ at = "off" /\ Save("retrying", row.segs) /\ UNCHANGED <<engineVars, up, ranged, intent>>
      /\ budget' \in [DOMAIN Budget -> Nat]
  BY SpendType DEF Retry, Idle
<1>2. SideTypes' /\ "retrying" \in States
  BY <1>1 DEF PoolInv, RecoveryTypeOK, SideTypes, States
<1> QED
  BY <1>1, <1>2, SaveSame

LEMMA ContinueRetryStep ==
  ASSUME PoolInv, ContinueRetry
  PROVE  PoolInv'
<1>1. /\ at = "off" /\ UNCHANGED <<engineVars, up, intent, budget>>
      /\ \E supported \in BOOLEAN : Continue(supported)
  BY DEF ContinueRetry, Idle
<1>2. budget' \in [DOMAIN Budget -> Nat]
  BY <1>1 DEF PoolInv, RecoveryTypeOK
<1> QED
  BY <1>1, <1>2, ContinueHolds

LEMMA RestartStep ==
  ASSUME PoolInv, Restart
  PROVE  PoolInv'
<1>1. /\ at = "off" /\ size' = 0 /\ good' = {} /\ durable' = {}
      /\ Save("queued", Unplanned) /\ ranged' = FALSE /\ budget' \in [DOMAIN Budget -> Nat]
      /\ UNCHANGED <<at, segs, base, told, final, poolVars, coordVars, stopped, workVars, up, intent>>
  BY SpendType DEF Restart, Idle
<1>2. SideTypes' /\ "queued" \in States
  BY <1>1 DEF PoolInv, RecoveryTypeOK, SideTypes, States
<1>3. /\ UNCHANGED <<width, toStart, jobs, results, active, cancelled, splitting, failure, splitSnap>>
      /\ UNCHANGED <<work, attempt, until, snap>>
  BY <1>1 DEF poolVars, coordVars, workVars
<1>4. Busy' = Busy /\ EngineInv
  BY <1>3 DEF Busy, PoolInv
<1>5. EngineTypeOK'
  <2>1. size' \in -1 .. Total
    BY <1>1, EngineAssumption
  <2> QED
    BY <1>1, <1>3, <1>4, <2>1 DEF EngineInv, EngineTypeOK
<1>6. Pool'
  BY <1>1, <1>3, <1>4 DEF EngineInv, Pool, Quiet
<1>7. Plans'
  BY <1>1, <1>3, <1>4 DEF EngineInv, Plans, Plan
<1>8. Outcome'
  BY <1>1 DEF Outcome, NothingForgotten, FinalReportIsLast
<1>9. Length'
  BY <1>1 DEF Length
<1>10. EngineInv' /\ at' = "off"
  BY <1>1, <1>5, <1>6, <1>7, <1>8, <1>9 DEF EngineInv
<1>11. Kept(Unplanned, size') /\ Claimed(Unplanned) = {}
  BY <1>1, NothingPlanned DEF Kept
<1> QED
  BY <1>1, <1>2, <1>10, <1>11, BetweenCalls DEF Save

\* A call begins.
LEMMA DownloadHolds ==
  ASSUME EngineInv, NEW s, NEW r \in BOOLEAN, Download(s, r), s \in Seq(Segment),
         Claimed(s) = {} \/ size = Total
  PROVE  EngineInv' /\ at' # "off" /\ size' = Total /\ Plan(s)
<1>1. /\ at = "off" /\ ValidSegments(s, Total) /\ base' = s /\ segs' = s /\ told' = s
      /\ size' = Total /\ width' = Least(Len(s), MaxWorkers)
      /\ at' = IF r THEN "ranges" ELSE "whole"
      /\ toStart' = IF r THEN [i \in 1 .. Len(s) |-> i] ELSE <<>>
      /\ work' = IF r THEN work ELSE [work EXCEPT ![1] = "try"]
      /\ UNCHANGED <<good, durable, final, jobs, results, coordVars, stopped, attempt, until, snap>>
  BY DEF Download
<1>2. Plan(s) /\ Len(s) \in Nat \ {0} /\ 1 .. Len(s) \subseteq Indexes /\ 1 \in Indexes
  BY <1>1, PlanFacts, EngineAssumption DEF Plan, Indexes
<1>3. /\ Quiet /\ Busy = {} /\ \A j \in Indexes : work[j] = "idle"
      /\ work \in [Indexes -> Doings]
  BY <1>1 DEF EngineInv, Pool, EngineTypeOK, Busy, Doings
<1>4. UNCHANGED <<active, cancelled, splitting, failure, splitSnap>>
  BY <1>1 DEF coordVars
<1>5. /\ toStart' \in Seq(Indexes) /\ Distinct(toStart') /\ Members(toStart') \subseteq 1 .. Len(s)
      /\ r => Members(toStart') = 1 .. Len(s) /\ toStart' # <<>>
      /\ ~r => toStart' = <<>>
  <2> DEFINE f == [i \in 1 .. Len(s) |-> i]
  <2>1. f \in Seq(Indexes) /\ Len(f) = Len(s) /\ \A k \in 1 .. Len(s) : f[k] = k
    <3>1. f \in [1 .. Len(s) -> Indexes]
      BY <1>2
    <3> QED
      BY <1>2, <3>1, FunctionIsSequence
  <2>2. f # <<>>
    BY <1>2, <2>1
  <2> HIDE DEF f
  <2>3. Distinct(f) /\ Members(f) = 1 .. Len(s)
    BY <1>2, <2>1 DEF Distinct, Members
  <2>4. r => toStart' = f
    BY <1>1 DEF f
  <2>5. <<>> \in Seq(Indexes) /\ Distinct(<<>>) /\ Members(<<>>) = {}
    BY DEF Distinct, Members
  <2>6. ~r => toStart' = <<>>
    BY <1>1
  <2> QED
    BY <2>1, <2>2, <2>3, <2>4, <2>5, <2>6
<1>6. /\ work' \in [Indexes -> Doings] /\ (r => Busy' = {}) /\ (~r => Busy' = {1})
      /\ \A j \in Indexes : work'[j] \in {"idle", "try"}
  BY <1>1, <1>2, <1>3 DEF Busy, Doings
<1>7. width' \in 1 .. MaxWorkers
  BY <1>1, <1>2, EngineAssumption DEF Least
<1>8. Pool'
  <2>1. CASE r
    <3>1. Members(jobs)' = {} /\ Reported' = {} /\ Distinct(jobs)'
      BY <1>1, <1>3 DEF Quiet, Members, Reported, Distinct
    <3>2. Members(toStart)' = Members(toStart') /\ Distinct(toStart)' = Distinct(toStart')
      BY DEF Members, Distinct
    <3>3. OnePlace'
      <4>1. \A j, k \in 1 .. Len(results') : results'[j][1] = results'[k][1] => j = k
        BY <1>1, <1>3 DEF Quiet
      <4> QED
        BY <1>1, <1>3, <1>4, <1>5, <1>6, <2>1, <3>1, <3>2, <4>1 DEF OnePlace, Quiet
    <3> QED
      BY <1>1, <1>3, <1>4, <1>7, <2>1, <3>3 DEF Pool, Quiet
  <2>2. CASE ~r
    BY <1>1, <1>3, <1>4, <1>5, <1>6, <1>7, <2>2 DEF Pool, Quiet
  <2> QED
    BY <2>1, <2>2
<1>9. Plans'
  <2>1. \A j \in Indexes : work'[j] # "deliver"
    BY <1>6
  <2> QED
    BY <1>1, <1>2, <1>3, <1>4, <2>1 DEF Plans, Plan, Quiet
<1>10. Outcome'
  <2>1. \A j \in Indexes : ~Writing(j)' /\ work'[j] # "ok"
    BY <1>6 DEF Writing
  <2>2. \A k : k \notin 1 .. Len(results')
    BY <1>1, <1>3 DEF Quiet
  <2>3. CASE r
    <3>1. Members(toStart)' = 1 .. Len(s) /\ at' = "ranges"
      BY <1>1, <1>5, <2>3 DEF Members
    <3> QED
      BY <1>1, <2>1, <2>2, <3>1 DEF Outcome, NothingForgotten, FinalReportIsLast
  <2>4. CASE ~r
    BY <1>1, <1>2, <2>1, <2>4 DEF Outcome, NothingForgotten, FinalReportIsLast
  <2> QED
    BY <2>3, <2>4
<1>11. EngineTypeOK'
  <2>1. Cardinality(Busy') <= width'
    <3>1. Cardinality({}) = 0 /\ Cardinality({1}) = 1
      BY FS_EmptySet, FS_Singleton
    <3>2. Cardinality(Busy') \in {0, 1}
      BY <1>6, <3>1
    <3> QED
      BY <1>7, <3>2
  <2>2. jobs' = <<>> /\ results' = <<>> /\ Len(jobs') <= width' /\ Len(results') <= 2 * width'
    BY <1>1, <1>3, <1>7 DEF Quiet
  <2>3. size' \in -1 .. Total /\ width' \in 0 .. MaxWorkers /\ s \in Seq(Segment)
    BY <1>1, <1>2, <1>7, EngineAssumption DEF Plan
  <2> QED
    BY <1>1, <1>4, <1>5, <1>6, <2>1, <2>2, <2>3 DEF EngineInv, EngineTypeOK, Doings
<1>12. Length'
  BY <1>1, EngineAssumption DEF Length
<1> QED
  BY <1>1, <1>2, <1>8, <1>9, <1>10, <1>11, <1>12 DEF EngineInv

LEMMA RunStep ==
  ASSUME PoolInv, Run
  PROVE  PoolInv'
<1>1. /\ at = "off" /\ row.state = "preparing" /\ up /\ UNCHANGED <<up, ranged, intent, budget>>
      /\ SideTypes' /\ ranged \in BOOLEAN
  BY DEF Run, Idle, PoolInv, RecoveryTypeOK, SideTypes
<1>2. /\ row.segs \in Seq(Segment) /\ EngineInv
      /\ Claimed(row.segs) = {} \/ size = Total
      /\ "failed" \in States /\ "downloading" \in States
  BY <1>1, RowFacts DEF Row, States
<1>3. CASE ValidSegments(row.segs, Total)
  <2>1. Download(row.segs, ranged) /\ Save("downloading", row.segs)
    BY <1>3 DEF Run
  <2>2. EngineInv' /\ at' # "off" /\ Plan(row.segs)
    BY <1>1, <1>2, <2>1, DownloadHolds
  <2>3. row'.state = "downloading" /\ row'.segs = row.segs
        /\ row' \in [state : States, segs : Seq(Segment)]
    BY <1>2, <2>1 DEF Save
  <2>4. row'.segs # Unplanned /\ Plan(row'.segs)
    BY <2>2, <2>3, NothingPlanned
  <2>5. Row'
    BY <1>1, <2>2, <2>3, <2>4 DEF Row, Plan
  <2>6. RecoveryTypeOK'
    BY <1>1, <2>2, <2>3 DEF RecoveryTypeOK, EngineInv, SideTypes
  <2> QED
    BY <2>2, <2>5, <2>6 DEF PoolInv
<1>4. CASE ~ValidSegments(row.segs, Total)
  <2>1. Save("failed", row.segs) /\ UNCHANGED engineVars
    BY <1>4 DEF Run
  <2> QED
    BY <1>1, <1>2, <2>1, SaveSame
<1> QED
  BY <1>3, <1>4

\* The context is cancelled, and nothing else of the engine changes.
LEMMA StopHolds ==
  ASSUME EngineInv, at # "off", stopped' \in BOOLEAN,
         UNCHANGED <<at, segs, base, told, fileVars, final, poolVars, coordVars, workVars>>
  PROVE  EngineStepOK
<1>1. /\ UNCHANGED <<at, segs, base, told, final, active, cancelled, splitting, failure, splitSnap>>
      /\ UNCHANGED <<size, good, durable, width, toStart, jobs, results>>
      /\ UNCHANGED <<work, attempt, until, snap>>
  BY DEF fileVars, poolVars, coordVars, workVars
<1>2. Busy' = Busy /\ Reported' = Reported
  BY <1>1 DEF Busy, Reported
<1>3. EngineTypeOK'
  BY <1>1, <1>2 DEF EngineInv, EngineTypeOK
<1>4. Pool'
  BY <1>1, <1>2 DEF EngineInv, Pool, Quiet, OnePlace, Members, Distinct
<1>5. Plans'
  BY <1>1 DEF EngineInv, Plans, Plan
<1>6. Outcome'
  BY <1>1 DEF EngineInv, Outcome, NothingForgotten, FinalReportIsLast, Writing, Members
<1>7. Length'
  BY <1>1 DEF EngineInv, Length
<1> QED
  BY <1>1, <1>3, <1>4, <1>5, <1>6, <1>7 DEF EngineInv, EngineStepOK

LEMMA PauseStep ==
  ASSUME PoolInv, Pause
  PROVE  PoolInv'
<1>1. /\ at # "off" /\ stopped' = TRUE /\ intent' = "pause" /\ Save("pausing", row.segs)
      /\ UNCHANGED <<at, segs, base, told, fileVars, final, poolVars, coordVars, workVars, up, ranged>>
      /\ budget' \in [DOMAIN Budget -> Nat]
  BY SpendType DEF Pause
<1>2. EngineStepOK /\ Plan(row.segs) /\ row.segs \in Seq(Segment)
  BY <1>1, StopHolds, RowFacts
<1>3. SideTypes'
  BY <1>1 DEF PoolInv, RecoveryTypeOK, SideTypes
<1>4. /\ row'.segs = row.segs /\ row'.state = "pausing"
      /\ row' \in [state : States, segs : Seq(Segment)]
  BY <1>1, <1>2 DEF Save, States
<1>5. Plan(row'.segs)
  BY <1>2, <1>4
<1> QED
  BY <1>1, <1>2, <1>3, <1>4, <1>5, InCall

LEMMA CloseStep ==
  ASSUME PoolInv, Close
  PROVE  PoolInv'
<1>1. /\ at # "off" /\ stopped' = TRUE /\ intent' = "close" /\ row' = row /\ up' = up
      /\ ranged' = ranged
      /\ UNCHANGED <<at, segs, base, told, fileVars, final, poolVars, coordVars, workVars>>
      /\ budget' \in [DOMAIN Budget -> Nat]
  BY SpendType DEF Close, rowVars
<1>2. EngineStepOK
  BY <1>1, StopHolds, RowFacts
<1>3. SideTypes'
  BY <1>1 DEF PoolInv, RecoveryTypeOK, SideTypes
<1> QED
  BY <1>1, <1>2, <1>3, InCall

LEMMA EmptyTyped ==
  <<>> \in Seq(Segment) /\ <<>> \in Seq(Indexes) /\ <<>> \in Seq(Indexes \X Outcomes)
OBVIOUS

\* No call is left.
LEMMA NoCallHolds ==
  ASSUME NoCall, size' \in -1 .. Total, durable' \subseteq good', good' \subseteq Bytes,
         final' = Nothing \/ final' \subseteq Bytes, Length'
  PROVE  EngineInv' /\ at' = "off"
<1>1. /\ at' = "off" /\ segs' = <<>> /\ base' = <<>> /\ told' = <<>>
      /\ width' = 0 /\ toStart' = <<>> /\ jobs' = <<>> /\ results' = <<>>
      /\ active' = {} /\ cancelled' = {} /\ splitting' = {} /\ failure' = "ok"
      /\ splitSnap' = <<>> /\ stopped' = FALSE
      /\ work' = [i \in Indexes |-> "idle"] /\ attempt' = [i \in Indexes |-> 0]
      /\ until' = [i \in Indexes |-> -1] /\ snap' = [i \in Indexes |-> <<>>]
  BY DEF NoCall
<1>2. Busy' = {}
  BY <1>1 DEF Busy
<1>3. EngineTypeOK'
  <2>1. Cardinality(Busy') <= width'
    BY <1>1, <1>2, FS_EmptySet
  <2>2. /\ work' \in [Indexes -> {"idle", "try", "stream", "deliver"} \cup Outcomes]
        /\ snap' \in [Indexes -> Seq(Segment)]
    BY <1>1
  <2>3. 0 \in 0 .. MaxAttempts - 1 /\ -1 \in -1 .. Total - 1 /\ width' \in 0 .. MaxWorkers
    BY <1>1, EngineAssumption
  <2>4. /\ attempt' \in [Indexes -> 0 .. MaxAttempts - 1]
        /\ until' \in [Indexes -> -1 .. Total - 1]
    BY <1>1, <2>3
  <2>5. failure' \in Outcomes /\ Len(jobs') <= width' /\ Len(results') <= 2 * width'
    BY <1>1 DEF Outcomes
  <2> QED
    <3>1. \A s \in {segs', base', told'} : s \in Seq(Segment)
      BY <1>1, EmptyTyped
    <3>2. toStart' \in Seq(Indexes) /\ jobs' \in Seq(Indexes) /\ results' \in Seq(Indexes \X Outcomes)
      BY <1>1
    <3>3. /\ cancelled' \subseteq active' /\ active' \subseteq Indexes /\ splitting' \subseteq Indexes
          /\ stopped' \in BOOLEAN /\ splitSnap' \in Seq(Segment) /\ at' = "off"
      BY <1>1, EmptyTyped
    <3> QED
      BY <2>1, <2>2, <2>3, <2>4, <2>5, <3>1, <3>2, <3>3 DEF EngineTypeOK
<1>4. Pool'
  BY <1>1, <1>2 DEF Pool, Quiet
<1>5. Plans'
  BY <1>1 DEF Plans
<1>6. Outcome'
  BY <1>1 DEF Outcome, NothingForgotten, FinalReportIsLast
<1> QED
  BY <1>1, <1>3, <1>4, <1>5, <1>6 DEF EngineInv

LEMMA FinishStep ==
  ASSUME PoolInv, Finish
  PROVE  PoolInv'
<1>1. /\ at = "ended" /\ NoCall /\ UNCHANGED <<fileVars, final, budget>>
      /\ up' = (intent # "close") /\ intent' = "none"
  BY DEF Finish
<1>2. UNCHANGED <<size, good, durable>>
  BY <1>1 DEF fileVars
<1>3. EngineInv' /\ at' = "off"
  <2>1. size' \in -1 .. Total /\ durable' \subseteq good' /\ good' \subseteq Bytes
        /\ (final' = Nothing \/ final' \subseteq Bytes)
    BY <1>1, <1>2 DEF PoolInv, EngineInv, EngineTypeOK
  <2>2. Length'
    <3>1. at' = "off"
      BY <1>1 DEF NoCall
    <3> QED
      BY <1>1, <1>2, <3>1 DEF PoolInv, EngineInv, Length
  <2> QED
    BY <1>1, <2>1, <2>2, NoCallHolds
<1>4. Plan(told) /\ Length
  BY <1>1 DEF PoolInv, EngineInv, Plans
<1>5. SideTypes'
  <2>1. ranged' \in BOOLEAN
    BY DEF Finish, PoolInv, RecoveryTypeOK
  <2> QED
    BY <1>1, <2>1 DEF PoolInv, RecoveryTypeOK, SideTypes
<1>6. /\ Plan(Reconcile(told)) /\ {"completed", "paused", "failed", "downloading"} \subseteq States
  BY <1>4, Reconciled DEF Kept, States
<1>7. PICK state \in {"completed", "paused", "failed", "downloading"},
           s \in {told, Reconcile(told), [i \in DOMAIN told |-> [told[i] EXCEPT !.cur = told[i].end + 1]]} :
        Save(state, s)
  BY Zenon DEF Finish
<1>8. Plan([i \in DOMAIN told |-> [told[i] EXCEPT !.cur = told[i].end + 1]])
  BY <1>4, AllComplete, EngineAssumption, Zenon DEF Plan
<1>9. Kept(s, size')
  BY <1>4, <1>6, <1>7, <1>8, Zenon DEF Kept
<1>10. state \in States /\ state \notin {"queued", "probing", "preparing"}
  BY <1>6, <1>7
<1>11. row' = [state |-> state, segs |-> s]
  BY <1>7 DEF Save
<1> QED
  BY <1>3, <1>5, <1>9, <1>10, <1>11, BetweenCalls

LEMMA CrashStep ==
  ASSUME PoolInv, Crash
  PROVE  PoolInv'
<1>1. /\ up' = FALSE /\ intent' = "none" /\ good' \in {good, durable} /\ durable' = good'
      /\ NoCall /\ size' = size /\ final' = final /\ row' = row /\ ranged' = ranged
      /\ row.state \in Recoverable /\ budget' \in [DOMAIN Budget -> Nat]
  BY SpendType DEF Crash, rowVars
<1>2. EngineInv' /\ at' = "off"
  <2>1. size' \in -1 .. Total /\ durable' \subseteq good' /\ good' \subseteq Bytes /\ good' \subseteq good
        /\ (final' = Nothing \/ final' \subseteq Bytes)
    BY <1>1 DEF PoolInv, EngineInv, EngineTypeOK
  <2>2. Length'
    <3>1. at' = "off"
      BY <1>1 DEF NoCall
    <3> QED
      BY <1>1, <2>1, <3>1 DEF PoolInv, EngineInv, Length
  <2> QED
    BY <1>1, <2>1, <2>2, NoCallHolds
<1>3. SideTypes'
  BY <1>1 DEF PoolInv, RecoveryTypeOK, SideTypes
<1>4. Row'
  BY <1>1, <1>2 DEF PoolInv, Row, Plan
<1>5. RecoveryTypeOK'
  BY <1>1, <1>2, <1>3 DEF PoolInv, RecoveryTypeOK, EngineInv, SideTypes
<1> QED
  BY <1>2, <1>4, <1>5 DEF PoolInv

LEMMA RecoverStep ==
  ASSUME PoolInv, Recover
  PROVE  PoolInv'
<1>1. /\ ~up /\ up' = TRUE /\ UNCHANGED <<engineVars, ranged, intent, budget>>
      /\ \/ row' = row
         \/ Save(RecoveryTarget, IF Reconcilable(row.segs) THEN Reconcile(row.segs) ELSE row.segs)
  BY DEF Recover
<1>2. at = "off" /\ SideTypes'
  BY <1>1 DEF PoolInv, Row, RecoveryTypeOK, SideTypes
<1>3. CASE row' = row
  <2>1. EngineInv' /\ at' = "off" /\ size' = size
    BY <1>1, <1>2, EngineSame, RowFacts DEF engineVars, fileVars
  <2>2. Row'
    BY <1>1, <1>2, <1>3, <2>1 DEF PoolInv, Row, Plan
  <2>3. RecoveryTypeOK'
    BY <1>2, <1>3, <2>1 DEF PoolInv, RecoveryTypeOK, EngineInv, SideTypes
  <2> QED
    BY <2>1, <2>2, <2>3 DEF PoolInv
<1>4. CASE Save(RecoveryTarget, IF Reconcilable(row.segs) THEN Reconcile(row.segs) ELSE row.segs)
  <2> DEFINE s == IF Reconcilable(row.segs) THEN Reconcile(row.segs) ELSE row.segs
  <2>1. Kept(s, size)
    BY RowFacts, Reconciled
  <2>2. RecoveryTarget \in {"queued", "paused", "failed"}
    BY DEF RecoveryTarget
  <2>3. RecoveryTarget = "queued" => Claimed(s) = {}
    BY DEF RecoveryTarget
  <2>4. RecoveryTarget \in States
    BY <2>2 DEF States
  <2>5. Save(RecoveryTarget, s)
    BY <1>4
  <2> HIDE DEF s
  <2> QED
    BY <1>1, <1>2, <2>1, <2>2, <2>3, <2>4, <2>5, SaveStep
<1> QED
  BY <1>1, <1>3, <1>4

LEMMA PoolInvInit ==
  Init => PoolInv
<1> SUFFICES ASSUME Init PROVE PoolInv
  OBVIOUS
<1>1. /\ at = "off" /\ segs = <<>> /\ base = <<>> /\ told = <<>>
      /\ size = 0 /\ good = {} /\ durable = {} /\ final = Nothing
      /\ width = 0 /\ toStart = <<>> /\ jobs = <<>> /\ results = <<>>
      /\ active = {} /\ cancelled = {} /\ splitting = {} /\ failure = "ok"
      /\ splitSnap = <<>> /\ stopped = FALSE
      /\ up = TRUE /\ row = [state |-> "queued", segs |-> Unplanned]
      /\ ranged = FALSE /\ intent = "none" /\ budget = Budget
  BY DEF Init, EngineInit
<1>2. /\ work = [i \in Indexes |-> "idle"] /\ attempt = [i \in Indexes |-> 0]
      /\ until = [i \in Indexes |-> -1] /\ snap = [i \in Indexes |-> <<>>]
  BY DEF Init, EngineInit
<1>3. Busy = {}
  BY <1>2 DEF Busy
<1>4. EngineTypeOK
  <2>1. Cardinality(Busy) <= width
    BY <1>1, <1>3, FS_EmptySet
  <2>2. /\ work \in [Indexes -> {"idle", "try", "stream", "deliver"} \cup Outcomes]
        /\ snap \in [Indexes -> Seq(Segment)]
    BY <1>2
  <2>3. /\ 0 \in 0 .. MaxAttempts - 1 /\ -1 \in -1 .. Total - 1
        /\ width \in 0 .. MaxWorkers /\ size \in -1 .. Total
    BY <1>1, EngineAssumption
  <2>4. /\ attempt \in [Indexes -> 0 .. MaxAttempts - 1]
        /\ until \in [Indexes -> -1 .. Total - 1]
    BY <1>2, <2>3
  <2>5. failure \in Outcomes /\ Len(jobs) <= width /\ Len(results) <= 2 * width
    BY <1>1 DEF Outcomes
  <2>6. \A s \in {segs, base, told} : s \in Seq(Segment)
    BY <1>1, EmptyTyped
  <2>7. toStart \in Seq(Indexes) /\ jobs \in Seq(Indexes) /\ results \in Seq(Indexes \X Outcomes)
    BY <1>1
  <2>8. /\ cancelled \subseteq active /\ active \subseteq Indexes /\ splitting \subseteq Indexes
        /\ stopped \in BOOLEAN /\ splitSnap \in Seq(Segment) /\ at = "off"
        /\ durable \subseteq good /\ good \subseteq Bytes /\ final = Nothing
    BY <1>1, EmptyTyped
  <2> QED
    BY <2>1, <2>2, <2>3, <2>4, <2>5, <2>6, <2>7, <2>8 DEF EngineTypeOK
<1>5. Pool
  BY <1>1, <1>3 DEF Pool, Quiet
<1>6. Plans
  <2>1. \A i \in Indexes : work[i] # "deliver"
    BY <1>2
  <2> QED
    BY <1>1, <2>1 DEF Plans
<1>7. Outcome /\ Length
  BY <1>1 DEF Outcome, NothingForgotten, FinalReportIsLast, Length
<1>8. EngineInv
  BY <1>4, <1>5, <1>6, <1>7 DEF EngineInv
<1>9. row.state = "queued" /\ row.segs = Unplanned
  BY <1>1
<1>10. Row
  BY <1>1, <1>9, NothingPlanned DEF Row
<1>11. RecoveryTypeOK
  <2>1. row \in [state : States, segs : Seq(Segment)]
    BY <1>1, NothingPlanned DEF States
  <2>2. budget \in [DOMAIN Budget -> Nat]
    BY <1>1, RecoveryAssumption
  <2> QED
    BY <1>1, <1>4, <2>1, <2>2 DEF RecoveryTypeOK
<1> QED
  BY <1>8, <1>10, <1>11 DEF PoolInv

LEMMA PoolInvStep ==
  PoolInv /\ [Next]_vars => PoolInv'
<1> SUFFICES ASSUME PoolInv, [Next]_vars PROVE PoolInv'
  OBVIOUS
<1>1. CASE ProcessStep
  BY <1>1, ProbeStep, PrepareStep, ContinueRetryStep, RunStep, FinishStep, RecoverStep DEF ProcessStep
<1>2. CASE Report
  <2>1. EngineStepOK /\ Plan(told') /\ at # "off" /\ told' \in Seq(Segment)
    BY <1>2, ReportHolds DEF Report, PoolInv, EngineStepOK, Plan
  <2>2. SideTypes' /\ up' = up
    BY <1>2 DEF Report, PoolInv, RecoveryTypeOK, SideTypes
  <2>3. CASE row' = row
    BY <2>1, <2>2, <2>3, InCall
  <2>4. CASE Save("downloading", told')
    <3>1. /\ row'.segs = told' /\ row'.state = "downloading"
          /\ row' \in [state : States, segs : Seq(Segment)]
      BY <2>1, <2>4 DEF Save, States
    <3>2. Plan(row'.segs)
      BY <2>1, <3>1
    <3> QED
      BY <2>1, <2>2, <3>1, <3>2, InCall
  <2> QED
    BY <1>2, <2>3, <2>4 DEF Report, Checkpoint
<1>3. CASE EngineStep
  <2>1. EngineStepOK
    BY <1>3, EngineStepHolds DEF PoolInv
  <2>2. SideTypes' /\ up' = up /\ row' = row
    BY <1>3 DEF EngineStep, rowVars, PoolInv, RecoveryTypeOK, SideTypes
  <2> QED
    BY <2>1, <2>2, InCall
<1>4. CASE Resume \/ Retry \/ Restart \/ Pause \/ Close \/ Crash
  BY <1>4, ResumeStep, RetryStep, RestartStep, PauseStep, CloseStep, CrashStep
<1>5. CASE UNCHANGED vars
  <2>1. /\ UNCHANGED engineVars /\ UNCHANGED <<up, row, ranged, intent, budget>>
        /\ at' = at /\ size' = size
    BY <1>5 DEF vars, engineVars, rowVars, fileVars
  <2>2. EngineInv'
    BY <2>1, EngineSame DEF PoolInv
  <2>3. RecoveryTypeOK'
    BY <2>1, <2>2 DEF PoolInv, RecoveryTypeOK, EngineInv
  <2>4. Row'
    BY <2>1 DEF PoolInv, Row, Plan
  <2> QED
    BY <2>2, <2>3, <2>4 DEF PoolInv
<1> QED
  BY <1>1, <1>2, <1>3, <1>4, <1>5 DEF Next

\* The first layer of the invariant holds in every run, wherever it is cut off.
THEOREM PoolInvariant == Spec => []PoolInv
BY PoolInvInit, PoolInvStep, PTL DEF Spec

\* Every variable has its type; the channels stay within their capacity and no more
\* workers are busy than the pool has.
THEOREM RecoveryTypeCorrect == Spec => []RecoveryTypeOK
<1>1. PoolInv => RecoveryTypeOK
  BY DEF PoolInv
<1> QED
  BY <1>1, PoolInvariant, PTL

\* The segments in the reporter divide the resource, however often a tail is split
\* off while workers write.
THEOREM SegmentsAlwaysCover == Spec => []SegmentsCover
<1>1. PoolInv => SegmentsCover
  BY DEF PoolInv, EngineInv, Plans, Plan, SegmentsCover
<1> QED
  BY <1>1, PoolInvariant, PTL

\* Two responses that are being written never touch the same byte.
THEOREM WritersAreDisjoint == Spec => []WritersDisjoint
<1>1. PoolInv => WritersDisjoint
  <2> SUFFICES ASSUME PoolInv, NEW i \in Indexes, NEW j \in Indexes, i # j, Writing(i), Writing(j)
               PROVE  (segs[i].cur .. until[i]) \cap (segs[j].cur .. until[j]) = {}
    BY DEF WritersDisjoint, Writing
  <2>1. i \in Busy /\ j \in Busy /\ EngineInv
    BY DEF Writing, Busy, PoolInv
  <2>2. at = "ranges" /\ Plan(segs) /\ i \in 1 .. Len(segs) /\ j \in 1 .. Len(segs)
    BY <2>1, BusyWhere
  <2>3. until[i] = segs[i].end /\ until[j] = segs[j].end
    BY <2>1, <2>2 DEF EngineInv, Outcome
  <2>4. /\ segs[i].start \in Int /\ segs[i].cur \in Int /\ segs[i].end \in Int
        /\ segs[j].start \in Int /\ segs[j].cur \in Int /\ segs[j].end \in Int
        /\ segs[i].start <= segs[i].cur /\ segs[j].start <= segs[j].cur
    BY <2>2, PlanFacts
  <2>5. /\ i < j => segs[i].end < segs[j].start
        /\ j < i => segs[j].end < segs[i].start
        /\ i < j \/ j < i
    BY <2>2, ValidOrder, EngineAssumption DEF Plan
  <2> QED
    BY <2>3, <2>4, <2>5
<1> QED
  BY <1>1, PoolInvariant, PTL

\* A call of the engine that ends with neither a failure nor a stop has every byte.
THEOREM NothingIsForgotten == Spec => []NothingForgotten
<1>1. PoolInv => NothingForgotten
  BY DEF PoolInv, EngineInv, Outcome
<1> QED
  BY <1>1, PoolInvariant, PTL

\* When a call of the engine returns, what it told the callback last is what its
\* reporter holds: no older snapshot arrives after the final report.
THEOREM LastReportIsFinal == Spec => []FinalReportIsLast
<1>1. PoolInv => FinalReportIsLast
  BY DEF PoolInv, EngineInv, Outcome
<1> QED
  BY <1>1, PoolInvariant, PTL

\* Startup recovery finds a legal state for every row a process can leave behind.
THEOREM RecoveryIsAlwaysPossible == Spec => []RecoveryAlwaysPossible
<1>1. PoolInv => RecoveryAlwaysPossible
  <2> SUFFICES ASSUME PoolInv, row.state \in Recoverable
               PROVE  RecoveryTarget \in RecoveryTransitions[row.state]
    BY DEF RecoveryAlwaysPossible
  <2>1. RecoveryTarget \in {"queued", "paused", "failed"}
    BY DEF RecoveryTarget
  <2>2. CASE row.state = "probing"
    <3>1. Claimed(Reconcile(row.segs)) = {}
      BY <2>2, RowFacts, Reconciled DEF Row
    <3>2. RecoveryTarget \in {"queued", "failed"}
      BY <3>1 DEF RecoveryTarget
    <3> QED
      BY <2>2, <3>2 DEF RecoveryTransitions, States
  <2>3. CASE row.state # "probing"
    BY <2>1, <2>3 DEF Recoverable, RecoveryTransitions, States
  <2> QED
    BY <2>2, <2>3
<1> QED
  BY <1>1, PoolInvariant, PTL

(***************************************************************************)
(* The bytes behind the cursors, and the step of Transfer every step is.   *)
(***************************************************************************)
KeptBytes == IF Running THEN Claimed(base) ELSE {}
Published == IF final = Nothing THEN {} ELSE final

\* What every step shows of the second layer.
BytesOK == Backed' /\ [T!Next]_(T!vars)

LEMMA Stutters ==
  ASSUME UNCHANGED <<Running, KeptBytes, good, Published>>
  PROVE  UNCHANGED T!vars
BY DEF T!vars, KeptBytes, Published

\* Inside a call, a step that leaves the bytes, the plans and the row's segments alone.
LEMMA BytesUntouched ==
  ASSUME BytesInv, at # "off",
         UNCHANGED <<at, segs, base, told, good, durable, final, splitSnap, snap>>,
         row'.segs = row.segs, size' # -1 => size # -1,
         \A j \in Indexes : work'[j] = "deliver" => work[j] = "deliver"
  PROVE  BytesOK
<1>1. Backed'
  BY DEF BytesInv, Backed, CheckpointBacked, Claimed, Untouched
<1>2. UNCHANGED <<Running, KeptBytes, good, Published>>
  BY DEF Running, KeptBytes, Published, Claimed
<1> QED
  BY <1>1, <1>2, Stutters DEF BytesOK

LEMMA RequestBytes ==
  ASSUME BytesInv, NEW i \in Indexes, Request(i), row' = row
  PROVE  BytesOK
<1>1. /\ at = "ranges" /\ EngineTypeOK /\ size # -1
      /\ UNCHANGED <<at, segs, base, told, good, durable, final, coordVars, snap>>
  BY DEF Request, BytesInv, PoolInv, EngineInv, Length
<1>2. \E w \in Doings \ {"deliver"} : Become(i, w)
  BY <1>1, Retrying DEF Request, Doings, Outcomes
<1>3. \A j \in Indexes : work'[j] = "deliver" => work[j] = "deliver"
  BY <1>1, <1>2, Becoming
<1> QED
  BY <1>1, <1>3, BytesUntouched DEF coordVars

LEMMA EndOfBodyBytes ==
  ASSUME BytesInv, NEW i \in Indexes, EndOfBody(i), row' = row
  PROVE  BytesOK
<1>1. /\ EngineInv /\ EngineTypeOK /\ i \in Busy
      /\ UNCHANGED <<at, segs, base, told, fileVars, final, coordVars, snap>>
  BY DEF EndOfBody, BytesInv, PoolInv, EngineInv, Busy
<1>2. \E w \in Doings \ {"deliver"} : Become(i, w)
  BY <1>1, Retrying DEF EndOfBody, Doings, Outcomes
<1>3. \A j \in Indexes : work'[j] = "deliver" => work[j] = "deliver"
  BY <1>1, <1>2, Becoming
<1>4. at # "off"
  BY <1>1, BusyWhere
<1> QED
  BY <1>1, <1>3, <1>4, BytesUntouched DEF coordVars, fileVars

LEMMA ChannelBytes ==
  ASSUME BytesInv, row' = row,
         \/ \E i \in Indexes : SendResult(i)
         \/ Take \/ Launch \/ PassOnStop \/ RequestSplit
  PROVE  BytesOK
<1>1. EngineInv /\ EngineTypeOK
  BY DEF BytesInv, PoolInv, EngineInv
<1>2. ASSUME NEW i \in Indexes, SendResult(i)
      PROVE  BytesOK
  <2>1. /\ at = "ranges" /\ Become(i, "idle") /\ "idle" \in Doings
        /\ UNCHANGED <<at, segs, base, told, fileVars, final, coordVars, snap>>
    BY <1>2 DEF SendResult, Doings
  <2>2. \A j \in Indexes : work'[j] = "deliver" => work[j] = "deliver"
    BY <1>1, <2>1, Becoming
  <2> QED
    BY <2>1, <2>2, BytesUntouched DEF coordVars, fileVars
<1>3. CASE Take
  <2>1. /\ jobs # <<>> /\ Become(Head(jobs), "try") /\ "try" \in Doings /\ Head(jobs) \in Indexes
        /\ UNCHANGED <<at, segs, base, told, fileVars, final, coordVars, snap>>
    BY <1>1, <1>3, Received DEF Take, Doings, EngineTypeOK
  <2>2. at # "off"
    BY <1>1, <2>1 DEF EngineInv, Pool, Quiet
  <2>3. \A j \in Indexes : work'[j] = "deliver" => work[j] = "deliver"
    BY <1>1, <2>1, Becoming
  <2> QED
    BY <2>1, <2>2, <2>3, BytesUntouched DEF coordVars, fileVars
<1>4. CASE Launch \/ PassOnStop \/ RequestSplit
  <2>1. /\ at = "ranges"
        /\ UNCHANGED <<at, segs, base, told, fileVars, final, splitSnap, workVars>>
    BY <1>4 DEF Launch, PassOnStop, RequestSplit, Looping
  <2> QED
    BY <2>1, BytesUntouched DEF workVars, fileVars
<1> QED
  BY <1>2, <1>3, <1>4

LEMMA WriteByteBytes ==
  ASSUME BytesInv, NEW i \in Indexes, WriteByte(i), row' = row
  PROVE  BytesOK
<1>1. /\ EngineInv /\ EngineTypeOK /\ i \in Busy
      /\ UNCHANGED <<at, base, told, size, final, coordVars>>
      /\ segs' = Advance(segs, i) /\ good' = good \cup {segs[i].cur}
      /\ segs[i].cur <= Least(until[i], segs[i].end)
      /\ \/ UNCHANGED <<durable, work, snap>>
         \/ durable' = good' /\ snap' = [snap EXCEPT ![i] = segs'] /\ Become(i, "deliver")
  BY DEF WriteByte, Sync, BytesInv, PoolInv, EngineInv, Busy
<1>2. /\ i \in 1 .. Len(segs) /\ Plan(segs) /\ at \in {"ranges", "whole"}
      /\ at = "whole" => i = 1
  BY <1>1, BusyWhere
<1>3. segs[i].cur <= segs[i].end
  <2>1. segs[i].cur \in Int /\ segs[i].end \in Int
    BY <1>2, PlanFacts
  <2>2. until[i] \in Int
    BY <1>1, EngineAssumption DEF EngineTypeOK
  <2> QED
    BY <1>1, <2>1, <2>2 DEF Least
<1>4. /\ Claimed(segs') = Claimed(segs) \cup {segs[i].cur} /\ segs[i].cur \in Bytes
      /\ Len(segs') = Len(segs) /\ \A j \in 1 .. Len(segs) \ {i} : segs'[j] = segs[j]
  BY <1>1, <1>2, <1>3, ClaimedAdvance, AdvanceParts, EngineAssumption DEF Plan, Bytes
<1>5. Claimed(segs) \subseteq good /\ size # -1 /\ durable \subseteq good /\ good \subseteq Bytes
  BY <1>1, <1>2 DEF BytesInv, Backed, EngineInv, Length, EngineTypeOK
<1>6. Claimed(segs') \subseteq good' /\ durable \subseteq durable' /\ good \subseteq good'
  BY <1>1, <1>4, <1>5
<1>7. ASSUME at = "ranges", NEW j \in Indexes, work'[j] = "deliver"
      PROVE  Claimed(snap'[j]) \subseteq durable'
  <2>1. CASE UNCHANGED <<durable, work, snap>>
    <3>1. work[j] = "deliver" /\ snap'[j] = snap[j] /\ durable' = durable
      BY <1>7, <2>1
    <3> QED
      BY <1>7, <3>1 DEF BytesInv, Backed
  <2>2. CASE durable' = good' /\ snap' = [snap EXCEPT ![i] = segs'] /\ Become(i, "deliver")
    <3>1. CASE j = i
      <4>1. snap'[j] = segs'
        BY <1>1, <2>2, <3>1 DEF EngineTypeOK
      <4> QED
        BY <1>6, <2>2, <4>1
    <3>2. CASE j # i
      <4>1. work[j] = "deliver" /\ snap'[j] = snap[j]
        BY <1>1, <1>7, <2>2, <3>2 DEF EngineTypeOK, Become
      <4>2. Claimed(snap[j]) \subseteq durable
        BY <1>7, <4>1 DEF BytesInv, Backed
      <4> QED
        BY <1>6, <4>1, <4>2
    <3> QED
      BY <3>1, <3>2
  <2> QED
    BY <1>1, <2>1, <2>2
<1>8. at = "whole" => Untouched'
  <2> SUFFICES ASSUME at = "whole", NEW j \in 2 .. Len(segs')
               PROVE  segs'[j].cur = segs'[j].start
    BY DEF Untouched
  <2>1. j \in 2 .. Len(segs) /\ j \in 1 .. Len(segs) \ {i}
    BY <1>2, <1>4, PlanFacts
  <2> QED
    BY <1>4, <2>1 DEF BytesInv, Backed, Untouched
<1>9. splitSnap' = splitSnap
  BY <1>1 DEF coordVars
<1>10. Backed'
  BY <1>1, <1>2, <1>5, <1>6, <1>7, <1>8, <1>9 DEF BytesInv, Backed, CheckpointBacked
<1>11. T!Fetch
  BY <1>1, <1>2, <1>4, <1>5, <1>6 DEF T!Fetch, Running
<1> QED
  BY <1>10, <1>11 DEF BytesOK, T!Next

\* A report that reaches the callback, and the checkpoint it may make.
LEMMA ReportBytes ==
  ASSUME BytesInv, Report
  PROVE  BytesOK
<1>1. EngineInv /\ EngineTypeOK /\ Row /\ (row' = row \/ row'.segs = told')
  BY DEF Report, Checkpoint, Save, BytesInv, PoolInv, EngineInv
<1>2. ASSUME NEW i \in Indexes, Deliver(i)
      PROVE  BytesOK
  <2>1. /\ work[i] = "deliver" /\ i \in Busy /\ Become(i, "stream") /\ "stream" \in Doings
        /\ told' = snap[i] /\ snap' = [snap EXCEPT ![i] = <<>>]
        /\ UNCHANGED <<at, segs, base, fileVars, final, coordVars>>
    BY <1>2 DEF Deliver, Busy, Doings
  <2>2. at \in {"ranges", "whole"}
    BY <1>1, <2>1, BusyWhere
  <2>3. \A j \in Indexes : work'[j] = "deliver" => work[j] = "deliver" /\ snap'[j] = snap[j]
    BY <1>1, <2>1, Becoming DEF EngineTypeOK
  <2>4. at = "ranges" => Claimed(told') \subseteq durable
    BY <2>1 DEF BytesInv, Backed
  <2>5. UNCHANGED <<size, good, durable, splitSnap>> /\ (Untouched' <=> Untouched)
    BY <2>1 DEF fileVars, coordVars, Untouched
  <2>6. at = "ranges" => Claimed(row'.segs) \subseteq durable
    BY <1>1, <2>4 DEF BytesInv, Backed
  <2>7. Backed'
    BY <2>1, <2>2, <2>3, <2>4, <2>5, <2>6 DEF BytesInv, Backed, CheckpointBacked
  <2>8. UNCHANGED <<Running, KeptBytes, good, Published>>
    BY <2>1, <2>5 DEF Running, KeptBytes, Published
  <2> QED
    BY <2>7, <2>8, Stutters DEF BytesOK
<1>3. CASE DeliverSplit
  <2>1. /\ splitSnap # <<>> /\ told' = splitSnap /\ splitSnap' = <<>>
        /\ UNCHANGED <<at, segs, base, fileVars, final, workVars>>
    BY <1>3 DEF DeliverSplit
  <2>2. at = "ranges"
    BY <1>1, <2>1 DEF EngineInv, Pool, Quiet
  <2>3. UNCHANGED <<size, good, durable, work, snap>>
    BY <2>1 DEF fileVars, workVars
  <2>4. Claimed(told') \subseteq durable /\ Claimed(row'.segs) \subseteq durable
    BY <1>1, <2>1, <2>2 DEF BytesInv, Backed
  <2>5. Claimed(splitSnap') \subseteq durable
    BY <2>1 DEF Claimed
  <2>6. Backed'
    BY <2>1, <2>2, <2>3, <2>4, <2>5 DEF BytesInv, Backed, CheckpointBacked
  <2>7. UNCHANGED <<Running, KeptBytes, good, Published>>
    BY <2>1, <2>3 DEF Running, KeptBytes, Published
  <2> QED
    BY <2>6, <2>7, Stutters DEF BytesOK
<1>4. CASE LastReport
  <2>1. /\ at = "last" /\ at' \in {"rename", "ended"} /\ durable' = good /\ told' = segs
        /\ UNCHANGED <<segs, base, size, good, final>>
    BY <1>4 DEF LastReport, Sync
  <2>2. durable \subseteq good /\ Claimed(base) \subseteq durable
    BY <1>1, <2>1 DEF BytesInv, Backed, EngineTypeOK
  <2>3. Backed'
    BY <2>1, <2>2 DEF BytesInv, Backed, CheckpointBacked
  <2>4. CASE at' = "rename"
    <3>1. UNCHANGED <<Running, KeptBytes, good, Published>>
      BY <2>1, <2>4 DEF Running, KeptBytes, Published
    <3> QED
      BY <2>3, <3>1, Stutters DEF BytesOK
  <2>5. CASE at' = "ended"
    <3>1. T!Stop
      BY <2>1, <2>5 DEF T!Stop, Running
    <3> QED
      BY <2>3, <3>1 DEF BytesOK, T!Next
  <2> QED
    BY <2>1, <2>3, <2>4, <2>5
<1> QED
  BY <1>2, <1>3, <1>4 DEF Report

LEMMA RequestWholeBytes ==
  ASSUME BytesInv, RequestWhole, row' = row
  PROVE  BytesOK
<1>1. /\ EngineInv /\ EngineTypeOK /\ at = "whole" /\ work[1] = "try" /\ 1 \in Indexes
      /\ UNCHANGED <<at, base, told, final, coordVars, snap>>
      /\ size # -1 /\ Claimed(base) = {} /\ Untouched /\ Plan(segs)
  BY EngineAssumption
  DEF RequestWhole, BytesInv, PoolInv, EngineInv, Backed, Length, Plans, Indexes
<1>2. CASE UNCHANGED <<segs, fileVars>> /\ Become(1, "cancelled")
  <2>1. "cancelled" \in Doings
    BY DEF Doings, Outcomes
  <2>2. \A j \in Indexes : work'[j] = "deliver" => work[j] = "deliver"
    BY <1>1, <1>2, <2>1, Becoming
  <2> QED
    BY <1>1, <1>2, <2>2, BytesUntouched DEF coordVars, fileVars
<1>3. CASE /\ good' = {} /\ durable' = {}
           /\ segs' = [segs EXCEPT ![1].cur = segs[1].start]
  <2>1. segs \in Seq(Segment) /\ ValidSegments(segs, Total) /\ Total \in Nat \ {0} /\ Len(segs) \in Nat
    BY <1>1, PlanFacts, EngineAssumption DEF Plan
  <2>2. \A t : t = [segs EXCEPT ![1].cur = segs[1].start] =>
          /\ t \in Seq(Segment) /\ ValidSegments(t, Total) /\ Len(t) = Len(segs)
          /\ t[1].cur = t[1].start
    BY <2>1, FromTheStart, Zenon
  <2>3. /\ segs' \in Seq(Segment) /\ ValidSegments(segs', Total) /\ Len(segs') = Len(segs)
        /\ segs'[1].cur = segs'[1].start
    BY <1>3, <2>2, Zenon
  <2>4. \A j \in 2 .. Len(segs) : segs'[j] = segs[j] /\ j \in 1 .. Len(segs)
    BY <1>3, <2>1
  <2>5. \A j \in 1 .. Len(segs') : segs'[j].start \in Int /\ segs'[j].cur = segs'[j].start
    <3> SUFFICES ASSUME NEW j \in 1 .. Len(segs')
                 PROVE  segs'[j].start \in Int /\ segs'[j].cur = segs'[j].start
      OBVIOUS
    <3>1. segs'[j].start \in Int
      BY <2>1, <2>3, ValidParts
    <3>2. CASE j = 1
      BY <2>3, <3>1, <3>2
    <3>3. CASE j # 1
      <4>1. j \in 2 .. Len(segs)
        BY <2>1, <2>3, <3>3
      <4>2. segs'[j] = segs[j] /\ segs[j].cur = segs[j].start
        BY <1>1, <2>4, <4>1 DEF Untouched
      <4> QED
        BY <3>1, <4>2
    <3> QED
      BY <3>2, <3>3
  <2>6. Claimed(segs') = {}
    BY <2>5, ClaimedFresh
  <2>7. Untouched'
    <3>1. \A j \in 2 .. Len(segs') : j \in 1 .. Len(segs')
      BY <2>1, <2>3
    <3> QED
      BY <2>5, <3>1 DEF Untouched
  <2>8. Backed'
    BY <1>1, <1>3, <2>6, <2>7 DEF BytesInv, Backed, CheckpointBacked
  <2>9. T!StartOver
    BY <1>1, <1>3 DEF T!StartOver, Running
  <2> QED
    BY <2>8, <2>9 DEF BytesOK, T!Next
<1> QED
  BY <1>2, <1>3 DEF RequestWhole

LEMMA CollectBytes ==
  ASSUME BytesInv, Collect, row' = row
  PROVE  BytesOK
<1> DEFINE i == results[1][1]
<1>1. /\ EngineInv /\ EngineTypeOK /\ at = "ranges" /\ results # <<>>
      /\ UNCHANGED <<at, base, told, size, good, final, workVars>>
      /\ Plan(segs) /\ durable \subseteq good /\ size # -1 /\ Claimed(segs) \subseteq good
  BY DEF Collect, Looping, BytesInv, PoolInv, EngineInv, Plans, EngineTypeOK, Backed, Length
<1>2. i \in 1 .. Len(segs)
  <2>1. results \in Seq(Indexes \X Outcomes) /\ 1 \in 1 .. Len(results)
    BY <1>1 DEF EngineTypeOK
  <2> QED
    BY <1>1, <2>1 DEF EngineInv, Pool, OnePlace, Reported
<1>3. \/ UNCHANGED <<segs, durable, splitSnap>>
      \/ /\ CanSplit(segs, i, SplitMinimum) /\ segs' = SplitTail(segs, i)
         /\ durable' = good /\ splitSnap' = segs'
  BY DEF Collect, StartAgain, Settle, Sync
<1> HIDE DEF i
<1>4. CASE UNCHANGED <<segs, durable, splitSnap>>
  BY <1>1, <1>4, BytesUntouched DEF workVars
<1>5. CASE /\ CanSplit(segs, i, SplitMinimum) /\ segs' = SplitTail(segs, i)
           /\ durable' = good /\ splitSnap' = segs'
  <2>1. Claimed(segs') = Claimed(segs)
    BY <1>1, <1>2, <1>5, ClaimedSplit, EngineAssumption DEF Plan
  <2>2. UNCHANGED <<work, snap>>
    BY <1>1 DEF workVars
  <2>3. Backed'
    BY <1>1, <1>5, <2>1, <2>2 DEF BytesInv, Backed, CheckpointBacked
  <2>4. UNCHANGED <<Running, KeptBytes, good, Published>>
    BY <1>1 DEF Running, KeptBytes, Published
  <2> QED
    BY <2>3, <2>4, Stutters DEF BytesOK
<1> QED
  BY <1>3, <1>4, <1>5

LEMMA EndBytes ==
  ASSUME BytesInv, row' = row, EndRanges \/ EndWhole \/ Rename
  PROVE  BytesOK
<1>1. EngineInv /\ EngineTypeOK
  BY DEF BytesInv, PoolInv, EngineInv
<1>2. CASE EndRanges /\ MayFallBack
  <2>1. /\ at = "ranges" /\ at' = "whole" /\ base' = Whole(Total) /\ segs' = Whole(Total)
        /\ good' = {} /\ durable' = {} /\ final' = final /\ Claimed(base) = {}
    BY <1>2 DEF EndRanges, MayFallBack
  <2>2. Claimed(Whole(Total)) = {} /\ Len(Whole(Total)) = 1
    BY WholeIsPlan, EngineAssumption
  <2>3. Untouched'
    BY <2>1, <2>2 DEF Untouched
  <2>4. Backed'
    BY <2>1, <2>2, <2>3 DEF BytesInv, Backed, CheckpointBacked
  <2>5. T!StartOver
    BY <2>1, <2>2 DEF T!StartOver, Running
  <2> QED
    BY <2>4, <2>5 DEF BytesOK, T!Next
<1>3. CASE EndRanges /\ ~MayFallBack
  <2>1. /\ at = "ranges" /\ at' = "last" /\ UNCHANGED <<base, segs, fileVars, final>>
    BY <1>3 DEF EndRanges
  <2>2. UNCHANGED <<size, good, durable>>
    BY <2>1 DEF fileVars
  <2>3. Backed'
    BY <2>1, <2>2 DEF BytesInv, Backed, CheckpointBacked
  <2>4. UNCHANGED <<Running, KeptBytes, good, Published>>
    BY <2>1, <2>2 DEF Running, KeptBytes, Published
  <2> QED
    BY <2>3, <2>4, Stutters DEF BytesOK
<1>4. CASE EndWhole
  <2>1. /\ at = "whole" /\ at' = "last" /\ UNCHANGED <<base, segs, fileVars, final>>
    BY <1>4 DEF EndWhole
  <2>2. UNCHANGED <<size, good, durable>>
    BY <2>1 DEF fileVars
  <2>3. Backed'
    BY <2>1, <2>2 DEF BytesInv, Backed, CheckpointBacked
  <2>4. UNCHANGED <<Running, KeptBytes, good, Published>>
    BY <2>1, <2>2 DEF Running, KeptBytes, Published
  <2> QED
    BY <2>3, <2>4, Stutters DEF BytesOK
<1>5. CASE Rename
  <2>1. /\ at = "rename" /\ at' = "ended" /\ final' = good
        /\ size' = -1 /\ good' = {} /\ durable' = {}
    BY <1>5 DEF Rename
  <2>2. good = Bytes
    <3>1. Claimed(segs) = Bytes /\ size # -1 /\ good \subseteq Bytes
      BY <1>1, <2>1, EngineAssumption DEF EngineInv, Outcome, EngineTypeOK
    <3>2. Claimed(segs) \subseteq good
      BY <2>1, <3>1 DEF BytesInv, Backed
    <3> QED
      BY <3>1, <3>2
  <2>3. good # Nothing
    <3>1. -1 \notin Bytes
      BY EngineAssumption DEF Bytes
    <3> QED
      BY <2>2, <3>1 DEF Nothing
  <2>4. Backed'
    BY <2>1, <2>2 DEF Backed, CheckpointBacked
  <2>5. T!Publish
    BY <2>1, <2>2, <2>3 DEF T!Publish, Running
  <2> QED
    BY <2>4, <2>5 DEF BytesOK, T!Next
<1> QED
  BY <1>2, <1>3, <1>4, <1>5

LEMMA EngineStepBytes ==
  ASSUME BytesInv, EngineStep
  PROVE  BytesOK
<1>1. row' = row
  BY DEF EngineStep, rowVars
<1>2. CASE Coordinator
  BY <1>1, <1>2, ChannelBytes, CollectBytes, EndBytes, RequestWholeBytes DEF Coordinator
<1>3. CASE RequestSplit \/ Take
  BY <1>1, <1>3, ChannelBytes
<1>4. ASSUME NEW i \in Indexes, Worker(i)
      PROVE  BytesOK
  BY <1>1, <1>4, RequestBytes, WriteByteBytes, EndOfBodyBytes, ChannelBytes DEF Worker
<1> QED
  BY <1>2, <1>3, <1>4 DEF EngineStep

(***************************************************************************)
(* Between calls.                                                          *)
(***************************************************************************)
LEMMA SaveBytes ==
  ASSUME BytesInv, at = "off", UNCHANGED engineVars,
         size >= 0 => Claimed(row'.segs) \subseteq Claimed(row.segs)
  PROVE  BytesOK
<1>1. UNCHANGED <<at, segs, base, size, good, durable, final>>
  BY DEF engineVars, fileVars
<1>2. Backed'
  BY <1>1 DEF BytesInv, Backed, CheckpointBacked
<1>3. UNCHANGED <<Running, KeptBytes, good, Published>>
  BY <1>1 DEF Running, KeptBytes, Published
<1> QED
  BY <1>2, <1>3, Stutters DEF BytesOK

LEMMA ReconciledRow ==
  ASSUME BytesInv
  PROVE  Claimed(Reconcile(row.segs)) \subseteq Claimed(row.segs)
BY RowFacts, Reconciled DEF BytesInv

LEMMA ContinueBytes ==
  ASSUME BytesInv, at = "off", UNCHANGED engineVars, NEW supported \in BOOLEAN, Continue(supported)
  PROVE  BytesOK
<1>1. row'.segs \in {row.segs, Reconcile(row.segs)}
  BY DEF Continue, Save
<1> QED
  BY <1>1, ReconciledRow, SaveBytes

LEMMA ProcessBytes ==
  ASSUME BytesInv, Probe \/ Prepare \/ ContinueRetry \/ Recover \/ Resume \/ Retry
  PROVE  BytesOK
<1>1. CASE Probe \/ Retry
  <2>1. at = "off" /\ UNCHANGED engineVars /\ row'.segs = row.segs
    BY <1>1 DEF Probe, Retry, Idle, Save
  <2> QED
    BY <2>1, SaveBytes
<1>2. CASE Prepare
  <2>1. at = "off" /\ UNCHANGED engineVars
    BY <1>2 DEF Prepare, Idle
  <2>2. Claimed(row'.segs) \subseteq Claimed(row.segs)
    <3>1. CASE Save("failed", row.segs)
      BY <3>1 DEF Save
    <3>2. ASSUME NEW supported \in BOOLEAN, NEW connections \in Connections,
                 Save("preparing", PlanSegments(Total, IF supported THEN connections ELSE 1))
          PROVE  Claimed(row'.segs) = {}
      <4> DEFINE n == IF supported THEN connections ELSE 1
      <4>1. n \in Nat \ {0}
        BY RecoveryAssumption
      <4>2. Claimed(PlanSegments(Total, n)) = {}
        BY <4>1, PlanIsValid, EngineAssumption
      <4>3. row'.segs = PlanSegments(Total, n)
        BY <3>2 DEF Save
      <4> QED
        BY <4>2, <4>3
    <3> QED
      BY <1>2, <3>1, <3>2 DEF Prepare
  <2> QED
    BY <2>1, <2>2, SaveBytes
<1>3. CASE ContinueRetry \/ Resume
  <2>1. /\ at = "off" /\ UNCHANGED engineVars
        /\ \E supported \in BOOLEAN : Continue(supported)
    BY <1>3 DEF ContinueRetry, Resume, Idle
  <2> QED
    BY <2>1, ContinueBytes
<1>4. CASE Recover
  <2>1. /\ at = "off" /\ UNCHANGED engineVars
        /\ row'.segs \in {row.segs, Reconcile(row.segs)}
    BY <1>4 DEF Recover, Save, BytesInv, PoolInv, Row
  <2> QED
    BY <2>1, ReconciledRow, SaveBytes
<1> QED
  BY <1>1, <1>2, <1>3, <1>4

LEMMA RestartBytes ==
  ASSUME BytesInv, Restart
  PROVE  BytesOK
<1>1. /\ at = "off" /\ good' = {} /\ durable' = {} /\ row'.segs = Unplanned
      /\ UNCHANGED <<at, base, segs, final>>
  BY DEF Restart, Idle, Save
<1>2. Backed'
  BY <1>1, NothingPlanned DEF BytesInv, Backed, CheckpointBacked
<1>3. T!Discard
  BY <1>1 DEF T!Discard, Running
<1> QED
  BY <1>2, <1>3 DEF BytesOK, T!Next

LEMMA RunBytes ==
  ASSUME BytesInv, Run
  PROVE  BytesOK
<1>1. /\ at = "off" /\ row.state = "preparing" /\ ranged \in BOOLEAN
      /\ EngineInv /\ Row /\ row.segs \in Seq(Segment) /\ durable = good /\ good \subseteq Bytes
  BY DEF Run, Idle, BytesInv, PoolInv, RecoveryTypeOK, Backed, EngineInv, EngineTypeOK
<1>2. CASE ValidSegments(row.segs, Total)
  <2>1. /\ base' = row.segs /\ segs' = row.segs /\ told' = row.segs /\ row'.segs = row.segs
        /\ at' = IF ranged THEN "ranges" ELSE "whole"
        /\ UNCHANGED <<good, durable, final, snap, splitSnap>>
        /\ work' = IF ranged THEN work ELSE [work EXCEPT ![1] = "try"]
    BY <1>2 DEF Run, Download, Save, coordVars
  <2>2. Plan(row.segs) /\ Total \in Nat \ {0}
    BY <1>1, <1>2, EngineAssumption DEF Plan
  <2>3. Claimed(row.segs) = {} \/ (size = Total /\ ranged)
    BY <1>1 DEF Row
  <2>4. Claimed(row.segs) \subseteq good
    BY <1>1, <2>2, <2>3 DEF BytesInv, Backed, CheckpointBacked
  <2>5. /\ splitSnap = <<>> /\ Claimed(<<>>) = {}
        /\ \A j \in Indexes : work[j] = "idle"
    BY <1>1 DEF EngineInv, Pool, Quiet, Claimed, Busy
  <2>6. ~ranged => Untouched'
    <3> SUFFICES ASSUME ~ranged, NEW j \in 2 .. Len(row.segs)
                 PROVE  row.segs[j].cur = row.segs[j].start
      BY <2>1 DEF Untouched
    <3> DEFINE s == row.segs[j]
    <3>1. j \in 1 .. Len(row.segs)
      BY <2>2, PlanFacts
    <3>2. s.start \in Nat /\ s.cur \in Nat /\ s.start <= s.cur
      BY <2>2, <3>1, PlanFacts
    <3>3. s.start .. s.cur - 1 \subseteq Claimed(row.segs)
      BY <3>1 DEF Claimed
    <3>4. Claimed(row.segs) = {}
      BY <2>3
    <3> HIDE DEF s
    <3>5. s.start \notin s.start .. s.cur - 1
      BY <3>3, <3>4
    <3>6. s.cur = s.start
      BY <3>2, <3>5
    <3> QED
      BY <3>6 DEF s
  <2>7. Backed'
    BY <1>1, <2>1, <2>3, <2>4, <2>5, <2>6 DEF BytesInv, Backed, CheckpointBacked
  <2>8. T!Begin
    BY <1>1, <2>1, <2>4 DEF T!Begin, Running
  <2> QED
    BY <2>7, <2>8 DEF BytesOK, T!Next
<1>3. CASE ~ValidSegments(row.segs, Total)
  <2>1. row'.segs = row.segs /\ UNCHANGED engineVars
    BY <1>3 DEF Run, Save
  <2> QED
    BY <1>1, <2>1, SaveBytes
<1> QED
  BY <1>2, <1>3

LEMMA StopBytes ==
  ASSUME BytesInv, Pause \/ Close
  PROVE  BytesOK
<1>1. /\ at # "off" /\ row'.segs = row.segs
      /\ UNCHANGED <<at, segs, base, told, fileVars, final, coordVars, workVars>>
  BY DEF Pause, Close, Save, rowVars
<1> QED
  BY <1>1, BytesUntouched DEF fileVars, coordVars, workVars

LEMMA FinishBytes ==
  ASSUME BytesInv, Finish
  PROVE  BytesOK
<1>1. /\ at = "ended" /\ at' = "off" /\ UNCHANGED <<fileVars, final>>
      /\ EngineInv /\ Plan(told) /\ told = segs /\ Length
      /\ size = -1 <=> failure = "ok"
  BY DEF Finish, NoCall, BytesInv, PoolInv, EngineInv, Plans, Outcome, FinalReportIsLast
<1>2. UNCHANGED <<size, good, durable>>
  BY <1>1 DEF fileVars
<1>3. failure # "ok" => row'.segs \in {told, Reconcile(told)}
  <2>1. failure # "ok" => \E state \in States, s \in {told, Reconcile(told)} : Save(state, s)
    <3>1. {"paused", "failed", "downloading"} \subseteq States
      BY DEF States
    <3> QED
      BY <3>1, Zenon DEF Finish
  <2> QED
    BY <2>1 DEF Save
<1>4. Claimed(Reconcile(told)) \subseteq Claimed(told)
  BY <1>1, Reconciled DEF Kept
<1>5. size' >= 0 => Claimed(row'.segs) \subseteq good'
  <2>1. size' >= 0 => size # -1 /\ failure # "ok"
    BY <1>1, <1>2
  <2>2. size # -1 => Claimed(told) \subseteq good
    BY <1>1 DEF BytesInv, Backed
  <2> QED
    BY <1>2, <1>3, <1>4, <2>1, <2>2
<1>6. Backed'
  BY <1>1, <1>2, <1>5 DEF BytesInv, Backed, CheckpointBacked
<1>7. UNCHANGED <<Running, KeptBytes, good, Published>>
  BY <1>1, <1>2 DEF Running, KeptBytes, Published
<1> QED
  BY <1>6, <1>7, Stutters DEF BytesOK

\* A crash takes away only what has not been synced, and the row does not claim that:
\* unless it falls into a fallback, where it may.
LEMMA CrashBytes ==
  ASSUME BytesInv, ~CrashInFallback, Crash
  PROVE  BytesOK
<1>1. /\ at' = "off" /\ good' \in {good, durable} /\ durable' = good'
      /\ UNCHANGED <<size, final, row>> /\ ~Torn
      /\ EngineInv /\ EngineTypeOK /\ Row /\ Length
  BY DEF Crash, NoCall, rowVars, BytesInv, PoolInv, EngineInv
<1>2. durable \subseteq good' /\ good' \subseteq good /\ good \subseteq Bytes
  BY <1>1 DEF EngineTypeOK
<1>3. size >= 0 => Claimed(row.segs) \subseteq durable
  <2>1. CASE at \in {"whole", "last", "ended"}
    BY <1>1, <2>1 DEF Torn
  <2>2. CASE at = "ranges"
    BY <2>2 DEF BytesInv, Backed
  <2>3. CASE at = "rename"
    <3>1. Bytes \subseteq durable
      BY <1>1, <2>3, EngineAssumption DEF BytesInv, Backed, EngineInv, Outcome
    <3>2. Claimed(row.segs) \subseteq Bytes
      BY <2>3, RowFacts, PlanFacts DEF BytesInv
    <3> QED
      BY <3>1, <3>2
  <2>4. CASE at = "off"
    BY <2>4 DEF BytesInv, Backed, CheckpointBacked
  <2> QED
    BY <1>1, <2>1, <2>2, <2>3, <2>4 DEF EngineTypeOK
<1>4. KeptBytes \subseteq durable
  <2>1. CASE at = "whole"
    BY <2>1 DEF KeptBytes, BytesInv, Backed
  <2>2. CASE at \in {"ranges", "last", "rename"}
    BY <2>2 DEF KeptBytes, BytesInv, Backed
  <2>3. CASE at \in {"off", "ended"}
    BY <2>3 DEF KeptBytes, Running
  <2> QED
    BY <1>1, <2>1, <2>2, <2>3 DEF EngineTypeOK
<1>5. Backed'
  BY <1>1, <1>2, <1>3 DEF BytesInv, Backed, CheckpointBacked
<1>6. T!Crash
  BY <1>1, <1>2, <1>4 DEF T!Crash, KeptBytes, Running
<1> QED
  BY <1>5, <1>6 DEF BytesOK, T!Next

LEMMA BytesStep ==
  ASSUME ~CrashInFallback
  PROVE  BytesInv /\ [Next]_vars => BytesInv' /\ [T!Next]_(T!vars)
<1> SUFFICES ASSUME BytesInv, [Next]_vars PROVE BytesInv' /\ [T!Next]_(T!vars)
  OBVIOUS
<1>1. PoolInv'
  BY PoolInvStep DEF BytesInv
<1>2. ASSUME ProcessStep PROVE BytesOK
  BY <1>2, ProcessBytes, RunBytes, FinishBytes DEF ProcessStep
<1>3. ASSUME Report PROVE BytesOK
  BY <1>3, ReportBytes
<1>4. ASSUME EngineStep PROVE BytesOK
  BY <1>4, EngineStepBytes
<1>5. ASSUME Resume \/ Retry \/ Restart \/ Pause \/ Close \/ Crash PROVE BytesOK
  BY <1>5, ProcessBytes, RestartBytes, StopBytes, CrashBytes
<1>6. ASSUME UNCHANGED vars PROVE BytesOK
  <2>1. /\ UNCHANGED <<at, segs, base, told, final, splitSnap, size, good, durable>>
        /\ UNCHANGED <<work, snap, row>>
    BY <1>6 DEF vars, engineVars, rowVars, fileVars, coordVars, workVars
  <2>2. Backed'
    BY <2>1 DEF BytesInv, Backed, CheckpointBacked, Untouched
  <2>3. UNCHANGED <<Running, KeptBytes, good, Published>>
    BY <2>1 DEF Running, KeptBytes, Published
  <2> QED
    BY <2>2, <2>3, Stutters DEF BytesOK
<1>7. BytesOK
  BY <1>2, <1>3, <1>4, <1>5, <1>6 DEF Next
<1> QED
  BY <1>1, <1>7 DEF BytesOK, BytesInv

LEMMA BytesInit ==
  Init => BytesInv /\ T!Init
<1> SUFFICES ASSUME Init PROVE BytesInv /\ T!Init
  OBVIOUS
<1>1. PoolInv
  BY PoolInvInit
<1>2. /\ at = "off" /\ good = {} /\ durable = {} /\ final = Nothing /\ row.segs = Unplanned
      /\ segs = <<>>
  BY DEF Init, EngineInit
<1>3. Backed
  BY <1>2, NothingPlanned DEF Backed, CheckpointBacked
<1>4. T!Init
  BY <1>2 DEF T!Init, Running
<1> QED
  BY <1>1, <1>3, <1>4 DEF BytesInv

\* Both layers of the invariant hold, as long as no crash falls between the truncation
\* of a file whose progress is in the row and the next checkpoint.
THEOREM BytesInvariant ==
  ASSUME ~CrashInFallback
  PROVE  Spec => []BytesInv
<1>1. Init => BytesInv
  BY BytesInit
<1>2. BytesInv /\ [Next]_vars => BytesInv'
  BY BytesStep
<1> QED
  BY <1>1, <1>2, PTL DEF Spec

\* Between two runs the row claims only bytes that the temporary file holds, and what
\* takes the final name is the whole resource.
THEOREM CheckpointsAreBacked ==
  ASSUME ~CrashInFallback
  PROVE  Spec => [](CheckpointBacked /\ PublishedIsComplete)
<1>1. BytesInv => CheckpointBacked /\ PublishedIsComplete
  BY DEF BytesInv, Backed, PublishedIsComplete
<1>2. Spec => []BytesInv
  BY BytesInvariant
<1> QED
  BY <1>1, <1>2, PTL

\* The engine, its checkpoints and recovery implement Transfer: the progress a call
\* starts from survives fallbacks and crashes, and only a whole file is published.
THEOREM ProgressKept ==
  ASSUME ~CrashInFallback
  PROVE  Spec => ProgressIsKept
<1>1. Init => T!Init
  BY BytesInit
<1>2. BytesInv /\ [Next]_vars => [T!Next]_(T!vars)
  BY BytesStep
<1>3. Spec => []BytesInv
  BY BytesInvariant
<1> QED
  BY <1>1, <1>2, <1>3, PTL DEF Spec, ProgressIsKept, T!Spec
=============================================================================

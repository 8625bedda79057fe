--------------------------- MODULE SegmentsProofs ---------------------------
(***************************************************************************)
(* The arithmetic of the planner and of tail splitting, for every length   *)
(* and every number of connections.                                        *)
(***************************************************************************)
EXTENDS Segments, SequenceTheorems, FiniteSetTheorems, TLAPS

\* Ranges begin where the previous one ends: range index of count is longer than
\* nothing, and the count-th ends with the last byte.
LEMMA StartOfType ==
  ASSUME NEW total \in Nat, NEW count \in Nat \ {0}, NEW index \in Nat \ {0}
  PROVE  StartOf(total, count, index) \in Nat
<1> DEFINE q == total \div count
           r == total % count
<1>1. q \in Nat /\ r \in Nat
  OBVIOUS
<1>2. (index - 1) * q \in Nat
  <2> HIDE DEF q
  <2>1. \A a, b \in Nat : a * b \in Nat
    OBVIOUS
  <2> QED BY <1>1, <2>1
<1>3. Least(index - 1, r) \in Nat
  BY <1>1 DEF Least
<1> QED BY <1>2, <1>3 DEF StartOf

LEMMA StartOfStep ==
  ASSUME NEW total \in Nat, NEW count \in Nat \ {0}, NEW index \in Nat \ {0}, count <= total
  PROVE  StartOf(total, count, index) < StartOf(total, count, index + 1)
<1> DEFINE q == total \div count
           r == total % count
<1>1. q \in Nat /\ r \in Nat
  OBVIOUS
<1>2. q >= 1
  OBVIOUS
<1>3. ((index + 1) - 1) * q = (index - 1) * q + q
  <2> HIDE DEF q
  <2>1. \A a, b \in Nat : (a + 1) * b = a * b + b
    OBVIOUS
  <2>2. (index - 1) \in Nat /\ (index + 1) - 1 = (index - 1) + 1
    OBVIOUS
  <2> QED BY <1>1, <2>1, <2>2
<1>4. Least(index - 1, r) <= Least((index + 1) - 1, r)
      /\ Least(index - 1, r) \in Nat /\ Least((index + 1) - 1, r) \in Nat
  BY <1>1 DEF Least
<1>5. (index - 1) * q \in Nat
  <2> HIDE DEF q
  <2>1. \A a, b \in Nat : a * b \in Nat
    OBVIOUS
  <2> QED BY <1>1, <2>1
<1> HIDE DEF q, r
<1> QED BY <1>1, <1>2, <1>3, <1>4, <1>5 DEF StartOf, q, r

LEMMA StartOfEnds ==
  ASSUME NEW total \in Nat, NEW count \in Nat \ {0}
  PROVE  /\ StartOf(total, count, 1) = 0
         /\ StartOf(total, count, count + 1) = total
<1> DEFINE q == total \div count
           r == total % count
<1>1. q \in Nat /\ r \in Nat /\ r < count
  OBVIOUS
<1>2. total = count * q + r
  OBVIOUS
<1>3. Least(0, r) = 0 /\ Least(count, r) = r
  BY <1>1 DEF Least
<1>4. 1 - 1 = 0 /\ (count + 1) - 1 = count
  OBVIOUS
<1>5. 0 * q = 0
  BY <1>1
<1> HIDE DEF q, r
<1> QED BY <1>1, <1>2, <1>3, <1>4, <1>5 DEF StartOf, q, r

\* A function on 1 .. n is a sequence of length n.
LEMMA FunctionIsSequence ==
  ASSUME NEW S, NEW n \in Nat, NEW f \in [1 .. n -> S]
  PROVE  f \in Seq(S) /\ Len(f) = n
<1>1. f \in UNION {[1 .. k -> S] : k \in Nat}
  OBVIOUS
<1>2. f \in Seq(S)
  BY <1>1, SeqDef, Zenon
<1>3. DOMAIN f = 1 .. n
  OBVIOUS
<1> QED BY <1>2, <1>3

\* Changing the cursor or the end of a segment changes nothing else of it.
LEMMA SegmentChanges ==
  ASSUME NEW s \in Segment
  PROVE  /\ \A c \in Nat : [s EXCEPT !.cur = c] = [start |-> s.start, end |-> s.end, cur |-> c]
         /\ \A e \in Int : [s EXCEPT !.end = e] = [start |-> s.start, end |-> e, cur |-> s.cur]
         /\ s.start \in Nat /\ s.end \in Int /\ s.cur \in Nat
BY DEF Segment

\* Each half of what is left has the minimum.
LEMMA Halves ==
  ASSUME NEW c \in Nat, NEW e \in Int, NEW m \in Nat \ {0}, e - c + 1 >= 2 * m
  PROVE  /\ c + (e - c + 1) \div 2 \in Nat
         /\ (c + (e - c + 1) \div 2) - c >= m
         /\ e - (c + (e - c + 1) \div 2) + 1 >= m
<1> DEFINE left == e - c + 1
           half == left \div 2
<1>1. left \in Int /\ half \in Nat /\ half >= m /\ left - half >= m
  OBVIOUS
<1>2. e = left + c - 1
  OBVIOUS
<1> HIDE DEF half
<1>3. c + half \in Nat /\ (c + half) - c >= m /\ e - (c + half) + 1 >= m
  BY <1>1, <1>2
<1> QED BY <1>3 DEF half

\* A cursor at the start of its segment claims nothing.
LEMMA ClaimedFresh ==
  ASSUME NEW s, \A i \in 1 .. Len(s) : s[i].start \in Int /\ s[i].cur = s[i].start
  PROVE  Claimed(s) = {}
<1> SUFFICES ASSUME NEW i \in 1 .. Len(s), NEW b \in s[i].start .. s[i].cur - 1
             PROVE  FALSE
  BY DEF Claimed
<1> QED OBVIOUS

\* Whatever the length of the resource and the number of connections, the planned
\* ranges are adjacent, none is empty, and together they are the resource; nothing of
\* it counts as downloaded.
THEOREM PlanIsValid ==
  ASSUME NEW total \in Nat \ {0}, NEW connections \in Nat \ {0}
  PROVE  /\ PlanSegments(total, connections) \in Seq(Segment)
         /\ ValidSegments(PlanSegments(total, connections), total)
         /\ Claimed(PlanSegments(total, connections)) = {}
<1> DEFINE count == Least(connections, total)
           plan == PlanSegments(total, connections)
<1>1. count \in Nat \ {0} /\ count <= total
  BY DEF Least
<1>2. /\ Len(plan) = count /\ DOMAIN plan = 1 .. count /\ plan \in Seq(Segment)
      /\ \A i \in 1 .. count :
           plan[i] = [start |-> StartOf(total, count, i),
                      end |-> StartOf(total, count, i + 1) - 1,
                      cur |-> StartOf(total, count, i)]
  <2>1. plan = [i \in 1 .. count |->
                  [start |-> StartOf(total, count, i),
                   end |-> StartOf(total, count, i + 1) - 1,
                   cur |-> StartOf(total, count, i)]]
    BY DEF PlanSegments
  <2> HIDE DEF plan
  <2>2. \A i \in 1 .. count : i \in Nat \ {0} /\ i + 1 \in Nat \ {0}
    BY <1>1
  <2>3. plan \in Seq([start : Nat, end : Int, cur : Nat])
    <3>1. \A i \in 1 .. count : StartOf(total, count, i) \in Nat /\ StartOf(total, count, i + 1) \in Nat
      BY <1>1, <2>2, StartOfType
    <3>2. plan \in [1 .. count -> [start : Nat, end : Int, cur : Nat]]
      BY <2>1, <3>1
    <3>3. count \in Nat
      BY <1>1
    <3> QED BY <3>2, <3>3, FunctionIsSequence, Zenon
  <2>4. DOMAIN plan = 1 .. count
    BY <2>1
  <2>5. Len(plan) = count
    BY <1>1, <2>3, <2>4
  <2> QED BY <2>1, <2>3, <2>4, <2>5 DEF Segment
<1> HIDE DEF count, plan
<1>3. \A i \in 1 .. count : /\ i \in Nat \ {0}
                            /\ StartOf(total, count, i) \in Nat
                            /\ StartOf(total, count, i + 1) \in Nat
                            /\ StartOf(total, count, i) < StartOf(total, count, i + 1)
  <2>1. \A i \in 1 .. count : i \in Nat \ {0} /\ i + 1 \in Nat \ {0}
    BY <1>1
  <2> QED BY <1>1, <2>1, StartOfType, StartOfStep
<1>4. StartOf(total, count, 1) = 0 /\ StartOf(total, count, count + 1) = total
  BY <1>1, StartOfEnds
<1>5. plan[1].start = 0 /\ plan[Len(plan)].end = total - 1
  <2>1. 1 \in 1 .. count /\ count \in 1 .. count
    BY <1>1
  <2> QED BY <1>2, <1>4, <2>1
<1>6. Contiguous(plan)
  <2> SUFFICES ASSUME NEW i \in 1 .. count - 1 PROVE plan[i + 1].start = plan[i].end + 1
    BY <1>2 DEF Contiguous
  <2>1. i \in 1 .. count /\ i + 1 \in 1 .. count
    BY <1>1
  <2> QED BY <1>2, <1>3, <2>1
<1>7. CursorsInRange(plan)
  <2> SUFFICES ASSUME NEW i \in 1 .. count
               PROVE  /\ plan[i].start <= plan[i].end
                      /\ plan[i].cur \in plan[i].start .. plan[i].end + 1
    BY <1>2 DEF CursorsInRange
  <2> QED BY <1>2, <1>3
<1>8. \A i \in 1 .. Len(plan) : plan[i].start \in Int /\ plan[i].cur = plan[i].start
  BY <1>2, <1>3
<1>9. Claimed(plan) = {}
  BY <1>8, ClaimedFresh
<1> QED BY <1>1, <1>2, <1>5, <1>6, <1>7, <1>9 DEF ValidSegments, plan

\* A cursor that advances inside its range leaves a valid plan valid.
THEOREM AdvanceKeepsValid ==
  ASSUME NEW total \in Nat \ {0}, NEW segments \in Seq(Segment), ValidSegments(segments, total),
         NEW i \in 1 .. Len(segments), segments[i].cur <= segments[i].end
  PROVE  /\ Advance(segments, i) \in Seq(Segment)
         /\ ValidSegments(Advance(segments, i), total)
<1> DEFINE next == Advance(segments, i)
<1>1. /\ next \in Seq(Segment) /\ Len(next) = Len(segments)
      /\ \A j \in 1 .. Len(segments) : /\ next[j].start = segments[j].start
                                       /\ next[j].end = segments[j].end
                                       /\ next[j].cur = IF j = i THEN segments[j].cur + 1 ELSE segments[j].cur
  <2> DEFINE moved == [segments[i] EXCEPT !.cur = segments[i].cur + 1]
  <2>1. segments[i] \in Segment
    OBVIOUS
  <2>2. /\ moved \in Segment /\ moved.start = segments[i].start /\ moved.end = segments[i].end
        /\ moved.cur = segments[i].cur + 1
    <3>1. segments[i].cur + 1 \in Nat
      BY <2>1, SegmentChanges
    <3>2. moved = [start |-> segments[i].start, end |-> segments[i].end, cur |-> segments[i].cur + 1]
      BY <2>1, <3>1, SegmentChanges
    <3> HIDE DEF moved
    <3> QED BY <2>1, <3>1, <3>2, SegmentChanges DEF Segment
  <2> HIDE DEF moved
  <2>3. next = [segments EXCEPT ![i] = moved]
    BY DEF Advance, moved
  <2> HIDE DEF next
  <2>4. next \in Seq(Segment) /\ Len(next) = Len(segments)
    BY <2>2, <2>3
  <2>5. \A j \in 1 .. Len(segments) : next[j] = IF j = i THEN moved ELSE segments[j]
    BY <2>3
  <2> QED BY <2>2, <2>4, <2>5
<1>2. \A j \in 1 .. Len(segments) : segments[j] \in Segment
  OBVIOUS
<1> HIDE DEF next
<1>3. Contiguous(segments) /\ CursorsInRange(segments) /\ Len(segments) > 0
      /\ segments[1].start = 0 /\ segments[Len(segments)].end = total - 1
  BY DEF ValidSegments
<1>4. Contiguous(next)
  <2> SUFFICES ASSUME NEW j \in 1 .. Len(segments) - 1 PROVE next[j + 1].start = next[j].end + 1
    BY <1>1 DEF Contiguous
  <2>1. j \in 1 .. Len(segments) /\ j + 1 \in 1 .. Len(segments)
    OBVIOUS
  <2> QED BY <1>1, <1>3, <2>1 DEF Contiguous
<1>5. CursorsInRange(next)
  <2> SUFFICES ASSUME NEW j \in 1 .. Len(segments)
               PROVE  next[j].start <= next[j].end /\ next[j].cur \in next[j].start .. next[j].end + 1
    BY <1>1 DEF CursorsInRange
  <2>1. segments[j].start \in Nat /\ segments[j].end \in Int /\ segments[j].cur \in Nat
    BY <1>2 DEF Segment
  <2>2. segments[j].start <= segments[j].end /\ segments[j].cur \in segments[j].start .. segments[j].end + 1
    BY <1>3 DEF CursorsInRange
  <2>3. CASE j = i
    BY <1>1, <2>1, <2>2, <2>3
  <2>4. CASE j # i
    BY <1>1, <2>2, <2>4
  <2> QED BY <2>3, <2>4
<1>6. next[1].start = 0 /\ next[Len(next)].end = total - 1
  BY <1>1, <1>3
<1> QED BY <1>1, <1>3, <1>4, <1>5, <1>6 DEF ValidSegments, next

\* Splitting off the tail of the last segment leaves a valid plan valid, and both
\* halves have something left to fetch.  No cursor moves and no other segment changes.
THEOREM SplitKeepsValid ==
  ASSUME NEW total \in Nat \ {0}, NEW segments \in Seq(Segment), ValidSegments(segments, total),
         NEW minimum \in Nat \ {0}, NEW i \in 1 .. Len(segments), CanSplit(segments, i, minimum)
  PROVE  /\ SplitTail(segments, i) \in Seq(Segment)
         /\ ValidSegments(SplitTail(segments, i), total)
         /\ Remaining(SplitTail(segments, i)[i]) >= minimum
         /\ Remaining(SplitTail(segments, i)[i + 1]) >= minimum
         /\ Len(SplitTail(segments, i)) = Len(segments) + 1
         /\ \A j \in 1 .. Len(segments) - 1 : SplitTail(segments, i)[j] = segments[j]
         /\ SplitTail(segments, i)[i].start = segments[i].start
         /\ SplitTail(segments, i)[i].cur = segments[i].cur
         /\ SplitTail(segments, i)[i + 1].cur = SplitTail(segments, i)[i + 1].start
<1> DEFINE n == Len(segments)
           left == Remaining(segments[n])
           middle == segments[n].cur + left \div 2
           next == SplitTail(segments, i)
<1>1. i = n /\ n \in Nat \ {0} /\ left >= 2 * minimum
  BY DEF CanSplit
<1>2. \A j \in 1 .. n : segments[j] \in Segment
  OBVIOUS
<1>3. segments[n].start \in Nat /\ segments[n].end \in Int /\ segments[n].cur \in Nat
  BY <1>1, <1>2 DEF Segment
<1>4. Contiguous(segments) /\ CursorsInRange(segments)
      /\ segments[1].start = 0 /\ segments[n].end = total - 1
  BY DEF ValidSegments
<1>5. /\ left \in Int /\ middle \in Nat
      /\ left = segments[n].end - segments[n].cur + 1
      /\ middle - segments[n].cur >= minimum
      /\ segments[n].end - middle + 1 >= minimum
      /\ segments[n].start <= segments[n].cur
  <2>1. left = segments[n].end - segments[n].cur + 1
    BY DEF Remaining
  <2>2. segments[n].start <= segments[n].cur
    BY <1>1, <1>3, <1>4 DEF CursorsInRange
  <2>3. segments[n].end - segments[n].cur + 1 >= 2 * minimum
    BY <1>1, <2>1
  <2>4. middle = segments[n].cur + (segments[n].end - segments[n].cur + 1) \div 2
    BY <2>1
  <2> HIDE DEF left, middle, n
  <2>5. middle \in Nat /\ middle - segments[n].cur >= minimum /\ segments[n].end - middle + 1 >= minimum
    BY <1>3, <2>3, <2>4, Halves
  <2>6. left \in Int
    BY <1>3, <2>1
  <2> QED BY <2>1, <2>2, <2>5, <2>6
<1>6. /\ next \in Seq(Segment) /\ Len(next) = n + 1
      /\ \A j \in 1 .. n - 1 : next[j] = segments[j]
      /\ next[n] = [segments[n] EXCEPT !.end = middle - 1]
      /\ next[n + 1] = [start |-> middle, end |-> segments[n].end, cur |-> middle]
  <2> DEFINE cut == [segments EXCEPT ![n].end = middle - 1]
             tail == [start |-> middle, end |-> segments[n].end, cur |-> middle]
  <2>1. next = Append(cut, tail)
    BY <1>1 DEF SplitTail
  <2> HIDE DEF middle, left
  <2>2. cut \in Seq(Segment) /\ Len(cut) = n /\ tail \in Segment
    <3>1. middle - 1 \in Int /\ segments[n] \in Segment
      BY <1>1, <1>2, <1>5
    <3>2. [segments[n] EXCEPT !.end = middle - 1]
            = [start |-> segments[n].start, end |-> middle - 1, cur |-> segments[n].cur]
      BY <3>1, SegmentChanges
    <3>3. [segments[n] EXCEPT !.end = middle - 1] \in Segment
      BY <1>3, <3>1, <3>2 DEF Segment
    <3>4. tail \in Segment
      BY <1>3, <1>5 DEF Segment
    <3> QED BY <1>1, <3>3, <3>4
  <2>3. /\ \A j \in 1 .. n - 1 : cut[j] = segments[j]
        /\ cut[n] = [segments[n] EXCEPT !.end = middle - 1]
    BY <1>1
  <2> HIDE DEF cut, tail, next
  <2>4. next \in Seq(Segment) /\ Len(next) = n + 1 /\ next[n + 1] = tail
        /\ \A j \in 1 .. n : next[j] = cut[j]
    BY <1>1, <2>1, <2>2
  <2> QED BY <1>1, <2>3, <2>4 DEF tail
<1> HIDE DEF next, left, middle
<1>7. /\ next[n].start = segments[n].start /\ next[n].end = middle - 1 /\ next[n].cur = segments[n].cur
      /\ next[n + 1].start = middle /\ next[n + 1].end = segments[n].end /\ next[n + 1].cur = middle
  BY <1>1, <1>2, <1>6 DEF Segment
<1>8. Contiguous(next)
  <2> SUFFICES ASSUME NEW j \in 1 .. n PROVE next[j + 1].start = next[j].end + 1
    BY <1>1, <1>6 DEF Contiguous
  <2>1. CASE j = n
    BY <1>5, <1>7, <2>1
  <2>2. CASE j # n
    <3>1. j \in 1 .. n - 1 /\ j + 1 \in 1 .. n /\ segments[j + 1].start = segments[j].end + 1
      BY <1>1, <1>4, <2>2 DEF Contiguous
    <3>2. next[j + 1].start = segments[j + 1].start
      <4>1. CASE j + 1 = n
        BY <1>7, <4>1
      <4>2. CASE j + 1 # n
        <5>1. j + 1 \in 1 .. n - 1
          BY <1>1, <3>1, <4>2
        <5> QED BY <1>6, <5>1
      <4> QED BY <4>1, <4>2
    <3> QED BY <1>6, <3>1, <3>2
  <2> QED BY <2>1, <2>2
<1>9. CursorsInRange(next)
  <2> SUFFICES ASSUME NEW j \in 1 .. n + 1
               PROVE  next[j].start <= next[j].end /\ next[j].cur \in next[j].start .. next[j].end + 1
    BY <1>1, <1>6 DEF CursorsInRange
  <2>1. CASE j \in 1 .. n - 1
    BY <1>1, <1>4, <1>6, <2>1 DEF CursorsInRange
  <2>2. CASE j = n
    <3>1. /\ segments[n].start <= middle - 1
          /\ segments[n].cur \in segments[n].start .. (middle - 1) + 1
      BY <1>3, <1>5
    <3> QED BY <1>7, <2>2, <3>1
  <2>3. CASE j = n + 1
    <3>1. middle <= segments[n].end /\ middle \in middle .. segments[n].end + 1
      BY <1>3, <1>5
    <3> QED BY <1>7, <2>3, <3>1
  <2> QED BY <1>1, <2>1, <2>2, <2>3
<1>10. next[1].start = 0 /\ next[Len(next)].end = total - 1
  <2>1. CASE n = 1
    BY <1>1, <1>4, <1>6, <1>7, <2>1
  <2>2. CASE n # 1
    <3>1. 1 \in 1 .. n - 1
      BY <1>1, <2>2
    <3> QED BY <1>1, <1>4, <1>6, <1>7, <3>1
  <2> QED BY <2>1, <2>2
<1>11. ValidSegments(next, total)
  BY <1>1, <1>6, <1>8, <1>9, <1>10 DEF ValidSegments
<1>12. Remaining(next[i]) >= minimum /\ Remaining(next[i + 1]) >= minimum
  BY <1>1, <1>3, <1>5, <1>7 DEF Remaining
<1> QED BY <1>1, <1>6, <1>7, <1>11, <1>12 DEF next

(***************************************************************************)
(* What validity says of segments that are not neighbours.  It is shown by *)
(* the least index that would contradict it: the subsets of the numbers up *)
(* to n, ordered by inclusion, are well-founded.                           *)
(***************************************************************************)
LEMMA LeastNumber ==
  ASSUME NEW n \in Nat, NEW S \in SUBSET (0 .. n), S # {}
  PROVE  \E m \in S : \A k \in S : m <= k
<1> DEFINE below(m) == 0 .. m
           T == {below(m) : m \in S}
           R == StrictSubsetOrdering(0 .. n)
<1>1. T \subseteq FiniteSubsetsOf(0 .. n) /\ T # {}
  <2> SUFFICES ASSUME NEW m \in S
               PROVE  below(m) \in FiniteSubsetsOf(0 .. n)
    OBVIOUS
  <2>1. m \in 0 .. n
    OBVIOUS
  <2>2. IsFiniteSet(0 .. m)
    BY <2>1, FS_Interval
  <2> QED BY <2>1, <2>2 DEF FiniteSubsetsOf
<1>2. IsWellFoundedOn(R, FiniteSubsetsOf(0 .. n))
  BY FS_StrictSubsetOrderingWellFounded
<1>3. \E x \in T : \A y \in T : ~(<<y, x>> \in R)
  <2> HIDE DEF T, R
  <2> QED BY <1>1, <1>2, WFMin
<1>4. PICK m \in S : \A k \in S : ~(<<below(k), below(m)>> \in R)
  BY <1>3
<1>5. ASSUME NEW k \in S
      PROVE  m <= k
  <2>1. k \in 0 .. n /\ m \in 0 .. n
    OBVIOUS
  <2> SUFFICES ASSUME k < m
               PROVE  FALSE
    BY <2>1
  <2>2. below(k) \in SUBSET (0 .. n) /\ below(m) \in SUBSET (0 .. n) /\ below(k) \subseteq below(m)
    BY <2>1
  <2>3. m \in below(m) /\ m \notin below(k)
    BY <2>1
  <2>4. <<below(k), below(m)>> \in R
    BY <2>2, <2>3 DEF StrictSubsetOrdering
  <2> QED BY <1>4, <2>4
<1> QED BY <1>5

\* The facts of validity, of one segment and of two neighbours.
LEMMA ValidParts ==
  ASSUME NEW total \in Nat \ {0}, NEW s \in Seq(Segment), ValidSegments(s, total)
  PROVE  /\ Len(s) \in Nat \ {0} /\ DOMAIN s = 1 .. Len(s)
         /\ s[1].start = 0 /\ s[Len(s)].end = total - 1
         /\ \A i \in 1 .. Len(s) :
              /\ s[i] \in Segment /\ s[i].start \in Nat /\ s[i].end \in Int /\ s[i].cur \in Nat
              /\ s[i].start <= s[i].end /\ s[i].start <= s[i].cur /\ s[i].cur <= s[i].end + 1
         /\ \A i \in 1 .. Len(s) - 1 : s[i + 1].start = s[i].end + 1
<1>1. \A i \in 1 .. Len(s) : s[i] \in Segment
  OBVIOUS
<1>2. ~(total = 0)
  OBVIOUS
<1>3. Len(s) > 0 /\ s[1].start = 0 /\ s[Len(s)].end = total - 1 /\ Contiguous(s) /\ CursorsInRange(s)
  BY <1>2 DEF ValidSegments
<1>4. \A i \in 1 .. Len(s) : s[i].start \in Nat /\ s[i].end \in Int /\ s[i].cur \in Nat
  BY <1>1 DEF Segment
<1>5. Len(s) \in Nat /\ DOMAIN s = 1 .. Len(s)
  OBVIOUS
<1> QED BY <1>1, <1>3, <1>4, <1>5 DEF Contiguous, CursorsInRange

\* Segments lie in the order of their indexes, so there are no more of them than bytes.
LEMMA ValidOrder ==
  ASSUME NEW total \in Nat \ {0}, NEW s \in Seq(Segment), ValidSegments(s, total)
  PROVE  /\ \A i, j \in 1 .. Len(s) : i < j => s[i].end < s[j].start
         /\ \A i \in 1 .. Len(s) : i - 1 <= s[i].start /\ s[i].end <= total - 1
         /\ Len(s) <= total
<1> DEFINE n == Len(s)
<1>1. /\ n \in Nat \ {0} /\ s[1].start = 0 /\ s[n].end = total - 1
      /\ \A i \in 1 .. n : /\ s[i].start \in Nat /\ s[i].end \in Int
                           /\ s[i].start <= s[i].end
      /\ \A i \in 1 .. n - 1 : s[i + 1].start = s[i].end + 1
  BY ValidParts
<1> HIDE DEF n
<1>2. ASSUME NEW i \in 1 .. n
      PROVE  \A j \in 1 .. n : i < j => s[i].end < s[j].start
  <2> DEFINE S == {j \in 1 .. n : i < j /\ ~(s[i].end < s[j].start)}
  <2> SUFFICES ASSUME S # {}
               PROVE  FALSE
    OBVIOUS
  <2>1. S \in SUBSET (0 .. n)
    BY <1>1
  <2>2. PICK j \in S : \A k \in S : j <= k
    <3> HIDE DEF S
    <3> QED BY <1>1, <2>1, LeastNumber
  <2>3. j \in 1 .. n /\ i < j /\ ~(s[i].end < s[j].start)
    OBVIOUS
  <2>4. j - 1 \in 1 .. n - 1 /\ j - 1 \in 1 .. n /\ (j - 1) + 1 = j
    BY <1>1, <2>3
  <2>5. s[j].start = s[j - 1].end + 1
    BY <1>1, <2>4
  <2>6. CASE j - 1 = i
    BY <1>1, <2>3, <2>5, <2>6
  <2>7. CASE j - 1 # i
    <3>1. j - 1 \notin S
      BY <2>2, <2>3
    <3>2. s[i].end < s[j - 1].start
      BY <2>3, <2>4, <2>7, <3>1
    <3>3. /\ s[i].end \in Int /\ s[j].start \in Nat /\ s[j - 1].start \in Nat /\ s[j - 1].end \in Int
          /\ s[j - 1].start <= s[j - 1].end
      BY <1>1, <2>3, <2>4
    <3>4. s[i].end < s[j].start
      <4>1. \A a, b, c, d \in Int : a < b /\ b <= c /\ d = c + 1 => a < d
        OBVIOUS
      <4> QED BY <2>5, <3>2, <3>3, <4>1
    <3> QED BY <2>3, <3>4
  <2> QED BY <2>6, <2>7
<1>3. \A i \in 1 .. n : i - 1 <= s[i].start
  <2> DEFINE S == {j \in 1 .. n : ~(j - 1 <= s[j].start)}
  <2> SUFFICES ASSUME S # {}
               PROVE  FALSE
    OBVIOUS
  <2>1. S \in SUBSET (0 .. n)
    BY <1>1
  <2>2. PICK j \in S : \A k \in S : j <= k
    <3> HIDE DEF S
    <3> QED BY <1>1, <2>1, LeastNumber
  <2>3. j \in 1 .. n /\ ~(j - 1 <= s[j].start)
    OBVIOUS
  <2>4. j # 1
    BY <1>1, <2>3
  <2>5. j - 1 \in 1 .. n - 1 /\ j - 1 \in 1 .. n /\ (j - 1) + 1 = j
    BY <1>1, <2>3, <2>4
  <2>6. j - 1 \notin S
    BY <2>2, <2>3
  <2>7. (j - 1) - 1 <= s[j - 1].start
    BY <2>5, <2>6
  <2>8. /\ s[j].start \in Nat /\ s[j - 1].start \in Nat /\ s[j - 1].end \in Int
        /\ s[j - 1].start <= s[j - 1].end /\ s[j].start = s[j - 1].end + 1
    BY <1>1, <2>3, <2>5
  <2> QED BY <2>3, <2>7, <2>8
<1>4. \A i \in 1 .. n : s[i].end <= total - 1
  <2> SUFFICES ASSUME NEW i \in 1 .. n
               PROVE  s[i].end <= total - 1
    OBVIOUS
  <2>1. CASE i = n
    BY <1>1, <2>1
  <2>2. CASE i # n
    <3>1. n \in 1 .. n /\ i < n
      BY <1>1, <2>2
    <3>2. /\ s[i].end < s[n].start /\ s[n].start <= s[n].end
          /\ s[i].end \in Int /\ s[n].start \in Nat /\ s[n].end \in Int
      BY <1>1, <1>2, <3>1
    <3> QED BY <1>1, <3>2
  <2> QED BY <2>1, <2>2
<1>5. n <= total
  <2>1. n \in 1 .. n /\ n \in Int
    BY <1>1
  <2>2. n - 1 <= s[n].start
    BY <1>3, <2>1
  <2>3. s[n].start <= total - 1 /\ s[n].start \in Int
    <3>1. /\ s[n].start <= s[n].end /\ s[n].end = total - 1
          /\ s[n].start \in Nat /\ s[n].end \in Int
      BY <1>1, <2>1
    <3> QED BY <3>1
  <2> QED BY <2>1, <2>2, <2>3
<1> QED BY <1>2, <1>3, <1>4, <1>5 DEF n

\* Every byte lies in a segment.
LEMMA ValidCovers ==
  ASSUME NEW total \in Nat \ {0}, NEW s \in Seq(Segment), ValidSegments(s, total),
         NEW b \in 0 .. total - 1
  PROVE  \E i \in 1 .. Len(s) : b \in s[i].start .. s[i].end
<1> DEFINE n == Len(s)
           S == {i \in 1 .. n : b <= s[i].end}
<1>1. /\ n \in Nat \ {0} /\ s[1].start = 0 /\ s[n].end = total - 1
      /\ \A i \in 1 .. n : s[i].start \in Nat /\ s[i].end \in Int
      /\ \A i \in 1 .. n - 1 : s[i + 1].start = s[i].end + 1
  BY ValidParts
<1> HIDE DEF n
<1>2. S \in SUBSET (0 .. n) /\ n \in S
  BY <1>1
<1>3. PICK i \in S : \A k \in S : i <= k
  <2> HIDE DEF S
  <2> QED BY <1>1, <1>2, LeastNumber
<1>4. i \in 1 .. n /\ b <= s[i].end
  OBVIOUS
<1>5. s[i].start <= b
  <2>1. CASE i = 1
    BY <1>1, <2>1
  <2>2. CASE i # 1
    <3>1. i - 1 \in 1 .. n - 1 /\ i - 1 \in 1 .. n /\ (i - 1) + 1 = i /\ i - 1 \notin S
      BY <1>1, <1>3, <1>4, <2>2
    <3>2. ~(b <= s[i - 1].end)
      BY <3>1
    <3>3. s[i].start = s[i - 1].end + 1 /\ s[i - 1].end \in Int
      BY <1>1, <3>1
    <3> QED BY <3>2, <3>3
  <2> QED BY <2>1, <2>2
<1> QED BY <1>1, <1>4, <1>5 DEF n

(***************************************************************************)
(* What the cursors claim.                                                 *)
(***************************************************************************)
LEMMA ClaimedWithin ==
  ASSUME NEW total \in Nat \ {0}, NEW s \in Seq(Segment), ValidSegments(s, total)
  PROVE  Claimed(s) \subseteq 0 .. total - 1
<1> SUFFICES ASSUME NEW i \in 1 .. Len(s), NEW b \in s[i].start .. s[i].cur - 1
             PROVE  b \in 0 .. total - 1
  BY DEF Claimed
<1>1. /\ s[i].start \in Nat /\ s[i].end \in Int /\ s[i].cur \in Nat
      /\ s[i].cur <= s[i].end + 1 /\ s[i].end <= total - 1
  BY ValidParts, ValidOrder
<1> QED BY <1>1

\* When nothing remains of any segment, every byte is claimed.
LEMMA ClaimedAll ==
  ASSUME NEW total \in Nat \ {0}, NEW s \in Seq(Segment), ValidSegments(s, total),
         \A i \in 1 .. Len(s) : Remaining(s[i]) = 0
  PROVE  Claimed(s) = 0 .. total - 1
<1>1. Claimed(s) \subseteq 0 .. total - 1
  BY ClaimedWithin
<1>2. ASSUME NEW b \in 0 .. total - 1
      PROVE  b \in Claimed(s)
  <2>1. PICK i \in 1 .. Len(s) : b \in s[i].start .. s[i].end
    BY ValidCovers
  <2>2. s[i].cur \in Nat /\ s[i].end \in Int /\ Remaining(s[i]) = 0
    BY ValidParts
  <2>3. s[i].end = s[i].cur - 1
    BY <2>2 DEF Remaining
  <2> QED BY <2>1, <2>3 DEF Claimed
<1> QED BY <1>1, <1>2

\* A cursor moves, and nothing else.
LEMMA AdvanceParts ==
  ASSUME NEW total \in Nat \ {0}, NEW s \in Seq(Segment), ValidSegments(s, total),
         NEW i \in 1 .. Len(s)
  PROVE  /\ Len(Advance(s, i)) = Len(s)
         /\ \A j \in 1 .. Len(s) \ {i} : Advance(s, i)[j] = s[j]
         /\ Advance(s, i)[i].start = s[i].start /\ Advance(s, i)[i].end = s[i].end
         /\ Advance(s, i)[i].cur = s[i].cur + 1
<1>1. s[i] \in Segment /\ DOMAIN s = 1 .. Len(s)
  BY ValidParts
<1> QED BY <1>1 DEF Advance, Segment

\* Only the byte under the cursor is added.
LEMMA ClaimedAdvance ==
  ASSUME NEW total \in Nat \ {0}, NEW s \in Seq(Segment), ValidSegments(s, total),
         NEW i \in 1 .. Len(s), s[i].cur <= s[i].end
  PROVE  /\ Claimed(Advance(s, i)) = Claimed(s) \cup {s[i].cur}
         /\ s[i].cur \in 0 .. total - 1
<1>1. /\ s[i].start \in Nat /\ s[i].end \in Int /\ s[i].cur \in Nat /\ s[i].start <= s[i].cur
      /\ s[i].end <= total - 1
  BY ValidParts, ValidOrder
<1>2. /\ Len(Advance(s, i)) = Len(s)
      /\ \A j \in 1 .. Len(s) :
           /\ Advance(s, i)[j].start = s[j].start
           /\ Advance(s, i)[j].cur = IF j = i THEN s[j].cur + 1 ELSE s[j].cur
  BY AdvanceParts
<1>3. ASSUME NEW b
      PROVE  b \in Claimed(Advance(s, i)) <=> b \in Claimed(s) \cup {s[i].cur}
  <2>1. b \in Claimed(s) <=> \E j \in 1 .. Len(s) : b \in s[j].start .. s[j].cur - 1
    BY DEF Claimed
  <2>2. b \in Claimed(Advance(s, i)) <=>
          \E j \in 1 .. Len(s) : b \in s[j].start .. (IF j = i THEN s[j].cur + 1 ELSE s[j].cur) - 1
    BY <1>2 DEF Claimed
  <2>3. b \in s[i].start .. (s[i].cur + 1) - 1 <=> b \in s[i].start .. s[i].cur - 1 \/ b = s[i].cur
    BY <1>1
  <2> QED BY <2>1, <2>2, <2>3
<1> QED BY <1>1, <1>3

\* The new segment claims nothing yet.
LEMMA ClaimedSplit ==
  ASSUME NEW total \in Nat \ {0}, NEW s \in Seq(Segment), ValidSegments(s, total),
         NEW minimum \in Nat \ {0}, NEW i \in 1 .. Len(s), CanSplit(s, i, minimum)
  PROVE  Claimed(SplitTail(s, i)) = Claimed(s)
<1> DEFINE n == Len(s)
           next == SplitTail(s, i)
<1>1. n \in Nat \ {0} /\ i = n
  BY ValidParts DEF CanSplit
<1>2. /\ Len(next) = n + 1 /\ next \in Seq(Segment) /\ ValidSegments(next, total)
      /\ \A j \in 1 .. n : next[j].start = s[j].start /\ next[j].cur = s[j].cur
      /\ next[n + 1].cur = next[n + 1].start
  <2>1. /\ \A j \in 1 .. Len(s) - 1 : next[j] = s[j]
        /\ next[i].start = s[i].start /\ next[i].cur = s[i].cur
    BY SplitKeepsValid
  <2> QED BY <1>1, <2>1, SplitKeepsValid
<1> HIDE DEF n, next
<1>3. next[n + 1].start \in Nat
  BY <1>1, <1>2, ValidParts
<1>4. ASSUME NEW b
      PROVE  b \in Claimed(next) <=> b \in Claimed(s)
  <2>1. b \in Claimed(s) <=> \E j \in 1 .. n : b \in s[j].start .. s[j].cur - 1
    BY DEF Claimed, n
  <2>2. b \in Claimed(next) <=> \E j \in 1 .. n + 1 : b \in next[j].start .. next[j].cur - 1
    BY <1>2 DEF Claimed
  <2>3. ~(b \in next[n + 1].start .. next[n + 1].cur - 1)
    BY <1>2, <1>3
  <2>4. \A j \in 1 .. n + 1 : j = n + 1 \/ j \in 1 .. n
    BY <1>1
  <2>5. 1 .. n \subseteq 1 .. n + 1
    BY <1>1
  <2> QED BY <1>2, <2>1, <2>2, <2>3, <2>4, <2>5
<1> QED BY <1>4 DEF next

LEMMA WholeIsPlan ==
  ASSUME NEW total \in Nat
  PROVE  /\ Whole(total) \in Seq(Segment) /\ Claimed(Whole(total)) = {}
         /\ Len(Whole(total)) = 1
         /\ Whole(total)[1] = [start |-> 0, end |-> total - 1, cur |-> 0]
         /\ total # 0 => ValidSegments(Whole(total), total)
<1> DEFINE r == [start |-> 0, end |-> total - 1, cur |-> 0]
<1>1. r \in Segment
  BY DEF Segment
<1>2. /\ Whole(total) = <<r>> /\ Whole(total) \in Seq(Segment) /\ Len(Whole(total)) = 1
      /\ Whole(total)[1] = r
  BY <1>1 DEF Whole
<1>3. Claimed(Whole(total)) = {}
  <2>1. \A i \in 1 .. Len(Whole(total)) :
          Whole(total)[i].start \in Int /\ Whole(total)[i].cur = Whole(total)[i].start
    BY <1>2
  <2> QED BY <2>1, ClaimedFresh
<1>4. ASSUME total # 0
      PROVE  ValidSegments(Whole(total), total)
  <2>1. Contiguous(Whole(total))
    BY <1>2 DEF Contiguous
  <2>2. CursorsInRange(Whole(total))
    BY <1>2, <1>4 DEF CursorsInRange
  <2> QED BY <1>2, <2>1, <2>2 DEF ValidSegments
<1> QED BY <1>2, <1>3, <1>4

\* A single segment may begin again.
LEMMA FromTheStart ==
  ASSUME NEW total \in Nat \ {0}, NEW s \in Seq(Segment), ValidSegments(s, total),
         NEW t, t = [s EXCEPT ![1].cur = s[1].start]
  PROVE  /\ t \in Seq(Segment) /\ ValidSegments(t, total) /\ Len(t) = Len(s)
         /\ \A i \in 1 .. Len(s) : t[i].start = s[i].start /\ t[i].end = s[i].end
         /\ t[1].cur = t[1].start
         /\ Claimed(t) \subseteq Claimed(s)
         /\ Len(s) = 1 => Claimed(t) = {}
<1> DEFINE n == Len(s)
           r == [s[1] EXCEPT !.cur = s[1].start]
<1>1. /\ n \in Nat \ {0} /\ DOMAIN s = 1 .. n
      /\ s[1].start = 0 /\ s[n].end = total - 1
      /\ \A i \in 1 .. n :
           /\ s[i] \in Segment /\ s[i].start \in Nat /\ s[i].end \in Int /\ s[i].cur \in Nat
           /\ s[i].start <= s[i].end /\ s[i].start <= s[i].cur /\ s[i].cur <= s[i].end + 1
      /\ \A i \in 1 .. n - 1 : s[i + 1].start = s[i].end + 1
  BY ValidParts
<1>2. s[1] \in Segment /\ 1 \in 1 .. n
  BY <1>1
<1>3. r \in Segment /\ r.start = s[1].start /\ r.end = s[1].end /\ r.cur = s[1].start
  BY <1>2, SegmentChanges DEF Segment
<1>4. t = [s EXCEPT ![1] = r]
  OBVIOUS
<1> HIDE DEF r
<1>5. t \in Seq(Segment) /\ Len(t) = n
  BY <1>2, <1>3, <1>4
<1>6. \A i \in 1 .. n : t[i] = IF i = 1 THEN r ELSE s[i]
  BY <1>1, <1>4
<1> HIDE DEF n
<1>7. \A i \in 1 .. n : /\ t[i].start = s[i].start /\ t[i].end = s[i].end
                        /\ t[i].cur = IF i = 1 THEN s[i].start ELSE s[i].cur
  BY <1>3, <1>6
<1>8. Contiguous(t)
  <2> SUFFICES ASSUME NEW i \in 1 .. n - 1
               PROVE  t[i + 1].start = t[i].end + 1
    BY <1>5 DEF Contiguous
  <2>1. i \in 1 .. n /\ i + 1 \in 1 .. n
    BY <1>1
  <2> QED BY <1>1, <1>7, <2>1
<1>9. CursorsInRange(t)
  <2> SUFFICES ASSUME NEW i \in 1 .. n
               PROVE  t[i].start <= t[i].end /\ t[i].cur \in t[i].start .. t[i].end + 1
    BY <1>5 DEF CursorsInRange
  <2>1. /\ t[i].start = s[i].start /\ t[i].end = s[i].end
        /\ t[i].cur = IF i = 1 THEN s[i].start ELSE s[i].cur
    BY <1>7
  <2>2. /\ s[i].start \in Nat /\ s[i].end \in Int /\ s[i].cur \in Nat
        /\ s[i].start <= s[i].end /\ s[i].start <= s[i].cur /\ s[i].cur <= s[i].end + 1
    BY <1>1
  <2> QED BY <2>1, <2>2
<1>10. ValidSegments(t, total)
  <2>1. n \in 1 .. n
    BY <1>1
  <2> QED BY <1>1, <1>2, <1>5, <1>7, <1>8, <1>9, <2>1 DEF ValidSegments
<1>11. Claimed(t) \subseteq Claimed(s)
  <2> SUFFICES ASSUME NEW i \in 1 .. n, NEW b \in t[i].start .. t[i].cur - 1
               PROVE  b \in s[i].start .. s[i].cur - 1
    BY <1>5 DEF Claimed, n
  <2>1. CASE i = 1
    <3>1. b \in s[1].start .. s[1].start - 1 /\ s[1].start \in Nat
      BY <1>1, <1>2, <1>7, <2>1
    <3> QED BY <3>1
  <2>2. CASE i # 1
    BY <1>7, <2>2
  <2> QED BY <2>1, <2>2
<1>12. ASSUME n = 1
       PROVE  Claimed(t) = {}
  <2>1. \A i \in 1 .. Len(t) : t[i].start \in Int /\ t[i].cur = t[i].start
    <3>1. t[1].start = s[1].start /\ t[1].cur = s[1].start /\ s[1].start = 0
      BY <1>1, <1>2, <1>7
    <3>2. Len(t) = 1
      BY <1>5, <1>12
    <3>3. \A i \in 1 .. 1 : i = 1
      OBVIOUS
    <3>4. ASSUME NEW i \in 1 .. Len(t)
          PROVE  i = 1
      BY <3>2, <3>3
    <3>5. t[1].start \in Int /\ t[1].cur = t[1].start
      BY <3>1
    <3> QED BY <3>4, <3>5, Zenon
  <2> QED BY <2>1, ClaimedFresh
<1> QED BY <1>2, <1>5, <1>7, <1>10, <1>11, <1>12 DEF n

\* Every cursor at the end of its segment.
LEMMA AllComplete ==
  ASSUME NEW total \in Nat \ {0}, NEW s \in Seq(Segment), ValidSegments(s, total),
         NEW t, t = [i \in DOMAIN s |-> [s[i] EXCEPT !.cur = s[i].end + 1]]
  PROVE  t \in Seq(Segment) /\ ValidSegments(t, total)
<1> DEFINE n == Len(s)
<1>1. /\ n \in Nat \ {0} /\ DOMAIN s = 1 .. n
      /\ s[1].start = 0 /\ s[n].end = total - 1
      /\ \A i \in 1 .. n :
           /\ s[i] \in Segment /\ s[i].start \in Nat /\ s[i].end \in Int /\ s[i].cur \in Nat
           /\ s[i].start <= s[i].end
      /\ \A i \in 1 .. n - 1 : s[i + 1].start = s[i].end + 1
  BY ValidParts
<1> HIDE DEF n
<1>2. \A i \in 1 .. n : /\ t[i] \in Segment
                        /\ t[i].start = s[i].start /\ t[i].end = s[i].end /\ t[i].cur = s[i].end + 1
  <2> SUFFICES ASSUME NEW i \in 1 .. n
               PROVE  /\ t[i] \in Segment
                      /\ t[i].start = s[i].start /\ t[i].end = s[i].end /\ t[i].cur = s[i].end + 1
    OBVIOUS
  <2>1. t[i] = [s[i] EXCEPT !.cur = s[i].end + 1]
    BY <1>1
  <2>2. s[i] \in Segment /\ s[i].end + 1 \in Nat
    BY <1>1
  <2>3. t[i] = [start |-> s[i].start, end |-> s[i].end, cur |-> s[i].end + 1]
    BY <2>1, <2>2, SegmentChanges
  <2> QED BY <2>2, <2>3, SegmentChanges DEF Segment
<1>3. t \in [1 .. n -> Segment]
  BY <1>1, <1>2
<1>4. t \in Seq(Segment) /\ Len(t) = n
  <2>1. n \in Nat
    BY <1>1
  <2> QED BY <1>3, <2>1, FunctionIsSequence, Zenon
<1>5. Contiguous(t)
  <2> SUFFICES ASSUME NEW i \in 1 .. n - 1
               PROVE  t[i + 1].start = t[i].end + 1
    BY <1>4 DEF Contiguous
  <2>1. i \in 1 .. n /\ i + 1 \in 1 .. n
    BY <1>1
  <2> QED BY <1>1, <1>2, <2>1
<1>6. CursorsInRange(t)
  <2> SUFFICES ASSUME NEW i \in 1 .. n
               PROVE  t[i].start <= t[i].end /\ t[i].cur \in t[i].start .. t[i].end + 1
    BY <1>4 DEF CursorsInRange
  <2>1. t[i].start = s[i].start /\ t[i].end = s[i].end /\ t[i].cur = s[i].end + 1
    BY <1>2
  <2>2. s[i].start \in Nat /\ s[i].end \in Int /\ s[i].start <= s[i].end
    BY <1>1
  <2> QED BY <2>1, <2>2
<1> QED
  <2>1. 1 \in 1 .. n /\ n \in 1 .. n
    BY <1>1
  <2>2. t[1].start = 0 /\ t[n].end = total - 1 /\ n > 0
    <3>1. t[1].start = s[1].start /\ t[n].end = s[n].end
      BY <1>2, <2>1
    <3>2. s[1].start = 0 /\ s[n].end = total - 1 /\ n > 0
      BY <1>1
    <3> QED BY <3>1, <3>2
  <2> QED BY <1>4, <1>5, <1>6, <2>2 DEF ValidSegments
=============================================================================

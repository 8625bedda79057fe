------------------------------ MODULE Segments ------------------------------
(***************************************************************************)
(* The segments of a download: byte ranges with a cursor.  How the planner *)
(* divides a resource into them, what ValidateSegments accepts, and the    *)
(* two ways the reporter changes them: a cursor advances, and the tail of  *)
(* the last segment becomes a segment of its own.                          *)
(***************************************************************************)
EXTENDS Integers, Sequences

\* cur is the next byte to write; end is inclusive.
Segment == [start : Nat, end : Int, cur : Nat]

Least(a, b) == IF a <= b THEN a ELSE b

\* Where the index-th of count ranges begins, counting from 1: the remainder
\* of the division goes to the first ranges, one byte each.
StartOf(total, count, index) ==
  (index - 1) * (total \div count) + Least(index - 1, total % count)

\* PlanSegments: at most one segment per connection and none of them empty.
PlanSegments(total, connections) ==
  LET count == Least(connections, total)
  IN [index \in 1 .. count |->
        [start |-> StartOf(total, count, index),
         end |-> StartOf(total, count, index + 1) - 1,
         cur |-> StartOf(total, count, index)]]

\* One segment for the whole resource.
Whole(total) == <<[start |-> 0, end |-> total - 1, cur |-> 0]>>

\* A download that has not been probed has one segment of unknown length.
Unplanned == Whole(0)

Contiguous(segments) ==
  \A i \in 1 .. Len(segments) - 1 : segments[i + 1].start = segments[i].end + 1

CursorsInRange(segments) ==
  \A i \in 1 .. Len(segments) :
    /\ segments[i].start <= segments[i].end
    /\ segments[i].cur \in segments[i].start .. segments[i].end + 1

\* ValidateSegments, for a resource of known length: adjacent, non-empty ranges
\* from the first byte to the last, each cursor inside its range.
ValidSegments(segments, total) ==
  \/ total = 0 /\ segments = Unplanned
  \/ /\ Len(segments) > 0
     /\ segments[1].start = 0
     /\ segments[Len(segments)].end = total - 1
     /\ Contiguous(segments)
     /\ CursorsInRange(segments)

\* The bytes the cursors say have been written: what completedBytes counts.
Claimed(segments) ==
  UNION {segments[i].start .. segments[i].cur - 1 : i \in 1 .. Len(segments)}

Remaining(segment) == segment.end - segment.cur + 1

\* segmentReporter.advance.
Advance(segments, i) == [segments EXCEPT ![i].cur = @ + 1]

\* segmentReporter.splitTail: the last segment keeps the first half of what it
\* has left, and the other half is appended.
CanSplit(segments, i, minimum) ==
  /\ i = Len(segments)
  /\ Remaining(segments[i]) >= 2 * minimum

\* Slip: both halves get the byte in the middle.
SplitTailTwice(segments, i) ==
  LET middle == segments[i].cur + Remaining(segments[i]) \div 2
  IN Append([segments EXCEPT ![i].end = middle],
            [start |-> middle, end |-> segments[i].end, cur |-> middle])

SplitTail(segments, i) ==
  LET middle == segments[i].cur + Remaining(segments[i]) \div 2
  IN Append([segments EXCEPT ![i].end = middle - 1],
            [start |-> middle, end |-> segments[i].end, cur |-> middle])
=============================================================================

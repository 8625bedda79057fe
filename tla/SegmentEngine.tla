---------------------------- MODULE SegmentEngine ----------------------------
(***************************************************************************)
(* One call of Engine.Download for a resource of known length: the         *)
(* coordinator of downloadRanges, its bounded pool of segment workers, the *)
(* reporter they share, tail splitting, and the fallback to one stream.    *)
(*                                                                         *)
(* A byte is the unit of transfer.  The temporary file is its length, the  *)
(* set of offsets that hold bytes of the resource, and the set of those    *)
(* that survive a loss of power.  A worker is known by the segment it      *)
(* executes.  The gate in front of a request is ConnectionController; here *)
(* a worker passes it when it likes.                                       *)
(***************************************************************************)
EXTENDS Segments, FiniteSets

CONSTANTS
  Total,        (* the length of the resource                                *)
  MaxWorkers,   (* 16 in the code                                            *)
  SplitMinimum, (* dynamicSplitMin                                           *)
  MaxAttempts   (* maxSegmentAttempts, 4 in the code                         *)

ASSUME EngineAssumption ==
  /\ Total \in Nat \ {0}
  /\ MaxWorkers \in Nat \ {0}
  /\ SplitMinimum \in Nat \ {0}
  /\ MaxAttempts \in Nat \ {0}

VARIABLES
  at,         (* where the call is; "off": there is none                     *)
  segs,       (* the segments, in the reporter                               *)
  base,       (* task.Segments: the ones the call was made with              *)
  told,       (* the last ones given to the progress callback                *)
  size,       (* the length of the temporary file, -1 when there is none     *)
  good,       (* the offsets of it that hold the resource's bytes            *)
  durable,    (* the ones among them that have been synced                   *)
  final,      (* the same for the file at the destination, or Nothing        *)
  width,      (* workerCount                                                 *)
  toStart,    (* segments the coordinator is about to send to its workers    *)
  jobs,       (* the channel to the workers, of capacity width               *)
  results,    (* the channel back, of capacity 2 * width                     *)
  active,     (* segments started and not collected                          *)
  cancelled,  (* segments whose own context is cancelled                     *)
  splitting,  (* splitRequested                                              *)
  failure,    (* firstErr, then the error of the call                        *)
  stopped,    (* the context of the call is cancelled                        *)
  work,       (* what a worker does with each segment, or its outcome        *)
  attempt,    (* its attempt                                                 *)
  until,      (* the last byte of the request it has made                    *)
  snap,       (* the snapshot it is about to deliver                         *)
  splitSnap   (* the one the coordinator is about to deliver after a split   *)

fileVars == <<size, good, durable>>
poolVars == <<width, toStart, jobs, results>>
coordVars == <<active, cancelled, splitting, failure, splitSnap>>
workVars == <<work, attempt, until, snap>>
engineVars == <<at, segs, base, told, fileVars, final, poolVars, coordVars, stopped, workVars>>

Bytes == 0 .. Total - 1
Indexes == 1 .. Total
Nothing == {-1}

Outcomes == {"ok", "cancelled", "unreliable", "failed"}
Busy == {i \in Indexes : work[i] # "idle"}

EngineTypeOK ==
  /\ at \in {"off", "ranges", "whole", "last", "rename", "ended"}
  /\ \A s \in {segs, base, told} : s \in Seq(Segment)
  /\ size \in -1 .. Total
  /\ durable \subseteq good /\ good \subseteq Bytes
  /\ final = Nothing \/ final \subseteq Bytes
  /\ width \in 0 .. MaxWorkers
  /\ toStart \in Seq(Indexes)
  /\ jobs \in Seq(Indexes) /\ Len(jobs) <= width
  /\ results \in Seq(Indexes \X Outcomes) /\ Len(results) <= 2 * width
  /\ cancelled \subseteq active /\ active \subseteq Indexes /\ splitting \subseteq Indexes
  /\ failure \in Outcomes
  /\ stopped \in BOOLEAN
  /\ work \in [Indexes -> {"idle", "try", "stream", "deliver"} \cup Outcomes]
  /\ Cardinality(Busy) <= width
  /\ attempt \in [Indexes -> 0 .. MaxAttempts - 1]
  /\ until \in [Indexes -> -1 .. Total - 1]
  /\ snap \in [Indexes -> Seq(Segment)] /\ splitSnap \in Seq(Segment)

\* No call is being made: what a new process, or one between calls, has.
NoCall ==
  /\ at' = "off" /\ segs' = <<>> /\ base' = <<>> /\ told' = <<>>
  /\ width' = 0 /\ toStart' = <<>> /\ jobs' = <<>> /\ results' = <<>>
  /\ active' = {} /\ cancelled' = {} /\ splitting' = {} /\ failure' = "ok"
  /\ splitSnap' = <<>> /\ stopped' = FALSE
  /\ work' = [i \in Indexes |-> "idle"] /\ attempt' = [i \in Indexes |-> 0]
  /\ until' = [i \in Indexes |-> -1] /\ snap' = [i \in Indexes |-> <<>>]

EngineInit ==
  /\ at = "off" /\ segs = <<>> /\ base = <<>> /\ told = <<>>
  /\ size = 0 /\ good = {} /\ durable = {} /\ final = Nothing
  /\ width = 0 /\ toStart = <<>> /\ jobs = <<>> /\ results = <<>>
  /\ active = {} /\ cancelled = {} /\ splitting = {} /\ failure = "ok"
  /\ splitSnap = <<>> /\ stopped = FALSE
  /\ work = [i \in Indexes |-> "idle"] /\ attempt = [i \in Indexes |-> 0]
  /\ until = [i \in Indexes |-> -1] /\ snap = [i \in Indexes |-> <<>>]

(***************************************************************************)
(* The call begins: the file is opened, and preallocated when nothing of   *)
(* it is worth keeping.                                                    *)
(***************************************************************************)
Download(segments, ranged) ==
  /\ at = "off"
  /\ ValidSegments(segments, Total)
  /\ base' = segments /\ segs' = segments /\ told' = segments
  /\ size' = IF Claimed(segments) = {} THEN Total ELSE size
  /\ width' = Least(Len(segments), MaxWorkers)
  /\ at' = IF ranged THEN "ranges" ELSE "whole"
  /\ toStart' = IF ranged THEN [i \in 1 .. Len(segments) |-> i] ELSE <<>>
  /\ work' = IF ranged THEN work ELSE [work EXCEPT ![1] = "try"]
  /\ UNCHANGED <<good, durable, final, jobs, results, coordVars, stopped, attempt, until, snap>>

(***************************************************************************)
(* Segment workers.                                                        *)
(***************************************************************************)
Cancelled(i) == stopped \/ i \in cancelled

Become(i, w) == work' = [work EXCEPT ![i] = w]

\* A worker of the pool receives a job.
Take ==
  /\ jobs # <<>>
  /\ Cardinality(Busy) < width
  /\ Become(Head(jobs), "try")
  /\ attempt' = [attempt EXCEPT ![Head(jobs)] = 0]
  /\ jobs' = Tail(jobs)
  /\ UNCHANGED <<at, segs, base, told, fileVars, final, width, toStart, results,
                 coordVars, stopped, until, snap>>

\* Slip: one attempt too many.
RetryOnceMore(i) ==
  IF Cancelled(i) THEN Become(i, "cancelled") /\ UNCHANGED attempt
  ELSE IF attempt[i] < MaxAttempts
       THEN Become(i, "try") /\ attempt' = [attempt EXCEPT ![i] = @ + 1]
       ELSE Become(i, "failed") /\ UNCHANGED attempt

\* Slip: attempts are not counted.
RetryForever(i) ==
  /\ Become(i, IF Cancelled(i) THEN "cancelled" ELSE "try")
  /\ UNCHANGED attempt

\* An attempt ended with an error that may be retried.
RetryOrGiveUp(i) ==
  IF Cancelled(i) THEN Become(i, "cancelled") /\ UNCHANGED attempt
  ELSE IF attempt[i] + 1 < MaxAttempts
       THEN Become(i, "try") /\ attempt' = [attempt EXCEPT ![i] = @ + 1]
       ELSE Become(i, "failed") /\ UNCHANGED attempt

\* Slip: the request names no end.
OpenRange(i) == Total - 1

\* The last byte of the range a request for segment i names.
RangeEnd(i) == segs[i].end

\* downloadSegment asks for what its segment has left.  A file of another length
\* is brought to the expected one before the first byte is written.
Request(i) ==
  /\ at = "ranges" /\ work[i] = "try"
  /\ UNCHANGED <<at, segs, base, told, good, durable, final, poolVars, coordVars, stopped, snap>>
  /\ \/ /\ Cancelled(i)
        /\ Become(i, "cancelled")
        /\ UNCHANGED <<size, attempt, until>>
     \/ /\ ~Cancelled(i) /\ Remaining(segs[i]) = 0
        /\ Become(i, "ok")
        /\ UNCHANGED <<size, attempt, until>>
     \/ /\ ~Cancelled(i) /\ Remaining(segs[i]) > 0
        /\ \/ /\ Become(i, "stream")
              /\ until' = [until EXCEPT ![i] = RangeEnd(i)]
              /\ size' = Total
              /\ UNCHANGED attempt
           \/ /\ \E refusal \in {"unreliable", "failed"} : Become(i, refusal)
              /\ UNCHANGED <<size, attempt, until>>
           \/ RetryOrGiveUp(i) /\ UNCHANGED <<size, until>>

\* downloadFullWithRetry starts over with an empty file, preallocated again.  The two
\* truncations are one step: a crash between them finds what EndRanges leaves.
RequestWhole ==
  /\ at = "whole" /\ work[1] = "try"
  /\ UNCHANGED <<at, base, told, final, poolVars, coordVars, stopped, snap>>
  /\ \/ /\ stopped
        /\ Become(1, "cancelled")
        /\ UNCHANGED <<segs, fileVars, attempt, until>>
     \/ /\ ~stopped
        /\ size' = Total /\ good' = {} /\ durable' = {}
        /\ segs' = [segs EXCEPT ![1].cur = segs[1].start]
        /\ \/ Become(1, "stream") /\ until' = [until EXCEPT ![1] = Total - 1] /\ UNCHANGED attempt
           \/ Become(1, "failed") /\ UNCHANGED <<attempt, until>>
           \/ RetryOrGiveUp(1) /\ UNCHANGED until

\* Slip: a report does not sync the file.
NoSync(bytes) == durable' = durable

\* Every report syncs the file before it looks at the cursors.
Sync(bytes) == durable' = bytes

\* segmentWriter.Write and segmentReporter.advance; then, when an interval has
\* passed, segmentReporter.report syncs the file and takes a snapshot.
WriteByte(i) ==
  /\ work[i] = "stream"
  /\ segs[i].cur <= Least(until[i], segs[i].end)
  /\ segs' = Advance(segs, i)
  /\ good' = good \cup {segs[i].cur}
  /\ \/ UNCHANGED <<durable, work, snap>>
     \/ /\ Sync(good')
        /\ snap' = [snap EXCEPT ![i] = segs']
        /\ Become(i, "deliver")
  /\ UNCHANGED <<at, base, told, size, final, poolVars, coordVars, stopped, attempt, until>>

\* The snapshot reaches the callback, which runs outside the reporter's lock.
Deliver(i) ==
  /\ work[i] = "deliver"
  /\ told' = snap[i]
  /\ snap' = [snap EXCEPT ![i] = <<>>]
  /\ Become(i, "stream")
  /\ UNCHANGED <<at, segs, base, fileVars, final, poolVars, coordVars, stopped, attempt, until>>

\* The body has been copied as far as it was asked for, or the response ends in an
\* error, before its last byte or after it (it may be longer than announced).
EndOfBody(i) ==
  /\ work[i] = "stream"
  /\ \/ segs[i].cur = until[i] + 1 /\ Become(i, "ok") /\ UNCHANGED attempt
     \/ RetryOrGiveUp(i)
  /\ UNCHANGED <<at, segs, base, told, fileVars, final, poolVars, coordVars, stopped, until, snap>>

\* A worker reports its segment and is free.
SendResult(i) ==
  /\ at = "ranges" /\ work[i] \in Outcomes
  /\ Len(results) < 2 * width
  /\ results' = Append(results, <<i, work[i]>>)
  /\ Become(i, "idle")
  /\ UNCHANGED <<at, segs, base, told, fileVars, final, width, toStart, jobs, coordVars,
                 stopped, attempt, until, snap>>

(***************************************************************************)
(* The coordinator.                                                        *)
(***************************************************************************)
\* start: a segment gets a context of its own and is sent to the workers.
Launch ==
  /\ at = "ranges" /\ toStart # <<>> /\ splitSnap = <<>>
  /\ Len(jobs) < width
  /\ jobs' = Append(jobs, Head(toStart))
  /\ toStart' = Tail(toStart)
  /\ active' = active \cup {Head(toStart)}
  /\ UNCHANGED <<at, segs, base, told, fileVars, final, width, results, cancelled, splitting,
                 failure, splitSnap, stopped, workVars>>

Looping == at = "ranges" /\ toStart = <<>> /\ active # {}

\* The context of the call is cancelled: so is every segment.
PassOnStop ==
  /\ Looping /\ stopped
  /\ failure = "ok" \/ cancelled # active
  /\ failure' = IF failure = "ok" THEN "cancelled" ELSE failure
  /\ cancelled' = active
  /\ UNCHANGED <<at, segs, base, told, fileVars, final, poolVars, active, splitting, splitSnap,
                 stopped, workVars>>

\* Slip: a segment that is not worth splitting any more stays cancelled.
StartAgainIfSplit(i) ==
  /\ splitting' = splitting \ {i}
  /\ cancelled' = cancelled \ {i}
  /\ IF CanSplit(segs, i, SplitMinimum)
     THEN /\ segs' = SplitTail(segs, i)
          /\ toStart' = <<i, Len(segs) + 1>>
          /\ Sync(good) /\ splitSnap' = segs'
     ELSE UNCHANGED <<toStart, segs, durable, splitSnap>>
  /\ UNCHANGED failure

\* A segment cancelled for a split is started again, with its tail as another
\* segment if that is still worth it; the coordinator reports the new segments.
StartAgain(i) ==
  /\ splitting' = splitting \ {i}
  /\ cancelled' = cancelled \ {i}
  /\ IF CanSplit(segs, i, SplitMinimum)
     THEN /\ segs' = SplitTail(segs, i)
          /\ toStart' = <<i, Len(segs) + 1>>
          /\ Sync(good) /\ splitSnap' = segs'
     ELSE /\ toStart' = <<i>>
          /\ UNCHANGED <<segs, durable, splitSnap>>
  /\ UNCHANGED failure

DeliverSplit ==
  /\ splitSnap # <<>>
  /\ told' = splitSnap /\ splitSnap' = <<>>
  /\ UNCHANGED <<at, segs, base, fileVars, final, poolVars, active, cancelled, splitting,
                 failure, stopped, workVars>>

\* The first failure cancels every other segment.
Settle(i, outcome) ==
  /\ failure' = IF failure = "ok" THEN outcome ELSE failure
  /\ cancelled' = IF failure = "ok" /\ outcome # "ok" THEN active' ELSE cancelled \ {i}
  /\ UNCHANGED <<segs, durable, splitSnap, toStart, splitting>>

Collect ==
  /\ Looping /\ results # <<>>
  /\ results' = Tail(results)
  /\ LET i == results[1][1]
         outcome == results[1][2]
     IN /\ active' = active \ {i}
        /\ IF i \in splitting /\ outcome = "cancelled" /\ ~stopped
           THEN StartAgain(i)
           ELSE Settle(i, outcome)
  /\ UNCHANGED <<at, base, told, size, good, final, width, jobs, stopped, workVars>>

\* The ticker finds the last segment slow and a worker free for half of it.
RequestSplit ==
  /\ Looping /\ failure = "ok"
  /\ Cardinality(active) < width
  /\ Len(segs) < 4 * width
  /\ Len(segs) \in active \ splitting
  /\ Remaining(segs[Len(segs)]) >= 2 * SplitMinimum
  /\ splitting' = splitting \cup {Len(segs)}
  /\ cancelled' = cancelled \cup {Len(segs)}
  /\ UNCHANGED <<at, segs, base, told, fileVars, final, poolVars, active, failure, splitSnap,
                 stopped, workVars>>

\* Slip: also a call with progress to keep falls back.
AnyUnreliable == failure = "unreliable"

MayFallBack == failure = "unreliable" /\ Claimed(base) = {}

\* Every segment has been collected.  Unreliable ranges fall back to one stream
\* over an empty file, unless the call was made with progress to keep.
EndRanges ==
  /\ at = "ranges" /\ toStart = <<>> /\ active = {}
  /\ IF MayFallBack
     THEN /\ at' = "whole"
          /\ base' = Whole(Total) /\ segs' = Whole(Total)
          /\ size' = 0 /\ good' = {} /\ durable' = {}
          /\ work' = [work EXCEPT ![1] = "try"]
          /\ attempt' = [attempt EXCEPT ![1] = 0]
          /\ failure' = "ok" /\ splitting' = {}
     ELSE /\ at' = "last"
          /\ failure' = IF failure = "ok" /\ stopped THEN "cancelled" ELSE failure
          /\ UNCHANGED <<base, segs, fileVars, work, attempt, splitting>>
  /\ UNCHANGED <<told, final, poolVars, active, cancelled, splitSnap, stopped, until, snap>>

\* The stream of the whole resource is over.
EndWhole ==
  /\ at = "whole" /\ work[1] \in Outcomes
  /\ at' = "last"
  /\ failure' = work[1]
  /\ Become(1, "idle")
  /\ UNCHANGED <<segs, base, told, fileVars, final, poolVars, active, cancelled, splitting,
                 splitSnap, stopped, attempt, until, snap>>

\* Slip: the last report is left out when one was made just before.
LastReportThrottled ==
  /\ at = "last"
  /\ IF failure # "ok" THEN at' = "ended" /\ UNCHANGED failure
     ELSE IF size = Total /\ Claimed(segs) = Bytes THEN at' = "rename" /\ UNCHANGED failure
     ELSE at' = "ended" /\ failure' = "failed"
  /\ UNCHANGED <<segs, base, told, fileVars, final, poolVars, active, cancelled, splitting,
                 splitSnap, stopped, workVars>>

\* The last report, made whatever the outcome; then the sizes are compared.
LastReport ==
  /\ at = "last"
  /\ Sync(good) /\ told' = segs
  /\ IF failure # "ok" THEN at' = "ended" /\ UNCHANGED failure
     ELSE IF size = Total /\ Claimed(segs) = Bytes THEN at' = "rename" /\ UNCHANGED failure
     ELSE at' = "ended" /\ failure' = "failed"
  /\ UNCHANGED <<segs, base, size, good, final, poolVars, active, cancelled, splitting,
                 splitSnap, stopped, workVars>>

\* The file is synced, closed and takes its final name.
Rename ==
  /\ at = "rename"
  /\ at' = "ended"
  /\ final' = good
  /\ size' = -1 /\ good' = {} /\ durable' = {}
  /\ UNCHANGED <<segs, base, told, poolVars, coordVars, stopped, workVars>>

(***************************************************************************)
(* Properties of a call.                                                   *)
(***************************************************************************)
\* The segments in the reporter always divide the resource, with every cursor in
\* its own segment, however often tails are split off while workers write.
SegmentsCover == at # "off" => ValidSegments(segs, Total)

\* No two responses being written can touch the same byte: a segment is split only
\* once the worker that asked for its old end has returned.
WritersDisjoint ==
  \A i, j \in Indexes :
    i # j /\ work[i] \in {"stream", "deliver"} /\ work[j] \in {"stream", "deliver"}
      => (segs[i].cur .. until[i]) \cap (segs[j].cur .. until[j]) = {}

\* A call in which no request failed for good and which nobody stopped has every
\* byte: a segment cancelled for a split is not forgotten when the split is given
\* up.
NothingForgotten ==
  at = "last" /\ failure = "ok" => size = Total /\ Claimed(segs) = Bytes

\* When the call returns, the progress it last told is the final one: no snapshot
\* taken earlier by another worker arrives after it.
FinalReportIsLast == at \in {"rename", "ended"} => told = segs

Worker(i) == Request(i) \/ WriteByte(i) \/ EndOfBody(i) \/ SendResult(i)
Coordinator == Launch \/ PassOnStop \/ Collect \/ EndRanges \/ RequestWhole \/ EndWhole \/ Rename
=============================================================================

-------------------------- MODULE CheckpointRecovery --------------------------
(***************************************************************************)
(* A download and its row across runs, pauses, failures, shutdowns and     *)
(* crashes: what process saves around the engine, the checkpoints of the   *)
(* progress callback, reconcileTemporaryFile, and startup recovery.        *)
(*                                                                         *)
(* One download with one run at a time: which runs overlap is the subject  *)
(* of DownloadService.  A crash takes the process away at any point; the   *)
(* row, a transaction, survives, and of the file what has been synced and  *)
(* perhaps what has not.                                                   *)
(***************************************************************************)
EXTENDS SegmentEngine, DownloadStates

CONSTANTS
  Connections,       (* the numbers of connections a download may have       *)
  CrashInFallback,   (* may a crash fall between the truncation of a file    *)
                     (* whose progress is in the row and the next checkpoint *)
  Budget             (* how often the process crashes or is shut down, and   *)
                     (* how often the user pauses, resumes, retries or restarts *)

ASSUME RecoveryAssumption ==
  /\ Connections \subseteq Nat \ {0}
  /\ CrashInFallback \in BOOLEAN
  /\ Budget \in [{"crash", "user"} -> Nat]

VARIABLES
  up,         (* the process runs and has recovered its rows                 *)
  row,        (* the state column and the segments of the row                *)
  ranged,     (* its range_supported column                                  *)
  intent,     (* control.intent of the run                                   *)
  budget

rowVars == <<row, ranged>>
vars == <<engineVars, up, rowVars, intent, budget>>

RecoveryTypeOK ==
  /\ EngineTypeOK
  /\ up \in BOOLEAN
  /\ row \in [state : States, segs : Seq(Segment)]
  /\ ranged \in BOOLEAN
  /\ intent \in {"none", "pause", "close"}
  /\ budget \in [DOMAIN Budget -> Nat]

\* Create has reserved an empty temporary file and saved a queued row.
Init ==
  /\ EngineInit
  /\ up = TRUE
  /\ row = [state |-> "queued", segs |-> Unplanned]
  /\ ranged = FALSE
  /\ intent = "none"
  /\ budget = Budget

Spend(what) ==
  /\ budget[what] > 0
  /\ budget' = [budget EXCEPT ![what] = @ - 1]

Save(state, segments) == row' = [state |-> state, segs |-> segments]

Planned(segments) == segments[1].end >= 0

(***************************************************************************)
(* reconcileTemporaryFile: may the cursors be trusted, and what they are   *)
(* then.                                                                   *)
(***************************************************************************)
Reconcilable(segments) ==
  \/ size = -1 /\ Claimed(segments) = {}
  \/ /\ size >= 0
     /\ Planned(segments) /\ Len(segments) > 1 => size = Total

\* Only a single segment may take its cursor from the length of the file.
Reconcile(segments) ==
  IF size >= 0 /\ Len(segments) = 1 /\ (Planned(segments) => size # Total)
  THEN [segments EXCEPT ![1].cur = size]
  ELSE segments

(***************************************************************************)
(* process, around the engine.                                             *)
(***************************************************************************)
Idle == up /\ at = "off"

\* A queued download is probed: the probe fails, or tells whether the server
\* supports ranges, and the segments are planned.
Probe ==
  /\ Idle /\ row.state = "queued"
  /\ Save("probing", row.segs)
  /\ UNCHANGED <<engineVars, up, ranged, intent, budget>>

Prepare ==
  /\ Idle /\ row.state = "probing"
  /\ \/ Save("failed", row.segs) /\ UNCHANGED ranged
     \/ \E supported \in BOOLEAN, connections \in Connections :
          /\ ranged' = supported
          /\ Save("preparing", PlanSegments(Total, IF supported THEN connections ELSE 1))
  /\ UNCHANGED <<engineVars, up, intent, budget>>

\* A paused download is resumed, a failed one retried: the resource is probed
\* again, which may fail or show that it has changed, and progress is kept only if
\* ranges are still supported and the file fits the cursors.
Continue(supported) ==
  \/ Save("failed", row.segs) /\ UNCHANGED ranged
  \/ /\ Claimed(row.segs) # {} /\ ~supported
     /\ Save("failed", row.segs) /\ ranged' = FALSE
  \/ /\ Claimed(row.segs) = {} \/ supported
     /\ ranged' = supported
     /\ IF Reconcilable(row.segs)
        THEN Save("preparing", Reconcile(row.segs))
        ELSE Save("failed", row.segs)

Resume ==
  /\ Idle /\ row.state = "paused"
  /\ Spend("user")
  /\ \E supported \in BOOLEAN : Continue(supported)
  /\ UNCHANGED <<engineVars, up, intent>>

Retry ==
  /\ Idle /\ row.state = "failed"
  /\ Spend("user")
  /\ Save("retrying", row.segs)
  /\ UNCHANGED <<engineVars, up, ranged, intent>>

ContinueRetry ==
  /\ Idle /\ row.state = "retrying"
  /\ \E supported \in BOOLEAN : Continue(supported)
  /\ UNCHANGED <<engineVars, up, intent, budget>>

\* Restart empties the file, or creates it again, and forgets the plan.
Restart ==
  /\ Idle /\ row.state \in {"paused", "failed"}
  /\ Spend("user")
  /\ size' = 0 /\ good' = {} /\ durable' = {}
  /\ Save("queued", Unplanned) /\ ranged' = FALSE
  /\ UNCHANGED <<at, segs, base, told, final, poolVars, coordVars, stopped, workVars, up, intent>>

\* The engine is called; a plan it does not accept is an error.
Run ==
  /\ Idle /\ row.state = "preparing"
  /\ IF ValidSegments(row.segs, Total)
     THEN Download(row.segs, ranged) /\ Save("downloading", row.segs)
     ELSE Save("failed", row.segs) /\ UNCHANGED engineVars
  /\ UNCHANGED <<up, ranged, intent, budget>>

\* The progress callback saves the row when the last checkpoint is old enough,
\* never once the run has been told to stop.  DownloadService has the Pause that falls
\* between the two; recovery treats the rows it may leave, "pausing" and
\* "downloading", alike.
Checkpoint ==
  \/ UNCHANGED row
  \/ intent = "none" /\ Save("downloading", told')

Report ==
  /\ (\E i \in Indexes : Deliver(i)) \/ DeliverSplit \/ LastReport
  /\ Checkpoint
  /\ UNCHANGED <<up, ranged, intent, budget>>

EngineStep ==
  /\ Coordinator \/ RequestSplit \/ Take \/ \E i \in Indexes : Worker(i)
  /\ UNCHANGED <<up, rowVars, intent, budget>>

\* Pause and Close cancel the context; only Pause writes the row.
Pause ==
  /\ up /\ row.state = "downloading" /\ at \notin {"off", "ended"} /\ intent = "none"
  /\ Spend("user")
  /\ stopped' = TRUE /\ intent' = "pause"
  /\ Save("pausing", row.segs)
  /\ UNCHANGED <<at, segs, base, told, fileVars, final, poolVars, coordVars, workVars, up, ranged>>

Close ==
  /\ up /\ at \notin {"off", "ended"} /\ intent = "none"
  /\ Spend("crash")
  /\ stopped' = TRUE /\ intent' = "close"
  /\ UNCHANGED <<at, segs, base, told, fileVars, final, poolVars, coordVars, workVars, up, rowVars>>

\* The engine has returned.  A run that is told to stop leaves a row that fits
\* the file, another records its failure; a server that answered 200 to a range
\* is remembered as one without ranges.
Finish ==
  /\ at = "ended"
  /\ CASE failure = "ok" ->
            /\ Save("completed", [i \in DOMAIN told |-> [told[i] EXCEPT !.cur = told[i].end + 1]])
            /\ UNCHANGED ranged
       [] failure # "ok" /\ intent = "pause" ->
            /\ IF Reconcilable(told) THEN Save("paused", Reconcile(told)) ELSE Save("failed", told)
            /\ UNCHANGED ranged
       [] failure # "ok" /\ intent = "close" ->
            /\ Save("downloading", IF Reconcilable(told) THEN Reconcile(told) ELSE told)
            /\ UNCHANGED ranged
       [] OTHER ->
            /\ Save("failed", told)
            /\ ranged' \in IF failure = "unreliable" THEN {ranged, FALSE} ELSE {ranged}
  /\ up' = (intent # "close")
  /\ intent' = "none"
  /\ NoCall
  /\ UNCHANGED <<fileVars, final, budget>>

(***************************************************************************)
(* Crash and startup.                                                      *)
(***************************************************************************)
\* The row still claims bytes that one stream over the emptied file has thrown away,
\* or has received again and not yet synced.
Torn ==
  /\ at \in {"whole", "last", "ended"} /\ size >= 0
  /\ ~(Claimed(row.segs) \subseteq durable)

Crash ==
  /\ up /\ row.state \in Recoverable
  /\ CrashInFallback \/ ~Torn
  /\ Spend("crash")
  /\ up' = FALSE /\ intent' = "none"
  /\ good' \in {good, durable} /\ durable' = good'
  /\ NoCall
  /\ UNCHANGED <<size, final, rowVars>>

\* Slip: every row with a good file is recovered as paused.
RecoverAsPaused == IF ~Reconcilable(row.segs) THEN "failed" ELSE "paused"

\* Recover looks at the rows a process left behind.
RecoveryTarget ==
  IF ~Reconcilable(row.segs) THEN "failed"
  ELSE IF Claimed(Reconcile(row.segs)) = {} THEN "queued"
  ELSE IF ranged THEN "paused" ELSE "failed"

Recover ==
  /\ ~up
  /\ up' = TRUE
  /\ IF row.state \in Recoverable /\ RecoveryTarget \in RecoveryTransitions[row.state]
     THEN Save(RecoveryTarget, IF Reconcilable(row.segs) THEN Reconcile(row.segs) ELSE row.segs)
     ELSE UNCHANGED row
  /\ UNCHANGED <<engineVars, ranged, intent, budget>>

\* The steps of process and of startup, of which one at a time can be taken.
ProcessStep == Probe \/ Prepare \/ ContinueRetry \/ Run \/ Finish \/ Recover

Next ==
  \/ ProcessStep \/ Report \/ EngineStep
  \/ Resume \/ Retry \/ Restart \/ Pause \/ Close \/ Crash

\* Goroutines are scheduled, requests end, and a process that went away is
\* started again; nothing obliges the user to do anything.
Fairness ==
  /\ WF_vars(Report) /\ WF_vars(ProcessStep)
  /\ WF_vars(Coordinator /\ UNCHANGED <<up, rowVars, intent, budget>>)
  /\ WF_vars(Take /\ UNCHANGED <<up, rowVars, intent, budget>>)
  /\ \A i \in Indexes : WF_vars(Worker(i) /\ UNCHANGED <<up, rowVars, intent, budget>>)

Spec == Init /\ [][Next]_vars /\ Fairness

(***************************************************************************)
(* Properties.                                                             *)
(***************************************************************************)
\* Between two runs the cursors in the row claim only bytes that the temporary file, if
\* there still is one, holds, whatever was retried, split, paused or cut off by a crash
\* in between.
CheckpointBacked == at = "off" /\ size >= 0 => Claimed(row.segs) \subseteq good

\* What takes the final name is the resource, every byte of it.
PublishedIsComplete == final # Nothing => final = Bytes

\* Startup recovery finds a legal state for every row a process can leave behind,
\* so no row keeps Recover from reaching the rows after it.
RecoveryAlwaysPossible ==
  ~up /\ row.state \in Recoverable => RecoveryTarget \in RecoveryTransitions[row.state]

\* A call of the engine returns, however its requests end and whatever is split,
\* retried or cancelled meanwhile.
RunEnds == (at # "off") ~> (at = "off")

\* The engine, its checkpoints and recovery implement Transfer: progress a run
\* starts from survives fallbacks and crashes.
Running == at \notin {"off", "ended"}

T == INSTANCE Transfer WITH
       All <- Bytes,
       running <- Running,
       kept <- IF Running THEN Claimed(base) ELSE {},
       stored <- good,
       published <- IF final = Nothing THEN {} ELSE final

ProgressIsKept == T!Spec
=============================================================================

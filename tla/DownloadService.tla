--------------------------- MODULE DownloadService ---------------------------
(***************************************************************************)
(* DownloadService: what a run does between Register and Release, and the  *)
(* user operations (Start, Pause, Resume, Restart, Cancel, row edits, the  *)
(* queue-wide operations) that race with it.                               *)
(*                                                                         *)
(* The module extends Dispatcher and refines its "run" step: a worker in   *)
(* "run" has a phase, and every action below conjoins the Dispatcher       *)
(* action it performs, so that a behaviour of this module is a behaviour   *)
(* of Dispatcher.                                                          *)
(*                                                                         *)
(* repository.Get and repository.Save are separate, atomic database        *)
(* operations, and Save writes the whole row: here its state and its       *)
(* queue_id.  A run and a caller keep the row they read in between.        *)
(***************************************************************************)
EXTENDS Dispatcher, DownloadStates

CONSTANTS
  Callers,   (* goroutines that call the service: the UI, the scheduler       *)
  Scenarios, (* what a behaviour may begin with: the rows' queues, the        *)
             (* queues' policies, and calls[d][op], how often op is called    *)
             (* for download d, or for a queue (d = NoDownload): the bound of *)
             (* an instance                                                   *)
  NoDownload

\* "queue" stands for StartQueue, StopQueue and RetryFailed.
Ops == {"start", "pause", "resume", "restart", "cancel", "assign",
        "queue", "policy", "close"}

ASSUME ServiceAssumption ==
  /\ Actions = {"start", "resume"}
  /\ Scenarios \subseteq [calls : [Downloads \cup {NoDownload} -> [Ops -> Nat]],
                         assigned : [Downloads -> Queues],
                         policy : [NamedQueues -> Policies]]

VARIABLES
  db,        (* the state column of each download                            *)
  phase,     (* what process is doing for each worker in "run"               *)
  row,       (* the queue_id in the row each run works on                    *)
  intent,    (* control.intent of each worker's control                      *)
  finished,  (* control.finished                                             *)
  stopped,   (* control.cancel was called                                    *)
  call,      (* the call each caller is executing                            *)
  todo,      (* the single calls a queue-wide operation still has to make    *)
  budget     (* calls left of each operation, for each download and for none   *)

controlVars == <<intent, finished, stopped>>
runVars == <<phase, row, controlVars>>
callVars == <<call, todo, budget>>
serviceVars == <<vars, db, runVars, callVars>>

Phases == {"idle", "load", "probing", "probe", "preError", "preparing",
           "beginning", "limiting", "engine", "checkpoint", "endOk", "endError",
           "savePaused", "unregister", "readCancelled", "saveCancelled", "saveInterrupted",
           "saveFailed", "saveCompleted", "done"}

Intents == {"none", "pause", "cancel"}

Points == {"idle", "enqueue", "retrySave", "rollback", "restart", "restartSave",
           "pauseLock", "pauseSave", "cancelLock", "cancelSave", "withdraw",
           "rowSave"}

\* at: the next step; id: the download; action: the job to enqueue; ctl: the
\* control the call looked up; over: the finished flag of that control once its
\* run is gone; state, queue: the row the call has read.
Calls == [at : Points, id : Downloads \cup {NoDownload}, action : Actions,
          ctl : Workers \cup {NoWorker}, over : BOOLEAN,
          state : States, queue : Queues]

NoCall == [at |-> "idle", id |-> NoDownload, action |-> "start",
           ctl |-> NoWorker, over |-> FALSE, state |-> "queued", queue |-> DefaultQueue]

ServiceTypeOK ==
  /\ TypeOK
  /\ db \in [Downloads -> States]
  /\ phase \in [Workers -> Phases]
  /\ row \in [Workers -> Queues]
  /\ intent \in [Workers -> Intents]
  /\ finished \in [Workers -> BOOLEAN]
  /\ stopped \in [Workers -> BOOLEAN]
  /\ call \in [Callers -> Calls]
  /\ todo \in [Callers -> SUBSET [op : {"start", "pause", "resume"}, id : Downloads]]
  /\ budget \in [Downloads \cup {NoDownload} -> [Ops -> Nat]]

\* Every download has been created and waits to be started.
ServiceInit ==
  /\ Init
  /\ db = [d \in Downloads |-> "queued"]
  /\ phase = [w \in Workers |-> "idle"]
  /\ row = [w \in Workers |-> DefaultQueue]
  /\ intent = [w \in Workers |-> "none"]
  /\ finished = [w \in Workers |-> FALSE]
  /\ stopped = [w \in Workers |-> FALSE]
  /\ call = [c \in Callers |-> NoCall]
  /\ todo = [c \in Callers |-> {}]
  /\ \E s \in Scenarios : budget = s.calls /\ assigned = s.assigned /\ policy = s.policy

(***************************************************************************)
(* Rows and contexts.                                                      *)
(***************************************************************************)
Save(d, state, queue) ==
  /\ db' = [db EXCEPT ![d] = state]
  /\ Assign(d, queue)

\* The run's context is cancelled by its control or by Close.
ContextDone(w) == stopped[w] \/ closed

\* Slip: control.mu is already held from the look-up on.
LockedFromLookUp(w) == \E c \in Callers : call[c].ctl = w

\* Pause holds control.mu from its check of the row to its write of it.
Locked(w) == \E c \in Callers : call[c].at = "pauseSave" /\ call[c].ctl = w

Become(w, p) == phase' = [phase EXCEPT ![w] = p]
Running(w, p) == At(w, "run") /\ phase[w] = p

(***************************************************************************)
(* A run.                                                                  *)
(***************************************************************************)
\* A worker of the pool: the loop around process.
PoolStep(w) ==
  /\ Claim(w) \/ ScanNothing(w) \/ Receive(w) \/ Exit(w) \/ SignalClaim(w) \/ SignalFree(w)
  /\ UNCHANGED <<db, runVars, callVars>>

BeginRun(w) ==
  /\ Register(w)
  /\ Become(w, "load")
  /\ UNCHANGED <<db, row, controlVars, callVars>>

\* A step of a run that neither writes a row nor touches its control.
Move(w, from, to) ==
  /\ Running(w, from)
  /\ Become(w, to)
  /\ UNCHANGED <<vars, db, row, controlVars, callVars>>

\* A start takes up a queued download, a resume one that is paused or retried.
Fits(action, state) ==
  IF action = "start" THEN state = "queued" ELSE state \in {"paused", "retrying"}

\* The read and the checks process starts with: a job that no longer fits the
\* row is dropped without a word.
Load(w) ==
  LET d == job[w].id
  IN  /\ Running(w, "load")
      /\ Become(w, IF ContextDone(w) \/ ~Fits(job[w].action, db[d]) THEN "done"
                   ELSE IF job[w].action = "start" THEN "probing" ELSE "probe")
      /\ row' = [row EXCEPT ![w] = assigned[d]]
      /\ UNCHANGED <<vars, db, controlVars, callVars>>

\* transitionAndSave under the run's context: nothing is written once the
\* context is cancelled, and process returns.
SaveOrStop(w, from, state, to) ==
  /\ Running(w, from)
  /\ \/ /\ ~ContextDone(w)
        /\ Save(job[w].id, state, row[w])
        /\ Become(w, to)
     \/ /\ ContextDone(w)
        /\ Become(w, "done")
        /\ UNCHANGED <<vars, db>>
  /\ UNCHANGED <<row, controlVars, callVars>>

SaveProbing(w) == SaveOrStop(w, "probing", "probing", "probe")
SavePreparing(w) == SaveOrStop(w, "preparing", "preparing", "beginning")
SaveDownloading(w) ==
  SaveOrStop(w, "beginning", "downloading",
             IF row[w] = DefaultQueue THEN "engine" ELSE "limiting")

\* Profile, probe, plan, resume validation and file reconciliation: they
\* accept, or fail in the request, or reject what they found.
Probe(w) ==
  \/ Move(w, "probe", "preparing")
  \/ Move(w, "probe", "saveFailed")
  \/ /\ Running(w, "probe")
     /\ finished' = [finished EXCEPT ![w] = TRUE]
     /\ Become(w, "preError")
     /\ UNCHANGED <<vars, db, row, intent, stopped, callVars>>

\* On shutdown the row is read and written back as it was.
HandlePreEngineError(w) ==
  /\ ~Locked(w)
  /\ Move(w, "preError", IF intent[w] = "cancel" THEN "readCancelled"
                         ELSE IF closed THEN "done" ELSE "saveFailed")

\* The queue row is read under the run's context, and it may be gone: then the
\* run fails, whatever was asked of it.
ReadQueueLimit(w) ==
  Move(w, "limiting",
       IF ContextDone(w) \/ ~policy[row[w]].exists THEN "saveFailed" ELSE "engine")

\* The progress callback looks at the intent, then writes the row.
CheckpointDue(w) ==
  /\ intent[w] = "none"
  /\ Move(w, "engine", "checkpoint")

SaveCheckpoint(w) ==
  /\ Running(w, "checkpoint")
  /\ Save(job[w].id, "downloading", row[w])
  /\ Become(w, "engine")
  /\ UNCHANGED <<row, controlVars, callVars>>

\* engine.Download returns: the stream is complete, or the request failed or
\* was cancelled.
EngineReturns(w) ==
  /\ Running(w, "engine")
  /\ \E p \in {"endOk", "endError"} : Become(w, p)
  /\ finished' = [finished EXCEPT ![w] = TRUE]
  /\ UNCHANGED <<vars, db, row, intent, stopped, callVars>>

\* Slip: the intent is read without control.mu.
SettleUnlocked(w) ==
  \/ Move(w, "endOk", "saveCompleted")
  \/ Move(w, "endError", IF intent[w] = "pause" THEN "savePaused"
                         ELSE IF intent[w] = "cancel" THEN "readCancelled"
                         ELSE IF closed THEN "saveInterrupted" ELSE "saveFailed")

\* The intent is read once under control.mu; what the caller asks for after
\* that comes too late.
Settle(w) ==
  /\ ~Locked(w)
  /\ \/ Move(w, "endOk", "saveCompleted")
     \/ Move(w, "endError", IF intent[w] = "pause" THEN "savePaused"
                            ELSE IF intent[w] = "cancel" THEN "readCancelled"
                            ELSE IF closed THEN "saveInterrupted" ELSE "saveFailed")

\* The last write of a run, which ignores the run's context.
FinalSave(w, from, state, to) ==
  /\ Running(w, from)
  /\ Save(job[w].id, state, row[w])
  /\ Become(w, to)
  /\ UNCHANGED <<row, controlVars, callVars>>

FinishPause(w) ==
  \/ FinalSave(w, "savePaused", "paused", "unregister")
  \/ FinalSave(w, "savePaused", "failed", "done")      \* the file does not reconcile

UnregisterPaused(w) ==
  /\ phase[w] = "unregister"
  /\ Unregister(w)
  /\ Become(w, "done")
  /\ UNCHANGED <<db, row, controlVars, callVars>>

\* finishCancel reads the row again, and gives up if it cannot be cancelled.
ReadCancelled(w) ==
  LET d == job[w].id
  IN  /\ Running(w, "readCancelled")
      /\ Become(w, IF "cancelled" \in Transitions[db[d]] THEN "saveCancelled" ELSE "done")
      /\ row' = [row EXCEPT ![w] = assigned[d]]
      /\ UNCHANGED <<vars, db, controlVars, callVars>>

FinishCancel(w) == FinalSave(w, "saveCancelled", "cancelled", "done")
FinishWithError(w) == FinalSave(w, "saveFailed", "failed", "done")
FinishInterrupted(w) == FinalSave(w, "saveInterrupted", "downloading", "done")
Complete(w) == FinalSave(w, "saveCompleted", "completed", "done")

\* The control of the next run is a new one; a call that still holds the old
\* one keeps its finished flag.
EndRun(w) ==
  /\ phase[w] = "done"
  /\ Release(w)
  /\ Become(w, "idle")
  /\ call' = [c \in Callers |->
                IF call[c].ctl = w
                THEN [call[c] EXCEPT !.ctl = NoWorker, !.over = finished[w]]
                ELSE call[c]]
  /\ intent' = [intent EXCEPT ![w] = "none"]
  /\ finished' = [finished EXCEPT ![w] = FALSE]
  /\ stopped' = [stopped EXCEPT ![w] = FALSE]
  /\ row' = [row EXCEPT ![w] = DefaultQueue]
  /\ UNCHANGED <<db, todo, budget>>

ProcessStep(w) ==
  \/ BeginRun(w) \/ Load(w) \/ SaveProbing(w) \/ Probe(w) \/ HandlePreEngineError(w)
  \/ SavePreparing(w) \/ SaveDownloading(w) \/ ReadQueueLimit(w)
  \/ SaveCheckpoint(w) \/ EngineReturns(w) \/ Settle(w)
  \/ FinishPause(w) \/ UnregisterPaused(w) \/ ReadCancelled(w) \/ FinishCancel(w)
  \/ FinishWithError(w)
  \/ FinishInterrupted(w) \/ Complete(w) \/ EndRun(w)

RunStep(w) == PoolStep(w) \/ ProcessStep(w) \/ CheckpointDue(w)

(***************************************************************************)
(* Callers.  A call takes one of the budget, or one a queue-wide operation *)
(* of the same caller has listed, and makes its first read at once.        *)
(***************************************************************************)
Idle(c) == call[c].at = "idle"

Spend(d, op) ==
  /\ budget[d][op] > 0
  /\ budget' = [budget EXCEPT ![d][op] = @ - 1]

Invoke(c, op, d) ==
  /\ Idle(c)
  /\ IF todo[c] = {}
     THEN Spend(d, op) /\ UNCHANGED todo
     ELSE /\ [op |-> op, id |-> d] \in todo[c]
          /\ todo' = [todo EXCEPT ![c] = @ \ {[op |-> op, id |-> d]}]
          /\ UNCHANGED budget

\* The call goes on at a point, with the row it has read, or returns.
Continue(c, d, point, action) ==
  call' = [call EXCEPT ![c] = [NoCall EXCEPT
             !.at = point, !.id = d, !.action = action,
             !.state = db[d], !.queue = assigned[d]]]

Return(c) == call' = [call EXCEPT ![c] = NoCall]

Waiting(c, point) == call[c].at = point

ReadOnly == UNCHANGED <<vars, db, runVars>>

Start(c, d) ==
  /\ Invoke(c, "start", d)
  /\ CASE db[d] = "queued"    -> Continue(c, d, "enqueue", "start")
       [] db[d] = "failed"    -> Continue(c, d, "retrySave", "resume")
       [] db[d] = "cancelled" -> Continue(c, d, "restart", "start")
       [] OTHER               -> Return(c)
  /\ ReadOnly

Resume(c, d) ==
  /\ Invoke(c, "resume", d)
  /\ IF db[d] = "paused" THEN Continue(c, d, "enqueue", "resume") ELSE Return(c)
  /\ ReadOnly

RestartRead(c, d) ==
  IF db[d] \in {"paused", "failed", "cancelled"}
  THEN Continue(c, d, "restartSave", "start") ELSE Return(c)

Restart(c, d) == Invoke(c, "restart", d) /\ RestartRead(c, d) /\ ReadOnly

\* Start of a cancelled download calls Restart, which reads the row again.
StartRestarts(c) ==
  /\ Waiting(c, "restart")
  /\ RestartRead(c, call[c].id)
  /\ ReadOnly
  /\ UNCHANGED <<todo, budget>>

\* Start of a failed download and Restart write the row before they enqueue.
SaveThenEnqueue(c) ==
  /\ call[c].at \in {"retrySave", "restartSave"}
  /\ Save(call[c].id, IF Waiting(c, "retrySave") THEN "retrying" ELSE "queued",
          call[c].queue)
  /\ call' = [call EXCEPT ![c].at = "enqueue",
                          ![c].state = IF Waiting(c, "retrySave") THEN "retrying" ELSE "queued"]
  /\ UNCHANGED <<runVars, todo, budget>>

EnqueueJob(c) ==
  LET d == call[c].id
  IN  /\ Waiting(c, "enqueue")
      /\ \/ Duplicate(d) /\ Return(c) /\ UNCHANGED vars
         \/ Enqueue(d, call[c].action) /\ Return(c)
         \/ /\ Refuses(d)
            /\ IF call[c].state = "retrying"
               THEN call' = [call EXCEPT ![c].at = "rollback"] ELSE Return(c)
            /\ UNCHANGED vars
      /\ UNCHANGED <<db, runVars, todo, budget>>

Rollback(c) ==
  /\ Waiting(c, "rollback")
  /\ Save(call[c].id, "failed", call[c].queue)
  /\ Return(c)
  /\ UNCHANGED <<runVars, todo, budget>>

\* Pause looks the control up; Cancel too, and works on the row without one.
LookUp(c, d, point) ==
  call' = [call EXCEPT ![c] = [NoCall EXCEPT !.at = point, !.id = d, !.ctl = running[d]]]

Pause(c, d) ==
  /\ Invoke(c, "pause", d)
  /\ IF running[d] # NoWorker THEN LookUp(c, d, "pauseLock") ELSE Return(c)
  /\ ReadOnly

SetIntent(w, i) ==
  intent' = [v \in Workers |-> IF v = w THEN i ELSE intent[v]]

\* Under control.mu: the intent is set before the row is read and reset when
\* the row is not downloading.
PauseLock(c) ==
  LET w == call[c].ctl
      d == call[c].id
      over == IF w = NoWorker THEN call[c].over ELSE finished[w]
  IN  /\ Waiting(c, "pauseLock")
      /\ ~Locked(w)
      /\ IF over THEN Return(c) /\ UNCHANGED intent
         ELSE IF db[d] = "downloading"
         THEN /\ SetIntent(w, "pause")
              /\ call' = [call EXCEPT ![c].at = "pauseSave", ![c].queue = assigned[d]]
         ELSE SetIntent(w, "none") /\ Return(c)
      /\ UNCHANGED <<vars, db, phase, row, finished, stopped, todo, budget>>

CancelContext(w) == stopped' = [v \in Workers |-> stopped[v] \/ v = w]

\* Slip: Pause answers at once, writes paused and forgets the run itself.
PauseAtOnce(c) ==
  /\ Waiting(c, "pauseSave")
  /\ db' = [db EXCEPT ![call[c].id] = "paused"]
  /\ running' = [running EXCEPT ![call[c].id] = NoWorker]
  /\ CancelContext(call[c].ctl)
  /\ Return(c)
  /\ UNCHANGED <<pending, queued, queueRunning, wake, closed, rowVars, pc, job,
                 phase, row, intent, finished, todo, budget>>

PauseSave(c) ==
  /\ Waiting(c, "pauseSave")
  /\ Save(call[c].id, "pausing", call[c].queue)
  /\ CancelContext(call[c].ctl)
  /\ Return(c)
  /\ UNCHANGED <<phase, row, intent, finished, todo, budget>>

Cancel(c, d) ==
  /\ Invoke(c, "cancel", d)
  /\ IF running[d] # NoWorker THEN LookUp(c, d, "cancelLock")
     ELSE IF db[d] \in {"queued", "paused"} THEN Continue(c, d, "cancelSave", "start")
     ELSE Return(c)
  /\ ReadOnly

CancelLock(c) ==
  /\ Waiting(c, "cancelLock")
  /\ ~Locked(call[c].ctl)
  /\ SetIntent(call[c].ctl, "cancel")
  /\ CancelContext(call[c].ctl)
  /\ Return(c)
  /\ UNCHANGED <<vars, db, phase, row, finished, todo, budget>>

CancelSave(c) ==
  /\ Waiting(c, "cancelSave")
  /\ Save(call[c].id, "cancelled", call[c].queue)
  /\ call' = [call EXCEPT ![c].at = "withdraw"]
  /\ UNCHANGED <<runVars, todo, budget>>

CancelWithdraw(c) ==
  /\ Waiting(c, "withdraw")
  /\ Withdraw(call[c].id)
  /\ Return(c)
  /\ UNCHANGED <<db, runVars, todo, budget>>

\* AssignDownloads, and SetDownloadBandwidthLimit with the queue it read: the
\* row is read, edited and written back whole.
EditRow(c, d, q) ==
  /\ Invoke(c, "assign", d)
  /\ call' = [call EXCEPT ![c] = [NoCall EXCEPT
                !.at = "rowSave", !.id = d, !.state = db[d], !.queue = q]]
  /\ ReadOnly

SaveRow(c) ==
  /\ Waiting(c, "rowSave")
  /\ Save(call[c].id, call[c].state, call[c].queue)
  /\ Return(c)
  /\ UNCHANGED <<runVars, todo, budget>>

\* StartQueue, StopQueue and RetryFailed list the rows once and then make the
\* single calls the listed states ask for.  RetryFailed of no queue, which is
\* DefaultQueue here, retries every download.
Listed(op, q, retryFailed) ==
  LET mine == {d \in Downloads : assigned[d] = q \/ q = DefaultQueue}
      calls(o, S) == [op : {o}, id : {d \in mine : db[d] \in S}]
  IN  CASE op = "startQueue"  -> calls("start", IF retryFailed THEN {"queued", "failed"} ELSE {"queued"})
                             \cup calls("resume", {"paused"})
        [] op = "stopQueue"   -> calls("pause", {"downloading"})
        [] op = "retryFailed" -> calls("start", {"failed"})

QueueCall(c, op, q) ==
  /\ Idle(c) /\ todo[c] = {}
  /\ op = "retryFailed" \/ q # DefaultQueue
  /\ Spend(NoDownload, "queue")
  /\ \E retryFailed \in BOOLEAN : todo' = [todo EXCEPT ![c] = Listed(op, q, retryFailed)]
  /\ UNCHANGED call
  /\ ReadOnly

CallStep(c) ==
  \/ SaveThenEnqueue(c) \/ EnqueueJob(c) \/ Rollback(c)
  \/ StartRestarts(c)
  \/ PauseLock(c) \/ PauseSave(c)
  \/ CancelLock(c) \/ CancelSave(c) \/ CancelWithdraw(c) \/ SaveRow(c)

NewCall(c) ==
  \/ \E d \in Downloads :
       \/ Start(c, d) \/ Resume(c, d) \/ Restart(c, d) \/ Pause(c, d) \/ Cancel(c, d)
       \/ \E q \in Queues : EditRow(c, d, q)
  \/ \E q \in Queues, op \in {"startQueue", "stopQueue", "retryFailed"} : QueueCall(c, op, q)

\* Queue edits and shutdown leave the runs and the calls where they are.
Surroundings ==
  \E op \in {"policy", "close"} :
    /\ Spend(NoDownload, op)
    /\ IF op = "close" THEN Close
       ELSE \E q \in NamedQueues, p \in Policies : SetPolicy(q, p)
    /\ UNCHANGED <<db, runVars, call, todo>>

ServiceNext ==
  \/ \E w \in Workers : RunStep(w)
  \/ \E c \in Callers : CallStep(c) \/ NewCall(c)
  \/ Surroundings

ServiceSpec == ServiceInit /\ [][ServiceNext]_serviceVars

\* Goroutines are scheduled; a probe and an engine end, since every request
\* has its timeouts and its bounded retries, however many checkpoints come in
\* between.  The outcomes, the progress callback and new calls are not fair.
ServiceFairness ==
  /\ \A w \in Workers : /\ WF_serviceVars(PoolStep(w))
                         /\ WF_serviceVars(ProcessStep(w))
                         /\ SF_serviceVars(EngineReturns(w))
  /\ \A c \in Callers : WF_serviceVars(CallStep(c))

ServiceFairSpec == ServiceSpec /\ ServiceFairness

(***************************************************************************)
(* Conditions on steps, for what is proved: the code leaves both to        *)
(* chance, and the runs _double_start and _lost_completion show what comes *)
(* of it.                                                                  *)
(***************************************************************************)
\* A worker has claimed a job of d and not yet registered its control.
InGap(d) ==
  \E w \in Workers : pc[w] \in {"claimed", "register"} /\ job[w].id = d

\* No call is accepted for a download in that gap.
NoneQueuedInTheGap ==
  \A d \in Downloads : d \in queued' => d \in queued \/ ~InGap(d)

\* An edit of a row writes back the state the row still has.
EditsAreFresh ==
  \A c \in Callers : SaveRow(c) => call[c].state = db[call[c].id]

(***************************************************************************)
(* Properties.                                                             *)
(***************************************************************************)
Transferring == {"engine", "checkpoint"}

RunsOf(d) == {w \in Workers : At(w, "run") /\ job[w].id = d}

\* Whoever transfers can be paused and cancelled: its control is the one the
\* map holds for its download.  So no two engines write one partial file.
TransferIsControllable ==
  \A w \in Workers : At(w, "run") /\ phase[w] \in Transferring => running[job[w].id] = w

\* A download shown as paused has no request in flight: its engine has returned.
PausedIsQuiet ==
  \A d \in Downloads : db[d] = "paused" => \A w \in RunsOf(d) : phase[w] \notin Transferring

\* Nothing is left behind in a transient state: a download that no worker
\* holds, that no job waits for and that no call is about to touch is in a
\* state the user can act on.
Unattended(d) ==
  /\ d \notin queued
  /\ \A w \in Workers : job[w] # NoJob => job[w].id # d
  /\ \A c \in Callers : Idle(c) \/ call[c].id # d

NothingStranded == \A d \in Downloads : Unattended(d) => db[d] \notin Recoverable

\* A pause the service accepted (the row says pausing, the context is
\* cancelled) does not turn into a failure for want of an intent.
PauseIsNotFailure ==
  [][\A w \in Workers :
       (stopped[w] /\ phase[w] = "saveFailed" /\ ~closed) => db'[job[w].id] # "failed"]_db

\* A completed download stays completed: no late checkpoint, no pause that was under
\* way and no row read before writes an earlier state over it.
CompletedIsFinal == [][\A d \in Downloads : db[d] = "completed" => db'[d] = "completed"]_db

\* A download that waits for a slot is eventually attended to and let go of:
\* no run, job or call keeps it forever, unless the service stops.
Quiesces == \A d \in Downloads : d \in queued ~> (Unattended(d) \/ closed)

\* Every started download settles: it ends paused, failed, cancelled or
\* completed, or goes back to waiting for the user.
Settles ==
  \A d \in Downloads : d \in queued ~> (Unattended(d) /\ db[d] \notin Recoverable)
=============================================================================

------------------------ MODULE DownloadServiceProofs ------------------------
(***************************************************************************)
(* Every action of DownloadService conjoins a step of Dispatcher or leaves *)
(* the pool alone, so that what is proved of the pool holds of the whole   *)
(* service.  The other part shows, under two conditions on the order of    *)
(* steps, that a download has one run, which can be paused and cancelled,  *)
(* and that a paused row has no engine behind it.                          *)
(***************************************************************************)
EXTENDS DownloadService, DispatcherProofs

\* The types of the variables this module adds to the pool's.
RunTypes ==
  /\ db \in [Downloads -> States]
  /\ phase \in [Workers -> Phases]
  /\ row \in [Workers -> Queues]
  /\ intent \in [Workers -> Intents]
  /\ finished \in [Workers -> BOOLEAN]
  /\ stopped \in [Workers -> BOOLEAN]

\* A call that is under way names its download.
CallTypes ==
  /\ call \in [Callers -> Calls]
  /\ \A c \in Callers : call[c].at # "idle" => call[c].id \in Downloads
  /\ todo \in [Callers -> SUBSET [op : {"start", "pause", "resume"}, id : Downloads]]
  /\ budget \in [Downloads \cup {NoDownload} -> [Ops -> Nat]]

SInv == IInv /\ RunTypes /\ CallTypes

LEMMA JobType ==
  ASSUME IInv, NEW w \in Workers, At(w, "run")
  PROVE  job[w] \in Jobs /\ job[w].id \in Downloads
<1>1. job[w] \in Jobs
  BY DEF IInv, HoldsJob, TypeOK, At
<1> QED
  BY <1>1 DEF Jobs

LEMMA NoCallType ==
  NoCall \in Calls
<1>1. "start" \in Actions /\ DefaultQueue \in Queues
  BY ServiceAssumption, DispatcherAssumption
<1> QED
  BY <1>1 DEF NoCall, Calls, Points, States

\* Every write of a row is an assignment of that download, for the pool.
LEMMA SaveIsAssign ==
  ASSUME RunTypes, NEW d \in Downloads, NEW state \in States, NEW q \in Queues,
         Save(d, state, q)
  PROVE  Next /\ db' \in [Downloads -> States]
<1>1. Assign(d, q)
  BY DEF Save
<1>2. Next
  BY <1>1 DEF Next, CallerStep
<1>3. db' \in [Downloads -> States]
  BY DEF Save, RunTypes
<1> QED
  BY <1>2, <1>3

LEMMA PhaseType ==
  ASSUME RunTypes, NEW w, NEW p \in Phases, Become(w, p)
  PROVE  phase' \in [Workers -> Phases]
BY DEF RunTypes, Become

LEMMA SameCalls ==
  ASSUME CallTypes, UNCHANGED callVars
  PROVE  CallTypes'
BY DEF CallTypes, callVars

(***************************************************************************)
(* The steps of a run.                                                     *)
(***************************************************************************)
\* A step that moves a run from one phase to the next and writes nothing.
LEMMA MoveStep ==
  ASSUME SInv, NEW w \in Workers, NEW from, NEW to \in Phases, Move(w, from, to)
  PROVE  [Next]_vars /\ RunTypes' /\ CallTypes'
<1>1. UNCHANGED vars
  BY DEF Move
<1>2. RunTypes'
  BY PhaseType DEF SInv, RunTypes, Move, controlVars
<1>3. CallTypes'
  BY SameCalls DEF SInv, Move
<1> QED
  BY <1>1, <1>2, <1>3

LEMMA SaveOrStopStep ==
  ASSUME SInv, NEW w \in Workers, NEW from, NEW state \in States, NEW to \in Phases,
         SaveOrStop(w, from, state, to)
  PROVE  [Next]_vars /\ RunTypes' /\ CallTypes'
<1>1. job[w].id \in Downloads /\ row[w] \in Queues
  BY JobType DEF SInv, SaveOrStop, Running, RunTypes
<1>2. CallTypes'
  BY SameCalls DEF SInv, SaveOrStop
<1>3. "done" \in Phases
  BY DEF Phases
<1>4. [Next]_vars /\ db' \in [Downloads -> States]
  <2>1. CASE Save(job[w].id, state, row[w])
    BY <1>1, <2>1, SaveIsAssign DEF SInv
  <2>2. CASE UNCHANGED <<vars, db>>
    BY <2>2 DEF SInv, RunTypes
  <2> QED
    BY <2>1, <2>2 DEF SaveOrStop
<1>5. phase' \in [Workers -> Phases]
  BY <1>3, PhaseType DEF SInv, SaveOrStop
<1>6. RunTypes'
  BY <1>4, <1>5 DEF SInv, RunTypes, SaveOrStop, controlVars
<1> QED
  BY <1>2, <1>4, <1>6

LEMMA FinalSaveStep ==
  ASSUME SInv, NEW w \in Workers, NEW from, NEW state \in States, NEW to \in Phases,
         FinalSave(w, from, state, to)
  PROVE  [Next]_vars /\ RunTypes' /\ CallTypes'
<1>1. job[w].id \in Downloads /\ row[w] \in Queues
  BY JobType DEF SInv, FinalSave, Running, RunTypes
<1>2. Next /\ db' \in [Downloads -> States]
  BY <1>1, SaveIsAssign DEF SInv, FinalSave
<1>3. RunTypes'
  BY <1>2, PhaseType DEF SInv, RunTypes, FinalSave, controlVars
<1>4. CallTypes'
  BY SameCalls DEF SInv, FinalSave
<1> QED
  BY <1>2, <1>3, <1>4

LEMMA PoolStepRefines ==
  ASSUME SInv, NEW w \in Workers, PoolStep(w)
  PROVE  [Next]_vars /\ RunTypes' /\ CallTypes'
<1>1. LoopStep(w)
  BY DEF PoolStep, LoopStep
<1>2. Next
  BY <1>1 DEF Next, WorkerStep
<1>3. RunTypes'
  BY DEF SInv, RunTypes, PoolStep, runVars, controlVars
<1>4. CallTypes'
  BY SameCalls DEF SInv, PoolStep
<1> QED
  BY <1>2, <1>3, <1>4

LEMMA EndRunStep ==
  ASSUME SInv, NEW w \in Workers, EndRun(w)
  PROVE  [Next]_vars /\ RunTypes' /\ CallTypes'
<1>1. Next
  BY DEF EndRun, Next, WorkerStep
<1>2. "idle" \in Phases /\ "none" \in Intents /\ DefaultQueue \in Queues
  BY DispatcherAssumption DEF Phases, Intents
<1>3. phase' \in [Workers -> Phases]
  BY <1>2, PhaseType DEF SInv, EndRun
<1>4. RunTypes'
  BY <1>2, <1>3 DEF SInv, RunTypes, EndRun
<1>5. ASSUME NEW c \in Callers
      PROVE  /\ call'[c] \in Calls
             /\ call'[c].at # "idle" => call'[c].id \in Downloads
  <2>1. call[c] \in Calls /\ (call[c].at # "idle" => call[c].id \in Downloads)
    BY DEF SInv, CallTypes
  <2>2. finished[w] \in BOOLEAN
    BY DEF SInv, RunTypes
  <2>3. call'[c] = IF call[c].ctl = w
                   THEN [call[c] EXCEPT !.ctl = NoWorker, !.over = finished[w]]
                   ELSE call[c]
    BY DEF EndRun
  <2>4. CASE call[c].ctl = w
    <3> DEFINE new == [call[c] EXCEPT !.ctl = NoWorker, !.over = finished[w]]
    <3>1. new \in Calls /\ new.at = call[c].at /\ new.id = call[c].id
      BY <2>1, <2>2 DEF Calls
    <3> QED
      BY <2>1, <2>3, <2>4, <3>1
  <2>5. CASE call[c].ctl # w
    BY <2>1, <2>3, <2>5
  <2> QED
    BY <2>4, <2>5
<1>6. call' \in [Callers -> Calls]
  BY <1>5 DEF EndRun
<1>7. CallTypes'
  BY <1>5, <1>6 DEF SInv, CallTypes, EndRun
<1> QED
  BY <1>1, <1>4, <1>7

\* Whatever a run does, the pool sees a step of its own or none.
LEMMA RunStepRefines ==
  ASSUME SInv, NEW w \in Workers, RunStep(w)
  PROVE  [Next]_vars /\ RunTypes' /\ CallTypes'
<1> USE DEF Phases, States
<1>1. CASE PoolStep(w)
  BY <1>1, PoolStepRefines
<1>2. CASE BeginRun(w)
  <2>1. Next
    BY <1>2 DEF BeginRun, Next, WorkerStep, LoopStep
  <2>2. RunTypes'
    BY <1>2, PhaseType DEF SInv, RunTypes, BeginRun, controlVars
  <2>3. CallTypes'
    BY <1>2, SameCalls DEF SInv, BeginRun
  <2> QED
    BY <2>1, <2>2, <2>3
<1>3. CASE Load(w)
  <2>1. assigned[job[w].id] \in Queues
    BY <1>3, JobType DEF SInv, IInv, TypeOK, Load, Running
  <2>2. \E p \in {"done", "probing", "probe"} : Become(w, p)
    BY <1>3 DEF Load
  <2>3. phase' \in [Workers -> Phases]
    BY <2>2, PhaseType DEF SInv
  <2>4. RunTypes'
    BY <1>3, <2>1, <2>3 DEF SInv, RunTypes, Load, controlVars
  <2>5. CallTypes'
    BY <1>3, SameCalls DEF SInv, Load
  <2> QED
    BY <1>3, <2>4, <2>5 DEF Load
<1>4. CASE SaveProbing(w) \/ SavePreparing(w)
  BY <1>4, SaveOrStopStep DEF SaveProbing, SavePreparing
<1>5. CASE SaveDownloading(w)
  <2>1. (IF row[w] = DefaultQueue THEN "engine" ELSE "limiting") \in Phases
    OBVIOUS
  <2> QED
    BY <1>5, <2>1, SaveOrStopStep DEF SaveDownloading
<1>6. CASE Probe(w)
  <2>1. CASE Move(w, "probe", "preparing") \/ Move(w, "probe", "saveFailed")
    BY <2>1, MoveStep
  <2>2. CASE ~(Move(w, "probe", "preparing") \/ Move(w, "probe", "saveFailed"))
    <3>1. /\ finished' = [finished EXCEPT ![w] = TRUE] /\ Become(w, "preError")
          /\ UNCHANGED <<vars, db, row, intent, stopped, callVars>>
      BY <1>6, <2>2 DEF Probe
    <3>2. RunTypes'
      BY <3>1, PhaseType DEF SInv, RunTypes
    <3>3. CallTypes'
      BY <3>1, SameCalls DEF SInv
    <3> QED
      BY <3>1, <3>2, <3>3
  <2> QED
    BY <2>1, <2>2
<1>7. CASE HandlePreEngineError(w) \/ ReadQueueLimit(w) \/ CheckpointDue(w)
  <2>1. PICK from \in Phases, to \in Phases : Move(w, from, to)
    BY <1>7 DEF HandlePreEngineError, ReadQueueLimit, CheckpointDue
  <2> QED
    BY <2>1, MoveStep
<1>8. CASE Settle(w)
  <2>1. PICK from \in Phases, to \in Phases : Move(w, from, to)
    BY <1>8 DEF Settle
  <2> QED
    BY <2>1, MoveStep
<1>9. CASE SaveCheckpoint(w)
  <2>1. FinalSave(w, "checkpoint", "downloading", "engine")
    BY <1>9 DEF SaveCheckpoint, FinalSave
  <2> QED
    BY <2>1, FinalSaveStep
<1>10. CASE EngineReturns(w)
  <2>1. phase' \in [Workers -> Phases]
    BY <1>10, PhaseType DEF SInv, EngineReturns
  <2>2. RunTypes'
    BY <1>10, <2>1 DEF SInv, RunTypes, EngineReturns
  <2>3. CallTypes'
    BY <1>10, SameCalls DEF SInv, EngineReturns
  <2> QED
    BY <1>10, <2>2, <2>3 DEF EngineReturns
<1>11. CASE FinishPause(w)
  BY <1>11, FinalSaveStep DEF FinishPause
<1>12. CASE UnregisterPaused(w)
  <2>1. Next
    BY <1>12 DEF UnregisterPaused, Next, WorkerStep
  <2>2. RunTypes'
    BY <1>12, PhaseType DEF SInv, RunTypes, UnregisterPaused, controlVars
  <2>3. CallTypes'
    BY <1>12, SameCalls DEF SInv, UnregisterPaused
  <2> QED
    BY <2>1, <2>2, <2>3
<1>13. CASE ReadCancelled(w)
  <2>1. assigned[job[w].id] \in Queues
    BY <1>13, JobType DEF SInv, IInv, TypeOK, ReadCancelled, Running
  <2>2. \E p \in {"saveCancelled", "done"} : Become(w, p)
    BY <1>13 DEF ReadCancelled
  <2>3. phase' \in [Workers -> Phases]
    BY <2>2, PhaseType DEF SInv
  <2>4. RunTypes'
    BY <1>13, <2>1, <2>3 DEF SInv, RunTypes, ReadCancelled, controlVars
  <2>5. CallTypes'
    BY <1>13, SameCalls DEF SInv, ReadCancelled
  <2> QED
    BY <1>13, <2>4, <2>5 DEF ReadCancelled
<1>14. CASE FinishCancel(w) \/ FinishWithError(w) \/ FinishInterrupted(w) \/ Complete(w)
  BY <1>14, FinalSaveStep DEF FinishCancel, FinishWithError, FinishInterrupted, Complete
<1>15. CASE EndRun(w)
  BY <1>15, EndRunStep
<1> QED
  BY <1>1, <1>2, <1>3, <1>4, <1>5, <1>6, <1>7, <1>8, <1>9, <1>10, <1>11, <1>12, <1>13,
     <1>14, <1>15 DEF RunStep, ProcessStep

(***************************************************************************)
(* The steps of a caller.                                                  *)
(***************************************************************************)
\* What CallTypes says of call alone.
CallsTyped ==
  /\ call \in [Callers -> Calls]
  /\ \A c \in Callers : call[c].at # "idle" => call[c].id \in Downloads

QuotaTyped ==
  /\ todo \in [Callers -> SUBSET [op : {"start", "pause", "resume"}, id : Downloads]]
  /\ budget \in [Downloads \cup {NoDownload} -> [Ops -> Nat]]

LEMMA NewCallType ==
  ASSUME CallsTyped, NEW c \in Callers, NEW r \in Calls, r.at # "idle" => r.id \in Downloads,
         call' = [call EXCEPT ![c] = r]
  PROVE  CallsTyped'
BY DEF CallsTyped

LEMMA ReturnType ==
  ASSUME CallsTyped, NEW c \in Callers, Return(c)
  PROVE  CallsTyped'
<1>1. NoCall.at = "idle"
  BY DEF NoCall
<1> QED
  BY <1>1, NoCallType, NewCallType DEF Return

LEMMA ContinueType ==
  ASSUME IInv, RunTypes, CallsTyped, NEW c \in Callers, NEW d \in Downloads,
         NEW point \in Points, NEW action \in Actions, Continue(c, d, point, action)
  PROVE  CallsTyped'
<1> DEFINE r == [NoCall EXCEPT !.at = point, !.id = d, !.action = action,
                               !.state = db[d], !.queue = assigned[d]]
<1>1. db[d] \in States /\ assigned[d] \in Queues
  BY DEF RunTypes, IInv, TypeOK
<1>2. r \in Calls /\ r.id = d
  BY <1>1, NoCallType DEF Calls
<1>3. call' = [call EXCEPT ![c] = r]
  BY DEF Continue
<1> HIDE DEF r
<1> QED
  BY <1>2, <1>3, NewCallType

LEMMA LookUpType ==
  ASSUME IInv, CallsTyped, NEW c \in Callers, NEW d \in Downloads, NEW point \in Points,
         LookUp(c, d, point)
  PROVE  CallsTyped'
<1> DEFINE r == [NoCall EXCEPT !.at = point, !.id = d, !.ctl = running[d]]
<1>1. running[d] \in Workers \cup {NoWorker}
  BY DEF IInv, TypeOK
<1>2. r \in Calls /\ r.id = d
  BY <1>1, NoCallType DEF Calls
<1>3. call' = [call EXCEPT ![c] = r]
  BY DEF LookUp
<1> HIDE DEF r
<1> QED
  BY <1>2, <1>3, NewCallType

LEMMA SpendType ==
  ASSUME QuotaTyped, NEW d \in Downloads \cup {NoDownload}, NEW op \in Ops, Spend(d, op)
  PROVE  budget' \in [Downloads \cup {NoDownload} -> [Ops -> Nat]]
<1>1. budget[d] \in [Ops -> Nat] /\ budget[d][op] \in Nat /\ budget[d][op] > 0
  BY DEF QuotaTyped, Spend
<1>2. [budget[d] EXCEPT ![op] = budget[d][op] - 1] \in [Ops -> Nat]
  BY <1>1
<1>3. budget' = [budget EXCEPT ![d] = [budget[d] EXCEPT ![op] = budget[d][op] - 1]]
  BY DEF Spend
<1> QED
  BY <1>2, <1>3 DEF QuotaTyped

LEMMA InvokeType ==
  ASSUME QuotaTyped, NEW c \in Callers, NEW op \in Ops, NEW d \in Downloads, Invoke(c, op, d)
  PROVE  QuotaTyped'
<1>1. CASE todo[c] = {}
  BY <1>1, SpendType DEF Invoke, QuotaTyped
<1>2. CASE todo[c] # {}
  BY <1>2 DEF Invoke, QuotaTyped
<1> QED
  BY <1>1, <1>2

\* Calls that only read.
LEMMA ReadStep ==
  ASSUME SInv, ReadOnly, CallsTyped', QuotaTyped'
  PROVE  [Next]_vars /\ RunTypes' /\ CallTypes'
<1>1. UNCHANGED vars /\ RunTypes'
  BY DEF SInv, ReadOnly, RunTypes, runVars, controlVars
<1>2. CallTypes'
  BY DEF CallTypes, CallsTyped, QuotaTyped
<1> QED
  BY <1>1, <1>2

LEMMA NewCallStep ==
  ASSUME SInv, NEW c \in Callers, NewCall(c)
  PROVE  [Next]_vars /\ RunTypes' /\ CallTypes'
<1>1. IInv /\ RunTypes /\ CallsTyped /\ QuotaTyped
  BY DEF SInv, CallTypes, CallsTyped, QuotaTyped
<1>2. "start" \in Actions /\ "resume" \in Actions
  BY ServiceAssumption
<1>3. ASSUME NEW d \in Downloads, Start(c, d) PROVE CallsTyped' /\ QuotaTyped' /\ ReadOnly
  <2>1. QuotaTyped' /\ ReadOnly
    BY <1>1, <1>3, InvokeType DEF Start, Ops
  <2>2. \/ Return(c)
        \/ \E point \in Points, action \in Actions : Continue(c, d, point, action)
    BY <1>2, <1>3 DEF Start, Points
  <2>3. CallsTyped'
    BY <1>1, <2>2, ReturnType, ContinueType
  <2> QED
    BY <2>1, <2>3
<1>4. ASSUME NEW d \in Downloads, Resume(c, d) PROVE CallsTyped' /\ QuotaTyped' /\ ReadOnly
  <2>1. QuotaTyped' /\ ReadOnly
    BY <1>1, <1>4, InvokeType DEF Resume, Ops
  <2>2. CallsTyped'
    BY <1>1, <1>2, <1>4, ReturnType, ContinueType DEF Resume, Points
  <2> QED
    BY <2>1, <2>2
<1>5. ASSUME NEW d \in Downloads, Restart(c, d) PROVE CallsTyped' /\ QuotaTyped' /\ ReadOnly
  <2>1. QuotaTyped' /\ ReadOnly
    BY <1>1, <1>5, InvokeType DEF Restart, Ops
  <2>2. CallsTyped'
    BY <1>1, <1>2, <1>5, ReturnType, ContinueType DEF Restart, RestartRead, Points
  <2> QED
    BY <2>1, <2>2
<1>6. ASSUME NEW d \in Downloads, Pause(c, d) PROVE CallsTyped' /\ QuotaTyped' /\ ReadOnly
  <2>1. QuotaTyped' /\ ReadOnly
    BY <1>1, <1>6, InvokeType DEF Pause, Ops
  <2>2. CallsTyped'
    BY <1>1, <1>6, ReturnType, LookUpType DEF Pause, Points
  <2> QED
    BY <2>1, <2>2
<1>7. ASSUME NEW d \in Downloads, Cancel(c, d) PROVE CallsTyped' /\ QuotaTyped' /\ ReadOnly
  <2>1. QuotaTyped' /\ ReadOnly
    BY <1>1, <1>7, InvokeType DEF Cancel, Ops
  <2>2. Return(c) \/ LookUp(c, d, "cancelLock") \/ Continue(c, d, "cancelSave", "start")
    BY <1>7 DEF Cancel
  <2>3. CallsTyped'
    BY <1>1, <1>2, <2>2, ReturnType, LookUpType, ContinueType DEF Points
  <2> QED
    BY <2>1, <2>3
<1>8. ASSUME NEW d \in Downloads, NEW q \in Queues, EditRow(c, d, q)
      PROVE  CallsTyped' /\ QuotaTyped' /\ ReadOnly
  <2> DEFINE r == [NoCall EXCEPT !.at = "rowSave", !.id = d, !.state = db[d], !.queue = q]
  <2>1. QuotaTyped' /\ ReadOnly
    BY <1>1, <1>8, InvokeType DEF EditRow, Ops
  <2>2. db[d] \in States
    BY <1>1 DEF RunTypes
  <2>3. r \in Calls /\ r.id = d
    BY <2>2, NoCallType DEF Calls, Points
  <2>4. call' = [call EXCEPT ![c] = r]
    BY <1>8 DEF EditRow
  <2> HIDE DEF r
  <2>5. CallsTyped'
    BY <1>1, <2>3, <2>4, NewCallType
  <2> QED
    BY <2>1, <2>5
<1>9. ASSUME NEW q \in Queues, NEW op \in {"startQueue", "stopQueue", "retryFailed"},
             QueueCall(c, op, q)
      PROVE  CallsTyped' /\ QuotaTyped' /\ ReadOnly
  <2>1. \A retryFailed \in BOOLEAN :
          Listed(op, q, retryFailed) \in SUBSET [op : {"start", "pause", "resume"}, id : Downloads]
    BY DEF Listed
  <2>2. budget' \in [Downloads \cup {NoDownload} -> [Ops -> Nat]]
    BY <1>1, <1>9, SpendType DEF QueueCall, Ops
  <2>3. QuotaTyped'
    BY <1>1, <1>9, <2>1, <2>2 DEF QueueCall, QuotaTyped
  <2>4. CallsTyped'
    BY <1>1, <1>9 DEF QueueCall, CallsTyped
  <2> QED
    BY <1>9, <2>3, <2>4 DEF QueueCall
<1>10. CallsTyped' /\ QuotaTyped' /\ ReadOnly
  BY <1>3, <1>4, <1>5, <1>6, <1>7, <1>8, <1>9 DEF NewCall
<1> QED
  BY <1>10, ReadStep

\* A call that writes a row.
LEMMA CallSaveStep ==
  ASSUME SInv, NEW d \in Downloads, NEW state \in States, NEW q \in Queues,
         Save(d, state, q), UNCHANGED <<phase, row>>,
         intent' \in [Workers -> Intents], finished' \in [Workers -> BOOLEAN],
         stopped' \in [Workers -> BOOLEAN], CallsTyped', UNCHANGED <<todo, budget>>
  PROVE  [Next]_vars /\ RunTypes' /\ CallTypes'
<1>1. Next /\ db' \in [Downloads -> States]
  BY SaveIsAssign DEF SInv
<1>2. RunTypes'
  BY <1>1 DEF SInv, RunTypes
<1>3. CallTypes'
  BY DEF SInv, CallTypes, CallsTyped
<1> QED
  BY <1>1, <1>2, <1>3

LEMMA CallStepRefines ==
  ASSUME SInv, NEW c \in Callers, CallStep(c)
  PROVE  [Next]_vars /\ RunTypes' /\ CallTypes'
<1> DEFINE d == call[c].id
<1>1. IInv /\ RunTypes /\ CallsTyped /\ QuotaTyped
  BY DEF SInv, CallTypes, CallsTyped, QuotaTyped
<1>2. call[c] \in Calls /\ (call[c].at # "idle" => d \in Downloads)
  BY <1>1 DEF CallsTyped
<1>3. /\ call[c].queue \in Queues /\ call[c].state \in States /\ call[c].action \in Actions
      /\ call[c].ctl \in Workers \cup {NoWorker}
  BY <1>2 DEF Calls
<1>4. /\ intent \in [Workers -> Intents] /\ finished \in [Workers -> BOOLEAN]
      /\ stopped \in [Workers -> BOOLEAN]
  BY <1>1 DEF RunTypes
<1>5. ASSUME CallsTyped', UNCHANGED <<todo, budget>> PROVE CallTypes'
  BY <1>1, <1>5 DEF QuotaTyped, CallTypes, CallsTyped
<1>6. CASE SaveThenEnqueue(c)
  <2> DEFINE state == IF Waiting(c, "retrySave") THEN "retrying" ELSE "queued"
             r == [call[c] EXCEPT !.at = "enqueue", !.state = state]
  <2>1. d \in Downloads /\ state \in States
    BY <1>2, <1>6 DEF SaveThenEnqueue, States
  <2>2. r \in Calls /\ r.id = d
    BY <1>2, <2>1 DEF Calls, Points
  <2>3. call' = [call EXCEPT ![c] = r]
    BY <1>6 DEF SaveThenEnqueue
  <2>4. Save(d, state, call[c].queue) /\ UNCHANGED <<runVars, todo, budget>>
    BY <1>6 DEF SaveThenEnqueue
  <2> HIDE DEF r, state
  <2>5. CallsTyped'
    BY <1>1, <2>1, <2>2, <2>3, NewCallType
  <2> QED
    BY <1>3, <1>4, <2>1, <2>4, <2>5, CallSaveStep DEF runVars, controlVars
<1>7. CASE EnqueueJob(c)
  <2>1. d \in Downloads /\ UNCHANGED <<db, runVars, todo, budget>>
    BY <1>2, <1>7 DEF EnqueueJob, Waiting
  <2>2. Return(c) \/ call' = [call EXCEPT ![c].at = "rollback"]
    BY <1>7 DEF EnqueueJob
  <2>3. CASE Return(c)
    <3>1. CallsTyped'
      BY <1>1, <2>3, ReturnType
    <3> QED
      BY <1>3, <1>5, <1>7, <2>1, <3>1 DEF EnqueueJob, SInv, RunTypes, runVars, controlVars, Next, CallerStep
  <2>4. CASE call' = [call EXCEPT ![c].at = "rollback"]
    <3> DEFINE r == [call[c] EXCEPT !.at = "rollback"]
    <3>1. r \in Calls /\ r.id = d /\ call' = [call EXCEPT ![c] = r]
      BY <1>2, <2>4 DEF Calls, Points
    <3> HIDE DEF r
    <3>2. CallsTyped'
      BY <1>1, <2>1, <3>1, NewCallType
    <3> QED
      BY <1>3, <1>5, <1>7, <2>1, <3>2 DEF EnqueueJob, SInv, RunTypes, runVars, controlVars, Next, CallerStep
  <2> QED
    BY <2>2, <2>3, <2>4
<1>8. CASE Rollback(c)
  <2>1. d \in Downloads /\ CallsTyped'
    BY <1>1, <1>2, <1>8, ReturnType DEF Rollback, Waiting
  <2> QED
    BY <1>3, <1>4, <1>8, <2>1, CallSaveStep DEF Rollback, runVars, controlVars, States
<1>9. CASE StartRestarts(c)
  <2>1. d \in Downloads /\ "start" \in Actions
    BY <1>2, <1>9, ServiceAssumption DEF StartRestarts, Waiting
  <2>2. CallsTyped'
    BY <1>1, <1>9, <2>1, ReturnType, ContinueType DEF StartRestarts, RestartRead, Points
  <2>3. QuotaTyped'
    BY <1>1, <1>9 DEF StartRestarts, QuotaTyped
  <2> QED
    BY <1>9, <2>2, <2>3, ReadStep DEF StartRestarts
<1>10. CASE PauseLock(c)
  <2> DEFINE r == [call[c] EXCEPT !.at = "pauseSave", !.queue = assigned[d]]
  <2>1. d \in Downloads
    BY <1>2, <1>10 DEF PauseLock, Waiting
  <2>2. Return(c) \/ call' = [call EXCEPT ![c] = r]
    BY <1>10 DEF PauseLock
  <2>3. r \in Calls /\ r.id = d
    BY <1>1, <1>2, <2>1 DEF Calls, Points, IInv, TypeOK
  <2>4. \E i \in Intents : intent' = intent \/ SetIntent(call[c].ctl, i)
    BY <1>10 DEF PauseLock, Intents
  <2>5. intent' \in [Workers -> Intents]
    BY <1>4, <2>4 DEF SetIntent
  <2> HIDE DEF r
  <2>6. CallsTyped'
    BY <1>1, <2>1, <2>2, <2>3, ReturnType, NewCallType
  <2> QED
    BY <1>1, <1>5, <1>10, <2>5, <2>6 DEF PauseLock, RunTypes
<1>11. CASE PauseSave(c)
  <2>1. d \in Downloads /\ CallsTyped'
    BY <1>1, <1>2, <1>11, ReturnType DEF PauseSave, Waiting
  <2>2. stopped' \in [Workers -> BOOLEAN]
    BY <1>4, <1>11 DEF PauseSave, CancelContext
  <2> QED
    BY <1>3, <1>4, <1>11, <2>1, <2>2, CallSaveStep DEF PauseSave, States
<1>12. CASE CancelLock(c)
  <2>1. CallsTyped'
    BY <1>1, <1>12, ReturnType DEF CancelLock
  <2>2. intent' \in [Workers -> Intents] /\ stopped' \in [Workers -> BOOLEAN]
    BY <1>4, <1>12 DEF CancelLock, SetIntent, CancelContext, Intents
  <2> QED
    BY <1>1, <1>5, <1>12, <2>1, <2>2 DEF CancelLock, RunTypes
<1>13. CASE CancelSave(c)
  <2> DEFINE r == [call[c] EXCEPT !.at = "withdraw"]
  <2>1. d \in Downloads
    BY <1>2, <1>13 DEF CancelSave, Waiting
  <2>2. r \in Calls /\ r.id = d /\ call' = [call EXCEPT ![c] = r]
    BY <1>2, <1>13 DEF Calls, Points, CancelSave
  <2> HIDE DEF r
  <2>3. CallsTyped'
    BY <1>1, <2>1, <2>2, NewCallType
  <2> QED
    BY <1>3, <1>4, <1>13, <2>1, <2>3, CallSaveStep DEF CancelSave, runVars, controlVars, States
<1>14. CASE CancelWithdraw(c)
  <2>1. d \in Downloads /\ CallsTyped'
    BY <1>1, <1>2, <1>14, ReturnType DEF CancelWithdraw, Waiting
  <2>2. Next
    BY <1>14, <2>1 DEF CancelWithdraw, Next, CallerStep
  <2> QED
    BY <1>1, <1>5, <1>14, <2>1, <2>2 DEF CancelWithdraw, RunTypes, runVars, controlVars
<1>15. CASE SaveRow(c)
  <2>1. d \in Downloads /\ CallsTyped'
    BY <1>1, <1>2, <1>15, ReturnType DEF SaveRow, Waiting
  <2> QED
    BY <1>3, <1>4, <1>15, <2>1, CallSaveStep DEF SaveRow, runVars, controlVars
<1> QED
  BY <1>6, <1>7, <1>8, <1>9, <1>10, <1>11, <1>12, <1>13, <1>14, <1>15 DEF CallStep

LEMMA SurroundingsStep ==
  ASSUME SInv, Surroundings
  PROVE  [Next]_vars /\ RunTypes' /\ CallTypes'
<1>1. PICK op \in {"policy", "close"} :
        /\ Spend(NoDownload, op)
        /\ IF op = "close" THEN Close
           ELSE \E q \in NamedQueues, p \in Policies : SetPolicy(q, p)
        /\ UNCHANGED <<db, runVars, call, todo>>
  BY DEF Surroundings
<1>2. Next
  BY <1>1 DEF Next, CallerStep
<1>3. budget' \in [Downloads \cup {NoDownload} -> [Ops -> Nat]]
  BY <1>1, SpendType DEF SInv, CallTypes, QuotaTyped, Ops
<1> QED
  BY <1>1, <1>2, <1>3 DEF SInv, RunTypes, CallTypes, runVars, controlVars

(***************************************************************************)
(* The refinement.                                                         *)
(***************************************************************************)
LEMMA ServiceInitSInv ==
  ServiceInit => SInv
<1> SUFFICES ASSUME ServiceInit PROVE SInv
  OBVIOUS
<1>1. IInv
  BY InitIInv DEF ServiceInit
<1>2. RunTypes
  BY DispatcherAssumption DEF ServiceInit, RunTypes, Phases, Intents, States
<1>3. CallTypes
  <2>1. NoCall.at = "idle"
    BY DEF NoCall
  <2>2. call \in [Callers -> Calls] /\ \A c \in Callers : call[c].at = "idle"
    BY <2>1, NoCallType DEF ServiceInit
  <2> QED
    BY <2>2, ServiceAssumption DEF ServiceInit, CallTypes
<1> QED
  BY <1>1, <1>2, <1>3 DEF SInv

LEMMA ServiceStep ==
  SInv /\ [ServiceNext]_serviceVars => SInv' /\ [Next]_vars
<1> SUFFICES ASSUME SInv, [ServiceNext]_serviceVars PROVE SInv' /\ [Next]_vars
  OBVIOUS
<1>1. CASE ServiceNext
  <2>1. [Next]_vars /\ RunTypes' /\ CallTypes'
    BY <1>1, RunStepRefines, CallStepRefines, NewCallStep, SurroundingsStep DEF ServiceNext
  <2> QED
    BY <2>1, NextIInv DEF SInv
<1>2. CASE UNCHANGED serviceVars
  <2>1. UNCHANGED vars
    BY <1>2 DEF serviceVars
  <2>2. RunTypes' /\ CallTypes'
    BY <1>2 DEF SInv, RunTypes, CallTypes, serviceVars, runVars, controlVars, callVars
  <2> QED
    BY <2>1, <2>2, NextIInv DEF SInv
<1> QED
  BY <1>1, <1>2

\* The service keeps its types: every phase of a run, every point of a call
\* and every state written to a row is one of the code's.
THEOREM ServiceTypeCorrect == ServiceSpec => []ServiceTypeOK
<1>1. ServiceInit => SInv
  BY ServiceInitSInv
<1>2. SInv /\ [ServiceNext]_serviceVars => SInv'
  BY ServiceStep
<1>3. SInv => ServiceTypeOK
  BY DEF SInv, IInv, RunTypes, CallTypes, ServiceTypeOK
<1> QED
  BY <1>1, <1>2, <1>3, PTL DEF ServiceSpec

\* The behaviours of the service are behaviours of the pool, by the way its actions are
\* written.
LEMMA ServiceImplementsDispatcher == ServiceSpec => Spec
<1>1. ServiceInit => Init
  BY DEF ServiceInit
<1>2. ServiceInit => SInv
  BY ServiceInitSInv
<1>3. SInv /\ [ServiceNext]_serviceVars => SInv' /\ [Next]_vars
  BY ServiceStep
<1> QED
  BY <1>1, <1>2, <1>3, PTL DEF ServiceSpec, Spec

\* What was proved of the pool holds of the whole service: slots are accounted
\* for, queue capacity is kept and controls are live whatever users do.
THEOREM ServiceKeepsThePool ==
  ServiceSpec => [](SlotsAccounted /\ CapacityRespected /\ OnlyLiveControls /\ NoLostWakeup)
BY ServiceImplementsDispatcher, SlotsNeverLeak, CapacityHolds, ControlsAreLive,
   WakeupsAreKept, PTL

(***************************************************************************)
(* One run for each download.  What the code leaves to chance is stated as *)
(* two conditions on steps; without either run _double_start, or a stale   *)
(* write of AssignDownloads, breaks what follows.                          *)
(***************************************************************************)
\* A download waits, is between claim and registration, or has a control, and only
\* one of these.
OneRun ==
  /\ \A d \in queued : running[d] = NoWorker
  /\ \A w \in Workers : pc[w] \in {"claimed", "register"} =>
       /\ job[w].id \notin queued /\ running[job[w].id] = NoWorker
       /\ \A v \in Workers : pc[v] \in {"claimed", "register"} /\ job[v].id = job[w].id => v = w

\* A run that has lost its control has nothing left to do.
Controlled ==
  \A w \in Workers : At(w, "run") /\ running[job[w].id] # w => phase[w] = "done"

\* Between the row "downloading" and the end of the engine.
Live == {"limiting", "engine", "checkpoint"}

Quiet ==
  \A w \in Workers : At(w, "run") /\ phase[w] \in Live => db[job[w].id] # "paused"

LEMMA PoolJobType ==
  ASSUME IInv, NEW w \in Workers, pc[w] \in {"claimed", "register", "run"}
  PROVE  job[w] \in Jobs /\ job[w].id \in Downloads
<1>1. job[w] \in Jobs
  BY DEF IInv, HoldsJob, TypeOK
<1> QED
  BY <1>1 DEF Jobs

\* Where a worker changes nothing but its own place, and not into the gap.
LEMMA OneRunKept ==
  ASSUME OneRun,
         \A d \in queued' : d \in queued /\ running'[d] \in {running[d], NoWorker},
         \A w \in Workers : pc'[w] \in {"claimed", "register"} =>
            /\ pc[w] \in {"claimed", "register"} /\ job'[w] = job[w]
            /\ running'[job[w].id] \in {running[job[w].id], NoWorker}
  PROVE  OneRun'
<1>1. \A d \in queued' : running'[d] = NoWorker
  BY DEF OneRun
<1>2. ASSUME NEW w \in Workers, pc'[w] \in {"claimed", "register"}
      PROVE  /\ job'[w].id \notin queued' /\ running'[job'[w].id] = NoWorker
             /\ \A v \in Workers : pc'[v] \in {"claimed", "register"}
                                     /\ job'[v].id = job'[w].id => v = w
  <2>1. pc[w] \in {"claimed", "register"} /\ job'[w] = job[w]
    BY <1>2
  <2>2. job[w].id \notin queued /\ running[job[w].id] = NoWorker
    BY <2>1 DEF OneRun
  <2>3. running'[job[w].id] = NoWorker
    BY <1>2, <2>2
  <2>4. ASSUME NEW v \in Workers, pc'[v] \in {"claimed", "register"}, job'[v].id = job'[w].id
        PROVE  v = w
    <3>1. pc[v] \in {"claimed", "register"} /\ job[v].id = job[w].id
      BY <2>1, <2>4
    <3> QED
      BY <2>1, <3>1 DEF OneRun
  <2> QED
    BY <2>1, <2>2, <2>3, <2>4
<1> QED
  BY <1>1, <1>2 DEF OneRun

LEMMA ClaimOneRun ==
  ASSUME IInv, OneRun, NEW w \in Workers, Claim(w)
  PROVE  OneRun'
<1>1. PICK i \in Candidates :
        /\ job' = [job EXCEPT ![w] = pending[i]]
        /\ queued' = queued \ {pending[i].id}
  BY DEF Claim
<1> DEFINE d == pending[i].id
<1>2. d \in queued
  BY DEF Candidates
<1>3. /\ pc[w] = "scan" /\ pc' = [pc EXCEPT ![w] = "claimed"]
      /\ pc \in [Workers -> Steps] /\ job \in [Workers -> Jobs \cup {NoJob}]
      /\ UNCHANGED running
  BY DEF Claim, Goto, At, IInv, TypeOK
<1>4. job'[w].id = d /\ \A v \in Workers \ {w} : job'[v] = job[v] /\ pc'[v] = pc[v]
  BY <1>1, <1>3
<1>5. queued' = queued \ {d} /\ running[d] = NoWorker
  BY <1>1, <1>2 DEF OneRun
<1>6. \A v \in Workers : pc[v] \in {"claimed", "register"} => job[v].id # d
  BY <1>2 DEF OneRun
<1> HIDE DEF d
<1>7. \A e \in queued' : running'[e] = NoWorker
  BY <1>3, <1>5 DEF OneRun
<1>8. ASSUME NEW u \in Workers, pc'[u] \in {"claimed", "register"}
      PROVE  /\ job'[u].id \notin queued' /\ running'[job'[u].id] = NoWorker
             /\ \A v \in Workers : pc'[v] \in {"claimed", "register"}
                                     /\ job'[v].id = job'[u].id => v = u
  <2>1. CASE u = w
    BY <1>3, <1>4, <1>5, <1>6, <2>1
  <2>2. CASE u # w
    <3>1. pc[u] \in {"claimed", "register"} /\ job'[u] = job[u]
      BY <1>4, <1>8, <2>2
    <3>2. job[u].id \notin queued /\ running[job[u].id] = NoWorker /\ job[u].id # d
      BY <1>6, <3>1 DEF OneRun
    <3>3. ASSUME NEW v \in Workers, pc'[v] \in {"claimed", "register"}, job'[v].id = job'[u].id
          PROVE  v = u
      <4>1. v # w
        BY <1>4, <3>1, <3>2, <3>3
      <4>2. pc[v] \in {"claimed", "register"} /\ job[v].id = job[u].id
        BY <1>4, <3>1, <3>3, <4>1
      <4> QED
        BY <3>1, <4>2 DEF OneRun
    <3> QED
      BY <1>3, <1>5, <3>1, <3>2, <3>3
  <2> QED
    BY <2>1, <2>2
<1> QED
  BY <1>7, <1>8 DEF OneRun

LEMMA RegisterOneRun ==
  ASSUME IInv, OneRun, NEW w \in Workers, Register(w)
  PROVE  OneRun'
<1>1. /\ pc[w] = "register" /\ pc' = [pc EXCEPT ![w] = "run"]
      /\ pc \in [Workers -> Steps] /\ running \in [Downloads -> Workers \cup {NoWorker}]
      /\ running' = [running EXCEPT ![job[w].id] = w] /\ UNCHANGED <<queued, job>>
  BY DEF Register, Goto, At, IInv, TypeOK
<1>2. \A v \in Workers : pc'[v] \in {"claimed", "register"} => v # w /\ pc[v] = pc'[v]
  BY <1>1
<1>3. \A v \in Workers : pc'[v] \in {"claimed", "register"} => job[v].id # job[w].id
  BY <1>1, <1>2 DEF OneRun
<1>4. job[w].id \notin queued
  BY <1>1 DEF OneRun
<1>5. \A d \in queued' : d \in queued /\ running'[d] = running[d]
  BY <1>1, <1>4
<1>6. \A v \in Workers : pc'[v] \in {"claimed", "register"} =>
         /\ pc[v] \in {"claimed", "register"} /\ job'[v] = job[v]
         /\ running'[job[v].id] = running[job[v].id]
  BY <1>1, <1>2, <1>3
<1> QED
  BY <1>5, <1>6, OneRunKept

LEMMA EnqueueOneRun ==
  ASSUME IInv, OneRun, NoneQueuedInTheGap, NEW d \in Downloads, NEW a, Enqueue(d, a)
  PROVE  OneRun'
<1>1. /\ queued' = queued \cup {d} /\ UNCHANGED <<running, pc, job>>
      /\ d \notin queued /\ running[d] = NoWorker
  BY DEF Enqueue, Accepts, Duplicate
<1>2. \A w \in Workers : pc[w] \in {"claimed", "register"} => job[w].id # d
  BY <1>1 DEF NoneQueuedInTheGap, InGap
<1> QED
  BY <1>1, <1>2 DEF OneRun

\* Removing a control, by whomever, frees nothing that is taken.
LEMMA ForgetOneRun ==
  ASSUME IInv, OneRun, NEW w \in Workers, Unregister(w) \/ Release(w)
  PROVE  OneRun'
<1>1. /\ pc[w] = "run" /\ Forget(w) /\ UNCHANGED queued
      /\ queued \subseteq Downloads /\ pc \in [Workers -> Steps]
      /\ job \in [Workers -> Jobs \cup {NoJob}]
  BY DEF Unregister, Release, At, IInv, TypeOK
<1>2. \A d \in Downloads : running'[d] \in {running[d], NoWorker}
  BY <1>1 DEF Forget
<1>3. \A v \in Workers : pc'[v] \in {"claimed", "register"} => pc[v] = pc'[v] /\ job'[v] = job[v]
  BY <1>1 DEF Unregister, Release, Goto
<1>4. ASSUME NEW v \in Workers, pc'[v] \in {"claimed", "register"}
      PROVE  /\ pc[v] \in {"claimed", "register"} /\ job'[v] = job[v]
             /\ running'[job[v].id] \in {running[job[v].id], NoWorker}
  <2>1. pc[v] \in {"claimed", "register"} /\ job'[v] = job[v]
    BY <1>3, <1>4
  <2>2. job[v].id \in Downloads
    BY <2>1, PoolJobType
  <2> QED
    BY <1>2, <2>1, <2>2
<1> QED
  BY <1>1, <1>2, <1>4, OneRunKept

LEMMA PoolOneRun ==
  ASSUME IInv, OneRun, [Next]_vars, NoneQueuedInTheGap
  PROVE  OneRun'
<1>1. ASSUME NEW w \in Workers, SignalClaim(w) \/ SignalFree(w) \/ ScanNothing(w)
                                  \/ Receive(w) \/ Exit(w)
      PROVE  OneRun'
  <2>1. /\ UNCHANGED <<queued, running, job>> /\ pc \in [Workers -> Steps]
        /\ \A v \in Workers : pc'[v] \in {"claimed", "register"}
                                => pc[v] \in {"claimed", "register"}
    BY <1>1 DEF SignalClaim, SignalFree, Signal, ScanNothing, Receive, Exit, Goto, At,
                poolVars, IInv, TypeOK
  <2> QED
    BY <2>1, OneRunKept
<1>2. ASSUME NEW w \in Workers, WorkerStep(w) PROVE OneRun'
  BY <1>1, <1>2, ClaimOneRun, RegisterOneRun, ForgetOneRun DEF WorkerStep, LoopStep
<1>3. ASSUME CallerStep \/ UNCHANGED vars PROVE OneRun'
  <2>1. ASSUME NEW d \in Downloads, NEW a \in Actions, Enqueue(d, a) PROVE OneRun'
    BY <2>1, EnqueueOneRun
  <2>2. ASSUME ~ \E d \in Downloads, a \in Actions : Enqueue(d, a) PROVE OneRun'
    <3>1. queued' \subseteq queued /\ UNCHANGED <<running, pc, job>>
      BY <1>3, <2>2 DEF CallerStep, Withdraw, Assign, SetPolicy, Close, vars, poolVars
    <3> QED
      BY <3>1, OneRunKept
  <2> QED
    BY <2>1, <2>2
<1> QED
  BY <1>2, <1>3 DEF Next

(***************************************************************************)
(* What a step of the service does to the runs, in three forms.            *)
(***************************************************************************)
\* A caller, an edit or shutdown writes rows but never "paused" over another state.
Elsewhere ==
  /\ UNCHANGED <<pc, job, running, phase>>
  /\ \A d \in Downloads : db'[d] = "paused" => db[d] = "paused"

\* A run goes on, and the row it writes says "paused" only once its engine is done.
GoesOn(w) ==
  /\ pc[w] = "run" /\ phase[w] # "done" /\ UNCHANGED <<pc, job, running>>
  /\ \E p \in Phases :
       /\ phase' = [phase EXCEPT ![w] = p]
       /\ \/ UNCHANGED db /\ (p \in Live => phase[w] \in Live)
          \/ \E s \in States \ {"paused"} : db' = [db EXCEPT ![job[w].id] = s]
          \/ p \notin Live /\ phase[w] \notin Live /\ db' = [db EXCEPT ![job[w].id] = "paused"]

\* A run begins, loses its control, ends, or a worker looks for a job.
Comes(w) ==
  /\ UNCHANGED db
  /\ \/ PoolStep(w) /\ UNCHANGED phase
     \/ Register(w) /\ Become(w, "load")
     \/ Unregister(w) /\ phase[w] = "unregister" /\ Become(w, "done")
     \/ Release(w) /\ phase[w] = "done" /\ Become(w, "idle")

\* Without any condition: only runs and workers change runs.
LEMMA CallKeeps ==
  ASSUME NEW c \in Callers, CallStep(c)
  PROVE  UNCHANGED <<pc, job, running, phase>>
BY DEF CallStep, SaveThenEnqueue, EnqueueJob, Enqueue, Rollback, StartRestarts,
       PauseLock, PauseSave, CancelLock, CancelSave, CancelWithdraw, Withdraw, SaveRow,
       Save, Assign, ReadOnly, vars, poolVars, runVars

LEMMA CallsKeepRuns ==
  ASSUME [ServiceNext]_serviceVars, ~ \E w \in Workers : RunStep(w)
  PROVE  UNCHANGED <<pc, job, running, phase>>
<1>1. ASSUME NEW c \in Callers, NewCall(c) PROVE ReadOnly
  BY <1>1 DEF NewCall, Start, Resume, Restart, Pause, Cancel, EditRow, QueueCall
<1>2. ASSUME NEW c \in Callers, CallStep(c) PROVE UNCHANGED <<pc, job, running, phase>>
  BY <1>2, CallKeeps
<1>3. CASE ReadOnly
  BY <1>3 DEF ReadOnly, vars, poolVars, runVars
<1>4. CASE Surroundings
  BY <1>4 DEF Surroundings, Close, SetPolicy, poolVars, runVars
<1>5. CASE UNCHANGED serviceVars
  BY <1>5 DEF serviceVars, vars, poolVars, runVars
<1> QED
  BY <1>1, <1>2, <1>3, <1>4, <1>5 DEF ServiceNext

LEMMA SaveElsewhere ==
  ASSUME SInv, NEW d \in Downloads, NEW s \in States, NEW q,
         Save(d, s, q), UNCHANGED phase, s = "paused" => db[d] = "paused"
  PROVE  Elsewhere
<1>1. UNCHANGED <<pc, job, running, phase>>
  BY DEF Save, Assign, poolVars
<1>2. db' = [db EXCEPT ![d] = s] /\ db \in [Downloads -> States]
  BY DEF Save, SInv, RunTypes
<1> QED
  BY <1>1, <1>2 DEF Elsewhere

LEMMA CallElsewhere ==
  ASSUME SInv, EditsAreFresh, NEW c \in Callers, CallStep(c)
  PROVE  Elsewhere
<1>1. call[c] \in Calls /\ (call[c].at # "idle" => call[c].id \in Downloads)
  BY DEF SInv, CallTypes
<1>2. CASE UNCHANGED <<db, phase, pc, job, running>>
  BY <1>2 DEF Elsewhere
<1>3. CASE SaveThenEnqueue(c)
  <2>1. call[c].id \in Downloads
    BY <1>1, <1>3 DEF SaveThenEnqueue
  <2> QED
    BY <1>3, <2>1, SaveElsewhere DEF SaveThenEnqueue, runVars, States
<1>4. CASE Rollback(c)
  <2>1. call[c].id \in Downloads
    BY <1>1, <1>4 DEF Rollback, Waiting
  <2> QED
    BY <1>4, <2>1, SaveElsewhere DEF Rollback, runVars, States
<1>5. CASE PauseSave(c)
  <2>1. call[c].id \in Downloads
    BY <1>1, <1>5 DEF PauseSave, Waiting
  <2> QED
    BY <1>5, <2>1, SaveElsewhere DEF PauseSave, States
<1>6. CASE CancelSave(c)
  <2>1. call[c].id \in Downloads
    BY <1>1, <1>6 DEF CancelSave, Waiting
  <2> QED
    BY <1>6, <2>1, SaveElsewhere DEF CancelSave, runVars, States
<1>7. CASE SaveRow(c)
  <2>1. call[c].id \in Downloads /\ call[c].state \in States
    BY <1>1, <1>7 DEF SaveRow, Waiting, Calls
  <2>2. call[c].state = db[call[c].id]
    BY <1>7 DEF EditsAreFresh
  <2> QED
    BY <1>7, <2>1, <2>2, SaveElsewhere DEF SaveRow, runVars
<1>8. CASE EnqueueJob(c)
  <2>1. UNCHANGED <<db, phase>>
    BY <1>8 DEF EnqueueJob, runVars
  <2>2. UNCHANGED <<pc, job, running>>
    BY <1>8 DEF EnqueueJob, Enqueue, vars, poolVars
  <2> QED
    BY <1>2, <2>1, <2>2
<1>9. CASE StartRestarts(c) \/ PauseLock(c) \/ CancelLock(c)
  <2>1. UNCHANGED vars /\ UNCHANGED <<db, phase>>
    BY <1>9 DEF StartRestarts, PauseLock, CancelLock, ReadOnly, runVars
  <2> QED
    BY <1>2, <2>1 DEF vars, poolVars
<1>10. CASE CancelWithdraw(c)
  BY <1>2, <1>10 DEF CancelWithdraw, Withdraw, runVars
<1> QED
  BY <1>3, <1>4, <1>5, <1>6, <1>7, <1>8, <1>9, <1>10 DEF CallStep

LEMMA OthersElsewhere ==
  ASSUME SInv, \/ \E c \in Callers : NewCall(c)
               \/ Surroundings
               \/ UNCHANGED serviceVars
  PROVE  Elsewhere
<1>1. ASSUME NEW c \in Callers, NewCall(c) PROVE ReadOnly
  BY <1>1 DEF NewCall, Start, Resume, Restart, Pause, Cancel, EditRow, QueueCall
<1>2. UNCHANGED <<db, phase, pc, job, running>>
  <2>1. CASE ReadOnly
    BY <2>1 DEF ReadOnly, vars, poolVars, runVars
  <2>2. CASE Surroundings
    BY <2>2 DEF Surroundings, Close, SetPolicy, poolVars, runVars
  <2>3. CASE UNCHANGED serviceVars
    BY <2>3 DEF serviceVars, vars, poolVars, runVars
  <2> QED
    BY <1>1, <2>1, <2>2, <2>3
<1> QED
  BY <1>2 DEF Elsewhere

\* The saves of a run.
LEMMA SaveGoesOn ==
  ASSUME SInv, NEW w \in Workers, NEW from \in Phases \ {"done"}, NEW to \in Phases, NEW s \in States,
         Running(w, from), Become(w, to), Save(job[w].id, s, row[w]),
         s = "paused" => from \notin Live /\ to \notin Live
  PROVE  GoesOn(w)
<1>1. /\ pc[w] = "run" /\ phase[w] = from /\ phase' = [phase EXCEPT ![w] = to]
      /\ db' = [db EXCEPT ![job[w].id] = s]
  BY DEF Running, At, Become, Save
<1>2. UNCHANGED <<pc, job, running>>
  BY DEF Save, Assign, poolVars
<1> QED
  BY <1>1, <1>2 DEF GoesOn

LEMMA MoveGoesOn ==
  ASSUME SInv, NEW w \in Workers, NEW from \in Phases \ {"done"}, NEW to \in Phases,
         Running(w, from), Become(w, to), UNCHANGED <<vars, db>>,
         to \in Live => from \in Live
  PROVE  GoesOn(w)
<1>1. pc[w] = "run" /\ phase[w] = from /\ phase' = [phase EXCEPT ![w] = to]
  BY DEF Running, At, Become
<1>2. UNCHANGED <<pc, job, running>>
  BY DEF vars, poolVars
<1> QED
  BY <1>1, <1>2 DEF GoesOn

LEMMA SaveOrStopGoesOn ==
  ASSUME SInv, NEW w \in Workers, NEW from \in Phases \ {"done"}, NEW to \in Phases,
         NEW s \in States \ {"paused"}, SaveOrStop(w, from, s, to)
  PROVE  GoesOn(w)
<1>1. CASE ~ContextDone(w)
  BY <1>1, SaveGoesOn DEF SaveOrStop
<1>2. CASE ContextDone(w)
  <2>1. "done" \in Phases /\ "done" \notin Live
    BY DEF Phases, Live
  <2> QED
    BY <1>2, <2>1, MoveGoesOn DEF SaveOrStop
<1> QED
  BY <1>1, <1>2

LEMMA RunForms ==
  ASSUME SInv, NEW w \in Workers, RunStep(w)
  PROVE  GoesOn(w) \/ Comes(w)
<1> USE DEF Phases, States, Live
<1>1. CASE PoolStep(w)
  BY <1>1 DEF PoolStep, Comes, runVars
<1>2. CASE BeginRun(w) \/ UnregisterPaused(w) \/ EndRun(w)
  BY <1>2 DEF BeginRun, UnregisterPaused, EndRun, Comes
<1>3. CASE Load(w)
  <2>1. PICK p \in {"done", "probing", "probe"} : Become(w, p)
    BY <1>3 DEF Load
  <2> QED
    BY <1>3, <2>1, MoveGoesOn DEF Load
<1>4. CASE SaveProbing(w) \/ SavePreparing(w) \/ SaveDownloading(w)
  <2>1. \/ SaveOrStop(w, "probing", "probing", "probe")
        \/ SaveOrStop(w, "preparing", "preparing", "beginning")
        \/ SaveOrStop(w, "beginning", "downloading", "engine")
        \/ SaveOrStop(w, "beginning", "downloading", "limiting")
    BY <1>4 DEF SaveProbing, SavePreparing, SaveDownloading
  <2> QED
    BY <2>1, SaveOrStopGoesOn
<1>5. CASE Probe(w)
  <2>1. PICK p \in {"preparing", "saveFailed", "preError"} :
          Running(w, "probe") /\ Become(w, p) /\ UNCHANGED <<vars, db>>
    BY <1>5 DEF Probe, Move
  <2> QED
    BY <2>1, MoveGoesOn
<1>6. CASE HandlePreEngineError(w)
  <2>1. PICK p \in {"readCancelled", "done", "saveFailed"} : Move(w, "preError", p)
    BY <1>6 DEF HandlePreEngineError
  <2> QED
    BY <2>1, MoveGoesOn DEF Move
<1>7. CASE ReadQueueLimit(w)
  <2>1. PICK p \in {"saveFailed", "engine"} : Move(w, "limiting", p)
    BY <1>7 DEF ReadQueueLimit
  <2> QED
    BY <2>1, MoveGoesOn DEF Move
<1>8. CASE CheckpointDue(w)
  BY <1>8, MoveGoesOn DEF CheckpointDue, Move
<1>9. CASE SaveCheckpoint(w)
  BY <1>9, SaveGoesOn DEF SaveCheckpoint
<1>10. CASE EngineReturns(w)
  <2>1. PICK p \in {"endOk", "endError"} : Become(w, p)
    BY <1>10 DEF EngineReturns
  <2> QED
    BY <1>10, <2>1, MoveGoesOn DEF EngineReturns
<1>11. CASE Settle(w)
  <2>1. PICK from \in {"endOk", "endError"},
             p \in {"saveCompleted", "savePaused", "readCancelled", "saveInterrupted", "saveFailed"} :
          Move(w, from, p)
    BY <1>11 DEF Settle
  <2> QED
    BY <2>1, MoveGoesOn DEF Move
<1>12. CASE FinishPause(w)
  <2>1. \/ FinalSave(w, "savePaused", "paused", "unregister")
        \/ FinalSave(w, "savePaused", "failed", "done")
    BY <1>12 DEF FinishPause
  <2> QED
    BY <2>1, SaveGoesOn DEF FinalSave
<1>13. CASE ReadCancelled(w)
  <2>1. PICK p \in {"saveCancelled", "done"} : Become(w, p)
    BY <1>13 DEF ReadCancelled
  <2> QED
    BY <1>13, <2>1, MoveGoesOn DEF ReadCancelled
<1>14. CASE FinishCancel(w) \/ FinishWithError(w) \/ FinishInterrupted(w) \/ Complete(w)
  <2>1. PICK from \in {"saveCancelled", "saveFailed", "saveInterrupted", "saveCompleted"},
             s \in {"cancelled", "failed", "downloading", "completed"} :
          FinalSave(w, from, s, "done")
    BY <1>14 DEF FinishCancel, FinishWithError, FinishInterrupted, Complete
  <2> QED
    BY <2>1, SaveGoesOn DEF FinalSave
<1> QED
  BY <1>1, <1>2, <1>3, <1>4, <1>5, <1>6, <1>7, <1>8, <1>9, <1>10, <1>11, <1>12, <1>13,
     <1>14 DEF RunStep, ProcessStep

LEMMA RunsControlled ==
  ASSUME SInv, OneRun, Controlled, Elsewhere \/ \E w \in Workers : GoesOn(w) \/ Comes(w)
  PROVE  Controlled'
<1> SUFFICES ASSUME NEW v \in Workers, pc'[v] = "run", running'[job'[v].id] # v
             PROVE  phase'[v] = "done"
  BY DEF Controlled, At
<1>1. /\ pc \in [Workers -> Steps] /\ job \in [Workers -> Jobs \cup {NoJob}]
      /\ phase \in [Workers -> Phases]
      /\ running \in [Downloads -> Workers \cup {NoWorker}]
  BY DEF SInv, IInv, TypeOK, RunTypes
<1>2. CASE Elsewhere
  BY <1>2 DEF Elsewhere, Controlled, At
<1>3. ASSUME NEW w \in Workers, GoesOn(w) PROVE phase'[v] = "done"
  <2>1. /\ pc[v] = "run" /\ running[job[v].id] # v /\ phase[v] = "done"
    BY <1>3 DEF GoesOn, Controlled, At
  <2>2. v # w
    BY <1>3, <2>1 DEF GoesOn
  <2> QED
    BY <1>1, <1>3, <2>1, <2>2 DEF GoesOn
<1>4. ASSUME NEW w \in Workers, PoolStep(w), UNCHANGED phase PROVE phase'[v] = "done"
  <2>1. /\ pc[v] = "run" /\ job'[v] = job[v] /\ UNCHANGED running
    BY <1>1, <1>4 DEF PoolStep, Claim, ScanNothing, Receive, Exit, SignalClaim, SignalFree,
                      Signal, Goto, At, poolVars
  <2> QED
    BY <1>4, <2>1 DEF Controlled, At
<1>5. ASSUME NEW w \in Workers, Register(w), Become(w, "load") PROVE phase'[v] = "done"
  <2>1. /\ pc[w] = "register" /\ pc' = [pc EXCEPT ![w] = "run"] /\ UNCHANGED job
        /\ running' = [running EXCEPT ![job[w].id] = w]
        /\ job[w].id \in Downloads
    BY <1>5, PoolJobType DEF Register, Goto, At, SInv
  <2>2. v # w
    BY <1>1, <2>1
  <2>3. pc[v] = "run"
    BY <1>1, <2>1, <2>2
  <2>4. running[job[v].id] # v
    <3>1. CASE job[v].id = job[w].id
      <4>1. running[job[w].id] = NoWorker
        BY <2>1 DEF OneRun
      <4> QED
        BY <3>1, <4>1, DispatcherAssumption
    <3>2. CASE job[v].id # job[w].id
      BY <1>1, <2>1, <3>2
    <3> QED
      BY <3>1, <3>2
  <2>5. phase[v] = "done"
    BY <2>3, <2>4 DEF Controlled, At
  <2> QED
    BY <1>1, <1>5, <2>2, <2>5 DEF Become
<1>6. ASSUME NEW w \in Workers,
             \/ Unregister(w) /\ Become(w, "done")
             \/ Release(w) /\ Become(w, "idle")
      PROVE  phase'[v] = "done"
  <2>1. /\ pc[w] = "run" /\ Forget(w)
        /\ Release(w) => pc' = [pc EXCEPT ![w] = "freed"]
        /\ Unregister(w) => pc' = pc
        /\ \A u \in Workers \ {w} : job'[u] = job[u]
        /\ Unregister(w) => job' = job
    BY <1>1, <1>6 DEF Unregister, Release, Goto, At
  <2>2. CASE v = w
    <3>1. ~Release(w)
      BY <1>1, <2>1, <2>2
    <3> QED
      BY <1>1, <1>6, <2>2, <3>1 DEF Become
  <2>3. CASE v # w
    <3>1. pc[v] = "run" /\ job'[v] = job[v] /\ job[v].id \in Downloads
      <4>1. pc[v] = "run" /\ job'[v] = job[v]
        BY <1>1, <1>6, <2>1, <2>3
      <4> QED
        BY <4>1, PoolJobType DEF SInv
    <3>2. running[job[v].id] # v
      BY <2>1, <2>3, <3>1 DEF Forget
    <3>3. phase[v] = "done"
      BY <3>1, <3>2 DEF Controlled, At
    <3> QED
      BY <1>1, <1>6, <2>3, <3>3 DEF Become
  <2> QED
    BY <2>2, <2>3
<1> QED
  BY <1>2, <1>3, <1>4, <1>5, <1>6 DEF Comes

LEMMA RunsQuiet ==
  ASSUME SInv, Controlled, Quiet, Elsewhere \/ \E w \in Workers : GoesOn(w) \/ Comes(w)
  PROVE  Quiet'
<1> SUFFICES ASSUME NEW v \in Workers, pc'[v] = "run", phase'[v] \in Live
             PROVE  db'[job'[v].id] # "paused"
  BY DEF Quiet, At
<1>1. /\ pc \in [Workers -> Steps] /\ job \in [Workers -> Jobs \cup {NoJob}]
      /\ phase \in [Workers -> Phases] /\ db \in [Downloads -> States]
  BY DEF SInv, IInv, TypeOK, RunTypes
<1>2. CASE Elsewhere
  <2>1. pc[v] = "run" /\ job'[v] = job[v] /\ phase[v] \in Live /\ job[v].id \in Downloads
    BY <1>2, PoolJobType DEF Elsewhere, SInv
  <2> QED
    BY <1>2, <2>1 DEF Elsewhere, Quiet, At
<1>3. ASSUME NEW w \in Workers, GoesOn(w) PROVE db'[job'[v].id] # "paused"
  <2>1. PICK p \in Phases :
          /\ phase' = [phase EXCEPT ![w] = p]
          /\ \/ UNCHANGED db /\ (p \in Live => phase[w] \in Live)
             \/ \E s \in States \ {"paused"} : db' = [db EXCEPT ![job[w].id] = s]
             \/ p \notin Live /\ phase[w] \notin Live /\ db' = [db EXCEPT ![job[w].id] = "paused"]
    BY <1>3 DEF GoesOn
  <2>2. /\ pc[w] = "run" /\ phase[w] # "done" /\ UNCHANGED <<pc, job>>
        /\ pc[v] = "run" /\ job[v].id \in Downloads /\ job[w].id \in Downloads
    BY <1>3, PoolJobType DEF GoesOn, SInv
  <2>3. phase'[w] = p /\ (v # w => phase'[v] = phase[v])
    BY <1>1, <2>1
  <2>4. CASE UNCHANGED db /\ (p \in Live => phase[w] \in Live)
    BY <2>2, <2>3, <2>4 DEF Quiet, At
  <2>5. ASSUME NEW s \in States \ {"paused"}, db' = [db EXCEPT ![job[w].id] = s]
        PROVE  db'[job'[v].id] # "paused"
    <3>1. CASE job[v].id = job[w].id
      BY <1>1, <2>2, <2>5, <3>1
    <3>2. CASE job[v].id # job[w].id
      <4>1. v # w /\ phase[v] \in Live
        BY <2>3, <3>2
      <4>2. db[job[v].id] # "paused"
        BY <2>2, <4>1 DEF Quiet, At
      <4> QED
        BY <1>1, <2>2, <2>5, <3>2, <4>2
    <3> QED
      BY <3>1, <3>2
  <2>6. CASE p \notin Live /\ phase[w] \notin Live /\ db' = [db EXCEPT ![job[w].id] = "paused"]
    <3>1. v # w /\ phase[v] \in Live
      BY <2>3, <2>6
    <3>2. phase[v] # "done"
      BY <3>1 DEF Live
    <3>3. running[job[v].id] = v /\ running[job[w].id] = w
      BY <2>2, <3>2 DEF Controlled, At
    <3>4. job[v].id # job[w].id
      BY <3>1, <3>3
    <3>5. db[job[v].id] # "paused"
      BY <2>2, <3>1 DEF Quiet, At
    <3> QED
      BY <1>1, <2>2, <2>6, <3>4, <3>5
  <2> QED
    BY <2>1, <2>4, <2>5, <2>6
<1>4. ASSUME NEW w \in Workers, Comes(w) PROVE db'[job'[v].id] # "paused"
  <2>1. UNCHANGED db
    BY <1>4 DEF Comes
  <2>2. /\ pc[v] = "run" /\ job'[v] = job[v] /\ phase[v] \in Live
    <3>1. CASE PoolStep(w) /\ UNCHANGED phase
      <4>1. /\ pc[v] = "run" /\ job'[v] = job[v]
        BY <1>1, <3>1 DEF PoolStep, Claim, ScanNothing, Receive, Exit, SignalClaim, SignalFree,
                          Signal, Goto, At, poolVars
      <4> QED
        BY <3>1, <4>1
    <3>2. CASE Register(w) /\ Become(w, "load")
      <4>1. v # w
        BY <1>1, <3>2 DEF Become, Live
      <4> QED
        BY <1>1, <3>2, <4>1 DEF Register, Become, Goto
    <3>3. CASE (Unregister(w) /\ Become(w, "done")) \/ (Release(w) /\ Become(w, "idle"))
      <4>1. v # w
        BY <1>1, <3>3 DEF Become, Live
      <4> QED
        BY <1>1, <3>3, <4>1 DEF Unregister, Release, Become, Goto
    <3> QED
      BY <1>4, <3>1, <3>2, <3>3 DEF Comes
  <2> QED
    BY <2>1, <2>2 DEF Quiet, At
<1> QED
  BY <1>2, <1>3, <1>4

(***************************************************************************)
(* Results under the two conditions.                                       *)
(***************************************************************************)
LEMMA RunsStart ==
  ServiceInit => SInv /\ OneRun /\ Controlled /\ Quiet
<1> SUFFICES ASSUME ServiceInit PROVE OneRun /\ Controlled /\ Quiet
  BY ServiceInitSInv
<1>1. queued = {} /\ \A w \in Workers : pc[w] = "scan"
  BY DEF ServiceInit, Init
<1> QED
  BY <1>1 DEF OneRun, Controlled, Quiet, At

LEMMA RunsStep ==
  ASSUME SInv, OneRun, Controlled, [ServiceNext]_serviceVars, NoneQueuedInTheGap
  PROVE  /\ SInv' /\ OneRun' /\ Controlled'
         /\ Quiet /\ EditsAreFresh => Quiet'
<1>1. SInv' /\ [Next]_vars
  BY ServiceStep
<1>2. OneRun'
  BY <1>1, PoolOneRun DEF SInv
<1>3. Controlled'
  <2>1. CASE \E w \in Workers : RunStep(w)
    BY <2>1, RunForms, RunsControlled
  <2>2. CASE ~ \E w \in Workers : RunStep(w)
    <3>1. UNCHANGED <<pc, job, running, phase>>
      BY <2>2, CallsKeepRuns
    <3> QED
      BY <3>1 DEF Controlled, At
  <2> QED
    BY <2>1, <2>2
<1>4. ASSUME Quiet, EditsAreFresh PROVE Quiet'
  <2>1. Elsewhere \/ \E w \in Workers : GoesOn(w) \/ Comes(w)
    BY <1>4, RunForms, CallElsewhere, OthersElsewhere DEF ServiceNext
  <2> QED
    BY <1>4, <2>1, RunsQuiet
<1> QED
  BY <1>1, <1>2, <1>3, <1>4

\* Pause and Cancel reach every run that transfers, through the map of controls, for any
\* number of downloads, workers and calls of every kind, if only no call is accepted for
\* a download between its claim and its registration: no two engines write one file.
THEOREM TransfersAreControllable ==
  ServiceSpec /\ [][NoneQueuedInTheGap]_serviceVars => []TransferIsControllable
<1>1. OneRun /\ Controlled => TransferIsControllable
  <2>1. \A p \in Transferring : p # "done"
    BY DEF Transferring
  <2> QED
    BY <2>1 DEF Controlled, TransferIsControllable
<1>2. /\ SInv /\ OneRun /\ Controlled
      /\ [ServiceNext]_serviceVars /\ [NoneQueuedInTheGap]_serviceVars
      => SInv' /\ OneRun' /\ Controlled'
  <2> SUFFICES ASSUME SInv, OneRun, Controlled, [ServiceNext]_serviceVars,
                      [NoneQueuedInTheGap]_serviceVars
               PROVE  SInv' /\ OneRun' /\ Controlled'
    OBVIOUS
  <2>1. NoneQueuedInTheGap
    BY DEF NoneQueuedInTheGap, serviceVars, vars, poolVars
  <2> QED
    BY <2>1, RunsStep
<1> QED
  BY <1>1, <1>2, RunsStart, PTL DEF ServiceSpec

\* A row that says "paused" has no engine behind it, under the same condition and if
\* AssignDownloads writes back the state that the row still has.
THEOREM PausedDownloadsAreQuiet ==
  ServiceSpec /\ [][NoneQueuedInTheGap]_serviceVars /\ [][EditsAreFresh]_serviceVars
    => []PausedIsQuiet
<1>1. Quiet => PausedIsQuiet
  <2>1. Transferring \subseteq Live
    BY DEF Transferring, Live
  <2> QED
    BY <2>1 DEF Quiet, PausedIsQuiet, RunsOf
<1>2. /\ SInv /\ OneRun /\ Controlled /\ Quiet
      /\ [ServiceNext]_serviceVars /\ [NoneQueuedInTheGap]_serviceVars
      /\ [EditsAreFresh]_serviceVars
      => SInv' /\ OneRun' /\ Controlled' /\ Quiet'
  <2> SUFFICES ASSUME SInv, OneRun, Controlled, Quiet, [ServiceNext]_serviceVars,
                      [NoneQueuedInTheGap]_serviceVars, [EditsAreFresh]_serviceVars
               PROVE  SInv' /\ OneRun' /\ Controlled' /\ Quiet'
    OBVIOUS
  <2>1. CASE UNCHANGED serviceVars
    <3>1. NoneQueuedInTheGap
      BY <2>1 DEF NoneQueuedInTheGap, serviceVars, vars, poolVars
    <3>2. Quiet'
      BY <2>1 DEF Quiet, At, serviceVars, vars, runVars
    <3> QED
      BY <3>1, <3>2, RunsStep
  <2>2. CASE ServiceNext /\ NoneQueuedInTheGap /\ EditsAreFresh
    BY <2>2, RunsStep
  <2> QED
    BY <2>1, <2>2
<1> QED
  BY <1>1, <1>2, RunsStart, PTL DEF ServiceSpec
=============================================================================

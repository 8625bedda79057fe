--------------------------- MODULE SchedulerProofs ---------------------------
(***************************************************************************)
(* Proofs about Scheduler for any schedules, settings, days and budgets.   *)
(* An occurrence that has been begun has a row of schedule_history, or the *)
(* user has erased it: each erasure pays for one more run.  And while the  *)
(* user leaves the schedules alone, claims follow the order of times.      *)
(***************************************************************************)
EXTENDS Scheduler, FiniteSetTheorems, TLAPS

Statuses == {"none", "running", "completed", "failed"}

\* The user has erased at least as much as an occurrence was repeated.
Paid ==
  /\ budget["user"] <= Budget["user"]
  /\ \A s \in Schedules, t \in Times :
       ran[s][t] <= (IF history[s][t] = "none" THEN 0 ELSE 1) + (Budget["user"] - budget["user"])

IInv == TypeOK /\ Paid

(***************************************************************************)
(* Types.                                                                  *)
(***************************************************************************)
LEMMA BudgetType ==
  ASSUME budget \in [DOMAIN Budget -> Nat],
         Works \/ \E what \in {"fault", "crash", "user"} : Spend(what)
  PROVE  /\ budget' \in [DOMAIN Budget -> Nat]
         /\ budget'["user"] <= budget["user"]
<1>1. DOMAIN Budget = {"fault", "crash", "user"}
  BY SchedulerAssumption
<1>2. CASE Works
  BY <1>1, <1>2 DEF Works
<1>3. ASSUME NEW what \in {"fault", "crash", "user"}, Spend(what)
      PROVE  budget' \in [DOMAIN Budget -> Nat] /\ budget'["user"] <= budget["user"]
  BY <1>1, <1>3 DEF Spend
<1> QED
  BY <1>2, <1>3

LoopRecords ==
  [at : {"rest", "claim", "enable", "apply", "finish", "wait", "post"},
   due : SUBSET Occurrences, doing : SUBSET Occurrences, ok : BOOLEAN]

\* What the loop may be between two steps.
LoopOK(l) ==
  l \in LoopRecords /\ Cardinality(l.doing) <= 1 /\ (l.at = "rest" => l = Resting)

LEMMA RestingType ==
  LoopOK(Resting)
BY FS_EmptySet DEF LoopOK, LoopRecords, Resting

\* A step of the loop to a step other than rest keeps what it is doing.
LEMMA GotoType ==
  ASSUME LoopOK(loop),
         NEW step \in {"claim", "enable", "apply", "finish", "wait", "post"},
         NEW ok \in BOOLEAN
  PROVE  /\ LoopOK([loop EXCEPT !.at = step])
         /\ LoopOK([loop EXCEPT !.at = step, !.ok = ok])
         /\ LoopOK([loop EXCEPT !.at = step, !.doing = {}])
<1>1. Cardinality({}) = 0
  BY FS_EmptySet
<1>2. LoopOK([loop EXCEPT !.at = step])
  BY DEF LoopOK, LoopRecords
<1>3. LoopOK([loop EXCEPT !.at = step, !.ok = ok])
  BY DEF LoopOK, LoopRecords
<1>4. [loop EXCEPT !.at = step, !.doing = {}] \in LoopRecords
  BY DEF LoopOK, LoopRecords
<1>5. [loop EXCEPT !.at = step, !.doing = {}].at = step
      /\ [loop EXCEPT !.at = step, !.doing = {}].doing = {}
  BY DEF LoopOK, LoopRecords
<1>6. LoopOK([loop EXCEPT !.at = step, !.doing = {}])
  BY <1>1, <1>4, <1>5 DEF LoopOK
<1> QED
  BY <1>2, <1>3, <1>6

\* Due and Claim only take occurrences of the schedules.
LEMMA ClaimType ==
  ASSUME LoopOK(loop), loop.at = "claim", NEW o \in loop.due,
         NEW step \in {"enable", "apply"}
  PROVE  /\ o \in Occurrences /\ o.id \in Schedules /\ o.for \in Times
         /\ LoopOK([loop EXCEPT !.due = @ \ {o}, !.doing = {o}, !.ok = FALSE, !.at = step])
         /\ LoopOK([loop EXCEPT !.due = @ \ {o}])
<1>1. o \in Occurrences
  BY DEF LoopOK, LoopRecords
<1>2. o.id \in Schedules /\ o.for \in Times
  BY <1>1 DEF Occurrences
<1>3. Cardinality({o}) = 1
  BY FS_Singleton
<1> DEFINE begun == [loop EXCEPT !.due = @ \ {o}, !.doing = {o}, !.ok = FALSE, !.at = step]
<1>4. begun \in LoopRecords /\ begun.at = step /\ begun.doing = {o}
  BY <1>1 DEF LoopOK, LoopRecords
<1>5. LoopOK(begun)
  BY <1>3, <1>4 DEF LoopOK
<1>6. LoopOK([loop EXCEPT !.due = @ \ {o}])
  BY DEF LoopOK, LoopRecords
<1> QED
  BY <1>1, <1>2, <1>5, <1>6

LEMMA ProceedType ==
  ASSUME LoopOK(loop), Proceed \/ Abandon
  PROVE  LoopOK(loop')
<1>1. CASE Abandon
  BY <1>1, RestingType DEF Abandon
<1>2. CASE Proceed
  BY <1>2, RestingType, GotoType DEF Proceed
<1> QED
  BY <1>1, <1>2

LEMMA AfterFinishType ==
  ASSUME LoopOK(loop), NEW o, AfterFinish(o)
  PROVE  LoopOK(loop')
BY ProceedType, GotoType DEF AfterFinish, Goto

\* A status is written and nothing else of the history changes.
LEMMA StatusType ==
  ASSUME history \in [Schedules -> [Times -> Statuses]], NEW o,
         NEW status \in Statuses \ {"none"}, SetStatus(o, status)
  PROVE  /\ history' \in [Schedules -> [Times -> Statuses]]
         /\ \A s \in Schedules, t \in Times :
              history[s][t] # "none" => history'[s][t] # "none"
BY DEF SetStatus, Statuses

(***************************************************************************)
(* The steps of the loop, one at a time.                                   *)
(***************************************************************************)
\* The invariant in the form the steps need it.
Typed ==
  /\ now \in Times /\ tick \in Times \cup {NoTick}
  /\ up \in BOOLEAN /\ enabled \in BOOLEAN /\ idle \in BOOLEAN
  /\ setting \in [Schedules -> Settings \cup {NoSetting}]
  /\ history \in [Schedules -> [Times -> Statuses]]
  /\ LoopOK(loop)
  /\ ran \in [Schedules -> [Times -> Nat]]
  /\ budget \in [DOMAIN Budget -> Nat]

LEMMA TypedIsTypeOK ==
  TypeOK <=> Typed
BY DEF TypeOK, Typed, LoopOK, LoopRecords, Statuses

\* Steps that begin no occurrence and erase no row keep what has been paid.
LEMMA NothingBegun ==
  ASSUME Typed, Paid, Typed', UNCHANGED ran, budget'["user"] <= budget["user"],
         \A s \in Schedules, t \in Times : history[s][t] # "none" => history'[s][t] # "none"
  PROVE  Paid'
<1>1. DOMAIN Budget = {"fault", "crash", "user"} /\ Budget["user"] \in Nat
  BY SchedulerAssumption
<1>2. budget["user"] \in Nat /\ budget'["user"] \in Nat
  BY <1>1 DEF Typed
<1>3. ASSUME NEW s \in Schedules, NEW t \in Times
      PROVE  ran'[s][t] <= (IF history'[s][t] = "none" THEN 0 ELSE 1)
                              + (Budget["user"] - budget'["user"])
  <2>1. ran[s][t] \in Nat /\ ran'[s][t] = ran[s][t]
    BY DEF Typed
  <2>2. ran[s][t] <= (IF history[s][t] = "none" THEN 0 ELSE 1) + (Budget["user"] - budget["user"])
    BY DEF Paid
  <2>3. history[s][t] # "none" => history'[s][t] # "none"
    OBVIOUS
  <2> QED
    BY <1>1, <1>2, <2>1, <2>2, <2>3
<1> QED
  BY <1>1, <1>2, <1>3 DEF Paid

LEMMA LoopStepType ==
  ASSUME Typed, Paid, LoopStep
  PROVE  Typed' /\ Paid'
<1>1. CASE RunDue
  <2>1. Due(tick) \subseteq Occurrences
    BY DEF Due
  <2>2. LoopOK([Resting EXCEPT !.at = "claim", !.due = Due(tick)])
    <3> DEFINE begun == [Resting EXCEPT !.at = "claim", !.due = Due(tick)]
    <3>1. begun \in LoopRecords /\ begun.at = "claim" /\ begun.doing = {}
      BY <2>1 DEF LoopRecords, Resting
    <3>2. Cardinality({}) = 0
      BY FS_EmptySet
    <3> QED
      BY <3>1, <3>2 DEF LoopOK
  <2>3. LoopOK(loop')
    BY <1>1, <2>2, RestingType DEF RunDue, Typed
  <2>4. budget' \in [DOMAIN Budget -> Nat] /\ budget'["user"] <= budget["user"]
    BY <1>1, BudgetType DEF RunDue, Typed, Fails
  <2>5. Typed'
    BY <1>1, <2>3, <2>4 DEF RunDue, Typed
  <2> QED
    BY <1>1, <2>4, <2>5, NothingBegun DEF RunDue
<1>2. CASE SetQueueEnabled
  <2>1. LoopOK(loop') /\ enabled' \in BOOLEAN
    BY <1>2, GotoType DEF SetQueueEnabled, Goto, Typed
  <2>2. Typed'
    BY <1>2, <2>1 DEF SetQueueEnabled, Typed, clock
  <2>3. budget'["user"] <= budget["user"]
    BY <1>2, SchedulerAssumption DEF SetQueueEnabled, Typed
  <2> QED
    BY <1>2, <2>2, <2>3, NothingBegun DEF SetQueueEnabled
<1>3. CASE Apply
  <2>1. LoopOK(loop')
    BY <1>3, GotoType DEF Apply, Typed
  <2>2. budget' \in [DOMAIN Budget -> Nat] /\ budget'["user"] <= budget["user"]
    BY <1>3, BudgetType DEF Apply, Typed, Fails
  <2>3. Typed'
    BY <1>3, <2>1, <2>2 DEF Apply, Typed, clock
  <2> QED
    BY <1>3, <2>2, <2>3, NothingBegun DEF Apply
<1>4. CASE WaitForIdle
  <2>1. LoopOK(loop')
    BY <1>4, GotoType, ProceedType DEF WaitForIdle, Goto, Typed
  <2>2. budget' \in [DOMAIN Budget -> Nat] /\ budget'["user"] <= budget["user"]
    BY <1>4, BudgetType DEF WaitForIdle, Typed, Fails
  <2>3. Typed'
    BY <1>4, <2>1, <2>2 DEF WaitForIdle, Typed, clock
  <2> QED
    BY <1>4, <2>2, <2>3, NothingBegun DEF WaitForIdle
<1>5. CASE PostAction
  <2>1. LoopOK(loop') /\ up' \in BOOLEAN /\ tick' \in Times \cup {NoTick}
    BY <1>5, ProceedType DEF PostAction, Typed
  <2>2. budget' \in [DOMAIN Budget -> Nat] /\ budget'["user"] <= budget["user"]
    BY <1>5, BudgetType DEF PostAction, Typed, Fails
  <2>3. Typed'
    BY <1>5, <2>1, <2>2 DEF PostAction, Typed
  <2> QED
    BY <1>5, <2>2, <2>3, NothingBegun DEF PostAction
<1>6. CASE Finish
  <2> PICK o \in loop.doing :
         \/ /\ Works /\ AfterFinish(o)
            /\ IF history[o.id][o.for] = "running"
               THEN SetStatus(o, IF loop.ok THEN "completed" ELSE "failed")
               ELSE UNCHANGED history
         \/ Fails /\ Abandon /\ UNCHANGED history
    BY <1>6 DEF Finish
  <2>1. LoopOK(loop')
    BY AfterFinishType, ProceedType DEF Typed
  <2>2. budget' \in [DOMAIN Budget -> Nat] /\ budget'["user"] <= budget["user"]
    BY BudgetType DEF Typed, Fails
  <2>3. /\ history' \in [Schedules -> [Times -> Statuses]]
        /\ \A s \in Schedules, t \in Times : history[s][t] # "none" => history'[s][t] # "none"
    <3>1. CASE UNCHANGED history
      BY <3>1 DEF Typed
    <3>2. CASE SetStatus(o, IF loop.ok THEN "completed" ELSE "failed")
      BY <3>2, StatusType DEF Typed, Statuses
    <3> QED
      BY <3>1, <3>2
  <2>4. Typed'
    BY <1>6, <2>1, <2>2, <2>3 DEF Finish, Typed, clock
  <2> QED
    BY <1>6, <2>2, <2>3, <2>4, NothingBegun DEF Finish
<1>7. CASE Claim
  <2> PICK o \in Earliest :
         \/ /\ Works /\ setting[o.id] # NoSetting /\ Unclaimed(o)
            /\ SetStatus(o, "running")
            /\ loop' = [loop EXCEPT !.due = @ \ {o}, !.doing = {o}, !.ok = FALSE,
                          !.at = IF o.of.action \in {"start_queue", "stop_queue"}
                                 THEN "enable" ELSE "apply"]
            /\ ran' = [ran EXCEPT ![o.id][o.for] = @ + 1]
         \/ /\ Works /\ ~Unclaimed(o)
            /\ loop' = IF loop.due = {o} THEN Resting ELSE [loop EXCEPT !.due = @ \ {o}]
            /\ UNCHANGED <<history, ran>>
         \/ /\ (Works /\ setting[o.id] = NoSetting /\ Unclaimed(o)) \/ Fails
            /\ Abandon /\ UNCHANGED <<history, ran>>
    BY <1>7 DEF Claim
  <2> o \in loop.due
    BY DEF Earliest
  <2> loop.at = "claim" /\ UNCHANGED <<now, tick, up, setting, enabled, idle>>
    BY <1>7 DEF Claim, At, clock
  <2>1. /\ o.id \in Schedules /\ o.for \in Times
        /\ \A step \in {"enable", "apply"} :
             LoopOK([loop EXCEPT !.due = @ \ {o}, !.doing = {o}, !.ok = FALSE, !.at = step])
        /\ LoopOK([loop EXCEPT !.due = @ \ {o}])
    BY ClaimType DEF Typed
  <2>2. LoopOK(loop')
    BY <2>1, RestingType DEF Abandon
  <2>3. budget' \in [DOMAIN Budget -> Nat] /\ budget'["user"] <= budget["user"]
    BY BudgetType DEF Typed, Fails
  <2>4. CASE UNCHANGED <<history, ran>>
    <3>1. Typed'
      BY <2>2, <2>3, <2>4 DEF Typed
    <3> QED
      BY <2>3, <2>4, <3>1, NothingBegun
  <2>5. CASE Works /\ Unclaimed(o) /\ SetStatus(o, "running")
             /\ ran' = [ran EXCEPT ![o.id][o.for] = @ + 1]
    <3>1. history' \in [Schedules -> [Times -> Statuses]]
      BY <2>5, StatusType DEF Typed, Statuses
    <3>2. ran' \in [Schedules -> [Times -> Nat]]
      BY <2>1, <2>5 DEF Typed
    <3>3. Typed'
      BY <2>2, <2>3, <3>1, <3>2 DEF Typed
    <3>4. budget' = budget /\ budget["user"] \in Nat /\ Budget["user"] \in Nat
      BY <2>5, SchedulerAssumption DEF Works, Typed
    <3>5. ASSUME NEW s \in Schedules, NEW t \in Times
          PROVE  ran'[s][t] <= (IF history'[s][t] = "none" THEN 0 ELSE 1)
                                  + (Budget["user"] - budget'["user"])
      <4>1. ran[s][t] \in Nat
            /\ ran[s][t] <= (IF history[s][t] = "none" THEN 0 ELSE 1)
                              + (Budget["user"] - budget["user"])
        BY DEF Paid, Typed
      <4>2. CASE s = o.id /\ t = o.for
        <5>1. history[s][t] = "none" /\ history'[s][t] = "running" /\ ran'[s][t] = ran[s][t] + 1
          BY <2>1, <2>5, <4>2 DEF Typed, SetStatus, Unclaimed
        <5> QED
          BY <3>4, <4>1, <5>1
      <4>3. CASE ~(s = o.id /\ t = o.for)
        <5>1. history'[s][t] = history[s][t] /\ ran'[s][t] = ran[s][t]
          BY <2>1, <2>5, <4>3 DEF Typed, SetStatus
        <5> QED
          BY <3>4, <4>1, <5>1
      <4> QED
        BY <4>2, <4>3
    <3>6. Paid'
      BY <3>4, <3>5 DEF Paid
    <3> QED
      BY <3>3, <3>6
  <2> QED
    BY <2>4, <2>5
<1> QED
  BY <1>1, <1>2, <1>3, <1>4, <1>5, <1>6, <1>7 DEF LoopStep

(***************************************************************************)
(* The other steps, of which only an erasure takes claims away.            *)
(***************************************************************************)
LEMMA NextStep ==
  ASSUME Typed, Paid, [Next]_vars
  PROVE  Typed' /\ Paid'
<1>1. CASE LoopStep
  BY <1>1, LoopStepType
<1>2. CASE Tick
  <2>1. now' \in Times
    BY <1>2 DEF Tick, Later, Typed
  <2>2. Typed'
    BY <1>2, <2>1 DEF Tick, Later, Typed
  <2> QED
    BY <1>2, <2>2, NothingBegun, SchedulerAssumption DEF Tick, Typed
<1>3. CASE Startup \/ DownloadsChange \/ UNCHANGED vars
  <2>1. Typed'
    BY <1>3 DEF Startup, DownloadsChange, vars, clock, Typed
  <2> QED
    BY <1>3, <2>1, NothingBegun, SchedulerAssumption DEF Startup, DownloadsChange, vars, Typed
<1>4. CASE Crash
  <2>1. budget' \in [DOMAIN Budget -> Nat] /\ budget'["user"] <= budget["user"]
    BY <1>4, BudgetType DEF Crash, Typed
  <2>2. Typed'
    BY <1>4, <2>1, RestingType DEF Crash, Abandon, Typed
  <2> QED
    BY <1>4, <2>1, <2>2, NothingBegun DEF Crash
<1>5. ASSUME NEW s \in Schedules, Save(s) PROVE Typed' /\ Paid'
  <2>1. budget' \in [DOMAIN Budget -> Nat] /\ budget'["user"] <= budget["user"]
    BY <1>5, BudgetType DEF Save, Typed
  <2>2. Typed'
    BY <1>5, <2>1 DEF Save, clock, Typed
  <2> QED
    BY <1>5, <2>1, <2>2, NothingBegun DEF Save
<1>6. CASE ClearPrivateData \/ \E s \in Schedules : Delete(s)
  <2>1. /\ Spend("user") /\ UNCHANGED <<now, tick, up, enabled, idle, loop, ran>>
        /\ setting' \in [Schedules -> Settings \cup {NoSetting}]
    BY <1>6 DEF Delete, ClearPrivateData, clock, Typed
  <2>2. /\ history' \in [Schedules -> [Times -> Statuses]]
        /\ \A r \in Schedules, t \in Times :
             history'[r][t] = history[r][t] \/ history'[r][t] = "none"
    <3>1. NoHistory \in [Times -> Statuses] /\ \A t \in Times : NoHistory[t] = "none"
      BY DEF NoHistory, Statuses
    <3>2. CASE ClearPrivateData
      BY <3>1, <3>2 DEF ClearPrivateData, Typed
    <3>3. ASSUME NEW s \in Schedules, Delete(s)
          PROVE  history' = [history EXCEPT ![s] = NoHistory]
      BY <3>3 DEF Delete
    <3> QED
      BY <1>6, <3>1, <3>2, <3>3 DEF Typed
  <2>3. budget' \in [DOMAIN Budget -> Nat]
    BY <2>1, BudgetType DEF Typed
  <2>4. Typed'
    BY <2>1, <2>2, <2>3 DEF Typed
  <2>5. /\ budget["user"] \in Nat /\ Budget["user"] \in Nat
        /\ budget'["user"] = budget["user"] - 1
    BY <2>1, SchedulerAssumption DEF Spend, Typed
  <2>6. ASSUME NEW r \in Schedules, NEW t \in Times
        PROVE  ran'[r][t] <= (IF history'[r][t] = "none" THEN 0 ELSE 1)
                                + (Budget["user"] - budget'["user"])
    <3>1. ran[r][t] \in Nat /\ ran'[r][t] = ran[r][t]
      BY <2>1 DEF Typed
    <3>2. ran[r][t] <= (IF history[r][t] = "none" THEN 0 ELSE 1)
                         + (Budget["user"] - budget["user"])
      BY DEF Paid
    <3>3. history'[r][t] = history[r][t] \/ history'[r][t] = "none"
      BY <2>2
    <3> QED
      BY <2>5, <3>1, <3>2, <3>3
  <2>7. Paid'
    BY <2>5, <2>6 DEF Paid
  <2> QED
    BY <2>4, <2>7
<1> QED
  BY <1>1, <1>2, <1>3, <1>4, <1>5, <1>6 DEF Next

LEMMA InitTyped ==
  Init => Typed /\ Paid
<1> SUFFICES ASSUME Init PROVE Typed /\ Paid
  OBVIOUS
<1>1. /\ DOMAIN Budget = {"fault", "crash", "user"} /\ Budget \in [DOMAIN Budget -> Nat]
      /\ Budget["user"] \in Nat /\ 0 \in Times
      /\ setting \in [Schedules -> Settings \cup {NoSetting}]
  <2>1. Budget \in [{"fault", "crash", "user"} -> Nat]
    BY SchedulerAssumption
  <2>2. DayLength * Days \in Nat \ {0}
    BY SchedulerAssumption
  <2>3. 0 \in Times
    BY <2>2 DEF Times
  <2>4. setting \in [Schedules -> Settings \cup {NoSetting}]
    BY SchedulerAssumption DEF Init
  <2> QED
    BY <2>1, <2>3, <2>4
<1>2. Typed
  BY <1>1, RestingType DEF Init, Typed, Statuses
<1>3. Paid
  BY <1>1 DEF Init, Paid
<1> QED
  BY <1>2, <1>3

\* The inductive invariant, in one piece.
LEMMA IInvHolds ==
  Spec => []IInv
<1>1. Init => IInv
  BY InitTyped, TypedIsTypeOK DEF IInv
<1>2. IInv /\ [Next]_vars => IInv'
  <2> SUFFICES ASSUME IInv, [Next]_vars PROVE IInv'
    OBVIOUS
  <2>1. Typed /\ Paid
    BY TypedIsTypeOK DEF IInv
  <2>2. Typed' /\ Paid'
    BY <2>1, NextStep
  <2>3. TypeOK'
    BY <2>2 DEF TypeOK, Typed, LoopOK, LoopRecords, Statuses
  <2> QED
    BY <2>2, <2>3 DEF IInv
<1> QED
  BY <1>1, <1>2, PTL DEF Spec

(***************************************************************************)
(* The order of claims, as long as the user has not interfered.            *)
(***************************************************************************)
Claimed(s, t) == history[s][t] # "none"

\* The schedule falls due at t: today's occurrence of a weekday it has.
Current(s, t) ==
  /\ setting[s] # NoSetting /\ setting[s].enabled
  /\ Day(t) \in setting[s].weekdays /\ t = Occurrence(setting[s], t)

\* At time T nothing makes up for an occurrence of time t any more.
Gone(s, t, T) ==
  Day(t) < Day(T) \/ (setting[s].policy # "run_once" /\ t + Minute <= T)

\* Something of a later time has been claimed, or is going to be in this round.
Passed(t) ==
  \/ \E r \in Schedules, u \in Times : Claimed(r, u) /\ t < u
  \/ \E p \in loop.due : t <= p.for

InRound(s, t) == \E p \in loop.due : p.id = s /\ p.for = t

\* A round is about the schedules as they are now, and about times that have come.
RoundFits ==
  /\ tick # NoTick => tick <= now
  /\ \A o \in loop.due \cup loop.doing : setting[o.id] = o.of
  /\ \A o, p \in loop.doing : o = p

\* What was passed over is handled in this round or has been missed for good.
NothingLate ==
  \A s \in Schedules, t \in Times :
    Current(s, t) /\ ~Claimed(s, t) /\ Passed(t) =>
      \/ InRound(s, t)
      \/ Gone(s, t, now) /\ (tick # NoTick => Gone(s, t, tick))

\* Whatever can still be claimed in this round is not earlier than any claim,
RoundInOrder ==
  \A p \in loop.due : ~Claimed(p.id, p.for) =>
    \A r \in Schedules, u \in Times : Claimed(r, u) => u <= p.for

\* and what is being carried out is the latest claim.
DoingLatest ==
  \A o \in loop.doing :
    /\ Claimed(o.id, o.for)
    /\ \A r \in Schedules, u \in Times : Claimed(r, u) => u <= o.for

\* Once SetQueueEnabled has succeeded the queue is as the occurrence wants it.
QueueSet ==
  /\ loop.at = "enable" => ~loop.ok
  /\ loop.at = "apply" \/ (loop.at = "finish" /\ loop.ok) =>
       \A o \in loop.doing : o.of.action \in {"start_queue", "stop_queue"}
                               => enabled = (o.of.action = "start_queue")

Ordered ==
  RoundFits /\ NothingLate /\ RoundInOrder /\ DoingLatest /\ QueueSet /\ LastScheduleDecides

OrderInv == Left("user") => Ordered

\* Days are counted by whole lengths: every time lies in its day, and days go on.
LEMMA DayBounds ==
  ASSUME NEW t \in Nat
  PROVE  /\ Day(t) \in Nat
         /\ Day(t) * DayLength <= t /\ t < Day(t) * DayLength + DayLength
BY SchedulerAssumption DEF Day

LEMMA Multiples ==
  ASSUME NEW a \in Nat, NEW b \in Nat, NEW n \in Nat, a < b
  PROVE  a * n + n <= b * n
<1>1. PICK d \in Nat : b = a + 1 + d
  <2>1. b - a - 1 \in Nat /\ b = a + 1 + (b - a - 1)
    OBVIOUS
  <2> QED
    BY <2>1
<1>2. b * n = a * n + n + d * n
  BY <1>1
<1>3. d * n \in Nat /\ a * n \in Nat
  OBVIOUS
<1> QED
  BY <1>2, <1>3

LEMMA DayIs ==
  ASSUME NEW t \in Nat, NEW d \in Nat,
         d * DayLength <= t, t < d * DayLength + DayLength
  PROVE  Day(t) = d
<1>1. DayLength \in Nat
  BY SchedulerAssumption
<1>2. Day(t) \in Nat /\ Day(t) * DayLength <= t /\ t < Day(t) * DayLength + DayLength
  BY DayBounds
<1> DEFINE q == Day(t)
<1>3. q \in Nat /\ q * DayLength <= t /\ t < q * DayLength + DayLength
  BY <1>2
<1>4. q * DayLength \in Nat /\ d * DayLength \in Nat
  BY <1>1, <1>3
<1>5. ~(q < d)
  <2>1. q < d => q * DayLength + DayLength <= d * DayLength
    BY <1>1, <1>3, Multiples
  <2> HIDE DEF q
  <2> QED
    BY <1>1, <1>3, <1>4, <2>1
<1>6. ~(d < q)
  <2>1. d < q => d * DayLength + DayLength <= q * DayLength
    BY <1>1, <1>3, Multiples
  <2> HIDE DEF q
  <2> QED
    BY <1>1, <1>3, <1>4, <2>1
<1>7. q = d
  <2> HIDE DEF q
  <2> QED
    BY <1>3, <1>5, <1>6
<1> QED
  BY <1>7

LEMMA DayMonotone ==
  ASSUME NEW t \in Nat, NEW u \in Nat, t <= u
  PROVE  Day(t) <= Day(u)
<1>1. DayLength \in Nat
  BY SchedulerAssumption
<1> DEFINE q == Day(t)
<1> DEFINE r == Day(u)
<1>2. q \in Nat /\ q * DayLength <= t
  BY DayBounds
<1>3. r \in Nat /\ u < r * DayLength + DayLength
  BY DayBounds
<1>4. r < q => r * DayLength + DayLength <= q * DayLength
  BY <1>1, <1>2, <1>3, Multiples
<1>5. q <= r
  <2>1. q * DayLength \in Nat /\ r * DayLength \in Nat
    BY <1>1, <1>2, <1>3
  <2> HIDE DEF q, r
  <2> QED
    BY <1>1, <1>2, <1>3, <1>4, <2>1
<1> QED
  BY <1>5

\* A schedule's occurrence on the day of T is on the day of T.
LEMMA OccurrenceDay ==
  ASSUME NEW v \in Settings, NEW T \in Nat
  PROVE  Occurrence(v, T) \in Nat /\ Day(Occurrence(v, T)) = Day(T)
<1>1. DayLength \in Nat /\ v.at \in Nat /\ v.at < DayLength
  BY SchedulerAssumption
<1> DEFINE d == Day(T)
<1>2. d \in Nat
  BY DayBounds
<1>3. d * DayLength \in Nat
  BY <1>1, <1>2
<1> DEFINE t == d * DayLength + v.at
<1>4. t \in Nat /\ d * DayLength <= t /\ t < d * DayLength + DayLength
  <2> HIDE DEF d
  <2> QED
    BY <1>1, <1>3
<1>5. Day(t) = d
  <2> HIDE DEF d, t
  <2> QED
    BY <1>2, <1>4, DayIs
<1> QED
  BY <1>4, <1>5 DEF Occurrence

LEMMA GoneStaysGone ==
  ASSUME NEW s, NEW t \in Nat, NEW T \in Nat, NEW U \in Nat, T <= U, Gone(s, t, T)
  PROVE  Gone(s, t, U)
<1>1. Day(T) <= Day(U) /\ Day(t) \in Nat /\ Day(T) \in Nat /\ Day(U) \in Nat
  BY DayMonotone, DayBounds
<1> QED
  BY <1>1 DEF Gone, Minute

(***************************************************************************)
(* Steps that claim nothing and start no round.                            *)
(***************************************************************************)
LEMMA ClockType ==
  ASSUME Typed
  PROVE  now \in Nat /\ (tick # NoTick => tick \in Nat)
BY DEF Typed, Times

LEMMA DueType ==
  ASSUME Typed, NEW o \in loop.due \cup loop.doing
  PROVE  o.id \in Schedules /\ o.for \in Times /\ o.for \in Nat /\ o.of \in Settings
<1>1. o \in Occurrences
  BY DEF Typed, LoopOK, LoopRecords
<1> QED
  BY <1>1 DEF Occurrences, Times

\* Nothing of a round changes but that it shrinks, by what is claimed or altogether.
Shrinks ==
  /\ UNCHANGED setting
  /\ now <= now' /\ tick' \in {tick, NoTick, now'}
  /\ \A s \in Schedules, t \in Times : Claimed(s, t)' <=> Claimed(s, t)
  /\ loop'.due \subseteq loop.due /\ loop'.doing \subseteq loop.doing
  /\ loop'.due = {} \/ \A p \in loop.due : ~Claimed(p.id, p.for) => p \in loop'.due

LEMMA RoundKept ==
  ASSUME Typed, Typed', RoundFits, NothingLate, RoundInOrder, DoingLatest, Shrinks
  PROVE  RoundFits' /\ NothingLate' /\ RoundInOrder' /\ DoingLatest'
<1>1. /\ now \in Nat /\ now' \in Nat
      /\ tick # NoTick => tick \in Nat
      /\ tick' # NoTick => tick' \in Nat
  <2>1. now' \in Nat /\ (tick' # NoTick => tick' \in Nat)
    BY DEF Typed, Times
  <2> QED
    BY <2>1, ClockType
<1>2. /\ \A o \in loop.due \cup loop.doing : o.id \in Schedules /\ o.for \in Times
      /\ \A t \in Times : t \in Nat
  BY DueType DEF Times
<1>3. RoundFits'
  <2>1. tick' # NoTick => tick' <= now'
    BY <1>1 DEF RoundFits, Shrinks
  <2>2. \A o \in loop'.due \cup loop'.doing : setting'[o.id] = o.of
    BY DEF RoundFits, Shrinks
  <2>3. \A o, p \in loop'.doing : o = p
    BY DEF RoundFits, Shrinks
  <2> QED
    BY <2>1, <2>2, <2>3 DEF RoundFits
<1>4. RoundInOrder'
  <2> SUFFICES ASSUME NEW p \in loop'.due, ~Claimed(p.id, p.for)',
                      NEW r \in Schedules, NEW u \in Times, Claimed(r, u)'
               PROVE  u <= p.for
    BY DEF RoundInOrder
  <2>1. p \in loop.due /\ p.id \in Schedules /\ p.for \in Times
    BY <1>2 DEF Shrinks
  <2>2. ~Claimed(p.id, p.for) /\ Claimed(r, u)
    BY <2>1 DEF Shrinks
  <2> QED
    BY <2>1, <2>2 DEF RoundInOrder
<1>5. DoingLatest'
  <2> SUFFICES ASSUME NEW o \in loop'.doing
               PROVE  /\ Claimed(o.id, o.for)'
                      /\ \A r \in Schedules, u \in Times : Claimed(r, u)' => u <= o.for
    BY DEF DoingLatest
  <2>1. o \in loop.doing /\ o.id \in Schedules /\ o.for \in Times
    BY <1>2 DEF Shrinks
  <2> QED
    BY <2>1 DEF DoingLatest, Shrinks
<1>6. NothingLate'
  <2> SUFFICES ASSUME NEW s \in Schedules, NEW t \in Times,
                      Current(s, t)', ~Claimed(s, t)', Passed(t)'
               PROVE  \/ InRound(s, t)'
                      \/ Gone(s, t, now)' /\ (tick' # NoTick => Gone(s, t, tick)')
    BY DEF NothingLate
  <2>1. Current(s, t) /\ ~Claimed(s, t) /\ t \in Nat
    BY <1>2 DEF Current, Shrinks, Occurrence, Day
  <2>2. \/ \E r \in Schedules, u \in Times : Claimed(r, u) /\ t < u
        \/ \E p \in loop'.due : t <= p.for
    BY DEF Passed, Shrinks
  <2>3. Passed(t)
    BY <2>2 DEF Passed, Shrinks
  <2>4. InRound(s, t) \/ (Gone(s, t, now) /\ (tick # NoTick => Gone(s, t, tick)))
    BY <2>1, <2>3 DEF NothingLate
  <2>5. ASSUME Gone(s, t, now), tick # NoTick => Gone(s, t, tick)
        PROVE  Gone(s, t, now)' /\ (tick' # NoTick => Gone(s, t, tick)')
    <3>1. \A T \in Nat : Gone(s, t, T)' <=> Gone(s, t, T)
      BY DEF Gone, Shrinks, Day
    <3>2. Gone(s, t, now')
      BY <1>1, <2>1, <2>5, GoneStaysGone DEF Shrinks
    <3>3. Gone(s, t, now)'
      BY <1>1, <3>1, <3>2 DEF Gone, Shrinks, Day
    <3>4. ASSUME tick' # NoTick PROVE Gone(s, t, tick')
      BY <3>2, <3>4, <2>5 DEF Shrinks
    <3>5. tick' # NoTick => Gone(s, t, tick)'
      BY <3>4 DEF Gone, Shrinks, Day
    <3> QED
      BY <3>3, <3>5
  <2>6. ASSUME InRound(s, t), ~(Gone(s, t, now) /\ (tick # NoTick => Gone(s, t, tick)))
        PROVE  InRound(s, t)'
    <3>1. PICK p \in loop.due : p.id = s /\ p.for = t
      BY <2>6 DEF InRound
    <3>2. \A r \in Schedules, u \in Times : Claimed(r, u) => u <= t
      BY <2>1, <3>1 DEF RoundInOrder
    <3>3. loop'.due # {}
      BY <1>2, <2>1, <2>2, <3>2
    <3>4. p \in loop'.due
      BY <2>1, <3>1, <3>3 DEF Shrinks
    <3> QED
      BY <3>1, <3>4 DEF InRound
  <2> QED
    BY <2>4, <2>5, <2>6
<1> QED
  BY <1>3, <1>4, <1>5, <1>6

(***************************************************************************)
(* A round begins, and an occurrence is claimed.                           *)
(***************************************************************************)
\* What is due today falls due today, and its time has come.
LEMMA DueToday ==
  ASSUME NEW T \in Nat, NEW p \in Due(T)
  PROVE  /\ p \in Occurrences /\ setting[p.id] = p.of
         /\ p.of \in Settings /\ p.id \in Schedules /\ p.for \in Times
         /\ Current(p.id, p.for) /\ Day(p.for) = Day(T) /\ p.for <= T
         /\ ~Gone(p.id, p.for, T)
<1>1. /\ p \in Occurrences /\ setting[p.id] = p.of /\ p.of.enabled
      /\ Day(T) \in p.of.weekdays /\ p.for = Occurrence(p.of, T) /\ p.for <= T
      /\ T - p.for >= Minute => p.of.policy = "run_once"
  BY DEF Due
<1>2. p.of \in Settings /\ p.id \in Schedules /\ p.for \in Times /\ p.for \in Nat
  BY <1>1 DEF Occurrences, Times
<1>3. Day(p.for) = Day(T)
  BY <1>1, <1>2, OccurrenceDay
<1>4. p.for = Occurrence(p.of, p.for)
  BY <1>1, <1>3 DEF Occurrence
<1>5. p.of # NoSetting
  BY <1>2, SchedulerAssumption
<1>6. Current(p.id, p.for)
  BY <1>1, <1>3, <1>4, <1>5 DEF Current
<1>7. ~Gone(p.id, p.for, T)
  <2>1. Day(T) \in Nat
    BY DayBounds
  <2>2. ~(Day(p.for) < Day(T))
    BY <1>3, <2>1
  <2>3. p.for + Minute <= T => setting[p.id].policy = "run_once"
    BY <1>1, <1>2 DEF Minute
  <2> QED
    BY <2>2, <2>3 DEF Gone
<1> QED
  BY <1>1, <1>2, <1>3, <1>6, <1>7

\* A current occurrence no later than something due at T is due too, or has been missed.
LEMMA DueOrGone ==
  ASSUME Typed, NEW T \in Nat, NEW p \in Due(T),
         NEW s \in Schedules, NEW t \in Times, Current(s, t), t <= p.for
  PROVE  (\E q \in Due(T) : q.id = s /\ q.for = t) \/ Gone(s, t, T)
<1>1. /\ p.for \in Nat /\ Day(p.for) = Day(T) /\ p.for <= T /\ t \in Nat
  BY DueToday DEF Times
<1>2. Day(t) <= Day(p.for) /\ Day(t) \in Nat /\ Day(T) \in Nat
  BY <1>1, DayMonotone, DayBounds
<1>3. SUFFICES ASSUME ~Gone(s, t, T) PROVE \E q \in Due(T) : q.id = s /\ q.for = t
  OBVIOUS
<1>4. Day(t) = Day(T)
  <2>1. ~(Day(t) < Day(T))
    BY <1>3 DEF Gone
  <2> QED
    BY <1>1, <1>2, <2>1
<1>5. setting[s] \in Settings /\ setting[s].enabled /\ Day(T) \in setting[s].weekdays
      /\ t = Occurrence(setting[s], T)
  BY <1>4 DEF Current, Occurrence, Typed
<1> DEFINE q == [id |-> s, of |-> setting[s], for |-> t]
<1>6. q \in Occurrences
  BY <1>5 DEF Occurrences
<1>7. t <= T
  BY <1>1
<1>8. T - t >= Minute => setting[s].policy = "run_once"
  BY <1>1, <1>3, <1>7 DEF Gone, Minute
<1>9. q \in Due(T)
  BY <1>5, <1>6, <1>7, <1>8 DEF Due
<1> QED
  BY <1>9

LEMMA RoundBegins ==
  ASSUME Typed, RoundFits, NothingLate,
         loop = Resting, tick # NoTick, tick' = NoTick, UNCHANGED <<now, setting, history>>,
         loop'.due = Due(tick), loop'.doing = {}
  PROVE  RoundFits' /\ NothingLate' /\ RoundInOrder' /\ DoingLatest'
<1>1. now \in Nat /\ tick \in Nat /\ tick <= now
  BY ClockType DEF RoundFits
<1>2. RoundFits'
  <2>1. \A p \in Due(tick) : setting[p.id] = p.of
    BY <1>1, DueToday
  <2> QED
    BY <2>1 DEF RoundFits
<1>3. DoingLatest'
  BY DEF DoingLatest
<1>4. ~(\E r \in Schedules, t \in Times : InRound(r, t))
  BY DEF InRound, Resting
<1>5. RoundInOrder'
  <2> SUFFICES ASSUME NEW p \in Due(tick), ~Claimed(p.id, p.for),
                      NEW r \in Schedules, NEW u \in Times, Claimed(r, u)
               PROVE  u <= p.for
    BY DEF RoundInOrder, Claimed
  <2>1. /\ p.id \in Schedules /\ p.for \in Times /\ Current(p.id, p.for)
        /\ ~Gone(p.id, p.for, tick)
    BY <1>1, DueToday
  <2>2. ~Passed(p.for)
    BY <1>4, <2>1 DEF NothingLate
  <2>3. ~(p.for < u)
    BY <2>2 DEF Passed
  <2> QED
    BY <2>1, <2>3 DEF Times
<1>6. NothingLate'
  <2> SUFFICES ASSUME NEW s \in Schedules, NEW t \in Times,
                      Current(s, t)', ~Claimed(s, t)', Passed(t)'
               PROVE  InRound(s, t)' \/ Gone(s, t, now)'
    BY DEF NothingLate
  <2>1. Current(s, t) /\ ~Claimed(s, t) /\ t \in Nat
    BY DEF Current, Claimed, Occurrence, Day, Times
  <2>2. \/ \E r \in Schedules, u \in Times : Claimed(r, u) /\ t < u
        \/ \E p \in Due(tick) : t <= p.for
    BY DEF Passed, Claimed
  <2>3. CASE \E r \in Schedules, u \in Times : Claimed(r, u) /\ t < u
    <3>1. Passed(t)
      BY <2>3 DEF Passed
    <3>2. Gone(s, t, now)
      BY <1>4, <2>1, <3>1 DEF NothingLate
    <3> QED
      BY <3>2 DEF Gone, Day
  <2>4. CASE \E p \in Due(tick) : t <= p.for
    <3>1. (\E q \in Due(tick) : q.id = s /\ q.for = t) \/ Gone(s, t, tick)
      BY <1>1, <2>1, <2>4, DueOrGone
    <3>2. Gone(s, t, tick) => Gone(s, t, now)
      BY <1>1, <2>1, GoneStaysGone
    <3> QED
      BY <3>1, <3>2 DEF Gone, Day, InRound
  <2> QED
    BY <2>2, <2>3, <2>4
<1> QED
  BY <1>2, <1>3, <1>5, <1>6

\* The earliest of the round is claimed: nothing later has been, and it is the latest.
LEMMA RoundClaims ==
  ASSUME Typed, RoundFits, NothingLate, RoundInOrder,
         NEW o \in Earliest, Unclaimed(o), SetStatus(o, "running"),
         UNCHANGED <<now, tick, setting>>,
         loop'.due = loop.due \ {o}, loop'.doing = {o}
  PROVE  RoundFits' /\ NothingLate' /\ RoundInOrder' /\ DoingLatest'
<1>1. o \in loop.due /\ \A p \in loop.due : o.for <= p.for
  BY DEF Earliest
<1>2. /\ \A p \in loop.due : p.id \in Schedules /\ p.for \in Times
      /\ \A t \in Times : t \in Nat
  BY DueType DEF Times
<1>3. \A s \in Schedules, t \in Times :
        Claimed(s, t)' <=> Claimed(s, t) \/ (s = o.id /\ t = o.for)
  BY <1>1, <1>2 DEF Typed, SetStatus, Claimed
<1>4. ~Claimed(o.id, o.for)
  BY DEF Unclaimed, Claimed
<1>5. RoundFits'
  BY <1>1 DEF RoundFits
<1>6. RoundInOrder'
  <2> SUFFICES ASSUME NEW p \in loop'.due, ~Claimed(p.id, p.for)',
                      NEW r \in Schedules, NEW u \in Times, Claimed(r, u)'
               PROVE  u <= p.for
    BY DEF RoundInOrder
  <2>1. p \in loop.due /\ ~Claimed(p.id, p.for)
    BY <1>2, <1>3
  <2> QED
    BY <1>1, <1>3, <2>1 DEF RoundInOrder
<1>7. DoingLatest'
  <2>1. Claimed(o.id, o.for)'
    BY <1>1, <1>2, <1>3
  <2>2. \A r \in Schedules, u \in Times : Claimed(r, u) => u <= o.for
    BY <1>1, <1>4 DEF RoundInOrder
  <2>3. \A r \in Schedules, u \in Times : Claimed(r, u)' => u <= o.for
    BY <1>1, <1>2, <1>3, <2>2
  <2> QED
    BY <2>1, <2>3 DEF DoingLatest
<1>8. NothingLate'
  <2> SUFFICES ASSUME NEW s \in Schedules, NEW t \in Times,
                      Current(s, t)', ~Claimed(s, t)', Passed(t)'
               PROVE  \/ InRound(s, t)'
                      \/ Gone(s, t, now)' /\ (tick' # NoTick => Gone(s, t, tick)')
    BY DEF NothingLate
  <2>1. Current(s, t) /\ ~Claimed(s, t) /\ ~(s = o.id /\ t = o.for)
    BY <1>3 DEF Current, Occurrence, Day
  <2>2. Passed(t)
    <3>1. \/ \E r \in Schedules, u \in Times : Claimed(r, u)' /\ t < u
          \/ \E p \in loop'.due : t <= p.for
      BY DEF Passed
    <3>2. CASE \E p \in loop'.due : t <= p.for
      BY <3>2 DEF Passed
    <3>3. ASSUME NEW r \in Schedules, NEW u \in Times, Claimed(r, u)', t < u
          PROVE  Passed(t)
      <4>1. CASE Claimed(r, u)
        BY <3>3, <4>1 DEF Passed
      <4>2. CASE u = o.for
        BY <1>1, <1>2, <3>3, <4>2 DEF Passed
      <4> QED
        BY <1>3, <3>3, <4>1, <4>2
    <3> QED
      BY <3>1, <3>2, <3>3
  <2>3. InRound(s, t) \/ (Gone(s, t, now) /\ (tick # NoTick => Gone(s, t, tick)))
    BY <2>1, <2>2 DEF NothingLate
  <2>4. InRound(s, t) => InRound(s, t)'
    BY <2>1 DEF InRound
  <2>5. /\ Gone(s, t, now) => Gone(s, t, now)'
        /\ tick' # NoTick /\ Gone(s, t, tick) => Gone(s, t, tick)'
    BY DEF Gone, Day
  <2> QED
    BY <2>3, <2>4, <2>5
<1> QED
  BY <1>5, <1>6, <1>7, <1>8

(***************************************************************************)
(* Every step, while the user has not interfered.                          *)
(***************************************************************************)
\* A step that completes nothing and leaves the queue alone.
LEMMA DecisionKept ==
  ASSUME Left("user"), LastScheduleDecides, UNCHANGED <<setting, enabled>>,
         \A s \in Schedules, t \in Times :
           /\ history'[s][t] = "completed" => history[s][t] = "completed"
           /\ history[s][t] # "none" => history'[s][t] # "none"
  PROVE  LastScheduleDecides'
BY DEF LastScheduleDecides

\* The loop goes on with the round it has, or gives it up.
LEMMA LoopShrinks ==
  ASSUME Typed,
         \/ Proceed \/ Abandon \/ UNCHANGED loop
         \/ \E step : Goto(step)
         \/ \E step, ok : loop' = [loop EXCEPT !.at = step, !.ok = ok]
  PROVE  loop'.due \in {loop.due, {}} /\ loop'.doing \in {loop.doing, {}}
<1>1. loop \in LoopRecords
  BY DEF Typed, LoopOK
<1>2. CASE Abandon
  BY <1>2 DEF Abandon, Resting
<1>3. CASE Proceed
  <2>1. [loop EXCEPT !.at = "claim", !.doing = {}].due = loop.due
        /\ [loop EXCEPT !.at = "claim", !.doing = {}].doing = {}
    BY <1>1 DEF LoopRecords
  <2>2. Resting.due = {} /\ Resting.doing = {}
    BY DEF Resting
  <2> QED
    BY <1>3, <2>1, <2>2 DEF Proceed
<1>4. ASSUME \/ UNCHANGED loop
             \/ \E step : Goto(step)
             \/ \E step, ok : loop' = [loop EXCEPT !.at = step, !.ok = ok]
      PROVE  loop'.due = loop.due /\ loop'.doing = loop.doing
  BY <1>1, <1>4 DEF LoopRecords, Goto
<1> QED
  BY <1>2, <1>3, <1>4

LEMMA LoopGoes ==
  ASSUME Typed
  PROVE  /\ Proceed \/ Abandon => loop'.at \in {"rest", "claim"}
         /\ \A step : Goto(step) => loop'.at = step
<1>1. loop \in LoopRecords
  BY DEF Typed, LoopOK
<1>2. Abandon => loop'.at = "rest"
  BY DEF Abandon, Resting
<1>3. ASSUME Proceed PROVE loop'.at \in {"rest", "claim"}
  <2>1. [loop EXCEPT !.at = "claim", !.doing = {}].at = "claim"
    BY <1>1 DEF LoopRecords
  <2>2. Resting.at = "rest"
    BY DEF Resting
  <2> QED
    BY <1>3, <2>1, <2>2 DEF Proceed
<1>4. \A step : Goto(step) => loop'.at = step
  BY <1>1 DEF Goto, LoopRecords
<1> QED
  BY <1>2, <1>3, <1>4

\* What has to be shown of a step that only moves the loop, the clock or the downloads.
LEMMA OrderedKept ==
  ASSUME Typed, Typed', Left("user"), Ordered,
         UNCHANGED <<setting, history, enabled>>,
         now <= now', tick' \in {tick, NoTick, now'},
         loop'.due \in {loop.due, {}}, loop'.doing \in {loop.doing, {}},
         QueueSet'
  PROVE  Ordered'
<1>1. Shrinks
  BY DEF Shrinks, Claimed
<1>2. RoundFits' /\ NothingLate' /\ RoundInOrder' /\ DoingLatest'
  BY <1>1, RoundKept DEF Ordered
<1>3. LastScheduleDecides'
  BY DecisionKept DEF Ordered
<1> QED
  BY <1>2, <1>3 DEF Ordered

LEMMA EnableOrdered ==
  ASSUME Typed, Typed', Left("user"), Ordered, SetQueueEnabled
  PROVE  Ordered'
<1> PICK o \in loop.doing :
      \/ enabled' = (o.of.action = "start_queue") /\ Goto("apply")
      \/ Goto("finish") /\ UNCHANGED enabled
  BY DEF SetQueueEnabled
<1>1. /\ UNCHANGED <<now, tick, setting, history>>
      /\ loop \in LoopRecords
  BY DEF SetQueueEnabled, clock, Typed, LoopOK
<1>2. loop'.due = loop.due /\ loop'.doing = loop.doing /\ loop'.ok = loop.ok
  BY <1>1 DEF Goto, LoopRecords
<1>3. now <= now'
  BY <1>1, ClockType
<1>4. Shrinks
  BY <1>1, <1>2, <1>3 DEF Shrinks, Claimed
<1>5. RoundFits' /\ NothingLate' /\ RoundInOrder' /\ DoingLatest'
  BY <1>4, RoundKept DEF Ordered
<1>6. \A p \in loop.doing : p = o
  BY DEF Ordered, RoundFits
<1>7. /\ o.id \in Schedules /\ o.for \in Times /\ o.for \in Nat
      /\ setting[o.id] = o.of /\ Claimed(o.id, o.for)
      /\ \A r \in Schedules, u \in Times : Claimed(r, u) => u <= o.for
  BY DueType DEF Ordered, RoundFits, DoingLatest
<1>8. CASE enabled' = (o.of.action = "start_queue") /\ Goto("apply")
  <2>1. QueueSet'
    <3>1. loop'.at = "apply"
      BY <1>1, <1>8 DEF Goto, LoopRecords
    <3>2. \A p \in loop'.doing : p = o
      BY <1>2, <1>6
    <3> QED
      BY <1>8, <3>1, <3>2 DEF QueueSet
  <2>2. LastScheduleDecides'
    <3> SUFFICES ASSUME NEW s \in Schedules, NEW t \in Times,
                        history[s][t] = "completed",
                        \A r \in Schedules \ {s}, u \in Times : history[r][u] # "none" => u < t
                 PROVE  enabled' = (setting[s].action = "start_queue")
      BY <1>1 DEF LastScheduleDecides
    <3>1. t <= o.for /\ t \in Nat
      BY <1>7 DEF Claimed, Times
    <3>2. s = o.id
      BY <1>7, <3>1 DEF Claimed
    <3> QED
      BY <1>7, <1>8, <3>2
  <2> QED
    BY <1>5, <2>1, <2>2 DEF Ordered
<1>9. CASE Goto("finish") /\ UNCHANGED enabled
  <2>1. loop.at = "enable"
    BY DEF SetQueueEnabled, At
  <2>2. QueueSet'
    <3>1. loop.ok = FALSE
      BY <2>1 DEF Ordered, QueueSet
    <3> QED
      BY <1>1, <1>2, <1>9, <3>1 DEF QueueSet, Goto, LoopRecords
  <2>3. LastScheduleDecides'
    BY <1>1, <1>9, DecisionKept DEF Ordered
  <2> QED
    BY <1>5, <2>2, <2>3 DEF Ordered
<1> QED
  BY <1>8, <1>9

LEMMA FinishOrdered ==
  ASSUME Typed, Typed', Left("user"), Ordered, Finish
  PROVE  Ordered'
<1> PICK o \in loop.doing :
      \/ /\ Works /\ AfterFinish(o)
         /\ IF history[o.id][o.for] = "running"
            THEN SetStatus(o, IF loop.ok THEN "completed" ELSE "failed")
            ELSE UNCHANGED history
      \/ Fails /\ Abandon /\ UNCHANGED history
  BY DEF Finish
<1>1. /\ loop.at = "finish" /\ UNCHANGED <<now, tick, setting, enabled>>
      /\ loop \in LoopRecords /\ now <= now'
  BY ClockType DEF Finish, At, clock, Typed, LoopOK
<1>2. /\ o.id \in Schedules /\ o.for \in Times /\ setting[o.id] = o.of
  BY DueType DEF Ordered, RoundFits
<1>3. loop'.at \in {"rest", "claim", "wait", "post"}
  BY LoopGoes DEF AfterFinish
<1>4. QueueSet'
  BY <1>3 DEF QueueSet
<1>5. loop'.due \in {loop.due, {}} /\ loop'.doing \in {loop.doing, {}}
  BY LoopShrinks DEF AfterFinish
<1>6. CASE UNCHANGED history
  BY <1>1, <1>4, <1>5, <1>6, OrderedKept
<1>7. CASE history[o.id][o.for] = "running"
           /\ SetStatus(o, IF loop.ok THEN "completed" ELSE "failed")
  <2>1. \A s \in Schedules, t \in Times :
          ~(s = o.id /\ t = o.for) => history'[s][t] = history[s][t]
    BY <1>2, <1>7 DEF SetStatus, Typed
  <2>2. /\ history[o.id][o.for] = "running"
        /\ history'[o.id][o.for] = (IF loop.ok THEN "completed" ELSE "failed")
    BY <1>2, <1>7 DEF SetStatus, Typed
  <2>3. \A s \in Schedules, t \in Times : Claimed(s, t)' <=> Claimed(s, t)
    BY <2>1, <2>2 DEF Claimed
  <2>4. Shrinks
    BY <1>1, <1>5, <2>3 DEF Shrinks
  <2>5. RoundFits' /\ NothingLate' /\ RoundInOrder' /\ DoingLatest'
    BY <2>4, RoundKept DEF Ordered
  <2>6. LastScheduleDecides'
    <3> SUFFICES ASSUME NEW s \in Schedules, NEW t \in Times,
                        history'[s][t] = "completed",
                        setting[s].action \in {"start_queue", "stop_queue"},
                        \A r \in Schedules \ {s}, u \in Times : history'[r][u] # "none" => u < t
                 PROVE  enabled = (setting[s].action = "start_queue")
      BY <1>1 DEF LastScheduleDecides
    <3>1. CASE s = o.id /\ t = o.for
      <4>1. loop.ok
        BY <2>2, <3>1
      <4> QED
        BY <1>1, <1>2, <3>1, <4>1 DEF Ordered, QueueSet
    <3>2. CASE ~(s = o.id /\ t = o.for)
      <4>1. history[s][t] = "completed"
        BY <2>1, <3>2
      <4>2. \A r \in Schedules \ {s}, u \in Times : history[r][u] # "none" => u < t
        BY <2>3 DEF Claimed
      <4> QED
        BY <4>1, <4>2 DEF Ordered, LastScheduleDecides
    <3> QED
      BY <3>1, <3>2
  <2> QED
    BY <1>4, <2>5, <2>6 DEF Ordered
<1> QED
  BY <1>6, <1>7

LEMMA ClaimOrdered ==
  ASSUME Typed, Typed', Left("user"), Ordered, Claim
  PROVE  Ordered'
<1> PICK o \in Earliest :
      \/ /\ Works /\ setting[o.id] # NoSetting /\ Unclaimed(o)
         /\ SetStatus(o, "running")
         /\ loop' = [loop EXCEPT !.due = @ \ {o}, !.doing = {o}, !.ok = FALSE,
                       !.at = IF o.of.action \in {"start_queue", "stop_queue"}
                              THEN "enable" ELSE "apply"]
         /\ ran' = [ran EXCEPT ![o.id][o.for] = @ + 1]
      \/ /\ Works /\ ~Unclaimed(o)
         /\ loop' = IF loop.due = {o} THEN Resting ELSE [loop EXCEPT !.due = @ \ {o}]
         /\ UNCHANGED <<history, ran>>
      \/ /\ (Works /\ setting[o.id] = NoSetting /\ Unclaimed(o)) \/ Fails
         /\ Abandon /\ UNCHANGED <<history, ran>>
  BY DEF Claim
<1>1. /\ loop.at = "claim" /\ UNCHANGED <<now, tick, setting, enabled>>
      /\ loop \in LoopRecords /\ now <= now' /\ o \in loop.due
  BY ClockType DEF Claim, At, clock, Typed, LoopOK, Earliest
<1>2. CASE /\ Unclaimed(o) /\ SetStatus(o, "running")
           /\ loop' = [loop EXCEPT !.due = @ \ {o}, !.doing = {o}, !.ok = FALSE,
                         !.at = IF o.of.action \in {"start_queue", "stop_queue"}
                                THEN "enable" ELSE "apply"]
  <2>1. /\ loop'.due = loop.due \ {o} /\ loop'.doing = {o} /\ loop'.ok = FALSE
        /\ loop'.at = IF o.of.action \in {"start_queue", "stop_queue"} THEN "enable" ELSE "apply"
    BY <1>1, <1>2 DEF LoopRecords
  <2>2. RoundFits' /\ NothingLate' /\ RoundInOrder' /\ DoingLatest'
    BY <1>1, <1>2, <2>1, RoundClaims DEF Ordered
  <2>3. QueueSet'
    BY <2>1 DEF QueueSet
  <2>4. \A s \in Schedules, t \in Times :
          /\ history'[s][t] = "completed" => history[s][t] = "completed"
          /\ history[s][t] # "none" => history'[s][t] # "none"
    BY <1>1, <1>2, DueType DEF SetStatus, Typed
  <2>5. LastScheduleDecides'
    BY <1>1, <2>4, DecisionKept DEF Ordered
  <2> QED
    BY <2>2, <2>3, <2>5 DEF Ordered
<1>3. CASE Abandon /\ UNCHANGED history
  <2>1. loop'.at = "rest"
    BY <1>3 DEF Abandon, Resting
  <2>2. QueueSet'
    BY <2>1 DEF QueueSet
  <2> QED
    BY <1>1, <1>3, <2>2, OrderedKept, LoopShrinks
<1>4. CASE /\ ~Unclaimed(o) /\ UNCHANGED history
           /\ loop' = IF loop.due = {o} THEN Resting ELSE [loop EXCEPT !.due = @ \ {o}]
  <2>1. CASE loop.due = {o}
    <3>1. Abandon /\ UNCHANGED history
      BY <1>4, <2>1 DEF Abandon
    <3> QED
      BY <1>3, <3>1
  <2>2. CASE loop.due # {o}
    <3>1. /\ loop'.due = loop.due \ {o} /\ loop'.doing = loop.doing
          /\ loop'.at = "claim"
      BY <1>1, <1>4, <2>2 DEF LoopRecords
    <3>2. Shrinks
      BY <1>1, <1>4, <3>1 DEF Shrinks, Claimed, Unclaimed
    <3>3. RoundFits' /\ NothingLate' /\ RoundInOrder' /\ DoingLatest'
      BY <3>2, RoundKept DEF Ordered
    <3>4. QueueSet'
      BY <3>1 DEF QueueSet
    <3>5. LastScheduleDecides'
      BY <1>1, <1>4, DecisionKept DEF Ordered
    <3> QED
      BY <3>3, <3>4, <3>5 DEF Ordered
  <2> QED
    BY <2>1, <2>2
<1> QED
  BY <1>2, <1>3, <1>4

LEMMA RunDueOrdered ==
  ASSUME Typed, Typed', Left("user"), Ordered, RunDue
  PROVE  Ordered'
<1>1. /\ loop = Resting /\ tick # NoTick /\ tick' = NoTick
      /\ UNCHANGED <<now, setting, history, enabled>> /\ now <= now'
  BY ClockType DEF RunDue, At, Typed, LoopOK
<1>2. CASE loop' = Resting
  <2>1. loop'.at = "rest" /\ loop'.due = loop.due /\ loop'.doing = loop.doing
    BY <1>1, <1>2 DEF Resting
  <2>2. QueueSet'
    BY <2>1 DEF QueueSet
  <2> QED
    BY <1>1, <2>1, <2>2, OrderedKept
<1>3. CASE loop' = [Resting EXCEPT !.at = "claim", !.due = Due(tick)]
  <2>1. loop'.at = "claim" /\ loop'.due = Due(tick) /\ loop'.doing = {}
    BY <1>3 DEF Resting
  <2>2. RoundFits' /\ NothingLate' /\ RoundInOrder' /\ DoingLatest'
    BY <1>1, <2>1, RoundBegins DEF Ordered
  <2>3. QueueSet'
    BY <2>1 DEF QueueSet
  <2>4. LastScheduleDecides'
    BY <1>1, DecisionKept DEF Ordered
  <2> QED
    BY <2>2, <2>3, <2>4 DEF Ordered
<1> QED
  BY <1>1, <1>2, <1>3 DEF RunDue

LEMMA LoopStepOrdered ==
  ASSUME Typed, Typed', Left("user"), Ordered, LoopStep
  PROVE  Ordered'
<1>1. CASE Apply
  <2>1. /\ loop.at = "apply" /\ UNCHANGED <<now, tick, setting, history, enabled>>
        /\ now <= now' /\ loop \in LoopRecords
    BY <1>1, ClockType DEF Apply, At, clock, Typed, LoopOK
  <2>2. loop'.due = loop.due /\ loop'.doing = loop.doing /\ loop'.at = "finish"
    BY <1>1, <2>1 DEF Apply, LoopRecords
  <2>3. QueueSet'
    BY <2>1, <2>2 DEF Ordered, QueueSet
  <2> QED
    BY <2>1, <2>2, <2>3, OrderedKept
<1>2. CASE WaitForIdle \/ PostAction
  <2>1. /\ UNCHANGED <<now, setting, history, enabled>> /\ tick' \in {tick, NoTick}
        /\ now <= now' /\ loop \in LoopRecords
        /\ Proceed \/ Abandon \/ Goto("post")
    BY <1>2, ClockType DEF WaitForIdle, PostAction, clock, Typed, LoopOK
  <2>2. loop'.at \in {"rest", "claim", "post"}
    BY <2>1, LoopGoes
  <2>3. QueueSet'
    BY <2>2 DEF QueueSet
  <2>4. loop'.due \in {loop.due, {}} /\ loop'.doing \in {loop.doing, {}}
    BY <2>1, LoopShrinks
  <2> QED
    BY <2>1, <2>3, <2>4, OrderedKept
<1> QED
  BY <1>1, <1>2, EnableOrdered, FinishOrdered, ClaimOrdered, RunDueOrdered DEF LoopStep

\* A call of the user is never made up for.
LEMMA UserStays ==
  ASSUME Typed, Paid, Typed', [Next]_vars, Left("user")'
  PROVE  /\ Left("user")
         /\ ~ClearPrivateData /\ \A s \in Schedules : ~Save(s) /\ ~Delete(s)
<1>1. /\ DOMAIN Budget = {"fault", "crash", "user"}
      /\ Budget["user"] \in Nat /\ budget["user"] \in Nat
      /\ budget["user"] <= Budget["user"] /\ budget'["user"] = Budget["user"]
  BY SchedulerAssumption DEF Typed, Paid, Left
<1>2. ~Spend("user")
  BY <1>1 DEF Spend, Typed
<1>3. ~ClearPrivateData /\ \A s \in Schedules : ~Save(s) /\ ~Delete(s)
  BY <1>2 DEF ClearPrivateData, Save, Delete
<1>4. budget' = budget \/ Spend("fault") \/ Spend("crash")
  BY <1>3 DEF Next, LoopStep, Tick, Startup, Crash, DownloadsChange, RunDue, Claim,
              SetQueueEnabled, Apply, Finish, WaitForIdle, PostAction, Works, Fails, vars
<1>5. budget'["user"] = budget["user"]
  BY <1>1, <1>4 DEF Spend, Typed
<1> QED
  BY <1>1, <1>3, <1>5 DEF Left

LEMMA NextOrdered ==
  ASSUME Typed, Paid, OrderInv, [Next]_vars
  PROVE  OrderInv'
<1>1. Typed'
  BY NextStep
<1> SUFFICES ASSUME Left("user")' PROVE Ordered'
  BY DEF OrderInv
<1>2. /\ Left("user") /\ Ordered
      /\ ~ClearPrivateData /\ \A s \in Schedules : ~Save(s) /\ ~Delete(s)
  BY <1>1, UserStays DEF OrderInv
<1>3. CASE LoopStep
  BY <1>1, <1>2, <1>3, LoopStepOrdered
<1>4. CASE Crash
  <2>1. /\ UNCHANGED <<now, setting, history, enabled>> /\ tick' = NoTick /\ now <= now'
        /\ Abandon
    BY <1>4, ClockType DEF Crash
  <2>2. loop'.at = "rest"
    BY <2>1 DEF Abandon, Resting
  <2>3. QueueSet'
    BY <2>2 DEF QueueSet
  <2> QED
    BY <1>1, <1>2, <2>1, <2>3, OrderedKept, LoopShrinks
<1>5. CASE Tick \/ Startup \/ DownloadsChange \/ UNCHANGED vars
  <2>1. UNCHANGED <<setting, history, enabled, loop>> /\ tick' \in {tick, NoTick, now'}
    BY <1>5 DEF Tick, Startup, DownloadsChange, vars, clock
  <2>2. now <= now'
    BY <1>5, ClockType DEF Tick, Later, Startup, DownloadsChange, vars, clock
  <2>3. QueueSet'
    BY <1>2, <2>1 DEF Ordered, QueueSet
  <2> QED
    BY <1>1, <1>2, <2>1, <2>2, <2>3, OrderedKept
<1> QED
  BY <1>2, <1>3, <1>4, <1>5 DEF Next

LEMMA InitOrdered ==
  Init => OrderInv
<1> SUFFICES ASSUME Init PROVE Ordered
  BY DEF OrderInv
<1>1. /\ tick = NoTick /\ loop = Resting
      /\ \A s \in Schedules, t \in Times : history[s][t] = "none"
  BY DEF Init
<1>2. /\ loop.due = {} /\ loop.doing = {} /\ loop.at = "rest"
  BY <1>1 DEF Resting
<1>3. \A s \in Schedules, t \in Times : ~Claimed(s, t)
  BY <1>1 DEF Claimed
<1>4. \A t \in Times : ~Passed(t)
  BY <1>2, <1>3 DEF Passed
<1>5. RoundFits /\ NothingLate /\ RoundInOrder /\ DoingLatest /\ QueueSet
  BY <1>1, <1>2, <1>4 DEF RoundFits, NothingLate, RoundInOrder, DoingLatest, QueueSet
<1>6. LastScheduleDecides
  BY <1>1 DEF LastScheduleDecides
<1> QED
  BY <1>5, <1>6 DEF Ordered

(***************************************************************************)
(* Results.                                                                *)
(***************************************************************************)
\* The scheduler keeps its types: at most one occurrence is being carried out, and
\* a loop at rest has nothing left to do.
THEOREM SchedulerTypeCorrect == Spec => []TypeOK
<1>1. IInv => TypeOK
  BY DEF IInv
<1> QED
  BY <1>1, IInvHolds, PTL

\* However many schedules, days, crashes and failing steps there are, RunDue begins
\* the action of an occurrence once, and again only for an erasure of its history.
THEOREM ClaimedAtMostOnce == Spec => []AtMostOnce
<1>1. IInv => AtMostOnce
  <2> SUFFICES ASSUME IInv, NEW s \in Schedules, NEW t \in Times
               PROVE  ran[s][t] <= 1 + (Budget["user"] - budget["user"])
    BY DEF AtMostOnce
  <2>1. /\ Budget["user"] \in Nat /\ budget["user"] \in Nat
        /\ ran[s][t] \in Nat
    BY SchedulerAssumption DEF IInv, TypeOK
  <2>2. ran[s][t] <= (IF history[s][t] = "none" THEN 0 ELSE 1)
                       + (Budget["user"] - budget["user"])
    BY DEF IInv, Paid
  <2> QED
    BY <2>1, <2>2
<1> QED
  BY <1>1, IInvHolds, PTL

\* Behind every order the loop keeps: while the user leaves schedules and history alone,
\* an occurrence that was passed over is handled in the same round of RunDue or is never
\* due again, so that the earliest of a round is always the latest ever claimed.
THEOREM RoundsAreOrdered == Spec => []OrderInv
<1>1. IInv /\ OrderInv /\ [Next]_vars => OrderInv'
  BY NextOrdered, TypedIsTypeOK DEF IInv
<1> QED
  BY <1>1, InitOrdered, IInvHolds, PTL DEF Spec

\* However late the program starts, whatever fails and whichever rounds are given up,
\* the order of actions on a queue is the order of their times: the queue ends as the
\* latest completed start or stop left it.
THEOREM TheLastScheduleDecides == Spec => []LastScheduleDecides
<1>1. OrderInv => LastScheduleDecides
  BY DEF OrderInv, Ordered, LastScheduleDecides
<1> QED
  BY <1>1, RoundsAreOrdered, PTL

\* Claim never inserts the row of an occurrence when one of a later time has one.
THEOREM ClaimsAreInOrder == Spec => ClaimsInOrder
<1> DEFINE Order ==
      \A s, r \in Schedules, t, u \in Times :
        history[s][t] = "none" /\ history'[s][t] = "running" /\ t < u => history[r][u] = "none"
<1>1. IInv /\ OrderInv /\ [Next]_vars => [Left("user") => Order]_vars
  <2> SUFFICES ASSUME IInv, OrderInv, Next, Left("user"),
                      NEW s \in Schedules, NEW r \in Schedules,
                      NEW t \in Times, NEW u \in Times,
                      history[s][t] = "none", history'[s][t] = "running", t < u
               PROVE  history[r][u] = "none"
    BY DEF vars
  <2>1. Typed /\ RoundInOrder
    BY TypedIsTypeOK DEF IInv, OrderInv, Ordered
  <2>2. PICK o \in loop.due : o.id = s /\ o.for = t
    <3>1. CASE Claim
      <4>1. PICK o \in Earliest : SetStatus(o, "running") \/ UNCHANGED history
        BY <3>1 DEF Claim
      <4>2. o \in loop.due /\ o.id \in Schedules /\ o.for \in Times
        BY <2>1, DueType DEF Earliest
      <4>3. SetStatus(o, "running")
        BY <4>1
      <4>4. o.id = s /\ o.for = t
        BY <2>1, <4>2, <4>3 DEF SetStatus, Typed
      <4> QED
        BY <4>2, <4>4
    <3>2. CASE Finish
      <4>1. PICK o \in loop.doing :
              \/ UNCHANGED history
              \/ /\ history[o.id][o.for] = "running"
                 /\ SetStatus(o, IF loop.ok THEN "completed" ELSE "failed")
        BY <3>2 DEF Finish
      <4>2. o.id \in Schedules /\ o.for \in Times
        BY <2>1, DueType
      <4> QED
        BY <2>1, <4>1, <4>2 DEF SetStatus, Typed
    <3>3. ASSUME NEW q \in Schedules, Delete(q) PROVE FALSE
      BY <2>1, <3>3 DEF Delete, NoHistory, Typed
    <3>4. CASE ClearPrivateData
      BY <3>4 DEF ClearPrivateData, NoHistory
    <3>5. history' # history
      OBVIOUS
    <3> QED
      BY <3>1, <3>2, <3>3, <3>4, <3>5
         DEF Next, LoopStep, Tick, Startup, Crash, Save, DownloadsChange, RunDue,
             SetQueueEnabled, Apply, WaitForIdle, PostAction
  <2>3. ~Claimed(r, u)
    BY <2>1, <2>2 DEF RoundInOrder, Claimed, Times
  <2> QED
    BY <2>3 DEF Claimed
<1> QED
  BY <1>1, IInvHolds, RoundsAreOrdered, PTL DEF Spec, ClaimsInOrder
=============================================================================

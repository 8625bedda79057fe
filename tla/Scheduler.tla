------------------------------ MODULE Scheduler ------------------------------
(***************************************************************************)
(* SchedulerService: a loop wakes up every half minute, works out which    *)
(* schedules are due, claims each occurrence by inserting its row of       *)
(* schedule_history, and carries out its action and its post action.       *)
(* Time is counted in half minutes; a schedule's occurrence is the time at *)
(* which it falls due on a day.                                            *)
(***************************************************************************)
EXTENDS Naturals, FiniteSets

CONSTANTS
  Schedules,
  Settings,    (* what the user may save for a schedule                     *)
  NoSetting,
  Saved,       (* what the table schedules may hold at first                *)
  DayLength,   (* half minutes in a day                                     *)
  Days,        (* days of the model: the clock stops in the last half       *)
               (* minute of the last day, which stands for the rest of it   *)
  NoTick,
  Budget       (* steps that fail, crashes, calls of the user               *)

ASSUME SchedulerAssumption ==
  /\ DayLength \in Nat \ {0} /\ Days \in Nat \ {0}
  /\ Settings \subseteq [at : 0 .. DayLength - 1, weekdays : SUBSET (0 .. Days - 1),
                         enabled : BOOLEAN, policy : {"skip", "run_once"},
                         action : {"start_queue", "stop_queue", "speed_profile", "retry_failed"},
                         post : BOOLEAN]
  /\ NoSetting \notin Settings
  /\ Saved \subseteq [Schedules -> Settings \cup {NoSetting}]
  /\ NoTick \notin 0 .. DayLength * Days
  /\ Budget \in [{"fault", "crash", "user"} -> Nat]

Times == 0 .. DayLength * Days - 1

VARIABLES
  now,
  tick,     (* the time in the ticker's channel, which holds one            *)
  up,
  setting,  (* the table schedules                                          *)
  history,  (* the status of each occurrence's row, if there is one         *)
  enabled,  (* is the queue enabled                                         *)
  idle,     (* are the affected downloads neither queued nor active         *)
  loop,     (* where RunDue is, what is left to do, how the action ended    *)
  ran,      (* how often each occurrence's action was begun                 *)
  budget

clock == <<now, tick>>
vars == <<now, tick, up, setting, history, enabled, idle, loop, ran, budget>>

Occurrences == [id : Schedules, of : Settings, for : Times]
Resting == [at |-> "rest", due |-> {}, doing |-> {}, ok |-> FALSE]

TypeOK ==
  /\ now \in Times /\ tick \in Times \cup {NoTick}
  /\ {up, enabled, idle} \subseteq BOOLEAN
  /\ setting \in [Schedules -> Settings \cup {NoSetting}]
  /\ history \in [Schedules -> [Times -> {"none", "running", "completed", "failed"}]]
  /\ loop \in [at : {"rest", "claim", "enable", "apply", "finish", "wait", "post"},
               due : SUBSET Occurrences, doing : SUBSET Occurrences, ok : BOOLEAN]
  /\ Cardinality(loop.doing) <= 1 /\ (loop.at = "rest" => loop = Resting)
  /\ ran \in [Schedules -> [Times -> Nat]]
  /\ budget \in [DOMAIN Budget -> Nat]

Init ==
  /\ now = 0 /\ tick = NoTick /\ up = FALSE
  /\ setting \in Saved
  /\ history = [s \in Schedules |-> [t \in Times |-> "none"]]
  /\ enabled = TRUE /\ idle = TRUE
  /\ loop = Resting
  /\ ran = [s \in Schedules |-> [t \in Times |-> 0]]
  /\ budget = Budget

Spend(what) == budget[what] > 0 /\ budget' = [budget EXCEPT ![what] = @ - 1]
Works == UNCHANGED budget
Fails == Spend("fault")

(***************************************************************************)
(* Time.                                                                   *)
(***************************************************************************)
Later == IF now + 1 \in Times THEN now + 1 ELSE now

\* The ticker drops a tick that finds the last one still in the channel.
Tick ==
  /\ now' = Later
  /\ tick' = IF up /\ tick = NoTick THEN Later ELSE tick
  /\ UNCHANGED <<up, setting, history, enabled, idle, loop, ran, budget>>

Minute == 2
Day(t) == t \div DayLength
Occurrence(v, t) == Day(t) * DayLength + v.at

\* Slip: run_once is treated as skip.
DueInFirstMinute(t) ==
  {o \in Occurrences :
     /\ setting[o.id] = o.of /\ o.of.enabled /\ Day(t) \in o.of.weekdays
     /\ o.for = Occurrence(o.of, t)
     /\ o.for <= t /\ t - o.for < Minute}

\* scheduler.Due: today's occurrences whose time has come, and which are not missed
\* unless the policy catches up.
Due(t) ==
  {o \in Occurrences :
     /\ setting[o.id] = o.of /\ o.of.enabled /\ Day(t) \in o.of.weekdays
     /\ o.for = Occurrence(o.of, t)
     /\ o.for <= t
     /\ t - o.for >= Minute => o.of.policy = "run_once"}

(***************************************************************************)
(* RunDue.                                                                 *)
(***************************************************************************)
At(step) == up /\ loop.at = step
Goto(step) == loop' = [loop EXCEPT !.at = step]

\* Slip: the round is over and its result kept.
ProceedAsIs == loop' = [loop EXCEPT !.at = IF loop.due = {} THEN "rest" ELSE "claim", !.doing = {}]

\* With the next occurrence, or to rest.
Proceed == loop' = IF loop.due = {} THEN Resting ELSE [loop EXCEPT !.at = "claim", !.doing = {}]
Abandon == loop' = Resting

\* The schedules are listed and those due at the time of the tick are taken.
RunDue ==
  /\ At("rest") /\ tick # NoTick
  /\ tick' = NoTick
  /\ \/ /\ Works
        /\ loop' = IF Due(tick) = {} THEN Resting ELSE [Resting EXCEPT !.at = "claim", !.due = Due(tick)]
     \/ Fails /\ UNCHANGED loop
  /\ UNCHANGED <<now, up, setting, history, enabled, idle, ran>>

\* Slip: occurrences in no order.
AnyDue == loop.due

\* Occurrences are handled in the order of their times.
Earliest == {o \in loop.due : \A p \in loop.due : o.for <= p.for}

SetStatus(o, status) == history' = [history EXCEPT ![o.id][o.for] = status]

\* Slip: an occurrence that was left running is claimed again.
Unfinished(o) == history[o.id][o.for] \notin {"completed", "failed"}

Unclaimed(o) == history[o.id][o.for] = "none"

\* The insertion succeeds, violates the unique key, or fails otherwise, as it does when
\* the schedule has been deleted.
Claim ==
  /\ At("claim")
  /\ \E o \in Earliest :
       \/ /\ Works /\ setting[o.id] # NoSetting /\ Unclaimed(o)
          /\ SetStatus(o, "running")
          /\ loop' = [loop EXCEPT !.due = @ \ {o}, !.doing = {o}, !.ok = FALSE,
                        !.at = IF o.of.action \in {"start_queue", "stop_queue"} THEN "enable" ELSE "apply"]
          /\ ran' = [ran EXCEPT ![o.id][o.for] = @ + 1]
       \/ /\ Works /\ ~Unclaimed(o)
          /\ loop' = IF loop.due = {o} THEN Resting ELSE [loop EXCEPT !.due = @ \ {o}]
          /\ UNCHANGED <<history, ran>>
       \/ /\ (Works /\ setting[o.id] = NoSetting /\ Unclaimed(o)) \/ Fails
          /\ Abandon /\ UNCHANGED <<history, ran>>
  /\ UNCHANGED <<clock, up, setting, enabled, idle>>

\* Slip: a stop does not disable the queue.
EnableQueue ==
  /\ At("enable")
  /\ \E o \in loop.doing :
       \/ enabled' = (enabled \/ o.of.action = "start_queue") /\ Goto("apply")
       \/ Goto("finish") /\ UNCHANGED enabled
  /\ UNCHANGED <<clock, up, setting, history, idle, ran, budget>>

\* ExecuteSchedule: SetQueueEnabled comes first, and fails when the queue is gone.
SetQueueEnabled ==
  /\ At("enable")
  /\ \E o \in loop.doing :
       \/ enabled' = (o.of.action = "start_queue") /\ Goto("apply")
       \/ Goto("finish") /\ UNCHANGED enabled
  /\ UNCHANGED <<clock, up, setting, history, idle, ran, budget>>

\* StartQueue, StopQueue, SetGlobalBandwidthLimit or RetryFailed.
Apply ==
  /\ At("apply")
  /\ \E ok \in BOOLEAN :
       /\ IF ok THEN Works ELSE Fails
       /\ loop' = [loop EXCEPT !.at = "finish", !.ok = ok]
  /\ UNCHANGED <<clock, up, setting, history, enabled, idle, ran>>

AfterFinish(o) ==
  IF ~(loop.ok /\ o.of.post) THEN Proceed
  ELSE Goto(IF o.of.action \in {"start_queue", "retry_failed"} THEN "wait" ELSE "post")

\* Finish updates the row while it is running.
Finish ==
  /\ At("finish")
  /\ \E o \in loop.doing :
       \/ /\ Works /\ AfterFinish(o)
          /\ IF history[o.id][o.for] = "running"
             THEN SetStatus(o, IF loop.ok THEN "completed" ELSE "failed")
             ELSE UNCHANGED history
       \/ Fails /\ Abandon /\ UNCHANGED history
  /\ UNCHANGED <<clock, up, setting, enabled, idle, ran>>

\* WaitForIdle holds up the loop, and with it every other schedule.
WaitForIdle ==
  /\ At("wait")
  /\ (Works /\ idle /\ Goto("post")) \/ (Fails /\ Abandon)
  /\ UNCHANGED <<clock, up, setting, history, enabled, idle, ran>>

\* The program exits or the computer is put to sleep or shut down.
PostAction ==
  /\ At("post")
  /\ \/ Works /\ Proceed /\ UNCHANGED <<up, tick>>
     \/ Works /\ up' = FALSE /\ tick' = NoTick /\ Abandon
     \/ Fails /\ Abandon /\ UNCHANGED <<up, tick>>
  /\ UNCHANGED <<now, setting, history, enabled, idle, ran>>

(***************************************************************************)
(* The process, the user and the downloads.                                *)
(***************************************************************************)
\* A new process runs what is due before its ticker has ticked.
Startup ==
  /\ ~up /\ up' = TRUE /\ tick' = now
  /\ UNCHANGED <<now, setting, history, enabled, idle, loop, ran, budget>>

Crash ==
  /\ up /\ Spend("crash")
  /\ up' = FALSE /\ tick' = NoTick /\ Abandon
  /\ UNCHANGED <<now, setting, history, enabled, idle, ran>>

Save(s) ==
  /\ up /\ Spend("user")
  /\ \E v \in Settings : setting' = [setting EXCEPT ![s] = v]
  /\ UNCHANGED <<clock, up, history, enabled, idle, loop, ran>>

NoHistory == [t \in Times |-> "none"]

\* The rows of schedule_history go with the schedule.
Delete(s) ==
  /\ up /\ setting[s] # NoSetting /\ Spend("user")
  /\ setting' = [setting EXCEPT ![s] = NoSetting]
  /\ history' = [history EXCEPT ![s] = NoHistory]
  /\ UNCHANGED <<clock, up, enabled, idle, loop, ran>>

ClearPrivateData ==
  /\ up /\ Spend("user")
  /\ history' = [s \in Schedules |-> NoHistory]
  /\ UNCHANGED <<clock, up, setting, enabled, idle, loop, ran>>

\* The downloads of the queue go their way.
DownloadsChange ==
  /\ idle' = ~idle
  /\ UNCHANGED <<clock, up, setting, history, enabled, loop, ran, budget>>

LoopStep == RunDue \/ Claim \/ SetQueueEnabled \/ Apply \/ Finish \/ WaitForIdle \/ PostAction

Next ==
  \/ Tick \/ LoopStep
  \/ Startup \/ Crash
  \/ \E s \in Schedules : Save(s) \/ Delete(s)
  \/ ClearPrivateData \/ DownloadsChange

\* The clock runs and the goroutine of the loop is scheduled.
Spec == Init /\ [][Next]_vars /\ WF_vars(Tick) /\ WF_vars(LoopStep)

(***************************************************************************)
(* Properties.                                                             *)
(***************************************************************************)
Left(what) == budget[what] = Budget[what]

\* Whatever fails or crashes, the action of an occurrence is begun once, and again only
\* when the user erased its history.
AtMostOnce ==
  \A s \in Schedules, t \in Times : ran[s][t] <= 1 + (Budget["user"] - budget["user"])

\* A start at eight and a stop at nine are never carried out the other way round, after
\* a late start of the program, a blocked loop or a failed claim: unless the user
\* interferes no occurrence is claimed when one of a later time has been.
ClaimsInOrder ==
  [][Left("user") =>
       \A s, r \in Schedules, t, u \in Times :
         history[s][t] = "none" /\ history'[s][t] = "running" /\ t < u => history[r][u] = "none"]_vars

\* The queue is as the latest schedule left it: nothing that was begun for an earlier
\* time undoes a completed start or stop.
LastScheduleDecides ==
  Left("user") =>
    \A s \in Schedules, t \in Times :
      /\ history[s][t] = "completed" /\ setting[s].action \in {"start_queue", "stop_queue"}
      /\ \A r \in Schedules \ {s}, u \in Times : history[r][u] # "none" => u < t
      => enabled = (setting[s].action = "start_queue")

LastDay == Days - 1

\* The program is up and a catch-up schedule's time has come on the last day.
Standing(s) ==
  /\ up /\ setting[s] # NoSetting
  /\ setting[s].enabled /\ setting[s].policy = "run_once" /\ LastDay \in setting[s].weekdays
  /\ now >= LastDay * DayLength + setting[s].at

\* A run_once schedule is claimed on its day, however late the program started, whatever
\* failed before, and behind whichever other schedules: provided that the downloads a
\* post action waits for come to rest.
CatchesUp ==
  \A s \in Schedules :
    <>[]idle /\ <>[]Standing(s)
      => <>(setting[s] # NoSetting
              /\ history[s][LastDay * DayLength + setting[s].at] # "none")
=============================================================================

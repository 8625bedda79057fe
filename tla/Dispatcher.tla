----------------------------- MODULE Dispatcher -----------------------------
(***************************************************************************)
(* The admission core of DownloadService: the pending slice, the queued    *)
(* set, the running map, the per-queue slot counters and the worker pool   *)
(* that drains them, woken through a channel of capacity one.              *)
(*                                                                         *)
(* Every access to pending, queued, running and queueRunning happens under *)
(* s.mu, so one critical section is one action.  The steps a worker takes  *)
(* outside the lock (a send on wake, the select, the run itself) are       *)
(* actions of their own: a worker's program counter says which comes next. *)
(*                                                                         *)
(* A run control is named by the worker that created it: a worker owns one *)
(* control at a time, and OnlyLiveControls shows that the map never keeps  *)
(* a control past its run.                                                 *)
(***************************************************************************)
EXTENDS Integers, Sequences, FiniteSets, SequencesExt

CONSTANTS
  Downloads,     (* download identifiers                                     *)
  Workers,       (* the dispatch workers, 16 in the code                     *)
  Queues,        (* queue identifiers, the unassigned queue among them       *)
  DefaultQueue,  (* "__default", the queue of downloads without a queue      *)
  DefaultLimit,  (* capacity of DefaultQueue, 3 in the code                  *)
  Actions,       (* what a job asks its run to do                            *)
  Policies,      (* the queue policies the organization service accepts      *)
  Priority,      (* the priority column of each download                     *)
  MaxPending,    (* maxQueuedDownloads, 64 in the code                       *)
  NoWorker, NoJob

ASSUME DispatcherAssumption ==
  /\ IsFiniteSet(Workers) /\ NoWorker \notin Workers
  /\ DefaultQueue \in Queues
  /\ DefaultLimit \in Nat \ {0}
  /\ MaxPending \in Nat \ {0}
  /\ Priority \in [Downloads -> Int]
  /\ Policies \subseteq [exists : BOOLEAN, enabled : BOOLEAN, sequential : BOOLEAN,
                         maxParallel : Nat \ {0}, priority : Int]

NamedQueues == Queues \ {DefaultQueue}

Jobs == [id : Downloads, action : Actions, queue : Queues,
         priority : Int, limit : Nat \ {0}]

ASSUME NoJobAssumption == NoJob \notin Jobs

VARIABLES
  pending,       (* s.pending: jobs in order of arrival                      *)
  queued,        (* s.queued: identifiers with a job that may be dispatched  *)
  running,       (* s.running: the worker whose control is registered        *)
  queueRunning,  (* s.queueRunning: slots taken in each queue                *)
  wake,          (* TRUE iff the wake channel holds its token                *)
  closed,        (* s.ctx is cancelled                                       *)
  policy,        (* the row of each named queue, which may be gone           *)
  assigned,      (* the queue_id column of each download                     *)
  pc, job        (* where each worker is, and the job it holds               *)

poolVars == <<pending, queued, running, queueRunning>>
rowVars == <<policy, assigned>>
vars == <<poolVars, wake, closed, rowVars, pc, job>>

Steps == {"scan", "select", "claimed", "register", "run", "freed", "exited"}

TypeOK ==
  /\ pending \in Seq(Jobs) /\ Len(pending) <= MaxPending
  /\ queued \in SUBSET Downloads
  /\ running \in [Downloads -> Workers \cup {NoWorker}]
  /\ queueRunning \in [Queues -> Int]
  /\ wake \in BOOLEAN
  /\ closed \in BOOLEAN
  /\ policy \in [NamedQueues -> Policies]
  /\ assigned \in [Downloads -> Queues]
  /\ pc \in [Workers -> Steps]
  /\ job \in [Workers -> Jobs \cup {NoJob}]

Init ==
  /\ pending = <<>>
  /\ queued = {}
  /\ running = [d \in Downloads |-> NoWorker]
  /\ queueRunning = [q \in Queues |-> 0]
  /\ wake = FALSE
  /\ closed = FALSE
  /\ policy \in [NamedQueues -> Policies]
  /\ assigned \in [Downloads -> Queues]
  /\ pc = [w \in Workers |-> "scan"]
  /\ job = [w \in Workers |-> NoJob]

(***************************************************************************)
(* Callers.  enqueue reads the download and its queue under s.mu and       *)
(* captures the limit and the priority of that moment in the job.          *)
(***************************************************************************)
Duplicate(d) == d \in queued \/ running[d] # NoWorker

Admits(q) == q = DefaultQueue \/ (policy[q].exists /\ policy[q].enabled)

Limit(q) ==
  IF q = DefaultQueue THEN DefaultLimit
  ELSE IF policy[q].sequential THEN 1 ELSE policy[q].maxParallel

JobPriority(d) ==
  LET q == assigned[d]
  IN  Priority[d] + (IF q = DefaultQueue THEN 0 ELSE policy[q].priority)

NewJob(d, a) ==
  [id |-> d, action |-> a, queue |-> assigned[d],
   priority |-> JobPriority(d), limit |-> Limit(assigned[d])]

\* Slip: the bound is tested with > and lets one job too many in.
RefusesLate(d) ==
  ~Duplicate(d) /\ (Len(pending) > MaxPending \/ closed \/ ~Admits(assigned[d]))

\* enqueue returns an error: the slice is full, the service is closed (its
\* read of the download fails), or the queue is stopped or gone.
Refuses(d) ==
  ~Duplicate(d) /\ (Len(pending) >= MaxPending \/ closed \/ ~Admits(assigned[d]))

Accepts(d) == ~Duplicate(d) /\ ~Refuses(d)

Enqueue(d, a) ==
  /\ Accepts(d)
  /\ pending' = Append(pending, NewJob(d, a))
  /\ queued' = queued \cup {d}
  /\ wake' = TRUE
  /\ UNCHANGED <<running, queueRunning, closed, rowVars, pc, job>>

\* Cancel of a download that does not run forgets the identifier but leaves
\* the job in the slice.
Withdraw(d) ==
  /\ queued' = queued \ {d}
  /\ UNCHANGED <<pending, running, queueRunning, wake, closed, rowVars, pc, job>>

Close ==
  /\ closed' = TRUE
  /\ UNCHANGED <<poolVars, wake, rowVars, pc, job>>

\* SaveQueue, SetQueueEnabled and DeleteQueue write one queue row.
SetPolicy(q, p) ==
  /\ policy' = [policy EXCEPT ![q] = p]
  /\ UNCHANGED <<poolVars, wake, closed, assigned, pc, job>>

\* AssignDownloads, and every other write of a download row, sets queue_id.
Assign(d, q) ==
  /\ assigned' = [assigned EXCEPT ![d] = q]
  /\ UNCHANGED <<poolVars, wake, closed, policy, pc, job>>

(***************************************************************************)
(* Workers.                                                                *)
(***************************************************************************)
At(w, step) == pc[w] = step
Goto(w, step) == pc' = [pc EXCEPT ![w] = step]

\* Slip: an off-by-one in the capacity test.
CandidatesAtLimit ==
  {i \in DOMAIN pending : /\ pending[i].id \in queued
                          /\ queueRunning[pending[i].queue] <= pending[i].limit}

Candidates ==
  {i \in DOMAIN pending : /\ pending[i].id \in queued
                          /\ queueRunning[pending[i].queue] < pending[i].limit}

\* The scan keeps the first of the candidates with the highest priority.
Beats(i, j) ==
  \/ pending[i].priority > pending[j].priority
  \/ pending[i].priority = pending[j].priority /\ i <= j

Claim(w) ==
  /\ At(w, "scan")
  /\ \E i \in Candidates :
       /\ \A j \in Candidates : Beats(i, j)
       /\ job' = [job EXCEPT ![w] = pending[i]]
       /\ pending' = RemoveAt(pending, i)
       /\ queued' = queued \ {pending[i].id}
       /\ queueRunning' = [queueRunning EXCEPT ![pending[i].queue] = @ + 1]
  /\ Goto(w, "claimed")
  /\ UNCHANGED <<running, wake, closed, rowVars>>

ScanNothing(w) ==
  /\ At(w, "scan")
  /\ Candidates = {}
  /\ Goto(w, "select")
  /\ UNCHANGED <<poolVars, wake, closed, rowVars, job>>

Receive(w) ==
  /\ At(w, "select")
  /\ wake
  /\ wake' = FALSE
  /\ Goto(w, "scan")
  /\ UNCHANGED <<poolVars, closed, rowVars, job>>

\* Slip: a worker of a closed service stays until the slice is empty.
ExitWhenDrained(w) ==
  /\ At(w, "select")
  /\ closed /\ pending = <<>>
  /\ Goto(w, "exited")
  /\ UNCHANGED <<poolVars, wake, closed, rowVars, job>>

Exit(w) ==
  /\ At(w, "select")
  /\ closed
  /\ Goto(w, "exited")
  /\ UNCHANGED <<poolVars, wake, closed, rowVars, job>>

\* signalWorkers: a send that is dropped when the channel is full.
Signal(w, from, to) ==
  /\ At(w, from)
  /\ wake' = TRUE
  /\ Goto(w, to)
  /\ UNCHANGED <<poolVars, closed, rowVars, job>>

\* Slip: the worker that takes a job wakes nobody for the next one.
ClaimSilently(w) ==
  /\ At(w, "claimed")
  /\ Goto(w, "register")
  /\ UNCHANGED <<poolVars, wake, closed, rowVars, job>>

SignalClaim(w) == Signal(w, "claimed", "register")

\* The run becomes visible to Pause and Cancel only here, one critical
\* section after the claim; a control already in the map is overwritten.
Register(w) ==
  /\ At(w, "register")
  /\ running' = [running EXCEPT ![job[w].id] = w]
  /\ Goto(w, "run")
  /\ UNCHANGED <<pending, queued, queueRunning, wake, closed, rowVars, job>>

\* Slip: the control is removed without looking whose it is.
ForgetAny(w) == running' = [running EXCEPT ![job[w].id] = NoWorker]

Forget(w) ==
  running' = [d \in Downloads |->
                IF d = job[w].id /\ running[d] = w THEN NoWorker ELSE running[d]]

\* finishPause removes the control while its run still unwinds.
Unregister(w) ==
  /\ At(w, "run")
  /\ Forget(w)
  /\ UNCHANGED <<pending, queued, queueRunning, wake, closed, rowVars, pc, job>>

\* Slip: the slot of the queue is not given back.
ReleaseKeepingSlot(w) ==
  /\ At(w, "run")
  /\ Forget(w)
  /\ job' = [job EXCEPT ![w] = NoJob]
  /\ Goto(w, "freed")
  /\ UNCHANGED <<pending, queued, queueRunning, wake, closed, rowVars>>

Release(w) ==
  /\ At(w, "run")
  /\ Forget(w)
  /\ queueRunning' = [queueRunning EXCEPT ![job[w].queue] = @ - 1]
  /\ job' = [job EXCEPT ![w] = NoJob]
  /\ Goto(w, "freed")
  /\ UNCHANGED <<pending, queued, wake, closed, rowVars>>

SignalFree(w) == Signal(w, "freed", "scan")

CallerStep ==
  \/ \E d \in Downloads, a \in Actions : Enqueue(d, a)
  \/ \E d \in Downloads : Withdraw(d)
  \/ \E d \in Downloads, q \in Queues : Assign(d, q)
  \/ \E q \in NamedQueues, p \in Policies : SetPolicy(q, p)
  \/ Close

LoopStep(w) ==
  \/ Claim(w) \/ ScanNothing(w) \/ Receive(w) \/ Exit(w)
  \/ SignalClaim(w) \/ Register(w) \/ SignalFree(w)

WorkerStep(w) == LoopStep(w) \/ Unregister(w) \/ Release(w)

Next == CallerStep \/ \E w \in Workers : WorkerStep(w)

Spec == Init /\ [][Next]_vars

(***************************************************************************)
(* Properties.                                                             *)
(***************************************************************************)
Holders(q) == {w \in Workers : job[w] # NoJob /\ job[w].queue = q}

\* Slots never leak: the counter of a queue is the number of workers that
\* hold a job of that queue, whatever the order of claims, pauses,
\* re-registrations and releases.
SlotsAccounted == \A q \in Queues : queueRunning[q] = Cardinality(Holders(q))

\* The documented queue capacity, under policies that change at any time: of
\* the active runs of a queue, at most n were admitted under a limit of n or
\* less.  With n = 1: a sequential queue never runs two of its jobs at once.
AdmittedUnder(q, n) == {w \in Holders(q) : job[w].limit <= n}
LimitsInUse == {job[w].limit : w \in {v \in Workers : job[v] # NoJob}}

CapacityRespected ==
  \A q \in Queues : \A n \in LimitsInUse : Cardinality(AdmittedUnder(q, n)) <= n

\* An identifier marked queued always has a job in the slice: otherwise every
\* later Start would be answered "already queued" and never run.
QueuedHasJob == \A d \in queued : \E i \in DOMAIN pending : pending[i].id = d

\* A registered control belongs to a run of that download that has not been
\* released: no control outlives its run, where Pause and Cancel would act on
\* nothing.
OnlyLiveControls ==
  \A d \in Downloads : \A w \in Workers :
    running[d] = w => At(w, "run") /\ job[w].id = d

\* Only its own run removes a control: a paused run that unwinds late leaves
\* the control of the resumed run alone.
OwnControlOnly ==
  [][\A d \in Downloads, w, v \in Workers :
       (running[d] = w /\ running'[d] = NoWorker /\ v # w) => job'[v] = job[v]]_running

\* No wake-up is lost although the channel holds one token: while a worker
\* sleeps and a job could be dispatched, the token is there or some worker is
\* about to scan or to send it.
NoLostWakeup ==
  (Candidates # {} /\ \E w \in Workers : At(w, "select"))
    => wake \/ \E w \in Workers : pc[w] \in {"scan", "claimed", "freed"}

\* A job whose run is waiting for a slot is eventually dispatched or
\* withdrawn, or the service stops.
EventuallyDispatched ==
  \A d \in Downloads : d \in queued ~> (d \notin queued \/ closed)

\* Close returns: wg.Wait sees every worker exit.
CloseReturns == closed ~> \A w \in Workers : At(w, "exited")
=============================================================================

------------------------ MODULE ConnectionController ------------------------
(***************************************************************************)
(* The adaptive gate of the segmented engine: every attempt to transfer a  *)
(* segment first takes a slot of the connectionController, whose limit is  *)
(* halved when the server is overloaded and grows by one after a window of *)
(* successes.  Workers that find no slot sleep on a channel of capacity    *)
(* one; every send is dropped when the channel is full.                    *)
(*                                                                         *)
(* The users of the gate are the calls of downloadSegmentWithRetry that    *)
(* segment workers make, one for each segment they take; the coordinator   *)
(* may cancel the context of a call at any time.  One critical section of  *)
(* c.mu is one action, and the send that follows it is another.            *)
(***************************************************************************)
EXTENDS Integers, FiniteSets

CONSTANTS
  Calls,         (* the calls of downloadSegmentWithRetry                    *)
  Desired,       (* the limit to begin with and never to exceed              *)
  MaxAttempts    (* maxSegmentAttempts, 4 in the code                        *)

ASSUME ControllerAssumption ==
  /\ IsFiniteSet(Calls)
  /\ Desired \in Nat \ {0}
  /\ MaxAttempts \in Nat \ {0}

VARIABLES
  limit, active, successStreak,   (* the fields of the controller            *)
  notify,                         (* TRUE iff its channel holds a token      *)
  pc,                             (* where each call is                      *)
  attempt,                        (* its attempt at the segment              *)
  cancelled                       (* its context is cancelled                *)

gateVars == <<limit, active, successStreak>>
vars == <<gateVars, notify, pc, attempt, cancelled>>

\* How a request ends.
Outcomes == {"ok", "tooMany", "transient", "fatal"}

Steps == {"try", "acquire", "granted", "wait", "request",
          "success", "overload", "succeeded", "overloaded", "backoff", "done"} \cup Outcomes

TypeOK ==
  /\ limit \in 1 .. Desired
  /\ active \in Int
  /\ successStreak \in Nat
  /\ notify \in BOOLEAN
  /\ pc \in [Calls -> Steps]
  /\ attempt \in [Calls -> 0 .. MaxAttempts - 1]
  /\ cancelled \in [Calls -> BOOLEAN]

Init ==
  /\ limit = Desired
  /\ active = 0
  /\ successStreak = 0
  /\ notify = FALSE
  /\ pc = [c \in Calls |-> "try"]
  /\ attempt = [c \in Calls |-> 0]
  /\ cancelled = [c \in Calls |-> FALSE]

At(c, step) == pc[c] = step

\* From here on a call never looks at its context or its attempt again.
Settled == {"ok", "fatal", "success", "succeeded", "done"}

Goto(c, step) ==
  /\ pc' = [pc EXCEPT ![c] = step]
  /\ attempt' = IF step \in Settled THEN [attempt EXCEPT ![c] = 0] ELSE attempt
  /\ cancelled' = IF step \in Settled THEN [cancelled EXCEPT ![c] = FALSE] ELSE cancelled

\* The coordinator cancels a segment: another one failed, its tail is to be
\* split off, or the download is stopped.
CancelSegment(c) ==
  /\ pc[c] \notin Settled
  /\ cancelled' = [cancelled EXCEPT ![c] = TRUE]
  /\ UNCHANGED <<gateVars, notify, pc, attempt>>

\* An attempt begins, the first one as soon as a worker has taken the segment.
Try(c) ==
  /\ At(c, "try")
  /\ Goto(c, IF cancelled[c] THEN "done" ELSE "acquire")
  /\ UNCHANGED <<gateVars, notify>>

(***************************************************************************)
(* acquire, release, overload, success and signal.                         *)
(***************************************************************************)
\* Slip: the call that takes a slot does not pass the token on.
AcquireSilently(c) ==
  /\ At(c, "acquire")
  /\ active < limit
  /\ active' = active + 1
  /\ Goto(c, "request")
  /\ UNCHANGED <<limit, successStreak, notify>>

\* A call that takes a slot and leaves another one passes the token on.
Acquire(c) ==
  /\ At(c, "acquire")
  /\ active < limit
  /\ active' = active + 1
  /\ Goto(c, IF active + 1 < limit THEN "granted" ELSE "request")
  /\ UNCHANGED <<limit, successStreak, notify>>

FindFull(c) ==
  /\ At(c, "acquire")
  /\ active >= limit
  /\ Goto(c, "wait")
  /\ UNCHANGED <<gateVars, notify>>

Wake(c) ==
  /\ At(c, "wait")
  /\ notify
  /\ notify' = FALSE
  /\ Goto(c, "acquire")
  /\ UNCHANGED gateVars

GiveUp(c) ==
  /\ At(c, "wait")
  /\ cancelled[c]
  /\ Goto(c, "done")
  /\ UNCHANGED <<gateVars, notify>>

Signal(c, from, to) ==
  /\ At(c, from)
  /\ notify' = TRUE
  /\ Goto(c, to)
  /\ UNCHANGED gateVars

SignalGranted(c) == Signal(c, "granted", "request")

\* Slip: a request that was cancelled keeps its slot.
ReleaseUnlessCancelled(c) ==
  /\ At(c, "request")
  /\ active' = IF cancelled[c] THEN active ELSE active - 1
  /\ \E o \in Outcomes : Goto(c, o)
  /\ UNCHANGED <<limit, successStreak, notify>>

\* The request ends one way or another and the slot is given back.
Release(c) ==
  /\ At(c, "request")
  /\ active' = IF active > 0 THEN active - 1 ELSE active
  /\ \E o \in Outcomes : Goto(c, o)
  /\ UNCHANGED <<limit, successStreak, notify>>

\* release sends its token, and the retry loop goes on with the outcome: a
\* success counts even when the segment was cancelled meanwhile.
AfterRequest(c, o) ==
  IF o = "ok" THEN "success"
  ELSE IF cancelled[c] \/ o = "fatal" THEN "done"
  ELSE IF o = "tooMany" THEN "overload" ELSE "backoff"

\* Slip: the slot is given back and nobody is told.
ReleaseSilently(c) ==
  /\ \E o \in Outcomes : At(c, o) /\ Goto(c, AfterRequest(c, o))
  /\ UNCHANGED <<gateVars, notify>>

SignalReleased(c) == \E o \in Outcomes : Signal(c, o, AfterRequest(c, o))

\* Slip: the limit is halved to nothing.
OverloadToZero(c) ==
  /\ At(c, "overload")
  /\ limit' = limit \div 2
  /\ successStreak' = 0
  /\ Goto(c, "overloaded")
  /\ UNCHANGED <<active, notify>>

\* Slip: successes counted before the overload count towards the new window.
OverloadKeepingStreak(c) ==
  /\ At(c, "overload")
  /\ limit' = IF limit > 1 THEN limit \div 2 ELSE limit
  /\ Goto(c, "overloaded")
  /\ UNCHANGED <<active, successStreak, notify>>

Overload(c) ==
  /\ At(c, "overload")
  /\ limit' = IF limit > 1 THEN limit \div 2 ELSE limit
  /\ successStreak' = 0
  /\ Goto(c, "overloaded")
  /\ UNCHANGED <<active, notify>>

SignalOverloaded(c) == Signal(c, "overloaded", "backoff")

Success(c) ==
  /\ At(c, "success")
  /\ IF limit < Desired
     THEN LET full == successStreak + 1 >= limit
          IN  /\ limit' = IF full THEN limit + 1 ELSE limit
              /\ successStreak' = IF full THEN 0 ELSE successStreak + 1
     ELSE UNCHANGED <<limit, successStreak>>
  /\ Goto(c, "succeeded")
  /\ UNCHANGED <<active, notify>>

SignalSucceeded(c) == Signal(c, "succeeded", "done")

\* The sleep between two attempts ends early when the segment is cancelled.
Backoff(c) ==
  /\ At(c, "backoff")
  /\ IF cancelled[c] \/ attempt[c] + 1 >= MaxAttempts
     THEN Goto(c, "done")
     ELSE /\ pc' = [pc EXCEPT ![c] = "try"]
          /\ attempt' = [attempt EXCEPT ![c] = @ + 1]
          /\ UNCHANGED cancelled
  /\ UNCHANGED <<gateVars, notify>>

CallStep(c) ==
  \/ Try(c) \/ Acquire(c) \/ FindFull(c) \/ Wake(c) \/ GiveUp(c) \/ SignalGranted(c)
  \/ Release(c) \/ SignalReleased(c) \/ Overload(c) \/ SignalOverloaded(c)
  \/ Success(c) \/ SignalSucceeded(c) \/ Backoff(c)

Next == \E c \in Calls : CancelSegment(c) \/ CallStep(c)

Spec == Init /\ [][Next]_vars

\* Goroutines are scheduled and every request ends (it has its timeouts, and
\* its context may be cancelled).
FairSpec == Spec /\ \A c \in Calls : WF_vars(CallStep(c))

(***************************************************************************)
(* Properties.                                                             *)
(***************************************************************************)
Holders == {c \in Calls : pc[c] \in {"granted", "request"}}

\* Slots never leak, whichever way a request ends: the counter of the
\* controller is the number of calls between acquire and release.
SlotsHeld == active = Cardinality(Holders)

\* Successes count towards one window only: an overload in between starts a
\* new one, so the limit grows by one after as many successes as it allows
\* requests, and never on an old streak.
StreakWithinWindow == successStreak < limit

\* No wake-up is lost although sends are dropped and the limit moves both
\* ways: while a call sleeps and a slot is free, the token is there or some
\* call is about to take a slot or to send it.
Waking == {"acquire", "granted", "overloaded", "succeeded"} \cup Outcomes

NoLostWakeup ==
  (active < limit /\ \E c \in Calls : At(c, "wait"))
    => notify \/ \E c \in Calls : pc[c] \in Waking

\* Every segment comes to an end, completed, failed or
\* cancelled: no call sleeps forever on a slot another one gave back.
EveryCallReturns == \A c \in Calls : <>At(c, "done")
=============================================================================

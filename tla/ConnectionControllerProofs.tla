---------------------- MODULE ConnectionControllerProofs ----------------------
(***************************************************************************)
(* Proofs about ConnectionController for any number of calls and any       *)
(* limit.  The counter is right only because a call holds a slot exactly   *)
(* in the steps Holders names, which also shows that release never meets   *)
(* the counter at zero; the wake-up argument follows the token.            *)
(***************************************************************************)
EXTENDS ConnectionController, FiniteSetTheorems, TLAPS

IInv == TypeOK /\ SlotsHeld /\ StreakWithinWindow /\ NoLostWakeup

(***************************************************************************)
(* Types and the streak.                                                   *)
(***************************************************************************)
\* Moving a call on leaves the types of its locals.
LEMMA GotoType ==
  ASSUME TypeOK, NEW c \in Calls, NEW step \in Steps, Goto(c, step)
  PROVE  /\ pc' = [pc EXCEPT ![c] = step]
         /\ pc' \in [Calls -> Steps]
         /\ attempt' \in [Calls -> 0 .. MaxAttempts - 1]
         /\ cancelled' \in [Calls -> BOOLEAN]
<1>1. 0 \in 0 .. MaxAttempts - 1
  BY ControllerAssumption
<1> QED
  BY <1>1 DEF TypeOK, Goto

\* The limit stays between one and what was desired, and no step lets the
\* streak reach it.
LEMMA TypeStep ==
  TypeOK /\ StreakWithinWindow /\ [Next]_vars => TypeOK' /\ StreakWithinWindow'
<1> SUFFICES ASSUME TypeOK, StreakWithinWindow, [Next]_vars
             PROVE  TypeOK' /\ StreakWithinWindow'
  OBVIOUS
<1> USE DEF StreakWithinWindow, gateVars
<1>1. ASSUME NEW c \in Calls, CancelSegment(c) PROVE TypeOK' /\ StreakWithinWindow'
  BY <1>1 DEF TypeOK, CancelSegment
<1>2. ASSUME NEW c \in Calls, Try(c) PROVE TypeOK' /\ StreakWithinWindow'
  BY <1>2, GotoType DEF TypeOK, Try, Steps
<1>3. ASSUME NEW c \in Calls, Acquire(c) PROVE TypeOK' /\ StreakWithinWindow'
  BY <1>3, GotoType DEF TypeOK, Acquire, Steps
<1>4. ASSUME NEW c \in Calls, FindFull(c) PROVE TypeOK' /\ StreakWithinWindow'
  BY <1>4, GotoType DEF TypeOK, FindFull, Steps
<1>5. ASSUME NEW c \in Calls, Wake(c) PROVE TypeOK' /\ StreakWithinWindow'
  BY <1>5, GotoType DEF TypeOK, Wake, Steps
<1>6. ASSUME NEW c \in Calls, GiveUp(c) PROVE TypeOK' /\ StreakWithinWindow'
  BY <1>6, GotoType DEF TypeOK, GiveUp, Steps
<1>7. ASSUME NEW c \in Calls, NEW from \in Steps, NEW to \in Steps, Signal(c, from, to)
      PROVE TypeOK' /\ StreakWithinWindow'
  BY <1>7, GotoType DEF TypeOK, Signal
<1>8. ASSUME NEW c \in Calls, Release(c) PROVE TypeOK' /\ StreakWithinWindow'
  <2>1. PICK o \in Outcomes : Goto(c, o)
    BY <1>8 DEF Release
  <2>2. o \in Steps
    BY DEF Steps
  <2>3. active' \in Int
    BY <1>8 DEF TypeOK, Release
  <2> QED
    BY <1>8, <2>1, <2>2, <2>3, GotoType DEF TypeOK, Release
<1>9. ASSUME NEW c \in Calls, Overload(c) PROVE TypeOK' /\ StreakWithinWindow'
  <2>1. limit' \in 1 .. Desired
    BY <1>9, ControllerAssumption DEF TypeOK, Overload
  <2> QED
    BY <1>9, <2>1, GotoType DEF TypeOK, Overload, Steps
<1>10. ASSUME NEW c \in Calls, Success(c) PROVE TypeOK' /\ StreakWithinWindow'
  <2>1. limit' \in 1 .. Desired /\ successStreak' \in Nat /\ successStreak' < limit'
    BY <1>10, ControllerAssumption DEF TypeOK, Success
  <2> QED
    BY <1>10, <2>1, GotoType DEF TypeOK, Success, Steps
<1>11. ASSUME NEW c \in Calls, Backoff(c) PROVE TypeOK' /\ StreakWithinWindow'
  <2>1. CASE cancelled[c] \/ attempt[c] + 1 >= MaxAttempts
    BY <1>11, <2>1, GotoType DEF TypeOK, Backoff, Steps
  <2>2. CASE ~(cancelled[c] \/ attempt[c] + 1 >= MaxAttempts)
    <3>1. attempt[c] + 1 \in 0 .. MaxAttempts - 1
      BY <2>2, ControllerAssumption DEF TypeOK
    <3> QED
      BY <1>11, <2>2, <3>1 DEF TypeOK, Backoff, Steps
  <2> QED
    BY <2>1, <2>2
<1>12. CASE UNCHANGED vars
  BY <1>12 DEF TypeOK, vars
<1>13. \A c \in Calls : \A o \in Outcomes : AfterRequest(c, o) \in Steps /\ o \in Steps
  BY DEF AfterRequest, Steps
<1>14. {"granted", "request", "overloaded", "backoff", "succeeded", "done"} \subseteq Steps
  BY DEF Steps
<1> QED
  BY <1>1, <1>2, <1>3, <1>4, <1>5, <1>6, <1>7, <1>8, <1>9, <1>10, <1>11, <1>12, <1>13, <1>14
  DEF Next, CallStep, SignalGranted, SignalReleased, SignalOverloaded, SignalSucceeded

(***************************************************************************)
(* The slots.                                                              *)
(***************************************************************************)
LEMMA HoldersFinite ==
  ASSUME TypeOK PROVE IsFiniteSet(Holders) /\ Cardinality(Holders) \in Nat
<1>1. Holders \subseteq Calls
  BY DEF Holders
<1> QED
  BY <1>1, ControllerAssumption, FS_Subset, FS_CardinalityType

\* A step that neither takes nor gives back a slot leaves the holders alone.
LEMMA SameHolders ==
  ASSUME TypeOK, NEW c \in Calls, NEW step \in Steps, Goto(c, step),
         pc[c] \in {"granted", "request"} <=> step \in {"granted", "request"}
  PROVE  Holders' = Holders
<1>1. \A b \in Calls : pc'[b] \in {"granted", "request"} <=> pc[b] \in {"granted", "request"}
  BY GotoType DEF TypeOK
<1> QED
  BY <1>1 DEF Holders

LEMMA SlotsStep ==
  TypeOK /\ SlotsHeld /\ [Next]_vars => SlotsHeld'
<1> SUFFICES ASSUME TypeOK, SlotsHeld, [Next]_vars PROVE SlotsHeld'
  OBVIOUS
<1> USE DEF SlotsHeld
<1>0. IsFiniteSet(Holders) /\ Cardinality(Holders) \in Nat
  BY HoldersFinite
<1>1. ASSUME NEW c \in Calls, CancelSegment(c) PROVE SlotsHeld'
  BY <1>1 DEF CancelSegment, Holders, gateVars
<1>2. ASSUME NEW c \in Calls, Try(c) PROVE SlotsHeld'
  <2>1. Holders' = Holders
    BY <1>2, SameHolders DEF Try, At, Steps
  <2> QED
    BY <1>2, <2>1 DEF Try, gateVars
<1>3. ASSUME NEW c \in Calls, Acquire(c) PROVE SlotsHeld'
  <2>1. PICK step \in {"granted", "request"} : Goto(c, step)
    BY <1>3 DEF Acquire
  <2>2. pc' = [pc EXCEPT ![c] = step] /\ pc[c] = "acquire"
    BY <1>3, <2>1, GotoType DEF Steps, Acquire, At
  <2>3. Holders' = Holders \cup {c} /\ c \notin Holders
    BY <2>2 DEF Holders, TypeOK
  <2> QED
    BY <1>0, <1>3, <2>3, FS_AddElement DEF Acquire
<1>4. ASSUME NEW c \in Calls, FindFull(c) PROVE SlotsHeld'
  <2>1. Holders' = Holders
    BY <1>4, SameHolders DEF FindFull, At, Steps
  <2> QED
    BY <1>4, <2>1 DEF FindFull, gateVars
<1>5. ASSUME NEW c \in Calls, Wake(c) PROVE SlotsHeld'
  <2>1. Holders' = Holders
    BY <1>5, SameHolders DEF Wake, At, Steps
  <2> QED
    BY <1>5, <2>1 DEF Wake, gateVars
<1>6. ASSUME NEW c \in Calls, GiveUp(c) PROVE SlotsHeld'
  <2>1. Holders' = Holders
    BY <1>6, SameHolders DEF GiveUp, At, Steps
  <2> QED
    BY <1>6, <2>1 DEF GiveUp, gateVars
<1>7. ASSUME NEW c \in Calls, NEW from \in Steps, NEW to \in Steps, Signal(c, from, to),
             from \in {"granted", "request"} <=> to \in {"granted", "request"}
      PROVE  SlotsHeld'
  <2>1. Holders' = Holders
    BY <1>7, SameHolders DEF Signal, At
  <2> QED
    BY <1>7, <2>1 DEF Signal, gateVars
<1>8. ASSUME NEW c \in Calls, Release(c) PROVE SlotsHeld'
  <2>1. PICK o \in Outcomes : Goto(c, o)
    BY <1>8 DEF Release
  <2>2. pc' = [pc EXCEPT ![c] = o] /\ pc[c] = "request" /\ o \notin {"granted", "request"}
    BY <1>8, <2>1, GotoType DEF Release, At, Steps, Outcomes
  <2>3. Holders' = Holders \ {c} /\ c \in Holders
    BY <2>2 DEF Holders, TypeOK
  <2>4. Cardinality(Holders') = Cardinality(Holders) - 1
    BY <1>0, <2>3, FS_RemoveElement
  <2>5. Cardinality(Holders) > 0
    BY <1>0, <2>3, FS_EmptySet
  <2> QED
    BY <1>0, <1>8, <2>4, <2>5 DEF Release
<1>9. ASSUME NEW c \in Calls, Overload(c) PROVE SlotsHeld'
  <2>1. Holders' = Holders
    BY <1>9, SameHolders DEF Overload, At, Steps
  <2> QED
    BY <1>9, <2>1 DEF Overload
<1>10. ASSUME NEW c \in Calls, Success(c) PROVE SlotsHeld'
  <2>1. Holders' = Holders
    BY <1>10, SameHolders DEF Success, At, Steps
  <2> QED
    BY <1>10, <2>1 DEF Success
<1>11. ASSUME NEW c \in Calls, Backoff(c) PROVE SlotsHeld'
  <2>1. Holders' = Holders
    BY <1>11 DEF Backoff, Goto, At, TypeOK, Holders
  <2> QED
    BY <1>11, <2>1 DEF Backoff, gateVars
<1>12. CASE UNCHANGED vars
  BY <1>12 DEF vars, gateVars, Holders
<1>13. ASSUME NEW c \in Calls, NEW o \in Outcomes
       PROVE  /\ o \in Steps /\ o \notin {"granted", "request"}
              /\ AfterRequest(c, o) \in Steps
              /\ AfterRequest(c, o) \notin {"granted", "request"}
  BY DEF AfterRequest, Steps, Outcomes
<1>14. {"granted", "request", "overloaded", "backoff", "succeeded", "done"} \subseteq Steps
  BY DEF Steps
<1>15. ASSUME NEW c \in Calls, SignalGranted(c) PROVE SlotsHeld'
  BY <1>7, <1>14, <1>15 DEF SignalGranted
<1>16. ASSUME NEW c \in Calls, SignalReleased(c) PROVE SlotsHeld'
  BY <1>7, <1>13, <1>16 DEF SignalReleased
<1>17. ASSUME NEW c \in Calls, SignalOverloaded(c) \/ SignalSucceeded(c) PROVE SlotsHeld'
  BY <1>7, <1>14, <1>17 DEF SignalOverloaded, SignalSucceeded
<1> QED
  BY <1>1, <1>2, <1>3, <1>4, <1>5, <1>6, <1>8, <1>9, <1>10, <1>11, <1>12, <1>15, <1>16, <1>17
  DEF Next, CallStep

(***************************************************************************)
(* The token.                                                              *)
(***************************************************************************)
\* After a step that ends in Waking, or that sends the token, nothing is
\* lost; the other steps wake nobody, free no slot and put nobody to sleep.
LEMMA WakeupStep ==
  TypeOK /\ NoLostWakeup /\ [Next]_vars => NoLostWakeup'
<1> SUFFICES ASSUME TypeOK, NoLostWakeup, [Next]_vars PROVE NoLostWakeup'
  OBVIOUS
<1> USE DEF NoLostWakeup, gateVars
<1> DEFINE moves(c, step) == pc' = [pc EXCEPT ![c] = step]
<1>a. ASSUME NEW c \in Calls, NEW step \in Waking, moves(c, step) PROVE NoLostWakeup'
  BY <1>a DEF TypeOK
\* A call outside Waking that does not fall asleep, frees no slot and takes
\* no token leaves every witness where it was.
<1>b. ASSUME NEW c \in Calls, NEW step \in Steps, moves(c, step),
             pc[c] \notin Waking, step # "wait",
             active' = active, limit' = limit, notify' = notify
      PROVE  NoLostWakeup'
  <2>1. \A b \in Calls : At(b, "wait")' => At(b, "wait")
    BY <1>b DEF At, TypeOK
  <2>2. \A b \in Calls : pc[b] \in Waking => pc'[b] \in Waking
    BY <1>b DEF TypeOK
  <2> QED
    BY <1>b, <2>1, <2>2
<1>1. ASSUME NEW c \in Calls, CancelSegment(c) PROVE NoLostWakeup'
  BY <1>1 DEF CancelSegment, At
<1>2. ASSUME NEW c \in Calls, Try(c) PROVE NoLostWakeup'
  <2>1. PICK step \in {"done", "acquire"} : moves(c, step)
    BY <1>2 DEF Try, Goto
  <2> QED
    BY <1>b, <1>2, <2>1, <1>a DEF Try, At, Steps, Waking, Outcomes
<1>3. ASSUME NEW c \in Calls, Acquire(c) PROVE NoLostWakeup'
  <2>1. CASE active + 1 < limit
    BY <1>3, <1>a, <2>1 DEF Acquire, Goto, Waking
  <2>2. CASE ~(active + 1 < limit)
    BY <1>3, <2>2 DEF Acquire, TypeOK
  <2> QED
    BY <2>1, <2>2
<1>4. ASSUME NEW c \in Calls, FindFull(c) PROVE NoLostWakeup'
  BY <1>4 DEF FindFull, TypeOK
<1>5. ASSUME NEW c \in Calls, Wake(c) PROVE NoLostWakeup'
  BY <1>5, <1>a DEF Wake, Goto, Waking
<1>6. ASSUME NEW c \in Calls, GiveUp(c) PROVE NoLostWakeup'
  BY <1>b, <1>6 DEF GiveUp, Goto, At, Steps, Waking, Outcomes
<1>7. ASSUME NEW c \in Calls, NEW from, NEW to, Signal(c, from, to) PROVE NoLostWakeup'
  BY <1>7 DEF Signal
<1>8. ASSUME NEW c \in Calls, Release(c) PROVE NoLostWakeup'
  BY <1>8, <1>a DEF Release, Goto, Waking
<1>9. ASSUME NEW c \in Calls, Overload(c) PROVE NoLostWakeup'
  BY <1>9, <1>a DEF Overload, Goto, Waking
<1>10. ASSUME NEW c \in Calls, Success(c) PROVE NoLostWakeup'
  BY <1>10, <1>a DEF Success, Goto, Waking
<1>11. ASSUME NEW c \in Calls, Backoff(c) PROVE NoLostWakeup'
  <2>1. PICK step \in {"done", "try"} : moves(c, step)
    BY <1>11 DEF Backoff, Goto
  <2> QED
    BY <1>b, <1>11, <2>1 DEF Backoff, At, Steps, Waking, Outcomes
<1>12. CASE UNCHANGED vars
  BY <1>12 DEF vars, At
<1> QED
  BY <1>1, <1>2, <1>3, <1>4, <1>5, <1>6, <1>7, <1>8, <1>9, <1>10, <1>11, <1>12
  DEF Next, CallStep, SignalGranted, SignalReleased, SignalOverloaded, SignalSucceeded

(***************************************************************************)
(* The invariant and what follows from it.                                 *)
(***************************************************************************)
\* The gate's invariant holds from newConnectionController on.
THEOREM GateInvariance == Spec => []IInv
<1>1. Init => IInv
  <2> SUFFICES ASSUME Init PROVE IInv
    OBVIOUS
  <2>1. /\ limit \in 1 .. Desired /\ successStreak \in Nat /\ successStreak < limit
        /\ 0 \in 0 .. MaxAttempts - 1 /\ "try" \in Steps
    BY ControllerAssumption DEF Init, Steps
  <2>5. TypeOK /\ StreakWithinWindow
    <3>1. pc \in [Calls -> Steps]
      BY <2>1 DEF Init
    <3>2. attempt \in [Calls -> 0 .. MaxAttempts - 1]
      BY <2>1 DEF Init
    <3>3. cancelled \in [Calls -> BOOLEAN]
      BY Zenon DEF Init
    <3>4. active \in Int
      BY DEF Init
    <3>5. notify \in BOOLEAN
      BY Zenon DEF Init
    <3> QED
      BY <2>1, <3>1, <3>2, <3>3, <3>4, <3>5 DEF TypeOK, StreakWithinWindow
  <2>2. Holders = {}
    BY DEF Init, Holders
  <2>3. SlotsHeld
    BY <2>2, FS_EmptySet DEF Init, SlotsHeld
  <2>4. NoLostWakeup
    BY DEF Init, NoLostWakeup, At
  <2> QED
    BY <2>3, <2>4, <2>5 DEF IInv
<1>2. IInv /\ [Next]_vars => IInv'
  BY TypeStep, SlotsStep, WakeupStep DEF IInv
<1> QED
  BY <1>1, <1>2, PTL DEF Spec

\* The limit never leaves 1 .. Desired, however many overloads and successes
\* interleave.
THEOREM GateTypeCorrect == Spec => []TypeOK
<1>1. IInv => TypeOK
  BY DEF IInv
<1> QED
  BY <1>1, GateInvariance, PTL

\* The counter of the gate is the number of its holders for any number of
\* calls and any order of cancellations.
THEOREM SlotsNeverLeak == Spec => []SlotsHeld
<1>1. IInv => SlotsHeld
  BY DEF IInv
<1> QED
  BY <1>1, GateInvariance, PTL

\* An old streak never raises a limit that an overload has lowered.
THEOREM StreakStaysInWindow == Spec => []StreakWithinWindow
<1>1. IInv => StreakWithinWindow
  BY DEF IInv
<1> QED
  BY <1>1, GateInvariance, PTL

\* The one-token channel of the gate loses no wake-up.
THEOREM GateWakeupsAreKept == Spec => []NoLostWakeup
<1>1. IInv => NoLostWakeup
  BY DEF IInv
<1> QED
  BY <1>1, GateInvariance, PTL
=============================================================================

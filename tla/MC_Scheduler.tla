----------------------------- MODULE MC_Scheduler -----------------------------
(* A small instance of Scheduler for TLC. *)
EXTENDS Scheduler, TLC

CONSTANTS s1, s2

Start == [at |-> 0, weekdays |-> {0, 1}, enabled |-> TRUE, policy |-> "run_once",
          action |-> "start_queue", post |-> TRUE]
Stop == [Start EXCEPT !.at = 2, !.action = "stop_queue", !.post = FALSE]
Skipped == [Start EXCEPT !.policy = "skip", !.action = "speed_profile"]

StartStopSkip == {Start, Stop, Skipped}
StartThenStop == {(s1 :> Start) @@ (s2 :> Stop)}
OneOfEach == [fault |-> 1, crash |-> 1, user |-> 1]
=============================================================================

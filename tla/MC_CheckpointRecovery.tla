------------------------ MODULE MC_CheckpointRecovery ------------------------
(* Small instances of CheckpointRecovery for TLC. *)
EXTENDS CheckpointRecovery

\* The planner covers the resource exactly, also with more connections than bytes.
ASSUME PlansAreValid ==
  \A total \in 1 .. 12, connections \in 1 .. 16 :
    /\ ValidSegments(PlanSegments(total, connections), total)
    /\ Claimed(PlanSegments(total, connections)) = {}

OneCrash == [crash |-> 1, user |-> 1]
=============================================================================

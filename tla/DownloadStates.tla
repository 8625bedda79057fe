--------------------------- MODULE DownloadStates ---------------------------
(***************************************************************************)
(* The persisted states of a download and the two transition tables of     *)
(* internal/download/state.go: the one user operations and runs go         *)
(* through, and the one startup recovery goes through.                     *)
(***************************************************************************)

States == {"queued", "probing", "preparing", "downloading", "pausing", "paused",
           "retrying", "completed", "failed", "cancelled"}

\* Transitions[s]: the states Download.Transition accepts from s.
Transitions ==
  [s \in States |->
     CASE s = "queued"      -> {"probing", "cancelled"}
       [] s = "probing"     -> {"preparing", "failed", "cancelled"}
       [] s = "preparing"   -> {"downloading", "failed", "cancelled"}
       [] s = "downloading" -> {"pausing", "completed", "failed", "cancelled"}
       [] s = "pausing"     -> {"paused", "failed", "cancelled"}
       [] s = "paused"      -> {"preparing", "queued", "failed", "cancelled"}
       [] s = "retrying"    -> {"preparing", "failed", "cancelled"}
       [] s = "failed"      -> {"retrying", "queued"}
       [] s = "cancelled"   -> {"queued"}
       [] OTHER             -> {}]

\* RecoveryTransitions[s]: the states Download.Recover accepts from s.
RecoveryTransitions ==
  [s \in States |->
     CASE s = "probing" -> {"queued", "failed"}
       [] s \in {"preparing", "downloading", "pausing", "retrying"}
            -> {"queued", "paused", "failed"}
       [] OTHER -> {}]

\* isRecoverableState: what startup recovery looks at.
Recoverable == {"probing", "preparing", "downloading", "pausing", "retrying"}
=============================================================================

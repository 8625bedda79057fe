------------------------------- MODULE Transfer -------------------------------
(***************************************************************************)
(* What a download promises about the bytes it has received, whatever the  *)
(* engine does with ranges, retries, splits and checkpoints: the progress  *)
(* a call starts from is in the file and is never given up while the call  *)
(* lasts, not by a fallback and not by a crash; a file is published once   *)
(* it is whole; and every call ends.                                       *)
(***************************************************************************)
CONSTANT All

VARIABLES
  running,    (* a call of the engine is under way                           *)
  kept,       (* the progress it started from                                *)
  stored,     (* the offsets of the temporary file that hold the resource    *)
  published   (* what is at the destination                                  *)

vars == <<running, kept, stored, published>>

Init == running = FALSE /\ kept = {} /\ stored = {} /\ published = {}

Begin ==
  /\ ~running
  /\ running' = TRUE
  /\ kept' \in SUBSET stored
  /\ UNCHANGED <<stored, published>>

Fetch ==
  /\ running
  /\ stored' \in SUBSET All /\ stored \subseteq stored'
  /\ UNCHANGED <<running, kept, published>>

\* Only a call that started from nothing may start over.
StartOver ==
  /\ running /\ kept = {}
  /\ stored' = {}
  /\ UNCHANGED <<running, kept, published>>

Publish ==
  /\ running /\ stored = All
  /\ published' = stored
  /\ running' = FALSE /\ kept' = {} /\ stored' = {}

Stop ==
  /\ running
  /\ running' = FALSE /\ kept' = {}
  /\ UNCHANGED <<stored, published>>

\* A crash may lose what was received since the call began, and nothing else.
Crash ==
  /\ stored' \in SUBSET stored /\ kept \subseteq stored'
  /\ running' = FALSE /\ kept' = {}
  /\ UNCHANGED published

\* The user asks to start the download from its first byte.
Discard ==
  /\ ~running
  /\ stored' = {}
  /\ UNCHANGED <<running, kept, published>>

Next == Begin \/ Fetch \/ StartOver \/ Publish \/ Stop \/ Crash \/ Discard

Spec == Init /\ [][Next]_vars
=============================================================================

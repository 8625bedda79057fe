---------------------------- MODULE HandoffProofs ----------------------------
(***************************************************************************)
(* Proofs about Handoff and Files for any number of downloads, names,      *)
(* callers and handoffs.  A claim is taken by a caller who then does       *)
(* nothing but create a download; the entry stays claimed, or is gone,     *)
(* until that caller settles it.                                           *)
(***************************************************************************)
EXTENDS Handoff, FiniteSetTheorems, TLAPS

CallRecords ==
  [at : Steps, id : Downloads \cup {NoDownload},
   from : Names \cup {NoName}, to : Names \cup {NoName}]

\* A call knows the download and the names its next step needs.
Fits(r) ==
  /\ r \in CallRecords
  /\ r.at \in CreateSteps \cup {"created"} => r.id \in Downloads /\ r.to \in Names
  /\ r.at \in MoveSteps => r.id \in Downloads /\ r.from \in Names /\ r.to \in Names
  /\ r.at \in {"unlink", "requeue", "forget"} => r.id \in Downloads /\ r.from \in Names

RowRecords ==
  [state : {"none", "open", "completed", "cancelled", "gone"}, name : Names \cup {NoName}]

Named(r) == r \in RowRecords /\ (r.state # "none" => r.name \in Names)

FilesTyped ==
  /\ file \in [Names -> Downloads \cup {NoDownload}]
  /\ part \subseteq Names
  /\ row \in [Downloads -> RowRecords] /\ \A d \in Downloads : Named(row[d])
  /\ secret \subseteq Downloads /\ wanted \subseteq Downloads
  /\ run \in [Downloads -> {"idle", "running", "published"}]
  /\ call \in [Callers -> CallRecords] /\ \A c \in Callers : Fits(call[c])
  /\ \A c \in Callers :
       call[c].at \in {"requeue", "forget"} => row[call[c].id].state # "none"
  /\ \A d \in Downloads : run[d] # "idle" => row[d].state # "none"
  /\ budget \in [DOMAIN Budget -> Nat]

(***************************************************************************)
(* Types.                                                                  *)
(***************************************************************************)
\* What a step of caller c does to the calls.
Moves(c) ==
  /\ call' \in [Callers -> CallRecords] /\ \A b \in Callers : Fits(call'[b])
  /\ \A b \in Callers \ {c} : call'[b] = call[b]

LEMMA GoType ==
  ASSUME FilesTyped, NEW c \in Callers, NEW step \in Steps, Go(c, step),
         step \in CreateSteps \cup {"created"} => call[c].id \in Downloads /\ call[c].to \in Names,
         step \in MoveSteps => call[c].id \in Downloads /\ call[c].from \in Names /\ call[c].to \in Names,
         step \notin {"unlink", "requeue", "forget"}
  PROVE  Moves(c) /\ call'[c].at = step
<1> DEFINE r == [call[c] EXCEPT !.at = step]
<1>1. call' = [call EXCEPT ![c] = r] /\ call[c] \in CallRecords
  BY DEF Go, FilesTyped
<1>2. r \in CallRecords /\ r.at = step /\ r.id = call[c].id /\ r.from = call[c].from /\ r.to = call[c].to
  BY <1>1 DEF CallRecords
<1>3. Fits(r)
  BY <1>2 DEF Fits
<1> HIDE DEF r
<1> QED
  BY <1>1, <1>2, <1>3 DEF Moves, FilesTyped

LEMMA EndType ==
  ASSUME FilesTyped, NEW c \in Callers, End(c)
  PROVE  Moves(c) /\ call'[c].at = "idle"
<1>1. Fits(Idle) /\ Idle \in CallRecords /\ Idle.at = "idle"
  BY DEF Fits, Idle, CallRecords, Steps, CreateSteps, MoveSteps
<1> QED
  BY <1>1 DEF End, Moves, FilesTyped

LEMMA BeginType ==
  ASSUME FilesTyped, NEW c \in Callers, NEW d \in Downloads,
         NEW from \in Names \cup {NoName}, NEW to \in Names \cup {NoName},
         NEW step \in {"reserve", "move", "unlink", "requeue", "forget"},
         Begin(c, step, d, from, to),
         step \in {"reserve", "move"} => to \in Names,
         step # "reserve" => from \in Names
  PROVE  Moves(c) /\ call'[c].at = step
<1> DEFINE r == [at |-> step, id |-> d, from |-> from, to |-> to]
<1>1. r \in CallRecords /\ r.at = step /\ r.id = d /\ r.from = from /\ r.to = to
  BY DEF CallRecords, Steps, CreateSteps, MoveSteps
<1>2. Fits(r)
  BY <1>1 DEF Fits, CreateSteps, MoveSteps
<1>3. call' = [call EXCEPT ![c] = r]
  BY DEF Begin
<1> HIDE DEF r
<1> QED
  BY <1>1, <1>2, <1>3 DEF Moves, FilesTyped

\* A row that has been inserted stays, in some state, under a name.
RowsOK ==
  /\ row' \in [Downloads -> RowRecords] /\ \A d \in Downloads : Named(row'[d])
  /\ \A d \in Downloads : row[d].state # "none" => row'[d].state # "none"

LEMMA SetStateType ==
  ASSUME FilesTyped, NEW d \in Downloads, row[d].state # "none",
         NEW state \in {"open", "completed", "cancelled", "gone"}, SetState(d, state)
  PROVE  RowsOK
<1> DEFINE r == [row[d] EXCEPT !.state = state]
<1>1. row' = [row EXCEPT ![d] = r] /\ row[d] \in RowRecords /\ row[d].name \in Names
  BY DEF SetState, FilesTyped, Named
<1>2. r \in RowRecords /\ r.name = row[d].name /\ r.state = state
  BY <1>1 DEF RowRecords
<1>3. Named(r)
  BY <1>1, <1>2 DEF Named
<1> HIDE DEF r
<1> QED
  BY <1>1, <1>2, <1>3 DEF FilesTyped, RowsOK

LEMMA FaultType ==
  ASSUME FilesTyped, Works \/ Fails
  PROVE  budget' \in [DOMAIN Budget -> Nat]
<1>1. DOMAIN Budget = {"fault", "crash"}
  BY FilesAssumption
<1> QED
  BY <1>1 DEF FilesTyped, Works, Fails

ClaimSteps == {"confirm", "created", "refused"} \cup CreateSteps

\* What the steps of a call have in common.
StepOK(c) ==
  /\ FilesTyped'
  /\ \A b \in Callers \ {c} : call'[b] = call[b]
  /\ call[c].at \in ClaimSteps => call'[c].at \in ClaimSteps

\* It is enough to look at what a step changes.
LEMMA StepParts ==
  ASSUME FilesTyped, NEW c \in Callers, Moves(c), RowsOK,
         file' \in [Names -> Downloads \cup {NoDownload}], part' \subseteq Names,
         secret' \subseteq Downloads, wanted' \subseteq Downloads, UNCHANGED run,
         budget' \in [DOMAIN Budget -> Nat],
         call'[c].at \in {"requeue", "forget"} => row'[call'[c].id].state # "none",
         call[c].at \in ClaimSteps => call'[c].at \in ClaimSteps
  PROVE  StepOK(c)
<1>1. ASSUME NEW b \in Callers, call'[b].at \in {"requeue", "forget"}
      PROVE  row'[call'[b].id].state # "none"
  <2>1. CASE b # c
    <3>1. call'[b] = call[b] /\ call[b].id \in Downloads
      BY <1>1, <2>1 DEF Moves, FilesTyped, Fits
    <3> QED
      BY <1>1, <3>1 DEF RowsOK, FilesTyped
  <2> QED
    BY <1>1, <2>1
<1>2. run' \in [Downloads -> {"idle", "running", "published"}]
  BY DEF FilesTyped
<1> QED
  BY <1>1, <1>2 DEF StepOK, FilesTyped, Moves, RowsOK

LEMMA SameRows ==
  ASSUME FilesTyped, UNCHANGED row
  PROVE  RowsOK
BY DEF FilesTyped, RowsOK

(***************************************************************************)
(* The steps of a call.                                                    *)
(***************************************************************************)
LEMMA CreateStepType ==
  ASSUME FilesTyped, NEW c \in Callers,
         Choose(c) \/ Refuse(c) \/ ReserveDestination(c) \/ SaveDownloadCookies(c) \/ InsertRow(c)
  PROVE  StepOK(c)
<1> USE DEF ClaimSteps, CreateSteps, MoveSteps
<1> call[c] \in CallRecords /\ Fits(call[c])
  BY DEF FilesTyped
<1>1. CASE Choose(c)
  <2> PICK d \in Downloads, n \in Names : Begin(c, "reserve", d, NoName, n)
    BY <1>1 DEF Choose
  <2>1. Moves(c) /\ call'[c].at = "reserve"
    BY BeginType
  <2> QED
    BY <1>1, <2>1, StepParts, SameRows DEF Choose, FilesTyped
<1>2. CASE Refuse(c)
  <2>1. Moves(c) /\ call'[c].at = "refused"
    BY <1>2, GoType DEF Refuse, Steps
  <2> QED
    BY <1>2, <2>1, StepParts, SameRows DEF Refuse, FilesTyped
<1>3. CASE ReserveDestination(c)
  <2>1. call[c].at = "reserve" /\ call[c].id \in Downloads /\ call[c].to \in Names
    BY <1>3 DEF ReserveDestination, Fits
  <2>2. Moves(c) /\ call'[c].at \in {"reserve", "protect", "refused"}
    <3>1. CASE Go(c, "protect")
      BY <2>1, <3>1, GoType DEF Steps
    <3>2. CASE Go(c, "refused")
      BY <2>1, <3>2, GoType DEF Steps
    <3>3. ASSUME NEW n \in Names, call' = [call EXCEPT ![c].to = n]
          PROVE  Moves(c) /\ call'[c].at = "reserve"
      <4> DEFINE r == [call[c] EXCEPT !.to = n]
      <4>1. call' = [call EXCEPT ![c] = r]
        BY <3>3
      <4>2. r \in CallRecords /\ r.at = "reserve" /\ r.id = call[c].id /\ r.to = n
        BY <2>1 DEF CallRecords
      <4>3. Fits(r)
        BY <2>1, <4>2 DEF Fits
      <4> HIDE DEF r
      <4> QED
        BY <4>1, <4>2, <4>3 DEF Moves, FilesTyped
    <3> QED
      BY <1>3, <3>1, <3>2, <3>3 DEF ReserveDestination
  <2>3. part' \subseteq Names
    BY <1>3, <2>1 DEF ReserveDestination, FilesTyped
  <2> QED
    BY <1>3, <2>2, <2>3, StepParts, SameRows DEF ReserveDestination, FilesTyped
<1>4. CASE SaveDownloadCookies(c)
  <2>1. call[c].at = "protect" /\ call[c].id \in Downloads /\ call[c].to \in Names
    BY <1>4 DEF SaveDownloadCookies, Fits
  <2>2. Moves(c) /\ call'[c].at \in {"insert", "refused"}
    BY <1>4, <2>1, GoType DEF SaveDownloadCookies, Steps
  <2>3. part' \subseteq Names /\ secret' \subseteq Downloads
    BY <1>4, <2>1 DEF SaveDownloadCookies, FilesTyped
  <2>4. budget' \in [DOMAIN Budget -> Nat]
    BY <1>4, FaultType DEF SaveDownloadCookies
  <2> QED
    BY <1>4, <2>2, <2>3, <2>4, StepParts, SameRows DEF SaveDownloadCookies, FilesTyped
<1>5. CASE InsertRow(c)
  <2>1. call[c].at = "insert" /\ call[c].id \in Downloads /\ call[c].to \in Names
    BY <1>5 DEF InsertRow, Fits
  <2>2. Moves(c) /\ call'[c].at \in {"created", "refused"}
    BY <1>5, <2>1, GoType DEF InsertRow, Steps
  <2>3. part' \subseteq Names /\ secret' \subseteq Downloads
    BY <1>5, <2>1 DEF InsertRow, FilesTyped
  <2>4. budget' \in [DOMAIN Budget -> Nat]
    BY <1>5, FaultType DEF InsertRow
  <2>5. RowsOK
    <3>1. CASE UNCHANGED row
      BY <3>1, SameRows
    <3>2. CASE row' = [row EXCEPT ![call[c].id] = [state |-> "open", name |-> call[c].to]]
      <4>1. Named([state |-> "open", name |-> call[c].to])
        BY <2>1 DEF Named, RowRecords
      <4> QED
        BY <2>1, <3>2, <4>1 DEF RowsOK, FilesTyped, Named
    <3> QED
      BY <1>5, <3>1, <3>2 DEF InsertRow
  <2> QED
    BY <1>5, <2>2, <2>3, <2>4, <2>5, StepParts DEF InsertRow, FilesTyped
<1> QED
  BY <1>1, <1>2, <1>3, <1>4, <1>5

LEMMA RestartStepType ==
  ASSUME FilesTyped, NEW c \in Callers, Cancel(c) \/ Unlink(c) \/ Restart(c) \/ Requeue(c)
  PROVE  StepOK(c)
<1> USE DEF ClaimSteps, CreateSteps, MoveSteps
<1> call[c] \in CallRecords /\ Fits(call[c])
  BY DEF FilesTyped
<1>1. CASE Cancel(c)
  <2> PICK d \in Downloads : /\ Open(d) /\ SetState(d, "cancelled")
                             /\ Begin(c, "unlink", d, row[d].name, NoName)
    BY <1>1 DEF Cancel
  <2>1. row[d].state # "none" /\ row[d].name \in Names
    BY DEF Open, FilesTyped, Named
  <2>2. RowsOK
    BY <2>1, SetStateType
  <2>3. Moves(c) /\ call'[c].at = "unlink"
    BY <2>1, BeginType
  <2> QED
    BY <1>1, <2>2, <2>3, StepParts DEF Cancel, FilesTyped
<1>2. CASE Unlink(c)
  <2>1. Moves(c) /\ call'[c].at = "idle"
    BY <1>2, EndType DEF Unlink
  <2>2. /\ part' \subseteq Names /\ secret' \subseteq Downloads
        /\ budget' \in [DOMAIN Budget -> Nat]
    BY <1>2, FaultType DEF Unlink, CleanUp, FilesTyped
  <2> QED
    BY <1>2, <2>1, <2>2, StepParts, SameRows DEF Unlink, FilesTyped
<1>3. CASE Restart(c)
  <2> PICK d \in Downloads : /\ row[d].state \in {"open", "cancelled"}
                             /\ part' = part \cup {row[d].name}
                             /\ Begin(c, "requeue", d, row[d].name, NoName)
    BY <1>3 DEF Restart
  <2>1. row[d].name \in Names
    BY DEF FilesTyped, Named
  <2>2. Moves(c) /\ call'[c].at = "requeue" /\ call'[c].id = d
    BY <2>1, BeginType DEF Begin, FilesTyped
  <2>3. part' \subseteq Names
    BY <2>1 DEF FilesTyped
  <2>4. UNCHANGED row
    BY <1>3 DEF Restart
  <2> QED
    BY <1>3, <2>2, <2>3, <2>4, StepParts, SameRows DEF Restart, FilesTyped
<1>4. CASE Requeue(c)
  <2>1. call[c].at = "requeue" /\ call[c].id \in Downloads /\ row[call[c].id].state # "none"
    BY <1>4 DEF Requeue, Fits, FilesTyped
  <2>2. RowsOK
    BY <1>4, <2>1, SetStateType, SameRows DEF Requeue
  <2>3. Moves(c) /\ call'[c].at = "idle"
    BY <1>4, EndType DEF Requeue
  <2>4. budget' \in [DOMAIN Budget -> Nat]
    BY <1>4, FaultType DEF Requeue
  <2> QED
    BY <1>4, <2>1, <2>2, <2>3, <2>4, StepParts DEF Requeue, FilesTyped
<1> QED
  BY <1>1, <1>2, <1>3, <1>4

LEMMA MovedToType ==
  ASSUME FilesTyped, NEW from \in Names, NEW to \in Names
  PROVE  MovedTo(from, to) \in [Names -> Downloads \cup {NoDownload}]
BY DEF FilesTyped, MovedTo

LEMMA MoveStepType ==
  ASSUME FilesTyped, NEW c \in Callers,
         Relocate(c) \/ MoveFile(c) \/ RemoveOriginal(c) \/ PersistPath(c) \/ Undo(c)
  PROVE  StepOK(c)
<1> USE DEF ClaimSteps, CreateSteps, MoveSteps
<1> call[c] \in CallRecords /\ Fits(call[c])
  BY DEF FilesTyped
<1>1. CASE Relocate(c)
  <2> PICK d \in Downloads, n \in Names : /\ Completed(d) /\ Begin(c, "move", d, row[d].name, n)
    BY <1>1 DEF Relocate
  <2>1. row[d].name \in Names
    BY DEF Completed, FilesTyped, Named
  <2>2. Moves(c) /\ call'[c].at = "move"
    BY <2>1, BeginType
  <2> QED
    BY <1>1, <2>2, StepParts, SameRows DEF Relocate, FilesTyped
<1>2. CASE MoveFile(c)
  <2>1. /\ call[c].at = "move"
        /\ call[c].id \in Downloads /\ call[c].from \in Names /\ call[c].to \in Names
    BY <1>2 DEF MoveFile, Fits
  <2>2. Moves(c) /\ call'[c].at \in {"persist", "refused", "copied"}
    <3>1. CASE Go(c, "persist")
      BY <2>1, <3>1, GoType DEF Steps
    <3>2. CASE Go(c, "refused")
      BY <2>1, <3>2, GoType DEF Steps
    <3>3. CASE Go(c, "copied")
      BY <2>1, <3>3, GoType DEF Steps
    <3> QED
      BY <1>2, <3>1, <3>2, <3>3 DEF MoveFile
  <2>3. file' \in [Names -> Downloads \cup {NoDownload}]
    <3>1. \/ UNCHANGED file
          \/ file' = MovedTo(call[c].from, call[c].to)
          \/ file' = [file EXCEPT ![call[c].to] = file[call[c].from]]
      BY <1>2 DEF MoveFile
    <3>2. MovedTo(call[c].from, call[c].to) \in [Names -> Downloads \cup {NoDownload}]
      BY <2>1, MovedToType
    <3>3. [file EXCEPT ![call[c].to] = file[call[c].from]] \in [Names -> Downloads \cup {NoDownload}]
      BY <2>1 DEF FilesTyped
    <3> QED
      BY <3>1, <3>2, <3>3 DEF FilesTyped
  <2>4. UNCHANGED <<part, row, secret, run, wanted, budget>>
    BY <1>2 DEF MoveFile
  <2> QED
    BY <2>1, <2>2, <2>3, <2>4, StepParts, SameRows DEF FilesTyped
<1>3. CASE RemoveOriginal(c)
  <2>1. /\ call[c].at = "copied"
        /\ call[c].id \in Downloads /\ call[c].from \in Names /\ call[c].to \in Names
    BY <1>3 DEF RemoveOriginal, Fits
  <2>2. Moves(c) /\ call'[c].at \in {"persist", "refused"}
    BY <1>3, <2>1, GoType DEF RemoveOriginal, Steps
  <2>3. file' \in [Names -> Downloads \cup {NoDownload}]
    BY <1>3, <2>1 DEF RemoveOriginal, FilesTyped
  <2>4. budget' \in [DOMAIN Budget -> Nat]
    BY <1>3, FaultType DEF RemoveOriginal
  <2> QED
    BY <1>3, <2>1, <2>2, <2>3, <2>4, StepParts, SameRows DEF RemoveOriginal, FilesTyped
<1>4. CASE PersistPath(c)
  <2>1. /\ call[c].at = "persist"
        /\ call[c].id \in Downloads /\ call[c].from \in Names /\ call[c].to \in Names
    BY <1>4 DEF PersistPath, Fits
  <2>2. Moves(c) /\ call'[c].at \in {"idle", "undo"}
    BY <1>4, <2>1, GoType, EndType DEF PersistPath, Steps
  <2>3. RowsOK
    <3>1. CASE UNCHANGED row
      BY <3>1, SameRows
    <3>2. CASE row' = [row EXCEPT ![call[c].id].name = call[c].to]
      <4> DEFINE r == [row[call[c].id] EXCEPT !.name = call[c].to]
      <4>1. row' = [row EXCEPT ![call[c].id] = r] /\ row[call[c].id] \in RowRecords
        BY <2>1, <3>2 DEF FilesTyped, Named
      <4>2. r \in RowRecords /\ r.state = row[call[c].id].state /\ r.name = call[c].to
        BY <2>1, <4>1 DEF RowRecords
      <4>3. Named(r)
        BY <2>1, <4>2 DEF Named
      <4> HIDE DEF r
      <4> QED
        BY <2>1, <4>1, <4>2, <4>3 DEF FilesTyped, RowsOK
    <3> QED
      BY <1>4, <3>1, <3>2 DEF PersistPath
  <2>4. budget' \in [DOMAIN Budget -> Nat]
    BY <1>4, FaultType DEF PersistPath
  <2> QED
    BY <1>4, <2>1, <2>2, <2>3, <2>4, StepParts DEF PersistPath, FilesTyped
<1>5. CASE Undo(c)
  <2>1. /\ call[c].at = "undo"
        /\ call[c].id \in Downloads /\ call[c].from \in Names /\ call[c].to \in Names
    BY <1>5 DEF Undo, Fits
  <2>2. Moves(c) /\ call'[c].at = "refused"
    BY <1>5, <2>1, GoType DEF Undo, Steps
  <2>3. file' \in [Names -> Downloads \cup {NoDownload}]
    BY <1>5, <2>1, MovedToType DEF Undo, FilesTyped
  <2>4. budget' \in [DOMAIN Budget -> Nat]
    BY <1>5, FaultType DEF Undo
  <2> QED
    BY <1>5, <2>1, <2>2, <2>3, <2>4, StepParts, SameRows DEF Undo, FilesTyped
<1> QED
  BY <1>1, <1>2, <1>3, <1>4, <1>5

LEMMA DeleteStepType ==
  ASSUME FilesTyped, NEW c \in Callers, DeleteCompletedFile(c) \/ DeleteRow(c) \/ Return(c)
  PROVE  FilesTyped' /\ \A b \in Callers \ {c} : call'[b] = call[b]
<1> USE DEF ClaimSteps, CreateSteps, MoveSteps
<1> call[c] \in CallRecords /\ Fits(call[c])
  BY DEF FilesTyped
<1>1. CASE DeleteCompletedFile(c)
  <2> PICK d \in Downloads : /\ Completed(d)
                             /\ file' = [file EXCEPT ![row[d].name] = NoDownload]
                             /\ wanted' = wanted \ {d}
                             /\ Begin(c, "forget", d, row[d].name, NoName)
    BY <1>1 DEF DeleteCompletedFile
  <2>1. row[d].state # "none" /\ row[d].name \in Names
    BY DEF Completed, FilesTyped, Named
  <2>2. Moves(c) /\ call'[c].at = "forget" /\ call'[c].id = d
    BY <2>1, BeginType DEF Begin, FilesTyped
  <2>3. /\ file' \in [Names -> Downloads \cup {NoDownload}] /\ wanted' \subseteq Downloads
    BY <2>1 DEF FilesTyped
  <2>4. call[c].at = "idle" /\ UNCHANGED <<part, row, secret, run, budget>>
    BY <1>1 DEF DeleteCompletedFile
  <2>5. StepOK(c)
    BY <2>1, <2>2, <2>3, <2>4, StepParts, SameRows DEF FilesTyped
  <2> QED
    BY <2>5 DEF StepOK
<1>2. CASE DeleteRow(c)
  <2>1. call[c].at = "forget" /\ call[c].id \in Downloads /\ row[call[c].id].state # "none"
    BY <1>2 DEF DeleteRow, Fits, FilesTyped
  <2>2. RowsOK
    BY <1>2, <2>1, SetStateType, SameRows DEF DeleteRow
  <2>3. Moves(c) /\ call'[c].at = "idle"
    BY <1>2, EndType DEF DeleteRow
  <2>4. budget' \in [DOMAIN Budget -> Nat]
    BY <1>2, FaultType DEF DeleteRow
  <2>5. StepOK(c)
    BY <1>2, <2>1, <2>2, <2>3, <2>4, StepParts DEF DeleteRow, FilesTyped
  <2> QED
    BY <2>5 DEF StepOK
<1>3. CASE Return(c)
  <2>1. Moves(c) /\ call'[c].at = "idle"
    BY <1>3, EndType DEF Return
  <2>2. UNCHANGED <<file, part, row, secret, run, wanted, budget>>
    BY <1>3 DEF Return
  <2> QED
    BY <2>1, <2>2 DEF FilesTyped, Moves
<1> QED
  BY <1>1, <1>2, <1>3

\* A step outside the calls.
LEMMA DownloadStepType ==
  ASSUME FilesTyped, NEW d \in Downloads, DownloadStep(d)
  PROVE  FilesTyped' /\ UNCHANGED call
<1> USE DEF Open, Completed
<1>1. UNCHANGED call
  BY DEF DownloadStep, StartRun, StopRun, Publish, RecordCompleted, CancelRun, RemoveRecord,
         RemoveHistory
<1>2. row[d].state # "none"
  BY DEF DownloadStep, StartRun, StopRun, Publish, RecordCompleted, CancelRun, RemoveRecord,
         RemoveHistory, FilesTyped
<1>3. row[d].name \in Names
  BY <1>2 DEF FilesTyped, Named
<1>4. RowsOK
  <2>1. CASE UNCHANGED row
    BY <2>1, SameRows
  <2>2. CASE SetState(d, "completed")
    BY <1>2, <2>2, SetStateType
  <2>3. CASE SetState(d, "cancelled")
    BY <1>2, <2>3, SetStateType
  <2>4. CASE SetState(d, "gone")
    BY <1>2, <2>4, SetStateType
  <2> QED
    BY <2>1, <2>2, <2>3, <2>4
    DEF DownloadStep, StartRun, StopRun, Publish, RecordCompleted, CancelRun, RemoveRecord,
        RemoveHistory
<1>5. /\ run' \in [Downloads -> {"idle", "running", "published"}]
      /\ \A e \in Downloads \ {d} : run'[e] = run[e]
  BY DEF DownloadStep, StartRun, StopRun, Publish, RecordCompleted, CancelRun, RemoveRecord,
         RemoveHistory, FilesTyped
<1>6. part' \subseteq Names /\ secret' \subseteq Downloads /\ wanted' \subseteq Downloads
  BY <1>3 DEF DownloadStep, StartRun, StopRun, Publish, RecordCompleted, CancelRun, CleanUp,
              RemoveRecord, RemoveHistory, FilesTyped
<1>7. file' \in [Names -> Downloads \cup {NoDownload}]
  BY <1>3 DEF DownloadStep, StartRun, StopRun, Publish, RecordCompleted, CancelRun, RemoveRecord,
              RemoveHistory, FilesTyped
<1>8. budget' \in [DOMAIN Budget -> Nat]
  BY FaultType DEF DownloadStep, StartRun, StopRun, Publish, RecordCompleted, CancelRun,
                   CleanUp, RemoveRecord, RemoveHistory, FilesTyped
<1>9. \A e \in Downloads : run'[e] # "idle" => row'[e].state # "none"
  BY <1>2, <1>4, <1>5 DEF FilesTyped, RowsOK
<1>10. \A b \in Callers :
         call'[b].at \in {"requeue", "forget"} => row'[call'[b].id].state # "none"
  <2> SUFFICES ASSUME NEW b \in Callers, call[b].at \in {"requeue", "forget"}
               PROVE  row'[call[b].id].state # "none"
    BY <1>1
  <2> call[b].id \in Downloads
    BY DEF FilesTyped, Fits
  <2> QED
    BY <1>4 DEF FilesTyped, RowsOK
<1> QED
  BY <1>1, <1>4, <1>5, <1>6, <1>7, <1>8, <1>9, <1>10 DEF FilesTyped, RowsOK

LEMMA CrashType ==
  ASSUME FilesTyped, CrashFiles
  PROVE  FilesTyped' /\ \A c \in Callers : call'[c].at = "idle"
<1>1. Idle \in CallRecords /\ Fits(Idle) /\ Idle.at = "idle"
  BY DEF Fits, Idle, CallRecords, Steps, CreateSteps, MoveSteps
<1>2. budget' \in [DOMAIN Budget -> Nat]
  BY FilesAssumption DEF CrashFiles, FilesTyped
<1>3. call' = [c \in Callers |-> Idle] /\ run' = [d \in Downloads |-> "idle"]
  BY DEF CrashFiles
<1>4. UNCHANGED <<file, part, row, secret, wanted>>
  BY DEF CrashFiles
<1>5. \A c \in Callers : call'[c] = Idle
  BY <1>3
<1>6. call' \in [Callers -> CallRecords]
  BY <1>1, <1>3
<1>7. run' \in [Downloads -> {"idle", "running", "published"}] /\ \A d \in Downloads : run'[d] = "idle"
  BY <1>3
<1> QED
  BY <1>1, <1>2, <1>4, <1>5, <1>6, <1>7 DEF FilesTyped

LEMMA FilesInitType ==
  ASSUME FilesInit
  PROVE  FilesTyped
<1>1. Idle \in CallRecords /\ Fits(Idle) /\ Idle.at = "idle"
  BY DEF Fits, Idle, CallRecords, Steps, CreateSteps, MoveSteps
<1>2. Named([state |-> "none", name |-> NoName])
  BY DEF Named, RowRecords
<1>3. budget \in [DOMAIN Budget -> Nat]
  BY FilesAssumption DEF FilesInit
<1>4. call = [c \in Callers |-> Idle] /\ row = [d \in Downloads |-> [state |-> "none", name |-> NoName]]
  BY DEF FilesInit
<1>5. call \in [Callers -> CallRecords] /\ \A c \in Callers : Fits(call[c]) /\ call[c].at = "idle"
  BY <1>1, <1>4
<1>6. row \in [Downloads -> RowRecords] /\ \A d \in Downloads : Named(row[d])
  BY <1>2, <1>4 DEF Named
<1> QED
  BY <1>3, <1>5, <1>6 DEF FilesInit, FilesTyped

(***************************************************************************)
(* The invariant: what is claimed is held by one caller, who is creating a *)
(* download, and becomes nothing before that caller settles it.            *)
(***************************************************************************)
StoreTyped ==
  /\ entry \in [Handoffs -> {"unused", "pending", "claimed", "gone"}]
  /\ expired \subseteq Handoffs
  /\ host \in [Requests -> {"idle", "forwarding", "accepted", "unavailable"}]
  /\ tries \in [Requests -> 0 .. Attempts]
  /\ claim \in [Callers -> Handoffs \cup {NoHandoff}]
  /\ confirmed \in [Handoffs -> SUBSET Downloads]

Occupied == \A c \in Callers : claim[c] # NoHandoff => call[c].at \in ClaimSteps

Held ==
  \A c \in Callers : claim[c] # NoHandoff =>
    /\ entry[claim[c]] \in {"claimed", "gone"} /\ confirmed[claim[c]] = {}
    /\ \A b \in Callers \ {c} : claim[b] # claim[c]

Unconfirmed == \A h \in Handoffs : entry[h] # "gone" => confirmed[h] = {}

Single == \A h \in Handoffs : confirmed[h] = {} \/ \E d \in Downloads : confirmed[h] = {d}

StoreInv == Held /\ ClaimsHeld /\ Unconfirmed /\ Single

HInv == FilesTyped /\ StoreTyped /\ Occupied /\ StoreInv

\* The parts of a step on the files.
LEMMA FilesStepType ==
  ASSUME FilesTyped, Occupied, FilesStep
  PROVE  FilesTyped' /\ Occupied'
<1>0. UNCHANGED claim
  BY DEF FilesStep
<1>1. CASE \E d \in Downloads : DownloadStep(d)
  BY <1>0, <1>1, DownloadStepType DEF Occupied
<1>2. ASSUME NEW c \in Callers, CallStep(c) \/ (claim[c] = NoHandoff /\ Return(c))
      PROVE  FilesTyped' /\ Occupied'
  <2>1. CASE DeleteCompletedFile(c) \/ DeleteRow(c)
    <3>1. call[c].at \notin ClaimSteps
      BY <2>1 DEF DeleteCompletedFile, DeleteRow, ClaimSteps, CreateSteps
    <3> QED
      BY <1>0, <2>1, <3>1, DeleteStepType DEF Occupied
  <2>2. CASE claim[c] = NoHandoff /\ Return(c)
    BY <1>0, <2>2, DeleteStepType DEF Occupied
  <2>3. CASE StepOK(c)
    BY <1>0, <2>3 DEF StepOK, Occupied
  <2> QED
    BY <1>2, <2>1, <2>2, <2>3, CreateStepType, RestartStepType, MoveStepType DEF CallStep
<1> QED
  BY <1>1, <1>2 DEF FilesStep

LEMMA SweptType ==
  ASSUME StoreTyped
  PROVE  /\ Swept \in [Handoffs -> {"unused", "pending", "claimed", "gone"}]
         /\ \A h \in Handoffs : \/ Swept[h] = entry[h]
                                \/ Swept[h] = "gone" /\ entry[h] \in {"pending", "claimed"}
BY DEF StoreTyped, Swept

\* Entries may only disappear.
LEMMA SweepKeeps ==
  ASSUME StoreTyped, StoreInv, UNCHANGED <<claim, confirmed>>,
         entry' \in [Handoffs -> {"unused", "pending", "claimed", "gone"}],
         \A h \in Handoffs : entry'[h] = entry[h] \/ (entry'[h] = "gone" /\ entry[h] # "gone")
  PROVE  StoreInv'
<1>1. Held'
  BY DEF Held, StoreInv, StoreTyped
<1>2. ClaimsHeld'
  BY DEF ClaimsHeld, StoreInv
<1>3. Unconfirmed' /\ Single'
  BY DEF Unconfirmed, Single, StoreInv
<1> QED
  BY <1>1, <1>2, <1>3 DEF StoreInv

LEMMA StoreUnchanged ==
  ASSUME HInv, UNCHANGED vars
  PROVE  HInv'
<1>1. FilesTyped'
  BY DEF HInv, FilesTyped, vars, filesVars
<1>2. StoreTyped' /\ Occupied'
  BY DEF HInv, StoreTyped, Occupied, vars, filesVars, storeVars, hostVars
<1>3. StoreInv'
  BY DEF HInv, StoreInv, Held, ClaimsHeld, Unconfirmed, Single, vars, storeVars
<1> QED
  BY <1>1, <1>2, <1>3 DEF HInv

LEMMA HInvInit ==
  ASSUME Init
  PROVE  HInv
<1>1. FilesTyped
  BY FilesInitType DEF Init
<1>2. StoreTyped
  BY HandoffAssumption DEF Init, StoreTyped
<1>3. \A c \in Callers : claim[c] = NoHandoff
  BY DEF Init
<1>4. \A h \in Handoffs : entry[h] = "unused" /\ confirmed[h] = {}
  BY DEF Init
<1> QED
  BY <1>1, <1>2, <1>3, <1>4
  DEF HInv, Occupied, StoreInv, Held, ClaimsHeld, Unconfirmed, Single

\* The steps of the native host.
LEMMA HostStep ==
  ASSUME HInv, NEW r \in Requests, ReadMessage(r) \/ Accept(r) \/ Unanswered(r) \/ GiveUp(r)
  PROVE  HInv'
<1>1. UNCHANGED <<filesVars, expired, claim, confirmed>>
  BY DEF ReadMessage, Accept, Unanswered, GiveUp, storeVars
<1>2. FilesTyped'
  BY <1>1 DEF HInv, FilesTyped, filesVars
<1>3. Occupied'
  BY <1>1 DEF HInv, Occupied, filesVars
<1>4. host' \in [Requests -> {"idle", "forwarding", "accepted", "unavailable"}]
  BY DEF ReadMessage, Accept, Unanswered, GiveUp, HInv, StoreTyped
<1>5. tries' \in [Requests -> 0 .. Attempts]
  <2>1. CASE UNCHANGED tries
    BY <2>1 DEF HInv, StoreTyped
  <2>2. CASE tries[r] > 0 /\ tries' = [tries EXCEPT ![r] = @ - 1]
    BY <2>2, HandoffAssumption DEF HInv, StoreTyped
  <2> QED
    BY <2>1, <2>2 DEF ReadMessage, Accept, Unanswered, GiveUp
<1>6. CASE UNCHANGED entry
  BY <1>1, <1>2, <1>3, <1>4, <1>5, <1>6
  DEF HInv, StoreTyped, StoreInv, Held, ClaimsHeld, Unconfirmed, Single
<1>7. ASSUME NEW h \in Handoffs, entry[h] = "unused", entry' = Put(h)
      PROVE  HInv'
  <2>1. /\ entry' \in [Handoffs -> {"unused", "pending", "claimed", "gone"}]
        /\ entry'[h] = "pending"
        /\ \A g \in Handoffs \ {h} : \/ entry'[g] = entry[g]
                                     \/ entry'[g] = "gone" /\ entry[g] \in {"pending", "claimed"}
    BY <1>7, SweptType DEF Put, HInv
  <2>2. StoreTyped'
    BY <1>1, <1>4, <1>5, <2>1 DEF HInv, StoreTyped
  <2>3. \A c \in Callers : claim[c] # h
    BY <1>7, HandoffAssumption DEF HInv, StoreInv, Held
  <2>4. Held'
    BY <1>1, <2>1, <2>3 DEF HInv, StoreInv, Held, StoreTyped
  <2>5. ClaimsHeld'
    BY <1>1, <2>1 DEF HInv, StoreInv, ClaimsHeld
  <2>6. Unconfirmed' /\ Single'
    BY <1>1, <1>7, <2>1 DEF HInv, StoreInv, Unconfirmed, Single
  <2> QED
    BY <1>2, <1>3, <2>2, <2>4, <2>5, <2>6 DEF HInv, StoreInv
<1> QED
  BY <1>6, <1>7 DEF ReadMessage, Accept, Unanswered, GiveUp, storeVars

LEMMA SweepStep ==
  ASSUME HInv, ListPending \/ \E h \in Handoffs : Expire(h) \/ Discard(h)
  PROVE  HInv'
<1>1. UNCHANGED <<filesVars, hostVars, claim, confirmed>>
  BY DEF Expire, Discard, ListPending
<1>2. FilesTyped' /\ Occupied'
  BY <1>1 DEF HInv, FilesTyped, Occupied, filesVars
<1>3. /\ entry' \in [Handoffs -> {"unused", "pending", "claimed", "gone"}]
      /\ \A h \in Handoffs : entry'[h] = entry[h] \/ (entry'[h] = "gone" /\ entry[h] # "gone")
  <2>1. CASE UNCHANGED entry
    BY <2>1 DEF HInv, StoreTyped
  <2>2. CASE entry' = Swept
    BY <2>2, SweptType DEF HInv
  <2>3. ASSUME NEW g \in Handoffs, Discard(g)
        PROVE  <1>3
    BY <2>3, SweptType DEF HInv, Discard
  <2> QED
    BY <2>1, <2>2, <2>3 DEF Expire, ListPending
<1>4. StoreInv'
  BY <1>1, <1>3, SweepKeeps DEF HInv
<1>5. expired' \subseteq Handoffs
  BY DEF HInv, StoreTyped, Expire, Discard, ListPending
<1> QED
  BY <1>1, <1>2, <1>3, <1>4, <1>5 DEF HInv, StoreTyped, hostVars

LEMMA CrashStep ==
  ASSUME HInv, Crash
  PROVE  HInv'
<1>1. FilesTyped'
  BY CrashType DEF HInv, Crash
<1>2. UNCHANGED <<expired, hostVars, confirmed>> /\ \A c \in Callers : claim'[c] = NoHandoff
  BY DEF Crash
<1>3. \A h \in Handoffs : entry'[h] = IF entry[h] = "unused" THEN "unused" ELSE "gone"
  BY DEF Crash
<1>4. StoreTyped'
  BY <1>2 DEF HInv, StoreTyped, Crash, hostVars
<1>5. Unconfirmed' /\ Single'
  BY <1>2, <1>3 DEF HInv, StoreInv, Unconfirmed, Single
<1>6. Held' /\ ClaimsHeld' /\ Occupied'
  BY <1>2, <1>3 DEF Held, ClaimsHeld, Occupied
<1> QED
  BY <1>1, <1>4, <1>5, <1>6 DEF HInv, StoreInv

\* Only a pending entry is claimed, so nobody else holds it.
LEMMA ClaimStep ==
  ASSUME HInv, NEW c \in Callers, Claim(c)
  PROVE  HInv'
<1> PICK h \in Handoffs : /\ MayClaim(h)
                          /\ entry' = [Swept EXCEPT ![h] = "claimed"]
                          /\ claim' = [claim EXCEPT ![c] = h]
  BY DEF Claim
<1>1. entry[h] = "pending"
  BY SweptType DEF MayClaim, HInv
<1>2. /\ entry' \in [Handoffs -> {"unused", "pending", "claimed", "gone"}]
      /\ entry'[h] = "claimed"
      /\ \A g \in Handoffs \ {h} : \/ entry'[g] = entry[g]
                                   \/ entry'[g] = "gone" /\ entry[g] \in {"pending", "claimed"}
  BY SweptType DEF HInv
<1>3. UNCHANGED <<file, part, row, secret, run, wanted, shared, budget, expired, hostVars, confirmed>>
  BY DEF Claim
<1>4. claim[c] = NoHandoff
  BY DEF Claim, HInv, Occupied, ClaimSteps, CreateSteps
<1>5. /\ claim' \in [Callers -> Handoffs \cup {NoHandoff}]
      /\ claim'[c] = h /\ \A b \in Callers \ {c} : claim'[b] = claim[b]
  BY DEF HInv, StoreTyped
<1>6. \A b \in Callers : claim[b] # h
  BY <1>1, HandoffAssumption DEF HInv, StoreInv, Held
<1>7. Moves(c) /\ call'[c].at = "confirm"
  BY GoType DEF Claim, HInv, Steps, CreateSteps, MoveSteps
<1>8. FilesTyped'
  <2>1. \A b \in Callers : call'[b].at \in {"requeue", "forget"} => b # c
    BY <1>7
  <2> QED
    BY <1>3, <1>7, <2>1 DEF HInv, FilesTyped, Moves
<1>9. Occupied'
  BY <1>5, <1>7 DEF HInv, Occupied, Moves, ClaimSteps
<1>10. StoreTyped'
  BY <1>2, <1>3, <1>5 DEF HInv, StoreTyped, hostVars
<1>11. Held'
  <2>1. confirmed[h] = {} /\ h # NoHandoff
    BY <1>1, HandoffAssumption DEF HInv, StoreInv, Unconfirmed
  <2>2. ASSUME NEW b \in Callers, claim'[b] # NoHandoff
        PROVE  /\ entry'[claim'[b]] \in {"claimed", "gone"} /\ confirmed'[claim'[b]] = {}
               /\ \A a \in Callers \ {b} : claim'[a] # claim'[b]
    <3>1. CASE b = c
      BY <1>2, <1>3, <1>5, <1>6, <2>1, <3>1
    <3>2. CASE b # c
      <4>1. /\ claim'[b] = claim[b] /\ claim[b] \in Handoffs \ {h}
            /\ entry[claim[b]] \in {"claimed", "gone"} /\ confirmed[claim[b]] = {}
            /\ \A a \in Callers \ {b} : claim[a] # claim[b]
        BY <1>5, <1>6, <2>2, <3>2 DEF HInv, StoreInv, Held, StoreTyped
      <4> QED
        BY <1>2, <1>3, <1>5, <4>1
    <3> QED
      BY <3>1, <3>2
  <2> QED
    BY <2>2 DEF Held
<1>12. ClaimsHeld'
  <2>1. ASSUME NEW g \in Handoffs, entry'[g] = "claimed"
        PROVE  \E b \in Callers : claim'[b] = g
    <3>1. CASE g = h
      BY <1>5, <3>1
    <3>2. CASE g # h
      <4> PICK b \in Callers : claim[b] = g
        BY <1>2, <2>1, <3>2 DEF HInv, StoreInv, ClaimsHeld
      <4>1. b # c
        BY <1>4, HandoffAssumption
      <4> QED
        BY <1>5, <4>1
    <3> QED
      BY <3>1, <3>2
  <2> QED
    BY <2>1 DEF ClaimsHeld
<1>13. Unconfirmed' /\ Single'
  BY <1>1, <1>2, <1>3 DEF HInv, StoreInv, Unconfirmed, Single
<1> QED
  BY <1>8, <1>9, <1>10, <1>11, <1>12, <1>13 DEF HInv, StoreInv

\* The caller that settles is the only one that held the entry.
LEMMA SettleStep ==
  ASSUME HInv, NEW c \in Callers, Settle(c)
  PROVE  HInv'
<1> DEFINE h == claim[c]
<1>1. h \in Handoffs /\ entry[h] \in {"claimed", "gone"} /\ confirmed[h] = {}
  BY DEF Settle, HInv, StoreTyped, StoreInv, Held
<1>2. \A b \in Callers \ {c} : claim[b] # h
  BY DEF Settle, HInv, StoreInv, Held
<1>3. /\ claim' \in [Callers -> Handoffs \cup {NoHandoff}] /\ claim'[c] = NoHandoff
      /\ \A b \in Callers \ {c} : claim'[b] = claim[b]
  BY DEF Settle, HInv, StoreTyped
<1>4. UNCHANGED <<expired, hostVars>>
  BY DEF Settle
<1>5. FilesTyped' /\ \A b \in Callers \ {c} : call'[b] = call[b]
  BY DeleteStepType DEF Settle, HInv
<1>6. Occupied'
  BY <1>3, <1>5 DEF HInv, Occupied
<1>7. /\ entry' \in [Handoffs -> {"unused", "pending", "claimed", "gone"}]
      /\ confirmed' \in [Handoffs -> SUBSET Downloads]
      /\ entry'[h] \in {"pending", "gone"}
      /\ entry'[h] # "gone" => confirmed'[h] = {}
      /\ confirmed'[h] = {} \/ \E d \in Downloads : confirmed'[h] = {d}
      /\ \A g \in Handoffs \ {h} :
           /\ \/ entry'[g] = entry[g]
              \/ entry'[g] = "gone" /\ entry[g] \in {"pending", "claimed"}
           /\ confirmed'[g] = confirmed[g]
  <2>1. CASE call[c].at = "created"
    <3>1. call[c].id \in Downloads
      BY <2>1 DEF HInv, FilesTyped, Fits
    <3>2. /\ entry' = [entry EXCEPT ![h] = "gone"]
          /\ confirmed' = [confirmed EXCEPT ![h] = @ \cup {call[c].id}]
      BY <2>1 DEF Settle, Complete
    <3> QED
      BY <1>1, <3>1, <3>2 DEF HInv, StoreTyped
  <2>2. CASE call[c].at = "refused"
    <3>1. entry' = Release(h) /\ UNCHANGED confirmed
      BY <2>2 DEF Settle
    <3>2. Swept[h] \in {"claimed", "gone"}
      BY <1>1, SweptType DEF HInv
    <3>3. /\ entry' \in [Handoffs -> {"unused", "pending", "claimed", "gone"}]
          /\ entry'[h] \in {"pending", "gone"}
          /\ \A g \in Handoffs \ {h} : entry'[g] = Swept[g]
      BY <1>1, <3>1, <3>2, SweptType DEF HInv, Release
    <3> QED
      BY <1>1, <3>1, <3>3, SweptType DEF HInv, StoreTyped
  <2> QED
    BY <2>1, <2>2 DEF Settle, Return
<1> HIDE DEF h
<1>8. StoreTyped'
  BY <1>3, <1>4, <1>7 DEF HInv, StoreTyped, hostVars
<1>9. Held'
  <2>1. ASSUME NEW b \in Callers, claim'[b] # NoHandoff
        PROVE  /\ entry'[claim'[b]] \in {"claimed", "gone"} /\ confirmed'[claim'[b]] = {}
               /\ \A a \in Callers \ {b} : claim'[a] # claim'[b]
    <3>1. b # c /\ claim'[b] = claim[b] /\ claim[b] \in Handoffs \ {h}
      BY <1>2, <1>3, <2>1 DEF HInv, StoreTyped
    <3>2. /\ entry[claim[b]] \in {"claimed", "gone"} /\ confirmed[claim[b]] = {}
          /\ \A a \in Callers \ {b} : claim[a] # claim[b]
      BY <2>1, <3>1 DEF HInv, StoreInv, Held
    <3> QED
      BY <1>3, <1>7, <2>1, <3>1, <3>2
  <2> QED
    BY <2>1 DEF Held
<1>10. ClaimsHeld'
  <2>1. ASSUME NEW g \in Handoffs, entry'[g] = "claimed"
        PROVE  \E b \in Callers : claim'[b] = g
    <3>1. g # h /\ entry[g] = "claimed"
      BY <1>7, <2>1
    <3> PICK b \in Callers : claim[b] = g
      BY <3>1 DEF HInv, StoreInv, ClaimsHeld
    <3> QED
      BY <1>3, <3>1 DEF h
  <2> QED
    BY <2>1 DEF ClaimsHeld
<1>11. Unconfirmed' /\ Single'
  <2>1. \A g \in Handoffs : entry'[g] # "gone" => confirmed'[g] = {}
    BY <1>1, <1>7 DEF HInv, StoreInv, Unconfirmed
  <2>2. \A g \in Handoffs : confirmed'[g] = {} \/ \E d \in Downloads : confirmed'[g] = {d}
    BY <1>1, <1>7 DEF HInv, StoreInv, Single
  <2> QED
    BY <2>1, <2>2 DEF Unconfirmed, Single
<1> QED
  BY <1>5, <1>6, <1>8, <1>9, <1>10, <1>11 DEF HInv, StoreInv

LEMMA HInvNext ==
  ASSUME HInv, [Next]_vars
  PROVE  HInv'
<1>1. CASE FilesStep
  <2>1. FilesTyped' /\ Occupied'
    BY <1>1, FilesStepType DEF HInv
  <2>2. StoreTyped' /\ StoreInv'
    BY <1>1 DEF FilesStep, HInv, StoreTyped, StoreInv, Held, ClaimsHeld, Unconfirmed, Single,
                storeVars, hostVars
  <2> QED
    BY <2>1, <2>2 DEF HInv
<1>2. CASE UNCHANGED vars
  BY <1>2, StoreUnchanged
<1> QED
  BY <1>1, <1>2, HostStep, SweepStep, CrashStep, ClaimStep, SettleStep DEF Next

\* The invariant holds of every behaviour.
THEOREM HandoffInvariant == Spec => []HInv
BY HInvInit, HInvNext, PTL DEF Spec

\* What has been shared stays so.
LEMMA SharedStays ==
  ASSUME shared \in BOOLEAN, [Next]_vars
  PROVE  shared' \in BOOLEAN /\ (shared => shared')
<1>1. ASSUME NEW n, NEW d, Uses(n, d)
      PROVE  shared' \in BOOLEAN /\ (shared => shared')
  BY <1>1 DEF Uses
<1>2. CASE UNCHANGED shared
  BY <1>2
<1>3. ASSUME NEW c \in Callers, CallStep(c)
      PROVE  UNCHANGED shared \/ \E n, d : Uses(n, d)
  <2>1. CASE ReserveDestination(c) \/ Restart(c) \/ Relocate(c)
    BY <2>1 DEF ReserveDestination, Restart, Relocate
  <2>2. CASE Choose(c) \/ Refuse(c) \/ SaveDownloadCookies(c) \/ InsertRow(c)
             \/ Cancel(c) \/ Unlink(c) \/ Requeue(c)
    BY <2>2 DEF Choose, Refuse, SaveDownloadCookies, InsertRow, Cancel, Unlink, Requeue
  <2>3. CASE MoveFile(c) \/ RemoveOriginal(c) \/ PersistPath(c) \/ Undo(c)
             \/ DeleteCompletedFile(c) \/ DeleteRow(c)
    BY <2>3 DEF MoveFile, RemoveOriginal, PersistPath, Undo, DeleteCompletedFile, DeleteRow
  <2> QED
    BY <1>3, <2>1, <2>2, <2>3 DEF CallStep
<1>4. ASSUME NEW d \in Downloads, DownloadStep(d)
      PROVE  UNCHANGED shared
  BY <1>4 DEF DownloadStep, StartRun, StopRun, Publish, RecordCompleted, CancelRun, RemoveRecord,
              RemoveHistory
<1>5. CASE FilesStep
  BY <1>1, <1>2, <1>3, <1>4, <1>5 DEF FilesStep, Return
<1>6. CASE UNCHANGED filesVars
  BY <1>2, <1>6 DEF filesVars
<1>7. UNCHANGED vars \/ UNCHANGED filesVars \/ FilesStep \/ UNCHANGED shared
  BY DEF vars, Next, ReadMessage, Accept, Unanswered, GiveUp, Expire, Discard, Claim, Settle,
         Return, ListPending, Crash, CrashFiles
<1> QED
  BY <1>2, <1>5, <1>6, <1>7 DEF vars

\* Every state of Handoff has its types: every step of an operation has the download and
\* the names it works on, and no row that names a file loses its name.
THEOREM HandoffTypeCorrect == Spec => []TypeOK
<1>1. HInv /\ shared \in BOOLEAN => TypeOK
  BY DEF HInv, FilesTyped, StoreTyped, TypeOK, FilesTypeOK, CallRecords, RowRecords
<1>2. Init => shared \in BOOLEAN
  BY DEF Init, FilesInit
<1>3. shared \in BOOLEAN /\ [Next]_vars => (shared \in BOOLEAN)'
  BY SharedStays
<1> QED
  BY <1>1, <1>2, <1>3, HandoffInvariant, PTL DEF Spec

\* A request that is parked as claimed is in the hands of a caller who will settle it
\* (pending.go Claim, and the release that ConfirmBrowserDownload defers).
THEOREM ClaimsAreHeld == Spec => []ClaimsHeld
<1>1. HInv => ClaimsHeld
  BY DEF HInv, StoreInv
<1> QED
  BY <1>1, HandoffInvariant, PTL

\* One handoff becomes at most one download, however many callers confirm it and however
\* it expires and is swept meanwhile.
THEOREM OneDownloadPerHandoff == Spec => []ConfirmedOnce
<1>1. HInv => ConfirmedOnce
  <2> SUFFICES ASSUME HInv, NEW h \in Handoffs
               PROVE  Cardinality(confirmed[h]) <= 1
    BY DEF ConfirmedOnce
  <2>1. CASE confirmed[h] = {}
    BY <2>1, FS_EmptySet
  <2>2. ASSUME NEW d \in Downloads, confirmed[h] = {d}
        PROVE  Cardinality(confirmed[h]) <= 1
    <3>1. Cardinality({d}) = 1
      BY FS_Singleton
    <3> QED
      BY <2>2, <3>1
  <2> QED
    BY <2>1, <2>2 DEF HInv, StoreInv, Single
<1> QED
  BY <1>1, HandoffInvariant, PTL

\* A handoff that was confirmed, discarded or swept never returns to the list, not even
\* when a confirmation that held it fails afterwards.
THEOREM GoneHandoffsStayGone == Spec => GoneForGood
<1>1. HInv /\ [Next]_vars => [\A h \in Handoffs : entry[h] = "gone" => entry'[h] = "gone"]_vars
  <2> SUFFICES ASSUME HInv, Next, NEW h \in Handoffs, entry[h] = "gone"
               PROVE  entry'[h] = "gone"
    OBVIOUS
  <2>1. Swept[h] = "gone" /\ StoreTyped /\ DOMAIN Swept = Handoffs /\ DOMAIN entry = Handoffs
    BY SweptType DEF HInv, StoreTyped, Swept
  <2>2. CASE UNCHANGED entry
    BY <2>2
  <2>3. ASSUME NEW r \in Requests, Accept(r)
        PROVE  entry'[h] = "gone"
    BY <2>1, <2>3 DEF Accept, Put
  <2>4. ASSUME NEW g \in Handoffs, Discard(g)
        PROVE  entry'[h] = "gone"
    BY <2>1, <2>4 DEF Discard
  <2>5. ASSUME NEW c \in Callers, Claim(c)
        PROVE  entry'[h] = "gone"
    BY <2>1, <2>5 DEF Claim, MayClaim
  <2>6. ASSUME NEW c \in Callers, Settle(c)
        PROVE  entry'[h] = "gone"
    BY <2>1, <2>6 DEF Settle, Complete, Release
  <2>7. CASE ListPending \/ Crash
    BY <2>1, <2>7 DEF ListPending, Crash
  <2> QED
    BY <2>2, <2>3, <2>4, <2>5, <2>6, <2>7
    DEF Next, ReadMessage, Unanswered, GiveUp, Expire, FilesStep, storeVars
<1> QED
  BY <1>1, HandoffInvariant, PTL DEF Spec, GoneForGood
=============================================================================

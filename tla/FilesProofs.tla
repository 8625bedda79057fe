----------------------------- MODULE FilesProofs -----------------------------
(***************************************************************************)
(* Proofs about Files, under the operations of Handoff, for any number of  *)
(* downloads, names and callers.  What the rows, the runs and the calls    *)
(* have to do with each other, and that nothing is left behind, holds      *)
(* whatever names are chosen.  As long as no name has come into the use of *)
(* two downloads, files follow the rows and the calls that have their      *)
(* names.                                                                  *)
(***************************************************************************)
EXTENDS HandoffProofs

(***************************************************************************)
(* The invariant.                                                          *)
(***************************************************************************)
\* Calls are about different downloads.
Alone == \A b, c \in Callers : b # c /\ call[b].id = call[c].id => call[b].id = NoDownload

\* The row of a call is as the call found it.
RowFits(c) ==
  LET r == row[call[c].id]
  IN /\ call[c].at \in CreateSteps => r.state = "none"
     /\ call[c].at = "unlink" => r.state = "cancelled" /\ r.name = call[c].from
     /\ call[c].at = "requeue" => r.state \in {"open", "cancelled"} /\ r.name = call[c].from
     /\ call[c].at \in MoveSteps \cup {"forget"} =>
          r.state = "completed" /\ r.name = call[c].from

\* Only an open row that nobody works on has a run.
RunFits(d) == run[d] # "idle" => row[d].state = "open" /\ Untouched(d)

RowInv ==
  /\ Alone
  /\ \A c \in Callers : RowFits(c)
  /\ \A d \in Downloads : RunFits(d)

Live(d) == row[d].state \in {"open", "completed"}

Picks(c) == call[c].at \in Holding

\* No name is that of two rows, nor of a row and of the call about another, nor of two
\* calls.
OwnNames ==
  /\ \A d, e \in Downloads : d # e /\ Live(d) /\ Live(e) => row[d].name # row[e].name
  /\ \A c \in Callers, d \in Downloads :
       Picks(c) /\ Live(d) /\ d # call[c].id => row[d].name # Target(c)
  /\ \A b, c \in Callers : b # c /\ Picks(b) /\ Picks(c) => Target(b) # Target(c)

\* At a name lies the file of the download it belongs to, or none.
OwnFiles == \A d \in Downloads : Live(d) => file[row[d].name] \in {NoDownload, d}

FileFits(c) ==
  LET r == call[c]
  IN /\ r.at \in {"protect", "insert"} => file[r.to] \in {NoDownload, r.id}
     /\ r.at = "requeue" => file[r.from] \in {NoDownload, r.id}
     /\ r.at = "move" => file[r.from] = r.id /\ (r.from # r.to => Empty(r.to))
     /\ r.at = "copied" => r.from # r.to /\ file[r.from] = r.id /\ file[r.to] = r.id
     /\ r.at \in {"persist", "undo"} => file[r.to] = r.id /\ (r.from # r.to => Empty(r.from))

HasPublished(d) == run[d] = "published" => file[row[d].name] = d

NameInv ==
  /\ OwnNames /\ OwnFiles
  /\ \A c \in Callers : FileFits(c)
  /\ \A d \in Downloads : HasPublished(d)

\* What has failed so far.
Counted ==
  /\ budget["fault"] <= Budget["fault"] /\ budget["crash"] <= Budget["crash"]
  /\ \A c \in Callers : call[c].at = "undo" /\ NoCrash => budget["fault"] < Budget["fault"]

Found ==
  NoCrash /\ budget["fault"] + 1 >= Budget["fault"] =>
    \A d \in wanted : row[d].state = "completed" =>
      \/ file[row[d].name] = d
      \/ \E c \in Callers : call[c].id = d /\ call[c].at \in {"persist", "undo"}

\* Whose a temporary file, and whose saved cookies, may be: that of a run goes when the
\* file is published.
RowKeeps(d) == Keeps(d) /\ run[d] # "published"

CallKeeps(c, n) ==
  \/ call[c].at \in {"protect", "insert"} /\ call[c].to = n
  \/ call[c].at \in {"requeue", "unlink"} /\ call[c].from = n

PartKept(n) ==
  (\E d \in Downloads : RowKeeps(d) /\ row[d].name = n) \/ (\E c \in Callers : CallKeeps(c, n))

CallProtects(c, d) == call[c].at \in {"insert", "unlink"} /\ call[c].id = d

SecretKept(d) == Keeps(d) \/ \E c \in Callers : CallProtects(c, d)

AllKept == (\A n \in part : PartKept(n)) /\ (\A d \in secret : SecretKept(d))

FInv ==
  /\ RowInv /\ Counted /\ (NoCrash => AllKept)
  /\ ~shared => NameInv /\ FilesSurvive /\ Found

(***************************************************************************)
(* The fields of a call after a step.                                      *)
(***************************************************************************)
Others(c) == \A b \in Callers \ {c} : call'[b] = call[b]

LEMMA Went ==
  ASSUME FilesTyped, NEW c \in Callers, NEW step, Go(c, step)
  PROVE  /\ Others(c) /\ call'[c].at = step
         /\ call'[c].id = call[c].id /\ call'[c].from = call[c].from /\ call'[c].to = call[c].to
BY DEF FilesTyped, CallRecords, Go, Others

LEMMA Ended ==
  ASSUME FilesTyped, NEW c \in Callers, End(c)
  PROVE  Others(c) /\ call'[c].at = "idle" /\ call'[c].id = NoDownload
BY DEF FilesTyped, CallRecords, End, Others, Idle

LEMMA Began ==
  ASSUME FilesTyped, NEW c \in Callers, NEW step, NEW d, NEW from, NEW to,
         Begin(c, step, d, from, to)
  PROVE  /\ Others(c) /\ call'[c].at = step
         /\ call'[c].id = d /\ call'[c].from = from /\ call'[c].to = to
BY DEF FilesTyped, CallRecords, Begin, Others

\* A call that works on a download is not idle, and its fields are typed.
LEMMA CallFacts ==
  ASSUME FilesTyped, NEW c \in Callers
  PROVE  /\ call[c].at \in Steps
         /\ call[c].at \in CreateSteps => call[c].id \in Downloads /\ call[c].to \in Names
         /\ call[c].at \in MoveSteps =>
              call[c].id \in Downloads /\ call[c].from \in Names /\ call[c].to \in Names
         /\ call[c].at \in {"unlink", "requeue", "forget"} =>
              call[c].id \in Downloads /\ call[c].from \in Names
BY DEF FilesTyped, Fits, CallRecords

\* A live row has a name.
LEMMA LiveNamed ==
  ASSUME FilesTyped, NEW d \in Downloads, Live(d)
  PROVE  row[d].name \in Names
BY DEF FilesTyped, Named, Live

\* A call that gives a name knows it, and the download.
LEMMA PickFacts ==
  ASSUME FilesTyped, NEW c \in Callers, Picks(c)
  PROVE  call[c].id \in Downloads /\ Target(c) \in Names
BY CallFacts DEF Picks, Holding, Target, CreateSteps, MoveSteps

\* What is common to the steps of a call: only one call goes on.
LEMMA CallStepOthers ==
  ASSUME FilesTyped, NEW c \in Callers, CallStep(c)
  PROVE  Others(c) /\ UNCHANGED run /\ (call'[c].at = "undo" => Fails)
<1>1. CASE Choose(c) \/ Cancel(c) \/ Restart(c) \/ Relocate(c) \/ DeleteCompletedFile(c)
  BY <1>1, Began DEF Choose, Cancel, Restart, Relocate, DeleteCompletedFile
<1>2. CASE Refuse(c) \/ SaveDownloadCookies(c) \/ InsertRow(c)
  BY <1>2, Went DEF Refuse, SaveDownloadCookies, InsertRow
<1>3. CASE ReserveDestination(c)
  <2>1. \A n : call' = [call EXCEPT ![c].to = n] => Others(c) /\ call'[c].at = call[c].at
    BY DEF FilesTyped, CallRecords, Others
  <2> QED
    BY <1>3, <2>1, Went DEF ReserveDestination
<1>4. CASE Unlink(c) \/ Requeue(c) \/ DeleteRow(c)
  BY <1>4, Ended DEF Unlink, Requeue, DeleteRow
<1>5. CASE MoveFile(c) \/ RemoveOriginal(c) \/ Undo(c)
  BY <1>5, Went DEF MoveFile, RemoveOriginal, Undo
<1>6. CASE PersistPath(c)
  BY <1>6, Went, Ended DEF PersistPath
<1> QED
  BY <1>1, <1>2, <1>3, <1>4, <1>5, <1>6 DEF CallStep

(***************************************************************************)
(* Rows, runs and calls.                                                   *)
(***************************************************************************)
\* A step of a call about d: it looks at the row of d only, which has no run.
LEMMA CallKeepsRows ==
  ASSUME FilesTyped, RowInv, NEW c \in Callers, Others(c), UNCHANGED run,
         NEW d \in Downloads, run[d] = "idle", \A b \in Callers \ {c} : call[b].id # d,
         call'[c].id \in {d, NoDownload},
         \A e \in Downloads \ {d} : row'[e] = row[e],
         RowFits(c)'
  PROVE  RowInv'
<1>1. Alone'
  BY FilesAssumption DEF RowInv, Alone, Others
<1>2. ASSUME NEW b \in Callers \ {c} PROVE RowFits(b)'
  <2>1. call'[b] = call[b] /\ RowFits(b)
    BY DEF RowInv, Others
  <2>2. call[b].at \in CreateSteps \cup MoveSteps \cup {"unlink", "requeue", "forget"} =>
          row'[call[b].id] = row[call[b].id]
    BY CallFacts
  <2> QED
    BY <2>1, <2>2 DEF RowFits, CreateSteps, MoveSteps
<1>3. \A e \in Downloads : RunFits(e)'
  BY FilesAssumption DEF RowInv, RunFits, Others, Untouched
<1> QED
  BY <1>1, <1>2, <1>3 DEF RowInv

\* The download of a call has no run and no other call.
LEMMA CallHasRow ==
  ASSUME FilesTyped, RowInv, NEW c \in Callers, call[c].id \in Downloads
  PROVE  run[call[c].id] = "idle" /\ \A b \in Callers \ {c} : call[b].id # call[c].id
BY FilesAssumption DEF RowInv, RunFits, Untouched, Alone

\* A call that is not about a download, or begins to be about one.
LEMMA BeginKeepsRows ==
  ASSUME FilesTyped, RowInv, NEW c \in Callers,
         Choose(c) \/ Cancel(c) \/ Restart(c) \/ Relocate(c) \/ DeleteCompletedFile(c)
  PROVE  RowInv'
<1> USE DEF CreateSteps, MoveSteps
<1>1. UNCHANGED run
  BY DEF Choose, Cancel, Restart, Relocate, DeleteCompletedFile
<1>2. ASSUME NEW d \in Downloads, Untouched(d), run[d] = "idle", Others(c), call'[c].id = d,
             \A e \in Downloads \ {d} : row'[e] = row[e], RowFits(c)'
      PROVE  RowInv'
  BY <1>1, <1>2, CallKeepsRows DEF Untouched
<1>3. CASE Choose(c)
  <2> PICK d \in Downloads, n \in Names :
           row[d].state = "none" /\ Untouched(d) /\ Begin(c, "reserve", d, NoName, n)
    BY <1>3 DEF Choose
  <2>1. Others(c) /\ call'[c].at = "reserve" /\ call'[c].id = d
    BY Began
  <2>2. run[d] = "idle" /\ UNCHANGED row
    BY <1>3 DEF Choose, RowInv, RunFits
  <2>3. RowFits(c)'
    BY <2>1, <2>2 DEF RowFits
  <2> QED
    BY <1>2, <2>1, <2>2, <2>3
<1>4. CASE Cancel(c)
  <2> PICK d \in Downloads : /\ Open(d) /\ run[d] = "idle" /\ SetState(d, "cancelled")
                             /\ Begin(c, "unlink", d, row[d].name, NoName)
    BY <1>4 DEF Cancel
  <2>1. /\ Others(c) /\ call'[c].at = "unlink" /\ call'[c].id = d /\ call'[c].from = row[d].name
    BY Began
  <2>2. /\ row'[d].state = "cancelled" /\ row'[d].name = row[d].name
        /\ \A e \in Downloads \ {d} : row'[e] = row[e]
    BY DEF SetState, FilesTyped, RowRecords
  <2>3. RowFits(c)'
    BY <2>1, <2>2 DEF RowFits
  <2> QED
    BY <1>2, <2>1, <2>2, <2>3 DEF Open
<1>5. CASE Restart(c)
  <2> PICK d \in Downloads : /\ row[d].state \in {"open", "cancelled"}
                             /\ Untouched(d) /\ run[d] = "idle"
                             /\ Begin(c, "requeue", d, row[d].name, NoName)
    BY <1>5 DEF Restart
  <2>1. /\ Others(c) /\ call'[c].at = "requeue" /\ call'[c].id = d /\ call'[c].from = row[d].name
    BY Began
  <2>2. UNCHANGED row
    BY <1>5 DEF Restart
  <2>3. RowFits(c)'
    BY <2>1, <2>2 DEF RowFits
  <2> QED
    BY <1>2, <2>1, <2>2, <2>3
<1>6. CASE Relocate(c) \/ DeleteCompletedFile(c)
  <2> PICK d \in Downloads, step \in {"move", "forget"} :
           Completed(d) /\ \E n : Begin(c, step, d, row[d].name, n)
    BY <1>6 DEF Relocate, DeleteCompletedFile
  <2>1. /\ Others(c) /\ call'[c].at \in {"move", "forget"} /\ call'[c].id = d
        /\ call'[c].from = row[d].name
    BY Began
  <2>2. UNCHANGED row /\ run[d] = "idle"
    BY <1>6 DEF Relocate, DeleteCompletedFile, Completed, RowInv, RunFits
  <2>3. RowFits(c)'
    BY <2>1, <2>2 DEF RowFits, Completed
  <2> QED
    BY <1>2, <2>1, <2>2, <2>3 DEF Completed
<1> QED
  BY <1>3, <1>4, <1>5, <1>6

\* A call goes on with the download it has, or is over.
LEMMA ContinueKeepsRows ==
  ASSUME FilesTyped, RowInv, NEW c \in Callers, call[c].id \in Downloads, CallStep(c),
         call[c].at \notin {"idle", "confirm"}
  PROVE  RowInv'
<1> USE DEF CreateSteps, MoveSteps
<1>1. Others(c) /\ UNCHANGED run
  BY CallStepOthers
<1>2. run[call[c].id] = "idle" /\ \A b \in Callers \ {c} : call[b].id # call[c].id
  BY CallHasRow
<1>3. RowFits(c)
  BY DEF RowInv
<1>4. ASSUME call'[c].id \in {call[c].id, NoDownload},
             \A e \in Downloads \ {call[c].id} : row'[e] = row[e], RowFits(c)'
      PROVE  RowInv'
  BY <1>1, <1>2, <1>4, CallKeepsRows
<1>5. CASE ReserveDestination(c) \/ SaveDownloadCookies(c)
  <2>1. call[c].at \in {"reserve", "protect"} /\ UNCHANGED row
    BY <1>5 DEF ReserveDestination, SaveDownloadCookies
  <2>2. call'[c].id = call[c].id /\ call'[c].at \in {"reserve", "protect", "insert", "refused"}
    <3>1. \A n : call' = [call EXCEPT ![c].to = n] =>
            call'[c].at = call[c].at /\ call'[c].id = call[c].id
      BY DEF FilesTyped, CallRecords
    <3> QED
      BY <1>5, <3>1, Went DEF ReserveDestination, SaveDownloadCookies
  <2>3. RowFits(c)'
    BY <1>3, <2>1, <2>2 DEF RowFits
  <2> QED
    BY <1>4, <2>1, <2>2, <2>3
<1>6. CASE InsertRow(c)
  <2>1. call'[c].id = call[c].id /\ call'[c].at \in {"created", "refused"}
    BY <1>6, Went DEF InsertRow
  <2>2. \A e \in Downloads \ {call[c].id} : row'[e] = row[e]
    BY <1>6 DEF InsertRow, FilesTyped
  <2>3. RowFits(c)'
    BY <2>1 DEF RowFits
  <2> QED
    BY <1>4, <2>1, <2>2, <2>3
<1>7. CASE Unlink(c) \/ Requeue(c) \/ DeleteRow(c)
  <2>1. call'[c].id = NoDownload /\ call'[c].at = "idle"
    BY <1>7, Ended DEF Unlink, Requeue, DeleteRow
  <2>2. \A e \in Downloads \ {call[c].id} : row'[e] = row[e]
    BY <1>7 DEF Unlink, Requeue, DeleteRow, SetState, FilesTyped
  <2>3. RowFits(c)'
    BY <2>1 DEF RowFits
  <2> QED
    BY <1>4, <2>1, <2>2, <2>3
<1>8. CASE MoveFile(c) \/ RemoveOriginal(c) \/ Undo(c) \/ (PersistPath(c) /\ UNCHANGED row)
  <2>1. call[c].at \in MoveSteps /\ UNCHANGED row
    BY <1>8 DEF MoveFile, RemoveOriginal, Undo, PersistPath
  <2>2. \/ /\ call'[c].id = call[c].id /\ call'[c].from = call[c].from
           /\ call'[c].at \in MoveSteps \cup {"refused"}
        \/ call'[c].id = NoDownload /\ call'[c].at = "idle"
    BY <1>8, Went, Ended DEF MoveFile, RemoveOriginal, Undo, PersistPath
  <2>3. RowFits(c)'
    BY <1>3, <2>1, <2>2 DEF RowFits
  <2> QED
    BY <1>4, <2>1, <2>2, <2>3
<1>9. CASE PersistPath(c) /\ row' = [row EXCEPT ![call[c].id].name = call[c].to] /\ End(c)
  <2>1. call'[c].id = NoDownload /\ call'[c].at = "idle"
    BY <1>9, Ended
  <2>2. \A e \in Downloads \ {call[c].id} : row'[e] = row[e]
    BY <1>9 DEF FilesTyped
  <2>3. RowFits(c)'
    BY <2>1 DEF RowFits
  <2> QED
    BY <1>4, <2>1, <2>2, <2>3
<1>10. ~(Choose(c) \/ Refuse(c) \/ Cancel(c) \/ Restart(c) \/ Relocate(c) \/ DeleteCompletedFile(c))
  BY DEF Choose, Refuse, Cancel, Restart, Relocate, DeleteCompletedFile
<1> QED
  BY <1>5, <1>6, <1>7, <1>8, <1>9, <1>10 DEF CallStep, PersistPath

LEMMA AnswerKeepsRows ==
  ASSUME FilesTyped, RowInv, NEW c \in Callers, Others(c), UNCHANGED <<row, run>>,
         call'[c].at \in {"idle", "confirm", "refused"}, call'[c].id \in {call[c].id, NoDownload}
  PROVE  RowInv'
<1>1. Alone'
  BY DEF RowInv, Alone, Others
<1>2. \A b \in Callers : RowFits(b)'
  BY DEF RowInv, RowFits, Others, CreateSteps, MoveSteps
<1>3. \A e \in Downloads : RunFits(e)'
  BY FilesAssumption DEF RowInv, RunFits, Others, Untouched
<1> QED
  BY <1>1, <1>2, <1>3 DEF RowInv

LEMMA CallStepKeepsRows ==
  ASSUME FilesTyped, RowInv, NEW c \in Callers, CallStep(c)
  PROVE  RowInv'
<1>1. CASE Refuse(c)
  BY <1>1, Went, AnswerKeepsRows DEF Refuse
<1>2. CASE Choose(c) \/ Cancel(c) \/ Restart(c) \/ Relocate(c) \/ DeleteCompletedFile(c)
  BY <1>2, BeginKeepsRows
<1>3. ~Refuse(c) /\ ~(Choose(c) \/ Cancel(c) \/ Restart(c) \/ Relocate(c) \/ DeleteCompletedFile(c))
        => /\ call[c].at \in CreateSteps \cup MoveSteps \cup {"unlink", "requeue", "forget"}
           /\ call[c].at \notin {"idle", "confirm"}
  BY DEF CallStep, ReserveDestination, SaveDownloadCookies, InsertRow, Unlink, Requeue, MoveFile,
         RemoveOriginal, PersistPath, Undo, DeleteRow, CreateSteps, MoveSteps
<1>4. call[c].at \in CreateSteps \cup MoveSteps \cup {"unlink", "requeue", "forget"} =>
        call[c].id \in Downloads
  BY CallFacts
<1> QED
  BY <1>1, <1>2, <1>3, <1>4, ContinueKeepsRows

\* A step outside the calls is about a row that nobody works on.
LEMMA DownloadStepFacts ==
  ASSUME FilesTyped, RowInv, NEW d \in Downloads, DownloadStep(d)
  PROVE  /\ UNCHANGED <<call, shared>> /\ Untouched(d) /\ Live(d)
         /\ row'[d].name = row[d].name /\ row[d].name \in Names
         /\ \A e \in Downloads \ {d} : row'[e] = row[e] /\ run'[e] = run[e]
         /\ run[d] # "idle" => row[d].state = "open"
<1> USE DEF DownloadStep, StartRun, StopRun, Publish, RecordCompleted, CancelRun, RemoveRecord,
            RemoveHistory
<1>1. UNCHANGED <<call, shared>>
  OBVIOUS
<1>2. Untouched(d) /\ Live(d) /\ (run[d] # "idle" => row[d].state = "open")
  BY DEF Open, Completed, RowInv, RunFits, Live
<1>3. row[d].name \in Names
  BY <1>2, LiveNamed
<1>4. row'[d].name = row[d].name /\ \A e \in Downloads \ {d} : row'[e] = row[e]
  BY DEF SetState, FilesTyped, RowRecords
<1>5. \A e \in Downloads \ {d} : run'[e] = run[e]
  BY DEF FilesTyped
<1> QED
  BY <1>1, <1>2, <1>3, <1>4, <1>5

LEMMA DownloadStepKeepsRows ==
  ASSUME FilesTyped, RowInv, NEW d \in Downloads, DownloadStep(d)
  PROVE  RowInv'
<1>1. /\ UNCHANGED call /\ Untouched(d)
      /\ \A e \in Downloads \ {d} : row'[e] = row[e] /\ run'[e] = run[e]
  BY DownloadStepFacts
<1>2. run'[d] # "idle" => row'[d].state = "open"
  <2>1. CASE StartRun(d) \/ Publish(d)
    BY <2>1 DEF StartRun, Publish, Open, RowInv, RunFits
  <2>2. CASE StopRun(d) \/ RecordCompleted(d) \/ CancelRun(d)
    BY <2>2 DEF StopRun, RecordCompleted, CancelRun, FilesTyped
  <2>3. CASE RemoveRecord(d) \/ RemoveHistory(d)
    BY <2>3 DEF RemoveRecord, RemoveHistory, Completed, RowInv, RunFits
  <2> QED
    BY <2>1, <2>2, <2>3 DEF DownloadStep
<1>3. Alone'
  BY <1>1 DEF RowInv, Alone
<1>4. ASSUME NEW b \in Callers PROVE RowFits(b)'
  <2>1. RowFits(b) /\ call[b].id # d
    BY <1>1 DEF RowInv, Untouched
  <2>2. call[b].at \in CreateSteps \cup MoveSteps \cup {"unlink", "requeue", "forget"} =>
          row'[call[b].id] = row[call[b].id]
    BY <1>1, <2>1, CallFacts
  <2> QED
    BY <1>1, <2>1, <2>2 DEF RowFits, CreateSteps, MoveSteps
<1>5. \A e \in Downloads : RunFits(e)'
  BY <1>1, <1>2 DEF RowInv, RunFits, Untouched
<1> QED
  BY <1>3, <1>4, <1>5 DEF RowInv

(***************************************************************************)
(* Names and files, as long as no name is shared.                          *)
(***************************************************************************)
\* No other live row, and no call about another download, has the name.
Own(d, n) ==
  /\ \A e \in Downloads \ {d} : Live(e) => row[e].name # n
  /\ \A b \in Callers : Picks(b) /\ call[b].id # d => Target(b) # n

LEMMA OwnRow ==
  ASSUME NameInv, NEW d \in Downloads, Live(d)
  PROVE  Own(d, row[d].name) /\ file[row[d].name] \in {NoDownload, d}
BY DEF NameInv, OwnNames, OwnFiles, Own

LEMMA OwnTarget ==
  ASSUME NameInv, NEW c \in Callers, Picks(c)
  PROVE  Own(call[c].id, Target(c))
BY DEF NameInv, OwnNames, Own

\* A name that comes into use and is not shared then.
LEMMA OwnFresh ==
  ASSUME NEW d \in Downloads, NEW n, Uses(n, d), ~shared'
  PROVE  Own(d, n) /\ file[n] \in {NoDownload, d}
BY DEF Uses, InUse, Own, Live, Picks

\* A step about d, which has after it only names that were its own or nobody's, and
\* touches no file but at such names.
LEMMA NamesKept ==
  ASSUME FilesTyped, RowInv, RowInv', NameInv, NEW d \in Downloads,
         \A e \in Downloads \ {d} : row'[e] = row[e] /\ run'[e] = run[e],
         \A b \in Callers : ~Picks(b)' \/ call'[b].id = d \/ call'[b] = call[b],
         Live(d)' => Own(d, row'[d].name) /\ file'[row'[d].name] \in {NoDownload, d},
         \A b \in Callers : Picks(b)' /\ call'[b].id = d => Own(d, Target(b)') /\ FileFits(b)',
         \A m \in Names : file'[m] = file[m] \/ Own(d, m),
         HasPublished(d)'
  PROVE  NameInv'
<1>1. ASSUME NEW b \in Callers, Picks(b)', call'[b].id # d
      PROVE  /\ call'[b] = call[b] /\ Picks(b) /\ Target(b)' = Target(b)
             /\ call[b].id \in Downloads \ {d} /\ Target(b) \in Names
  <2>1. call'[b] = call[b]
    BY <1>1
  <2>2. Picks(b) /\ Target(b)' = Target(b)
    BY <1>1, <2>1 DEF Picks, Target
  <2> QED
    BY <1>1, <2>1, <2>2, PickFacts
<1>2. ASSUME NEW e \in Downloads \ {d}, Live(e)
      PROVE  row'[e] = row[e] /\ file'[row[e].name] = file[row[e].name]
  <2>1. row[e].name \in Names
    BY <1>2, LiveNamed
  <2> QED
    BY <1>2, <2>1 DEF Own
<1>3. \A e \in Downloads \ {d} : Live(e)' <=> Live(e)
  BY DEF Live
<1>4. OwnNames'
  <2>1. ASSUME NEW e \in Downloads, NEW f \in Downloads, e # f, Live(e)', Live(f)'
        PROVE  row'[e].name # row'[f].name
    BY <1>2, <1>3, <2>1 DEF NameInv, OwnNames, Own
  <2>2. ASSUME NEW b \in Callers, NEW e \in Downloads, Picks(b)', Live(e)', e # call'[b].id
        PROVE  row'[e].name # Target(b)'
    <3>1. CASE call'[b].id = d
      BY <1>2, <1>3, <2>2, <3>1 DEF Own
    <3>2. CASE call'[b].id # d /\ e = d
      BY <1>1, <2>2, <3>2 DEF Own
    <3>3. CASE call'[b].id # d /\ e # d
      BY <1>1, <1>2, <1>3, <2>2, <3>3 DEF NameInv, OwnNames
    <3> QED
      BY <3>1, <3>2, <3>3
  <2>3. ASSUME NEW a \in Callers, NEW b \in Callers, a # b, Picks(a)', Picks(b)'
        PROVE  Target(a)' # Target(b)'
    <3>1. ~(call'[a].id = d /\ call'[b].id = d)
      BY <2>3, FilesAssumption DEF RowInv, Alone
    <3>2. CASE call'[a].id = d /\ call'[b].id # d
      BY <1>1, <2>3, <3>2 DEF Own
    <3>3. CASE call'[a].id # d /\ call'[b].id = d
      BY <1>1, <2>3, <3>3 DEF Own
    <3>4. CASE call'[a].id # d /\ call'[b].id # d
      BY <1>1, <2>3, <3>4 DEF NameInv, OwnNames
    <3> QED
      BY <3>1, <3>2, <3>3, <3>4
  <2> QED
    BY <2>1, <2>2, <2>3 DEF OwnNames
<1>5. OwnFiles'
  BY <1>2, <1>3 DEF NameInv, OwnFiles
<1>6. ASSUME NEW b \in Callers PROVE FileFits(b)'
  <2>1. CASE ~Picks(b)'
    BY <2>1 DEF FileFits, Picks, Holding, MoveSteps
  <2>2. CASE Picks(b)' /\ call'[b].id = d
    BY <2>2
  <2>3. CASE Picks(b)' /\ call'[b].id # d
    <3>1. /\ call'[b] = call[b] /\ Picks(b) /\ FileFits(b)
          /\ call[b].id \in Downloads \ {d} /\ Target(b) \in Names
      BY <1>1, <2>3 DEF NameInv
    <3>2. file'[Target(b)] = file[Target(b)]
      BY <3>1 DEF Own
    <3>3. ASSUME call[b].at \in MoveSteps PROVE file'[call[b].from] = file[call[b].from]
      <4>1. Live(call[b].id) /\ row[call[b].id].name = call[b].from
        BY <3>3 DEF RowInv, RowFits, Live
      <4> QED
        BY <1>2, <3>1, <4>1
    <3> QED
      BY <3>1, <3>2, <3>3 DEF FileFits, Target, MoveSteps, Empty
  <2> QED
    BY <2>1, <2>2, <2>3
<1>7. ASSUME NEW e \in Downloads PROVE HasPublished(e)'
  <2>1. CASE e # d
    <3>1. run[e] # "idle" => Live(e)
      BY DEF RowInv, RunFits, Live
    <3> QED
      BY <1>2, <2>1, <3>1 DEF NameInv, HasPublished
  <2> QED
    BY <2>1
<1> QED
  BY <1>4, <1>5, <1>6, <1>7 DEF NameInv

\* Steps that give no name to anything and touch no file.
LEMMA QuietKeepsNames ==
  ASSUME FilesTyped, NameInv, NEW c \in Callers, Others(c), ~Picks(c)', UNCHANGED <<file, run>>,
         \A e \in Downloads : row'[e].name = row[e].name /\ (Live(e)' => Live(e))
  PROVE  NameInv'
<1>1. \A b \in Callers : Picks(b)' =>
        b # c /\ call'[b] = call[b] /\ Picks(b) /\ Target(b)' = Target(b)
  BY DEF Others, Picks, Target
<1>2. OwnNames'
  BY <1>1 DEF NameInv, OwnNames
<1>3. OwnFiles'
  BY DEF NameInv, OwnFiles
<1>4. ASSUME NEW b \in Callers PROVE FileFits(b)'
  <2>1. CASE Picks(b)'
    BY <1>1, <2>1 DEF NameInv, FileFits, Empty
  <2>2. CASE ~Picks(b)'
    BY <2>2 DEF FileFits, Picks, Holding, MoveSteps
  <2> QED
    BY <2>1, <2>2
<1>5. \A e \in Downloads : HasPublished(e)'
  BY DEF NameInv, HasPublished
<1> QED
  BY <1>2, <1>3, <1>4, <1>5 DEF NameInv

\* A step of a call about d, which has no run and no other call.
LEMMA CallKeepsNames ==
  ASSUME FilesTyped, RowInv, RowInv', NameInv, NEW c \in Callers, Others(c), UNCHANGED run,
         NEW d \in Downloads, run[d] = "idle", \A b \in Callers \ {c} : call[b].id # d,
         \A e \in Downloads \ {d} : row'[e] = row[e],
         Picks(c)' => call'[c].id = d /\ Own(d, Target(c)') /\ FileFits(c)',
         Live(d)' => Own(d, row'[d].name) /\ file'[row'[d].name] \in {NoDownload, d},
         \A m \in Names : file'[m] = file[m] \/ Own(d, m)
  PROVE  NameInv'
<1>1. \A b \in Callers \ {c} : call'[b] = call[b]
  BY DEF Others
<1>2. \A b \in Callers : Picks(b)' /\ call'[b].id = d => Own(d, Target(b)') /\ FileFits(b)'
  BY <1>1
<1>3. HasPublished(d)'
  BY DEF HasPublished
<1>4. \A b \in Callers : ~Picks(b)' \/ call'[b].id = d \/ call'[b] = call[b]
  BY <1>1
<1>5. \A e \in Downloads \ {d} : row'[e] = row[e] /\ run'[e] = run[e]
  OBVIOUS
<1> QED
  BY <1>2, <1>3, <1>4, <1>5, NamesKept

(***************************************************************************)
(* The calls.                                                              *)
(***************************************************************************)
LEMMA RowsSame ==
  ASSUME UNCHANGED row
  PROVE  \A e \in Downloads : row'[e].name = row[e].name /\ (Live(e)' => Live(e))
BY DEF Live

LEMMA ReserveKeepsNames ==
  ASSUME FilesTyped, RowInv, RowInv', NameInv, ~shared', NEW c \in Callers, ReserveDestination(c)
  PROVE  NameInv'
<1> DEFINE d == call[c].id
           n == call[c].to
<1>1. /\ d \in Downloads /\ run[d] = "idle" /\ \A b \in Callers \ {c} : call[b].id # d
      /\ RowFits(c) /\ call[c].at = "reserve"
  BY CallFacts, CallHasRow DEF ReserveDestination, CreateSteps, RowInv
<1>2. UNCHANGED <<file, row, run>> /\ Others(c)
  BY CallStepOthers DEF ReserveDestination, CallStep
<1>3. CASE Go(c, "protect") /\ Uses(n, d)
  <2>1. call'[c].at = "protect" /\ call'[c].id = d /\ call'[c].to = n
    BY <1>3, Went
  <2>2. Own(d, n) /\ file[n] \in {NoDownload, d}
    BY <1>1, <1>3, OwnFresh
  <2>3. Own(d, Target(c)') /\ FileFits(c)'
    BY <1>2, <2>1, <2>2 DEF Target, FileFits, MoveSteps
  <2>4. ~Live(d)'
    BY <1>1, <1>2, <2>1 DEF RowFits, Live, CreateSteps
  <2> QED
    BY <1>1, <1>2, <2>1, <2>3, <2>4, CallKeepsNames
<1>4. CASE call'[c].at \in {"reserve", "refused"}
  <2>1. ~Picks(c)'
    BY <1>4 DEF Picks, Holding, MoveSteps
  <2> QED
    BY <1>2, <2>1, QuietKeepsNames, RowsSame
<1>5. \A m : call' = [call EXCEPT ![c].to = m] => call'[c].at = "reserve"
  BY <1>1 DEF FilesTyped, CallRecords
<1> QED
  BY <1>3, <1>4, <1>5, Went DEF ReserveDestination

\* The call keeps its name, or gives it to the row, or gives it up.
LEMMA CreateStepKeepsNames ==
  ASSUME FilesTyped, RowInv, RowInv', NameInv, NEW c \in Callers,
         SaveDownloadCookies(c) \/ InsertRow(c) \/ Requeue(c)
  PROVE  NameInv'
<1> DEFINE d == call[c].id
           n == Target(c)
<1>1. /\ call[c].at \in {"protect", "insert", "requeue"} /\ UNCHANGED <<file, run>> /\ Others(c)
  BY CallStepOthers DEF SaveDownloadCookies, InsertRow, Requeue, CallStep
<1>2. /\ d \in Downloads /\ run[d] = "idle" /\ \A b \in Callers \ {c} : call[b].id # d
      /\ RowFits(c) /\ FileFits(c) /\ Picks(c) /\ Own(d, n)
  BY <1>1, CallFacts, CallHasRow, OwnTarget DEF CreateSteps, RowInv, NameInv, Picks, Holding
<1>3. file[n] \in {NoDownload, d}
  BY <1>1, <1>2 DEF FileFits, Target
<1>4. CASE UNCHANGED row /\ call'[c].at \in {"refused", "idle"}
  <2>1. ~Picks(c)'
    BY <1>4 DEF Picks, Holding, MoveSteps
  <2> QED
    BY <1>1, <1>4, <2>1, QuietKeepsNames, RowsSame
<1>5. CASE SaveDownloadCookies(c) /\ Go(c, "insert")
  <2>1. call'[c].at = "insert" /\ call'[c].id = d /\ call'[c].to = call[c].to
        /\ call[c].at = "protect" /\ UNCHANGED row
    BY <1>5, Went DEF SaveDownloadCookies
  <2>2. Own(d, Target(c)') /\ FileFits(c)'
    BY <1>1, <1>2, <1>3, <2>1 DEF Target, FileFits, MoveSteps
  <2>3. ~Live(d)'
    BY <1>2, <2>1 DEF RowFits, Live, CreateSteps
  <2> QED
    BY <1>1, <1>2, <2>1, <2>2, <2>3, CallKeepsNames
<1>6. CASE row'[d].name = n /\ (\A e \in Downloads \ {d} : row'[e] = row[e])
           /\ call'[c].at \in {"created", "idle"}
  <2>1. ~Picks(c)'
    BY <1>6 DEF Picks, Holding, MoveSteps
  <2> QED
    BY <1>1, <1>2, <1>3, <1>6, <2>1, CallKeepsNames
<1>7. CASE SaveDownloadCookies(c)
  BY <1>4, <1>5, <1>7, Went DEF SaveDownloadCookies
<1>8. CASE InsertRow(c)
  <2>1. CASE Go(c, "created") /\ row' = [row EXCEPT ![d] = [state |-> "open", name |-> call[c].to]]
    <3>1. row'[d].name = n /\ (\A e \in Downloads \ {d} : row'[e] = row[e])
      BY <1>2, <1>8, <2>1 DEF FilesTyped, InsertRow, Target
    <3> QED
      BY <1>6, <2>1, <3>1, Went
  <2> QED
    BY <1>4, <1>8, <2>1, Went DEF InsertRow
<1>9. CASE Requeue(c)
  <2>1. CASE SetState(d, "open")
    <3>1. row'[d].name = n /\ (\A e \in Downloads \ {d} : row'[e] = row[e])
      BY <1>2, <1>9, <2>1 DEF FilesTyped, RowRecords, SetState, Requeue, RowFits, Target
    <3> QED
      BY <1>6, <1>9, <3>1, Ended DEF Requeue
  <2> QED
    BY <1>4, <1>9, <2>1, Ended DEF Requeue
<1> QED
  BY <1>7, <1>8, <1>9

\* A call that begins, or ends without a file or a name for its row.
LEMMA QuietCallKeepsNames ==
  ASSUME FilesTyped, RowInv, NameInv, NEW c \in Callers,
         Choose(c) \/ Refuse(c) \/ Cancel(c) \/ Unlink(c) \/ DeleteRow(c)
  PROVE  NameInv'
<1>1. Others(c) /\ UNCHANGED <<file, run>>
  BY CallStepOthers DEF CallStep, Choose, Refuse, Cancel, Unlink, DeleteRow
<1>2. call'[c].at \in {"reserve", "refused", "unlink", "idle"}
  BY Began, Went, Ended DEF Choose, Refuse, Cancel, Unlink, DeleteRow
<1>3. ~Picks(c)'
  BY <1>2 DEF Picks, Holding, MoveSteps
<1>4. ASSUME NEW d \in Downloads, NEW state \in {"cancelled", "gone"}, SetState(d, state),
             state = "cancelled" => Live(d)
      PROVE  \A e \in Downloads : row'[e].name = row[e].name /\ (Live(e)' => Live(e))
  BY <1>4 DEF SetState, FilesTyped, RowRecords, Live
<1>5. \A e \in Downloads : row'[e].name = row[e].name /\ (Live(e)' => Live(e))
  <2>1. CASE UNCHANGED row
    BY <2>1, RowsSame
  <2>2. CASE Cancel(c)
    BY <1>4, <2>2 DEF Cancel, Open, Live
  <2>3. CASE DeleteRow(c) /\ ~UNCHANGED row
    BY <1>4, <2>3, CallFacts DEF DeleteRow
  <2> QED
    BY <2>1, <2>2, <2>3 DEF Choose, Refuse, Unlink
<1> QED
  BY <1>1, <1>3, <1>5, QuietKeepsNames

LEMMA RestartKeepsNames ==
  ASSUME FilesTyped, RowInv, RowInv', NameInv, ~shared', NEW c \in Callers, Restart(c)
  PROVE  NameInv'
<1> PICK d \in Downloads : /\ Untouched(d) /\ run[d] = "idle"
                           /\ Begin(c, "requeue", d, row[d].name, NoName)
                           /\ Uses(row[d].name, d)
  BY DEF Restart
<1>1. UNCHANGED <<file, row, run>>
  BY DEF Restart
<1>2. /\ Others(c) /\ call'[c].at = "requeue" /\ call'[c].id = d /\ call'[c].from = row[d].name
  BY Began
<1>3. Own(d, row[d].name) /\ file[row[d].name] \in {NoDownload, d}
  BY OwnFresh
<1>4. Own(d, Target(c)') /\ FileFits(c)'
  BY <1>1, <1>2, <1>3 DEF Target, FileFits, MoveSteps
<1> QED
  BY <1>1, <1>2, <1>3, <1>4, CallKeepsNames DEF Untouched

(***************************************************************************)
(* Moving and deleting completed files.                                    *)
(***************************************************************************)
LEMMA RelocateKeepsNames ==
  ASSUME FilesTyped, RowInv, RowInv', NameInv, ~shared', NEW c \in Callers, Relocate(c)
  PROVE  NameInv'
<1> PICK d \in Downloads, n \in Names :
      /\ Completed(d) /\ ~Empty(row[d].name)
      /\ n = row[d].name \/ Empty(n)
      /\ Begin(c, "move", d, row[d].name, n)
      /\ Uses(n, d)
  BY DEF Relocate
<1>1. UNCHANGED <<file, row, run>>
  BY DEF Relocate
<1>2. /\ Others(c) /\ call'[c].at = "move" /\ call'[c].id = d
      /\ call'[c].from = row[d].name /\ call'[c].to = n
  BY Began
<1>3. Live(d) /\ row[d].state = "completed" /\ run[d] = "idle" /\ \A b \in Callers : call[b].id # d
  BY DEF Completed, Live, Untouched, RowInv, RunFits
<1>4. Own(d, row[d].name) /\ file[row[d].name] = d
  BY <1>3, OwnRow DEF Empty
<1>5. Own(d, n)
  BY OwnFresh
<1>6. Own(d, Target(c)') /\ FileFits(c)'
  BY <1>1, <1>2, <1>4, <1>5 DEF Target, FileFits, MoveSteps, Empty
<1> QED
  BY <1>1, <1>2, <1>3, <1>4, <1>6, CallKeepsNames

\* The names a step of a move may put a file at are not those of others.
LEMMA NamesOfCall ==
  ASSUME FilesTyped, RowInv, NameInv, NEW c \in Callers, call[c].at \in MoveSteps
  PROVE  /\ Live(call[c].id) /\ row[call[c].id].name = call[c].from
         /\ Own(call[c].id, call[c].from) /\ Own(call[c].id, call[c].to)
         /\ run[call[c].id] = "idle" /\ \A b \in Callers \ {c} : call[b].id # call[c].id
<1>1. call[c].id \in Downloads /\ Picks(c) /\ Target(c) = call[c].to
  BY CallFacts DEF Picks, Holding, Target, MoveSteps
<1>2. Live(call[c].id) /\ row[call[c].id].name = call[c].from
  BY DEF RowInv, RowFits, Live
<1> QED
  BY <1>1, <1>2, OwnRow, OwnTarget, CallHasRow

\* A step of a move goes on with the names it has and changes the file at them only.
LEMMA MoveKeepsNames ==
  ASSUME FilesTyped, RowInv, RowInv', NameInv, NEW c \in Callers, call[c].at \in MoveSteps,
         NEW step \in MoveSteps \cup {"refused"}, Go(c, step), UNCHANGED <<row, run>>,
         \A m \in Names : m \notin {call[c].from, call[c].to} => file'[m] = file[m],
         file'[call[c].from] \in {NoDownload, call[c].id},
         FileFits(c)'
  PROVE  NameInv'
<1>1. /\ Others(c) /\ call'[c].at = step /\ call'[c].id = call[c].id
      /\ call'[c].from = call[c].from /\ call'[c].to = call[c].to
      /\ call[c].id \in Downloads
  BY Went, CallFacts
<1>2. Picks(c)' => Target(c)' = call[c].to
  BY <1>1 DEF Picks, Holding, Target, MoveSteps
<1>3. \A m \in Names : file'[m] = file[m] \/ Own(call[c].id, m)
  BY NamesOfCall
<1>4. \A e \in Downloads : row'[e] = row[e]
  OBVIOUS
<1> QED
  BY <1>1, <1>2, <1>3, <1>4, NamesOfCall, CallKeepsNames

\* What the file system steps of a move leave at its two names.
LEMMA MoveEffect ==
  ASSUME FilesTyped, RowInv, NameInv, NEW c \in Callers, MoveFile(c) \/ RemoveOriginal(c) \/ Undo(c)
  PROVE  /\ call[c].at \in MoveSteps /\ UNCHANGED <<part, row, run, secret, wanted>>
         /\ \E step \in MoveSteps \cup {"refused"} : Go(c, step)
         /\ \A m \in Names : m \notin {call[c].from, call[c].to} => file'[m] = file[m]
         /\ file'[call[c].from] \in {NoDownload, call[c].id}
         /\ file'[call[c].to] \in {NoDownload, call[c].id}
         /\ call[c].id \in {file'[call[c].from], file'[call[c].to]}
         /\ file[call[c].from] \in {NoDownload, call[c].id}
         /\ file[call[c].to] \in {NoDownload, call[c].id}
         /\ FileFits(c)'
<1> DEFINE d == call[c].id
           f == call[c].from
           t == call[c].to
<1>1. call[c].at \in MoveSteps /\ UNCHANGED <<part, row, run, secret, wanted>>
  BY DEF MoveFile, RemoveOriginal, Undo, MoveSteps
<1>2. d \in Downloads /\ f \in Names /\ t \in Names /\ DOMAIN file = Names
  BY <1>1, CallFacts DEF FilesTyped
<1>3. FileFits(c)
  BY DEF NameInv
<1>4. d # NoDownload
  BY <1>2, FilesAssumption
<1> file[f] \in {NoDownload, d} /\ file[t] \in {NoDownload, d}
  BY <1>1, <1>3, NamesOfCall, <1>2 DEF FileFits, MoveSteps, Empty, NameInv, OwnFiles
<1>5. CASE MoveFile(c)
  <2>1. call[c].at = "move" /\ file[f] = d /\ (f # t => Empty(t))
    BY <1>3, <1>5 DEF MoveFile, FileFits
  <2>2. ~Empty(f)
    BY <1>4, <2>1 DEF Empty
  <2>3. \/ f = t /\ Go(c, "persist") /\ UNCHANGED file
        \/ f # t /\ file' = MovedTo(f, t) /\ Go(c, "persist")
        \/ f # t /\ file' = [file EXCEPT ![t] = file[f]] /\ Go(c, "copied")
    BY <1>5, <2>2 DEF MoveFile
  <2>4. CASE f = t /\ Go(c, "persist") /\ UNCHANGED file
    <3>1. call'[c].at = "persist" /\ call'[c].id = d /\ call'[c].from = f /\ call'[c].to = t
      BY <2>4, Went
    <3> QED
      BY <1>1, <2>1, <2>4, <3>1 DEF FileFits, MoveSteps
  <2>5. CASE f # t /\ file' = MovedTo(f, t) /\ Go(c, "persist")
    <3>1. call'[c].at = "persist" /\ call'[c].id = d /\ call'[c].from = f /\ call'[c].to = t
      BY <2>5, Went
    <3>2. /\ file'[t] = d /\ file'[f] = NoDownload
          /\ \A m \in Names : m \notin {f, t} => file'[m] = file[m]
      BY <1>2, <2>1, <2>5 DEF MovedTo
    <3> QED
      BY <1>1, <2>5, <3>1, <3>2 DEF FileFits, MoveSteps, Empty
  <2>6. CASE f # t /\ file' = [file EXCEPT ![t] = file[f]] /\ Go(c, "copied")
    <3>1. call'[c].at = "copied" /\ call'[c].id = d /\ call'[c].from = f /\ call'[c].to = t
      BY <2>6, Went
    <3>2. /\ file'[t] = d /\ file'[f] = d
          /\ \A m \in Names : m \notin {f, t} => file'[m] = file[m]
      BY <1>2, <2>1, <2>6
    <3> QED
      BY <1>1, <2>6, <3>1, <3>2 DEF FileFits, MoveSteps, Empty
  <2> QED
    BY <2>3, <2>4, <2>5, <2>6
<1>6. CASE RemoveOriginal(c)
  <2>1. f # t /\ file[f] = d /\ file[t] = d
    BY <1>3, <1>6 DEF RemoveOriginal, FileFits
  <2>2. \/ Go(c, "persist") /\ file' = [file EXCEPT ![f] = NoDownload]
        \/ Go(c, "refused") /\ file' = [file EXCEPT ![t] = NoDownload]
    BY <1>6 DEF RemoveOriginal
  <2>3. \E step \in {"persist", "refused"} :
          /\ Go(c, step)
          /\ call'[c].at = step /\ call'[c].id = d /\ call'[c].from = f /\ call'[c].to = t
    BY <2>2, Went
  <2>4. /\ \A m \in Names : m \notin {f, t} => file'[m] = file[m]
        /\ \/ call'[c].at = "persist" /\ file'[f] = NoDownload /\ file'[t] = d
           \/ call'[c].at = "refused" /\ file'[f] = d /\ file'[t] = NoDownload
    BY <1>2, <2>1, <2>2, Went
  <2> QED
    BY <1>1, <2>1, <2>3, <2>4 DEF FileFits, MoveSteps, Empty
<1>7. CASE Undo(c)
  <2>1. call[c].at = "undo" /\ file[t] = d /\ (f # t => Empty(f)) /\ Go(c, "refused")
    BY <1>3, <1>7 DEF Undo, FileFits
  <2>2. call'[c].at = "refused"
    BY <2>1, Went
  <2>3. FileFits(c)'
    BY <2>2 DEF FileFits, MoveSteps
  <2>4. UNCHANGED file \/ (f # t /\ file' = MovedTo(t, f))
    BY <1>7, <2>1 DEF Undo
  <2>5. /\ \A m \in Names : m \notin {f, t} => file'[m] = file[m]
        /\ file'[f] \in {NoDownload, d} /\ file'[t] \in {NoDownload, d}
        /\ d \in {file'[f], file'[t]}
    BY <1>2, <2>1, <2>4 DEF MovedTo, Empty
  <2> QED
    BY <1>1, <2>1, <2>3, <2>5
<1> QED
  BY <1>5, <1>6, <1>7

LEMMA MoveStepKeepsNames ==
  ASSUME FilesTyped, RowInv, RowInv', NameInv, NEW c \in Callers, MoveFile(c) \/ RemoveOriginal(c) \/ Undo(c)
  PROVE  NameInv'
<1> PICK step \in MoveSteps \cup {"refused"} : Go(c, step)
  BY MoveEffect
<1> QED
  BY MoveEffect, MoveKeepsNames

\* The row takes the new name over from the call, or the move is undone.
LEMMA PersistKeepsNames ==
  ASSUME FilesTyped, RowInv, RowInv', NameInv, NEW c \in Callers, PersistPath(c)
  PROVE  NameInv'
<1> DEFINE d == call[c].id
           f == call[c].from
           t == call[c].to
<1>1. call[c].at = "persist" /\ call[c].at \in MoveSteps /\ UNCHANGED <<file, run>>
  BY DEF PersistPath, MoveSteps
<1>2. /\ d \in Downloads /\ f \in Names /\ t \in Names /\ Live(d) /\ row[d].name = f
      /\ Own(d, f) /\ Own(d, t) /\ run[d] = "idle" /\ \A b \in Callers \ {c} : call[b].id # d
  BY <1>1, CallFacts, NamesOfCall
<1>3. FileFits(c) /\ file[t] = d
  BY <1>1 DEF NameInv, FileFits
<1>4. CASE Go(c, "undo") /\ UNCHANGED row
  <2>1. call'[c].at = "undo" /\ call'[c].id = d /\ call'[c].from = f /\ call'[c].to = t
    BY <1>4, Went
  <2>2. FileFits(c)' /\ file'[f] \in {NoDownload, d}
    BY <1>1, <1>2, <1>3, <2>1, OwnRow DEF FileFits, MoveSteps, Empty
  <2> QED
    BY <1>1, <1>4, <2>2, MoveKeepsNames DEF MoveSteps
<1>5. CASE row' = [row EXCEPT ![d].name = t] /\ End(c)
  <2>1. Others(c) /\ call'[c].at = "idle" /\ ~Picks(c)'
    BY <1>5, Ended DEF Picks, Holding, MoveSteps
  <2>2. row'[d].name = t /\ \A e \in Downloads \ {d} : row'[e] = row[e]
    BY <1>2, <1>5 DEF FilesTyped, RowRecords
  <2> QED
    BY <1>1, <1>2, <1>3, <2>1, <2>2, CallKeepsNames
<1> QED
  BY <1>4, <1>5 DEF PersistPath

\* The file that is deleted is that of the row.
LEMMA DeleteKeepsNames ==
  ASSUME FilesTyped, RowInv, RowInv', NameInv, NEW c \in Callers, DeleteCompletedFile(c)
  PROVE  NameInv'
<1> PICK d \in Downloads : /\ Completed(d)
                           /\ file' = [file EXCEPT ![row[d].name] = NoDownload]
                           /\ Begin(c, "forget", d, row[d].name, NoName)
  BY DEF DeleteCompletedFile
<1>1. UNCHANGED <<row, run>>
  BY DEF DeleteCompletedFile
<1>2. Others(c) /\ ~Picks(c)'
  BY Began DEF Picks, Holding, MoveSteps
<1>3. /\ Live(d) /\ row[d].name \in Names /\ Own(d, row[d].name) /\ run[d] = "idle"
      /\ \A b \in Callers : call[b].id # d
  BY LiveNamed, OwnRow DEF Completed, Live, Untouched, RowInv, RunFits
<1>4. /\ \A m \in Names : m # row[d].name => file'[m] = file[m]
      /\ file'[row[d].name] = NoDownload
  BY <1>3 DEF FilesTyped
<1> QED
  BY <1>1, <1>2, <1>3, <1>4, CallKeepsNames

LEMMA CallStepKeepsNames ==
  ASSUME FilesTyped, RowInv, NameInv, ~shared', NEW c \in Callers, CallStep(c)
  PROVE  NameInv'
<1>1. RowInv'
  BY CallStepKeepsRows
<1> QED
  BY <1>1, QuietCallKeepsNames, ReserveKeepsNames, CreateStepKeepsNames, RestartKeepsNames,
     RelocateKeepsNames, MoveStepKeepsNames, PersistKeepsNames, DeleteKeepsNames
  DEF CallStep

(***************************************************************************)
(* Runs, records that are removed, answers and crashes.                    *)
(***************************************************************************)
LEMMA DownloadStepKeepsNames ==
  ASSUME FilesTyped, RowInv, NameInv, NEW d \in Downloads, DownloadStep(d)
  PROVE  NameInv'
<1> DEFINE n == row[d].name
<1>1. /\ UNCHANGED call /\ Untouched(d) /\ Live(d) /\ row'[d].name = n /\ n \in Names
      /\ \A e \in Downloads \ {d} : row'[e] = row[e] /\ run'[e] = run[e]
  BY DownloadStepFacts
<1>2. RowInv' /\ Own(d, n) /\ file[n] \in {NoDownload, d}
  BY <1>1, DownloadStepKeepsRows, OwnRow
<1>3. /\ \A m \in Names : m # n => file'[m] = file[m]
      /\ file'[n] \in {NoDownload, d}
  <2>1. UNCHANGED file \/ file' = [file EXCEPT ![n] = d]
    BY DEF DownloadStep, StartRun, StopRun, Publish, RecordCompleted, CancelRun, RemoveRecord,
           RemoveHistory
  <2> QED
    BY <1>1, <1>2, <2>1 DEF FilesTyped
<1>4. HasPublished(d)'
  <2>1. CASE Publish(d)
    BY <1>1, <2>1 DEF Publish, HasPublished, FilesTyped
  <2>2. CASE RemoveRecord(d) \/ RemoveHistory(d)
    BY <1>1, <2>2 DEF RemoveRecord, RemoveHistory, NameInv, HasPublished
  <2>3. CASE StartRun(d) \/ StopRun(d) \/ RecordCompleted(d) \/ CancelRun(d)
    BY <2>3 DEF StartRun, StopRun, RecordCompleted, CancelRun, HasPublished, FilesTyped
  <2> QED
    BY <2>1, <2>2, <2>3 DEF DownloadStep
<1>5. \A b \in Callers : call'[b] = call[b] /\ call'[b].id # d
  BY <1>1 DEF Untouched
<1> QED
  BY <1>1, <1>2, <1>3, <1>4, <1>5, NamesKept

LEMMA AnswerKeepsNames ==
  ASSUME FilesTyped, NameInv, NEW c \in Callers, Others(c), UNCHANGED <<file, row, run>>,
         call'[c].at \in {"idle", "confirm", "refused"}
  PROVE  NameInv'
<1>1. ~Picks(c)'
  BY DEF Picks, Holding, MoveSteps
<1> QED
  BY <1>1, QuietKeepsNames, RowsSame

LEMMA CrashKeepsRows ==
  ASSUME FilesTyped, RowInv, CrashFiles
  PROVE  RowInv'
<1>1. \A c \in Callers : call'[c] = Idle /\ Idle.at = "idle" /\ Idle.id = NoDownload
  BY DEF CrashFiles, Idle
<1>2. Alone'
  BY <1>1 DEF Alone
<1>3. \A c \in Callers : RowFits(c)'
  BY <1>1 DEF RowFits, CreateSteps, MoveSteps
<1>4. \A d \in Downloads : RunFits(d)'
  BY DEF CrashFiles, RunFits
<1> QED
  BY <1>2, <1>3, <1>4 DEF RowInv

LEMMA CrashKeepsNames ==
  ASSUME FilesTyped, NameInv, CrashFiles
  PROVE  NameInv'
<1>1. \A c \in Callers : ~Picks(c)'
  BY DEF CrashFiles, Idle, Picks, Holding, MoveSteps
<1>2. OwnNames'
  BY <1>1 DEF NameInv, OwnNames, CrashFiles, Live
<1>3. OwnFiles'
  BY DEF NameInv, OwnFiles, CrashFiles, Live
<1>4. \A c \in Callers : FileFits(c)'
  BY <1>1 DEF FileFits, Picks, Holding, MoveSteps
<1>5. \A d \in Downloads : HasPublished(d)'
  BY DEF CrashFiles, HasPublished
<1> QED
  BY <1>2, <1>3, <1>4, <1>5 DEF NameInv

(***************************************************************************)
(* Published files.                                                        *)
(***************************************************************************)
LEMMA CallStepKeepsFiles ==
  ASSUME FilesTyped, RowInv, NameInv, FilesSurvive, NEW c \in Callers, CallStep(c)
  PROVE  FilesSurvive'
<1>1. CASE UNCHANGED <<file, wanted>>
  BY <1>1 DEF FilesSurvive
<1>2. CASE MoveFile(c) \/ RemoveOriginal(c) \/ Undo(c)
  <2> SUFFICES ASSUME NEW e \in wanted' PROVE \E n \in Names : file'[n] = e
    BY DEF FilesSurvive
  <2>1. call[c].at \in MoveSteps /\ wanted' = wanted
    BY <1>2, MoveEffect
  <2>2. call[c].from \in Names /\ call[c].to \in Names /\ call[c].id \in Downloads
    BY <2>1, CallFacts
  <2>3. CASE e = call[c].id
    <3>1. file'[call[c].from] = e \/ file'[call[c].to] = e
      BY <1>2, <2>3, MoveEffect
    <3> QED
      BY <2>2, <3>1
  <2>4. CASE e # call[c].id
    <3> PICK n \in Names : file[n] = e
      BY <2>1 DEF FilesSurvive
    <3>1. e # NoDownload
      BY <2>1, FilesAssumption DEF FilesTyped
    <3>2. n \notin {call[c].from, call[c].to}
      BY <1>2, <2>4, <3>1, MoveEffect
    <3>3. file'[n] = e
      BY <1>2, <3>2, MoveEffect
    <3> QED
      BY <3>3
  <2> QED
    BY <2>3, <2>4
<1>3. CASE DeleteCompletedFile(c)
  <2> PICK d \in Downloads : /\ Completed(d) /\ wanted' = wanted \ {d}
                             /\ file' = [file EXCEPT ![row[d].name] = NoDownload]
    BY <1>3 DEF DeleteCompletedFile
  <2>1. file[row[d].name] \in {NoDownload, d}
    BY DEF Completed, NameInv, OwnFiles, Live
  <2> SUFFICES ASSUME NEW e \in wanted' PROVE \E n \in Names : file'[n] = e
    BY DEF FilesSurvive
  <2>2. e \in wanted /\ e # d /\ e # NoDownload
    BY FilesAssumption DEF FilesTyped
  <2> PICK n \in Names : file[n] = e
    BY <2>2 DEF FilesSurvive
  <2>3. file'[n] = e
    BY <2>1, <2>2 DEF FilesTyped
  <2> QED
    BY <2>3
<1> QED
  BY <1>1, <1>2, <1>3
  DEF CallStep, Choose, Refuse, ReserveDestination, SaveDownloadCookies, InsertRow, Cancel,
      Unlink, Restart, Requeue, Relocate, PersistPath, DeleteRow

LEMMA DownloadStepKeepsFiles ==
  ASSUME FilesTyped, RowInv, NameInv, FilesSurvive, NEW d \in Downloads, DownloadStep(d)
  PROVE  FilesSurvive'
<1>1. CASE Publish(d)
  <2>1. /\ row[d].name \in Names /\ file[row[d].name] \in {NoDownload, d}
        /\ file' = [file EXCEPT ![row[d].name] = d] /\ wanted' = wanted \cup {d}
    <3>1. Live(d)
      BY <1>1 DEF Publish, RowInv, RunFits, Live
    <3> QED
      BY <1>1, <3>1, LiveNamed DEF Publish, NameInv, OwnFiles
  <2> SUFFICES ASSUME NEW e \in wanted' PROVE \E n \in Names : file'[n] = e
    BY DEF FilesSurvive
  <2>2. CASE e = d
    <3>1. file'[row[d].name] = d
      BY <2>1 DEF FilesTyped
    <3> QED
      BY <2>1, <2>2, <3>1
  <2>3. CASE e # d
    <3>1. e \in wanted /\ e # NoDownload
      BY <2>1, <2>3, FilesAssumption DEF FilesTyped
    <3> PICK n \in Names : file[n] = e
      BY <3>1 DEF FilesSurvive
    <3>2. file'[n] = e
      BY <2>1, <2>3, <3>1 DEF FilesTyped
    <3> QED
      BY <3>2
  <2> QED
    BY <2>2, <2>3
<1>2. CASE UNCHANGED <<file, wanted>>
  BY <1>2 DEF FilesSurvive
<1> QED
  BY <1>1, <1>2
  DEF DownloadStep, StartRun, StopRun, RecordCompleted, CancelRun, RemoveRecord, RemoveHistory

(***************************************************************************)
(* Records of completed downloads.                                         *)
(***************************************************************************)
LEMMA BudgetTyped ==
  ASSUME FilesTyped
  PROVE  /\ budget["fault"] \in Nat /\ budget["crash"] \in Nat
         /\ Budget["fault"] \in Nat /\ Budget["crash"] \in Nat
         /\ DOMAIN budget = {"fault", "crash"}
BY FilesAssumption DEF FilesTyped

\* Steps may fail; only a crash is a crash.
LEMMA BudgetStep ==
  ASSUME FilesTyped, Works \/ Fails
  PROVE  /\ budget'["crash"] = budget["crash"]
         /\ budget'["fault"] \in Nat /\ budget'["fault"] <= budget["fault"]
         /\ Fails => budget'["fault"] = budget["fault"] - 1
BY BudgetTyped DEF Works, Fails

LEMMA CallStepWorksOrFails ==
  ASSUME NEW c \in Callers, CallStep(c)
  PROVE  Works \/ Fails
BY DEF CallStep, Choose, Refuse, ReserveDestination, SaveDownloadCookies, InsertRow, Cancel,
       Unlink, Restart, Requeue, Relocate, MoveFile, RemoveOriginal, PersistPath, Undo,
       DeleteCompletedFile, DeleteRow, CleanUp, Works

LEMMA DownloadStepWorksOrFails ==
  ASSUME NEW d \in Downloads, DownloadStep(d)
  PROVE  Works \/ Fails
BY DEF DownloadStep, StartRun, StopRun, Publish, RecordCompleted, CancelRun, RemoveRecord,
       RemoveHistory, CleanUp, Works

\* A call undoes a move only after a step has failed.
LEMMA CountedKept ==
  ASSUME FilesTyped, Counted, Works \/ Fails,
         \A b \in Callers : call'[b].at = "undo" => call[b].at = "undo" \/ Fails
  PROVE  Counted'
<1>1. /\ budget["fault"] \in Nat /\ Budget["fault"] \in Nat
      /\ budget'["crash"] = budget["crash"] /\ budget'["fault"] \in Nat
      /\ budget'["fault"] <= budget["fault"]
      /\ Fails => budget'["fault"] = budget["fault"] - 1
  BY BudgetTyped, BudgetStep
<1>2. NoCrash' => NoCrash
  BY <1>1 DEF NoCrash
<1> QED
  BY <1>1, <1>2 DEF Counted

LEMMA StepsKeepCounted ==
  ASSUME FilesTyped, Counted,
         (\E c \in Callers : CallStep(c)) \/ \E d \in Downloads : DownloadStep(d) /\ UNCHANGED call
  PROVE  Counted'
<1>1. ASSUME NEW c \in Callers, CallStep(c) PROVE Counted'
  BY <1>1, CallStepWorksOrFails, CallStepOthers, CountedKept DEF Others
<1>2. ASSUME NEW d \in Downloads, DownloadStep(d), UNCHANGED call PROVE Counted'
  BY <1>2, DownloadStepWorksOrFails, CountedKept
<1> QED
  BY <1>1, <1>2

\* What Found asks of one download.
FoundFor(d) ==
  \/ file[row[d].name] = d
  \/ \E c \in Callers : call[c].id = d /\ call[c].at \in {"persist", "undo"}

\* It is enough to look at the record of the call.
LEMMA FoundKept ==
  ASSUME FilesTyped, Found, Works \/ Fails, NEW c \in Callers, Others(c),
         NEW d, d = call[c].id,
         \A e \in wanted' : row'[e].state = "completed" /\ e # d =>
            e \in wanted /\ row[e].state = "completed" /\ file'[row'[e].name] = file[row[e].name],
         NoCrash' /\ budget'["fault"] + 1 >= Budget["fault"]
           /\ d \in wanted' /\ row'[d].state = "completed" => FoundFor(d)'
  PROVE  Found'
<1>1. /\ budget["fault"] \in Nat /\ Budget["fault"] \in Nat
      /\ budget'["crash"] = budget["crash"] /\ budget'["fault"] \in Nat
      /\ budget'["fault"] <= budget["fault"]
  BY BudgetTyped, BudgetStep
<1> SUFFICES ASSUME NoCrash', budget'["fault"] + 1 >= Budget["fault"],
                    NEW e \in wanted', row'[e].state = "completed"
             PROVE  FoundFor(e)'
  BY DEF Found, FoundFor
<1>2. NoCrash /\ budget["fault"] + 1 >= Budget["fault"]
  BY <1>1 DEF NoCrash
<1>3. CASE e = d
  BY <1>3
<1>4. CASE e # d
  <2>1. e \in wanted /\ row[e].state = "completed" /\ file'[row'[e].name] = file[row[e].name]
    BY <1>4
  <2>2. FoundFor(e)
    BY <1>2, <2>1 DEF Found, FoundFor
  <2>3. ASSUME NEW b \in Callers, call[b].id = e, call[b].at \in {"persist", "undo"}
        PROVE  FoundFor(e)'
    BY <1>4, <2>3 DEF Others, FoundFor
  <2> QED
    BY <2>1, <2>2, <2>3 DEF FoundFor
<1> QED
  BY <1>3, <1>4

LEMMA CallStepKeepsFound ==
  ASSUME FilesTyped, RowInv, NameInv, Counted, Found, NEW c \in Callers, CallStep(c)
  PROVE  Found'
<1> PICK d : d = call[c].id
  OBVIOUS
<1>1. Works \/ Fails
  BY CallStepWorksOrFails
<1>2. Others(c)
  BY CallStepOthers
<1>4. CASE UNCHANGED <<file, wanted, row>> /\ call[c].at \notin MoveSteps
  <2>1. d \in wanted' /\ NoCrash' /\ budget'["fault"] + 1 >= Budget["fault"]
          /\ row'[d].state = "completed" => FoundFor(d)'
    <3> SUFFICES ASSUME d \in wanted, NoCrash', budget'["fault"] + 1 >= Budget["fault"],
                        row[d].state = "completed"
                 PROVE  FoundFor(d)'
      BY <1>4
    <3>1. NoCrash /\ budget["fault"] + 1 >= Budget["fault"]
      BY <1>1, BudgetTyped, BudgetStep DEF NoCrash
    <3>2. FoundFor(d)
      BY <3>1 DEF Found, FoundFor
    <3> QED
      BY <1>2, <1>4, <3>2 DEF FoundFor, Others, MoveSteps
  <2> QED
    BY <1>1, <1>2, <1>4, <2>1, FoundKept
<1>5. CASE Choose(c) \/ Refuse(c) \/ ReserveDestination(c) \/ SaveDownloadCookies(c) \/ Unlink(c)
             \/ Restart(c)
  <2>1. UNCHANGED <<file, wanted, row>> /\ call[c].at \notin MoveSteps
    BY <1>5 DEF Choose, Refuse, ReserveDestination, SaveDownloadCookies, Unlink, Restart, MoveSteps
  <2> QED
    BY <1>4, <2>1
<1>6. CASE InsertRow(c) \/ Requeue(c)
  <2>1. d \in Downloads /\ UNCHANGED <<file, wanted>> /\ row[d].state # "completed"
    BY <1>6, CallFacts DEF InsertRow, Requeue, CreateSteps, RowInv, RowFits
  <2>2. /\ row'[d].state # "completed"
        /\ \A e \in Downloads : e # d => row'[e] = row[e]
    BY <1>6, <2>1 DEF InsertRow, Requeue, SetState, FilesTyped, RowRecords
  <2>4. wanted \subseteq Downloads
    BY DEF FilesTyped
  <2> QED
    BY <1>1, <1>2, <2>1, <2>2, <2>4, FoundKept
<1>7. CASE DeleteRow(c)
  <2>1. /\ d \in Downloads /\ UNCHANGED <<file, wanted>> /\ call[c].at = "forget"
        /\ \A e \in Downloads : e # d => row'[e] = row[e]
    BY <1>7, CallFacts DEF DeleteRow, SetState, FilesTyped
  <2>3. CASE UNCHANGED row
    BY <1>4, <2>1, <2>3 DEF MoveSteps
  <2>4. CASE SetState(d, "gone")
    <3>1. row'[d].state # "completed" /\ wanted \subseteq Downloads
      BY <2>1, <2>4 DEF SetState, FilesTyped, RowRecords
    <3> QED
      BY <1>1, <1>2, <2>1, <3>1, FoundKept
  <2> QED
    BY <1>7, <2>3, <2>4 DEF DeleteRow
<1>8. CASE Cancel(c) \/ DeleteCompletedFile(c) \/ Relocate(c)
  <2>1. call[c].at = "idle"
    BY <1>8 DEF Cancel, DeleteCompletedFile, Relocate
  <2>2. CASE Relocate(c)
    BY <1>4, <2>1, <2>2 DEF Relocate, MoveSteps
  <2>3. CASE Cancel(c)
    <3> PICK e \in Downloads : Open(e) /\ SetState(e, "cancelled")
      BY <2>3 DEF Cancel
    <3>1. /\ row'[e].state # "completed" /\ UNCHANGED <<file, wanted>>
          /\ \A g \in Downloads : g # e => row'[g] = row[g]
      BY <2>3 DEF Cancel, SetState, FilesTyped, RowRecords
    <3>2. /\ wanted \subseteq Downloads
          /\ \A b \in Callers : call[b].id # e
      BY DEF FilesTyped, Open, Untouched
    <3>3. ASSUME NoCrash', budget'["fault"] + 1 >= Budget["fault"], d \in wanted',
                 row'[d].state = "completed"
          PROVE  FoundFor(d)'
      <4>1. NoCrash /\ budget["fault"] + 1 >= Budget["fault"]
        BY <1>1, <3>3, BudgetTyped, BudgetStep DEF NoCrash
      <4>2. d \in wanted /\ row'[d] = row[d]
        BY <3>1, <3>2, <3>3
      <4>3. FoundFor(d)
        BY <3>3, <4>1, <4>2 DEF Found, FoundFor
      <4> QED
        BY <1>2, <2>1, <3>1, <4>2, <4>3 DEF FoundFor, Others
    <3> QED
      BY <1>1, <1>2, <3>1, <3>2, <3>3, FoundKept
  <2>4. CASE DeleteCompletedFile(c)
    <3> PICK e \in Downloads : /\ Completed(e) /\ wanted' = wanted \ {e}
                               /\ file' = [file EXCEPT ![row[e].name] = NoDownload]
      BY <2>4 DEF DeleteCompletedFile
    <3>1. /\ Live(e) /\ row[e].name \in Names /\ UNCHANGED row /\ wanted \subseteq Downloads
      BY <2>4, LiveNamed DEF Completed, Live, DeleteCompletedFile, FilesTyped
    <3>2. ASSUME NEW g \in wanted', row[g].state = "completed"
          PROVE  g \in wanted /\ file'[row[g].name] = file[row[g].name]
      <4>1. g \in wanted /\ g # e /\ g \in Downloads /\ Live(g)
        BY <3>1, <3>2 DEF Live
      <4>2. row[g].name # row[e].name /\ row[g].name \in Names
        BY <3>1, <4>1, LiveNamed DEF NameInv, OwnNames
      <4> QED
        BY <4>1, <4>2 DEF FilesTyped
    <3>3. ASSUME NoCrash', budget'["fault"] + 1 >= Budget["fault"], d \in wanted',
                 row'[d].state = "completed"
          PROVE  FoundFor(d)'
      <4>1. NoCrash /\ budget["fault"] + 1 >= Budget["fault"]
        BY <1>1, <3>3, BudgetTyped, BudgetStep DEF NoCrash
      <4>2. d \in wanted /\ file'[row[d].name] = file[row[d].name]
        BY <3>1, <3>2, <3>3
      <4>3. FoundFor(d)
        BY <3>1, <3>3, <4>1, <4>2 DEF Found, FoundFor
      <4> QED
        BY <1>2, <2>1, <3>1, <4>2, <4>3 DEF FoundFor, Others
    <3> QED
      BY <1>1, <1>2, <3>1, <3>2, <3>3, FoundKept
  <2> QED
    BY <1>8, <2>2, <2>3, <2>4
<1>9. CASE MoveFile(c) \/ RemoveOriginal(c) \/ Undo(c)
  <2>1. /\ call[c].at \in MoveSteps /\ UNCHANGED <<row, wanted>>
        /\ \A m \in Names : m \notin {call[c].from, call[c].to} => file'[m] = file[m]
    BY <1>9, MoveEffect
  <2>2. d \in Downloads /\ row[d].name = call[c].from
    BY <2>1, CallFacts, NamesOfCall
  <2>3. ASSUME NEW g \in wanted', row'[g].state = "completed", g # d
        PROVE  g \in wanted /\ row[g].state = "completed" /\ file'[row'[g].name] = file[row[g].name]
    <3>1. g \in Downloads /\ Live(g)
      BY <2>1, <2>3 DEF FilesTyped, Live
    <3>2. row[g].name \in Names /\ row[g].name \notin {call[c].from, call[c].to}
      BY <2>1, <2>3, <3>1, LiveNamed, NamesOfCall DEF Own
    <3> QED
      BY <2>1, <2>3, <3>2
  <2>5. ASSUME NoCrash', budget'["fault"] + 1 >= Budget["fault"] PROVE FoundFor(d)'
    <3>1. /\ FileFits(c)' /\ call'[c].id = d /\ d # NoDownload
          /\ file'[call[c].from] \in {NoDownload, d}
      <4>1. call'[c].id = d
        BY <1>9, Went DEF MoveFile, RemoveOriginal, Undo
      <4> QED
        BY <1>9, <2>2, <4>1, MoveEffect, FilesAssumption
    <3>2. CASE call'[c].at = "persist"
      BY <3>1, <3>2 DEF FoundFor
    <3>3. CASE call'[c].at = "copied"
      <4>1. call'[c].from = call[c].from
        BY <1>9, Went DEF MoveFile, RemoveOriginal, Undo
      <4>2. file'[call[c].from] = d
        BY <3>1, <3>3, <4>1 DEF FileFits
      <4> QED
        BY <2>1, <2>2, <4>2 DEF FoundFor
    <3>4. CASE MoveFile(c) /\ call'[c].at \notin {"persist", "copied"}
      <4>1. call[c].at = "move" /\ call[c].from # call[c].to /\ Empty(call[c].from)
        BY <3>4, Went DEF MoveFile
      <4>2. file[call[c].from] = d
        BY <4>1 DEF NameInv, FileFits
      <4> QED
        BY <3>1, <4>1, <4>2 DEF Empty
    <3>5. CASE RemoveOriginal(c) /\ call'[c].at # "persist"
      <4>1. /\ call[c].from # call[c].to /\ file[call[c].from] = d
            /\ file' = [file EXCEPT ![call[c].to] = NoDownload]
        BY <3>5, Went DEF RemoveOriginal, NameInv, FileFits
      <4>2. file'[call[c].from] = d
        BY <2>1, <4>1, CallFacts DEF FilesTyped
      <4> QED
        BY <2>1, <2>2, <4>2 DEF FoundFor
    <3>6. CASE Undo(c)
      <4>1. call[c].at = "undo" /\ file[call[c].to] = d
            /\ (call[c].from # call[c].to => Empty(call[c].from))
        BY <3>6 DEF Undo, NameInv, FileFits
      <4>2. NoCrash /\ budget["fault"] < Budget["fault"]
        BY <1>1, <2>5, <4>1, BudgetStep DEF Counted, NoCrash
      <4>3. ~Fails
        BY <2>5, <4>2, BudgetStep, BudgetTyped
      <4>4. \/ call[c].from = call[c].to /\ UNCHANGED file
            \/ call[c].from # call[c].to /\ file' = MovedTo(call[c].to, call[c].from)
        BY <3>6, <4>1, <4>3 DEF Undo
      <4>5. call[c].from \in Names /\ call[c].to \in Names /\ DOMAIN file = Names
        BY <2>1, CallFacts DEF FilesTyped
      <4>6. file'[call[c].from] = d
        BY <4>1, <4>4, <4>5 DEF MovedTo
      <4> QED
        BY <2>1, <2>2, <4>6 DEF FoundFor
    <3> QED
      BY <1>9, <3>2, <3>3, <3>4, <3>5, <3>6
  <2> QED
    BY <1>1, <1>2, <2>3, <2>5, FoundKept
<1>10. CASE PersistPath(c)
  <2>1. /\ call[c].at = "persist" /\ UNCHANGED <<file, wanted>> /\ call[c].at \in MoveSteps
        /\ file[call[c].to] = d
    BY <1>10 DEF PersistPath, NameInv, FileFits, MoveSteps
  <2>2. d \in Downloads
    BY <2>1, CallFacts
  <2>3. CASE Fails /\ Go(c, "undo") /\ UNCHANGED row
    <3>1. call'[c].at = "undo" /\ call'[c].id = d
      BY <2>3, Went
    <3>2. FoundFor(d)'
      BY <3>1 DEF FoundFor
    <3> QED
      BY <1>1, <1>2, <2>1, <2>3, <3>2, FoundKept
  <2>4. CASE row' = [row EXCEPT ![d].name = call[c].to] /\ End(c)
    <3>1. /\ row'[d].name = call[c].to /\ \A e \in Downloads : e # d => row'[e] = row[e]
          /\ wanted \subseteq Downloads
      BY <2>2, <2>4 DEF FilesTyped, RowRecords
    <3>2. FoundFor(d)'
      BY <2>1, <3>1 DEF FoundFor
    <3> QED
      BY <1>1, <1>2, <2>1, <3>1, <3>2, FoundKept
  <2> QED
    BY <1>10, <2>3, <2>4 DEF PersistPath
<1> QED
  BY <1>5, <1>6, <1>7, <1>8, <1>9, <1>10 DEF CallStep

LEMMA DownloadStepKeepsFound ==
  ASSUME FilesTyped, RowInv, NameInv, Found, NEW d \in Downloads, DownloadStep(d)
  PROVE  Found'
<1>1. Works \/ Fails
  BY DownloadStepWorksOrFails
<1>2. UNCHANGED call
  BY DEF DownloadStep, StartRun, StopRun, Publish, RecordCompleted, CancelRun, RemoveRecord,
         RemoveHistory
<1>4. Live(d) /\ row[d].name \in Names /\ wanted \subseteq Downloads
  <2>1. Live(d)
    BY DEF DownloadStep, StartRun, StopRun, Publish, RecordCompleted, CancelRun, RemoveRecord,
           RemoveHistory, Open, Completed, RowInv, RunFits, Live
  <2> QED
    BY <2>1, LiveNamed DEF FilesTyped
<1>5. \A m \in Names : m # row[d].name => file'[m] = file[m]
  BY <1>4 DEF DownloadStep, StartRun, StopRun, Publish, RecordCompleted, CancelRun, RemoveRecord,
              RemoveHistory, FilesTyped
<1>6. /\ \A e \in Downloads : e # d => row'[e] = row[e]
      /\ \A e \in wanted' : e # d => e \in wanted
  BY DEF DownloadStep, StartRun, StopRun, Publish, RecordCompleted, CancelRun, RemoveRecord,
         RemoveHistory, SetState, FilesTyped
<1>7. d \in wanted' /\ row'[d].state = "completed" =>
        /\ file'[row'[d].name] = d
        \/ UNCHANGED <<file, wanted, row>>
  <2>1. CASE StartRun(d) \/ StopRun(d)
    BY <2>1 DEF StartRun, StopRun
  <2>2. CASE Publish(d)
    <3>1. row'[d].state = "open"
      BY <2>2 DEF Publish, RowInv, RunFits
    <3> QED
      BY <3>1
  <2>3. CASE CancelRun(d) \/ RemoveRecord(d) \/ RemoveHistory(d)
    <3>1. row'[d].state \in {"open", "cancelled", "gone"}
      BY <1>4, <2>3
      DEF CancelRun, RemoveRecord, RemoveHistory, SetState, FilesTyped, RowRecords, RowInv, RunFits
    <3> QED
      BY <3>1
  <2>4. CASE RecordCompleted(d)
    <3>1. file[row[d].name] = d /\ UNCHANGED file
      BY <2>4 DEF RecordCompleted, NameInv, HasPublished
    <3>2. row'[d].name = row[d].name
      BY <2>4 DEF RecordCompleted, SetState, FilesTyped, RowRecords
    <3> QED
      BY <3>1, <3>2
  <2> QED
    BY <2>1, <2>2, <2>3, <2>4 DEF DownloadStep
<1>8. Found'
  <2> SUFFICES ASSUME NoCrash', budget'["fault"] + 1 >= Budget["fault"],
                      NEW e \in wanted', row'[e].state = "completed"
               PROVE  FoundFor(e)'
    BY DEF Found, FoundFor
  <2>1. NoCrash /\ budget["fault"] + 1 >= Budget["fault"]
    BY <1>1, BudgetTyped, BudgetStep DEF NoCrash
  <2>2. CASE e = d
    <3>1. CASE file'[row'[d].name] = d
      BY <2>2, <3>1 DEF FoundFor
    <3>2. CASE UNCHANGED <<file, wanted, row>>
      BY <1>2, <2>1, <3>2 DEF Found, FoundFor
    <3> QED
      BY <1>7, <2>2, <3>1, <3>2
  <2>3. CASE e # d
    <3>1. e \in wanted /\ e \in Downloads /\ row'[e] = row[e] /\ Live(e)
      BY <1>4, <1>6, <2>3 DEF Live
    <3>2. FoundFor(e)
      BY <2>1, <3>1 DEF Found, FoundFor
    <3>3. file'[row[e].name] = file[row[e].name]
      <4>1. row[e].name # row[d].name /\ row[e].name \in Names
        BY <1>4, <2>3, <3>1, LiveNamed DEF NameInv, OwnNames
      <4> QED
        BY <1>5, <4>1
    <3> QED
      BY <1>2, <3>1, <3>2, <3>3 DEF FoundFor
  <2> QED
    BY <2>2, <2>3
<1> QED
  BY <1>8

(***************************************************************************)
(* Temporary files and cookies.                                            *)
(***************************************************************************)
LEMMA NothingLeft ==
  ASSUME FilesTyped, NoCrash => AllKept
  PROVE  NothingLeftBehind
<1>1. \A n \in part : PartKept(n) =>
        n \in {row[d].name : d \in {e \in Downloads : Keeps(e)}}
                \cup {call[c].to : c \in At({"protect", "insert"})}
                \cup {call[c].from : c \in At({"requeue", "unlink"})}
  BY DEF PartKept, RowKeeps, CallKeeps, At
<1>2. \A d \in secret : SecretKept(d) =>
        d \in {e \in Downloads : Keeps(e)} \cup {call[c].id : c \in At({"insert", "unlink"})}
  BY DEF SecretKept, CallProtects, At, FilesTyped
<1> QED
  BY <1>1, <1>2 DEF NothingLeftBehind, AllKept

\* It is enough to look at what a step lets go of.
LEMMA PartsKept ==
  ASSUME AllKept, NEW c \in Callers, Others(c),
         \A d \in Downloads, n \in part' : RowKeeps(d) /\ row[d].name = n => PartKept(n)',
         \A n \in part' : CallKeeps(c, n) => PartKept(n)',
         \A n \in part' : n \in part \/ PartKept(n)'
  PROVE  \A n \in part' : PartKept(n)'
<1> SUFFICES ASSUME NEW n \in part', n \in part PROVE PartKept(n)'
  OBVIOUS
<1>1. ASSUME NEW d \in Downloads, RowKeeps(d), row[d].name = n
      PROVE  PartKept(n)'
  BY <1>1
<1>2. ASSUME NEW b \in Callers, b # c, CallKeeps(b, n)
      PROVE  PartKept(n)'
  <2>1. CallKeeps(b, n)'
    BY <1>2 DEF CallKeeps, Others
  <2> QED
    BY <2>1 DEF PartKept
<1>3. PartKept(n)
  BY DEF AllKept
<1> QED
  BY <1>1, <1>2, <1>3 DEF PartKept

LEMMA SecretsKept ==
  ASSUME AllKept, NEW c \in Callers, Others(c),
         \A d \in secret' : Keeps(d) => SecretKept(d)',
         \A d \in secret' : CallProtects(c, d) => SecretKept(d)',
         \A d \in secret' : d \in secret \/ SecretKept(d)'
  PROVE  \A d \in secret' : SecretKept(d)'
<1> SUFFICES ASSUME NEW d \in secret', d \in secret PROVE SecretKept(d)'
  OBVIOUS
<1>1. ASSUME NEW b \in Callers, b # c, CallProtects(b, d)
      PROVE  SecretKept(d)'
  <2>1. CallProtects(b, d)'
    BY <1>1 DEF CallProtects, Others
  <2> QED
    BY <2>1 DEF SecretKept
<1>2. SecretKept(d)
  BY DEF AllKept
<1> QED
  BY <1>1, <1>2 DEF SecretKept

LEMMA RowsKept ==
  ASSUME FilesTyped, Works \/ Fails, NEW d \in Downloads, row'[d] = row[d]
  PROVE  /\ row'[d].name = row[d].name
         /\ Keeps(d) => Keeps(d)'
         /\ RowKeeps(d) /\ run'[d] = run[d] => RowKeeps(d)'
BY BudgetTyped, BudgetStep DEF Keeps, RowKeeps

\* Steps that take nothing and leave open and cancelled rows alone.
LEMMA QuietKeepsAll ==
  ASSUME FilesTyped, AllKept, Works \/ Fails, NEW c \in Callers, Others(c),
         UNCHANGED <<part, secret, run>>,
         call[c].at \notin {"protect", "insert", "requeue", "unlink"},
         \A e \in Downloads : row[e].state \in {"open", "cancelled"} => row'[e] = row[e]
  PROVE  AllKept'
<1>1. \A e \in Downloads : Keeps(e) => row'[e] = row[e]
  BY DEF Keeps
<1>2. \A e \in Downloads, n \in part' : RowKeeps(e) /\ row[e].name = n => PartKept(n)'
  <2> SUFFICES ASSUME NEW e \in Downloads, NEW n \in part', RowKeeps(e), row[e].name = n
               PROVE  PartKept(n)'
    OBVIOUS
  <2>1. row'[e] = row[e]
    BY <1>1 DEF RowKeeps
  <2> QED
    BY <2>1, RowsKept DEF PartKept
<1>3. \A n \in part' : ~CallKeeps(c, n)
  BY DEF CallKeeps
<1>4. \A d \in secret' : ~CallProtects(c, d)
  BY DEF CallProtects
<1>5. \A d \in secret' : Keeps(d) => SecretKept(d)'
  BY <1>1, RowsKept DEF SecretKept, FilesTyped
<1>6. \A n \in part' : PartKept(n)'
  BY <1>2, <1>3, PartsKept
<1>7. \A d \in secret' : SecretKept(d)'
  BY <1>4, <1>5, SecretsKept
<1> QED
  BY <1>6, <1>7 DEF AllKept

LEMMA CreateStepKeepsAll ==
  ASSUME FilesTyped, RowInv, AllKept, NEW c \in Callers,
         ReserveDestination(c) \/ SaveDownloadCookies(c) \/ InsertRow(c)
  PROVE  AllKept'
<1> PICK d, t : d = call[c].id /\ t = call[c].to
  OBVIOUS
<1>1. d \in Downloads /\ t \in Names /\ row[d].state = "none" /\ run[d] = "idle" /\ UNCHANGED run
  BY CallFacts, CallHasRow
  DEF ReserveDestination, SaveDownloadCookies, InsertRow, CreateSteps, RowInv, RowFits
<1>2. Works \/ Fails
  BY DEF ReserveDestination, SaveDownloadCookies, InsertRow, Works
<1>3. \A e \in Downloads : e # d => row'[e] = row[e]
  BY DEF ReserveDestination, SaveDownloadCookies, InsertRow, FilesTyped
<1>4. \A e \in Downloads, n \in part' : RowKeeps(e) /\ row[e].name = n => PartKept(n)'
  <2> SUFFICES ASSUME NEW e \in Downloads, NEW n \in part', RowKeeps(e), row[e].name = n
               PROVE  PartKept(n)'
    OBVIOUS
  <2>1. row'[e] = row[e]
    BY <1>1, <1>3 DEF RowKeeps, Keeps
  <2> QED
    BY <1>1, <1>2, <2>1, RowsKept DEF PartKept
<1>5. \A e \in Downloads : Keeps(e) => SecretKept(e)'
  <2>1. \A e \in Downloads : Keeps(e) => row'[e] = row[e]
    BY <1>1, <1>3 DEF Keeps
  <2> QED
    BY <1>2, <2>1, RowsKept DEF SecretKept
<1>6. secret' \subseteq Downloads
  BY <1>1 DEF ReserveDestination, SaveDownloadCookies, InsertRow, FilesTyped
<1>7. ASSUME Others(c),
             \A n \in part' : (CallKeeps(c, n) => PartKept(n)') /\ (n \in part \/ PartKept(n)'),
             \A e \in secret' : /\ CallProtects(c, e) => SecretKept(e)'
                                /\ e \in secret \/ SecretKept(e)'
      PROVE  AllKept'
  <2>1. \A n \in part' : PartKept(n)'
    BY <1>4, <1>7, PartsKept
  <2>2. \A e \in secret' : SecretKept(e)'
    BY <1>5, <1>6, <1>7, SecretsKept
  <2> QED
    BY <2>1, <2>2 DEF AllKept
<1>8. CASE ReserveDestination(c)
  <2>1. call[c].at = "reserve" /\ UNCHANGED <<row, secret>> /\ Works
    BY <1>8 DEF ReserveDestination, Works
  <2>2. CASE UNCHANGED part
    <3>1. Others(c)
      BY <1>8, Went DEF ReserveDestination, FilesTyped, Others
    <3> QED
      BY <1>1, <2>1, <2>2, <3>1, QuietKeepsAll
  <2>3. CASE part' = part \cup {t} /\ Go(c, "protect")
    <3>1. Others(c) /\ call'[c].at = "protect" /\ call'[c].to = t
      BY <2>3, Went
    <3>2. PartKept(t)'
      BY <3>1 DEF PartKept, CallKeeps
    <3> QED
      BY <1>7, <2>1, <2>3, <3>1, <3>2 DEF CallKeeps, CallProtects
  <2> QED
    BY <1>8, <2>2, <2>3 DEF ReserveDestination
<1>9. CASE SaveDownloadCookies(c)
  <2>1. call[c].at = "protect" /\ UNCHANGED row
    BY <1>9 DEF SaveDownloadCookies
  <2>2. CASE Go(c, "insert") /\ secret' \in {secret, secret \cup {d}} /\ UNCHANGED part
    <3>1. /\ Others(c) /\ call'[c].at = "insert" /\ call'[c].to = t /\ call'[c].id = d
      BY <2>2, Went
    <3>2. PartKept(t)' /\ SecretKept(d)'
      BY <3>1 DEF PartKept, CallKeeps, SecretKept, CallProtects
    <3> QED
      BY <1>7, <2>1, <2>2, <3>1, <3>2 DEF CallKeeps, CallProtects
  <2>3. CASE Go(c, "refused") /\ part' = part \ {t} /\ UNCHANGED secret
    <3>1. Others(c)
      BY <2>3, Went
    <3> QED
      BY <1>7, <2>1, <2>3, <3>1 DEF CallKeeps, CallProtects
  <2> QED
    BY <1>9, <2>2, <2>3 DEF SaveDownloadCookies
<1>10. CASE InsertRow(c)
  <2>1. call[c].at = "insert"
    BY <1>10 DEF InsertRow
  <2>2. CASE /\ Go(c, "created") /\ UNCHANGED <<part, secret>>
             /\ row' = [row EXCEPT ![d] = [state |-> "open", name |-> t]]
    <3>1. Others(c) /\ row'[d].state = "open" /\ row'[d].name = t
      BY <1>1, <2>2, Went DEF FilesTyped
    <3>2. PartKept(t)' /\ SecretKept(d)'
      BY <1>1, <3>1 DEF PartKept, RowKeeps, Keeps, SecretKept
    <3> QED
      BY <1>7, <2>1, <2>2, <3>1, <3>2 DEF CallKeeps, CallProtects
  <2>3. CASE Go(c, "refused") /\ part' = part \ {t} /\ secret' = secret \ {d}
    <3>1. Others(c)
      BY <2>3, Went
    <3> QED
      BY <1>7, <2>1, <2>3, <3>1 DEF CallKeeps, CallProtects
  <2> QED
    BY <1>10, <2>2, <2>3 DEF InsertRow
<1> QED
  BY <1>8, <1>9, <1>10

LEMMA RestartStepKeepsAll ==
  ASSUME FilesTyped, RowInv, Counted, AllKept, NEW c \in Callers,
         Cancel(c) \/ Unlink(c) \/ Restart(c) \/ Requeue(c)
  PROVE  AllKept'
<1>1. Works \/ Fails
  BY DEF Cancel, Unlink, Restart, Requeue, CleanUp, Works
<1>2. ASSUME NEW e \in Downloads, row'[e] = row[e]
      PROVE  /\ \A n : RowKeeps(e) /\ row[e].name = n => PartKept(n)'
             /\ Keeps(e) => SecretKept(e)'
  <2>1. UNCHANGED run
    BY DEF Cancel, Unlink, Restart, Requeue
  <2> QED
    BY <1>1, <1>2, <2>1, RowsKept DEF PartKept, SecretKept
<1>3. secret' \subseteq Downloads
  BY DEF Cancel, Unlink, Restart, Requeue, CleanUp, FilesTyped
<1>4. ASSUME Others(c),
             \A e \in Downloads, n \in part' : RowKeeps(e) /\ row[e].name = n => PartKept(n)',
             \A n \in part' : (CallKeeps(c, n) => PartKept(n)') /\ (n \in part \/ PartKept(n)'),
             \A e \in secret' : /\ Keeps(e) \/ CallProtects(c, e) => SecretKept(e)'
                                /\ e \in secret
      PROVE  AllKept'
  <2>1. \A n \in part' : PartKept(n)'
    BY <1>4, PartsKept
  <2>2. \A e \in secret' : SecretKept(e)'
    BY <1>4, SecretsKept
  <2> QED
    BY <2>1, <2>2 DEF AllKept
<1>5. CASE Cancel(c)
  <2> PICK d \in Downloads : /\ Open(d) /\ SetState(d, "cancelled")
                             /\ Begin(c, "unlink", d, row[d].name, NoName)
    BY <1>5 DEF Cancel
  <2>1. UNCHANGED <<part, secret>> /\ call[c].at = "idle"
    BY <1>5 DEF Cancel
  <2>2. Others(c) /\ call'[c].at = "unlink" /\ call'[c].id = d /\ call'[c].from = row[d].name
    BY Began
  <2>3. \A e \in Downloads : e # d => row'[e] = row[e]
    BY DEF SetState, FilesTyped
  <2>4. SecretKept(d)'
    BY <2>2 DEF SecretKept, CallProtects
  <2>5. \A n : n = row[d].name => PartKept(n)'
    BY <2>2 DEF PartKept, CallKeeps
  <2>6. \A e \in Downloads : e # d /\ Keeps(e) => SecretKept(e)'
    BY <1>2, <2>3
  <2>7. \A e \in Downloads, n \in part' : RowKeeps(e) /\ row[e].name = n => PartKept(n)'
    BY <1>2, <2>3, <2>5
  <2> QED
    BY <1>3, <1>4, <2>1, <2>2, <2>4, <2>6, <2>7 DEF CallKeeps, CallProtects
<1>6. CASE Unlink(c)
  <2> PICK d, f : d = call[c].id /\ f = call[c].from
    OBVIOUS
  <2>1. /\ call[c].at = "unlink" /\ UNCHANGED <<row, run>> /\ d \in Downloads
        /\ row[d].state = "cancelled" /\ row[d].name = f /\ run[d] = "idle"
    BY <1>6, CallFacts, CallHasRow DEF Unlink, RowInv, RowFits
  <2>2. Others(c)
    BY <1>6, Ended DEF Unlink
  <2>3. \A e \in Downloads : Keeps(e) => SecretKept(e)'
    BY <1>2, <2>1
  <2>4. \A e \in Downloads, n \in part' : RowKeeps(e) /\ row[e].name = n => PartKept(n)'
    BY <1>2, <2>1
  <2>5. part' \subseteq part /\ secret' \subseteq secret
    BY <1>6 DEF Unlink, CleanUp
  <2>6. \/ f \notin part' /\ d \notin secret'
        \/ PartKept(f)' /\ SecretKept(d)'
    <3>1. CASE Works /\ part' = part \ {f} /\ secret' = secret \ {d}
      BY <3>1
    <3>2. CASE Fails
      <4>1. budget'["fault"] < Budget["fault"]
        BY <3>2, BudgetTyped, BudgetStep DEF Counted
      <4>2. row'[d] = row[d] /\ Keeps(d)' /\ RowKeeps(d)'
        BY <2>1, <4>1 DEF Keeps, RowKeeps
      <4> QED
        BY <2>1, <4>2 DEF PartKept, SecretKept
    <3> QED
      BY <1>6, <3>1, <3>2 DEF Unlink, CleanUp
  <2> QED
    BY <1>3, <1>4, <2>1, <2>2, <2>3, <2>4, <2>5, <2>6 DEF CallKeeps, CallProtects
<1>7. CASE Restart(c)
  <2> PICK d \in Downloads : /\ part' = part \cup {row[d].name}
                             /\ Begin(c, "requeue", d, row[d].name, NoName)
    BY <1>7 DEF Restart
  <2>1. UNCHANGED <<row, secret>> /\ call[c].at = "idle"
    BY <1>7 DEF Restart
  <2>2. Others(c) /\ call'[c].at = "requeue" /\ call'[c].from = row[d].name
    BY Began
  <2>3. \A n : n = row[d].name => PartKept(n)'
    BY <2>2 DEF PartKept, CallKeeps
  <2>4. \A e \in Downloads : Keeps(e) => SecretKept(e)'
    BY <1>2, <2>1
  <2>5. \A e \in Downloads, n \in part' : RowKeeps(e) /\ row[e].name = n => PartKept(n)'
    BY <1>2, <2>1
  <2> QED
    BY <1>3, <1>4, <2>1, <2>2, <2>3, <2>4, <2>5 DEF CallKeeps, CallProtects
<1>8. CASE Requeue(c)
  <2> PICK d : d = call[c].id
    OBVIOUS
  <2>1. /\ call[c].at = "requeue" /\ UNCHANGED <<part, secret>> /\ d \in Downloads
        /\ row[d].state \in {"open", "cancelled"} /\ row[d].name = call[c].from
        /\ run'[d] = "idle"
    BY <1>8, CallFacts, CallHasRow DEF Requeue, RowInv, RowFits
  <2>2. Others(c)
    BY <1>8, Ended DEF Requeue
  <2>3. /\ row'[d].name = row[d].name
        /\ \A e \in Downloads : e # d => row'[e] = row[e]
    BY <1>8, <2>1 DEF Requeue, SetState, FilesTyped, RowRecords
  <2>4. Keeps(d)'
    <3>1. CASE SetState(d, "open")
      BY <2>1, <3>1 DEF Keeps, SetState, FilesTyped, RowRecords
    <3>2. CASE Fails /\ UNCHANGED row
      <4>1. budget'["fault"] < Budget["fault"]
        BY <3>2, BudgetTyped, BudgetStep DEF Counted
      <4> QED
        BY <2>1, <3>2, <4>1 DEF Keeps
    <3> QED
      BY <1>8, <3>1, <3>2 DEF Requeue
  <2>5. \A n : n = row[d].name => PartKept(n)'
    BY <2>1, <2>3, <2>4 DEF PartKept, RowKeeps
  <2>6. \A e \in Downloads : Keeps(e) => SecretKept(e)'
    BY <1>2, <2>3, <2>4 DEF SecretKept
  <2>7. \A e \in Downloads, n \in part' : RowKeeps(e) /\ row[e].name = n => PartKept(n)'
    BY <1>2, <2>3, <2>5
  <2> QED
    BY <1>3, <1>4, <2>1, <2>2, <2>5, <2>6, <2>7 DEF CallKeeps, CallProtects
<1> QED
  BY <1>5, <1>6, <1>7, <1>8

LEMMA CallStepKeepsAll ==
  ASSUME FilesTyped, RowInv, Counted, AllKept, NEW c \in Callers, CallStep(c)
  PROVE  AllKept'
<1>1. Works \/ Fails
  BY CallStepWorksOrFails
<1>2. CASE Choose(c) \/ Refuse(c)
  <2>1. UNCHANGED <<part, secret, row, run>> /\ call[c].at \in {"idle", "confirm"}
    BY <1>2 DEF Choose, Refuse
  <2>2. Others(c)
    BY <1>2, Went, Began DEF Choose, Refuse
  <2> QED
    BY <1>1, <2>1, <2>2, QuietKeepsAll
<1>3. CASE MoveFile(c) \/ RemoveOriginal(c) \/ Undo(c)
  <2>1. UNCHANGED <<part, secret, row, run>> /\ call[c].at \in MoveSteps
    BY <1>3 DEF MoveFile, RemoveOriginal, Undo, MoveSteps
  <2>2. Others(c)
    BY <1>3, Went DEF MoveFile, RemoveOriginal, Undo
  <2> QED
    BY <1>1, <2>1, <2>2, QuietKeepsAll DEF MoveSteps
<1>4. CASE Relocate(c) \/ DeleteCompletedFile(c)
  <2>1. UNCHANGED <<part, secret, row, run>> /\ call[c].at = "idle"
    BY <1>4 DEF Relocate, DeleteCompletedFile
  <2>2. Others(c)
    BY <1>4, Began DEF Relocate, DeleteCompletedFile
  <2> QED
    BY <1>1, <2>1, <2>2, QuietKeepsAll
<1>5. CASE PersistPath(c) \/ DeleteRow(c)
  <2>1. UNCHANGED <<part, secret, run>> /\ call[c].at \in {"persist", "forget"}
    BY <1>5 DEF PersistPath, DeleteRow
  <2>2. Others(c)
    BY <1>5, Went, Ended DEF PersistPath, DeleteRow
  <2>3. call[c].id \in Downloads /\ row[call[c].id].state = "completed"
    BY <2>1, CallFacts DEF RowInv, RowFits, MoveSteps
  <2>4. \A e \in Downloads : e # call[c].id => row'[e] = row[e]
    BY <1>5 DEF PersistPath, DeleteRow, SetState, FilesTyped
  <2> QED
    BY <1>1, <2>1, <2>2, <2>3, <2>4, QuietKeepsAll
<1> QED
  BY <1>2, <1>3, <1>4, <1>5, CreateStepKeepsAll, RestartStepKeepsAll DEF CallStep

LEMMA DownloadStepKeepsAll ==
  ASSUME FilesTyped, RowInv, Counted, AllKept, NEW d \in Downloads, DownloadStep(d)
  PROVE  AllKept'
<1>1. Works \/ Fails
  BY DownloadStepWorksOrFails
<1>2. /\ UNCHANGED call /\ row'[d].name = row[d].name
      /\ \A e \in Downloads \ {d} : row'[e] = row[e] /\ run'[e] = run[e]
  BY DownloadStepFacts
<1>3. /\ RowKeeps(d) => RowKeeps(d)' \/ row[d].name \notin part'
      /\ Keeps(d) => Keeps(d)' \/ d \notin secret'
      /\ \A n \in part' : n \in part \/ (n = row[d].name /\ RowKeeps(d)')
      /\ secret' \subseteq secret
  <2>1. CASE StartRun(d) \/ StopRun(d)
    BY <2>1 DEF StartRun, StopRun, Open, RowInv, RunFits, RowKeeps, Keeps, FilesTyped
  <2>2. CASE Publish(d)
    BY <2>2 DEF Publish, RowInv, RunFits, Keeps
  <2>3. CASE RecordCompleted(d)
    BY <2>3 DEF RecordCompleted, RowKeeps
  <2>4. CASE CancelRun(d)
    <3>1. part' \subseteq part /\ secret' \subseteq secret /\ run'[d] = "idle"
      BY <2>4 DEF CancelRun, CleanUp, FilesTyped
    <3>2. (row[d].name \notin part' /\ d \notin secret') \/ Keeps(d)'
      <4>1. ASSUME Fails PROVE Keeps(d)'
        <5>1. budget'["fault"] < Budget["fault"]
          BY <4>1, BudgetTyped, BudgetStep DEF Counted
        <5>2. row'[d].state \in {"open", "cancelled"}
          BY <2>4 DEF CancelRun, SetState, FilesTyped, RowRecords, RowInv, RunFits
        <5> QED
          BY <5>1, <5>2 DEF Keeps
      <4> QED
        BY <2>4, <4>1 DEF CancelRun, CleanUp
    <3> QED
      BY <3>1, <3>2 DEF RowKeeps
  <2>5. CASE RemoveRecord(d) \/ RemoveHistory(d)
    <3>1. ~Keeps(d) /\ part' = part /\ secret' \subseteq secret
      BY <2>5 DEF RemoveRecord, RemoveHistory, Completed, Keeps
    <3> QED
      BY <3>1 DEF RowKeeps
  <2> QED
    BY <2>1, <2>2, <2>3, <2>4, <2>5 DEF DownloadStep
<1>4. ASSUME NEW n \in part' PROVE PartKept(n)'
  <2>1. ASSUME RowKeeps(d)', n = row[d].name PROVE PartKept(n)'
    BY <1>2, <2>1 DEF PartKept
  <2>2. ASSUME NEW e \in Downloads, RowKeeps(e), row[e].name = n PROVE PartKept(n)'
    <3>1. CASE e = d
      BY <1>3, <2>1, <2>2, <3>1
    <3>2. CASE e # d
      BY <1>1, <1>2, <2>2, <3>2, RowsKept DEF PartKept
    <3> QED
      BY <3>1, <3>2
  <2>3. ASSUME NEW b \in Callers, CallKeeps(b, n) PROVE PartKept(n)'
    BY <1>2, <2>3 DEF PartKept, CallKeeps
  <2> QED
    BY <1>3, <2>1, <2>2, <2>3 DEF AllKept, PartKept
<1>5. ASSUME NEW e \in secret' PROVE SecretKept(e)'
  <2>1. e \in secret /\ e \in Downloads /\ SecretKept(e)
    BY <1>3, <1>5 DEF FilesTyped, AllKept
  <2>2. ASSUME Keeps(e) PROVE SecretKept(e)'
    <3>1. CASE e = d
      BY <1>3, <1>5, <2>2, <3>1 DEF SecretKept
    <3>2. CASE e # d
      BY <1>1, <1>2, <2>1, <2>2, <3>2, RowsKept DEF SecretKept
    <3> QED
      BY <3>1, <3>2
  <2>3. ASSUME NEW b \in Callers, CallProtects(b, e) PROVE SecretKept(e)'
    BY <1>2, <2>3 DEF SecretKept, CallProtects
  <2> QED
    BY <2>1, <2>2, <2>3 DEF SecretKept
<1> QED
  BY <1>4, <1>5 DEF AllKept

(***************************************************************************)
(* Every step of Handoff.                                                  *)
(***************************************************************************)
LEMMA NoCrashStays ==
  ASSUME FilesTyped, Works \/ Fails, NoCrash'
  PROVE  NoCrash
BY BudgetStep DEF NoCrash

LEMMA CallStepKeepsFInv ==
  ASSUME FilesTyped, FInv, NEW c \in Callers, CallStep(c), shared => shared'
  PROVE  FInv'
<1>1. RowInv'
  BY CallStepKeepsRows DEF FInv
<1>2. Counted'
  BY StepsKeepCounted DEF FInv
<1>3. NoCrash' => AllKept'
  BY CallStepWorksOrFails, NoCrashStays, CallStepKeepsAll DEF FInv
<1>4. ~shared' => NameInv' /\ FilesSurvive' /\ Found'
  BY CallStepKeepsNames, CallStepKeepsFiles, CallStepKeepsFound DEF FInv
<1> QED
  BY <1>1, <1>2, <1>3, <1>4 DEF FInv

LEMMA DownloadStepKeepsFInv ==
  ASSUME FilesTyped, FInv, NEW d \in Downloads, DownloadStep(d)
  PROVE  FInv'
<1>1. RowInv' /\ UNCHANGED <<call, shared>>
  BY DownloadStepKeepsRows, DownloadStepFacts DEF FInv
<1>2. Counted'
  BY <1>1, StepsKeepCounted DEF FInv
<1>3. NoCrash' => AllKept'
  BY DownloadStepWorksOrFails, NoCrashStays, DownloadStepKeepsAll DEF FInv
<1>4. ~shared' => NameInv' /\ FilesSurvive' /\ Found'
  BY <1>1, DownloadStepKeepsNames, DownloadStepKeepsFiles, DownloadStepKeepsFound DEF FInv
<1> QED
  BY <1>1, <1>2, <1>3, <1>4 DEF FInv

\* A caller begins a confirmation, or is answered: no file, row or name is touched.
LEMMA AnswerKeepsFInv ==
  ASSUME FilesTyped, FInv, NEW c \in Callers,
         \/ End(c) /\ call[c].at \in {"created", "refused"}
         \/ Go(c, "confirm") /\ call[c].at = "idle",
         UNCHANGED <<file, part, row, secret, run, wanted, shared, budget>>
  PROVE  FInv'
<1>1. /\ Others(c) /\ call'[c].at \in {"idle", "confirm"}
      /\ call'[c].id \in {call[c].id, NoDownload}
      /\ call[c].at \in {"created", "refused", "idle"}
  BY Went, Ended
<1>2. RowInv' /\ (~shared' => NameInv')
  BY <1>1, AnswerKeepsRows, AnswerKeepsNames DEF FInv
<1>3. ~shared' => FilesSurvive'
  BY DEF FInv, FilesSurvive
<1>4. Counted'
  BY <1>1 DEF FInv, Counted, NoCrash, Others
<1>5. ~shared' => Found'
  <2> SUFFICES ASSUME Found, NoCrash, budget["fault"] + 1 >= Budget["fault"],
                      NEW e \in wanted, row[e].state = "completed"
               PROVE  FoundFor(e)'
    BY DEF Found, FoundFor, NoCrash, FInv
  <2>1. FoundFor(e)
    BY DEF Found, FoundFor
  <2> QED
    BY <1>1, <2>1 DEF FoundFor, Others
<1>6. NoCrash' => AllKept'
  <2>1. Works
    BY DEF Works
  <2> QED
    BY <1>1, <2>1, QuietKeepsAll DEF FInv, NoCrash
<1> QED
  BY <1>2, <1>3, <1>4, <1>5, <1>6 DEF FInv

LEMMA CrashKeepsFInv ==
  ASSUME FilesTyped, FInv, CrashFiles
  PROVE  FInv'
<1>1. RowInv' /\ (~shared' => NameInv')
  BY CrashKeepsRows, CrashKeepsNames DEF FInv, CrashFiles
<1>2. ~shared' => FilesSurvive'
  BY DEF FInv, FilesSurvive, CrashFiles
<1>3. /\ budget'["crash"] = budget["crash"] - 1 /\ budget["crash"] \in Nat
      /\ budget["crash"] <= Budget["crash"] /\ Budget["crash"] \in Nat
      /\ budget'["fault"] \in {0, budget["fault"]} /\ budget["fault"] \in Nat
      /\ budget["fault"] <= Budget["fault"] /\ Budget["fault"] \in Nat
      /\ \A c \in Callers : call'[c].at = "idle"
  BY BudgetTyped DEF FInv, Counted, CrashFiles, Idle
<1>4. ~NoCrash'
  BY <1>3 DEF NoCrash
<1>5. Counted'
  BY <1>3 DEF Counted
<1> QED
  BY <1>1, <1>2, <1>4, <1>5 DEF FInv, Found

LEMMA FInvInit ==
  ASSUME Init
  PROVE  FInv
<1>1. /\ file = [n \in Names |-> NoDownload] /\ part = {} /\ secret = {} /\ wanted = {}
      /\ \A d \in Downloads : row[d].state = "none" /\ run[d] = "idle"
      /\ \A c \in Callers : call[c].at = "idle" /\ call[c].id = NoDownload
      /\ budget = Budget
  BY DEF Init, FilesInit, Idle
<1>2. RowInv
  BY <1>1 DEF RowInv, Alone, RowFits, RunFits, MoveSteps, CreateSteps
<1>3. NameInv
  BY <1>1 DEF NameInv, OwnNames, OwnFiles, FileFits, HasPublished, Picks, Holding, MoveSteps, Live
<1>4. FilesSurvive /\ AllKept /\ Found
  BY <1>1 DEF FilesSurvive, AllKept, Found
<1>5. Counted
  BY <1>1, FilesAssumption DEF Counted
<1> QED
  BY <1>2, <1>3, <1>4, <1>5 DEF FInv

LEMMA FInvNext ==
  ASSUME HInv, FInv, [Next]_vars
  PROVE  FInv'
<1>1. FilesTyped /\ (shared => shared')
  BY SharedStays DEF HInv
<1>2. CASE UNCHANGED filesVars
  <2>1. RowInv'
    BY <1>2 DEF FInv, RowInv, Alone, RowFits, RunFits, Untouched, filesVars
  <2>2. NameInv => NameInv'
    BY <1>2 DEF NameInv, OwnNames, OwnFiles, FileFits, HasPublished, Picks, Target, Live, Empty,
                filesVars
  <2>3. AllKept => AllKept'
    BY <1>2 DEF AllKept, PartKept, SecretKept, RowKeeps, Keeps, CallKeeps, CallProtects, filesVars
  <2> QED
    BY <1>2, <2>1, <2>2, <2>3 DEF FInv, FilesSurvive, NoCrash, Found, Counted, filesVars
<1>3. ASSUME NEW c \in Callers, Claim(c)
      PROVE  FInv'
  BY <1>1, <1>3, AnswerKeepsFInv DEF Claim
<1>4. ASSUME NEW c \in Callers, Return(c)
      PROVE  FInv'
  BY <1>1, <1>4, AnswerKeepsFInv DEF Return
<1>5. CASE Crash
  BY <1>1, <1>5, CrashKeepsFInv DEF Crash
<1>6. CASE FilesStep
  BY <1>1, <1>4, <1>6, CallStepKeepsFInv, DownloadStepKeepsFInv DEF FilesStep
<1>7. ASSUME NEW c \in Callers, Settle(c)
      PROVE  FInv'
  BY <1>4, <1>7 DEF Settle
<1> QED
  BY <1>2, <1>3, <1>5, <1>6, <1>7
  DEF Next, vars, ReadMessage, Accept, Unanswered, GiveUp, Expire, Discard, ListPending

(***************************************************************************)
(* Theorems.                                                               *)
(***************************************************************************)
\* The invariant of rows, runs, calls and left-overs holds of every behaviour, and that of
\* names, files and records as long as no name has come into the use of two downloads.
THEOREM FilesInvariant == Spec => []FInv
<1>1. Init => FInv
  BY FInvInit
<1>2. HInv /\ FInv /\ [Next]_vars => FInv'
  BY FInvNext
<1> QED
  BY <1>1, <1>2, HandoffInvariant, PTL DEF Spec

\* As long as no name has come into the use of two downloads, a published file stays on
\* the disk until its user has it deleted: whatever steps fail and whenever the process
\* crashes.
THEOREM PublishedFilesSurvive == Spec => []FailuresKeepFiles
<1>1. FInv => FailuresKeepFiles
  BY DEF FInv, FailuresKeepFiles
<1> QED
  BY <1>1, FilesInvariant, PTL

\* As long as that is so, the record of a completed download that nobody works on finds
\* its file, unless the process crashed or both a step and its undoing failed.
THEOREM RecordsFindTheirFile == Spec => []RecordFindsFile
<1>1. FInv => RecordFindsFile
  <2> SUFFICES ASSUME FInv, ~shared, NoCrash, budget["fault"] + 1 >= Budget["fault"],
                      NEW d \in wanted, Completed(d)
               PROVE  file[row[d].name] = d
    BY DEF RecordFindsFile
  <2> QED
    BY DEF FInv, Found, Completed, Untouched
<1> QED
  BY <1>1, FilesInvariant, PTL

\* Without a crash every temporary file and every saved cookie belongs to an unfinished
\* download, to a cancelled one after a step that failed, or to a call that will settle
\* it, whoever has used its name.
THEOREM NothingIsLeftBehind == Spec => []NothingLeftBehind
<1>1. HInv /\ FInv => NothingLeftBehind
  BY NothingLeft DEF FInv, HInv
<1> QED
  BY <1>1, FilesInvariant, HandoffInvariant, PTL
=============================================================================

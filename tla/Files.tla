-------------------------------- MODULE Files --------------------------------
(***************************************************************************)
(* The files of downloads and the rows that name them: reserving a name,   *)
(* publishing under it, cancelling and restarting, and the operations on   *)
(* completed files, each with the steps it makes in the file system and    *)
(* the database and what it undoes when one of them fails.                 *)
(*                                                                         *)
(* A name is a path in a directory; beside it may lie the temporary file   *)
(* name.fluxpart.  A download is "open" from its creation until it is      *)
(* completed or cancelled.  Calls on one download are not interleaved with *)
(* each other here (DownloadService does that), only calls on different    *)
(* ones.                                                                   *)
(***************************************************************************)
EXTENDS Naturals, FiniteSets

CONSTANTS
  Downloads, Names, Callers,
  NoDownload, NoName,
  Budget      (* how often a step fails, the process crashes                 *)

ASSUME FilesAssumption ==
  /\ NoDownload \notin Downloads /\ NoName \notin Names
  /\ Budget \in [{"fault", "crash"} -> Nat]

VARIABLES
  file,    (* what each name holds: the bytes of a download, or none         *)
  part,    (* the names beside which a temporary file lies                   *)
  row,     (* the state and name columns                                     *)
  secret,  (* the rows of download_secrets                                   *)
  run,     (* where the run of a download is                                 *)
  call,    (* the operation a caller is in the middle of                     *)
  wanted,  (* downloads whose file was published and not erased by the user  *)
  shared,  (* history: has a name come into the use of two downloads         *)
  budget

filesVars == <<file, part, row, secret, run, call, wanted, shared, budget>>

Idle == [at |-> "idle", id |-> NoDownload, from |-> NoName, to |-> NoName]

CreateSteps == {"reserve", "protect", "insert"}
MoveSteps == {"move", "copied", "persist", "undo"}
Steps == CreateSteps \cup MoveSteps
           \cup {"idle", "confirm", "created", "refused", "unlink", "requeue", "forget"}

FilesTypeOK ==
  /\ file \in [Names -> Downloads \cup {NoDownload}]
  /\ part \subseteq Names
  /\ row \in [Downloads -> [state : {"none", "open", "completed", "cancelled", "gone"},
                            name : Names \cup {NoName}]]
  /\ secret \subseteq Downloads /\ wanted \subseteq Downloads /\ shared \in BOOLEAN
  /\ run \in [Downloads -> {"idle", "running", "published"}]
  /\ call \in [Callers -> [at : Steps, id : Downloads \cup {NoDownload},
                           from : Names \cup {NoName}, to : Names \cup {NoName}]]
  /\ budget \in [DOMAIN Budget -> Nat]

FilesInit ==
  /\ file = [n \in Names |-> NoDownload] /\ part = {}
  /\ row = [d \in Downloads |-> [state |-> "none", name |-> NoName]]
  /\ secret = {} /\ wanted = {} /\ shared = FALSE
  /\ run = [d \in Downloads |-> "idle"]
  /\ call = [c \in Callers |-> Idle]
  /\ budget = Budget

Works == UNCHANGED budget
Fails == budget["fault"] > 0 /\ budget' = [budget EXCEPT !["fault"] = @ - 1]

Untouched(d) == \A c \in Callers : call[c].id # d

\* c goes on to a step of its operation, or ends it.
Go(c, step) == call' = [call EXCEPT ![c].at = step]
End(c) == call' = [call EXCEPT ![c] = Idle]
Begin(c, step, d, from, to) ==
  call' = [call EXCEPT ![c] = [at |-> step, id |-> d, from |-> from, to |-> to]]

Empty(n) == file[n] = NoDownload

\* The steps in which a call is about to give a row a name, and that name.
Holding == {"protect", "insert", "requeue"} \cup MoveSteps
Target(c) == IF call[c].at = "requeue" THEN call[c].from ELSE call[c].to

\* Another row that is not over has the name, or a call is about to give it to one.
InUse(n, d) ==
  \/ \E e \in Downloads \ {d} : row[e].state \in {"open", "completed"} /\ row[e].name = n
  \/ \E c \in Callers : call[c].at \in Holding /\ Target(c) = n

\* d comes into the use of n; does somebody else have it, or a file of somebody else?
\* (The code never asks this.)
Uses(n, d) == shared' = (shared \/ InUse(n, d) \/ file[n] \notin {NoDownload, d})

(***************************************************************************)
(* create.                                                                 *)
(***************************************************************************)
\* AvailableDestination: neither the name nor its temporary file exists.
Available(n) == Empty(n) /\ n \notin part

\* The input is valid and an available name is found.
Choose(c) ==
  /\ call[c].at \in {"idle", "confirm"}
  /\ \E d \in Downloads, n \in Names :
       /\ row[d].state = "none" /\ Untouched(d)
       /\ Available(n)
       /\ Begin(c, "reserve", d, NoName, n)
  /\ UNCHANGED <<file, part, row, secret, run, wanted, shared, budget>>

\* The input of a confirmation is refused.
Refuse(c) ==
  /\ call[c].at = "confirm"
  /\ Go(c, "refused")
  /\ UNCHANGED <<file, part, row, secret, run, wanted, shared, budget>>

\* ReserveDestination creates the temporary file exclusively, without another look
\* at the name itself; when somebody was faster it looks for another name.
ReserveDestination(c) ==
  /\ call[c].at = "reserve"
  /\ \/ /\ call[c].to \notin part
        /\ part' = part \cup {call[c].to} /\ Go(c, "protect")
        /\ Uses(call[c].to, call[c].id)
     \/ /\ call[c].to \in part
        /\ \E n \in Names : Available(n) /\ call' = [call EXCEPT ![c].to = n]
        /\ UNCHANGED <<part, shared>>
     \/ /\ call[c].to \in part
        /\ ~\E n \in Names : Available(n)
        /\ Go(c, "refused") /\ UNCHANGED <<part, shared>>
  /\ UNCHANGED <<file, row, secret, run, wanted, budget>>

\* The browser's cookies, if any, are saved; without them there is no download.
SaveDownloadCookies(c) ==
  /\ call[c].at = "protect"
  /\ \/ Works /\ secret' \in {secret, secret \cup {call[c].id}} /\ Go(c, "insert") /\ UNCHANGED part
     \/ Fails /\ part' = part \ {call[c].to} /\ Go(c, "refused") /\ UNCHANGED secret
  /\ UNCHANGED <<file, row, run, wanted, shared>>

\* Slip: the reservation is not taken back.
InsertKeepingPart(c) ==
  /\ call[c].at = "insert"
  /\ \/ /\ Works /\ Go(c, "created")
        /\ row' = [row EXCEPT ![call[c].id] = [state |-> "open", name |-> call[c].to]]
        /\ UNCHANGED <<part, secret>>
     \/ Fails /\ Go(c, "refused") /\ secret' = secret \ {call[c].id} /\ UNCHANGED <<row, part>>
  /\ UNCHANGED <<file, run, wanted, shared>>

\* repository.Create; a failure takes the secret and the reservation back.
InsertRow(c) ==
  /\ call[c].at = "insert"
  /\ \/ /\ Works /\ Go(c, "created")
        /\ row' = [row EXCEPT ![call[c].id] = [state |-> "open", name |-> call[c].to]]
        /\ UNCHANGED <<part, secret>>
     \/ /\ Fails /\ Go(c, "refused")
        /\ secret' = secret \ {call[c].id} /\ part' = part \ {call[c].to}
        /\ UNCHANGED row
  /\ UNCHANGED <<file, run, wanted, shared>>

(***************************************************************************)
(* A run: the engine opens the temporary file, creating it if need be, and *)
(* at the end renames it over whatever has the final name.                 *)
(***************************************************************************)
Open(d) == row[d].state = "open" /\ Untouched(d)

SetState(d, state) == row' = [row EXCEPT ![d].state = state]

StartRun(d) ==
  /\ Open(d) /\ run[d] = "idle"
  /\ run' = [run EXCEPT ![d] = "running"]
  /\ part' = part \cup {row[d].name}
  /\ UNCHANGED <<file, row, secret, call, wanted, shared, budget>>

\* It is paused, or fails.
StopRun(d) ==
  /\ run[d] = "running"
  /\ run' = [run EXCEPT ![d] = "idle"]
  /\ UNCHANGED <<file, part, row, secret, call, wanted, shared, budget>>

Publish(d) ==
  /\ run[d] = "running" /\ row[d].name \in part
  /\ run' = [run EXCEPT ![d] = "published"]
  /\ file' = [file EXCEPT ![row[d].name] = d]
  /\ part' = part \ {row[d].name}
  /\ wanted' = wanted \cup {d}
  /\ UNCHANGED <<row, secret, call, shared, budget>>

\* process saves the completed row, ignoring a failure, and clears the secrets.
RecordCompleted(d) ==
  /\ run[d] = "published"
  /\ run' = [run EXCEPT ![d] = "idle"]
  /\ (Works /\ SetState(d, "completed")) \/ (Fails /\ UNCHANGED row)
  /\ secret' = secret \ {d}
  /\ UNCHANGED <<file, part, call, wanted, shared>>

\* The temporary file and the secrets of a cancelled download go; that one of them
\* cannot be removed is ignored.
CleanUp(n, d) ==
  \/ Works /\ part' = part \ {n} /\ secret' = secret \ {d}
  \/ Fails /\ part' \in {part, part \ {n}} /\ secret' \in {secret, secret \ {d}}

\* finishCancel, by the run itself; that the row cannot be saved is ignored as well.
CancelRun(d) ==
  /\ run[d] = "running"
  /\ run' = [run EXCEPT ![d] = "idle"]
  /\ CleanUp(row[d].name, d)
  /\ SetState(d, "cancelled") \/ (Fails /\ UNCHANGED row)
  /\ UNCHANGED <<file, call, wanted, shared>>

\* Cancel of a download that does not run: the row first, then the file and the
\* secrets.
Cancel(c) ==
  /\ call[c].at = "idle"
  /\ \E d \in Downloads :
       /\ Open(d) /\ run[d] = "idle"
       /\ SetState(d, "cancelled")
       /\ Begin(c, "unlink", d, row[d].name, NoName)
  /\ UNCHANGED <<file, part, secret, run, wanted, shared, budget>>

Unlink(c) ==
  /\ call[c].at = "unlink"
  /\ CleanUp(call[c].from, call[c].id)
  /\ End(c)
  /\ UNCHANGED <<file, row, run, wanted, shared>>

\* Restart creates or empties the temporary file, without asking whose it is or what
\* has become of the name since, and then saves the row.
Restart(c) ==
  /\ call[c].at = "idle"
  /\ \E d \in Downloads :
       /\ row[d].state \in {"open", "cancelled"} /\ Untouched(d) /\ run[d] = "idle"
       /\ part' = part \cup {row[d].name}
       /\ Begin(c, "requeue", d, row[d].name, NoName)
       /\ Uses(row[d].name, d)
  /\ UNCHANGED <<file, row, secret, run, wanted, budget>>

Requeue(c) ==
  /\ call[c].at = "requeue"
  /\ (Works /\ SetState(call[c].id, "open")) \/ (Fails /\ UNCHANGED row)
  /\ End(c)
  /\ UNCHANGED <<file, part, secret, run, wanted, shared>>

(***************************************************************************)
(* Operations on completed files.                                          *)
(***************************************************************************)
Completed(d) == row[d].state = "completed" /\ Untouched(d)

\* Rename and Move: the file is there, and a target is found that does not exist
\* or is the file itself; what lies beside it, and who has its name, is not looked at.
Relocate(c) ==
  /\ call[c].at = "idle"
  /\ \E d \in Downloads, n \in Names :
       /\ Completed(d) /\ ~Empty(row[d].name)
       /\ n = row[d].name \/ Empty(n)
       /\ Begin(c, "move", d, row[d].name, n)
       /\ Uses(n, d)
  /\ UNCHANGED <<file, part, row, secret, run, wanted, budget>>

MovedTo(from, to) == [file EXCEPT ![to] = file[from], ![from] = NoDownload]

\* os.Rename replaces what is at the target by now; on another volume the file is
\* copied, exclusively.
MoveFile(c) ==
  LET from == call[c].from
      to == call[c].to
  IN /\ call[c].at = "move"
     /\ \/ from = to /\ Go(c, "persist") /\ UNCHANGED file
        \/ from # to /\ Empty(from) /\ Go(c, "refused") /\ UNCHANGED file
        \/ from # to /\ ~Empty(from) /\ file' = MovedTo(from, to) /\ Go(c, "persist")
        \/ /\ from # to /\ ~Empty(from) /\ Empty(to)
           /\ file' = [file EXCEPT ![to] = file[from]] /\ Go(c, "copied")
     /\ UNCHANGED <<part, row, secret, run, wanted, shared, budget>>

\* Slip: the clean-up removes the copy although the original is gone as well.
RemoveBoth(c) ==
  /\ call[c].at = "copied"
  /\ \/ Works /\ file' = [file EXCEPT ![call[c].from] = NoDownload] /\ Go(c, "persist")
     \/ /\ Fails /\ Go(c, "refused")
        /\ file' = [file EXCEPT ![call[c].from] = NoDownload, ![call[c].to] = NoDownload]
  /\ UNCHANGED <<part, row, secret, run, wanted, shared>>

\* copyAcrossVolumes ends with the removal of the original, or of the copy.
RemoveOriginal(c) ==
  /\ call[c].at = "copied"
  /\ \/ Works /\ file' = [file EXCEPT ![call[c].from] = NoDownload] /\ Go(c, "persist")
     \/ Fails /\ file' = [file EXCEPT ![call[c].to] = NoDownload] /\ Go(c, "refused")
  /\ UNCHANGED <<part, row, secret, run, wanted, shared>>

\* Slip: the file is not moved back.
PersistPathOrLeave(c) ==
  /\ call[c].at = "persist"
  /\ \/ Works /\ row' = [row EXCEPT ![call[c].id].name = call[c].to] /\ End(c)
     \/ Fails /\ Go(c, "refused") /\ UNCHANGED row
  /\ UNCHANGED <<file, part, secret, run, wanted, shared>>

PersistPath(c) ==
  /\ call[c].at = "persist"
  /\ \/ Works /\ row' = [row EXCEPT ![call[c].id].name = call[c].to] /\ End(c)
     \/ Fails /\ Go(c, "undo") /\ UNCHANGED row
  /\ UNCHANGED <<file, part, secret, run, wanted, shared>>

\* The row could not be saved: the file goes back to its old name, or beside it
\* when that has been taken, or stays where it is.
Undo(c) ==
  /\ call[c].at = "undo"
  /\ Go(c, "refused")
  /\ \/ Works /\ call[c].from = call[c].to /\ UNCHANGED file
     \/ /\ Works /\ call[c].from # call[c].to
        /\ \E n \in Names :
             /\ Empty(n) /\ (Empty(call[c].from) => n = call[c].from)
             /\ file' = MovedTo(call[c].to, n)
     \/ Fails /\ UNCHANGED file
  /\ UNCHANGED <<part, row, secret, run, wanted, shared>>

\* A record is removed and its file kept; with RemoveHistory so are its secrets.
RemoveRecord(d) ==
  /\ Completed(d)
  /\ SetState(d, "gone")
  /\ secret' = secret \ {d}
  /\ UNCHANGED <<file, part, run, call, wanted, shared, budget>>

RemoveHistory(d) ==
  /\ Completed(d)
  /\ SetState(d, "gone")
  /\ UNCHANGED <<file, part, secret, run, call, wanted, shared, budget>>

\* DeleteCompletedFile and RecycleAndRemoveHistory: the file first, then the row.
DeleteCompletedFile(c) ==
  /\ call[c].at = "idle"
  /\ \E d \in Downloads :
       /\ Completed(d) /\ ~Empty(row[d].name)
       /\ file' = [file EXCEPT ![row[d].name] = NoDownload]
       /\ wanted' = wanted \ {d}
       /\ Begin(c, "forget", d, row[d].name, NoName)
  /\ UNCHANGED <<part, row, secret, run, shared, budget>>

DeleteRow(c) ==
  /\ call[c].at = "forget"
  /\ \/ Works /\ SetState(call[c].id, "gone")
     \/ Fails /\ UNCHANGED row
  /\ End(c)
  /\ UNCHANGED <<file, part, secret, run, wanted, shared>>

\* An operation answers its caller.
Return(c) ==
  /\ call[c].at \in {"created", "refused"}
  /\ End(c)
  /\ UNCHANGED <<file, part, row, secret, run, wanted, shared, budget>>

\* Files, rows and secrets survive; runs and calls do not.  (No step fails after the
\* last crash: the bound on faults.)
CrashFiles ==
  /\ budget["crash"] > 0
  /\ budget' = [fault |-> IF budget["crash"] = 1 THEN 0 ELSE budget["fault"],
                 crash |-> budget["crash"] - 1]
  /\ run' = [d \in Downloads |-> "idle"] /\ call' = [c \in Callers |-> Idle]
  /\ UNCHANGED <<file, part, row, secret, wanted, shared>>

CallStep(c) ==
  \/ Choose(c) \/ Refuse(c) \/ ReserveDestination(c) \/ SaveDownloadCookies(c) \/ InsertRow(c)
  \/ Cancel(c) \/ Unlink(c) \/ Restart(c) \/ Requeue(c)
  \/ Relocate(c) \/ MoveFile(c) \/ RemoveOriginal(c) \/ PersistPath(c) \/ Undo(c)
  \/ DeleteCompletedFile(c) \/ DeleteRow(c)

DownloadStep(d) ==
  StartRun(d) \/ StopRun(d) \/ Publish(d) \/ RecordCompleted(d) \/ CancelRun(d)
  \/ RemoveRecord(d) \/ RemoveHistory(d)

(***************************************************************************)
(* Properties.                                                             *)
(***************************************************************************)
NoCrash == budget["crash"] = Budget["crash"]

\* A published file stays on the disk, under whatever name, until its user has it
\* deleted.
FilesSurvive == \A d \in wanted : \E n \in Names : file[n] = d

\* As long as every name has been in the use of one download at a time, no rename, no
\* copy to another volume, no completion, no step that fails, nothing that is undone
\* and no crash loses a published file.  (The code does not see to the premise; what
\* follows when it fails is FilesSurvive and OneWriterPerFile.)
FailuresKeepFiles == ~shared => FilesSurvive

\* As long as that is so, the record of a completed download finds its file when nothing
\* is being done to it, unless the process crashed in between or the undoing of a failed
\* step failed as well.
RecordFindsFile ==
  ~shared /\ NoCrash /\ budget["fault"] + 1 >= Budget["fault"] =>
    \A d \in wanted : Completed(d) => file[row[d].name] = d

\* No two unfinished downloads write to the same temporary file.
OneWriterPerFile ==
  \A d, e \in Downloads :
    d # e /\ row[d].state = "open" /\ row[e].state = "open" => row[d].name # row[e].name

At(steps) == {c \in Callers : call[c].at \in steps}

\* A download that was cancelled may keep what could not be removed.
Keeps(d) ==
  \/ row[d].state = "open"
  \/ row[d].state = "cancelled" /\ budget["fault"] < Budget["fault"]

\* Without a crash nothing is left behind, whoever has used a name: a temporary file
\* belongs to an unfinished download or to a call that is making or removing it, and so
\* do saved cookies.  Only a clean-up that fails, or a Restart whose row cannot be saved,
\* leaves a cancelled download its file.
NothingLeftBehind ==
  NoCrash =>
    /\ part \subseteq {row[d].name : d \in {e \in Downloads : Keeps(e)}}
                        \cup {call[c].to : c \in At({"protect", "insert"})}
                        \cup {call[c].from : c \in At({"requeue", "unlink"})}
    /\ secret \subseteq {d \in Downloads : Keeps(d)}
                          \cup {call[c].id : c \in At({"insert", "unlink"})}
=============================================================================

------------------------------- MODULE Handoff -------------------------------
(***************************************************************************)
(* Downloads handed over by the browser: the native host forwards a        *)
(* request, the bridge parks it in the pending store, and the user         *)
(* confirms it, which creates a download as any other, or discards it.     *)
(* Entries expire, and expired entries are swept when the store is used.   *)
(***************************************************************************)
EXTENDS Files

CONSTANTS
  Handoffs,   (* identifiers of entries, a fresh one for each Put            *)
  Requests,   (* what the browser asks for                                   *)
  NoHandoff,
  Attempts    (* how often the host forwards a request, 41 in the code       *)

ASSUME HandoffAssumption ==
  /\ NoHandoff \notin Handoffs
  /\ Attempts \in Nat

VARIABLES
  entry,      (* the entry of each identifier                                *)
  expired,    (* the identifiers whose ExpiresAt has passed                  *)
  host,       (* what the native host does with a request                    *)
  tries,      (* how often it still forwards it                              *)
  claim,      (* the handoff whose confirmation a caller carries out         *)
  confirmed   (* downloads created from each handoff                         *)

storeVars == <<entry, expired>>
hostVars == <<host, tries>>
vars == <<filesVars, storeVars, hostVars, claim, confirmed>>

TypeOK ==
  /\ FilesTypeOK
  /\ entry \in [Handoffs -> {"unused", "pending", "claimed", "gone"}]
  /\ expired \subseteq Handoffs
  /\ host \in [Requests -> {"idle", "forwarding", "accepted", "unavailable"}]
  /\ tries \in [Requests -> 0 .. Attempts]
  /\ claim \in [Callers -> Handoffs \cup {NoHandoff}]
  /\ confirmed \in [Handoffs -> SUBSET Downloads]

Init ==
  /\ FilesInit
  /\ entry = [h \in Handoffs |-> "unused"]
  /\ expired = {}
  /\ host = [r \in Requests |-> "idle"] /\ tries = [r \in Requests |-> Attempts]
  /\ claim = [c \in Callers |-> NoHandoff]
  /\ confirmed = [h \in Handoffs |-> {}]

(***************************************************************************)
(* The native host.                                                        *)
(***************************************************************************)
\* A message is read from the browser.
ReadMessage(r) ==
  /\ host[r] = "idle"
  /\ host' = [host EXCEPT ![r] = "forwarding"]
  /\ UNCHANGED <<filesVars, storeVars, tries, claim, confirmed>>

\* sweepLocked, then the change f makes to what is left.
Swept == [h \in Handoffs |->
            IF h \in expired /\ entry[h] \in {"pending", "claimed"} THEN "gone" ELSE entry[h]]

\* A request is parked under a fresh identifier.
Put(h) == [Swept EXCEPT ![h] = "pending"]

\* The bridge accepts the request, parks it and tells the frontend; the answer may be
\* lost on its way to the host.
Accept(r) ==
  /\ host[r] = "forwarding" /\ tries[r] > 0
  /\ \E h \in Handoffs :
       /\ entry[h] = "unused"
       /\ entry' = Put(h)
  /\ tries' = [tries EXCEPT ![r] = @ - 1]
  /\ host' \in {host, [host EXCEPT ![r] = "accepted"]}
  /\ UNCHANGED <<filesVars, expired, claim, confirmed>>

\* Slip: the attempts of the host are not bounded.
UnansweredForever(r) ==
  /\ host[r] = "forwarding"
  /\ tries' = [tries EXCEPT ![r] = @ - 1]
  /\ UNCHANGED <<filesVars, storeVars, host, claim, confirmed>>

\* No bridge answers, or it refuses the request.
Unanswered(r) ==
  /\ host[r] = "forwarding" /\ tries[r] > 0
  /\ tries' = [tries EXCEPT ![r] = @ - 1]
  /\ UNCHANGED <<filesVars, storeVars, host, claim, confirmed>>

GiveUp(r) ==
  /\ host[r] = "forwarding" /\ tries[r] = 0
  /\ host' = [host EXCEPT ![r] = "unavailable"]
  /\ UNCHANGED <<filesVars, storeVars, tries, claim, confirmed>>

(***************************************************************************)
(* The pending store and ConfirmBrowserDownload.                           *)
(***************************************************************************)
Expire(h) ==
  /\ entry[h] \in {"pending", "claimed"} /\ h \notin expired
  /\ expired' = expired \cup {h}
  /\ UNCHANGED <<filesVars, entry, hostVars, claim, confirmed>>

\* Slip: a claimed request can be claimed.
ClaimableTwice(h) == Swept[h] \in {"pending", "claimed"}

MayClaim(h) == Swept[h] = "pending"

\* Claim gives the request to one caller, who goes on to create the download.
Claim(c) ==
  /\ call[c].at = "idle"
  /\ \E h \in Handoffs :
       /\ MayClaim(h)
       /\ entry' = [Swept EXCEPT ![h] = "claimed"]
       /\ claim' = [claim EXCEPT ![c] = h]
  /\ Go(c, "confirm")
  /\ UNCHANGED <<file, part, row, secret, run, wanted, shared, budget, expired, hostVars, confirmed>>

\* Slip: a request is put back without looking whether it is still there.
ReleaseAny(h) == [Swept EXCEPT ![h] = "pending"]

\* Slip: the confirmation ends without putting the request back.
ReleaseNothing(h) == Swept

\* Release puts the request back, if it is still there after a sweep.
Release(h) == [Swept EXCEPT ![h] = IF @ = "claimed" THEN "pending" ELSE @]

\* Complete removes it.
Complete(h) == [entry EXCEPT ![h] = "gone"]

\* The confirmation is over: Complete, or Release for another attempt.
Settle(c) ==
  LET h == claim[c]
  IN /\ h # NoHandoff
     /\ Return(c)
     /\ claim' = [claim EXCEPT ![c] = NoHandoff]
     /\ \/ /\ call[c].at = "created"
           /\ entry' = Complete(h)
           /\ confirmed' = [confirmed EXCEPT ![h] = @ \cup {call[c].id}]
        \/ /\ call[c].at = "refused"
           /\ entry' = Release(h)
           /\ UNCHANGED confirmed
     /\ UNCHANGED <<expired, hostVars>>

\* Discard removes an entry, a claimed one as well.
Discard(h) ==
  /\ entry[h] \in {"pending", "claimed"}
  /\ entry' = [Swept EXCEPT ![h] = "gone"]
  /\ UNCHANGED <<filesVars, expired, hostVars, claim, confirmed>>

\* List sweeps too.
ListPending ==
  /\ entry' = Swept
  /\ UNCHANGED <<filesVars, expired, hostVars, claim, confirmed>>

\* The store is memory.
Crash ==
  /\ CrashFiles
  /\ entry' = [h \in Handoffs |-> IF entry[h] = "unused" THEN "unused" ELSE "gone"]
  /\ claim' = [c \in Callers |-> NoHandoff]
  /\ UNCHANGED <<expired, hostVars, confirmed>>

FilesStep ==
  /\ \/ \E c \in Callers : CallStep(c) \/ (claim[c] = NoHandoff /\ Return(c))
     \/ \E d \in Downloads : DownloadStep(d)
  /\ UNCHANGED <<storeVars, hostVars, claim, confirmed>>

Next ==
  \/ \E r \in Requests : ReadMessage(r) \/ Accept(r) \/ Unanswered(r) \/ GiveUp(r)
  \/ \E h \in Handoffs : Expire(h) \/ Discard(h)
  \/ \E c \in Callers : Claim(c) \/ Settle(c)
  \/ ListPending \/ Crash \/ FilesStep

Spec == Init /\ [][Next]_vars

(***************************************************************************)
(* Properties.                                                             *)
(***************************************************************************)
\* However many confirmations race, one handoff becomes at most one download.
ConfirmedOnce == \A h \in Handoffs : Cardinality(confirmed[h]) <= 1

\* A claim is always in somebody's hands: no failure on the way leaves a request that
\* is still parked and can never be confirmed again.
ClaimsHeld ==
  \A h \in Handoffs : entry[h] = "claimed" => \E c \in Callers : claim[c] = h

\* A request that was confirmed, discarded or swept does not come back, although the
\* confirmation that held it is released later.
GoneForGood == [][\A h \in Handoffs : entry[h] = "gone" => entry'[h] = "gone"]_vars
=============================================================================

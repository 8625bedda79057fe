------------------------- MODULE MC_DownloadService -------------------------
(* Small instances of DownloadService for TLC.  A scenario names the calls   *)
(* an instance makes, and bounds it.                                         *)
EXTENDS DownloadService, TLC

CONSTANTS d1, d2, w1, w2, c1, c2, default, night

Two == [exists |-> TRUE, enabled |-> TRUE, sequential |-> FALSE, maxParallel |-> 2, priority |-> 0]
Sequential == [Two EXCEPT !.sequential = TRUE]
Gone == [Two EXCEPT !.exists = FALSE]

KeptQueues == {Two}
EditedQueues == {Two, Sequential, Gone}

SamePriority == [d \in Downloads |-> 0]

Once(ops) == [op \in Ops |-> IF op \in ops THEN 1 ELSE 0]
Each(calls) == [d \in Downloads \cup {NoDownload} |-> calls]
Calls2(first, second, none) ==
  [d \in Downloads \cup {NoDownload} |->
     Once(IF d = d1 THEN first ELSE IF d = NoDownload THEN none ELSE second)]

\* All downloads are in queue q, and queues run two downloads at a time.
In(q, calls) ==
  [calls |-> calls, assigned |-> [d \in Downloads |-> q], policy |-> [x \in NamedQueues |-> Two]]

\* d2 competes with d1 for workers and for the slice, and may pause meanwhile.
PauseAndResume ==
  {In(default, [Each(Once({"start", "pause"})) EXCEPT ![d1]["resume"] = 1])}
StartTwicePause == {In(default, Each([Once({"pause"}) EXCEPT !["start"] = 2]))}
PauseTwice == {In(default, Each([Once({"start"}) EXCEPT !["pause"] = 2]))}
StartAndEdit == {In(default, Each(Once({"start", "assign"})))}

\* Every call but Pause and Resume: two downloads in a queue whose policy changes;
\* every path of one download to its end while the service stops; a queue-wide operation
\* and a row that moves to another queue; two downloads and one slot.
ManyCalls ==
  {In(night, Calls2({"start", "restart"}, {"start"}, {"policy"})),
   In(default, Calls2({"start", "cancel", "restart"}, {}, {"close"})),
   In(default, Calls2({"start", "assign"}, {}, {"queue", "close"})),
   In(default, Calls2({"start", "cancel"}, {"start"}, {"close"}))}

Symmetry == Permutations(Downloads) \cup Permutations(Workers) \cup Permutations(Callers)
=============================================================================

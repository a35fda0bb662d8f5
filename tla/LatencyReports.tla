---------------------------- MODULE LatencyReports ----------------------------
(***************************************************************************)
(* What the feed measurement promises to the reader of PUB's output,       *)
(* without processes, threads, topics or histogram objects: the latency    *)
(* samples of a measurement are cut into reports, one per END that made    *)
(* it back.  A report never mixes in samples of a round that was closed    *)
(* before it or not begun, never changes once it is closed, and is         *)
(* printed at most once; reports may be printed in any order.              *)
(***************************************************************************)
EXTENDS Naturals, Sequences, Functions

CONSTANTS Round,     \* the rounds there are, numbered from 1
          Index      \* the numbers of the events in a round

VARIABLES open,      \* the samples of the report being filled
          reports,   \* the closed reports: the round each ends, its samples
          printed    \* the numbers of the reports printed, in order

vars == <<open, reports, printed>>

(* The last round that has been closed. *)
LastRound == IF reports = <<>> THEN 0 ELSE reports[Len(reports)].round

Init == open = {} /\ reports = <<>> /\ printed = <<>>

Record == \E r \in Round, n \in Index :
            /\ r > LastRound
            /\ open' = open \cup {[round |-> r, n |-> n]}
            /\ UNCHANGED <<reports, printed>>

Close == \E r \in Round :
           /\ r > LastRound
           /\ \A s \in open : s.round <= r
           /\ reports' = Append(reports, [round |-> r, samples |-> open])
           /\ open' = {}
           /\ UNCHANGED printed

Publish(k) == /\ k \notin Range(printed)
              /\ printed' = Append(printed, k)
              /\ UNCHANGED <<open, reports>>

Next == Record \/ Close \/ \E k \in DOMAIN reports : Publish(k)

Spec == Init /\ [][Next]_vars

(* Every closed report is printed in the end.  A report ends a round of its *)
(* own, so that its number is one of a round too.                          *)
FairSpec == Spec /\ \A k \in Round : WF_vars(k \in DOMAIN reports /\ Publish(k))
===============================================================================

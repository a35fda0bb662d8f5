--------------------------- MODULE EventPublisher ---------------------------
(***************************************************************************)
(* EventPublisher.java, the process "PUB".  Three kinds of thread:         *)
(*  - main: run() sends NumEvents events, then the END, again and again;   *)
(*  - the FastCast receiving thread of topic "back": records the latency   *)
(*    of each bounced event into the histogram `hi', and on a bounced END  *)
(*    swaps `hi' for a new one and hands the old one to the executor;      *)
(*  - the executor's pool threads, which print the histograms handed over. *)
(*                                                                         *)
(* A histogram is an object with an identity: `histos' is the heap,        *)
(* indexed by creation order, and `hi' the field.  `rec' is what was       *)
(* recorded, `cut' the bounced events it did not record as too late.       *)
(***************************************************************************)
EXTENDS FeedLinks

VARIABLES pubRound, pubI,   \* main: the call of run() and its loop index i
          hi,               \* field hi: which histogram is being filled
          histos,           \* the histograms created so far
          ends,             \* the ENDs received, in order (history)
          dumping,          \* histograms handed to `dumper', not yet printed
          printed           \* histograms printed, in order

senderVars  == <<pubRound, pubI>>
measureVars == <<hi, histos, ends, dumping, printed>>
pubVars     == <<pubRound, pubI, hi, histos, ends, dumping, printed>>

NewHistogram == [rec |-> {}, cut |-> {}]

PubInit == /\ back = Subscribed
           /\ pubRound = 1 /\ pubI = 0
           /\ histos = <<NewHistogram>> /\ hi = 1
           /\ ends = <<>>
           /\ dumping = {} /\ printed = <<>>

NextMsg == [round |-> pubRound, n |-> pubI]

(* Stamp the struct, then spin until offer() takes it. *)
SendEvent == /\ pubRound <= MaxRounds
             /\ pubI < NumEvents
             /\ stream' = Offered(stream, NextMsg)
             /\ pubI' = pubI + 1
             /\ UNCHANGED <<pubRound, back, measureVars>>

(* After the loop: spin until offer() takes the END; main calls run again. *)
SendEnd == /\ pubRound <= MaxRounds
           /\ pubI = NumEvents
           /\ stream' = Offered(stream, NextMsg)
           /\ pubI' = 0
           /\ pubRound' = pubRound + 1
           /\ UNCHANGED <<back, measureVars>>

Sample(m) == [round |-> m.round, n |-> m.n]

(* A bounced event: recorded when it took less than a second. *)
RecordLatency(fast) ==
    LET m == Head(back.queue)
    IN  /\ Deliverable(back)
        /\ ~IsEnd(m)
        /\ back' = Taken(back)
        /\ histos' = IF fast
                       THEN [histos EXCEPT ![hi].rec = @ \cup {Sample(m)}]
                       ELSE [histos EXCEPT ![hi].cut = @ \cup {Sample(m)}]
        /\ UNCHANGED <<stream, senderVars, hi, ends, dumping, printed>>

(* Slips: the histogram is handed over and kept (HandedOverFrozen); the new *)
(* one is handed over (MeasureInv); the dumper has room for one histogram  *)
(* only (ImplementsFairReports).                                           *)
CloseRoundKept ==
    /\ Deliverable(back) /\ IsEnd(Head(back.queue))
    /\ back' = Taken(back)
    /\ ends' = Append(ends, Head(back.queue))
    /\ dumping' = dumping \cup {hi}
    /\ UNCHANGED <<stream, senderVars, hi, histos, printed>>

CloseRoundSwapped ==
    /\ Deliverable(back) /\ IsEnd(Head(back.queue))
    /\ back' = Taken(back)
    /\ histos' = Append(histos, NewHistogram) /\ hi' = Len(histos) + 1
    /\ ends' = Append(ends, Head(back.queue))
    /\ dumping' = dumping \cup {hi'}
    /\ UNCHANGED <<stream, senderVars, printed>>

CloseRoundSlot ==
    /\ Deliverable(back) /\ IsEnd(Head(back.queue))
    /\ back' = Taken(back)
    /\ histos' = Append(histos, NewHistogram) /\ hi' = Len(histos) + 1
    /\ ends' = Append(ends, Head(back.queue))
    /\ dumping' = {hi}
    /\ UNCHANGED <<stream, senderVars, printed>>

(* A bounced END: swap the histogram, print the old one on another thread. *)
CloseRound ==
    LET m == Head(back.queue)
    IN  /\ Deliverable(back)
        /\ IsEnd(m)
        /\ back' = Taken(back)
        /\ histos' = Append(histos, NewHistogram)
        /\ hi' = Len(histos) + 1
        /\ ends' = Append(ends, m)
        /\ dumping' = dumping \cup {hi}
        /\ UNCHANGED <<stream, senderVars, printed>>

(* dropped() of the subscriber on "back" answers FALSE: PUB gives the      *)
(* subscription up and is never told another latency.                      *)
LoseBack == /\ back.gap
            /\ back' = Unsubscribed
            /\ UNCHANGED <<stream, senderVars, measureVars>>

(* Slip (ImplementsReports): the task stays queued. *)
DumpAgain(k) == /\ k \in dumping
                /\ printed' = Append(printed, k)
                /\ UNCHANGED <<stream, back, senderVars, hi, histos, ends, dumping>>

(* A pool thread prints histogram k. *)
Dump(k) == /\ k \in dumping
           /\ dumping' = dumping \ {k}
           /\ printed' = Append(printed, k)
           /\ UNCHANGED <<stream, back, senderVars, hi, histos, ends>>

PubSend    == SendEvent \/ SendEnd
PubReceive == (\E fast \in BOOLEAN : RecordLatency(fast)) \/ CloseRound
PubDump    == \E k \in dumping : Dump(k)
=============================================================================

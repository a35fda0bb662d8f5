------------------------------- MODULE NetFeed -------------------------------
(***************************************************************************)
(* The network feed: EventPublisher ("PUB") and EventReceiver ("SUB")      *)
(* joined by the topics "stream" and "back".  The threads interleave: PUB's *)
(* main thread sends, SUB's receiving thread feeds Esper and bounces, PUB's *)
(* receiving thread measures, PUB's pool threads print.  SUB may be started *)
(* (again) whenever it is not running.                                     *)
(***************************************************************************)
EXTENDS EventPublisher, EventReceiver, FiniteSets, Functions

vars == <<stream, back, pubRound, pubI, hi, histos, ends, dumping, printed,
          inc, count, cur>>

Init == PubInit /\ RecvInit

PubStep  == (PubSend \/ PubReceive \/ LoseBack \/ PubDump) /\ UNCHANGED recvVars
RecvStep == (Start \/ RecvHandle \/ Exit) /\ UNCHANGED pubVars

(* Past the bound MaxRounds, with nothing in flight and nothing to print.  *)
Quiescent == /\ pubRound > MaxRounds
             /\ stream.open /\ stream.queue = <<>> /\ ~stream.gap
             /\ back.queue = <<>> /\ ~back.gap
             /\ cur = <<>> /\ dumping = {}
             /\ UNCHANGED vars

Next == PubStep \/ RecvStep \/ Quiescent

Spec == Init /\ [][Next]_vars

(***************************************************************************)
(* Fairness.  Every thread runs again and again; a spin on offer() ends, as *)
(* the packet rate the sender is allowed is renewed all the time; each task *)
(* given to the cached thread pool has a thread of its own.  Nothing makes  *)
(* anybody start SUB, so Start is not fair.                                *)
(***************************************************************************)
FairSpec == /\ Spec
            /\ WF_vars(PubSend /\ UNCHANGED recvVars)
            /\ WF_vars(PubReceive /\ UNCHANGED recvVars)
            /\ WF_vars(RecvHandle /\ UNCHANGED pubVars)
            /\ \A k \in 1 .. MaxRounds : WF_vars(Dump(k) /\ UNCHANGED recvVars)

-----------------------------------------------------------------------------
(* Types.  pubRound is one past the bound when main has used it up.        *)
Histograms == [rec : SUBSET Event, cut : SUBSET Event]

TypeOK == /\ stream \in Topics(Msg) /\ back \in Topics(BackMsg)
          /\ pubRound \in Round /\ pubI \in 0 .. NumEvents
          /\ histos \in Seq(Histograms) /\ hi \in DOMAIN histos
          /\ ends \in Seq(BackMsg)
          /\ dumping \subseteq DOMAIN histos /\ printed \in Seq(DOMAIN histos)
          /\ inc \in Nat /\ count \in 0 .. SampleEvery - 1
          /\ cur \in Seq(Msg) /\ Len(cur) <= 1

-----------------------------------------------------------------------------
(* What was measured between two ENDs. *)
Samples(k) == histos[k].rec \cup histos[k].cut

(* The round closed by the k-th END, and 0 for the start of the program. *)
ClosedRound(k) == IF k = 0 THEN 0 ELSE ends[k].round

(* Every latency of report k is of an event sent after the END of report   *)
(* k - 1 and no later than the END of report k: END neither overtakes the  *)
(* bounced events nor is overtaken by them (EventPublisher.java:51-68,     *)
(* EventReceiver.java:96-105, :153-156).                                   *)
SamplesInTheirRound ==
    \A k \in DOMAIN histos : \A s \in Samples(k) :
        /\ ClosedRound(k - 1) < s.round
        /\ k \in DOMAIN ends => s.round <= ends[k].round

(* The report of a round whose predecessor was reported by the same SUB    *)
(* process covers exactly that round, and one event in SampleEvery of it:  *)
(* an END never gets lost without SUB being dropped and restarted, and the *)
(* listener's count runs on across the ENDs.                               *)
CompleteReports ==
    \A k \in 2 .. Len(ends) :
        ends[k].inc = ends[k - 1].inc =>
            /\ ends[k].round = ends[k - 1].round + 1
            /\ \A s \in Samples(k) : s.round = ends[k].round
            /\ Cardinality(Samples(k)) \in
                 { NumEvents \div SampleEvery,
                   (NumEvents + SampleEvery - 1) \div SampleEvery }

(* The receiving thread never touches a histogram again once it has handed *)
(* it to the dumper, which prints it with no lock while the measurement    *)
(* goes on; nor is one handed over twice (EventPublisher.java:53-62).      *)
HandedOverFrozen ==
    [][\A k \in dumping \cup Range(printed) :
          /\ histos'[k] = histos[k]
          /\ hi' # k
          /\ k \notin dumping => k \notin dumping']_vars

(***************************************************************************)
(* The feed implements LatencyReports: the k-th END closes report k, whose *)
(* samples are those of the k-th histogram from then on.                   *)
(***************************************************************************)
Reports == [k \in DOMAIN ends |-> [round |-> ends[k].round, samples |-> Samples(k)]]

Abstract == INSTANCE LatencyReports WITH
                Round <- 1 .. MaxRounds, Index <- 0 .. NumEvents - 1,
                open <- Samples(hi), reports <- Reports

ImplementsReports == Abstract!Spec
ImplementsFairReports == Abstract!FairSpec

-----------------------------------------------------------------------------
(* Why it holds.  What is in flight, from the histogram's end of the feed   *)
(* to the sender's: topic "back", the event SUB is bouncing, "stream".     *)
AllBefore(S, T) == \A a \in S, b \in T : Before(a, b)
InOrder(q)      == \A i, j \in DOMAIN q : i < j => Before(q[i], q[j])

InFlight == Range(back.queue) \cup Range(cur) \cup Range(stream.queue)

(* Nothing in flight overtakes anything on its way from the sender through *)
(* SUB back to the histogram, be it an event or an END.                    *)
PipelineInOrder ==
    /\ InOrder(back.queue) /\ InOrder(stream.queue)
    /\ AllBefore(Range(back.queue), Range(cur))
    /\ AllBefore(Range(back.queue) \cup Range(cur), Range(stream.queue))
    /\ AllBefore(InFlight, {NextMsg})
    /\ \A m \in InFlight : m.round <= MaxRounds

(* Report k is in histogram k; hi is the newest, the others are the        *)
(* dumper's; nothing still in flight belongs to a report already closed.   *)
MeasureInv ==
    /\ hi = Len(histos) /\ hi = Len(ends) + 1
    /\ dumping \cup Range(printed) \subseteq 1 .. Len(ends)
    /\ dumping \cap Range(printed) = {}
    /\ \A m \in InFlight \cup {NextMsg} : m.round > ClosedRound(Len(ends))
    /\ AllBefore(Samples(hi), InFlight \cup {NextMsg})
    /\ SamplesInTheirRound

FeedInv == TypeOK /\ PipelineInOrder /\ MeasureInv

-----------------------------------------------------------------------------
(* Liveness.  Someone lagged by more than the history, or SUB is gone. *)
Dropped == stream.gap \/ ~stream.open \/ back.gap \/ ~back.open

EndInFlight(r) == \E i \in DOMAIN stream.queue :
                      stream.queue[i].round = r /\ IsEnd(stream.queue[i])

ReportPrinted(r) == \E i \in DOMAIN printed : ends[printed[i]].round = r

(* The END of a round that SUB can still receive leads to the report of    *)
(* that round, unless a subscriber is dropped for lagging behind.          *)
EndIsReported ==
    \A r \in 1 .. MaxRounds : EndInFlight(r) ~> (ReportPrinted(r) \/ Dropped)

-----------------------------------------------------------------------------
(* The comment at EventReceiver.java:145-146: "do bounce back in different *)
(* thread, else blocking on send will pressure back to sender".  While a   *)
(* bounce is being retried, the receiving thread can take the next message. *)
BounceInDifferentThread ==
    cur # <<>> /\ Deliverable(stream) => ENABLED (ReceiveEvent \/ ReceiveEnd)
==============================================================================

---------------------------- MODULE EventReceiver ----------------------------
(***************************************************************************)
(* EventReceiver.java, the process "SUB".  Everything happens in the       *)
(* FastCast receiving thread: messageReceived() feeds each event to Esper, *)
(* Esper calls the listener of "select * from MarketEvent" synchronously,  *)
(* and the listener bounces every SampleEvery-th event back, spinning on   *)
(* offer(); an END is bounced as it is.  While it spins, the thread takes  *)
(* no other message and no dropped() callback.                             *)
(***************************************************************************)
EXTENDS FeedLinks

CONSTANT SampleEvery   \* the listener bounces each 10th event

ASSUME SampleAssumption == SampleEvery \in Nat \ {0}

VARIABLES inc,     \* which SUB process this is (number of starts)
          count,   \* the listener's count
          cur      \* <<>>, or <<m>> while the thread spins to bounce m

recvVars == <<inc, count, cur>>

RecvInit == /\ stream = Unsubscribed
            /\ inc = 0 /\ count = 0 /\ cur = <<>>

(* main(): initEsper, publish "back", and, last, subscribe "stream": the   *)
(* first message seen is the next one PUB sends.                           *)
Start == /\ ~stream.open
         /\ stream' = Subscribed
         /\ inc' = inc + 1
         /\ count' = 0
         /\ UNCHANGED <<back, cur>>

(* Slip (TypeOK): the listener counts past SampleEvery. *)
ReceiveEventNoReset ==
    LET m == Head(stream.queue)
    IN  /\ Deliverable(stream) /\ cur = <<>> /\ ~IsEnd(m)
        /\ stream' = Taken(stream)
        /\ count' = count + 1
        /\ cur' = IF count + 1 = SampleEvery THEN <<m>> ELSE cur
        /\ UNCHANGED <<back, inc>>

(* messageReceived() of a MarketEventStruct, through sendEvent() into the  *)
(* listener's update().                                                    *)
ReceiveEvent ==
    LET m == Head(stream.queue)
    IN  /\ Deliverable(stream)
        /\ cur = <<>>
        /\ ~IsEnd(m)
        /\ stream' = Taken(stream)
        /\ IF count + 1 = SampleEvery
             THEN count' = 0 /\ cur' = <<m>>
             ELSE count' = count + 1 /\ UNCHANGED cur
        /\ UNCHANGED <<back, inc>>

Bounced(m) == [round |-> m.round, n |-> m.n, inc |-> inc]

(* Slip (SamplesInTheirRound): events are bounced by another thread, as in *)
(* the commented-out code, but the END still by the receiving thread.      *)
ReceiveEndDirect ==
    LET m == Head(stream.queue)
    IN  /\ Deliverable(stream) /\ IsEnd(m)
        /\ stream' = Taken(stream)
        /\ back' = Offered(back, Bounced(m))
        /\ UNCHANGED <<inc, count, cur>>

(* messageReceived() of anything else: "assume END". *)
ReceiveEnd ==
    LET m == Head(stream.queue)
    IN  /\ Deliverable(stream)
        /\ cur = <<>>
        /\ IsEnd(m)
        /\ stream' = Taken(stream)
        /\ cur' = <<m>>
        /\ UNCHANGED <<back, inc, count>>

(* Slip (EndIsReported): a single offer() instead of the spin. *)
BounceOnce == /\ cur # <<>>
              /\ back' \in {back, Offered(back, Bounced(Head(cur)))}
              /\ cur' = <<>>
              /\ UNCHANGED <<stream, inc, count>>

(* The spin on backPub.offer() succeeds. *)
Bounce == /\ cur # <<>>
          /\ back' = Offered(back, Bounced(Head(cur)))
          /\ cur' = <<>>
          /\ UNCHANGED <<stream, inc, count>>

(* Slip (CompleteReports): dropped() asks FastCast to resynchronise. *)
ExitResync == /\ stream.gap /\ cur = <<>>
              /\ stream' = Subscribed
              /\ UNCHANGED <<back, inc, count, cur>>

(* dropped(): "fatal, exit".  Called by the receiving thread. *)
Exit == /\ stream.gap
        /\ cur = <<>>
        /\ stream' = Unsubscribed
        /\ \E k \in 0 .. Len(back.queue), gap \in BOOLEAN :
              back' = Orphaned(back, k, gap)
        /\ count' = 0
        /\ UNCHANGED <<inc, cur>>

RecvHandle == ReceiveEvent \/ ReceiveEnd \/ Bounce
=============================================================================

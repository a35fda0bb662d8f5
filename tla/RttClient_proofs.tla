--------------------------- MODULE RttClient_proofs ---------------------------
(***************************************************************************)
(* Proofs about RttClient, for every number of rounds and rows and all     *)
(* buffer and report sizes.                                                *)
(***************************************************************************)
EXTENDS RttClient, DataLemmas

(* The steps of main and of its publishing thread ... *)
PublisherSide == \/ Start \/ Spawn \/ ConnectPublisher \/ NextRound \/ WriteRow \/ EndRound
                 \/ CommitRows \/ Throw \/ Finally
                 \/ (Send /\ UNCHANGED <<mainVars, subVars, recvVars>>)
                 \/ (LoseLink /\ UNCHANGED <<mainVars, subVars, recvVars>>)

(* ... and those of the receiver and its subscription. *)
SubscriberSide == ReceiverStep \/ Package \/ LoseData \/ Disconnect

LEMMA Steps == [Next]_vars => PublisherSide \/ SubscriberSide \/ UNCHANGED vars
BY DEF Next, MainStep, SdkStep, PublisherSide, SubscriberSide

(* Neither side touches what the other one has got. *)
LEMMA SubscriberApart == SubscriberSide => UNCHANGED <<mainVars, sdkVars>>
BY DEF SubscriberSide, ReceiverStep, Package, LoseData, Disconnect, Subscribe, SubscribeFails,
       NextEvent, RecordRow, RecordFails, EndRows

LEMMA PublisherApart == PublisherSide => UNCHANGED <<rows, hi, histoCounter, reports>>
BY DEF PublisherSide, Start, Spawn, ConnectPublisher, NextRound, WriteRow, EndRound,
       CommitRows, Throw, Finally, recvVars

-----------------------------------------------------------------------------
(* The inductive invariant of main, in named parts. *)
MainType == /\ pc \in MainLabels /\ count \in 0 .. Count /\ i \in 0 .. LoopRecs
            /\ value \in Nat /\ starts \in Nat /\ stops \in Nat
            /\ link \in {"none", "up", "lost"}
            /\ bufferSize = BufferSize /\ writer = <<>> /\ ~open
            /\ queue \in Seq(Nat) /\ Len(queue) <= BufferSize
            /\ inserted \in Seq(Nat) /\ committed \in BOOLEAN

(* start() and stop() are called once each, by main. *)
LifeInv == /\ pc = "start" => starts = 0 /\ stops = 0
           /\ pc \notin {"start", "end"} => starts = 1 /\ stops = 0
           /\ pc = "end" => starts = 1 /\ stops = 1

(* The rows sent and those queued follow each other. *)
NumberInv == /\ Numbered(inserted, 0)
             /\ Numbered(queue, Len(inserted))
             /\ value = Len(inserted) + Len(queue)

(* The next row's number is its place in the rounds. *)
PlaceInv == /\ pc \in {"start", "spawn", "connect"} => count = Count /\ value = 0
            /\ pc = "round" => value = (Count - count) * LoopRecs
            /\ pc = "row" => count < Count /\ value = (Count - count - 1) * LoopRecs + i

(* After the commit nothing is queued or sent. *)
CommitInv == committed => pc \in {"finally", "end"} /\ queue = <<>>

MainInv == MainType /\ LifeInv /\ NumberInv /\ PlaceInv /\ CommitInv

-----------------------------------------------------------------------------
LEMMA InitMain == Init => MainInv
<1>. SUFFICES ASSUME Init PROVE MainInv OBVIOUS
<1>0. Count \in Nat /\ LoopRecs \in Nat /\ BufferSize \in Nat BY ClientAssumption
<1>1. Len(<<>>) = 0 /\ <<>> \in Seq(Nat) OBVIOUS
<1>2. MainType
  <2>1. /\ pc \in MainLabels /\ count \in 0 .. Count /\ i \in 0 .. LoopRecs
        /\ value \in Nat /\ starts \in Nat /\ stops \in Nat /\ link \in {"none", "up", "lost"}
        BY <1>0 DEF Init, SdkInit, MainLabels
  <2>2. /\ bufferSize = BufferSize /\ writer = <<>> /\ ~open /\ committed \in BOOLEAN
        BY DEF Init, SdkInit
  <2>3. queue \in Seq(Nat) /\ Len(queue) <= BufferSize /\ inserted \in Seq(Nat)
        BY <1>0, <1>1 DEF Init, SdkInit
  <2>. QED BY <2>1, <2>2, <2>3 DEF MainType
<1>3. LifeInv BY DEF LifeInv, Init, SdkInit
<1>4. NumberInv BY <1>1 DEF NumberInv, Numbered, Init, SdkInit
<1>5. PlaceInv /\ CommitInv BY DEF PlaceInv, CommitInv, Init, SdkInit
<1>. QED BY <1>2, <1>3, <1>4, <1>5 DEF MainInv

(* A step that leaves main and the SDK alone leaves MainInv alone. *)
LEMMA MainApart == MainInv /\ UNCHANGED <<mainVars, sdkVars>> => MainInv'
BY DEF MainInv, MainType, LifeInv, NumberInv, PlaceInv, CommitInv, mainVars, sdkVars

LEMMA StepMainType == MainType /\ PublisherSide => MainType'
<1>. SUFFICES ASSUME MainType, PublisherSide PROVE MainType' OBVIOUS
<1>0. Count \in Nat /\ LoopRecs \in Nat \ {0} /\ BufferSize \in Nat \ {0} BY ClientAssumption
<1>s. queue \in Seq(Nat) /\ inserted \in Seq(Nat) /\ Len(queue) \in Nat
      BY LenProperties DEF MainType
<1>1. CASE Start BY <1>1 DEF Start, StartSdk, GoTo, rowVars, MainType, MainLabels
<1>2. CASE Spawn BY <1>2 DEF Spawn, GoTo, sdkVars, MainType, MainLabels
<1>3. CASE ConnectPublisher
      BY <1>3 DEF ConnectPublisher, Connect, GoTo, rowVars, MainType, MainLabels
<1>4. CASE NextRound
      BY <1>0, <1>4 DEF NextRound, GoTo, sdkVars, MainType, MainLabels
<1>5. CASE WriteRow
  <2>1. bufferSize > 0 BY <1>0 DEF MainType
  <2>2. /\ Len(queue) < bufferSize /\ queue' = Append(queue, value)
        /\ UNCHANGED <<writer, open, starts, stops, link, bufferSize, inserted, committed>>
        BY <1>5, <2>1 DEF WriteRow, Write, Buffered
  <2>3. value \in Nat /\ value' = value + 1 /\ i \in 0 .. LoopRecs /\ i < LoopRecs
        /\ i' = i + 1 /\ count' = count
        BY <1>5 DEF WriteRow, MainType
  <2>4. value' \in Nat /\ i' \in 0 .. LoopRecs BY <1>0, <2>3
  <2>5. queue' \in Seq(Nat) /\ Len(queue') = Len(queue) + 1
        BY <1>s, <2>2, <2>3, AppendProperties
  <2>6. bufferSize = BufferSize BY DEF MainType
  <2>7. Len(queue') <= BufferSize BY <1>0, <1>s, <2>2, <2>5, <2>6
  <2>8. pc' \in MainLabels BY <1>5 DEF WriteRow, GoTo, MainLabels
  <2>. QED BY <2>2, <2>3, <2>4, <2>5, <2>7, <2>8 DEF MainType
<1>6. CASE EndRound BY <1>6 DEF EndRound, GoTo, sdkVars, MainType, MainLabels
<1>7. CASE CommitRows BY <1>7 DEF CommitRows, Commit, GoTo, rowVars, MainType, MainLabels
<1>8. CASE Throw BY <1>8 DEF Throw, sdkVars, MainType, MainLabels
<1>9. CASE Finally BY <1>9 DEF Finally, StopSdk, GoTo, rowVars, MainType, MainLabels
<1>10. CASE Send /\ UNCHANGED <<mainVars, subVars, recvVars>>
  <2>1. queue # <<>> /\ queue' = Tail(queue) /\ inserted' = Append(inserted, Head(queue))
        /\ UNCHANGED <<starts, stops, link, bufferSize, writer, open, committed, mainVars>>
        BY <1>10 DEF Send
  <2>2. Tail(queue) \in Seq(Nat) /\ Len(Tail(queue)) = Len(queue) - 1 /\ Head(queue) \in Nat
        BY <1>s, <2>1, HeadTailProperties
  <2>3. inserted' \in Seq(Nat) BY <1>s, <2>1, <2>2, AppendProperties
  <2>4. Len(queue) <= BufferSize BY DEF MainType
  <2>5. Len(queue') <= BufferSize BY <1>0, <1>s, <2>1, <2>2, <2>4
  <2>. QED BY <2>1, <2>2, <2>3, <2>5 DEF MainType, mainVars
<1>11. CASE LoseLink /\ UNCHANGED <<mainVars, subVars, recvVars>>
       BY <1>11 DEF LoseLink, rowVars, mainVars, MainType
<1>. QED BY <1>1, <1>2, <1>3, <1>4, <1>5, <1>6, <1>7, <1>8, <1>9, <1>10, <1>11
         DEF PublisherSide

LEMMA StepLife == LifeInv /\ PublisherSide => LifeInv'
<1>. SUFFICES ASSUME LifeInv, PublisherSide PROVE LifeInv' OBVIOUS
<1>1. CASE Start BY <1>1 DEF Start, StartSdk, GoTo, LifeInv
<1>2. CASE Spawn \/ NextRound \/ EndRound
      BY <1>2 DEF Spawn, NextRound, EndRound, GoTo, sdkVars, LifeInv
<1>3. CASE ConnectPublisher \/ CommitRows
      BY <1>3 DEF ConnectPublisher, Connect, CommitRows, Commit, GoTo, LifeInv
<1>4. CASE WriteRow BY <1>4 DEF WriteRow, Write, GoTo, LifeInv
<1>5. CASE Throw BY <1>5 DEF Throw, sdkVars, LifeInv
<1>6. CASE Finally
  <2>1. starts' = starts /\ stops' = stops + 1 /\ pc = "finally" /\ pc' = "end"
        BY <1>6 DEF Finally, StopSdk, GoTo
  <2>2. starts = 1 /\ stops = 0 BY <2>1 DEF LifeInv
  <2>3. starts' = 1 /\ stops' = 1 BY <2>1, <2>2
  <2>. QED BY <2>1, <2>3 DEF LifeInv
<1>7. CASE (Send \/ LoseLink) /\ UNCHANGED <<mainVars, subVars, recvVars>>
      BY <1>7 DEF Send, LoseLink, mainVars, LifeInv
<1>. QED BY <1>1, <1>2, <1>3, <1>4, <1>5, <1>6, <1>7 DEF PublisherSide

LEMMA StepNumber == MainType /\ NumberInv /\ PublisherSide => NumberInv'
<1>. SUFFICES ASSUME MainType, NumberInv, PublisherSide PROVE NumberInv' OBVIOUS
<1>s. queue \in Seq(Nat) /\ inserted \in Seq(Nat) /\ Len(queue) \in Nat /\ Len(inserted) \in Nat
      BY LenProperties DEF MainType
<1>v. /\ Numbered(inserted, 0) /\ Numbered(queue, Len(inserted))
      /\ value = Len(inserted) + Len(queue)
      BY DEF NumberInv
<1>1. CASE UNCHANGED <<value, queue, inserted>> BY <1>1 DEF NumberInv
<1>2. CASE WriteRow
  <2>0. BufferSize \in Nat \ {0} BY ClientAssumption
  <2>1. bufferSize > 0 BY <2>0 DEF MainType
  <2>2. queue' = Append(queue, value) /\ inserted' = inserted /\ value' = value + 1
        BY <1>2, <2>1 DEF WriteRow, Write, Buffered
  <2>3. Len(queue') = Len(queue) + 1 /\ Numbered(queue', Len(inserted))
        BY <1>s, <1>v, <2>2, AppendNumbered
  <2>. QED BY <1>s, <1>v, <2>2, <2>3 DEF NumberInv
<1>3. CASE Send /\ UNCHANGED <<mainVars, subVars, recvVars>>
  <2>1. queue # <<>> /\ queue' = Tail(queue) /\ inserted' = Append(inserted, Head(queue))
        /\ value' = value
        BY <1>3 DEF Send, mainVars
  <2>2. Head(queue) = Len(inserted) /\ Len(queue') = Len(queue) - 1
        /\ Numbered(queue', Len(inserted) + 1)
        BY <1>s, <1>v, <2>1, TailNumbered
  <2>3. Append(inserted, 0 + Len(inserted)) = inserted' BY <1>s, <2>1, <2>2
  <2>4. Len(inserted') = Len(inserted) + 1 /\ Numbered(inserted', 0)
        BY <1>s, <1>v, <2>3, AppendNumbered
  <2>. QED BY <1>s, <1>v, <2>1, <2>2, <2>4 DEF NumberInv
<1>4. Start \/ Spawn \/ ConnectPublisher \/ NextRound \/ EndRound \/ CommitRows \/ Throw
      \/ Finally \/ (LoseLink /\ UNCHANGED <<mainVars, subVars, recvVars>>)
      => UNCHANGED <<value, queue, inserted>>
      BY DEF Start, Spawn, ConnectPublisher, NextRound, EndRound, CommitRows, Throw, Finally,
             LoseLink, StartSdk, StopSdk, Connect, Commit, mainVars, rowVars, sdkVars
<1>. QED BY <1>1, <1>2, <1>3, <1>4 DEF PublisherSide

(* A round more is LoopRecs rows more. *)
LEMMA OneRoundMore ==
    ASSUME NEW a \in Nat, NEW b \in Nat
    PROVE  (a + 1) * b = a * b + b /\ a * b \in Nat
OBVIOUS

LEMMA StepPlace == MainType /\ PlaceInv /\ PublisherSide => PlaceInv'
<1>. SUFFICES ASSUME MainType, PlaceInv, PublisherSide PROVE PlaceInv' OBVIOUS
<1>0. LoopRecs \in Nat /\ Count \in Nat BY ClientAssumption
<1>n. count \in 0 .. Count /\ i \in 0 .. LoopRecs /\ value \in Nat BY DEF MainType
<1>i. i \in Nat BY <1>0, <1>n
<1>1. CASE NextRound
  <2>1. count > 0 /\ pc' = "row" /\ count' = count - 1 /\ i' = 0
        /\ value' = (Count - count) * LoopRecs
        BY <1>1 DEF NextRound, GoTo, PlaceInv
  <2>2. Count - count = Count - count' - 1 /\ count' < Count BY <1>0, <1>n, <2>1
  <2>3. Count - count \in Nat BY <1>0, <1>n
  <2>4. (Count - count) * LoopRecs \in Nat BY <1>0, <2>3, OneRoundMore
  <2>5. value' = (Count - count' - 1) * LoopRecs + i' BY <2>1, <2>2, <2>4
  <2>. QED BY <2>1, <2>2, <2>5 DEF PlaceInv
<1>2. CASE WriteRow
  <2>1. pc' = "row" /\ value' = value + 1 /\ count' = count /\ i' = i + 1 /\ count < Count
        /\ value = (Count - count - 1) * LoopRecs + i
        BY <1>2 DEF WriteRow, GoTo, PlaceInv
  <2>2. Count - count - 1 \in Nat BY <1>0, <1>n, <2>1
  <2>3. (Count - count - 1) * LoopRecs \in Nat BY <1>0, <2>2, OneRoundMore
  <2>4. value' = (Count - count' - 1) * LoopRecs + i' BY <1>i, <2>1, <2>3
  <2>. QED BY <2>1, <2>4 DEF PlaceInv
<1>3. CASE EndRound
  <2>1. pc' = "round" /\ value' = value /\ count' = count /\ count < Count
        /\ value = (Count - count - 1) * LoopRecs + LoopRecs
        BY <1>3 DEF EndRound, GoTo, PlaceInv
  <2>2. Count - count - 1 \in Nat /\ Count - count = (Count - count - 1) + 1
        BY <1>0, <1>n, <2>1
  <2>3. value = (Count - count) * LoopRecs BY <1>0, <2>1, <2>2, OneRoundMore
  <2>. QED BY <2>1, <2>3 DEF PlaceInv
<1>4. CASE ConnectPublisher
  <2>1. pc' = "round" /\ count' = Count /\ value' = 0
        BY <1>4 DEF ConnectPublisher, GoTo, PlaceInv
  <2>2. (Count - count') * LoopRecs = 0 BY <1>0, <2>1
  <2>. QED BY <2>1, <2>2 DEF PlaceInv
<1>5. CASE Start \/ Spawn BY <1>5 DEF Start, Spawn, GoTo, PlaceInv
<1>6. CASE CommitRows \/ Throw \/ Finally
      BY <1>6 DEF CommitRows, Throw, Finally, GoTo, PlaceInv
<1>7. CASE UNCHANGED mainVars BY <1>7 DEF mainVars, PlaceInv
<1>. QED BY <1>1, <1>2, <1>3, <1>4, <1>5, <1>6, <1>7 DEF PublisherSide

LEMMA StepCommit == CommitInv /\ PublisherSide => CommitInv'
<1>. SUFFICES ASSUME CommitInv, PublisherSide PROVE CommitInv' OBVIOUS
<1>1. ASSUME committed PROVE pc \in {"finally", "end"} /\ queue = <<>> BY <1>1 DEF CommitInv
<1>2. CASE Start \/ Spawn \/ ConnectPublisher \/ NextRound \/ WriteRow \/ EndRound
  <2>1. pc \notin {"finally", "end"} /\ committed' = committed
        BY <1>2 DEF Start, Spawn, ConnectPublisher, NextRound, WriteRow, EndRound, GoTo,
                    StartSdk, Connect, Write, sdkVars
  <2>. QED BY <1>1, <2>1 DEF CommitInv
<1>3. CASE CommitRows BY <1>3 DEF CommitRows, Commit, GoTo, rowVars, CommitInv
<1>4. CASE Throw \/ Finally
  <2>1. pc' \in {"finally", "end"} /\ UNCHANGED <<queue, committed>>
        BY <1>4 DEF Throw, Finally, StopSdk, GoTo, rowVars, sdkVars
  <2>. QED BY <1>1, <2>1 DEF CommitInv
<1>5. CASE Send /\ UNCHANGED <<mainVars, subVars, recvVars>>
  <2>1. queue # <<>> /\ committed' = committed BY <1>5 DEF Send
  <2>. QED BY <1>1, <2>1 DEF CommitInv
<1>6. CASE LoseLink /\ UNCHANGED <<mainVars, subVars, recvVars>>
      BY <1>6 DEF LoseLink, rowVars, mainVars, CommitInv
<1>. QED BY <1>2, <1>3, <1>4, <1>5, <1>6 DEF PublisherSide

(* MainInv holds for ever, whatever the receiver does. *)
LEMMA StepMain == MainInv /\ [Next]_vars => MainInv'
<1>. SUFFICES ASSUME MainInv, [Next]_vars PROVE MainInv' OBVIOUS
<1>1. CASE PublisherSide
      BY <1>1, StepMainType, StepLife, StepNumber, StepPlace, StepCommit DEF MainInv
<1>2. SubscriberSide \/ UNCHANGED vars => UNCHANGED <<mainVars, sdkVars>>
      BY SubscriberApart DEF vars, mainVars, sdkVars
<1>. QED BY <1>1, <1>2, Steps, MainApart

LEMMA Invariant == Spec => []MainInv
<1>1. Init => MainInv BY InitMain
<1>2. MainInv /\ [Next]_vars => MainInv' BY StepMain
<1>. QED BY <1>1, <1>2, PTL DEF Spec

(* However doPublish() ends, main has called stop() as often as start()    *)
(* (RTTClient.java:136, :172).                                             *)
THEOREM StopsMatched == Spec => []StopsMatchStarts
<1>1. MainInv => StopsMatchStarts BY DEF MainInv, LifeInv, StopsMatchStarts
<1>. QED BY <1>1, Invariant, PTL

-----------------------------------------------------------------------------
(* Every step inserts the next row, commits, or is nothing to the stream.  *)
LEMMA StepStream == MainInv /\ [Next]_vars => [Stream!Next]_(Stream!vars)
<1>. SUFFICES ASSUME MainInv, [Next]_vars PROVE [Stream!Next]_(Stream!vars) OBVIOUS
<1>t. MainType /\ NumberInv /\ PlaceInv /\ CommitInv BY DEF MainInv
<1>s. queue \in Seq(Nat) /\ inserted \in Seq(Nat) /\ Len(queue) \in Nat /\ Len(inserted) \in Nat
      BY <1>t, LenProperties DEF MainType
<1>1. CASE UNCHANGED <<inserted, committed>> BY <1>1 DEF Stream!vars
<1>2. CASE Send /\ UNCHANGED <<mainVars, subVars, recvVars>>
  <2>1. queue # <<>> /\ inserted' = Append(inserted, Head(queue)) /\ committed' = committed
        BY <1>2 DEF Send
  <2>2. ~committed BY <1>t, <2>1 DEF CommitInv
  <2>3. Head(queue) = Len(inserted) BY <1>s, <1>t, <2>1, TailNumbered DEF NumberInv
  <2>4. inserted' = inserted \o <<Len(inserted)>> BY <1>s, <2>1, <2>3, AppendIsConcat
  <2>5. Stream!Rows(Len(inserted), 1) = <<Len(inserted)>>
    <3>1. Stream!Rows(Len(inserted), 1) = [j \in 1 .. 1 |-> Len(inserted)]
          BY <1>s DEF Stream!Rows
    <3>. QED BY <3>1
  <2>6. inserted' = inserted \o Stream!Rows(Len(inserted), 1) BY <2>4, <2>5, Zenon
  <2>7. 1 \in 1 .. 1 OBVIOUS
  <2>8. Stream!Insert BY <2>1, <2>2, <2>6, <2>7, Zenon DEF Stream!Insert
  <2>. QED BY <2>8 DEF Stream!Next
<1>3. CASE CommitRows
  <2>1. /\ pc = "round" /\ count = 0 /\ queue = <<>>
        /\ committed' = TRUE /\ inserted' = inserted
        BY <1>3 DEF CommitRows, Commit, GoTo, rowVars
  <2>2. ~committed BY <1>t, <2>1 DEF CommitInv
  <2>3. Len(inserted) = Count * LoopRecs
    <3>1. value = (Count - 0) * LoopRecs BY <1>t, <2>1 DEF PlaceInv
    <3>2. value = Len(inserted) + Len(queue) /\ Len(queue) = 0
          BY <1>t, <2>1 DEF NumberInv
    <3>3. Count \in Nat BY ClientAssumption
    <3>. QED BY <1>s, <3>1, <3>2, <3>3
  <2>4. Len(inserted) + 1 > Count * LoopRecs BY <1>s, <2>3
  <2>. QED BY <2>1, <2>2, <2>4 DEF Stream!Next, Stream!Commit
<1>4. Start \/ Spawn \/ ConnectPublisher \/ NextRound \/ WriteRow \/ EndRound \/ Throw
      \/ Finally \/ (LoseLink /\ UNCHANGED <<mainVars, subVars, recvVars>>)
      => UNCHANGED <<inserted, committed>>
      BY DEF Start, Spawn, ConnectPublisher, NextRound, WriteRow, EndRound, Throw, Finally,
             LoseLink, StartSdk, StopSdk, Connect, Write, mainVars, rowVars, sdkVars
<1>5. SubscriberSide \/ UNCHANGED vars => UNCHANGED <<inserted, committed>>
      BY SubscriberApart DEF vars, sdkVars
<1>. QED BY <1>1, <1>2, <1>3, <1>4, <1>5, Steps DEF PublisherSide

(* The publisher implements RowStream with rows sent one by one, whatever  *)
(* the receiver does and whichever way either of them ends                 *)
(* (RTTClient.java:97-127).                                                *)
THEOREM StreamImplemented == Spec => ImplementsStream
<1>1. Init => Stream!Init BY DEF Init, SdkInit, Stream!Init
<1>2. MainInv /\ [Next]_vars => [Stream!Next]_(Stream!vars) BY StepStream
<1>. QED BY <1>1, <1>2, Invariant, PTL DEF Spec, ImplementsStream, Stream!Spec

-----------------------------------------------------------------------------
(* The receiver: its type and its counter. *)
EventType == [type : EventTypes, rows : Seq(Nat)]

(* What SubscriberSide works on ... *)
SubType == /\ rpc \in {"new", "connect", "events", "rows", "ended"}
           /\ sub \in {"none", "on", "closed"} /\ lost \in BOOLEAN
           /\ events \in Seq(EventType) /\ delivered \in 0 .. Len(inserted)

(* ... and the histogram's owner. *)
HistogramInv == /\ rows \in Seq(Nat) /\ hi \in Seq(Nat) /\ reports \in Seq(Seq(Nat))
                /\ histoCounter \in 0 .. ReportRows - 1
                /\ ReportsExact

ReceiverInv == SubType /\ HistogramInv

LEMMA InitReceiver == Init => ReceiverInv
<1>. SUFFICES ASSUME Init PROVE ReceiverInv OBVIOUS
<1>1. \A S : <<>> \in Seq(S) BY EmptySeq
<1>2. Len(<<>>) = 0 /\ DOMAIN <<>> = {} OBVIOUS
<1>3. 0 \in 0 .. ReportRows - 1 BY ClientAssumption
<1>4. SubType
  <2>1. events \in Seq(EventType) BY <1>1 DEF Init
  <2>2. delivered \in 0 .. Len(inserted) BY <1>2 DEF Init, SdkInit
  <2>. QED BY <2>1, <2>2 DEF SubType, Init
<1>5. ReportsExact BY <1>2 DEF ReportsExact, Init
<1>6. HistogramInv
  <2>1. rows \in Seq(Nat) /\ hi \in Seq(Nat) /\ reports \in Seq(Seq(Nat)) BY <1>1 DEF Init
  <2>. QED BY <1>3, <1>5, <2>1 DEF HistogramInv, Init
<1>. QED BY <1>4, <1>6 DEF ReceiverInv

(* An event without rows, or with rows of the stream, is an event. *)
LEMMA OtherType == \A t \in EventTypes : Other(t) \in EventType
BY EmptySeq DEF Other, EventType

LEMMA DataType == \A s \in Seq(Nat) : Data(s) \in EventType
BY DEF Data, EventType, EventTypes

LEMMA Cut ==
    ASSUME NEW S, NEW s \in Seq(S), NEW k \in 0 .. Len(s)
    PROVE  SubSeq(s, 1, k) \in Seq(S)
BY SubSeqProperties

(* A closed subscriber keeps its type. *)
LEMMA CloseType == SubType /\ CloseSubscriber =>
                       /\ sub' \in {"none", "on", "closed"} /\ lost' \in BOOLEAN
                       /\ events' \in Seq(EventType) /\ delivered' = delivered
<1>. SUFFICES ASSUME SubType, CloseSubscriber
              PROVE  /\ sub' \in {"none", "on", "closed"} /\ lost' \in BOOLEAN
                     /\ events' \in Seq(EventType) /\ delivered' = delivered
     OBVIOUS
<1>1. CASE sub = "on"
  <2>1. PICK k \in 0 .. Len(events) :
            events' = Append(SubSeq(events, 1, k), Other("CLOSED"))
        BY <1>1 DEF CloseSubscriber
  <2>2. SubSeq(events, 1, k) \in Seq(EventType) BY Cut DEF SubType
  <2>3. Other("CLOSED") \in EventType BY OtherType DEF EventTypes
  <2>4. events' \in Seq(EventType) BY <2>1, <2>2, <2>3, AppendProperties
  <2>. QED BY <1>1, <2>4 DEF CloseSubscriber, SubType
<1>2. CASE sub # "on" BY <1>2 DEF CloseSubscriber, subVars, SubType
<1>. QED BY <1>1, <1>2

(* The stream only grows. *)
LEMMA StreamGrows ==
    ASSUME MainType, [Next]_vars
    PROVE  Len(inserted) \in Nat /\ Len(inserted') \in Nat /\ Len(inserted) <= Len(inserted')
<1>s. inserted \in Seq(Nat) /\ Len(inserted) \in Nat /\ queue \in Seq(Nat)
      BY LenProperties DEF MainType
<1>1. CASE inserted' = inserted BY <1>s, <1>1
<1>2. CASE Send
  <2>1. inserted' = Append(inserted, Head(queue)) /\ Head(queue) \in Nat
        BY <1>s, <1>2, HeadTailProperties DEF Send
  <2>2. Len(inserted') = Len(inserted) + 1 BY <1>s, <2>1, AppendProperties
  <2>. QED BY <1>s, <2>2
<1>3. SubscriberSide \/ UNCHANGED vars => inserted' = inserted
      BY SubscriberApart DEF vars, sdkVars
<1>4. Start \/ Spawn \/ ConnectPublisher \/ NextRound \/ WriteRow \/ EndRound \/ CommitRows
      \/ Throw \/ Finally \/ LoseLink
      => inserted' = inserted
      BY DEF Start, Spawn, ConnectPublisher, NextRound, WriteRow, EndRound, CommitRows, Throw,
             Finally, LoseLink, StartSdk, StopSdk, Connect, Commit, Write, rowVars, sdkVars
<1>. QED BY <1>1, <1>2, <1>3, <1>4, Steps DEF PublisherSide

LEMMA StepSub == MainType /\ ReceiverInv /\ [Next]_vars => SubType'
<1>. SUFFICES ASSUME MainType, ReceiverInv, [Next]_vars PROVE SubType' OBVIOUS
<1>t. SubType BY DEF ReceiverInv
<1>g. Len(inserted) \in Nat /\ Len(inserted') \in Nat /\ Len(inserted) <= Len(inserted')
      BY StreamGrows
<1>s. events \in Seq(EventType) /\ inserted \in Seq(Nat) BY <1>t DEF SubType, MainType
<1>d. delivered \in 0 .. Len(inserted) /\ delivered \in 0 .. Len(inserted')
  <2>1. delivered \in 0 .. Len(inserted) BY <1>t DEF SubType
  <2>. QED BY <2>1, <1>g
<1>1. CASE UNCHANGED subVars /\ rpc' \in {"new", "connect", "events", "rows", "ended"}
      BY <1>1, <1>t, <1>d DEF SubType, subVars
<1>2. CASE Finally
  <2>1. CloseSubscriber /\ rpc' = rpc BY <1>2 DEF Finally, recvVars
  <2>. QED BY <1>t, <1>d, <2>1, CloseType DEF SubType
<1>3. CASE Package
  <2>1. PICK n \in delivered + 1 .. Len(inserted) :
            /\ events' = Append(events, Data(SubSeq(inserted, delivered + 1, n)))
            /\ delivered' = n
        BY <1>3 DEF Package
  <2>2. delivered + 1 \in 1 .. Len(inserted) + 1 /\ n \in delivered .. Len(inserted)
        BY <1>d, <1>g
  <2>3. SubSeq(inserted, delivered + 1, n) \in Seq(Nat)
    <3>1. \A j \in delivered + 1 .. n : j \in 1 .. Len(inserted) BY <1>d, <1>g
    <3>. QED BY <1>s, <1>d, <1>g, <3>1, SubSeqProperties
  <2>4. events' \in Seq(EventType) BY <1>s, <2>1, <2>3, DataType, AppendProperties
  <2>5. delivered' \in 0 .. Len(inserted') BY <1>d, <1>g, <2>1
  <2>6. sub' = sub /\ lost' = lost /\ rpc' = rpc BY <1>3 DEF Package, recvVars
  <2>. QED BY <1>t, <2>4, <2>5, <2>6 DEF SubType
<1>4. CASE LoseData
  <2>1. PICK n \in delivered + 1 .. Len(inserted) : delivered' = n BY <1>4 DEF LoseData
  <2>2. delivered' \in 0 .. Len(inserted') BY <1>d, <1>g, <2>1
  <2>3. Other("DATA_LOST") \in EventType BY OtherType DEF EventTypes
  <2>4. events' \in Seq(EventType) BY <1>4, <1>s, <2>3, AppendProperties DEF LoseData
  <2>5. sub' = sub /\ lost' = TRUE /\ rpc' = rpc BY <1>4 DEF LoseData, recvVars
  <2>. QED BY <1>t, <2>2, <2>4, <2>5 DEF SubType
<1>5. CASE Disconnect
  <2>1. Other("DISCONNECTED") \in EventType BY OtherType DEF EventTypes
  <2>2. events' \in Seq(EventType) BY <1>5, <1>s, <2>1, AppendProperties DEF Disconnect
  <2>3. sub' = "closed" /\ UNCHANGED <<lost, rpc, delivered>>
        BY <1>5 DEF Disconnect, recvVars
  <2>. QED BY <1>t, <1>d, <2>2, <2>3 DEF SubType
<1>6. CASE Subscribe
  <2>1. Other("SYNC_START") \in EventType /\ Other("SYNC_END") \in EventType
        BY OtherType DEF EventTypes
  <2>2. events' \in Seq(EventType) BY <1>6, <2>1 DEF Subscribe
  <2>3. delivered' \in 0 .. Len(inserted') /\ sub' = "on" /\ rpc' = "events" /\ lost' = lost
        BY <1>6, <1>g DEF Subscribe, sdkVars
  <2>. QED BY <1>t, <2>2, <2>3 DEF SubType
<1>7. CASE NextEvent
  <2>1. events' \in Seq(EventType)
        BY <1>7, <1>s, HeadTailProperties DEF NextEvent
  <2>2. rpc' \in {"events", "rows", "ended"} BY <1>7 DEF NextEvent
  <2>3. UNCHANGED <<sub, delivered, lost>> BY <1>7 DEF NextEvent
  <2>. QED BY <1>t, <1>d, <2>1, <2>2, <2>3 DEF SubType
<1>8. CASE SubscribeFails \/ RecordRow \/ RecordFails \/ EndRows
      BY <1>8, <1>1, <1>t DEF SubscribeFails, RecordRow, RecordFails, EndRows, SubType
<1>9. CASE Start \/ Spawn \/ ConnectPublisher \/ NextRound \/ WriteRow \/ EndRound
           \/ CommitRows \/ Throw
      BY <1>9, <1>1, <1>t DEF Start, Spawn, ConnectPublisher, NextRound, WriteRow, EndRound,
         CommitRows, Throw, recvVars, SubType
<1>10. CASE (Send \/ LoseLink) /\ UNCHANGED <<mainVars, subVars, recvVars>>
       BY <1>10, <1>1, <1>t DEF recvVars, SubType
<1>11. CASE UNCHANGED vars BY <1>11, <1>1, <1>t DEF vars, subVars, SubType
<1>. QED BY <1>2, <1>3, <1>4, <1>5, <1>6, <1>7, <1>8, <1>9, <1>10, <1>11, Steps
         DEF PublisherSide, SubscriberSide, ReceiverStep

(* The counter counts the histogram's rows, whoever delivers them. *)
LEMMA StepHistogram == ReceiverInv /\ [Next]_vars => HistogramInv'
<1>. SUFFICES ASSUME ReceiverInv, [Next]_vars PROVE HistogramInv' OBVIOUS
<1>t. HistogramInv BY DEF ReceiverInv
<1>s. rows \in Seq(Nat) /\ hi \in Seq(Nat) /\ reports \in Seq(Seq(Nat)) BY <1>t DEF HistogramInv
<1>c. histoCounter \in 0 .. ReportRows - 1 /\ histoCounter = Len(hi)
      /\ ReportRows \in Nat \ {0}
      BY <1>t, ClientAssumption DEF HistogramInv, ReportsExact
<1>1. CASE UNCHANGED <<hi, histoCounter, reports>> /\ rows' \in Seq(Nat)
      BY <1>1, <1>t DEF HistogramInv, ReportsExact
<1>2. CASE NextEvent
  <2>1. events \in Seq(EventType) /\ events # <<>>
        BY <1>2 DEF NextEvent, ReceiverInv, SubType
  <2>2. Head(events) \in EventType BY <2>1, HeadTailProperties
  <2>3. Head(events).rows \in Seq(Nat) BY <2>2 DEF EventType
  <2>4. rows' = Head(events).rows \/ rows' = rows BY <1>2 DEF NextEvent
  <2>5. UNCHANGED <<hi, histoCounter, reports>> BY <1>2 DEF NextEvent
  <2>. QED BY <1>1, <1>s, <2>3, <2>4, <2>5
<1>3. CASE RecordRow
  <2>. DEFINE recorded == Append(hi, Head(rows))
  <2>1. Head(rows) \in Nat /\ rows' \in Seq(Nat)
        BY <1>3, <1>s, HeadTailProperties DEF RecordRow
  <2>2. recorded \in Seq(Nat) /\ Len(recorded) = histoCounter + 1
        BY <1>s, <1>c, <2>1, AppendProperties
  <2>3. CASE histoCounter + 1 = ReportRows
    <3>1. histoCounter' = 0 /\ hi' = <<>> /\ reports' = Append(reports, recorded)
          BY <1>3, <2>3 DEF RecordRow
    <3>2. 0 \in 0 .. ReportRows - 1 BY <1>c
    <3>3. /\ reports' \in Seq(Seq(Nat)) /\ Len(reports') = Len(reports) + 1
          /\ \A k \in 1 .. Len(reports) : reports'[k] = reports[k]
          /\ reports'[Len(reports) + 1] = recorded
          BY <1>s, <2>2, <3>1, AppendProperties
    <3>4. ASSUME NEW k \in DOMAIN reports' PROVE Len(reports'[k]) = ReportRows
      <4>1. Len(reports) \in Nat /\ DOMAIN reports = 1 .. Len(reports)
            BY <1>s, LenProperties
      <4>2. k \in 1 .. Len(reports) \/ k = Len(reports) + 1
        <5>1. k \in 1 .. Len(reports) + 1 BY <3>3, <3>4, LenProperties
        <5>. QED BY <4>1, <5>1
      <4>3. CASE k \in 1 .. Len(reports)
            BY <1>t, <3>3, <4>1, <4>3 DEF HistogramInv, ReportsExact
      <4>4. CASE k = Len(reports) + 1 BY <2>2, <2>3, <3>3, <4>4
      <4>. QED BY <4>2, <4>3, <4>4
    <3>5. <<>> \in Seq(Nat) /\ Len(<<>>) = 0 BY EmptySeq
    <3>. QED BY <2>1, <3>1, <3>2, <3>3, <3>4, <3>5 DEF HistogramInv, ReportsExact
  <2>4. CASE histoCounter + 1 # ReportRows
    <3>1. histoCounter' = histoCounter + 1 /\ hi' = recorded /\ reports' = reports
          BY <1>3, <2>4 DEF RecordRow
    <3>2. histoCounter + 1 \in 0 .. ReportRows - 1 BY <1>c, <2>4
    <3>3. \A k \in DOMAIN reports' : Len(reports'[k]) = ReportRows
          BY <1>t, <3>1 DEF HistogramInv, ReportsExact
    <3>. QED BY <1>s, <2>1, <2>2, <3>1, <3>2, <3>3 DEF HistogramInv, ReportsExact
  <2>. QED BY <2>3, <2>4
<1>4. Subscribe \/ SubscribeFails \/ RecordFails \/ EndRows \/ Package \/ LoseData
      \/ Disconnect \/ PublisherSide \/ UNCHANGED vars
      => UNCHANGED <<rows, hi, histoCounter, reports>>
      BY PublisherApart DEF Subscribe, SubscribeFails, RecordFails, EndRows, Package, LoseData,
         Disconnect, recvVars, vars
<1>. QED BY <1>1, <1>2, <1>3, <1>4, <1>s, Steps DEF SubscriberSide, ReceiverStep

LEMMA ReceiverInvariant == Spec => []ReceiverInv
<1>1. Init => ReceiverInv BY InitReceiver
<1>2. MainInv /\ ReceiverInv /\ [Next]_vars => ReceiverInv'
      BY StepSub, StepHistogram DEF ReceiverInv, MainInv
<1>. QED BY <1>1, <1>2, Invariant, PTL DEF Spec

(* A printed histogram holds ReportRows latencies, however the rows come   *)
(* and whichever of them are lost (RTTClient.java:214-224).                *)
THEOREM ReportsAreExact == Spec => []ReportsExact
<1>1. ReceiverInv => ReportsExact BY DEF ReceiverInv, HistogramInv
<1>. QED BY <1>1, ReceiverInvariant, PTL

(* The state of both threads and of the SDK keeps its shape. *)
THEOREM TypeCorrect == Spec => []TypeOK
<1>1. MainInv /\ ReceiverInv => TypeOK
      BY DEF MainInv, MainType, ReceiverInv, SubType, HistogramInv, TypeOK, EventType
<1>. QED BY <1>1, Invariant, ReceiverInvariant, PTL

-----------------------------------------------------------------------------
(* The rows on their way: recorded, being read, or in the events to come. *)
RowsOf(es)  == [j \in DOMAIN es |-> es[j].rows]
Pending(es) == FlattenSeq(RowsOf(es))
Pipeline    == Recorded \o (rows \o Pending(events))

Ascending(q) == \A k \in 1 .. Len(q) - 1 : q[k] < q[k + 1]
Gapless(q)   == \A k \in 1 .. Len(q) - 1 : q[k + 1] = q[k] + 1
Below(q, n)  == \A k \in 1 .. Len(q) : q[k] < n

(* The pipeline ascends to where the subscriber stands, and unless rows     *)
(* were lost it has no gaps, up to there while the subscriber is on.        *)
PipelineInv == /\ Ascending(Pipeline) /\ Below(Pipeline, delivered)
               /\ ~lost => Gapless(Pipeline)
               /\ sub = "on" /\ ~lost /\ Pipeline # <<>> => Pipeline[Len(Pipeline)] + 1 = delivered
               /\ sub = "none" => Pipeline = <<>>

(* Only the DATA event being read, and those to come, have rows. *)
ReadInv == /\ pc \in {"start", "spawn"} => rpc = "new"
           /\ rpc \in {"new", "connect"} => sub = "none"
           /\ rpc = "events" => rows = <<>>
           /\ \A k \in DOMAIN events : events[k].type # "DATA" => events[k].rows = <<>>

OrderInv == PipelineInv /\ ReadInv

LEMMA RowsOfProperties ==
    ASSUME NEW es \in Seq(EventType)
    PROVE  /\ RowsOf(es) \in Seq(Seq(Nat)) /\ Len(RowsOf(es)) = Len(es)
           /\ \A j \in 1 .. Len(es) : RowsOf(es)[j] = es[j].rows
<1>1. Len(es) \in Nat /\ DOMAIN es = 1 .. Len(es) BY LenProperties
<1>2. ASSUME NEW j \in 1 .. Len(es) PROVE es[j].rows \in Seq(Nat)
  <2>1. es[j] \in EventType BY ElementOfSeq
  <2>. QED BY <2>1 DEF EventType
<1>3. RowsOf(es) \in [1 .. Len(es) -> Seq(Nat)] BY <1>1, <1>2 DEF RowsOf
<1>4. RowsOf(es) \in Seq(Seq(Nat)) BY <1>1, <1>3, SeqDef
<1>5. Len(RowsOf(es)) = Len(es) BY <1>1, <1>3, <1>4, LenProperties
<1>. QED BY <1>1, <1>4, <1>5 DEF RowsOf

LEMMA PendingType == \A es \in Seq(EventType) : Pending(es) \in Seq(Nat)
BY RowsOfProperties, FlattenType DEF Pending

LEMMA PendingConcat ==
    ASSUME NEW es \in Seq(EventType), NEW fs \in Seq(EventType)
    PROVE  Pending(es \o fs) = Pending(es) \o Pending(fs)
<1>. DEFINE n == Len(es)   m == Len(fs)
<1>1. n \in Nat /\ m \in Nat BY LenProperties
<1>2. /\ es \o fs \in Seq(EventType) /\ Len(es \o fs) = n + m
      /\ \A k \in 1 .. n + m : (es \o fs)[k] = IF k <= n THEN es[k] ELSE fs[k - n]
      BY ConcatProperties
<1>3. /\ RowsOf(es) \in Seq(Seq(Nat)) /\ Len(RowsOf(es)) = n
      /\ \A j \in 1 .. n : RowsOf(es)[j] = es[j].rows
      BY RowsOfProperties
<1>4. /\ RowsOf(fs) \in Seq(Seq(Nat)) /\ Len(RowsOf(fs)) = m
      /\ \A j \in 1 .. m : RowsOf(fs)[j] = fs[j].rows
      BY RowsOfProperties
<1>5. /\ RowsOf(es \o fs) \in Seq(Seq(Nat)) /\ Len(RowsOf(es \o fs)) = n + m
      /\ \A j \in 1 .. n + m : RowsOf(es \o fs)[j] = (es \o fs)[j].rows
  <2>1. /\ RowsOf(es \o fs) \in Seq(Seq(Nat)) /\ Len(RowsOf(es \o fs)) = Len(es \o fs)
        /\ \A j \in 1 .. Len(es \o fs) : RowsOf(es \o fs)[j] = (es \o fs)[j].rows
        BY <1>2, RowsOfProperties
  <2>. QED BY <1>2, <2>1
<1>6. /\ RowsOf(es) \o RowsOf(fs) \in Seq(Seq(Nat))
      /\ Len(RowsOf(es) \o RowsOf(fs)) = n + m
      /\ \A k \in 1 .. n + m : (RowsOf(es) \o RowsOf(fs))[k]
             = IF k <= n THEN RowsOf(es)[k] ELSE RowsOf(fs)[k - n]
      BY <1>3, <1>4, ConcatProperties
<1>. HIDE DEF n, m
<1>7. ASSUME NEW k \in 1 .. n + m
      PROVE  RowsOf(es \o fs)[k] = (RowsOf(es) \o RowsOf(fs))[k]
  <2>1. CASE k <= n
    <3>1. k \in 1 .. n BY <1>1, <2>1
    <3>. QED BY <1>2, <1>3, <1>5, <1>6, <2>1, <3>1
  <2>2. CASE ~(k <= n)
    <3>1. k - n \in 1 .. m BY <1>1, <2>2
    <3>. QED BY <1>2, <1>4, <1>5, <1>6, <2>2, <3>1
  <2>. QED BY <2>1, <2>2
<1>8. RowsOf(es \o fs) = RowsOf(es) \o RowsOf(fs) BY <1>5, <1>6, <1>7, SeqEqual
<1>. QED BY <1>3, <1>4, <1>8, FlattenConcat DEF Pending

LEMMA PendingSingle ==
    ASSUME NEW e \in EventType
    PROVE  Pending(<<e>>) = e.rows
<1>1. e.rows \in Seq(Nat) BY DEF EventType
<1>2. RowsOf(<<e>>) = Append(<<>>, e.rows)
  <2>1. DOMAIN <<e>> = {1} /\ <<e>>[1] = e OBVIOUS
  <2>2. RowsOf(<<e>>) = [j \in {1} |-> e.rows] BY <2>1 DEF RowsOf
  <2>3. Append(<<>>, e.rows) = <<e.rows>> OBVIOUS
  <2>4. <<e.rows>> = [j \in {1} |-> e.rows] OBVIOUS
  <2>. QED BY <2>2, <2>3, <2>4
<1>3. <<>> \in Seq(Seq(Nat)) BY EmptySeq
<1>4. FlattenSeq(Append(<<>>, e.rows)) = FlattenSeq(<<>>) \o e.rows
  <2>. DEFINE z == <<>>
  <2>1. z \in Seq(Seq(Nat)) BY <1>3
  <2>. HIDE DEF z
  <2>2. FlattenSeq(Append(z, e.rows)) = FlattenSeq(z) \o e.rows BY <1>1, <2>1, FlattenAppend
  <2>. QED BY <2>2 DEF z
<1>5. <<>> \o e.rows = e.rows BY <1>1, ConcatEmptySeq
<1>. QED BY <1>2, <1>4, <1>5, FlattenEmpty DEF Pending

(* A new event, *)
LEMMA PendingAppend ==
    ASSUME NEW es \in Seq(EventType), NEW e \in EventType
    PROVE  Pending(Append(es, e)) = Pending(es) \o e.rows
<1>1. Append(es, e) = es \o <<e>> BY AppendIsConcat
<1>2. <<e>> \in Seq(EventType) OBVIOUS
<1>. QED BY <1>1, <1>2, PendingConcat, PendingSingle

(* A sequence is its head and what follows. *)
LEMMA HeadBefore ==
    ASSUME NEW S, NEW s \in Seq(S), s # <<>>
    PROVE  s = <<Head(s)>> \o Tail(s)
<1>1. Len(s) \in Nat /\ Len(s) > 0 BY EmptySeq
<1>2. 1 \in 1 .. Len(s) /\ Len(s) \in 1 .. Len(s) BY <1>1
<1>3. SubSeq(s, 1, Len(s)) = <<s[1]>> \o SubSeq(s, 1 + 1, Len(s))
      BY <1>2, SubSeqRecursiveFirst
<1>4. SubSeq(s, 1, Len(s)) = s BY SubSeqFull
<1>5. Head(s) = s[1] OBVIOUS
<1>6. Tail(s) = SubSeq(s, 2, Len(s)) BY TailIsSubSeq
<1>. QED BY <1>3, <1>4, <1>5, <1>6

(* the next event, *)
LEMMA PendingHead ==
    ASSUME NEW es \in Seq(EventType), es # <<>>
    PROVE  Pending(es) = Head(es).rows \o Pending(Tail(es))
<1>1. Head(es) \in EventType /\ Tail(es) \in Seq(EventType) BY HeadTailProperties
<1>2. es = <<Head(es)>> \o Tail(es) BY HeadBefore
<1>3. <<Head(es)>> \in Seq(EventType) BY <1>1
<1>4. Pending(<<Head(es)>> \o Tail(es)) = Pending(<<Head(es)>>) \o Pending(Tail(es))
      BY <1>1, <1>3, PendingConcat
<1>. QED BY <1>1, <1>2, <1>4, PendingSingle

(* and the events that are left when the last ones are forgotten. *)
LEMMA PendingCut ==
    ASSUME NEW es \in Seq(EventType), NEW k \in 0 .. Len(es)
    PROVE  /\ SubSeq(es, 1, k) \in Seq(EventType)
           /\ \E q \in Seq(Nat) : Pending(es) = Pending(SubSeq(es, 1, k)) \o q
<1>1. Len(es) \in Nat BY LenProperties
<1>2. SubSeq(es, 1, k) \in Seq(EventType) BY Cut
<1>3. SubSeq(es, k + 1, Len(es)) \in Seq(EventType)
  <2>1. \A j \in k + 1 .. Len(es) : es[j] \in EventType
    <3>1. \A j \in k + 1 .. Len(es) : j \in 1 .. Len(es) BY <1>1
    <3>. QED BY <3>1, ElementOfSeq
  <2>2. k + 1 \in Int /\ Len(es) \in Int BY <1>1
  <2>. QED BY <2>1, <2>2, SubSeqProperties
<1>4. es = SubSeq(es, 1, k) \o SubSeq(es, k + 1, Len(es))
  <2>1. 1 \in 1 .. Len(es) + 1 /\ k \in 1 - 1 .. Len(es) /\ Len(es) \in k .. Len(es) BY <1>1
  <2>2. SubSeq(es, 1, k) \o SubSeq(es, k + 1, Len(es)) = SubSeq(es, 1, Len(es))
        BY <2>1, ConcatAdjacentSubSeq
  <2>3. SubSeq(es, 1, Len(es)) = es BY SubSeqFull
  <2>. QED BY <2>2, <2>3
<1>5. PICK a \in Seq(EventType) : a = SubSeq(es, 1, k) BY <1>2
<1>6. PICK b \in Seq(EventType) : b = SubSeq(es, k + 1, Len(es)) BY <1>3
<1>7. Pending(a \o b) = Pending(a) \o Pending(b) BY PendingConcat
<1>8. Pending(es) = Pending(SubSeq(es, 1, k)) \o Pending(b) BY <1>4, <1>5, <1>6, <1>7
<1>9. Pending(b) \in Seq(Nat) BY PendingType
<1>. QED BY <1>2, <1>8, <1>9

-----------------------------------------------------------------------------
(* What holds of a sequence holds of its beginning. *)
LEMMA Beginning ==
    ASSUME NEW a \in Seq(Nat), NEW b \in Seq(Nat), NEW n \in Nat
    PROVE  /\ Ascending(a \o b) => Ascending(a)
           /\ Gapless(a \o b) => Gapless(a)
           /\ Below(a \o b, n) => Below(a, n)
           /\ a \o b = <<>> => a = <<>>
<1>1. Len(a) \in Nat /\ Len(b) \in Nat BY LenProperties
<1>2. /\ a \o b \in Seq(Nat) /\ Len(a \o b) = Len(a) + Len(b)
      /\ \A k \in 1 .. Len(a) + Len(b) :
            (a \o b)[k] = IF k <= Len(a) THEN a[k] ELSE b[k - Len(a)]
      BY ConcatProperties
<1>3. \A k \in 1 .. Len(a) : k \in 1 .. Len(a \o b) /\ (a \o b)[k] = a[k] BY <1>1, <1>2
<1>4. \A k \in 1 .. Len(a) - 1 :
          /\ k \in 1 .. Len(a \o b) - 1 /\ k \in 1 .. Len(a) /\ k + 1 \in 1 .. Len(a)
      BY <1>1, <1>2
<1>5. a \o b = <<>> => a = <<>>
  <2>1. a \o b = <<>> => Len(a) = 0 BY <1>1, <1>2, EmptySeq
  <2>. QED BY <2>1, EmptySeq
<1>. QED BY <1>3, <1>4, <1>5 DEF Ascending, Gapless, Below

(* The stream's next rows may be put behind. *)
LEMMA Continued ==
    ASSUME NEW a \in Seq(Nat), NEW m \in Nat, NEW b \in Seq(Nat), Numbered(b, m),
           Ascending(a), Below(a, m)
    PROVE  /\ a \o b \in Seq(Nat) /\ Ascending(a \o b) /\ Below(a \o b, m + Len(b))
           /\ Gapless(a) /\ (a # <<>> => a[Len(a)] + 1 = m) => Gapless(a \o b)
           /\ b # <<>> => a \o b # <<>> /\ (a \o b)[Len(a \o b)] + 1 = m + Len(b)
<1>. DEFINE n == Len(a)   l == Len(b)   c == a \o b
<1>1. n \in Nat /\ l \in Nat BY LenProperties
<1>2. /\ c \in Seq(Nat) /\ Len(c) = n + l
      /\ \A k \in 1 .. n + l : c[k] = IF k <= n THEN a[k] ELSE b[k - n]
      BY ConcatProperties
<1>3. \A k \in 1 .. n : a[k] \in Nat BY ElementOfSeq
<1>4. /\ \A k \in 1 .. n - 1 : a[k] < a[k + 1]
      /\ \A k \in 1 .. n : a[k] < m
      /\ \A k \in 1 .. l : b[k] = m + k - 1
      BY DEF Ascending, Below, Numbered
<1>e. (a # <<>> <=> n > 0) /\ (b # <<>> <=> l > 0) /\ (c # <<>> <=> n + l > 0)
  <2>1. \A q \in Seq(Nat) : q # <<>> <=> Len(q) > 0 BY EmptySeq
  <2>. QED BY <1>2, <2>1
<1>. HIDE DEF n, l, c
<1>5. \A k \in 1 .. n : k \in 1 .. n + l /\ c[k] = a[k] BY <1>1, <1>2
<1>6. ASSUME NEW k \in n + 1 .. n + l PROVE k \in 1 .. n + l /\ c[k] = m + (k - n) - 1
  <2>1. k \in 1 .. n + l /\ ~(k <= n) /\ k - n \in 1 .. l BY <1>1
  <2>2. c[k] = b[k - n] BY <1>2, <2>1
  <2>. QED BY <1>4, <2>1, <2>2
<1>7. ASSUME NEW k \in 1 .. n + l - 1
      PROVE  /\ c[k] < c[k + 1]
             /\ Gapless(a) /\ (n > 0 => a[n] + 1 = m) => c[k + 1] = c[k] + 1
  <2>1. CASE k < n
    <3>1. k \in 1 .. n - 1 /\ k \in 1 .. n /\ k + 1 \in 1 .. n BY <1>1, <2>1
    <3>2. Gapless(a) => a[k + 1] = a[k] + 1 BY <3>1 DEF Gapless, n
    <3>. QED BY <1>4, <1>5, <3>1, <3>2
  <2>2. CASE k = n
    <3>1. n \in 1 .. n /\ n + 1 \in n + 1 .. n + l /\ (n + 1) - n = 1 BY <1>1, <2>2
    <3>2. c[n] = a[n] /\ c[n + 1] = m + 1 - 1 /\ a[n] < m /\ a[n] \in Nat
          BY <1>3, <1>4, <1>5, <1>6, <3>1
    <3>. QED BY <1>1, <2>2, <3>1, <3>2
  <2>3. CASE k > n
    <3>1. k \in n + 1 .. n + l /\ k + 1 \in n + 1 .. n + l BY <1>1, <2>3
    <3>a. c[k] = m + (k - n) - 1 BY <1>6, <3>1
    <3>b. PICK j \in n + 1 .. n + l : j = k + 1 BY <3>1
    <3>c. c[j] = m + (j - n) - 1 BY <1>6
    <3>2. c[k] = m + (k - n) - 1 /\ c[k + 1] = m + ((k + 1) - n) - 1 BY <3>a, <3>b, <3>c
    <3>3. c[k + 1] = c[k] + 1 /\ c[k] \in Int
      <4>1. k \in Int /\ n \in Int /\ m \in Int BY <1>1
      <4>. QED BY ONLY <3>2, <4>1
    <3>. QED BY <3>3
  <2>4. k \in Int /\ n \in Int BY <1>1
  <2>5. k < n \/ k = n \/ k > n BY ONLY <2>4
  <2>. QED BY <2>1, <2>2, <2>3, <2>5
<1>8. ASSUME NEW k \in 1 .. n + l PROVE c[k] < m + l
  <2>1. CASE k <= n
    <3>1. k \in 1 .. n BY <1>1, <2>1
    <3>2. c[k] = a[k] /\ a[k] \in Nat /\ a[k] < m BY <1>3, <1>4, <1>5, <3>1
    <3>. QED BY <1>1, <3>2
  <2>2. CASE k > n
    <3>1. k \in n + 1 .. n + l BY <1>1, <2>2
    <3>2. c[k] = m + (k - n) - 1 BY <1>6, <3>1
    <3>. QED BY <1>1, <3>1, <3>2
  <2>. QED BY <1>1, <2>1, <2>2
<1>9. l > 0 => c[n + l] + 1 = m + l
  <2>1. ASSUME l > 0 PROVE c[n + l] + 1 = m + l
    <3>1. n + l \in n + 1 .. n + l /\ (n + l) - n = l BY <1>1, <2>1
    <3>2. c[n + l] = m + l - 1 BY <1>6, <3>1
    <3>. QED BY <1>1, <3>2
  <2>. QED BY <2>1
<1>10. Ascending(c) BY <1>1, <1>2, <1>7 DEF Ascending
<1>11. Below(c, m + l) BY <1>1, <1>2, <1>8 DEF Below
<1>12. Gapless(a) /\ (a # <<>> => a[n] + 1 = m) => Gapless(c)
       BY <1>1, <1>2, <1>7, <1>e DEF Gapless
<1>13. b # <<>> => c # <<>> /\ c[Len(c)] + 1 = m + l BY <1>1, <1>2, <1>9, <1>e
<1>. QED BY <1>2, <1>10, <1>11, <1>12, <1>13 DEF n, l, c

LEMMA BelowMore ==
    ASSUME NEW q \in Seq(Nat), NEW m \in Nat, NEW n \in Nat, m <= n, Below(q, m)
    PROVE  Below(q, n)
<1>1. \A k \in 1 .. Len(q) : q[k] \in Nat BY ElementOfSeq
<1>. QED BY <1>1 DEF Below

(* The stream's rows from one place to another. *)
LEMMA SubSeqNumbered ==
    ASSUME NEW s \in Seq(Nat), Numbered(s, 0), NEW d \in 0 .. Len(s), NEW n \in d + 1 .. Len(s)
    PROVE  /\ SubSeq(s, d + 1, n) \in Seq(Nat) /\ Len(SubSeq(s, d + 1, n)) = n - d
           /\ SubSeq(s, d + 1, n) # <<>>
           /\ Numbered(SubSeq(s, d + 1, n), d)
<1>1. Len(s) \in Nat /\ d \in Nat /\ n \in Nat /\ d + 1 <= n BY LenProperties
<1>2. \A k \in d + 1 .. n : k \in 1 .. Len(s) BY <1>1
<1>3. \A k \in d + 1 .. n : s[k] \in Nat BY <1>2, ElementOfSeq
<1>. DEFINE q == SubSeq(s, d + 1, n)
<1>4. /\ q \in Seq(Nat) /\ Len(q) = n - (d + 1) + 1
      /\ \A k \in 1 .. n - (d + 1) + 1 : q[k] = s[(d + 1) + k - 1]
  <2>1. d + 1 \in Int /\ n \in Int BY <1>1
  <2>. QED BY <1>1, <1>3, <2>1, SubSeqProperties
<1>. HIDE DEF q
<1>5. n - (d + 1) + 1 = n - d /\ n - d > 0 BY <1>1
<1>6. Len(q) = n - d /\ \A k \in 1 .. n - d : q[k] = s[(d + 1) + k - 1] BY <1>4, <1>5, Zenon
<1>7. ASSUME NEW k \in 1 .. n - d PROVE q[k] = d + k - 1
  <2>1. (d + 1) + k - 1 = d + k /\ d + k \in 1 .. Len(s) BY <1>1
  <2>2. s[d + k] = 0 + (d + k) - 1 BY <2>1 DEF Numbered
  <2>3. q[k] = s[d + k] BY <1>6, <2>1
  <2>. QED BY <1>1, <2>2, <2>3
<1>8. q # <<>> BY <1>5, <1>6, EmptySeq
<1>9. Numbered(q, d) BY <1>6, <1>7 DEF Numbered
<1>. QED BY <1>4, <1>6, <1>8, <1>9 DEF q

-----------------------------------------------------------------------------
LEMMA RecordedType == HistogramInv => Recorded \in Seq(Nat)
<1>. SUFFICES ASSUME HistogramInv PROVE Recorded \in Seq(Nat) OBVIOUS
<1>1. reports \in Seq(Seq(Nat)) /\ hi \in Seq(Nat) BY DEF HistogramInv
<1>2. FlattenSeq(reports) \in Seq(Nat) BY <1>1, FlattenType
<1>. QED BY <1>1, <1>2, ConcatProperties DEF Recorded

LEMMA PipelineType == ReceiverInv => Pipeline \in Seq(Nat)
<1>. SUFFICES ASSUME ReceiverInv PROVE Pipeline \in Seq(Nat) OBVIOUS
<1>1. rows \in Seq(Nat) /\ events \in Seq(EventType) BY DEF ReceiverInv, HistogramInv, SubType
<1>2. Pending(events) \in Seq(Nat) BY <1>1, PendingType
<1>3. rows \o Pending(events) \in Seq(Nat) BY <1>1, <1>2, ConcatProperties
<1>4. Recorded \in Seq(Nat) BY RecordedType DEF ReceiverInv
<1>. QED BY <1>3, <1>4, ConcatProperties DEF Pipeline

(* The samples are the pipeline's beginning. *)
LEMMA OrderShown == ReceiverInv /\ OrderInv => SamplesInOrder
<1>. SUFFICES ASSUME ReceiverInv, OrderInv PROVE SamplesInOrder OBVIOUS
<1>1. rows \in Seq(Nat) /\ events \in Seq(EventType) BY DEF ReceiverInv, HistogramInv, SubType
<1>2. Pending(events) \in Seq(Nat) BY <1>1, PendingType
<1>3. rows \o Pending(events) \in Seq(Nat) BY <1>1, <1>2, ConcatProperties
<1>4. Recorded \in Seq(Nat) BY RecordedType DEF ReceiverInv
<1>5. PICK a \in Seq(Nat), b \in Seq(Nat) : a = Recorded /\ a \o b = Pipeline
      BY <1>3, <1>4 DEF Pipeline
<1>6. Ascending(a) /\ (~lost => Gapless(a)) BY <1>5, Beginning DEF OrderInv, PipelineInv
<1>. QED BY <1>5, <1>6 DEF SamplesInOrder, Ascending, Gapless

LEMMA InitOrder == Init => OrderInv
<1>. SUFFICES ASSUME Init PROVE OrderInv OBVIOUS
<1>1. events = <<>> /\ rows = <<>> /\ hi = <<>> /\ reports = <<>> /\ sub = "none"
      BY DEF Init
<1>2. Pending(events) = <<>>
  <2>1. RowsOf(<<>>) = <<>> BY DEF RowsOf
  <2>. QED BY <1>1, <2>1, FlattenEmpty DEF Pending
<1>e. <<>> \o <<>> = <<>> BY EmptySeq, ConcatEmptySeq
<1>3. Recorded = <<>> BY <1>1, <1>e, FlattenEmpty DEF Recorded
<1>4. Pipeline = <<>> BY <1>1, <1>2, <1>3, <1>e DEF Pipeline
<1>5. Len(<<>>) = 0 OBVIOUS
<1>6. Ascending(<<>>) /\ Gapless(<<>>) /\ Below(<<>>, delivered)
      BY <1>5 DEF Ascending, Gapless, Below
<1>7. PipelineInv BY <1>1, <1>4, <1>6 DEF PipelineInv
<1>8. ReadInv BY <1>1 DEF ReadInv, Init
<1>. QED BY <1>7, <1>8 DEF OrderInv

-----------------------------------------------------------------------------
(* What has not been packaged yet. *)
LEMMA PackageRows ==
    ASSUME MainInv, ReceiverInv, NEW n \in delivered + 1 .. Len(inserted)
    PROVE  /\ SubSeq(inserted, delivered + 1, n) \in Seq(Nat)
           /\ Len(SubSeq(inserted, delivered + 1, n)) = n - delivered
           /\ SubSeq(inserted, delivered + 1, n) # <<>>
           /\ Numbered(SubSeq(inserted, delivered + 1, n), delivered)
<1>1. inserted \in Seq(Nat) /\ Numbered(inserted, 0) BY DEF MainInv, MainType, NumberInv
<1>2. delivered \in 0 .. Len(inserted) BY DEF ReceiverInv, SubType
<1>. QED BY <1>1, <1>2, SubSeqNumbered

LEMMA NothingYet ==
    ASSUME ReceiverInv, Pipeline = <<>>
    PROVE  Recorded = <<>> /\ rows = <<>>
<1>1. rows \in Seq(Nat) /\ events \in Seq(EventType) BY DEF ReceiverInv, HistogramInv, SubType
<1>2. Pending(events) \in Seq(Nat) BY <1>1, PendingType
<1>3. rows \o Pending(events) \in Seq(Nat) BY <1>1, <1>2, ConcatProperties
<1>4. Recorded \in Seq(Nat) BY RecordedType DEF ReceiverInv
<1>5. \A a, b \in Seq(Nat) : a \o b = <<>> => a = <<>> /\ b = <<>> BY ConcatEqualIffEmpty
<1>6. Recorded = <<>> /\ rows \o Pending(events) = <<>> BY <1>3, <1>4, <1>5 DEF Pipeline
<1>. QED BY <1>1, <1>2, <1>5, <1>6

LEMMA StepRead == MainInv /\ ReceiverInv /\ OrderInv /\ [Next]_vars => ReadInv'
<1>. SUFFICES ASSUME MainInv, ReceiverInv, OrderInv, [Next]_vars PROVE ReadInv' OBVIOUS
<1>i. PipelineInv /\ ReadInv BY DEF OrderInv
<1>s. events \in Seq(EventType) /\ Len(events) \in Nat /\ DOMAIN events = 1 .. Len(events)
      BY LenProperties DEF ReceiverInv, SubType
<1>r. /\ pc \in {"start", "spawn"} => rpc = "new"
      /\ rpc \in {"new", "connect"} => sub = "none"
      /\ rpc = "events" => rows = <<>>
      BY <1>i DEF ReadInv
<1>e. \A k \in DOMAIN events : events[k].type # "DATA" => events[k].rows = <<>>
      BY <1>i DEF ReadInv
<1>. DEFINE Tidy(es) == \A k \in DOMAIN es : es[k].type # "DATA" => es[k].rows = <<>>
<1>a. ASSUME NEW es \in Seq(EventType), Tidy(es), NEW e \in EventType,
             e.type # "DATA" => e.rows = <<>>
      PROVE  Tidy(Append(es, e))
  <2>1. Len(es) \in Nat /\ DOMAIN es = 1 .. Len(es) BY LenProperties
  <2>2. /\ Len(Append(es, e)) = Len(es) + 1 /\ Append(es, e) \in Seq(EventType)
        /\ \A k \in 1 .. Len(es) : Append(es, e)[k] = es[k]
        /\ Append(es, e)[Len(es) + 1] = e
        BY AppendProperties
  <2>3. DOMAIN Append(es, e) = 1 .. Len(es) + 1 BY <2>2, LenProperties
  <2>4. \A k \in 1 .. Len(es) + 1 : k \in 1 .. Len(es) \/ k = Len(es) + 1 BY <2>1
  <2>. QED BY <1>a, <2>1, <2>2, <2>3, <2>4
<1>o. ASSUME NEW t \in EventTypes
      PROVE  Other(t) \in EventType /\ (Other(t).type # "DATA" => Other(t).rows = <<>>)
      BY OtherType DEF Other
<1>1. CASE UNCHANGED <<subVars, rpc, rows>> /\ (pc' \in {"start", "spawn"} => pc \in {"start", "spawn"})
      BY <1>1, <1>i DEF ReadInv, subVars
<1>2. CASE Start \/ ConnectPublisher \/ NextRound \/ WriteRow \/ EndRound \/ CommitRows \/ Throw
  <2>1. UNCHANGED <<subVars, rpc, rows>> /\ (pc' \in {"start", "spawn"} => pc \in {"start", "spawn"})
        BY <1>2 DEF Start, ConnectPublisher, NextRound, WriteRow, EndRound, CommitRows, Throw,
                    GoTo, recvVars
  <2>. QED BY <1>1, <2>1
<1>3. CASE (Send \/ LoseLink) /\ UNCHANGED <<mainVars, subVars, recvVars>>
      BY <1>1, <1>3 DEF recvVars, mainVars
<1>4. CASE UNCHANGED vars BY <1>1, <1>4 DEF vars, subVars
<1>5. CASE Spawn
  <2>1. pc = "spawn" /\ pc' = "connect" /\ rpc' = "connect" /\ UNCHANGED <<subVars, rows>>
        BY <1>5 DEF Spawn, GoTo
  <2>2. sub = "none" BY <1>r, <2>1
  <2>. QED BY <1>e, <2>1, <2>2 DEF ReadInv, subVars
<1>6. CASE Finally
  <2>1. pc' = "end" /\ CloseSubscriber /\ UNCHANGED <<rpc, rows>>
        BY <1>6 DEF Finally, GoTo, recvVars
  <2>2. CASE sub # "on"
    <3>1. UNCHANGED subVars BY <2>1, <2>2 DEF CloseSubscriber
    <3>. QED BY <1>1, <2>1, <3>1
  <2>3. CASE sub = "on"
    <3>1. PICK k \in 0 .. Len(events) : events' = Append(SubSeq(events, 1, k), Other("CLOSED"))
          BY <2>1, <2>3 DEF CloseSubscriber
    <3>2. SubSeq(events, 1, k) \in Seq(EventType) BY <1>s, Cut
    <3>3. Tidy(SubSeq(events, 1, k))
      <4>1. /\ Len(SubSeq(events, 1, k)) = k
            /\ \A j \in 1 .. k : SubSeq(events, 1, k)[j] = events[j]
        <5>1. \A j \in 1 .. k : events[j] \in EventType BY <1>s, ElementOfSeq
        <5>. HIDE DEF Tidy
        <5>2. k \in Int /\ 1 \in Int /\ k - 1 + 1 = k /\ (1 <= k \/ k = 0) BY <1>s
        <5>3. /\ Len(SubSeq(events, 1, k)) = IF 1 <= k THEN k - 1 + 1 ELSE 0
              /\ \A j \in 1 .. k - 1 + 1 : SubSeq(events, 1, k)[j] = events[1 + j - 1]
              BY <5>1, <5>2, SubSeqProperties
        <5>4. \A j \in 1 .. k : 1 + j - 1 = j BY <5>2
        <5>. QED BY <5>2, <5>3, <5>4
      <4>2. DOMAIN SubSeq(events, 1, k) = 1 .. k BY <3>2, <4>1, LenProperties
      <4>3. \A j \in 1 .. k : j \in DOMAIN events BY <1>s
      <4>. QED BY <1>e, <4>1, <4>2, <4>3
    <3>4. Tidy(events')
      <4>1. Other("CLOSED") \in EventType
            /\ (Other("CLOSED").type # "DATA" => Other("CLOSED").rows = <<>>)
            BY <1>o DEF EventTypes
      <4>. HIDE DEF Tidy
      <4>. QED BY <1>a, <3>1, <3>2, <3>3, <4>1
    <3>5. rpc' \notin {"new", "connect"} BY <1>r, <2>1, <2>3
    <3>. QED BY <1>r, <2>1, <3>4, <3>5 DEF ReadInv
  <2>. QED BY <2>2, <2>3
<1>7. CASE Package \/ LoseData \/ Disconnect
  <2>1. sub = "on" /\ sub' \in {"on", "closed"} /\ UNCHANGED <<pc, rpc, rows>>
        BY <1>7 DEF Package, LoseData, Disconnect, mainVars, recvVars
  <2>2. \E e \in EventType : events' = Append(events, e) /\ (e.type # "DATA" => e.rows = <<>>)
    <3>1. CASE Package
      <4>1. PICK n \in delivered + 1 .. Len(inserted) :
                events' = Append(events, Data(SubSeq(inserted, delivered + 1, n)))
            BY <3>1 DEF Package
      <4>. DEFINE d == Data(SubSeq(inserted, delivered + 1, n))
      <4>2. d.type = "DATA" BY DEF Data
      <4>3. d \in EventType
        <5>1. SubSeq(inserted, delivered + 1, n) \in Seq(Nat) BY PackageRows
        <5>. QED BY <5>1, DataType
      <4>. HIDE DEF d
      <4>. QED BY <4>1, <4>2, <4>3 DEF d
    <3>2. CASE LoseData
      <4>1. events' = Append(events, Other("DATA_LOST")) BY <3>2 DEF LoseData
      <4>. QED BY <1>o, <4>1 DEF EventTypes
    <3>3. CASE Disconnect
      <4>1. events' = Append(events, Other("DISCONNECTED")) BY <3>3 DEF Disconnect
      <4>. QED BY <1>o, <4>1 DEF EventTypes
    <3>. QED BY <1>7, <3>1, <3>2, <3>3
  <2>3. Tidy(events')
    <3>. HIDE DEF Tidy
    <3>1. Tidy(events) BY <1>e DEF Tidy
    <3>. QED BY <1>a, <1>s, <2>2, <3>1
  <2>4. rpc \notin {"new", "connect"} BY <1>r, <2>1
  <2>. QED BY <1>r, <2>1, <2>3, <2>4 DEF ReadInv
<1>8. CASE Subscribe
  <2>1. /\ pc' = pc /\ rpc = "connect" /\ rpc' = "events" /\ rows' = rows
        /\ events' = <<Other("SYNC_START"), Other("SYNC_END")>>
        BY <1>8 DEF Subscribe, mainVars
  <2>2. Tidy(events') BY <2>1 DEF Other
  <2>3. sub = "none" BY <1>r, <2>1
  <2>4. rows = <<>> BY <1>i, <2>3, NothingYet DEF PipelineInv
  <2>. QED BY <1>r, <2>1, <2>2, <2>3, <2>4 DEF ReadInv
<1>9. CASE SubscribeFails \/ RecordFails
  <2>1. UNCHANGED <<pc, sub, events, rows>> /\ rpc' = "ended" /\ rpc \in {"connect", "rows"}
        BY <1>9 DEF SubscribeFails, RecordFails, mainVars, subVars
  <2>2. pc \notin {"start", "spawn"} BY <1>r, <2>1
  <2>. QED BY <1>e, <2>1, <2>2 DEF ReadInv
<1>10. CASE NextEvent
  <2>1. /\ rpc = "events" /\ events # <<>> /\ events' = Tail(events)
        /\ UNCHANGED <<pc, sub>> /\ rpc' \in {"events", "rows", "ended"}
        /\ rpc' = "events" => rows' = rows
        BY <1>10 DEF NextEvent, mainVars
  <2>2. /\ Tail(events) \in Seq(EventType) /\ Len(Tail(events)) = Len(events) - 1
        /\ \A k \in 1 .. Len(Tail(events)) : Tail(events)[k] = events[k + 1]
        BY <1>s, <2>1, HeadTailProperties
  <2>3. DOMAIN Tail(events) = 1 .. Len(events) - 1 BY <2>2, LenProperties
  <2>4. \A k \in 1 .. Len(events) - 1 : k + 1 \in DOMAIN events BY <1>s
  <2>5. Tidy(events') BY <1>e, <2>1, <2>2, <2>3, <2>4
  <2>6. pc \notin {"start", "spawn"} BY <1>r, <2>1
  <2>. QED BY <1>r, <2>1, <2>5, <2>6 DEF ReadInv
<1>11. CASE RecordRow \/ EndRows
  <2>1. /\ UNCHANGED <<pc, sub, events>> /\ rpc = "rows" /\ rpc' \in {"rows", "events"}
        /\ rpc' = "events" => rows' = <<>>
        BY <1>11 DEF RecordRow, EndRows, mainVars, subVars
  <2>2. pc \notin {"start", "spawn"} BY <1>r, <2>1
  <2>. QED BY <1>e, <2>1, <2>2 DEF ReadInv
<1>. QED BY <1>2, <1>3, <1>4, <1>5, <1>6, <1>7, <1>8, <1>9, <1>10, <1>11, Steps
         DEF PublisherSide, SubscriberSide, ReceiverStep

-----------------------------------------------------------------------------
LEMMA Joined ==
    /\ \A a, b \in Seq(Nat) : a \o b \in Seq(Nat)
    /\ \A a, b, c \in Seq(Nat) : (a \o b) \o c = a \o (b \o c)
BY ConcatProperties, ConcatAssociative

(* The pipeline loses nothing at its front and gains only at its end. *)
Parts == /\ Recorded \in Seq(Nat) /\ rows \in Seq(Nat) /\ events \in Seq(EventType)
         /\ Pending(events) \in Seq(Nat)

LEMMA PartsType == ReceiverInv => Parts
BY RecordedType, PendingType DEF Parts, ReceiverInv, HistogramInv, SubType

LEMMA PipelineRead ==
    ASSUME MainInv, ReceiverInv, OrderInv, RecordRow \/ NextEvent
    PROVE  Pipeline' = Pipeline
<1>p. Parts BY PartsType
<1>1. CASE RecordRow
  <2>. DEFINE recorded == Append(hi, Head(rows))
  <2>1. /\ rows # <<>> /\ rows' = Tail(rows) /\ events' = events
        /\ \/ hi' = <<>> /\ reports' = Append(reports, recorded)
           \/ hi' = recorded /\ reports' = reports
        BY <1>1 DEF RecordRow, subVars
  <2>2. Head(rows) \in Nat /\ Tail(rows) \in Seq(Nat) BY <1>p, <2>1, HeadTailProperties DEF Parts
  <2>3. hi \in Seq(Nat) /\ reports \in Seq(Seq(Nat)) BY DEF ReceiverInv, HistogramInv
  <2>4. recorded = hi \o <<Head(rows)>> /\ recorded \in Seq(Nat)
        BY <2>2, <2>3, AppendIsConcat, AppendProperties
  <2>5. <<Head(rows)>> \in Seq(Nat) BY <2>2
  <2>6. FlattenSeq(reports) \in Seq(Nat) BY <2>3, FlattenType
  <2>. HIDE DEF recorded
  <2>7. Recorded' = FlattenSeq(reports) \o recorded
    <3>1. CASE hi' = <<>> /\ reports' = Append(reports, recorded)
      <4>1. FlattenSeq(reports') = FlattenSeq(reports) \o recorded BY <2>3, <2>4, <3>1, FlattenAppend
      <4>2. FlattenSeq(reports) \o recorded \in Seq(Nat) BY <2>4, <2>6, ConcatProperties
      <4>3. (FlattenSeq(reports) \o recorded) \o <<>> = FlattenSeq(reports) \o recorded
            BY <4>2, ConcatEmptySeq
      <4>. QED BY <3>1, <4>1, <4>3 DEF Recorded
    <3>2. CASE hi' = recorded /\ reports' = reports BY <3>2 DEF Recorded
    <3>. QED BY <2>1, <3>1, <3>2
  <2>8. Recorded' = Recorded \o <<Head(rows)>>
    <3>1. (FlattenSeq(reports) \o hi) \o <<Head(rows)>> = FlattenSeq(reports) \o recorded
          BY <2>3, <2>4, <2>5, <2>6, Joined, Zenon
    <3>. QED BY <2>7, <3>1 DEF Recorded
  <2>9. rows = <<Head(rows)>> \o Tail(rows) BY <1>p, <2>1, HeadBefore DEF Parts
  <2>10. (<<Head(rows)>> \o Tail(rows)) \o Pending(events)
            = <<Head(rows)>> \o (Tail(rows) \o Pending(events))
         BY <1>p, <2>2, <2>5, Joined, Zenon DEF Parts
  <2>11. Tail(rows) \o Pending(events) \in Seq(Nat)
         BY <1>p, <2>2, ConcatProperties DEF Parts
  <2>12. (Recorded \o <<Head(rows)>>) \o (Tail(rows) \o Pending(events))
            = Recorded \o (<<Head(rows)>> \o (Tail(rows) \o Pending(events)))
    <3>1. <<Head(rows)>> \o (Tail(rows) \o Pending(events)) \in Seq(Nat) BY <2>5, <2>11, Joined
    <3>. QED BY <1>p, <2>5, <2>11, Joined, Zenon DEF Parts
  <2>13. Pipeline' = (Recorded \o <<Head(rows)>>) \o (Tail(rows) \o Pending(events))
         BY <2>1, <2>8 DEF Pipeline
  <2>14. Pipeline = Recorded \o (<<Head(rows)>> \o (Tail(rows) \o Pending(events)))
         BY <2>9, <2>10 DEF Pipeline
  <2>. QED BY <2>12, <2>13, <2>14
<1>2. CASE NextEvent
  <2>1. /\ rpc = "events" /\ events # <<>> /\ events' = Tail(events)
        /\ UNCHANGED <<hi, reports>>
        /\ rows' = IF Head(events).type = "DATA" THEN Head(events).rows ELSE rows
        BY <1>2 DEF NextEvent
  <2>2. rows = <<>> BY <2>1 DEF OrderInv, ReadInv
  <2>3. rows' = Head(events).rows
    <3>1. Head(events) = events[1] /\ 1 \in DOMAIN events
      <4>1. Len(events) \in Nat \ {0} /\ DOMAIN events = 1 .. Len(events)
            BY <1>p, <2>1, EmptySeq, LenProperties DEF Parts
      <4>. QED BY <4>1
    <3>2. Head(events).type # "DATA" => Head(events).rows = <<>>
          BY <3>1 DEF OrderInv, ReadInv
    <3>. QED BY <2>1, <2>2, <3>2
  <2>4. Recorded' = Recorded BY <2>1 DEF Recorded
  <2>5. Pending(events) = Head(events).rows \o Pending(Tail(events))
        BY <1>p, <2>1, PendingHead DEF Parts
  <2>6. rows \o Pending(events) = Pending(events) BY <1>p, <2>2, ConcatEmptySeq DEF Parts
  <2>. QED BY <2>1, <2>3, <2>4, <2>5, <2>6 DEF Pipeline
<1>. QED BY <1>1, <1>2

LEMMA PipelineClosed ==
    ASSUME ReceiverInv, CloseSubscriber, UNCHANGED recvVars
    PROVE  /\ Pipeline' \in Seq(Nat)
           /\ \E q \in Seq(Nat) : Pipeline = Pipeline' \o q
<1>p. Parts BY PartsType
<1>r. Recorded' = Recorded /\ rows' = rows BY DEF Recorded, recvVars
<1>1. CASE sub = "on"
  <2>1. PICK k \in 0 .. Len(events) : events' = Append(SubSeq(events, 1, k), Other("CLOSED"))
        BY <1>1 DEF CloseSubscriber
  <2>2. /\ SubSeq(events, 1, k) \in Seq(EventType)
        /\ \E q \in Seq(Nat) : Pending(events) = Pending(SubSeq(events, 1, k)) \o q
        BY <1>p, PendingCut DEF Parts
  <2>3. PICK q \in Seq(Nat) : Pending(events) = Pending(SubSeq(events, 1, k)) \o q BY <2>2
  <2>4. Pending(SubSeq(events, 1, k)) \in Seq(Nat) BY <2>2, PendingType
  <2>5. Pending(events') = Pending(SubSeq(events, 1, k))
    <3>1. Other("CLOSED") \in EventType /\ Other("CLOSED").rows = <<>>
          BY OtherType DEF EventTypes, Other
    <3>2. Pending(events') = Pending(SubSeq(events, 1, k)) \o <<>>
          BY <2>1, <2>2, <3>1, PendingAppend
    <3>. QED BY <2>4, <3>2, ConcatEmptySeq
  <2>6. PICK a \in Seq(Nat), b \in Seq(Nat), c \in Seq(Nat) :
            a = Recorded /\ b = rows /\ c = Pending(SubSeq(events, 1, k))
        BY <1>p, <2>4 DEF Parts
  <2>7. Pending(events)' = c BY <2>5, <2>6 DEF Pending, RowsOf
  <2>8. Pipeline' = a \o (b \o c) /\ Pipeline = a \o (b \o (c \o q))
        BY <1>r, <2>3, <2>6, <2>7 DEF Pipeline
  <2>9. /\ a \o (b \o (c \o q)) = (a \o (b \o c)) \o q
        /\ a \o (b \o c) \in Seq(Nat)
    <3>1. b \o c \in Seq(Nat) /\ a \o (b \o c) \in Seq(Nat) BY Joined
    <3>2. (b \o c) \o q = b \o (c \o q) BY Joined, Zenon
    <3>3. (a \o (b \o c)) \o q = a \o ((b \o c) \o q)
      <4>1. PICK x \in Seq(Nat) : x = b \o c BY <3>1
      <4>2. (a \o x) \o q = a \o (x \o q) BY Joined, Zenon
      <4>. QED BY <4>1, <4>2
    <3>. QED BY <3>1, <3>2, <3>3
  <2>. QED BY <2>8, <2>9
<1>2. CASE sub # "on"
  <2>1. Pipeline' = Pipeline BY <1>2, <1>r DEF CloseSubscriber, subVars, Pipeline
  <2>2. Pipeline \o <<>> = Pipeline /\ Pipeline \in Seq(Nat) BY PipelineType, ConcatEmptySeq
  <2>3. <<>> \in Seq(Nat) BY EmptySeq
  <2>. QED BY <2>1, <2>2, <2>3
<1>. QED BY <1>1, <1>2

LEMMA PipelineGrows ==
    ASSUME ReceiverInv, NEW e \in EventType, events' = Append(events, e), UNCHANGED recvVars
    PROVE  Pipeline' = Pipeline \o e.rows
<1>p. Parts BY PartsType
<1>1. Recorded' = Recorded /\ rows' = rows BY DEF Recorded, recvVars
<1>2. Pending(events)' = Pending(events) \o e.rows
  <2>1. Pending(Append(events, e)) = Pending(events) \o e.rows BY <1>p, PendingAppend DEF Parts
  <2>2. Pending(events)' = Pending(Append(events, e)) BY DEF Pending, RowsOf
  <2>. QED BY <2>1, <2>2
<1>3. PICK a \in Seq(Nat), b \in Seq(Nat), c \in Seq(Nat), d \in Seq(Nat) :
          a = Recorded /\ b = rows /\ c = Pending(events) /\ d = e.rows
      BY <1>p DEF Parts, EventType
<1>4. Pipeline = a \o (b \o c) /\ Pipeline' = a \o (b \o (c \o d))
      BY <1>1, <1>2, <1>3 DEF Pipeline
<1>5. a \o (b \o (c \o d)) = (a \o (b \o c)) \o d
  <2>1. b \o c \in Seq(Nat) BY Joined
  <2>2. (b \o c) \o d = b \o (c \o d) BY Joined, Zenon
  <2>3. (a \o (b \o c)) \o d = a \o ((b \o c) \o d) BY <2>1, Joined, Zenon
  <2>. QED BY <2>2, <2>3
<1>. QED BY <1>3, <1>4, <1>5

-----------------------------------------------------------------------------
(* What only takes the end of the pipeline away keeps the invariant. *)
LEMMA StepPipeline == MainInv /\ ReceiverInv /\ OrderInv /\ [Next]_vars => PipelineInv'
<1>. SUFFICES ASSUME MainInv, ReceiverInv, OrderInv, [Next]_vars PROVE PipelineInv' OBVIOUS
<1>p. Pipeline \in Seq(Nat) BY PipelineType
<1>d. delivered \in 0 .. Len(inserted) /\ delivered \in Nat /\ Len(inserted) \in Nat
  <2>1. inserted \in Seq(Nat) BY DEF MainInv, MainType
  <2>. QED BY <2>1, LenProperties DEF ReceiverInv, SubType
<1>i. /\ Ascending(Pipeline) /\ Below(Pipeline, delivered)
      /\ ~lost => Gapless(Pipeline)
      /\ sub = "on" /\ ~lost /\ Pipeline # <<>> => Pipeline[Len(Pipeline)] + 1 = delivered
      /\ sub = "none" => Pipeline = <<>>
      BY DEF OrderInv, PipelineInv
<1>1. CASE Pipeline' = Pipeline /\ UNCHANGED <<delivered, lost, sub>>
      BY <1>1, <1>i DEF PipelineInv
<1>2. CASE UNCHANGED <<subVars, rows, hi, reports>>
  <2>1. Pipeline' = Pipeline BY <1>2 DEF Pipeline, Recorded, Pending, RowsOf, subVars
  <2>. QED BY <1>1, <1>2, <2>1 DEF subVars
<1>3. CASE Start \/ Spawn \/ ConnectPublisher \/ NextRound \/ WriteRow \/ EndRound \/ CommitRows
           \/ Throw
      BY <1>2, <1>3 DEF Start, Spawn, ConnectPublisher, NextRound, WriteRow, EndRound, CommitRows,
                        Throw, recvVars
<1>4. CASE (Send \/ LoseLink) /\ UNCHANGED <<mainVars, subVars, recvVars>>
      BY <1>2, <1>4 DEF recvVars
<1>5. CASE UNCHANGED vars BY <1>2, <1>5 DEF vars, subVars
<1>6. CASE Finally
  <2>1. CloseSubscriber /\ UNCHANGED recvVars BY <1>6 DEF Finally
  <2>2. PICK q \in Seq(Nat) : Pipeline = Pipeline' \o q BY <2>1, PipelineClosed
  <2>3. PICK a \in Seq(Nat) : a = Pipeline' BY <2>1, PipelineClosed
  <2>4. a \o q = Pipeline BY <2>2, <2>3
  <2>5. /\ Ascending(a) /\ Below(a, delivered)
        /\ ~lost => Gapless(a)
        /\ Pipeline = <<>> => a = <<>>
        BY <1>d, <1>i, <2>4, Beginning
  <2>6. CASE sub = "on"
    <3>1. sub' = "closed" /\ UNCHANGED <<delivered, lost>>
          BY <2>1, <2>6 DEF CloseSubscriber
    <3>. QED BY <2>3, <2>5, <3>1 DEF PipelineInv
  <2>7. CASE sub # "on"
        BY <1>2, <2>1, <2>7 DEF CloseSubscriber, recvVars
  <2>. QED BY <2>6, <2>7
<1>7. CASE Package
  <2>1. PICK n \in delivered + 1 .. Len(inserted) :
            /\ events' = Append(events, Data(SubSeq(inserted, delivered + 1, n)))
            /\ delivered' = n
        BY <1>7 DEF Package
  <2>2. PICK b \in Seq(Nat) : /\ b = SubSeq(inserted, delivered + 1, n)
                              /\ Len(b) = n - delivered /\ b # <<>> /\ Numbered(b, delivered)
        BY PackageRows
  <2>3. Data(b) \in EventType /\ Data(b).rows = b BY DataType DEF Data
  <2>4. Pipeline' = Pipeline \o b
    <3>1. UNCHANGED recvVars BY <1>7 DEF Package
    <3>2. Pipeline' = Pipeline \o Data(b).rows BY <2>1, <2>2, <2>3, <3>1, PipelineGrows
    <3>. QED BY <2>3, <3>2
  <2>5. sub = "on" /\ sub' = "on" /\ lost' = lost BY <1>7 DEF Package
  <2>6. PICK a \in Seq(Nat) : a = Pipeline BY <1>p
  <2>7. PICK m \in Nat : m = delivered BY <1>d
  <2>8. /\ Ascending(a \o b) /\ Below(a \o b, m + Len(b))
        /\ Gapless(a) /\ (a # <<>> => a[Len(a)] + 1 = m) => Gapless(a \o b)
        /\ (a \o b)[Len(a \o b)] + 1 = m + Len(b)
    <3>1. Numbered(b, m) /\ Ascending(a) /\ Below(a, m) BY <1>i, <2>2, <2>6, <2>7
    <3>. QED BY <2>2, <3>1, Continued
  <2>9. m + Len(b) = n
    <3>1. Len(b) = n - m /\ n \in Int BY <1>d, <2>2, <2>7
    <3>. QED BY ONLY <3>1, m \in Nat
  <2>10. ~lost => Gapless(a \o b) BY <1>i, <2>5, <2>6, <2>7, <2>8
  <2>. QED BY <2>1, <2>4, <2>5, <2>6, <2>8, <2>9, <2>10 DEF PipelineInv
<1>8. CASE LoseData
  <2>1. PICK n \in delivered + 1 .. Len(inserted) : delivered' = n BY <1>8 DEF LoseData
  <2>2. /\ events' = Append(events, Other("DATA_LOST")) /\ UNCHANGED recvVars
        /\ lost' = TRUE /\ sub = "on" /\ sub' = sub
        BY <1>8 DEF LoseData
  <2>3. Other("DATA_LOST") \in EventType /\ Other("DATA_LOST").rows = <<>>
        BY OtherType DEF EventTypes, Other
  <2>4. Pipeline' = Pipeline
    <3>1. Pipeline' = Pipeline \o <<>> BY <2>2, <2>3, PipelineGrows
    <3>. QED BY <1>p, <3>1, ConcatEmptySeq
  <2>5. n \in Nat /\ delivered <= n BY <1>d
  <2>6. Below(Pipeline, n) BY <1>d, <1>i, <1>p, <2>5, BelowMore
  <2>. QED BY <1>i, <2>1, <2>2, <2>4, <2>6 DEF PipelineInv
<1>9. CASE Disconnect
  <2>1. /\ events' = Append(events, Other("DISCONNECTED")) /\ UNCHANGED recvVars
        /\ sub' = "closed" /\ UNCHANGED <<delivered, lost>>
        BY <1>9 DEF Disconnect
  <2>2. Other("DISCONNECTED") \in EventType /\ Other("DISCONNECTED").rows = <<>>
        BY OtherType DEF EventTypes, Other
  <2>3. Pipeline' = Pipeline
    <3>1. Pipeline' = Pipeline \o <<>> BY <2>1, <2>2, PipelineGrows
    <3>. QED BY <1>p, <3>1, ConcatEmptySeq
  <2>. QED BY <1>i, <2>1, <2>3 DEF PipelineInv
<1>10. CASE Subscribe
  <2>1. /\ rpc = "connect" /\ events' = <<Other("SYNC_START"), Other("SYNC_END")>>
        /\ sub' = "on" /\ UNCHANGED <<rows, hi, reports>>
        BY <1>10 DEF Subscribe
  <2>2. Pipeline = <<>> BY <1>i, <2>1 DEF OrderInv, ReadInv
  <2>3. Recorded = <<>> /\ rows = <<>> BY <2>2, NothingYet
  <2>4. Pending(events)' = <<>>
    <3>1. PICK e \in EventType, f \in EventType :
              e = Other("SYNC_START") /\ f = Other("SYNC_END")
          BY OtherType DEF EventTypes
    <3>2. e.rows = <<>> /\ f.rows = <<>> BY <3>1 DEF Other
    <3>3. <<e>> \in Seq(EventType) /\ <<e, f>> = Append(<<e>>, f) OBVIOUS
    <3>4. Pending(<<e, f>>) = Pending(<<e>>) \o f.rows BY <3>3, PendingAppend
    <3>5. Pending(<<e>>) = <<>> BY <3>2, PendingSingle
    <3>6. <<>> \o <<>> = <<>> BY EmptySeq, ConcatEmptySeq
    <3>7. Pending(events') = <<>> BY <2>1, <3>1, <3>2, <3>4, <3>5, <3>6
    <3>. QED BY <3>7 DEF Pending, RowsOf
  <2>5. Pipeline' = <<>>
    <3>1. Recorded' = <<>> /\ rows' = <<>> BY <2>1, <2>3 DEF Recorded
    <3>2. <<>> \o <<>> = <<>> BY EmptySeq, ConcatEmptySeq
    <3>. QED BY <2>4, <3>1, <3>2 DEF Pipeline
  <2>6. Ascending(<<>>) /\ Gapless(<<>>) /\ Below(<<>>, delivered')
    <3>1. Len(<<>>) = 0 OBVIOUS
    <3>. QED BY <3>1 DEF Ascending, Gapless, Below
  <2>. QED BY <2>1, <2>5, <2>6 DEF PipelineInv
<1>11. CASE NextEvent \/ RecordRow
  <2>1. Pipeline' = Pipeline BY <1>11, PipelineRead
  <2>2. UNCHANGED <<delivered, lost, sub>> BY <1>11 DEF NextEvent, RecordRow, subVars
  <2>. QED BY <1>1, <2>1, <2>2
<1>12. CASE SubscribeFails \/ RecordFails \/ EndRows
       BY <1>2, <1>12 DEF SubscribeFails, RecordFails, EndRows
<1>. QED BY <1>3, <1>4, <1>5, <1>6, <1>7, <1>8, <1>9, <1>10, <1>11, <1>12, Steps
         DEF PublisherSide, SubscriberSide, ReceiverStep

LEMMA OrderInvariant == Spec => []OrderInv
<1>1. Init => OrderInv BY InitOrder
<1>2. MainInv /\ ReceiverInv /\ OrderInv /\ [Next]_vars => OrderInv'
      BY StepRead, StepPipeline DEF OrderInv
<1>. QED BY <1>1, <1>2, Invariant, ReceiverInvariant, PTL DEF Spec

(* Rows are measured in the order they were published, each once, and      *)
(* without a gap unless rows were lost, through whichever packages, events *)
(* and renewed histograms they go (RTTClient.java:202-240).                *)
THEOREM SamplesAreInOrder == Spec => []SamplesInOrder
BY OrderShown, ReceiverInvariant, OrderInvariant, PTL
===============================================================================

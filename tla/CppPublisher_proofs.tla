------------------------- MODULE CppPublisher_proofs -------------------------
(***************************************************************************)
(* Proofs about CppPublisher, for all numbers of rounds and rows, all      *)
(* block and buffer sizes and any length of a second: what is reported as  *)
(* published has been, neither thread uses what the other or it has        *)
(* stopped or freed, and a latency is right up to whole seconds.  At the   *)
(* end, what the comparisons of the adapter's fixed decimals compare.      *)
(***************************************************************************)
EXTENDS CppPublisher, FixedDecimal, DataLemmas

-----------------------------------------------------------------------------
(* The inductive invariant, in named parts. *)

(* A row carries the nanoseconds of the time it was written at. *)
Row   == {r \in [no : Nat, key : Nat, sent : Nat] : r.key = Nanos(r.sent)}
Event == [type : {"none", "DATA", "SYNC_START", "SYNC_END", "DATA_LOST", "CLOSED",
                  "DISCONNECTED", "STREAM_EXIT"},
          rows : Seq(Row)]

LoadLabels   == {"start", "connect", "round", "row", "publish", "report", "done"}
ListenLabels == {"start", "open", "project", "subscribe", "events", "rows", "free",
                 "stop", "end"}

NumbersOK == /\ clock \in Nat /\ started \in Nat /\ lcount \in 0 .. Rounds
             /\ n \in 0 .. NumRows /\ blockSize \in Nat /\ bufferSize \in Nat
             /\ count \in Nat /\ delivered \in Nat
             /\ lpc \in LoadLabels /\ hpc \in ListenLabels
             /\ lpc = "publish" => n < NumRows
RowsOK    == writer \in Seq(Row) /\ queue \in Seq(Row) /\ inserted \in Seq(Row)
EventsOK  == events \in Seq(Event) /\ event \in Event /\ rows \in Seq(Row)
TypeOK    == NumbersOK /\ RowsOK /\ EventsOK

-----------------------------------------------------------------------------
(* The SDK's life follows the two threads. *)
Loading   == {"connect", "round", "row", "publish", "report"}
Listening == {"open", "project", "subscribe", "events", "rows", "free", "stop"}

LifeInv ==
    /\ starts = (IF lpc = "start" THEN 0 ELSE 1) + (IF hpc = "start" THEN 0 ELSE 1)
    /\ stops = (IF lpc = "done" THEN 1 ELSE 0) + (IF hpc = "end" THEN 1 ELSE 0)
    /\ link = "up" => \/ lpc \in Loading
                      \/ lpc = "done" /\ hpc \in Listening
    /\ sub = "on" => \/ hpc \in {"events", "rows", "free", "stop"}
                     \/ hpc = "end" /\ lpc \in Loading

(* The handles of each thread, from the step that creates one to the step  *)
(* that frees it.                                                          *)
HandleInv ==
    /\ ~dangling
    /\ lpc # "start" => "lError" \in live
    /\ hpc \in Listening => "gError" \in live
    /\ hpc = "project" => {"gUri", "gCreds"} \subseteq live
    /\ "event" \in live <=> hpc \in {"rows", "free"}

(* The two modes.  Unbuffered, a row is published as soon as it is written. *)
ModeInv == /\ Buffered => lpc # "publish"
           /\ lpc # "publish" => writer = <<>>
           /\ ~Buffered => queue = <<>>
           /\ lpc \in {"start", "connect"} => queue = <<>>

(* The rows sent, those on their way and the next one follow each other.   *)
Counted(s, first) == \A k \in 1 .. Len(s) : s[k].no = first + k - 1

NumberInv == /\ Counted(inserted, 0)
             /\ Counted(writer, Len(inserted))
             /\ Counted(queue, Len(inserted))

(* How many rows there are is told by the place in the rounds. *)
Written == Len(inserted) + Len(writer) + Len(queue)
Place(round) == (Rounds - round) * NumRows

PlaceInv ==
    /\ lpc \in {"start", "connect"} => lcount = Rounds
    /\ lpc \in {"row", "publish"} => lcount < Rounds
    /\ Written = IF lpc \in {"row", "publish"}
                   THEN Place(lcount + 1) + n + (IF lpc = "publish" THEN 1 ELSE 0)
                   ELSE Place(lcount)

(* After the last round everything has been committed. *)
CommitInv == /\ lpc = "report" /\ lcount = 0 => committed /\ queue = <<>>
             /\ lpc = "round" /\ lcount = 0 => committed /\ queue = <<>>
             /\ lpc = "done" => lcount = 0 /\ committed /\ queue = <<>>

IInv == /\ TypeOK /\ LifeInv /\ HandleInv /\ ModeInv /\ NumberInv /\ PlaceInv /\ CommitInv
        /\ LatencyModuloSecond

-----------------------------------------------------------------------------
(* A step by its name. *)
LEMMA Steps ==
    ASSUME [Next]_vars
    PROVE  \/ Tick \/ StartLoad \/ ConnectPublisher \/ NextRound \/ WriteRow \/ PublishRow
           \/ EndRound \/ Report \/ StopLoad \/ LoadFails
           \/ StartListen \/ OpenProject \/ GetProject \/ Subscribe \/ NextEvent
           \/ ReadRow \/ EndRows \/ FreeEvent \/ StopListen \/ ListenFails
           \/ SdkStep(Send) \/ SdkStep(LoseLink) \/ Package \/ LoseData \/ End
           \/ UNCHANGED vars
BY DEF Next, LoadStep, ListenStep

(* The steps that leave the publisher's rows alone. *)
LEMMA RowsKept ==
    ASSUME [Next]_vars, ~WriteRow, ~PublishRow, ~SdkStep(Send)
    PROVE  UNCHANGED rowVars /\ bufferSize' = bufferSize
<1>. USE DEF rowVars, sdkVars
<1>1. CASE StartLoad \/ StartListen BY <1>1 DEF StartLoad, StartListen, StartSdk
<1>2. CASE ConnectPublisher BY <1>2 DEF ConnectPublisher, Connect
<1>3. CASE EndRound BY <1>3 DEF EndRound, Commit
<1>4. CASE StopLoad \/ StopListen BY <1>4 DEF StopLoad, StopListen, StopAll, StopSdk
<1>5. CASE SdkStep(LoseLink) BY <1>5 DEF SdkStep, LoseLink
<1>6. CASE Tick \/ LoadFails \/ ListenFails \/ NextRound \/ Report
      BY <1>6 DEF Tick, LoadFails, ListenFails, Exit, NextRound, Report
<1>7. CASE OpenProject \/ GetProject \/ Subscribe \/ NextEvent \/ EndRows \/ FreeEvent
      BY <1>7 DEF OpenProject, GetProject, Subscribe, NextEvent, EndRows, FreeEvent
<1>8. CASE ReadRow BY <1>8 DEF ReadRow
<1>9. CASE Package \/ LoseData \/ End BY <1>9 DEF Package, LoseData, End, ToListener
<1>10. CASE UNCHANGED vars BY <1>10 DEF vars
<1>. QED BY <1>1, <1>2, <1>3, <1>4, <1>5, <1>6, <1>7, <1>8, <1>9, <1>10, Steps

(* The steps that leave loadData()'s place, and what is committed, alone. *)
LEMMA LoadKept ==
    ASSUME [Next]_vars, ~LoadStep
    PROVE  UNCHANGED loadVars /\ committed' = committed
<1>. USE DEF loadVars, sdkVars
<1>1. CASE StartListen BY <1>1 DEF StartListen, StartSdk, Listen
<1>2. CASE StopListen BY <1>2 DEF StopListen, Listen, StopAll, StopSdk
<1>3. CASE SdkStep(Send) \/ SdkStep(LoseLink) BY <1>3 DEF SdkStep, Send, LoseLink
<1>4. CASE Tick \/ LoadFails \/ ListenFails BY <1>4 DEF Tick, LoadFails, ListenFails, Exit
<1>5. CASE OpenProject \/ GetProject \/ Subscribe \/ NextEvent \/ EndRows \/ FreeEvent
      BY <1>5 DEF OpenProject, GetProject, Subscribe, NextEvent, EndRows, FreeEvent, Listen
<1>6. CASE ReadRow BY <1>6 DEF ReadRow
<1>7. CASE Package \/ LoseData \/ End BY <1>7 DEF Package, LoseData, End, ToListener
<1>8. CASE UNCHANGED vars BY <1>8 DEF vars
<1>. QED BY <1>1, <1>2, <1>3, <1>4, <1>5, <1>6, <1>7, <1>8, Steps DEF LoadStep

(* The steps that leave listen()'s events and rows alone. *)
LEMMA EventsKept ==
    ASSUME [Next]_vars, ~Subscribe, ~NextEvent, ~ReadRow, ~StopLoad, ~StopListen,
           ~Package, ~LoseData, ~End
    PROVE  UNCHANGED <<event, rows, events, count, durations, delivered>>
<1>. USE DEF listenVars, subVars
<1>1. CASE StartLoad \/ ConnectPublisher \/ NextRound \/ WriteRow \/ PublishRow \/ EndRound
      BY <1>1 DEF StartLoad, ConnectPublisher, NextRound, WriteRow, PublishRow, EndRound, Load
<1>2. CASE Tick \/ LoadFails \/ ListenFails \/ Report
      BY <1>2 DEF Tick, LoadFails, ListenFails, Exit, Report
<1>3. CASE StartListen \/ OpenProject \/ GetProject \/ EndRows \/ FreeEvent
      BY <1>3 DEF StartListen, OpenProject, GetProject, EndRows, FreeEvent
<1>4. CASE SdkStep(Send) \/ SdkStep(LoseLink) BY <1>4 DEF SdkStep
<1>5. CASE UNCHANGED vars BY <1>5 DEF vars
<1>. QED BY <1>1, <1>2, <1>3, <1>4, <1>5, Steps

-----------------------------------------------------------------------------
(* The types. *)

(* The project's rows are rows that were inserted. *)
LEMMA StreamRows ==
    ASSUME inserted \in Seq(Row)
    PROVE  Stream \in Seq(Row) /\ Len(Stream) \in Nat
<1>. DEFINE fresh(i) == \A j \in 1 .. i - 1 : inserted[j].key # inserted[i].key
            idx == {i \in DOMAIN inserted : fresh(i)}
            ith(k) == CHOOSE i \in idx : Cardinality({j \in idx : j <= i}) = k
<1>1. DOMAIN inserted = 1 .. Len(inserted) /\ Len(inserted) \in Nat BY LenProperties
<1>2. idx \in SUBSET (1 .. Len(inserted)) BY <1>1
<1>3. IsFiniteSet(1 .. Len(inserted)) BY <1>1, FS_Interval
<1>4. IsFiniteSet(idx) /\ idx \in SUBSET Nat BY <1>1, <1>2, <1>3, FS_Subset
<1>5. Cardinality(idx) \in Nat BY <1>4, FS_CardinalityType
<1>6. Stream = [k \in 1 .. Cardinality(idx) |-> inserted[ith(k)]] BY DEF Stream
<1>7. ASSUME NEW k \in 1 .. Cardinality(idx) PROVE inserted[ith(k)] \in Row
  <2>. HIDE DEF idx
  <2>1. \E i \in idx : Cardinality({j \in idx : j <= i}) = k BY <1>4, Ranks
  <2>2. ith(k) \in idx BY <2>1
  <2>3. ith(k) \in 1 .. Len(inserted) BY <1>2, <2>2
  <2>. QED BY <2>3, ElementOfSeq
<1>. HIDE DEF idx, ith
<1>8. Stream \in [1 .. Cardinality(idx) -> Row] BY <1>6, <1>7
<1>9. Stream \in Seq(Row) BY <1>5, <1>8, SeqDef
<1>. QED BY <1>9, LenProperties

(* A part of the stream is a DATA event's. *)
LEMMA DataEvent == ASSUME NEW s \in Seq(Row) PROVE Data(s) \in Event
BY DEF Data, Event

LEMMA OtherEvent ==
    ASSUME NEW t \in {"SYNC_START", "SYNC_END", "DATA_LOST", "CLOSED", "DISCONNECTED",
                      "STREAM_EXIT"}
    PROVE  Other(t) \in Event
<1>1. <<>> \in Seq(Row) BY EmptySeq
<1>. QED BY <1>1 DEF Other, Event

LEMMA InitInv == Init => IInv
<1>. SUFFICES ASSUME Init PROVE IInv OBVIOUS
<1>1. PICK o \in Options : bufferSize = o[2] /\ blockSize = o[1] BY DEF Init
<1>2. bufferSize \in Nat /\ blockSize \in Nat BY <1>1, CppAssumption
<1>3. Rounds \in Nat \ {0} /\ NumRows \in Nat BY CppAssumption
<1>4. /\ lpc = "start" /\ hpc = "start" /\ lcount = Rounds /\ n = 0 /\ rows = <<>>
      /\ events = <<>> /\ event = NoEvent /\ clock = 0 /\ started = 0 /\ count = 0
      /\ delivered = 0 /\ durations = {} /\ live = {} /\ dangling = FALSE /\ sub = "none"
      /\ starts = 0 /\ stops = 0 /\ link = "none" /\ writer = <<>> /\ queue = <<>>
      /\ inserted = <<>>
      BY DEF Init, SdkInit
<1>5. NumbersOK BY <1>2, <1>3, <1>4 DEF NumbersOK, LoadLabels, ListenLabels
<1>6. <<>> \in Seq(Row) /\ <<>> \in Seq(Event) /\ Len(<<>>) = 0 BY EmptySeq
<1>7. RowsOK BY <1>4, <1>6 DEF RowsOK
<1>8. EventsOK BY <1>4, <1>6 DEF EventsOK, NoEvent, Event
<1>9. LifeInv BY <1>4 DEF LifeInv
<1>10. HandleInv BY <1>4 DEF HandleInv, Listening
<1>11. ModeInv BY <1>4 DEF ModeInv
<1>12. NumberInv BY <1>4, <1>6 DEF NumberInv, Counted
<1>13. PlaceInv BY <1>3, <1>4, <1>6 DEF PlaceInv, Written, Place
<1>14. CommitInv BY <1>4 DEF CommitInv
<1>15. LatencyModuloSecond BY <1>4 DEF LatencyModuloSecond
<1>. QED BY <1>5, <1>7, <1>8, <1>9, <1>10, <1>11, <1>12, <1>13, <1>14, <1>15 DEF IInv, TypeOK

LEMMA StepNumbers == TypeOK /\ [Next]_vars => NumbersOK'
<1>. SUFFICES ASSUME TypeOK, [Next]_vars PROVE NumbersOK' OBVIOUS
<1>0. NumbersOK BY DEF TypeOK
<1>a. Rounds \in Nat \ {0} /\ NumRows \in Nat BY CppAssumption
<1>. USE <1>0, <1>a DEF NumbersOK, LoadLabels, ListenLabels, loadVars, listenVars, subVars,
         sdkVars
<1>1. CASE Tick BY <1>1 DEF Tick
<1>2. CASE StartLoad BY <1>2 DEF StartLoad, Load, Running, StartSdk
<1>3. CASE ConnectPublisher BY <1>3 DEF ConnectPublisher, Load, Running, Connect
<1>4. CASE NextRound BY <1>4 DEF NextRound, Load, Running
<1>5. CASE WriteRow
  <2>1. /\ n < NumRows
        /\ UNCHANGED <<clock, started, lcount, blockSize, bufferSize, count, delivered, hpc>>
        BY <1>5 DEF WriteRow, Load, Running, Write
  <2>2. CASE Buffered
    <3>1. n' = n + 1 /\ lpc' = "row" BY <1>5, <2>2 DEF WriteRow, Load
    <3>. QED BY <2>1, <3>1
  <2>3. CASE ~Buffered
    <3>1. n' = n /\ lpc' = "publish" BY <1>5, <2>3 DEF WriteRow, Load
    <3>. QED BY <2>1, <3>1
  <2>. QED BY <2>2, <2>3
<1>6. CASE PublishRow
  <2>1. /\ n' = n + 1 /\ lpc' = "row" /\ lpc = "publish"
        /\ UNCHANGED <<clock, started, lcount, blockSize, bufferSize, count, delivered, hpc>>
        BY <1>6 DEF PublishRow, Load, Running, Publish
  <2>. QED BY <2>1
<1>7. CASE EndRound
  <2>1. bufferSize' = bufferSize BY <1>7 DEF EndRound, Commit
  <2>. QED BY <1>7, <2>1 DEF EndRound, Load, Running
<1>8. CASE Report BY <1>8 DEF Report, Running
<1>9. CASE StopLoad BY <1>9 DEF StopLoad, Load, Running, StopAll, StopSdk
<1>10. CASE LoadFails \/ ListenFails BY <1>10 DEF LoadFails, ListenFails, Exit, Running
<1>11. CASE StartListen BY <1>11 DEF StartListen, Listen, Running, StartSdk
<1>12. CASE OpenProject \/ GetProject BY <1>12 DEF OpenProject, GetProject, Listen, Running
<1>13. CASE Subscribe
  <2>1. Len(Stream) \in Nat BY StreamRows DEF TypeOK, RowsOK
  <2>. QED BY <1>13, <2>1 DEF Subscribe, Listen, Running
<1>14. CASE NextEvent BY <1>14 DEF NextEvent, Listen, Running
<1>15. CASE ReadRow BY <1>15 DEF ReadRow, Running
<1>16. CASE EndRows BY <1>16 DEF EndRows, Listen, Running
<1>17. CASE FreeEvent BY <1>17 DEF FreeEvent, Listen, Running
<1>18. CASE StopListen BY <1>18 DEF StopListen, Listen, Running, StopAll, StopSdk
<1>19. CASE SdkStep(Send) BY <1>19 DEF SdkStep, Send, Running
<1>20. CASE SdkStep(LoseLink) BY <1>20 DEF SdkStep, LoseLink, Running
<1>21. CASE Package \/ LoseData \/ End
  <2>1. delivered' \in Nat
    <3>1. Len(Stream) \in Nat BY StreamRows DEF TypeOK, RowsOK
    <3>2. ASSUME NEW k \in delivered + 1 .. Len(Stream) PROVE k \in Nat BY <3>1
    <3>. QED BY <1>21, <3>2 DEF Package, LoseData, End, ToListener
  <2>2. UNCHANGED <<clock, loadVars, listenVars, bufferSize>>
        BY <1>21 DEF Package, LoseData, End, ToListener, Running
  <2>. QED BY <2>1, <2>2
<1>22. CASE UNCHANGED vars BY <1>22 DEF vars
<1>. QED BY <1>1, <1>2, <1>3, <1>4, <1>5, <1>6, <1>7, <1>8, <1>9, <1>10, <1>11, <1>12,
            <1>13, <1>14, <1>15, <1>16, <1>17, <1>18, <1>19, <1>20, <1>21, <1>22, Steps

(* The row WriteRow writes. *)
NextRow == [no |-> (Rounds - lcount - 1) * NumRows + n, key |-> Nanos(clock), sent |-> clock]

LEMMA NextRowIsRow ==
    ASSUME NumbersOK, lpc = "row", lcount < Rounds
    PROVE  NextRow \in Row /\ NextRow.no = Place(lcount + 1) + n
<1>1. Rounds - (lcount + 1) \in Nat /\ Rounds - lcount - 1 = Rounds - (lcount + 1)
      /\ NumRows \in Nat /\ n \in Nat /\ clock \in Nat
      BY CppAssumption DEF NumbersOK
<1>2. ASSUME NEW a \in Nat, NEW b \in Nat, NEW c \in Nat PROVE a * b + c \in Nat OBVIOUS
<1>3. (Rounds - lcount - 1) * NumRows + n \in Nat BY <1>1, <1>2
<1>4. Nanos(clock) \in Nat
  <2>1. clock % Second \in 0 .. Second - 1 BY <1>1, CppAssumption, ModRange
  <2>. QED BY <2>1, CppAssumption DEF Nanos
<1>. QED BY <1>1, <1>3, <1>4 DEF NextRow, Row, Place

LEMMA StepRows == IInv /\ [Next]_vars => RowsOK'
<1>. SUFFICES ASSUME IInv, [Next]_vars PROVE RowsOK' OBVIOUS
<1>0. writer \in Seq(Row) /\ queue \in Seq(Row) /\ inserted \in Seq(Row)
      BY DEF IInv, TypeOK, RowsOK
<1>1. CASE WriteRow
  <2>1. lpc = "row" /\ lcount < Rounds
        BY <1>1 DEF WriteRow, Load, IInv, PlaceInv
  <2>2. NextRow \in Row BY <2>1, NextRowIsRow DEF IInv, TypeOK
  <2>3. Append(writer, NextRow) \in Seq(Row) /\ Append(queue, NextRow) \in Seq(Row)
        BY <1>0, <2>2, AppendProperties
  <2>4. /\ inserted' = inserted
        /\ \/ queue' = Append(queue, NextRow) /\ writer' = writer
           \/ writer' = Append(writer, NextRow) /\ queue' = queue
        BY <1>1 DEF WriteRow, Write, NextRow
  <2>. QED BY <1>0, <2>3, <2>4 DEF RowsOK
<1>2. CASE PublishRow
  <2>1. inserted' = inserted \o writer /\ writer' = <<>> /\ queue' = queue
        BY <1>2 DEF PublishRow, Publish
  <2>2. inserted \o writer \in Seq(Row) /\ <<>> \in Seq(Row)
        BY <1>0, ConcatProperties, EmptySeq
  <2>. QED BY <1>0, <2>1, <2>2 DEF RowsOK
<1>3. CASE SdkStep(Send)
  <2>1. /\ queue # <<>> /\ inserted' = Append(inserted, Head(queue))
        /\ queue' = Tail(queue) /\ writer' = writer
        BY <1>3 DEF SdkStep, Send
  <2>2. Head(queue) \in Row /\ Tail(queue) \in Seq(Row) BY <1>0, <2>1, HeadTailProperties
  <2>3. Append(inserted, Head(queue)) \in Seq(Row) BY <1>0, <2>2, AppendProperties
  <2>. QED BY <1>0, <2>1, <2>2, <2>3 DEF RowsOK
<1>4. CASE ~WriteRow /\ ~PublishRow /\ ~SdkStep(Send)
      BY <1>0, <1>4, RowsKept DEF rowVars, RowsOK
<1>. QED BY <1>1, <1>2, <1>3, <1>4

LEMMA StepEvents == TypeOK /\ [Next]_vars => EventsOK'
<1>. SUFFICES ASSUME TypeOK, [Next]_vars PROVE EventsOK' OBVIOUS
<1>0. events \in Seq(Event) /\ event \in Event /\ rows \in Seq(Row) /\ delivered \in Nat
      BY DEF TypeOK, EventsOK, NumbersOK
<1>s. Stream \in Seq(Row) /\ Len(Stream) \in Nat BY StreamRows DEF TypeOK, RowsOK
<1>. USE <1>0 DEF EventsOK
<1>1. CASE Subscribe
  <2>1. PICK base \in {<<>>, Stream} :
           events' = <<Other("SYNC_START"), Data(base), Other("SYNC_END")>>
        BY <1>1 DEF Subscribe
  <2>2. base \in Seq(Row) BY <1>s, EmptySeq
  <2>3. Other("SYNC_START") \in Event /\ Data(base) \in Event /\ Other("SYNC_END") \in Event
        BY <2>2, DataEvent, OtherEvent
  <2>4. events' \in Seq(Event) BY <2>1, <2>3
  <2>. QED BY <1>1, <2>4 DEF Subscribe
<1>2. CASE NextEvent
  <2>1. Head(events) \in Event /\ Tail(events) \in Seq(Event)
        BY <1>2, HeadTailProperties DEF NextEvent
  <2>2. Head(events).rows \in Seq(Row) BY <2>1 DEF Event
  <2>. QED BY <1>2, <2>1, <2>2 DEF NextEvent
<1>3. CASE ReadRow
  <2>1. Tail(rows) \in Seq(Row) BY <1>3, HeadTailProperties DEF ReadRow
  <2>. QED BY <1>3, <2>1 DEF ReadRow, subVars
<1>4. CASE StopLoad \/ StopListen
  <2>1. Append(events, Other("CLOSED")) \in Seq(Event) BY OtherEvent, AppendProperties
  <2>2. events' \in {events, Append(events, Other("CLOSED"))}
        BY <1>4 DEF StopLoad, StopListen, StopAll
  <2>3. UNCHANGED <<event, rows>> BY <1>4 DEF StopLoad, StopListen, Load, listenVars
  <2>. QED BY <2>1, <2>2, <2>3
<1>5. CASE Package
  <2>1. PICK k \in delivered + 1 .. Len(Stream) :
           /\ events' = Append(events, Data(SubSeq(Stream, delivered + 1, k)))
           /\ UNCHANGED listenVars
        BY <1>5 DEF Package, ToListener
  <2>2. ASSUME NEW j \in delivered + 1 .. k PROVE Stream[j] \in Row
    <3>1. j \in 1 .. Len(Stream) BY <1>s
    <3>. QED BY <1>s, <3>1, ElementOfSeq
  <2>3. SubSeq(Stream, delivered + 1, k) \in Seq(Row)
    <3>1. delivered + 1 \in Int /\ k \in Int BY <1>s
    <3>. QED BY ONLY <2>2, <3>1, SubSeqProperties
  <2>4. Append(events, Data(SubSeq(Stream, delivered + 1, k))) \in Seq(Event)
        BY <2>3, DataEvent, AppendProperties
  <2>. QED BY <2>1, <2>4 DEF listenVars
<1>6. CASE LoseData \/ End
  <2>1. PICK t \in {"DATA_LOST", "DISCONNECTED", "STREAM_EXIT"} :
           events' = Append(events, Other(t)) /\ UNCHANGED listenVars
        BY <1>6 DEF LoseData, End, ToListener
  <2>2. Append(events, Other(t)) \in Seq(Event) BY OtherEvent, AppendProperties
  <2>. QED BY <2>1, <2>2 DEF listenVars
<1>7. CASE /\ ~Subscribe /\ ~NextEvent /\ ~ReadRow /\ ~StopLoad /\ ~StopListen
           /\ ~Package /\ ~LoseData /\ ~End
      BY <1>7, EventsKept
<1>. QED BY <1>1, <1>2, <1>3, <1>4, <1>5, <1>6, <1>7

-----------------------------------------------------------------------------
(* The threads, the SDK's life and the handles. *)

LEMMA StepLife == TypeOK /\ LifeInv /\ [Next]_vars => LifeInv'
<1>. SUFFICES ASSUME TypeOK, LifeInv, [Next]_vars PROVE LifeInv' OBVIOUS
<1>0. lpc \in LoadLabels /\ hpc \in ListenLabels BY DEF TypeOK, NumbersOK
<1>. USE <1>0 DEF LoadLabels, ListenLabels, LifeInv, Loading, Listening
<1>1. CASE Tick \/ LoadFails \/ ListenFails \/ Report \/ NextRound
      BY <1>1 DEF Tick, LoadFails, ListenFails, Report, NextRound, Exit, Running, Load,
                  loadVars, listenVars, subVars, sdkVars
<1>2. CASE StartLoad BY <1>2 DEF StartLoad, Load, StartSdk, listenVars, subVars
<1>3. CASE StartListen BY <1>3 DEF StartListen, Listen, StartSdk, loadVars, subVars
<1>4. CASE ConnectPublisher BY <1>4 DEF ConnectPublisher, Load, Connect, listenVars, subVars
<1>5. CASE WriteRow
  <2>1. lpc = "row" /\ lpc' \in {"row", "publish"}
        /\ UNCHANGED <<hpc, starts, stops, link, sub>>
        BY <1>5 DEF WriteRow, Load, Write, listenVars, subVars
  <2>. QED BY <2>1
<1>6. CASE PublishRow BY <1>6 DEF PublishRow, Load, Publish, listenVars, subVars
<1>7. CASE EndRound
  <2>1. UNCHANGED <<starts, stops, link>> BY <1>7 DEF EndRound, Commit, sdkVars
  <2>. QED BY <1>7, <2>1 DEF EndRound, Load, listenVars, subVars
<1>8. CASE StopLoad
  <2>1. /\ lpc = "round" /\ lpc' = "done" /\ hpc' = hpc /\ starts' = starts
        /\ stops' = stops + 1
        BY <1>8 DEF StopLoad, Load, StopAll, StopSdk, listenVars
  <2>2. stops' = starts => link' # "up" /\ sub' # "on"
        BY <1>8 DEF StopLoad, StopAll, StopSdk
  <2>3. stops' # starts => link' = link /\ sub' = sub
        BY <1>8 DEF StopLoad, StopAll, StopSdk
  <2>4. CASE hpc \in {"start", "end"}
    <3>1. stops' = starts BY <2>1, <2>4
    <3>. QED BY <2>1, <2>2, <2>4, <3>1
  <2>5. CASE hpc \in Listening
    <3>1. stops' # starts BY <2>1, <2>5
    <3>. QED BY <2>1, <2>3, <2>5, <3>1
  <2>. QED BY <2>4, <2>5
<1>9. CASE StopListen
  <2>1. /\ hpc = "stop" /\ hpc' = "end" /\ lpc' = lpc /\ starts' = starts
        /\ stops' = stops + 1
        BY <1>9 DEF StopListen, Listen, StopAll, StopSdk, loadVars
  <2>2. stops' = starts => link' # "up" /\ sub' # "on"
        BY <1>9 DEF StopListen, StopAll, StopSdk
  <2>3. stops' # starts => link' = link /\ sub' = sub
        BY <1>9 DEF StopListen, StopAll, StopSdk
  <2>4. CASE lpc \in {"start", "done"}
    <3>1. stops' = starts BY <2>1, <2>4
    <3>. QED BY <2>1, <2>2, <2>4, <3>1
  <2>5. CASE lpc \in Loading
    <3>1. stops' # starts BY <2>1, <2>5
    <3>. QED BY <2>1, <2>3, <2>5, <3>1
  <2>. QED BY <2>4, <2>5
<1>10. CASE OpenProject \/ GetProject \/ Subscribe \/ EndRows
       BY <1>10 DEF OpenProject, GetProject, Subscribe, EndRows, Listen, loadVars, subVars,
                    sdkVars
<1>11. CASE NextEvent
  <2>1. hpc = "events" /\ hpc' \in {"rows", "free"} BY <1>11 DEF NextEvent, Listen
  <2>. QED BY <1>11, <2>1 DEF NextEvent, Listen, loadVars, sdkVars
<1>12. CASE FreeEvent
  <2>1. hpc = "free" /\ hpc' \in {"events", "stop"} BY <1>12 DEF FreeEvent, Listen
  <2>. QED BY <1>12, <2>1 DEF FreeEvent, Listen, loadVars, subVars, sdkVars
<1>13. CASE ReadRow BY <1>13 DEF ReadRow, loadVars, subVars, sdkVars
<1>14. CASE SdkStep(Send) \/ SdkStep(LoseLink)
       BY <1>14 DEF SdkStep, Send, LoseLink, loadVars, listenVars, subVars
<1>15. CASE Package \/ LoseData \/ End
       BY <1>15 DEF Package, LoseData, End, ToListener, loadVars, listenVars, sdkVars
<1>16. CASE UNCHANGED vars BY <1>16 DEF vars, loadVars, listenVars, subVars, sdkVars
<1>. QED BY <1>1, <1>2, <1>3, <1>4, <1>5, <1>6, <1>7, <1>8, <1>9, <1>10, <1>11, <1>12,
            <1>13, <1>14, <1>15, <1>16, Steps

(* HandleInv is inductive: a thread frees its own handles only, and each   *)
(* after its last use.                                                     *)
LEMMA StepHandles == TypeOK /\ HandleInv /\ [Next]_vars => HandleInv'
<1>. SUFFICES ASSUME TypeOK, HandleInv, [Next]_vars PROVE HandleInv' OBVIOUS
<1>0. lpc \in LoadLabels /\ hpc \in ListenLabels BY DEF TypeOK, NumbersOK
<1>. USE <1>0 DEF LoadLabels, ListenLabels, HandleInv, Listening, Use
<1>1. CASE Tick \/ LoadFails \/ ListenFails \/ Report \/ NextRound
      BY <1>1 DEF Tick, LoadFails, ListenFails, Report, NextRound, Exit, Running, Load,
                  loadVars, listenVars, handleVars
<1>2. CASE StartLoad \/ ConnectPublisher
  <2>1. /\ lpc' # "start" /\ hpc' = hpc
        /\ \/ live' = live \cup {"lError"} /\ dangling' = dangling
           \/ lpc # "start" /\ live' = live \cup {"lUri", "lCreds"} /\ Use({"lError"})
        BY <1>2 DEF StartLoad, ConnectPublisher, Load, listenVars
  <2>2. live \subseteq live' /\ ("event" \in live' => "event" \in live) BY <2>1
  <2>3. "lError" \in live' BY <2>1
  <2>4. ~dangling' BY <2>1
  <2>. QED BY <2>1, <2>2, <2>3, <2>4
<1>3. CASE StartListen BY <1>3 DEF StartListen, Listen, loadVars
<1>4. CASE WriteRow
  <2>1. lpc = "row" /\ lpc' # "start" /\ UNCHANGED <<hpc, live>>
        BY <1>4 DEF WriteRow, Load, listenVars
  <2>2. Use({"lError"}) BY <1>4 DEF WriteRow
  <2>. QED BY <2>1, <2>2
<1>5. CASE PublishRow \/ EndRound \/ StopLoad
      BY <1>5 DEF PublishRow, EndRound, StopLoad, Load, listenVars
<1>6. CASE OpenProject \/ GetProject \/ Subscribe \/ EndRows \/ StopListen
      BY <1>6 DEF OpenProject, GetProject, Subscribe, EndRows, StopListen, Listen, loadVars
<1>7. CASE NextEvent
  <2>1. hpc = "events" /\ hpc' \in {"rows", "free"} /\ live' = live \cup {"event"}
        /\ lpc' = lpc /\ Use({"gError"})
        BY <1>7 DEF NextEvent, Listen, loadVars
  <2>. QED BY <2>1
<1>8. CASE FreeEvent
  <2>1. hpc = "free" /\ hpc' \in {"events", "stop"} /\ live' = live \ {"event"}
        /\ lpc' = lpc /\ Use({"event", "gError"})
        BY <1>8 DEF FreeEvent, Listen, loadVars
  <2>. QED BY <2>1
<1>9. CASE ReadRow BY <1>9 DEF ReadRow, loadVars
<1>10. CASE SdkStep(Send) \/ SdkStep(LoseLink)
       BY <1>10 DEF SdkStep, loadVars, listenVars, handleVars
<1>11. CASE Package \/ LoseData \/ End
       BY <1>11 DEF Package, LoseData, End, ToListener, loadVars, listenVars, handleVars
<1>12. CASE UNCHANGED vars BY <1>12 DEF vars, loadVars, listenVars, handleVars
<1>. QED BY <1>1, <1>2, <1>3, <1>4, <1>5, <1>6, <1>7, <1>8, <1>9, <1>10, <1>11, <1>12, Steps

LEMMA AliveFromInv == IInv => UsedWhileAlive
<1>. SUFFICES ASSUME IInv PROVE UsedWhileAlive OBVIOUS
<1>. USE DEF IInv
<1>0. lpc \in LoadLabels /\ hpc \in ListenLabels BY DEF TypeOK, NumbersOK
<1>1. sub = "on" => starts > stops BY DEF LifeInv, Loading
<1>2. hpc = "end" /\ lpc = "done" => stops = starts /\ link # "up" /\ sub # "on"
      BY DEF LifeInv, Loading, Listening
<1>3. ~dangling /\ (hpc \in {"events", "stop", "end"} => "event" \notin live)
      BY DEF HandleInv
<1>. QED BY <1>1, <1>2, <1>3 DEF UsedWhileAlive

-----------------------------------------------------------------------------
(* The rows' numbers. *)

LEMMA StepMode == TypeOK /\ ModeInv /\ [Next]_vars => ModeInv'
<1>. SUFFICES ASSUME TypeOK, ModeInv, [Next]_vars PROVE ModeInv' OBVIOUS
<1>0. lpc \in LoadLabels /\ bufferSize \in Nat BY DEF TypeOK, NumbersOK
<1>. USE <1>0 DEF LoadLabels, ModeInv
<1>1. CASE WriteRow
  <2>1. lpc = "row" /\ bufferSize' = bufferSize BY <1>1 DEF WriteRow, Load, Write
  <2>2. Buffered' <=> Buffered BY <2>1 DEF Buffered
  <2>3. CASE Buffered
    <3>1. lpc' = "row" /\ writer' = writer BY <1>1, <2>3 DEF WriteRow, Load, Write
    <3>. QED BY <2>1, <2>2, <2>3, <3>1
  <2>4. CASE ~Buffered
    <3>1. lpc' = "publish" /\ queue' = queue BY <1>1, <2>4 DEF WriteRow, Load, Write
    <3>. QED BY <2>1, <2>2, <2>4, <3>1
  <2>. QED BY <2>3, <2>4
<1>2. CASE PublishRow BY <1>2 DEF PublishRow, Load, Publish, Buffered
<1>3. CASE SdkStep(Send)
  <2>1. /\ UNCHANGED <<lpc, bufferSize, writer>> /\ queue # <<>>
        BY <1>3 DEF SdkStep, Send, loadVars
  <2>2. Buffered' <=> Buffered BY <2>1 DEF Buffered
  <2>. QED BY <2>1, <2>2
<1>4. CASE ~WriteRow /\ ~PublishRow /\ ~SdkStep(Send)
  <2>1. UNCHANGED rowVars /\ bufferSize' = bufferSize BY <1>4, RowsKept
  <2>2. Buffered' <=> Buffered BY <2>1 DEF Buffered
  <2>3. /\ lpc' = "publish" => lpc = "publish"
        /\ lpc = "publish" => lpc' = "publish"
        /\ lpc' \in {"start", "connect"} => lpc \in {"start", "connect"}
    <3>1. CASE LoadStep
          BY <1>4, <3>1 DEF LoadStep, StartLoad, ConnectPublisher, NextRound, EndRound,
                            Report, StopLoad, Load
    <3>2. CASE ~LoadStep BY <3>2, LoadKept DEF loadVars
    <3>. QED BY <3>1, <3>2
  <2>. QED BY <2>1, <2>2, <2>3 DEF rowVars
<1>. QED BY <1>1, <1>2, <1>3, <1>4

(* Rows that count on: one more, one less, and one behind the other.       *)
LEMMA AppendCounted ==
    ASSUME NEW s \in Seq(Row), NEW r \in Row, NEW first \in Nat,
           Counted(s, first), r.no = first + Len(s)
    PROVE  Counted(Append(s, r), first) /\ Len(Append(s, r)) = Len(s) + 1
<1>1. /\ Len(Append(s, r)) = Len(s) + 1
      /\ \A k \in 1 .. Len(s) : Append(s, r)[k] = s[k]
      /\ Append(s, r)[Len(s) + 1] = r
      BY AppendProperties
<1>2. Len(s) \in Nat BY LenProperties
<1>3. ASSUME NEW k \in 1 .. Len(s) + 1 PROVE Append(s, r)[k].no = first + k - 1
  <2>1. CASE k \in 1 .. Len(s) BY <1>1, <2>1 DEF Counted
  <2>2. CASE k = Len(s) + 1 BY <1>1, <1>2, <2>2
  <2>. QED BY <1>2, <2>1, <2>2
<1>. QED BY <1>1, <1>3 DEF Counted

LEMMA TailCounted ==
    ASSUME NEW s \in Seq(Row), NEW first \in Nat, Counted(s, first), s # <<>>
    PROVE  /\ Head(s) \in Row /\ Head(s).no = first
           /\ Counted(Tail(s), first + 1) /\ Len(Tail(s)) = Len(s) - 1
<1>1. /\ Head(s) = s[1] /\ Head(s) \in Row /\ Len(Tail(s)) = Len(s) - 1
      /\ \A k \in 1 .. Len(Tail(s)) : Tail(s)[k] = s[k + 1]
      BY HeadTailProperties
<1>2. Len(s) \in Nat /\ Len(s) > 0 BY EmptySeq
<1>. QED BY <1>1, <1>2 DEF Counted

LEMMA ConcatCounted ==
    ASSUME NEW s \in Seq(Row), NEW t \in Seq(Row), Counted(s, 0), Counted(t, Len(s))
    PROVE  Counted(s \o t, 0) /\ Len(s \o t) = Len(s) + Len(t)
<1>1. /\ Len(s \o t) = Len(s) + Len(t)
      /\ \A k \in 1 .. Len(s) + Len(t) :
            (s \o t)[k] = IF k <= Len(s) THEN s[k] ELSE t[k - Len(s)]
      BY ConcatProperties
<1>2. Len(s) \in Nat /\ Len(t) \in Nat BY LenProperties
<1>3. ASSUME NEW k \in 1 .. Len(s) + Len(t) PROVE (s \o t)[k].no = 0 + k - 1
  <2>1. CASE k <= Len(s)
    <3>1. k \in 1 .. Len(s) BY <2>1, <1>2
    <3>. QED BY <1>1, <2>1, <3>1 DEF Counted
  <2>2. CASE ~(k <= Len(s))
    <3>1. k - Len(s) \in 1 .. Len(t) BY <2>2, <1>2
    <3>2. t[k - Len(s)].no = Len(s) + (k - Len(s)) - 1 BY <3>1 DEF Counted
    <3>. QED BY <1>1, <1>2, <2>2, <3>2
  <2>. QED BY <2>1, <2>2
<1>. QED BY <1>1, <1>3 DEF Counted

LEMMA NoRows == \A first : Counted(<<>>, first) /\ Len(<<>>) = 0
<1>1. Len(<<>>) = 0 BY EmptySeq
<1>. QED BY <1>1 DEF Counted

(* What a step does to the rows' numbers and to how many there are. *)
LEMMA StepCounted ==
    ASSUME IInv, [Next]_vars
    PROVE  /\ NumberInv'
           /\ Written' = Written + (IF WriteRow THEN 1 ELSE 0)
<1>0. writer \in Seq(Row) /\ queue \in Seq(Row) /\ inserted \in Seq(Row)
      BY DEF IInv, TypeOK, RowsOK
<1>n. /\ Counted(inserted, 0) /\ Counted(writer, Len(inserted))
      /\ Counted(queue, Len(inserted))
      BY DEF IInv, NumberInv
<1>l. Len(writer) \in Nat /\ Len(queue) \in Nat /\ Len(inserted) \in Nat
      BY <1>0, LenProperties
<1>1. CASE WriteRow
  <2>1. lpc = "row" /\ lcount < Rounds BY <1>1 DEF WriteRow, Load, IInv, PlaceInv
  <2>2. NextRow \in Row /\ NextRow.no = Place(lcount + 1) + n
        BY <2>1, NextRowIsRow DEF IInv, TypeOK
  <2>3. writer = <<>> /\ (~Buffered => queue = <<>>) BY <2>1 DEF IInv, ModeInv
  <2>4. Written = Place(lcount + 1) + n
    <3>1. Written = Place(lcount + 1) + n + 0 BY <2>1 DEF IInv, PlaceInv
    <3>2. NextRow.no \in Nat BY <2>2 DEF Row
    <3>. QED BY <2>2, <3>1, <3>2
  <2>5. Len(writer) = 0 BY <2>3, NoRows
  <2>6. NextRow.no = Len(inserted) + Len(queue) BY <1>l, <2>2, <2>4, <2>5 DEF Written
  <2>7. CASE Buffered
    <3>1. queue' = Append(queue, NextRow) /\ UNCHANGED <<writer, inserted>>
          BY <1>1, <2>7 DEF WriteRow, Write, NextRow
    <3>2. Counted(queue', Len(inserted)) /\ Len(queue') = Len(queue) + 1
          BY <1>0, <1>l, <1>n, <2>2, <2>6, <3>1, AppendCounted
    <3>. QED BY <1>1, <1>l, <1>n, <3>1, <3>2 DEF NumberInv, Written
  <2>8. CASE ~Buffered
    <3>1. writer' = Append(writer, NextRow) /\ UNCHANGED <<queue, inserted>>
          BY <1>1, <2>8 DEF WriteRow, Write, NextRow
    <3>2. NextRow.no = Len(inserted) + Len(writer)
          BY <1>l, <2>3, <2>5, <2>6, <2>8, NoRows
    <3>3. Counted(writer', Len(inserted)) /\ Len(writer') = Len(writer) + 1
          BY <1>0, <1>l, <1>n, <2>2, <3>1, <3>2, AppendCounted
    <3>. QED BY <1>1, <1>l, <1>n, <3>1, <3>3 DEF NumberInv, Written
  <2>. QED BY <2>7, <2>8
<1>2. CASE PublishRow /\ ~WriteRow
  <2>1. inserted' = inserted \o writer /\ writer' = <<>> /\ queue' = queue
        BY <1>2 DEF PublishRow, Publish
  <2>2. Counted(inserted', 0) /\ Len(inserted') = Len(inserted) + Len(writer)
        BY <1>0, <1>n, <2>1, ConcatCounted
  <2>3. queue = <<>>
    <3>1. ~Buffered BY <1>2 DEF PublishRow, Load, IInv, ModeInv
    <3>. QED BY <3>1 DEF IInv, ModeInv
  <2>. QED BY <1>2, <1>l, <2>1, <2>2, <2>3, NoRows DEF NumberInv, Written
<1>3. CASE SdkStep(Send) /\ ~WriteRow
  <2>1. /\ queue # <<>> /\ inserted' = Append(inserted, Head(queue))
        /\ queue' = Tail(queue) /\ writer' = writer /\ lpc' = lpc
        BY <1>3 DEF SdkStep, Send, loadVars
  <2>2. /\ Head(queue) \in Row /\ Head(queue).no = 0 + Len(inserted)
        /\ Counted(Tail(queue), Len(inserted) + 1) /\ Len(Tail(queue)) = Len(queue) - 1
        BY <1>0, <1>l, <1>n, <2>1, TailCounted
  <2>3. Counted(inserted', 0) /\ Len(inserted') = Len(inserted) + 1
        BY <1>0, <1>n, <2>1, <2>2, AppendCounted
  <2>4. writer = <<>>
    <3>1. Buffered BY <2>1 DEF IInv, ModeInv
    <3>. QED BY <3>1 DEF IInv, ModeInv
  <2>. QED BY <1>3, <1>l, <2>1, <2>2, <2>3, <2>4, NoRows DEF NumberInv, Written
<1>4. CASE ~WriteRow /\ ~PublishRow /\ ~SdkStep(Send)
  <2>1. UNCHANGED <<writer, queue, inserted>> BY <1>4, RowsKept DEF rowVars
  <2>. QED BY <1>4, <1>l, <1>n, <2>1 DEF NumberInv, Written
<1>. QED BY <1>1, <1>2, <1>3, <1>4

(* A round is NumRows rows. *)
LEMMA PlaceNext ==
    ASSUME NEW k \in 0 .. Rounds - 1
    PROVE  /\ Place(k) \in Nat /\ Place(k + 1) \in Nat
           /\ Place(k) = Place(k + 1) + NumRows
<1>1. Rounds \in Nat /\ NumRows \in Nat BY CppAssumption
<1>2. PICK a \in Nat : a = Rounds - (k + 1) BY <1>1
<1>3. Rounds - k = a + 1 BY <1>1, <1>2
<1>4. a * NumRows \in Nat /\ (a + 1) * NumRows = a * NumRows + NumRows BY <1>1
<1>. QED BY <1>1, <1>2, <1>3, <1>4 DEF Place

LEMMA StepPlace == IInv /\ [Next]_vars => PlaceInv'
<1>. SUFFICES ASSUME IInv, [Next]_vars PROVE PlaceInv' OBVIOUS
<1>0. /\ lpc \in LoadLabels /\ lcount \in 0 .. Rounds /\ n \in 0 .. NumRows
      /\ Rounds \in Nat \ {0} /\ NumRows \in Nat
      BY CppAssumption DEF IInv, TypeOK, NumbersOK
<1>p. PlaceInv BY DEF IInv
<1>c. Written' = Written + (IF WriteRow THEN 1 ELSE 0) BY StepCounted
<1>l. ASSUME lcount < Rounds
      PROVE  /\ Place(lcount) \in Nat /\ Place(lcount + 1) \in Nat
             /\ Place(lcount) = Place(lcount + 1) + NumRows
  <2>1. lcount \in 0 .. Rounds - 1 BY <1>0, <1>l
  <2>. QED BY <2>1, PlaceNext
<1>z. Place(Rounds) = 0 BY <1>0 DEF Place
<1>. USE <1>0 DEF LoadLabels
<1>1. CASE StartLoad \/ ConnectPublisher
  <2>1. /\ ~WriteRow /\ lcount' = lcount /\ lpc \in {"start", "connect"}
        /\ lpc' \in {"connect", "round"}
        BY <1>1 DEF StartLoad, ConnectPublisher, WriteRow, Load
  <2>2. lcount = Rounds /\ Written = 0 BY <1>p, <1>z, <2>1 DEF PlaceInv
  <2>. QED BY <1>c, <1>z, <2>1, <2>2 DEF PlaceInv
<1>2. CASE NextRound
  <2>1. /\ ~WriteRow /\ lpc = "round" /\ lpc' = "row" /\ lcount > 0
        /\ lcount' = lcount - 1 /\ n' = 0
        BY <1>2 DEF NextRound, WriteRow, Load
  <2>2. Written = Place(lcount) BY <1>p, <2>1 DEF PlaceInv
  <2>3. lcount' + 1 = lcount /\ lcount' < Rounds BY <2>1
  <2>4. Place(lcount) \in Nat
    <3>1. lcount - 1 \in 0 .. Rounds - 1 /\ lcount - 1 + 1 = lcount BY <2>1
    <3>. QED BY <3>1, PlaceNext
  <2>5. Place(lcount') = Place(lcount)' /\ Place(lcount' + 1) = Place(lcount) BY <2>3 DEF Place
  <2>6. Written' = Place(lcount' + 1) + n' BY <1>c, <2>1, <2>2, <2>4, <2>5
  <2>. QED BY <2>1, <2>3, <2>4, <2>5, <2>6 DEF PlaceInv, Place
<1>3. CASE WriteRow
  <2>1. lpc = "row" /\ lcount' = lcount BY <1>3 DEF WriteRow, Load
  <2>2. lcount < Rounds /\ Written = Place(lcount + 1) + n BY <1>l, <1>p, <2>1 DEF PlaceInv
  <2>3. Written' = Place(lcount + 1) + n + 1 BY <1>3, <1>c, <1>l, <2>2
  <2>4. CASE Buffered
    <3>1. lpc' = "row" /\ n' = n + 1 BY <1>3, <2>4 DEF WriteRow, Load
    <3>. QED BY <1>l, <2>1, <2>2, <2>3, <3>1 DEF PlaceInv, Place
  <2>5. CASE ~Buffered
    <3>1. lpc' = "publish" /\ n' = n BY <1>3, <2>5 DEF WriteRow, Load
    <3>. QED BY <1>l, <2>1, <2>2, <2>3, <3>1 DEF PlaceInv, Place
  <2>. QED BY <2>4, <2>5
<1>4. CASE PublishRow
  <2>1. ~WriteRow /\ lpc = "publish" /\ lpc' = "row" /\ lcount' = lcount /\ n' = n + 1
        BY <1>4 DEF PublishRow, WriteRow, Load
  <2>2. lcount < Rounds /\ Written = Place(lcount + 1) + n + 1 BY <1>p, <2>1 DEF PlaceInv
  <2>. QED BY <1>c, <1>l, <2>1, <2>2 DEF PlaceInv, Place
<1>5. CASE EndRound /\ ~WriteRow
  <2>1. n = NumRows /\ lpc = "row" /\ lpc' = "report" /\ lcount' = lcount
        BY <1>5 DEF EndRound, Load
  <2>2. lcount < Rounds /\ Written = Place(lcount + 1) + n BY <1>l, <1>p, <2>1 DEF PlaceInv
  <2>3. Written' = Place(lcount) BY <1>5, <1>c, <1>l, <2>1, <2>2
  <2>. QED BY <2>1, <2>3 DEF PlaceInv, Place
<1>6. CASE Report
  <2>1. /\ ~WriteRow /\ lpc = "report" /\ lpc' \in {"report", "round"}
        /\ lcount' = lcount /\ n' = n
        BY <1>6 DEF Report, WriteRow, Load
  <2>. QED BY <1>c, <1>p, <2>1 DEF PlaceInv, Place, Written
<1>7. CASE StopLoad
  <2>1. ~WriteRow /\ lpc = "round" /\ lpc' = "done" /\ lcount' = lcount
        BY <1>7 DEF StopLoad, WriteRow, Load
  <2>. QED BY <1>c, <1>p, <2>1 DEF PlaceInv, Place
<1>8. CASE ~LoadStep
  <2>1. ~WriteRow /\ UNCHANGED <<lpc, lcount, n>> BY <1>8, LoadKept DEF LoadStep, loadVars
  <2>. QED BY <1>c, <1>p, <2>1 DEF PlaceInv, Place
<1>. QED BY <1>1, <1>2, <1>3, <1>4, <1>5, <1>6, <1>7, <1>8 DEF LoadStep

(* CommitInv is inductive: in the last round the queue has been sent at the *)
(* commit, and nothing is written after it.                                *)
LEMMA StepCommit == IInv /\ [Next]_vars => CommitInv'
<1>. SUFFICES ASSUME IInv, [Next]_vars PROVE CommitInv' OBVIOUS
<1>0. lcount \in 0 .. Rounds /\ Rounds \in Nat \ {0}
      BY CppAssumption DEF IInv, TypeOK, NumbersOK
<1>1. CASE StartLoad \/ WriteRow \/ PublishRow
  <2>1. lpc' \in {"connect", "row", "publish"}
    <3>1. CASE WriteRow /\ Buffered BY <3>1 DEF WriteRow, Load
    <3>2. CASE WriteRow /\ ~Buffered BY <3>2 DEF WriteRow, Load
    <3>. QED BY <1>1, <3>1, <3>2 DEF StartLoad, PublishRow, Load
  <2>. QED BY <2>1 DEF CommitInv
<1>2. CASE ConnectPublisher
  <2>1. lcount = Rounds BY <1>2 DEF ConnectPublisher, Load, IInv, PlaceInv
  <2>. QED BY <1>0, <1>2, <2>1 DEF ConnectPublisher, Load, CommitInv
<1>3. CASE NextRound BY <1>3 DEF NextRound, Load, CommitInv
<1>4. CASE EndRound BY <1>4 DEF EndRound, Load, Commit, rowVars, CommitInv
<1>5. CASE Report BY <1>5 DEF Report, sdkVars, IInv, CommitInv
<1>6. CASE StopLoad
  <2>1. /\ lpc = "round" /\ lpc' = "done" /\ lcount = 0 /\ lcount' = 0
        /\ committed' = committed /\ queue' = queue
        BY <1>6 DEF StopLoad, Load, StopAll, StopSdk, rowVars
  <2>. QED BY <2>1 DEF IInv, CommitInv
<1>7. CASE ~LoadStep
  <2>1. UNCHANGED <<lpc, lcount, committed>> BY <1>7, LoadKept DEF loadVars
  <2>2. queue = <<>> => queue' = queue
    <3>1. CASE SdkStep(Send) BY <3>1 DEF SdkStep, Send
    <3>2. CASE ~SdkStep(Send) BY <1>7, <3>2, RowsKept DEF LoadStep, rowVars
    <3>. QED BY <3>1, <3>2
  <2>. QED BY <2>1, <2>2 DEF IInv, CommitInv
<1>. QED BY <1>1, <1>2, <1>3, <1>4, <1>5, <1>6, <1>7 DEF LoadStep

LEMMA SuccessFromInv == IInv => SuccessMeansSent
<1>. SUFFICES ASSUME IInv, lpc = "done" PROVE SuccessMeansSent BY DEF SuccessMeansSent
<1>1. lcount = 0 /\ committed /\ queue = <<>> BY DEF IInv, CommitInv
<1>2. writer = <<>> BY DEF IInv, ModeInv
<1>3. Written = Place(0) BY <1>1 DEF IInv, PlaceInv
<1>4. Place(0) = Total BY CppAssumption DEF Place, Total
<1>5. inserted \in Seq(Row) BY DEF IInv, TypeOK, RowsOK
<1>6. Len(inserted) \in Nat /\ DOMAIN inserted = 1 .. Len(inserted) BY <1>5, LenProperties
<1>7. Len(inserted) = Total BY <1>1, <1>2, <1>3, <1>4, <1>6, NoRows DEF Written
<1>8. \A j \in DOMAIN inserted : inserted[j].no = j - 1
  <2>1. Counted(inserted, 0) BY DEF IInv, NumberInv
  <2>2. ASSUME NEW j \in 1 .. Len(inserted) PROVE inserted[j].no = j - 1
    <3>1. inserted[j].no = 0 + j - 1 BY <2>1 DEF Counted
    <3>. QED BY <1>6, <3>1
  <2>. QED BY <1>6, <2>2
<1>9. [j \in DOMAIN inserted |-> inserted[j].no] = [j \in 1 .. Total |-> j - 1]
      BY <1>6, <1>7, <1>8
<1>. QED BY <1>1, <1>2, <1>9 DEF SuccessMeansSent

-----------------------------------------------------------------------------
(* The latencies. *)

(* A multiple of a divisor has no remainder. *)
LEMMA MultipleMod ==
    ASSUME NEW k \in Int, NEW b \in Nat \ {0}
    PROVE  (b * k) % b = 0
<1>. DEFINE q == (b * k) \div b   r == (b * k) % b
<1>1. q \in Int /\ r \in 0 .. b - 1 /\ b * k = b * q + r
  <2>1. b * k \in Int OBVIOUS
  <2>. QED BY <2>1
<1>. HIDE DEF q, r
<1>2. CASE k = q BY <1>1, <1>2 DEF r
<1>3. ASSUME k < q PROVE FALSE
  <2>1. b * q >= b * k + b
    <3>1. PICK d \in Nat : q = k + 1 + d
      <4>1. q - k - 1 \in Nat BY <1>1, <1>3
      <4>. QED BY <1>1, <4>1
    <3>2. b * q = b * k + b + b * d /\ b * d \in Nat BY <3>1
    <3>. QED BY <1>1, <3>2
  <2>. QED BY <1>1, <2>1
<1>4. ASSUME k > q PROVE FALSE
  <2>1. b * k >= b * q + b
    <3>1. PICK d \in Nat : k = q + 1 + d
      <4>1. k - q - 1 \in Nat BY <1>1, <1>4
      <4>. QED BY <1>1, <4>1
    <3>2. b * k = b * q + b + b * d /\ b * d \in Nat BY <1>1, <3>1
    <3>. QED BY <1>1, <3>2
  <2>. QED BY <1>1, <2>1
<1>. QED BY <1>1, <1>2, <1>3, <1>4

(* Taking the seconds off both clock readings changes their difference by  *)
(* whole seconds.                                                          *)
LEMMA WholeSeconds ==
    ASSUME NEW now \in Nat, NEW then \in Nat, NEW b \in Nat \ {0}
    PROVE  /\ ((now - then) - ((now % b) - (then % b))) % b = 0
           /\ - b < (now % b) - (then % b) /\ (now % b) - (then % b) < b
<1>. DEFINE p == now \div b   r == now % b   q == then \div b   t == then % b
<1>1. /\ p \in Nat /\ r \in 0 .. b - 1 /\ now = b * p + r
      /\ q \in Nat /\ t \in 0 .. b - 1 /\ then = b * q + t
      OBVIOUS
<1>. HIDE DEF p, r, q, t
<1>2. b * (p - q) = b * p - b * q BY <1>1
<1>3. (now - then) - (r - t) = b * (p - q) BY <1>1, <1>2
<1>4. p - q \in Int BY <1>1
<1>5. ((now - then) - (r - t)) % b = 0 BY <1>3, <1>4, MultipleMod
<1>6. - b < r - t /\ r - t < b BY <1>1
<1>7. r = now % b /\ t = then % b BY DEF r, t
<1>. QED BY ONLY <1>5, <1>6, <1>7

LEMMA StepLatency == TypeOK /\ LatencyModuloSecond /\ [Next]_vars => LatencyModuloSecond'
<1>. SUFFICES ASSUME TypeOK, LatencyModuloSecond, [Next]_vars PROVE LatencyModuloSecond'
     OBVIOUS
<1>1. CASE ReadRow
  <2>. DEFINE row == Head(rows)
  <2>1. rows \in Seq(Row) /\ rows # <<>> /\ clock \in Nat /\ Second \in Nat \ {0}
        BY <1>1, CppAssumption DEF ReadRow, TypeOK, EventsOK, NumbersOK
  <2>2. row \in Row BY <2>1, HeadTailProperties
  <2>3. row.key = row.sent % Second /\ row.sent \in Nat BY <2>2 DEF Row, Nanos
  <2>d. Duration(row) = (clock % Second) - (row.sent % Second)
    <3>. HIDE DEF row
    <3>1. Duration(row) = (clock % Second) - row.key BY DEF Duration, Nanos
    <3>. QED BY <2>3, <3>1
  <2>4. durations' = durations \cup
           {[duration |-> (clock % Second) - (row.sent % Second), elapsed |-> clock - row.sent]}
        BY <1>1, <2>d DEF ReadRow
  <2>. HIDE DEF row
  <2>5. /\ ((clock - row.sent) - ((clock % Second) - (row.sent % Second))) % Second = 0
        /\ - Second < (clock % Second) - (row.sent % Second)
        /\ (clock % Second) - (row.sent % Second) < Second
        BY <2>1, <2>3, WholeSeconds
  <2>. QED BY <2>4, <2>5 DEF LatencyModuloSecond
<1>2. CASE ~ReadRow
  <2>1. durations' = durations
    <3>1. CASE Subscribe \/ NextEvent BY <3>1 DEF Subscribe, NextEvent
    <3>2. CASE StopLoad \/ StopListen
          BY <3>2 DEF StopLoad, StopListen, Load, listenVars
    <3>3. CASE Package \/ LoseData \/ End
          BY <3>3 DEF Package, LoseData, End, ToListener, listenVars
    <3>. QED BY <1>2, <3>1, <3>2, <3>3, EventsKept
  <2>. QED BY <2>1 DEF LatencyModuloSecond
<1>. QED BY <1>1, <1>2

-----------------------------------------------------------------------------
LEMMA StepInv == IInv /\ [Next]_vars => IInv'
<1>. SUFFICES ASSUME IInv, [Next]_vars PROVE IInv' OBVIOUS
<1>1. TypeOK' BY StepNumbers, StepRows, StepEvents DEF IInv, TypeOK
<1>2. LifeInv' /\ HandleInv' BY StepLife, StepHandles DEF IInv
<1>3. ModeInv' BY StepMode DEF IInv
<1>4. NumberInv' BY StepCounted
<1>5. PlaceInv' /\ CommitInv' BY StepPlace, StepCommit
<1>6. LatencyModuloSecond' BY StepLatency DEF IInv
<1>. QED BY <1>1, <1>2, <1>3, <1>4, <1>5, <1>6 DEF IInv

(* The inductive invariant holds of every state of loadData() and listen(). *)
THEOREM Invariant == Spec => []IInv
<1>. QED BY InitInv, StepInv, PTL DEF Spec

(* When loadData() prints "Messages published successfully", the whole     *)
(* Rounds times NumRows rows have been sent in the order written, and been *)
(* committed, whether the publisher is buffered or not.                    *)
THEOREM PublishedRows == Spec => []SuccessMeansSent
<1>1. IInv => SuccessMeansSent BY SuccessFromInv
<1>. QED BY <1>1, Invariant, PTL

(* However the two threads are interleaved, a call of either has the SDK,  *)
(* the error, the event and the URI it is given alive.                     *)
THEOREM HandlesAlive == Spec => []UsedWhileAlive
<1>1. IInv => UsedWhileAlive BY AliveFromInv
<1>. QED BY <1>1, Invariant, PTL

(* What listen() computes is the time that has passed up to whole seconds. *)
THEOREM LatencyRight == Spec => []LatencyModuloSecond
<1>1. IInv => LatencyModuloSecond BY DEF IInv
<1>. QED BY <1>1, Invariant, PTL

-----------------------------------------------------------------------------
(* Fixed decimals, for words of any even number of values: the code         *)
(* compares their words, and by that the integers they stand for.           *)

(* Values of the high word are apart by more than the low word can make up. *)
LEMMA WordsApart ==
    ASSUME EvenWord, NEW i \in Int, NEW j \in Int, NEW l \in Words, NEW m \in Words, i < j
    PROVE  i * Word + l < j * Word + m
<1>1. (i + 1) * Word = i * Word + Word
  BY DEF EvenWord
<1>2. (j - (i + 1)) * Word >= 0
  BY DEF EvenWord
<1>3. (j - (i + 1)) * Word = j * Word - (i + 1) * Word
  BY DEF EvenWord
<1> QED BY <1>1, <1>2, <1>3 DEF Words, EvenWord

(* The signed reading of a high word tells the words apart. *)
LEMMA SignedInt ==
    ASSUME EvenWord, NEW h \in Words, NEW k \in Words
    PROVE  Signed(h) \in Int /\ (Signed(h) = Signed(k) <=> h = k)
BY DEF Signed, Words, EvenWord

(* operator<: less in the code is less as an integer. *)
THEOREM LessIsLess ==
    ASSUME EvenWord, NEW x \in Values, NEW y \in Values
    PROVE  Less(x, y) <=> IntOf(x) < IntOf(y)
<1> DEFINE i == Signed(x.hi)
           j == Signed(y.hi)
<1>1. /\ x.hi \in Words /\ x.lo \in Words
      /\ y.hi \in Words /\ y.lo \in Words
  BY DEF Values
<1>2. i \in Int /\ j \in Int /\ (i = j <=> x.hi = y.hi)
  BY <1>1, SignedInt
<1> HIDE DEF i, j
<1>3. IntOf(x) = i * Word + x.lo /\ IntOf(y) = j * Word + y.lo
  BY DEF IntOf, i, j
<1>4. Less(x, y) <=> (i < j \/ (i = j /\ x.lo < y.lo))
  BY <1>2 DEF Less, i, j
<1>5. CASE i < j
  <2>1. IntOf(x) < IntOf(y)
    BY <1>1, <1>2, <1>3, <1>5, WordsApart
  <2> QED BY <2>1, <1>4, <1>5
<1>6. CASE j < i
  <2>1. IntOf(y) < IntOf(x)
    BY <1>1, <1>2, <1>3, <1>6, WordsApart
  <2>2. IntOf(x) \in Int /\ IntOf(y) \in Int
    BY <1>1, <1>2, <1>3 DEF Words, EvenWord
  <2> QED BY <2>1, <2>2, <1>2, <1>4, <1>6
<1>7. CASE i = j
  <2>1. i * Word \in Int
    BY <1>2 DEF EvenWord
  <2>2. IntOf(x) < IntOf(y) <=> x.lo < y.lo
    BY <2>1, <1>1, <1>3, <1>7 DEF Words
  <2> QED BY <2>2, <1>2, <1>4, <1>7
<1> QED BY <1>2, <1>5, <1>6, <1>7

(* operator==: equal in the code is equal as an integer. *)
THEOREM EqualIsEqual ==
    ASSUME EvenWord, NEW x \in Values, NEW y \in Values
    PROVE  Equal(x, y) <=> IntOf(x) = IntOf(y)
<1>1. /\ x.hi \in Words /\ x.lo \in Words
      /\ y.hi \in Words /\ y.lo \in Words
  BY DEF Values
<1>2. /\ Signed(x.hi) \in Int /\ Signed(y.hi) \in Int
      /\ Signed(x.hi) = Signed(y.hi) <=> x.hi = y.hi
  BY <1>1, SignedInt
<1>3. IntOf(x) \in Int /\ IntOf(y) \in Int
  BY <1>1, <1>2 DEF IntOf, Words, EvenWord
<1>4. Less(x, y) <=> IntOf(x) < IntOf(y)
  BY LessIsLess
<1>5. Less(y, x) <=> IntOf(y) < IntOf(x)
  BY LessIsLess
<1>6. Equal(x, y) <=> (~Less(x, y) /\ ~Less(y, x))
  BY <1>1, <1>2 DEF Less, Equal, Words
<1> QED BY <1>3, <1>4, <1>5, <1>6

(* Every comparison of the code is that of the integers. *)
THEOREM ComparisonsRight ==
    ASSUME EvenWord, NEW x \in Values, NEW y \in Values
    PROVE  /\ Less(x, y) <=> IntOf(x) < IntOf(y)
           /\ Greater(x, y) <=> IntOf(x) > IntOf(y)
           /\ Equal(x, y) <=> IntOf(x) = IntOf(y)
           /\ LessEqual(x, y) <=> IntOf(x) <= IntOf(y)
           /\ GreaterEqual(x, y) <=> IntOf(x) >= IntOf(y)
           /\ NotEqual(x, y) <=> IntOf(x) # IntOf(y)
           /\ IsZero(x) <=> IntOf(x) = 0
<1>1. /\ x.hi \in Words /\ x.lo \in Words
      /\ y.hi \in Words /\ y.lo \in Words
  BY DEF Values
<1>2. IntOf(x) \in Int /\ IntOf(y) \in Int
  BY <1>1, SignedInt DEF IntOf, Words, EvenWord
<1>3. /\ Less(x, y) <=> IntOf(x) < IntOf(y)
      /\ Less(y, x) <=> IntOf(y) < IntOf(x)
  BY LessIsLess
<1>4. Equal(x, y) <=> IntOf(x) = IntOf(y)
  BY EqualIsEqual
<1>5. NotEqual(x, y) <=> ~Equal(x, y)
  BY DEF NotEqual, Equal
<1>6. IsZero(x) <=> IntOf(x) = 0
  <2> DEFINE zero == [hi |-> 0, lo |-> 0]
  <2>1. zero \in Values
    BY DEF Values, Words, EvenWord
  <2>2. IntOf(zero) = 0
    BY DEF IntOf, Signed, EvenWord
  <2>3. Equal(x, zero) <=> IsZero(x)
    BY DEF Equal, IsZero
  <2> HIDE DEF zero
  <2> QED BY <2>1, <2>2, <2>3, EqualIsEqual
<1> QED BY <1>2, <1>3, <1>4, <1>5, <1>6 DEF Greater, LessEqual, GreaterEqual

(* setDigits(), getIntDigits(), getFractDigits(): the fraction's digits    *)
(* come back as they were set; the integer's do if they fit a byte too,    *)
(* and lose what exceeds one if not.                                       *)
THEOREM DigitsComeBack ==
    ASSUME NEW int \in Nat, NEW fract \in 0 .. Byte - 1
    PROVE  /\ GetFractDigits(SetDigits(int, fract)) = fract
           /\ GetIntDigits(SetDigits(int, fract)) = int % Byte
<1> DEFINE q == int \div Byte
           r == int % Byte
<1>1. q \in Nat /\ r \in 0 .. Byte - 1 /\ int = q * Byte + r
  BY DEF Byte
<1> HIDE DEF q, r
<1>2. int * Byte + fract = q * (Byte * Byte) + (r * Byte + fract)
  BY <1>1 DEF Byte
<1>3. SetDigits(int, fract) = r * Byte + fract
  BY <1>1, <1>2 DEF SetDigits, Byte
<1>4. (r * Byte + fract) % Byte = fract /\ (r * Byte + fract) \div Byte = r
  BY <1>1 DEF Byte
<1> QED BY <1>3, <1>4 DEF GetFractDigits, GetIntDigits, r
=============================================================================

------------------------------ MODULE RttClient ------------------------------
(***************************************************************************)
(* RTTClient.java: main's thread publishes Count times LoopRecs rows, each  *)
(* with its send time, through a buffered publisher, commits and stops the *)
(* SDK; a receiver thread, started before, subscribes to the same stream,  *)
(* records the latency of each row and prints and renews the histogram     *)
(* after every ReportRows rows.  The threads share nothing but the SDK,    *)
(* which main alone starts and stops.                                      *)
(*                                                                         *)
(* A row is its number.  In the code Count = 400, LoopRecs = 100000,        *)
(* BufferSize = 1000, ReportRows = 200000; the block size is 0.            *)
(***************************************************************************)
EXTENDS EspSdk, SequencesExt

CONSTANTS Count, LoopRecs, BufferSize, ReportRows

ASSUME ClientAssumption == /\ Count \in Nat /\ LoopRecs \in Nat \ {0}
                           /\ BufferSize \in Nat \ {0} /\ ReportRows \in Nat \ {0}

VARIABLES pc, count, i, value,  \* main: rounds left, rows of the round, next row
          rpc,                  \* the receiver thread
          sub,                  \* its subscriber: "none", "on" or "closed"
          delivered,            \* how many of the inserted rows sub is past
          events,               \* what getNextEvent() will answer
          rows,                 \* rows left in the DATA event being read
          hi, histoCounter,     \* the rows in the histogram, their count
          reports,              \* the histograms printed
          lost                  \* a row has been skipped for sub (history)

mainVars == <<pc, count, i, value>>
subVars  == <<sub, delivered, events, lost>>
recvVars == <<rpc, rows, hi, histoCounter, reports>>
vars == <<pc, count, i, value, sub, delivered, events, lost, rpc, rows, hi,
          histoCounter, reports, starts, stops, link, bufferSize, writer, open,
          queue, inserted, committed>>

Data(s)  == [type |-> "DATA", rows |-> s]
Other(t) == [type |-> t, rows |-> <<>>]

Init == /\ SdkInit /\ bufferSize = BufferSize
        /\ pc = "start" /\ count = Count /\ i = 0 /\ value = 0
        /\ sub = "none" /\ delivered = 0 /\ events = <<>> /\ lost = FALSE
        /\ rpc = "new" /\ rows = <<>> /\ hi = <<>> /\ histoCounter = 0 /\ reports = <<>>

GoTo(from, to) == pc = from /\ pc' = to

-----------------------------------------------------------------------------
(* main: s_sdk.start(), then the receiver thread is started. *)
Start == /\ GoTo("start", "spawn") /\ StartSdk
         /\ UNCHANGED <<count, i, value, subVars, recvVars>>

Spawn == /\ GoTo("spawn", "connect") /\ rpc' = "connect"
         /\ UNCHANGED <<count, i, value, subVars, rows, hi, histoCounter, reports, sdkVars>>

ConnectPublisher == /\ GoTo("connect", "round") /\ Connect
                    /\ UNCHANGED <<count, i, value, subVars, recvVars>>

(* while( count-- > 0 ) *)
NextRound == /\ count > 0 /\ GoTo("round", "row")
             /\ count' = count - 1 /\ i' = 0
             /\ UNCHANGED <<value, subVars, recvVars, sdkVars>>

WriteRow == /\ i < LoopRecs /\ GoTo("row", "row")
            /\ Write(value, FALSE)
            /\ value' = value + 1 /\ i' = i + 1
            /\ UNCHANGED <<count, subVars, recvVars>>

(* Slip (ImplementsStream): every round commits. *)
EndRoundCommitted == /\ i = LoopRecs /\ GoTo("row", "round") /\ Commit
                     /\ UNCHANGED <<count, i, value, subVars, recvVars>>

EndRound == /\ i = LoopRecs /\ GoTo("row", "round")
            /\ UNCHANGED <<count, i, value, subVars, recvVars, sdkVars>>

(* Stopping the SDK closes the subscriber too, maybe before all its events *)
(* have been taken.                                                        *)
CloseSubscriber ==
    IF sub = "on"
      THEN /\ sub' = "closed"
           /\ \E k \in 0 .. Len(events) :
                 events' = Append(SubSeq(events, 1, k), Other("CLOSED"))
           /\ UNCHANGED <<delivered, lost>>
      ELSE UNCHANGED subVars

(* Slip (StopsMatchStarts): doPublish() stops the SDK after its commit. *)
CommitRowsStopped ==
    /\ count = 0 /\ GoTo("round", "finally")
    /\ link = "up" /\ queue = <<>>
    /\ committed' = TRUE /\ stops' = stops + 1 /\ link' = "none"
    /\ CloseSubscriber
    /\ UNCHANGED <<count, i, value, recvVars, starts, bufferSize, rowVars>>

(* publisher.commit() *)
CommitRows == /\ count = 0 /\ GoTo("round", "finally") /\ Commit
              /\ UNCHANGED <<count, i, value, subVars, recvVars>>

(* An exception of doPublish(): all kinds are caught. *)
Throw == /\ \/ pc = "connect"
            \/ link = "lost" /\ pc \in {"row", "round"}
         /\ pc' = "finally"
         /\ UNCHANGED <<count, i, value, subVars, recvVars, sdkVars>>

(* finally: s_sdk.stop() *)
Finally == /\ GoTo("finally", "end") /\ StopSdk /\ CloseSubscriber
           /\ UNCHANGED <<count, i, value, recvVars>>

-----------------------------------------------------------------------------
(* The SDK and the project.  Rows are packaged as the engine likes.        *)
Running == starts > stops

Package == /\ sub = "on"
           /\ \E n \in delivered + 1 .. Len(inserted) :
                 /\ events' = Append(events, Data(SubSeq(inserted, delivered + 1, n)))
                 /\ delivered' = n
           /\ UNCHANGED <<mainVars, sub, lost, recvVars, sdkVars>>

(* A slow subscriber may miss rows. *)
LoseData == /\ sub = "on"
            /\ \E n \in delivered + 1 .. Len(inserted) : delivered' = n
            /\ events' = Append(events, Other("DATA_LOST"))
            /\ lost' = TRUE
            /\ UNCHANGED <<mainVars, sub, recvVars, sdkVars>>

Disconnect == /\ sub = "on" /\ sub' = "closed"
              /\ events' = Append(events, Other("DISCONNECTED"))
              /\ UNCHANGED <<mainVars, delivered, lost, recvVars, sdkVars>>

SdkStep == \/ (Send \/ LoseLink) /\ UNCHANGED <<mainVars, subVars, recvVars>>
           \/ Package \/ LoseData \/ Disconnect

-----------------------------------------------------------------------------
(* doSubcribe().  The stream's base data, if it keeps any, comes first.    *)
Subscribe == /\ rpc = "connect" /\ Running
             /\ rpc' = "events" /\ sub' = "on"
             /\ delivered' \in 0 .. Len(inserted)
             /\ events' = <<Other("SYNC_START"), Other("SYNC_END")>>
             /\ UNCHANGED <<mainVars, lost, rows, hi, histoCounter, reports, sdkVars>>

(* It cannot connect; when the SDK is stopped already it never can.        *)
SubscribeFails == /\ rpc = "connect" /\ rpc' = "ended"
                  /\ UNCHANGED <<mainVars, subVars, rows, hi, histoCounter, reports, sdkVars>>

(* Slip (Terminates): CLOSED is only printed. *)
NextEventIgnored ==
    /\ rpc = "events" /\ events # <<>>
    /\ events' = Tail(events)
    /\ CASE Head(events).type = "DATA" -> rpc' = "rows" /\ rows' = Head(events).rows
         [] Head(events).type = "DISCONNECTED" -> rpc' = "ended" /\ UNCHANGED rows
         [] OTHER -> UNCHANGED <<rpc, rows>>
    /\ UNCHANGED <<mainVars, sub, delivered, lost, hi, histoCounter, reports, sdkVars>>

(* Slip (SamplesInOrder): the rows lost are asked for again. *)
NextEventAgain ==
    /\ rpc = "events" /\ events # <<>>
    /\ events' = Tail(events)
    /\ IF Head(events).type = "DATA_LOST"
         THEN delivered' \in 0 .. delivered
         ELSE UNCHANGED delivered
    /\ CASE Head(events).type = "DATA" -> rpc' = "rows" /\ rows' = Head(events).rows
         [] Head(events).type \in {"CLOSED", "DISCONNECTED"} -> rpc' = "ended" /\ UNCHANGED rows
         [] OTHER -> UNCHANGED <<rpc, rows>>
    /\ UNCHANGED <<mainVars, sub, lost, hi, histoCounter, reports, sdkVars>>

(* event = subscriber.getNextEvent() and the switch. *)
NextEvent ==
    /\ rpc = "events" /\ events # <<>>
    /\ events' = Tail(events)
    /\ CASE Head(events).type = "DATA" -> rpc' = "rows" /\ rows' = Head(events).rows
         [] Head(events).type \in {"CLOSED", "DISCONNECTED"} -> rpc' = "ended" /\ UNCHANGED rows
         [] OTHER -> UNCHANGED <<rpc, rows>>
    /\ UNCHANGED <<mainVars, sub, delivered, lost, hi, histoCounter, reports, sdkVars>>

(* Slip (ReportsExact): the histogram is printed, but not renewed. *)
RecordRowKept ==
    /\ rpc = "rows" /\ rows # <<>>
    /\ rows' = Tail(rows)
    /\ hi' = Append(hi, Head(rows))
    /\ IF histoCounter + 1 = ReportRows
         THEN histoCounter' = 0 /\ reports' = Append(reports, hi')
         ELSE histoCounter' = histoCounter + 1 /\ UNCHANGED reports
    /\ UNCHANGED <<mainVars, subVars, rpc, sdkVars>>

(* A row of the DATA event; the histogram is renewed when it is full.      *)
RecordRow ==
    LET recorded == Append(hi, Head(rows))
    IN  /\ rpc = "rows" /\ rows # <<>>
        /\ rows' = Tail(rows)
        /\ IF histoCounter + 1 = ReportRows
             THEN histoCounter' = 0 /\ hi' = <<>> /\ reports' = Append(reports, recorded)
             ELSE histoCounter' = histoCounter + 1 /\ hi' = recorded /\ UNCHANGED reports
        /\ UNCHANGED <<mainVars, subVars, rpc, sdkVars>>

(* A latency beyond the histogram's ten seconds: recordValue() throws what *)
(* nobody catches, and the thread dies.                                    *)
RecordFails == /\ rpc = "rows" /\ rows # <<>>
               /\ rpc' = "ended"
               /\ UNCHANGED <<mainVars, subVars, rows, hi, histoCounter, reports, sdkVars>>

(* reader.hasNextRow() answers FALSE. *)
EndRows == /\ rpc = "rows" /\ rows = <<>>
           /\ rpc' = "events"
           /\ UNCHANGED <<mainVars, subVars, rows, hi, histoCounter, reports, sdkVars>>

MainStep == \/ Start \/ Spawn \/ ConnectPublisher \/ NextRound \/ WriteRow \/ EndRound
            \/ CommitRows \/ Throw \/ Finally

ReceiverStep == \/ Subscribe \/ SubscribeFails \/ NextEvent
                \/ RecordRow \/ RecordFails \/ EndRows

Next == MainStep \/ ReceiverStep \/ SdkStep

Spec == Init /\ [][Next]_vars

(* Both threads run on, and so does the SDK's publishing thread. *)
FairSpec == /\ Spec /\ WF_vars(MainStep) /\ WF_vars(ReceiverStep)
            /\ WF_vars(Send /\ UNCHANGED <<mainVars, subVars, recvVars>>)

-----------------------------------------------------------------------------
MainLabels == {"start", "spawn", "connect", "round", "row", "finally", "end"}
EventTypes == {"DATA", "SYNC_START", "SYNC_END", "DATA_LOST", "CLOSED", "DISCONNECTED"}

TypeOK == /\ pc \in MainLabels /\ count \in 0 .. Count /\ i \in 0 .. LoopRecs
          /\ value \in Nat
          /\ rpc \in {"new", "connect", "events", "rows", "ended"}
          /\ sub \in {"none", "on", "closed"}
          /\ delivered \in 0 .. Len(inserted)
          /\ events \in Seq([type : EventTypes, rows : Seq(Nat)])
          /\ rows \in Seq(Nat) /\ hi \in Seq(Nat) /\ histoCounter \in 0 .. ReportRows - 1
          /\ reports \in Seq(Seq(Nat)) /\ lost \in BOOLEAN
          /\ starts \in Nat /\ stops \in Nat /\ link \in {"none", "up", "lost"}
          /\ bufferSize = BufferSize /\ writer = <<>> /\ ~open
          /\ queue \in Seq(Nat) /\ Len(queue) <= BufferSize
          /\ inserted \in Seq(Nat) /\ committed \in BOOLEAN

(* A printed histogram holds exactly ReportRows latencies, over however    *)
(* many DATA events and lost rows they come; the counter is the            *)
(* histogram's (RTTClient.java:214-224).                                   *)
ReportsExact == /\ \A k \in DOMAIN reports : Len(reports[k]) = ReportRows
                /\ histoCounter = Len(hi)

(* Rows are measured in the order they were published, each once, and      *)
(* without a gap unless the engine reported lost data.                     *)
Recorded == FlattenSeq(reports) \o hi

SamplesInOrder ==
    \A k \in 1 .. Len(Recorded) - 1 :
        /\ Recorded[k] < Recorded[k + 1]
        /\ ~lost => Recorded[k + 1] = Recorded[k] + 1

(* The receiver and its errors are nothing to the publisher, which         *)
(* implements RowStream with rows sent singly: the commit finds all rows   *)
(* inserted, in order and each once.                                       *)
Stream == INSTANCE RowStream WITH Total <- Count * LoopRecs, most <- 1

ImplementsStream == Stream!Spec

(* Whatever ends doPublish(), main has matched its start() by one stop()   *)
(* (esp_sdk.h:222-223, RTTClient.java:136, :172).                          *)
StopsMatchStarts == pc = "end" => stops = starts

(* Both threads end, so that the process does: main waits for ever neither *)
(* on a full queue nor in commit() or stop(), and the receiver, wherever   *)
(* the stop finds it, gets to know (RTTClient.java:172, :202-240).         *)
Terminates == <>(pc = "end" /\ rpc = "ended")
=============================================================================

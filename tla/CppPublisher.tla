---------------------------- MODULE CppPublisher ----------------------------
(***************************************************************************)
(* dbag_publisher.cpp: loadData() publishes Rounds times NumRows rows, and *)
(* listen(), meant for a thread of its own, reads a stream and computes    *)
(* how old its rows are.  Both start and stop the one SDK of the process,  *)
(* and an error of either ends the process.                                *)
(*                                                                         *)
(* A row carries the nanoseconds of the clock, without its seconds, as key *)
(* and time stamp; the clock here has Second ticks per second.  The stream *)
(* listen() reads is taken to be the one loadData() fills.  A handle is an *)
(* SDK object that its user has to free.  In the code Rounds = 20,          *)
(* NumRows = 100000, Second = 10^9 and Every = 100000.                      *)
(***************************************************************************)
EXTENDS EspSdk, Integers, FiniteSets

CONSTANTS Rounds, NumRows, Second, Every,
          Options,    \* pairs of block and buffer size (struct Options)
          MaxClock    \* a bound of the model

ASSUME CppAssumption == /\ Rounds \in Nat \ {0} /\ NumRows \in Nat /\ Every \in Nat \ {0}
                        /\ Second \in Nat \ {0} /\ MaxClock \in Nat
                        /\ Options \subseteq Nat \X Nat

VARIABLES process,           \* "running", "exited" or "trapped"
          clock,
          live,              \* the handles not freed
          dangling,          \* a call was given a handle that is not alive
          lpc, lcount, n, inblock, blockSize, started,   \* loadData()
          hpc, event, rows, count, durations,            \* listen()
          sub, delivered, events   \* listen()'s subscriber: what it is past, its events

loadVars   == <<lpc, lcount, n, inblock, blockSize, started>>
listenVars == <<hpc, event, rows, count, durations>>
subVars    == <<sub, delivered, events>>
handleVars == <<live, dangling>>
vars == <<process, clock, handleVars, loadVars, listenVars, subVars, sdkVars>>

NoEvent  == [type |-> "none", rows |-> <<>>]
Data(s)  == [type |-> "DATA", rows |-> s]
Other(t) == [type |-> t, rows |-> <<>>]

(* tv_nsec *)
Nanos(time) == time % Second

(* The rows the project inserts: an insert fails if the key exists. *)
Stream == LET fresh(i) == \A j \in 1 .. i - 1 : inserted[j].key # inserted[i].key
              idx == {i \in DOMAIN inserted : fresh(i)}
          IN  [k \in 1 .. Cardinality(idx) |->
                 inserted[CHOOSE i \in idx : Cardinality({j \in idx : j <= i}) = k]]

Init == \E o \in Options :
    /\ SdkInit /\ bufferSize = o[2] /\ blockSize = o[1]
    /\ process = "running" /\ clock = 0 /\ live = {} /\ dangling = FALSE
    /\ lpc = "start" /\ lcount = Rounds /\ n = 0 /\ inblock = FALSE /\ started = 0
    /\ hpc = "start" /\ event = NoEvent /\ rows = <<>> /\ count = 0 /\ durations = {}
    /\ sub = "none" /\ delivered = 0 /\ events = <<>>

Use(handles) == dangling' = (dangling \/ ~(handles \subseteq live))

(* Steps of the two threads; the clock may go on between any two of them.  *)
Running     == process = "running" /\ UNCHANGED clock
Load(pc, q) == /\ Running /\ lpc = pc /\ lpc' = q
               /\ UNCHANGED <<process, listenVars, blockSize>>
Listen(pc, q) == /\ Running /\ hpc = pc /\ hpc' = q
                 /\ UNCHANGED <<process, loadVars>>

Tick == /\ process = "running" /\ clock < MaxClock /\ clock' = clock + 1
        /\ UNCHANGED <<process, handleVars, loadVars, listenVars, subVars, sdkVars>>

-----------------------------------------------------------------------------
(* loadData() *)

StartLoad == /\ Load("start", "connect")
             /\ live' = live \cup {"lError"}
             /\ StartSdk
             /\ UNCHANGED <<dangling, lcount, n, inblock, started, subVars>>

(* URI, credentials, project, stream, publisher and writers.  The options    *)
(* are freed once the publisher is created.                                *)
ConnectPublisher == /\ Load("connect", "round")
                    /\ live' = live \cup {"lUri", "lCreds"}
                    /\ Use({"lError"})
                    /\ Connect
                    /\ UNCHANGED <<lcount, n, inblock, started, subVars>>

(* while ( lcount-- ) *)
NextRound == /\ Load("round", "row") /\ lcount > 0
             /\ lcount' = lcount - 1 /\ n' = 0 /\ started' = clock
             /\ UNCHANGED <<inblock, handleVars, subVars, sdkVars>>

(* A row, in a transaction that is started once and never ended.           *)
WriteRow == /\ n < NumRows
            /\ Load("row", IF Buffered THEN "row" ELSE "publish")
            /\ Write([no |-> (Rounds - lcount - 1) * NumRows + n,
                      key |-> Nanos(clock), sent |-> clock], blockSize # 0 /\ ~inblock)
            /\ inblock' = (inblock \/ blockSize # 0)
            /\ n' = IF Buffered THEN n + 1 ELSE n
            /\ Use({"lError"})
            /\ UNCHANGED <<live, lcount, started, subVars>>

PublishRow == /\ Load("publish", "row")
              /\ Publish(FALSE)
              /\ n' = n + 1
              /\ Use({"lError"})
              /\ UNCHANGED <<live, lcount, inblock, started, subVars>>

(* Slip (SuccessMeansSent): the commit comes in the first round. *)
EndRoundFirst == /\ n = NumRows
                 /\ Load("row", "report")
                 /\ IF lcount = Rounds - 1 THEN Commit ELSE UNCHANGED sdkVars
                 /\ Use({"lError"})
                 /\ UNCHANGED <<live, lcount, n, inblock, started, subVars>>

(* Commit only at the last loop *)
EndRound == /\ n = NumRows
            /\ Load("row", "report")
            /\ IF lcount = 0 THEN Commit ELSE UNCHANGED sdkVars
            /\ Use({"lError"})
            /\ UNCHANGED <<live, lcount, n, inblock, started, subVars>>

(* The rate is a division by the round's milliseconds, and there may be none *)
(* in less than a tick.                                                    *)
Report == /\ Running /\ lpc = "report"
          /\ \/ clock = started /\ process' = "trapped" /\ UNCHANGED lpc
             \/ lpc' = "round" /\ UNCHANGED process
          /\ UNCHANGED <<lcount, n, inblock, blockSize, started, listenVars, subVars,
                         handleVars, sdkVars>>
(* The stop() that matches the first start() closes the subscriber too.    *)
StopAll == /\ StopSdk
           /\ IF stops' = starts /\ sub = "on"
                THEN sub' = "closed" /\ events' = Append(events, Other("CLOSED"))
                ELSE UNCHANGED <<sub, events>>
           /\ UNCHANGED delivered

(* Slip (UsedWhileAlive): loadData() stops the SDK for listen() as well. *)
StopLoadTwice == /\ Load("round", "done") /\ lcount = 0
                 /\ stops' = starts
                 /\ link' = IF link = "up" THEN "none" ELSE link
                 /\ Use({"lError"})
                 /\ UNCHANGED <<live, lcount, n, inblock, started, subVars,
                                starts, bufferSize, rowVars, committed>>

(* The error, the URI and the credentials are not freed. *)
StopLoad == /\ Load("round", "done") /\ lcount = 0
            /\ StopAll
            /\ Use({"lError"})
            /\ UNCHANGED <<live, lcount, n, inblock, started>>

-----------------------------------------------------------------------------
(* listen() *)

StartListen == /\ Listen("start", "open")
               /\ live' = live \cup {"gError"}
               /\ StartSdk
               /\ UNCHANGED <<dangling, event, rows, count, durations, subVars>>

OpenProject == /\ Listen("open", "project")
               /\ live' = live \cup {"gUri", "gCreds"}
               /\ Use({"gError"})
               /\ UNCHANGED <<event, rows, count, durations, subVars, sdkVars>>

GetProject == /\ Listen("project", "subscribe")
              /\ live' = live \ {"gUri", "gCreds"}
              /\ Use({"gError", "gUri", "gCreds"})
              /\ UNCHANGED <<event, rows, count, durations, subVars, sdkVars>>

(* Connect, subscribe; the stream's base data comes first if it keeps any. *)
Subscribe == /\ Listen("subscribe", "events")
             /\ Use({"gError"})
             /\ sub' = "on"
             /\ delivered' = Len(Stream)
             /\ \E base \in {<<>>, Stream} :
                   events' = <<Other("SYNC_START"), Data(base), Other("SYNC_END")>>
             /\ UNCHANGED <<live, event, rows, count, durations, sdkVars>>

Ending == {"CLOSED", "DISCONNECTED", "STREAM_EXIT"}

(* esp_subscriber_get_next_event(), and the switch: an event of any other   *)
(* type, DATA_LOST too, is only printed.                                   *)
NextEvent == /\ events # <<>>
             /\ Listen("events", IF Head(events).type = "DATA" THEN "rows" ELSE "free")
             /\ event' = Head(events) /\ events' = Tail(events)
             /\ rows' = Head(events).rows
             /\ live' = live \cup {"event"}
             /\ Use({"gError"})
             /\ UNCHANGED <<count, durations, sub, delivered, sdkVars>>

(* Slip (LatencyModuloSecond): another column is read. *)
DurationOther(row) == Nanos(clock) - row.no

Duration(row) == Nanos(clock) - row.key

(* What is printed every so many rows is the text "dur %ld " from the       *)
(* duration's offset on: outside of the text anything may happen.          *)
ReadRow == /\ Running /\ hpc = "rows" /\ rows # <<>>
           /\ durations' = durations \cup
                 {[duration |-> Duration(Head(rows)), elapsed |-> clock - Head(rows).sent]}
           /\ rows' = Tail(rows) /\ count' = count + 1
           /\ \/ UNCHANGED process
              \/ /\ count % Every = 0 /\ Duration(Head(rows)) # 0
                 /\ process' = "trapped"
           /\ Use({"gError", "event"})
           /\ UNCHANGED <<hpc, event, live, loadVars, subVars, sdkVars>>

EndRows == /\ rows = <<>> /\ Listen("rows", "free")
           /\ Use({"gError", "event"})
           /\ UNCHANGED <<live, event, rows, count, durations, subVars, sdkVars>>

FreeEvent == /\ Listen("free", IF event.type \in Ending THEN "stop" ELSE "events")
             /\ live' = live \ {"event"}
             /\ Use({"event", "gError"})
             /\ UNCHANGED <<event, rows, count, durations, subVars, sdkVars>>

StopListen == /\ Listen("stop", "end")
              /\ StopAll
              /\ live' = live \ {"gError"}
              /\ Use({"gError"})
              /\ UNCHANGED <<event, rows, count, durations>>

(* print_error_and_exit(): the process ends, whatever the other thread does *)
(* and whatever is queued.                                                 *)
Exit == /\ Running /\ process' = "exited"
        /\ UNCHANGED <<handleVars, loadVars, listenVars, subVars, sdkVars>>

(* Slip (ThreadsEnd): the result of a call is looked at only up to connect. *)
LoadFailsEarly == lpc \in {"start", "connect"} /\ Exit

(* Any call may fail, whether or not the link is lost: the last commit and *)
(* stop() too.                                                             *)
LoadFails == /\ \/ lpc \in {"start", "connect", "publish"}
                \/ lpc = "row" /\ (n < NumRows \/ lcount = 0)
                \/ lpc = "round" /\ lcount = 0
             /\ Exit

ListenFails == /\ hpc \in {"start", "open", "project", "subscribe", "events", "rows", "stop"}
               /\ Exit

-----------------------------------------------------------------------------
(* The SDK and the project. *)
ToListener(new, past) ==
    /\ Running /\ sub = "on"
    /\ events' = Append(events, new) /\ delivered' = past
    /\ UNCHANGED <<process, handleVars, loadVars, listenVars, sdkVars>>

Package  == /\ \E k \in delivered + 1 .. Len(Stream) :
                  ToListener(Data(SubSeq(Stream, delivered + 1, k)), k)
            /\ UNCHANGED sub
LoseData == /\ \E k \in delivered + 1 .. Len(Stream) : ToListener(Other("DATA_LOST"), k)
            /\ UNCHANGED sub
End      == /\ \E t \in {"DISCONNECTED", "STREAM_EXIT"} : ToListener(Other(t), delivered)
            /\ sub' = "closed"

SdkStep(step) == /\ Running /\ step
                 /\ UNCHANGED <<process, handleVars, loadVars, listenVars, subVars>>

LoadStep == \/ StartLoad \/ ConnectPublisher \/ NextRound \/ WriteRow \/ PublishRow
            \/ EndRound \/ Report \/ StopLoad

ListenStep == \/ StartListen \/ OpenProject \/ GetProject \/ Subscribe \/ NextEvent
              \/ ReadRow \/ EndRows \/ FreeEvent \/ StopListen

Next == \/ Tick \/ LoadStep \/ LoadFails \/ ListenStep \/ ListenFails
        \/ SdkStep(Send) \/ SdkStep(LoseLink) \/ Package \/ LoseData \/ End

Spec == Init /\ [][Next]_vars

(* Both threads run, and the SDK's publishing thread does.                 *)
FairSpec == Spec /\ WF_vars(LoadStep \/ LoadFails) /\ WF_vars(ListenStep)
                 /\ WF_vars(SdkStep(Send))

-----------------------------------------------------------------------------
Total == Rounds * NumRows

(* "Messages published successfully" (:249) comes after the commit, with    *)
(* every row sent to the project in the order written and none left in the *)
(* publisher, whichever round the threads, an error or a lost link hit.    *)
SuccessMeansSent ==
    lpc = "done" => /\ committed /\ queue = <<>> /\ writer = <<>>
                    /\ [j \in DOMAIN inserted |-> inserted[j].no]
                         = [j \in 1 .. Total |-> j - 1]

(* What a thread uses is alive: however the starts and stops of the two     *)
(* threads fall, the stop of one never shuts the SDK down under the other;  *)
(* no call is given a handle that has been freed or was not created; and    *)
(* an event is freed before the next one is asked for.                     *)
UsedWhileAlive ==
    /\ sub = "on" => starts > stops
    /\ hpc = "end" /\ lpc = "done" => stops = starts /\ link # "up" /\ sub # "on"
    /\ ~dangling
    /\ hpc \in {"events", "stop", "end"} => "event" \notin live

(* A latency that listen() computes is the true one up to whole seconds,    *)
(* and less than a second either way.                                      *)
LatencyModuloSecond ==
    \A m \in durations : /\ (m.elapsed - m.duration) % Second = 0
                         /\ - Second < m.duration /\ m.duration < Second

(* loadData() comes to an end, and listen() leaves its loop when its         *)
(* subscriber has come to an end.                                          *)
ThreadsEnd == /\ <>(lpc = "done" \/ process # "running")
              /\ hpc = "events" /\ sub = "closed" ~> hpc = "end" \/ process # "running"
=============================================================================

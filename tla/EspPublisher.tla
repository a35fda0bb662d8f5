---------------------------- MODULE EspPublisher ----------------------------
(***************************************************************************)
(* EspPublisher (esp_publisher.h) in DIRECT access mode, with any legal    *)
(* use of it: each of several threads has its own message writer, all      *)
(* share the publisher.  The SDK's internal publishing thread, the socket  *)
(* and the project behind it are part of the model.                        *)
(*                                                                         *)
(*   EspMessageWriter --> queue --> publishing thread --> wire --> project *)
(*                  \______ publish(), without a buffer ____/              *)
(*                                                                         *)
(* opt: mode is the ESP_BLOCKING_MODE_T, size the buffer size (0: none),   *)
(* async whether publish() waits for the project's acknowledgement, raw    *)
(* whether the threads have raw message writers, which take rows and       *)
(* blocks that are formatted already.                                      *)
(***************************************************************************)
EXTENDS EspMessageWriter, FiniteSets

CONSTANTS Threads,
          Options,   \* the options a publisher is created with
          UsedOps,   \* the operations the threads use
          Buffers,   \* preformatted rows and blocks for raw writers
          SocketSize,  \* units the socket holds before a write waits
          MaxRows, MaxBlocks   \* rows, blocks of all threads (bounds of the model)

ASSUME OptionsAssumption ==
    \A o \in Options : /\ o.mode \in {"no", "explicit", "auto"}
                       /\ o.size \in Nat /\ o.async \in BOOLEAN
                       /\ o.size > 0 => o.async
                       /\ o.raw => o.size = 0 \/ o.mode = "explicit"

Cells == Keys \cup Values \cup {Null, Shine}

ASSUME InputsAssumption ==
    /\ UsedOps \subseteq Ops /\ SocketSize \in Nat \ {0}
    /\ \A b \in Buffers : /\ b.kind \in {"row", "transaction", "envelope"}
                          /\ b.rows \in Seq([op : Ops, cells : Seq(Cells)])
                          /\ b.kind = "row" => Len(b.rows) = 1

VARIABLES opt,
          link,     \* "created", "connected", "closing", "closed" or "lost"
          writer,   \* of each thread
          blocks,   \* transactions the thread has started
          completed,  \* rows the thread has completed
          pc,       \* of each thread: "free", or the call it waits in
          ahead,    \* of each thread: units on their way that its call waits for
          queue,    \* units for the publishing thread
          wire,     \* units written to the socket
          window,   \* of the project
          log,      \* rows the project has processed, and whether they passed
          flushed,  \* rows of each thread publish() or commit() returned for
          acked     \* those of them it acknowledged

vars == <<opt, link, writer, blocks, completed, pc, ahead, queue, wire, window, log, flushed,
          acked>>
sdk  == <<queue, wire, window, log>>

Buffered == opt.size > 0
(* Start and end of blocks are ignored by a publishing thread that makes   *)
(* blocks itself, or none.                                                 *)
Blocking == ~Buffered \/ opt.mode = "explicit"

RowsOf(units) == FlattenSeq([i \in DOMAIN units |-> units[i].rows])
By(t, rows)   == FlattenSeq([i \in DOMAIN rows |->
                               IF rows[i].by = t THEN <<rows[i]>> ELSE <<>>])

(* The rows of t that are not in its writer any more, those still there,   *)
(* and all it has completed, in order.                                     *)
LogRows    == [i \in DOMAIN log |-> log[i].row]
Handed     == LogRows \o RowsOf(wire) \o RowsOf(queue)
Drafts(t)  == RowsOf(writer[t].units) \o writer[t].rows
Written(t) == By(t, Handed) \o Drafts(t)

Init == /\ opt \in Options
        /\ link = "created"
        /\ writer = [t \in Threads |-> NewWriter]
        /\ blocks = [t \in Threads |-> 0]
        /\ completed = [t \in Threads |-> 0]
        /\ pc = [t \in Threads |-> "free"]
        /\ ahead = [t \in Threads |-> 0]
        /\ queue = <<>> /\ wire = <<>> /\ log = <<>>
        /\ window = <<>>
        /\ flushed = [t \in Threads |-> 0]
        /\ acked = [t \in Threads |-> 0]

Rows == SumFunction(completed)

(* A thread calls a function that needs the connection. *)
Call(t) == link = "connected" /\ pc[t] = "free"

Connect == /\ link = "created" /\ link' = "connected"
           /\ UNCHANGED <<opt, writer, blocks, completed, pc, ahead, sdk, flushed, acked>>

-----------------------------------------------------------------------------
(* Formatting rows. *)
Format(t, w) == /\ writer' = [writer EXCEPT ![t] = w]
                /\ UNCHANGED <<opt, link, ahead, sdk, flushed, acked>>

Start_Row(t) == /\ Call(t) /\ ~opt.raw /\ ~InRow(writer[t])
                /\ Rows < MaxRows
                /\ Format(t, StartRow(writer[t]))
                /\ UNCHANGED <<blocks, completed, pc>>

Set_Operation(t) == /\ Call(t) /\ CanSetOperation(writer[t])
                    /\ \E op \in UsedOps \ {writer[t].op} :
                          Format(t, SetOperation(writer[t], op))
                    /\ UNCHANGED <<blocks, completed, pc>>

Set_Column(t) == /\ Call(t) /\ CanSetColumn(writer[t])
                 /\ \E value \in Column(Len(writer[t].cells) + 1, writer[t].op) :
                       Format(t, SetColumn(writer[t], value))
                 /\ UNCHANGED <<blocks, completed, pc>>

(* A completed row or block goes to the publishing thread, if there is one: *)
(* the call that completes it waits until there is room in the queue.       *)
Complete(t, w) ==
    /\ Format(t, w)
    /\ pc' = [pc EXCEPT ![t] = IF Buffered /\ w.units # <<>> THEN "queue" ELSE "free"]

(* The next row of t but j, and the transaction it is in, if any. *)
Stamped(t, row, j, kind, block) ==
    [op |-> row.op, cells |-> row.cells, by |-> t, n |-> completed[t] + j,
     block |-> IF kind = "transaction" THEN block ELSE 0]

End_Row(t) ==
    /\ Call(t) /\ CanEndRow(writer[t])
    /\ Complete(t, EndRow(writer[t],
                          Stamped(t, Row(writer[t]), 1, writer[t].block, blocks[t])))
    /\ completed' = [completed EXCEPT ![t] = @ + 1]
    /\ UNCHANGED blocks

(* Blocks without rows may pass through a queue without end. *)
Uncounted(b) == Buffered /\ b.rows = <<>>

(* A row, or where no block is active a block, that is formatted already.  *)
Add_Buffer(t) == \E b \in Buffers :
    /\ Call(t) /\ opt.raw /\ Rows + Len(b.rows) <= MaxRows
    /\ completed' = [completed EXCEPT ![t] = @ + Len(b.rows)]
    /\ \/ /\ b.kind = "row"
          /\ Complete(t, EndRow(writer[t],
                                Stamped(t, b.rows[1], 1, writer[t].block, blocks[t])))
          /\ UNCHANGED blocks
       \/ /\ b.kind # "row" /\ writer[t].block = "none"
          /\ Uncounted(b) \/ SumFunction(blocks) < MaxBlocks
          /\ blocks' = [blocks EXCEPT ![t] = IF Uncounted(b) THEN @ ELSE @ + 1]
          /\ LET rows == [j \in DOMAIN b.rows |->
                            Stamped(t, b.rows[j], j, b.kind, blocks[t] + 1)]
             IN  Complete(t, [writer[t] EXCEPT !.units = Append(@, Unit(b.kind, rows))])

Start_Block(t, kind) ==
    /\ Call(t) /\ Blocking /\ CanStartBlock(writer[t])
    /\ Rows < MaxRows /\ SumFunction(blocks) < MaxBlocks
    /\ blocks' = [blocks EXCEPT ![t] = @ + 1]
    /\ Format(t, StartBlock(writer[t], kind))
    /\ UNCHANGED <<completed, pc>>

End_Block(t) == /\ Call(t) /\ CanEndBlock(writer[t])
                /\ Complete(t, EndBlock(writer[t]))
                /\ UNCHANGED <<blocks, completed>>

-----------------------------------------------------------------------------
(* Calls that wait. *)
Enter(t, call, units) ==
    /\ Call(t) /\ ~InRow(writer[t]) /\ writer[t].block = "none"
    /\ pc' = [pc EXCEPT ![t] = call]
    /\ ahead' = [ahead EXCEPT ![t] = units]
    /\ UNCHANGED <<opt, writer, blocks, completed, sdk, flushed, acked>>

Return(t) == /\ pc' = [pc EXCEPT ![t] = "free"]
             /\ ahead' = [ahead EXCEPT ![t] = 0]
             /\ UNCHANGED <<opt, blocks, completed, wire, window, log>>

Publish(t) == /\ Enter(t, "publish", IF Buffered THEN Len(wire) + Len(queue) ELSE 0)
              /\ UNCHANGED link
Commit(t)  == Enter(t, "commit", Len(wire) + Len(queue)) /\ UNCHANGED link
Close(t)   == Enter(t, "close", 0) /\ link' = "closing"

Open == link \in {"connected", "closing"}

(* There is room for what the thread has completed. *)
Enqueue(t) == /\ Open /\ pc[t] = "queue" /\ Return(t)
              /\ Len(queue) + Len(writer[t].units) <= opt.size
              /\ queue' = queue \o writer[t].units
              /\ writer' = [writer EXCEPT ![t] = Sent(@)]
              /\ UNCHANGED <<link, flushed, acked>>

(* Slip (PromisesKept): synchronous publishing returns with the write. *)
PublishReturnsEarly(t) ==
    /\ Open /\ pc[t] = "publish" /\ Return(t)
    /\ IF Buffered THEN ahead[t] <= Len(wire) ELSE writer[t].units = <<>>
    /\ flushed' = [flushed EXCEPT ![t] = completed[t]]
    /\ acked' = IF opt.async THEN acked ELSE [acked EXCEPT ![t] = completed[t]]
    /\ UNCHANGED <<link, writer, queue>>

(* Without a queue the caller writes to the socket; when synchronous, each  *)
(* message waits for the acknowledgement of the one before.                 *)
WriteUnit(t) == /\ Open /\ pc[t] = "publish" /\ ~Buffered
                /\ writer[t].units # <<>>
                /\ IF opt.async THEN Len(wire) < SocketSize ELSE wire = <<>>
                /\ wire' = Append(wire, Head(writer[t].units))
                /\ writer' = [writer EXCEPT ![t].units = Tail(@)]
                /\ UNCHANGED <<opt, link, blocks, completed, pc, ahead, queue, window, log,
                               flushed, acked>>

(* Slip (CallsReturn): publish() waits for an empty queue, whoever fills it. *)
PublishReturnsEmpty(t) ==
    /\ Open /\ pc[t] = "publish" /\ Return(t)
    /\ IF Buffered THEN queue = <<>>
       ELSE /\ writer[t].units = <<>>
            /\ opt.async \/ By(t, RowsOf(wire)) = <<>>
    /\ flushed' = [flushed EXCEPT ![t] = completed[t]]
    /\ acked' = IF opt.async THEN acked ELSE [acked EXCEPT ![t] = completed[t]]
    /\ UNCHANGED <<link, writer, queue>>

(* With a queue, what was in it at the time of the call has been sent.      *)
PublishReturns(t) ==
    /\ Open /\ pc[t] = "publish" /\ Return(t)
    /\ IF Buffered THEN ahead[t] <= Len(wire)
       ELSE /\ writer[t].units = <<>>
            /\ opt.async \/ By(t, RowsOf(wire)) = <<>>
    /\ flushed' = [flushed EXCEPT ![t] = completed[t]]
    /\ acked' = IF opt.async THEN acked ELSE [acked EXCEPT ![t] = completed[t]]
    /\ UNCHANGED <<link, writer, queue>>

(* The project has processed what was queued at the time of the call;       *)
(* nothing is said of rows that have not been published.                    *)
CommitReturns(t) ==
    /\ Open /\ pc[t] = "commit" /\ Return(t)
    /\ ahead[t] = 0
    /\ LET handed == Len(By(t, Handed))
       IN  /\ flushed' = [flushed EXCEPT ![t] = handed]
           /\ acked' = [acked EXCEPT ![t] = handed]
    /\ UNCHANGED <<link, writer, queue>>

CloseReturns(t) == /\ link = "closing" /\ pc[t] = "close" /\ Return(t)
                   /\ queue = <<>>
                   /\ link' = "closed"
                   /\ UNCHANGED <<writer, queue, flushed, acked>>

(* Calls on a publisher that is closed or not connected any more fail. *)
CallFails(t) == /\ link \in {"closed", "lost"} /\ pc[t] # "free" /\ Return(t)
                /\ UNCHANGED <<link, writer, queue, flushed, acked>>

-----------------------------------------------------------------------------
(* The publishing thread, the socket and the project. *)

(* Slip (InOrderOnce): a unit is sent and left in the queue. *)
SendKept ==
    /\ queue # <<>> /\ Open /\ Len(wire) < SocketSize
    /\ wire' = Append(wire, Head(queue)) /\ UNCHANGED queue
    /\ UNCHANGED <<opt, link, writer, blocks, completed, pc, ahead, window, log, flushed, acked>>

(* AUTO_BLOCKING makes one transaction of all that is queued. *)
Send == /\ queue # <<>> /\ Open /\ Len(wire) < SocketSize
        /\ UNCHANGED <<opt, link, writer, blocks, completed, pc, window, log, flushed, acked>>
        /\ IF opt.mode = "auto"
             THEN /\ queue' = <<>>
                  /\ wire' = Append(wire, Unit("transaction", RowsOf(queue)))
                  /\ ahead' = [t \in Threads |-> IF ahead[t] > Len(wire') THEN Len(wire')
                                                 ELSE ahead[t]]
             ELSE /\ queue' = Tail(queue)
                  /\ wire' = Append(wire, Head(queue))
                  /\ UNCHANGED ahead

(* The project processes a message. *)
Process ==
    /\ wire # <<>> /\ wire' = Tail(wire)
    /\ ahead' = [t \in Threads |-> IF ahead[t] > 0 THEN ahead[t] - 1 ELSE 0]
    /\ UNCHANGED <<opt, link, writer, blocks, completed, pc, queue, flushed, acked>>
    /\ LET u       == Head(wire)
           passing == Passing(window, u)
       IN  /\ window' = Processed(window, u)
           /\ log' = log \o [i \in DOMAIN u.rows |->
                               [row |-> u.rows[i], ok |-> i \in passing]]

(* The connection breaks: what is in the socket may be lost, from some point. *)
LoseLink == /\ Open
            /\ link' = "lost"
            /\ wire' \in Prefixes(wire)
            /\ UNCHANGED <<opt, writer, blocks, completed, pc, ahead, queue, window, log,
                           flushed, acked>>

ThreadStep(t) == \/ Start_Row(t) \/ Set_Operation(t) \/ Set_Column(t) \/ End_Row(t)
                 \/ Add_Buffer(t)
                 \/ \E kind \in {"transaction", "envelope"} : Start_Block(t, kind)
                 \/ End_Block(t) \/ Publish(t) \/ Commit(t) \/ Close(t)

Finish(t) == Enqueue(t) \/ WriteUnit(t) \/ PublishReturns(t)
                 \/ CommitReturns(t) \/ CloseReturns(t) \/ CallFails(t)

Next == \/ Connect \/ Send \/ Process \/ LoseLink
        \/ \E t \in Threads : ThreadStep(t) \/ Finish(t)

Spec == Init /\ [][Next]_vars

(* The SDK's thread, the project and a call in progress go on. *)
Fairness == /\ WF_vars(Send) /\ WF_vars(Process)
            /\ \A t \in Threads : WF_vars(Finish(t))

FairSpec == Spec /\ Fairness

-----------------------------------------------------------------------------
(* Every row a thread has completed is in exactly one place between its     *)
(* writer and the project, and rows of a thread stay in order: its rows are *)
(* 1, 2, 3, ... from the project's end to the writer's.  A connection that  *)
(* breaks leaves the project with a prefix of them.                         *)
InOrder(rows) == \A i \in DOMAIN rows : rows[i].n = i

InOrderOnce ==
    \A t \in Threads : /\ InOrder(By(t, LogRows))
                       /\ link # "lost" => /\ InOrder(Written(t))
                                           /\ Len(Written(t)) = completed[t]

(* What publish() and commit() promise on return: all the thread has        *)
(* published is out of the publisher, whatever other threads queue; and a  *)
(* row that commit() or a synchronous publish() answered for has reached    *)
(* the project, which a connection lost later does not undo.               *)
PromisesKept ==
    \A t \in Threads :
        /\ link # "lost" => flushed[t] <= Len(By(t, LogRows \o RowsOf(wire)))
        /\ acked[t] <= Len(By(t, LogRows))

(* The rows of a transaction pass together or are discarded together, as    *)
(* long as the publisher does not ignore the blocks of its threads.         *)
AllOrNothing ==
    Blocking =>
        \A i, j \in DOMAIN log :
            (/\ log[i].row.by = log[j].row.by
             /\ log[i].row.block = log[j].row.block
             /\ log[i].row.block # 0) => log[i].ok = log[j].ok

(* A call that waits to put something in the queue, or in the socket, waits *)
(* for ever only if others get in between again and again.                 *)
Overtaken(t) == \E call \in {"queue", "publish"} :
                   /\ <>[](pc[t] = call)
                   /\ \E s \in Threads \ {t} : []<>(pc[s] = call) /\ []<>(pc[s] # call)

(* A call that waits for the queue to be sent or processed returns, whatever *)
(* others queue in the meantime; no call waits for ever if it is not        *)
(* overtaken for ever; and once the publisher is closed (which is for good), *)
(* all that was queued gets to the project.                                *)
CallsReturn == /\ \A t \in Threads : /\ []<>(Buffered => pc[t] \in {"free", "queue"})
                                     /\ []<>(pc[t] = "free") \/ Overtaken(t)
               /\ []<>(link = "closed" => queue = <<>> /\ wire = <<>>)
=============================================================================

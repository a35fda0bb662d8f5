---------------------------- MODULE DbagPublisher ----------------------------
(***************************************************************************)
(* DbagPublisher.java: one thread inserts LCount times NumRows numbered     *)
(* rows, in transactions of blockSize rows if that is positive, commits at *)
(* the end of the last round and stops the SDK.  Any exception ends in     *)
(* main's finally clause.                                                  *)
(*                                                                         *)
(* A row is its long value.  NumRows and LCount are 100000 and 20 in the   *)
(* code; Args is a set of pairs of a block size and a buffer size.         *)
(***************************************************************************)
EXTENDS EspSdk

CONSTANTS NumRows, LCount, Args

ASSUME ArgsAssumption == /\ NumRows \in Nat \ {0} /\ LCount \in Nat \ {0}
                         /\ Args \subseteq Nat \X Nat

VARIABLES pc,            \* what the thread does next
          blockSize,
          lcount, i,     \* rounds left, row of the round
          value,         \* long_value, the next row
          inblock

pubVars == <<pc, blockSize, lcount, i, value, inblock>>
vars == <<pc, blockSize, lcount, i, value, inblock, starts, stops, link,
          bufferSize, writer, open, queue, inserted, committed>>

Init == /\ SdkInit
        /\ \E args \in Args : blockSize = args[1] /\ bufferSize = args[2]
        /\ pc = "start" /\ lcount = LCount /\ i = 0 /\ value = 0 /\ inblock = FALSE

GoTo(from, to) == pc = from /\ pc' = to

-----------------------------------------------------------------------------
(* main: s_sdk.start() *)
Start == /\ GoTo("start", "connect") /\ StartSdk
         /\ UNCHANGED <<blockSize, lcount, i, value, inblock>>

(* publish(), up to the loop: the project, the publisher and its writer.   *)
ConnectPublisher == /\ GoTo("connect", "round") /\ Connect
                    /\ UNCHANGED <<blockSize, lcount, i, value, inblock>>

(* Slip (BlockFlag): inblock is a variable of the round. *)
NextRoundUnblocked == /\ pc = "round" /\ lcount > 0
                      /\ pc' = "row" /\ lcount' = lcount - 1 /\ i' = 0
                      /\ inblock' = FALSE
                      /\ UNCHANGED <<blockSize, value, sdkVars>>

(* while (lcount-- != 0) *)
NextRound == /\ pc = "round" /\ lcount > 0
             /\ pc' = "row" /\ lcount' = lcount - 1 /\ i' = 0
             /\ UNCHANGED <<blockSize, value, inblock, sdkVars>>

(* The loop's body, up to endRow(). *)
WriteRow == /\ pc = "row" /\ i < NumRows
            /\ Write(value, blockSize > 0 /\ ~inblock)
            /\ inblock' = (blockSize > 0)
            /\ value' = value + 1
            /\ pc' = "end row"
            /\ UNCHANGED <<blockSize, lcount, i>>

(* Slip (CommittedRows): the block ends one row late. *)
EndsBlockLate == blockSize > 0 /\ inblock /\ i % blockSize = 1 % blockSize

EndsBlock == blockSize > 0 /\ inblock /\ i % blockSize = 0

(* The rest of the body: endBlock() and, unbuffered, publish().            *)
EndRow == /\ GoTo("end row", "row")
          /\ i' = i + 1
          /\ inblock' = (inblock /\ ~EndsBlock)
          /\ IF ~Buffered /\ (EndsBlock \/ blockSize = 0)
               THEN Publish(EndsBlock)
               ELSE UNCHANGED sdkVars
          /\ UNCHANGED <<blockSize, lcount, value>>

(* Slip (ImplementsStream): every round commits. *)
EndRoundCommitted == /\ pc = "row" /\ i = NumRows
                     /\ pc' = "report" /\ Commit
                     /\ UNCHANGED <<blockSize, lcount, i, value, inblock>>

(* The round's end: the last one commits. *)
EndRound == /\ pc = "row" /\ i = NumRows
            /\ pc' = "report"
            /\ IF lcount = 0 THEN Commit ELSE UNCHANGED sdkVars
            /\ UNCHANGED <<blockSize, lcount, i, value, inblock>>

(* numRows / millis *)
Report == /\ GoTo("report", "round")
          /\ UNCHANGED <<blockSize, lcount, i, value, inblock, sdkVars>>

(* The loop is over: publish() stops the SDK. *)
StopPublisher == /\ lcount = 0 /\ GoTo("round", "finally") /\ StopSdk
                 /\ UNCHANGED <<blockSize, lcount, i, value, inblock>>

(* Slip (Terminates): a lost connection is set up again and the step retried. *)
ThrowReconnect == /\ link = "lost" /\ pc \in {"row", "end row"}
                  /\ link' = "up"
                  /\ UNCHANGED <<pubVars, starts, stops, bufferSize, rowVars, committed>>

(* An exception leaves publish(): it cannot connect, the connection is     *)
(* lost, or the round took less than a millisecond.                        *)
Throw == /\ \/ pc = "connect"
            \/ link = "lost" /\ pc \in {"row", "end row"}
            \/ pc = "report"
         /\ pc' = "finally"
         /\ UNCHANGED <<blockSize, lcount, i, value, inblock, sdkVars>>

(* Slip (DrainedAtEnd): no finally clause. *)
FinallyMissing == GoTo("finally", "end")
                  /\ UNCHANGED <<blockSize, lcount, i, value, inblock, sdkVars>>

(* main's finally clause: s_sdk.stop() *)
Finally == /\ GoTo("finally", "end") /\ StopSdk
           /\ UNCHANGED <<blockSize, lcount, i, value, inblock>>

PublisherStep == \/ Start \/ ConnectPublisher \/ NextRound \/ WriteRow \/ EndRow
                 \/ EndRound \/ Report \/ StopPublisher \/ Throw \/ Finally

SdkStep == (Send \/ LoseLink) /\ UNCHANGED pubVars

Ended == pc = "end" /\ UNCHANGED vars

Next == PublisherStep \/ SdkStep \/ Ended

Spec == Init /\ [][Next]_vars

(* The thread runs on, and so does the SDK's publishing thread. *)
FairSpec == /\ Spec /\ WF_vars(PublisherStep)
            /\ WF_vars(Send /\ UNCHANGED pubVars)

-----------------------------------------------------------------------------
Labels == {"start", "connect", "round", "row", "end row", "report", "finally", "end"}

TypeOK == /\ pc \in Labels /\ blockSize \in Nat /\ bufferSize \in Nat
          /\ lcount \in 0 .. LCount /\ i \in 0 .. NumRows
          /\ pc = "end row" => i < NumRows
          /\ value \in Nat /\ inblock \in BOOLEAN
          /\ starts \in Nat /\ stops \in Nat /\ link \in {"none", "up", "lost"}
          /\ writer \in Seq(Nat) /\ queue \in Seq(Nat) /\ inserted \in Seq(Nat)
          /\ Len(queue) <= bufferSize
          /\ open \in BOOLEAN /\ committed \in BOOLEAN

(* inblock, which outlives a round as the open transaction does, tells     *)
(* whether the writer is in a block: none is started inside another one    *)
(* and none is ended that was not started (DbagPublisher.java:75-101).     *)
BlockFlag == ~Buffered => (inblock <=> open)

(* What the commit leaves out: the rows after the last one of a round      *)
(* whose number is a multiple of the block size (DbagPublisher.java:97).   *)
Leftover == IF Buffered \/ blockSize = 0 THEN 0 ELSE (NumRows - 1) % blockSize

CommittedRows == committed => Len(inserted) = NumRows * LCount - Leftover

(* When main is over, no row waits in the queue of a working connection,   *)
(* also if an exception ended publish() (DbagPublisher.java:136-147).      *)
DrainedAtEnd == pc = "end" /\ link # "lost" => queue = <<>>

(***************************************************************************)
(* The publisher implements RowStream: rows arrive in order and once, in    *)
(* transactions of at most blockSize rows, and none after the commit.      *)
(***************************************************************************)
Stream == INSTANCE RowStream WITH
              Total <- NumRows * LCount,
              most <- IF Buffered \/ blockSize = 0 THEN 1 ELSE blockSize

ImplementsStream == Stream!Spec

(* publish() ends, with or without an exception, and so does main: nobody  *)
(* waits for ever on a full queue, in commit() or in stop().               *)
Terminates == <>(pc = "end")

-----------------------------------------------------------------------------
(* esp_sdk.h:222-223: "Multiple start calls may be made, but they must be  *)
(* matched by the same number of stop calls."                              *)
StopsMatchStarts == pc = "end" => stops = starts

(* esp_publisher.h:109-134: data is blocked with start_transaction() and   *)
(* end_block(), then published.  No transaction is open at the commit.     *)
NothingLeftOpen == committed => ~open /\ writer = <<>>
=============================================================================

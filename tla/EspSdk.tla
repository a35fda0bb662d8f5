------------------------------- MODULE EspSdk -------------------------------
(***************************************************************************)
(* The part of the SAP ESP SDK a publisher uses: the SDK's life cycle, a   *)
(* message writer, and the two ways its rows reach the project.  The SDK   *)
(* comes as binaries with headers (dbgpub/include/sdk); this module is the *)
(* contract that its callers rely on.                                      *)
(*                                                                         *)
(*  - Unbuffered (buffer size 0, the default): rows stay in the writer     *)
(*    until publish() has put all of them on the wire.                     *)
(*  - Buffered: each completed row is queued, the queue holds bufferSize   *)
(*    rows, and a thread of the SDK sends them; calls that start and end   *)
(*    blocks are ignored (NO_BLOCKING).  commit(), and the stop() that     *)
(*    matches the first start(), wait until the queue has been sent.       *)
(*  - Once the connection is lost, a call that needs it throws.            *)
(***************************************************************************)
EXTENDS Naturals, Sequences

VARIABLES starts, stops,   \* calls of start() and stop()
          link,            \* the connection: "none", "up" or "lost"
          bufferSize,      \* of the publisher
          writer,          \* rows written and not published
          open,            \* the writer is in a block
          queue,           \* rows queued for the publishing thread
          inserted,        \* rows the project has got, in order
          committed

sdkVars == <<starts, stops, link, bufferSize, writer, open, queue, inserted, committed>>
rowVars == <<writer, open, queue, inserted>>

Buffered == bufferSize > 0

SdkInit == /\ starts = 0 /\ stops = 0 /\ link = "none"
           /\ writer = <<>> /\ open = FALSE /\ queue = <<>>
           /\ inserted = <<>> /\ committed = FALSE

StartSdk == starts' = starts + 1
            /\ UNCHANGED <<stops, link, bufferSize, rowVars, committed>>

Connect == /\ link = "none"
           /\ link' = "up"
           /\ UNCHANGED <<starts, stops, bufferSize, rowVars, committed>>

(* A row is completed, first in a new transaction if starts_it. *)
Write(row, starts_it) ==
    /\ IF Buffered
         THEN /\ link = "up" /\ Len(queue) < bufferSize
              /\ queue' = Append(queue, row)
              /\ UNCHANGED <<writer, open>>
         ELSE /\ writer' = Append(writer, row)
              /\ open' = (open \/ starts_it)
              /\ UNCHANGED queue
    /\ UNCHANGED <<starts, stops, link, bufferSize, inserted, committed>>

(* What the writer holds goes out; it is in a block no more if ends_it. *)
Publish(ends_it) ==
    /\ link = "up"
    /\ inserted' = inserted \o writer
    /\ writer' = <<>>
    /\ open' = (open /\ ~ends_it)
    /\ UNCHANGED <<starts, stops, link, bufferSize, queue, committed>>

(* The publishing thread sends a row. *)
Send == /\ link = "up" /\ queue # <<>>
        /\ inserted' = Append(inserted, Head(queue))
        /\ queue' = Tail(queue)
        /\ UNCHANGED <<starts, stops, link, bufferSize, writer, open, committed>>

Commit == /\ link = "up" /\ queue = <<>>
          /\ committed' = TRUE
          /\ UNCHANGED <<starts, stops, link, bufferSize, rowVars>>

(* The stop() that matches the first start() closes everything. *)
StopSdk == /\ stops' = stops + 1
           /\ IF stops' = starts
                THEN /\ link = "up" => queue = <<>>
                     /\ link' = IF link = "up" THEN "none" ELSE link
                ELSE UNCHANGED link
           /\ UNCHANGED <<starts, bufferSize, rowVars, committed>>

LoseLink == /\ link = "up"
            /\ link' = "lost"
            /\ UNCHANGED <<starts, stops, bufferSize, rowVars, committed>>
=============================================================================

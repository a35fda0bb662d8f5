-------------------------- MODULE EspMessageWriter --------------------------
(***************************************************************************)
(* EspMessageWriter and its EspRelativeRowWriter (esp_publisher.h), as a   *)
(* record and operators on it: a row is started, gets an operation and the *)
(* value of every column in order, and is ended; rows may be collected in  *)
(* a block.  A writer is not thread safe: each belongs to one thread.      *)
(*                                                                         *)
(* A unit is what is sent as one message: a single row or a block.         *)
(***************************************************************************)
EXTENDS EspWindow

(* What a column can be set to: shinethrough needs a row to shine through. *)
Column(j, op) == IF j = 1 THEN Keys
                 ELSE Values \cup {Null} \cup (IF op \in {"UPDATE", "UPSERT"} THEN {Shine} ELSE {})

Unit(kind, rows) == [kind |-> kind, rows |-> rows]

(* "none" is the operation of a writer whose row is not started. *)
NewWriter == [op |-> "none", cells |-> <<>>, block |-> "none", rows |-> <<>>, units |-> <<>>]

InRow(w) == w.op # "none"

StartRow(w) == [w EXCEPT !.op = "INSERT", !.cells = <<>>]

CanSetOperation(w) == InRow(w) /\ w.cells = <<>>
SetOperation(w, op) == [w EXCEPT !.op = op]

CanSetColumn(w) == InRow(w) /\ Len(w.cells) < NumColumns
SetColumn(w, value) == [w EXCEPT !.cells = Append(@, value)]

(* The row is complete; in a block it joins the block. *)
CanEndRow(w) == InRow(w) /\ Len(w.cells) = NumColumns
Row(w) == [op |-> w.op, cells |-> w.cells]
EndRow(w, row) ==
    LET ended == [w EXCEPT !.op = "none", !.cells = <<>>]
    IN  IF w.block = "none"
          THEN [ended EXCEPT !.units = Append(@, Unit("row", <<row>>))]
          ELSE [ended EXCEPT !.rows = Append(@, row)]

CanStartBlock(w) == ~InRow(w) /\ w.block = "none"
StartBlock(w, kind) == [w EXCEPT !.block = kind]

CanEndBlock(w) == ~InRow(w) /\ w.block # "none"
EndBlock(w) ==
    [w EXCEPT !.block = "none", !.rows = <<>>,
              !.units = IF w.rows = <<>> THEN @ ELSE Append(@, Unit(w.block, w.rows))]

Sent(w) == [w EXCEPT !.units = <<>>]
=============================================================================

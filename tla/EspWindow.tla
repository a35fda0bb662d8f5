----------------------------- MODULE EspWindow -----------------------------
(***************************************************************************)
(* A window of an ESP project: what the operations of esp_stream.h and the *)
(* blocks of esp_publisher.h make of it.  A window maps each key to the    *)
(* cells of its row; the first cell of a row is its key.  In a published   *)
(* row a cell may be Shine (shinethrough): the column keeps its value.     *)
(***************************************************************************)
EXTENDS Naturals, Sequences, SequencesExt

CONSTANTS Null, Shine,   \* the null value, the shinethrough mark
          NumColumns, Keys, Values   \* the schema: a key column, the others

ASSUME SchemaAssumption ==
    NumColumns \in Nat \ {0} /\ Shine \notin Keys \cup Values \cup {Null}

Ops == {"NOOP", "INSERT", "UPDATE", "DELETE", "UPSERT", "SAFEDELETE"}

Key(row)  == row.cells[1]
Has(w, row) == Key(row) \in DOMAIN w

(* The operation cannot be carried out: the row is rejected. *)
Fails(w, row) == \/ row.op = "INSERT" /\ Has(w, row)
                 \/ row.op \in {"UPDATE", "DELETE"} /\ ~Has(w, row)

(* The cells of row over those the window has. *)
Merged(w, row) ==
    [j \in DOMAIN row.cells |->
        IF row.cells[j] # Shine THEN row.cells[j]
        ELSE IF Has(w, row) THEN w[Key(row)][j] ELSE Null]

Put(w, row) == [k \in DOMAIN w \cup {Key(row)} |->
                   IF k = Key(row) THEN Merged(w, row) ELSE w[k]]

Without(w, row) == [k \in DOMAIN w \ {Key(row)} |-> w[k]]

(* ESP_OPERATION_T: a row processed on its own. *)
Apply(w, row) ==
    IF Fails(w, row) \/ row.op = "NOOP" THEN w
    ELSE IF row.op \in {"DELETE", "SAFEDELETE"} THEN Without(w, row)
    ELSE Put(w, row)

(* The windows after each of some rows, processed individually. *)
After(w, rows) ==
    LET after[i \in 0 .. Len(rows)] == IF i = 0 THEN w ELSE Apply(after[i - 1], rows[i])
    IN  after

ApplyEach(w, rows) == After(w, rows)[Len(rows)]

(* The rows of a block that fail when it is processed row by row. *)
Failing(w, rows) == LET after == After(w, rows)
                    IN  {i \in DOMAIN rows : Fails(after[i - 1], rows[i])}

(* Slip (AllOrNothing): the good rows of a transaction stay. *)
PassingEach(w, u) == DOMAIN u.rows \ Failing(w, u.rows)

(* The rows of a message that pass.  Those of an envelope are processed    *)
(* individually; if any row of a transaction fails, all are discarded.     *)
Passing(w, u) == LET failing == Failing(w, u.rows)
                 IN  IF u.kind = "transaction" /\ failing # {}
                       THEN {} ELSE DOMAIN u.rows \ failing

Processed(w, u) == IF Passing(w, u) = {} THEN w ELSE ApplyEach(w, u.rows)
=============================================================================

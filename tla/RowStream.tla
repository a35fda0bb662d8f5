------------------------------ MODULE RowStream ------------------------------
(***************************************************************************)
(* What a publisher of numbered rows promises to the stream it fills: the  *)
(* rows 0, 1, 2, ... are inserted in order and each once, a transaction of *)
(* at most `most' rows at a time, and nothing follows the commit, which    *)
(* leaves out less than one transaction of the Total rows.                 *)
(***************************************************************************)
EXTENDS Naturals, Sequences

CONSTANT Total

VARIABLES most,       \* rows in a transaction, at most
          inserted,   \* the rows of the stream
          committed

vars == <<most, inserted, committed>>

(* n rows, the first of them numbered first. *)
Rows(first, n) == [j \in 1 .. n |-> first + j - 1]

Init == most \in Nat \ {0} /\ inserted = <<>> /\ committed = FALSE

Insert == /\ ~committed
          /\ \E n \in 1 .. most : inserted' = inserted \o Rows(Len(inserted), n)
          /\ UNCHANGED <<most, committed>>

Commit == /\ ~committed
          /\ Len(inserted) + most > Total
          /\ committed' = TRUE
          /\ UNCHANGED <<most, inserted>>

Next == Insert \/ Commit

Spec == Init /\ [][Next]_vars
=============================================================================

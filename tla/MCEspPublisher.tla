--------------------------- MODULE MCEspPublisher ---------------------------
EXTENDS EspPublisher

Opt(mode, size, async, raw) == [mode |-> mode, size |-> size, async |-> async, raw |-> raw]

(* Raw writers and synchronous without a buffer; writers of rows, buffered  *)
(* in transactions the SDK makes; and raw writers with blocks of their own  *)
(* and a queue of one.                                                      *)
MCOptions == {Opt("no", 0, FALSE, TRUE), Opt("auto", 2, TRUE, FALSE),
              Opt("explicit", 1, TRUE, TRUE)}

(* A row; a transaction and an envelope whose second row fails; and a block *)
(* without rows, which can be queued again and again.                     *)
MCBuffers == LET row == [op |-> "INSERT", cells |-> <<CHOOSE k \in Keys : TRUE>>]
             IN  {[kind |-> "row", rows |-> <<row>>],
                  [kind |-> "transaction", rows |-> <<row, row>>],
                  [kind |-> "envelope", rows |-> <<row, row>>],
                  [kind |-> "envelope", rows |-> <<>>]}
=============================================================================

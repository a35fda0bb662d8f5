--------------------------- MODULE MCEspSubscriber ---------------------------
EXTENDS EspSubscriber

CONSTANTS k1, k2, v1, v2

R(op, cells) == [op |-> op, cells |-> cells]
Single(row)  == [kind |-> "row", rows |-> <<row>>]

(* Single rows, and transactions: two keys, one key twice, one that fails.  *)
MCMessages ==
    {Single(R("UPSERT", <<k1, v1, v2>>)),
     Single(R("UPDATE", <<k1, Shine, v1>>)),
     Single(R("DELETE", <<k1>>)),
     [kind |-> "transaction",
      rows |-> <<R("INSERT", <<k2, v1, Null>>), R("UPSERT", <<k1, v2, v2>>)>>],
     [kind |-> "transaction",
      rows |-> <<R("SAFEDELETE", <<k2>>), R("UPDATE", <<k1, v2, Shine>>)>>]}

Opt(flags, size, pulsed) == [flags |-> flags, size |-> size, pulsed |-> pulsed]

MCOptions == {Opt({}, 2, FALSE),
              Opt({"NOBASE", "SHINETHROUGH"}, 2, FALSE),
              Opt({"LOSSY", "SHINETHROUGH"}, 1, FALSE),
              Opt({"DROPPABLE", "PRESERVE_BLOCKS"}, 1, FALSE),
              Opt({"LOSSY", "PRESERVE_BLOCKS"}, 1, FALSE),
              Opt({"PRESERVE_BLOCKS", "SHINETHROUGH"}, 2, FALSE),
              Opt({"LOSSY"}, 1, TRUE)}
=============================================================================

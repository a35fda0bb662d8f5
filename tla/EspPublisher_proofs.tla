------------------------ MODULE EspPublisher_proofs -------------------------
(***************************************************************************)
(* Proofs about the publisher of the SDK, for every number of threads and  *)
(* rows, every schema, all options, buffers and operations.                *)
(*                                                                         *)
(* The argument follows the rows of a thread from its writer through the   *)
(* queue and the socket to the project: as one sequence, in which they     *)
(* keep their places.  The transactions they are in are a second such      *)
(* sequence, of rising numbers, one for each unit on its way.              *)
(* A call that waits has cut what is on its way in two: the units it waits  *)
(* for, and those others have queued since, which have none of its rows.   *)
(***************************************************************************)
EXTENDS EspPublisher, DataLemmas

Kinds == {"row", "transaction", "envelope"}

(* Rows, and the units, writers of a thread that are made of its rows. *)
RowType   == [op : Ops, cells : Seq(Cells), by : Threads, n : Nat, block : Nat]
OwnRows(t) == {r \in RowType : r.by = t}
Units(S)  == [kind : Kinds, rows : Seq(S)]
Writers(t) == [op : Ops \cup {"none"}, cells : Seq(Cells),
               block : {"none", "transaction", "envelope"},
               rows : Seq(OwnRows(t)), units : Seq(Units(OwnRows(t)))]
LogType   == [row : RowType, ok : BOOLEAN]

TypeOK == /\ opt \in Options
          /\ link \in {"created", "connected", "closing", "closed", "lost"}
          /\ DOMAIN writer = Threads /\ \A t \in Threads : writer[t] \in Writers(t)
          /\ blocks \in [Threads -> Nat] /\ completed \in [Threads -> Nat]
          /\ pc \in [Threads -> {"free", "queue", "publish", "commit", "close"}]
          /\ ahead \in [Threads -> Nat]
          /\ queue \in Seq(Units(RowType)) /\ wire \in Seq(Units(RowType))
          /\ log \in Seq(LogType)
          /\ flushed \in [Threads -> Nat] /\ acked \in [Threads -> Nat]

(* A writer that is not in a block has no rows of one, and a thread that   *)
(* publishes, commits or closes has such a writer; what a buffered         *)
(* publisher completes is queued before the call returns, unless that      *)
(* fails, and without a buffer there is no queue.                          *)
WriterInv == /\ \A t \in Threads :
                  /\ writer[t].block = "none" => writer[t].rows = <<>>
                  /\ pc[t] \notin {"free", "queue"} => writer[t].block = "none"
                  /\ pc[t] = "queue" => Buffered
                  /\ Buffered /\ pc[t] # "queue" =>
                        writer[t].units = <<>> \/ link \in {"closed", "lost"}
             /\ ~Buffered => queue = <<>>

(* The rows the project has or may still get. *)
Arriving == LogRows \o RowsOf(wire)

OrderInv == /\ InOrderOnce
            /\ \A t \in Threads : InOrder(By(t, Arriving))

-----------------------------------------------------------------------------
(* The transactions of a thread: the block of each unit that is one. *)
MarkOf(t) == [u \in Units(RowType) |->
                 IF u.kind = "transaction" /\ u.rows # <<>> /\ u.rows[1].by = t
                   THEN <<u.rows[1].block>> ELSE <<>>]
Marks(t, units) == FlatMap(MarkOf(t), units)

(* Those that left the writer, all that may still get to the project, and  *)
(* those of which the project has rows.                                    *)
Before(t) == Marks(t, wire) \o Marks(t, queue)
Rest(t)   == IF link = "lost" THEN Marks(t, wire)
             ELSE Before(t) \o Marks(t, writer[t].units)
Blocks(t, rows) == {rows[i].block : i \in {j \in DOMAIN rows : /\ rows[j].by = t
                                                            /\ rows[j].block # 0}}

(* The last block of a writer that is complete, when it started n. *)
Newest(w, n) == IF w.block = "transaction" THEN n - 1 ELSE n

(* A transaction has rows of one block of one thread, other units have none. *)
Shaped(u) == \A i \in DOMAIN u.rows :
                IF u.kind = "transaction"
                  THEN /\ u.rows[i].by = u.rows[1].by
                       /\ u.rows[i].block = u.rows[1].block /\ u.rows[i].block # 0
                  ELSE u.rows[i].block = 0
ShapedUnits == {u \in Units(RowType) : Shaped(u)}

(* What is left comes after what is done, in order, up to the last block. *)
Rising(s) == \A i, j \in DOMAIN s : i < j => s[i] < s[j]
Queued(done, rest, last) ==
    /\ Rising(rest)
    /\ \A j \in DOMAIN rest : rest[j] <= last
    /\ \A d \in done : d <= last /\ \A j \in DOMAIN rest : d < rest[j]

(* What a writer holds, after n blocks, is of its current block. *)
Draft(w, n) ==
    /\ w.units \in Seq(ShapedUnits)
    /\ w.block = "transaction" => n > 0
    /\ \A i \in DOMAIN w.rows : w.rows[i].block = IF w.block = "transaction" THEN n ELSE 0

BlockInv == Blocking =>
    /\ wire \in Seq(ShapedUnits) /\ queue \in Seq(ShapedUnits)
    /\ \A t \in Threads :
          /\ Queued(Blocks(t, LogRows), Rest(t), Newest(writer[t], blocks[t]))
          /\ Draft(writer[t], blocks[t])

-----------------------------------------------------------------------------
(* The rows of units. *)
RowsMap(S) == [u \in Units(S) |-> u.rows]

LEMMA RowsMaps == ASSUME NEW S PROVE Maps(RowsMap(S), Units(S), S)
BY DEF Maps, RowsMap, Units

LEMMA RowsAreMapped ==
    ASSUME NEW S, NEW units \in Seq(Units(S))
    PROVE  RowsOf(units) = FlatMap(RowsMap(S), units)
<1>1. \A i \in DOMAIN units : units[i] \in Units(S) BY LenProperties, ElementOfSeq
<1>2. \A i \in DOMAIN units : RowsMap(S)[units[i]] = units[i].rows BY <1>1 DEF RowsMap
<1>. QED BY <1>2 DEF RowsOf, FlatMap, Mapped

LEMMA RowsOfEmpty == RowsOf(<<>>) = <<>>
<1>1. <<>> \in Seq(Units({})) BY EmptySeq
<1>. QED BY <1>1, RowsAreMapped, FlatMapEmpty

LEMMA RowsOfType ==
    ASSUME NEW S, NEW units \in Seq(Units(S))
    PROVE  RowsOf(units) \in Seq(S)
BY RowsMaps, RowsAreMapped, FlatMapType

LEMMA RowsOfOne ==
    ASSUME NEW S, NEW u \in Units(S)
    PROVE  RowsOf(<<u>>) = u.rows /\ u.rows \in Seq(S)
<1>1. <<u>> \in Seq(Units(S)) OBVIOUS
<1>2. PICK q \in Seq(Units(S)) : q = <<u>> BY <1>1
<1>3. FlatMap(RowsMap(S), q) = RowsMap(S)[u] BY <1>2, RowsMaps, FlatMapOne
<1>. QED BY <1>2, <1>3, RowsAreMapped DEF RowsMap, Units

LEMMA RowsOfConcat ==
    ASSUME NEW S, NEW units \in Seq(Units(S)), NEW others \in Seq(Units(S))
    PROVE  RowsOf(units \o others) = RowsOf(units) \o RowsOf(others)
<1>1. PICK all \in Seq(Units(S)) : all = units \o others BY ConcatProperties
<1>2. FlatMap(RowsMap(S), units \o others)
         = FlatMap(RowsMap(S), units) \o FlatMap(RowsMap(S), others)
      BY RowsMaps, FlatMapConcat
<1>. QED BY <1>1, <1>2, RowsAreMapped

LEMMA RowsOfAppend ==
    ASSUME NEW S, NEW units \in Seq(Units(S)), NEW u \in Units(S)
    PROVE  RowsOf(Append(units, u)) = RowsOf(units) \o u.rows
<1>1. <<u>> \in Seq(Units(S)) OBVIOUS
<1>2. PICK q \in Seq(Units(S)) : q = <<u>> BY <1>1
<1>3. RowsOf(units \o q) = RowsOf(units) \o RowsOf(q) BY RowsOfConcat
<1>. QED BY <1>2, <1>3, RowsOfOne, AppendIsConcat

LEMMA RowsOfHead ==
    ASSUME NEW S, NEW units \in Seq(Units(S)), units # <<>>
    PROVE  RowsOf(units) = Head(units).rows \o RowsOf(Tail(units))
<1>1. PICK u \in Units(S), r \in Seq(Units(S)) : u = Head(units) /\ r = Tail(units)
      BY HeadAndTail
<1>2. FlatMap(RowsMap(S), units) = RowsMap(S)[u] \o FlatMap(RowsMap(S), r)
      BY <1>1, RowsMaps, FlatMapHead
<1>. QED BY <1>1, <1>2, RowsAreMapped DEF RowsMap

-----------------------------------------------------------------------------
(* The rows of a thread among others. *)
OwnMap(t) == [r \in RowType |-> IF r.by = t THEN <<r>> ELSE <<>>]

LEMMA OwnMaps == ASSUME NEW t PROVE Maps(OwnMap(t), RowType, RowType)
<1>1. ASSUME NEW r \in RowType
      PROVE  (IF r.by = t THEN <<r>> ELSE <<>>) \in Seq(RowType)
  <2>1. <<r>> \in Seq(RowType) /\ <<>> \in Seq(RowType) OBVIOUS
  <2>. QED BY <2>1
<1>. QED BY <1>1 DEF Maps, OwnMap

LEMMA ByIsMapped ==
    ASSUME NEW t, NEW rows \in Seq(RowType)
    PROVE  By(t, rows) = FlatMap(OwnMap(t), rows)
<1>1. \A i \in DOMAIN rows : rows[i] \in RowType BY LenProperties, ElementOfSeq
<1>2. \A i \in DOMAIN rows :
         OwnMap(t)[rows[i]] = IF rows[i].by = t THEN <<rows[i]>> ELSE <<>>
      BY <1>1 DEF OwnMap
<1>3. [i \in DOMAIN rows |-> IF rows[i].by = t THEN <<rows[i]>> ELSE <<>>]
         = [i \in DOMAIN rows |-> OwnMap(t)[rows[i]]]
      BY <1>2
<1>. QED BY <1>3 DEF By, FlatMap, Mapped

LEMMA ByType ==
    ASSUME NEW t, NEW rows \in Seq(RowType)
    PROVE  By(t, rows) \in Seq(RowType)
BY ByIsMapped, OwnMaps, FlatMapType

LEMMA ByEmpty == ASSUME NEW t PROVE By(t, <<>>) = <<>>
<1>1. <<>> \in Seq(RowType) BY EmptySeq
<1>. QED BY <1>1, ByIsMapped, FlatMapEmpty

LEMMA ByConcat ==
    ASSUME NEW t, NEW rows \in Seq(RowType), NEW others \in Seq(RowType)
    PROVE  By(t, rows \o others) = By(t, rows) \o By(t, others)
<1>1. PICK all \in Seq(RowType) : all = rows \o others BY ConcatProperties
<1>2. FlatMap(OwnMap(t), rows \o others)
         = FlatMap(OwnMap(t), rows) \o FlatMap(OwnMap(t), others)
      BY OwnMaps, FlatMapConcat
<1>. QED BY <1>1, <1>2, ByIsMapped

LEMMA SeqOfMore == ASSUME NEW S, NEW T, S \subseteq T PROVE Seq(S) \subseteq Seq(T)
BY SeqDef

(* A thread's own rows are all among its rows, and none among another's. *)
LEMMA ByOwn ==
    ASSUME NEW t, NEW s, NEW rows \in Seq(OwnRows(s))
    PROVE  /\ rows \in Seq(RowType)
           /\ By(t, rows) = IF s = t THEN rows ELSE <<>>
<1>. DEFINE P == {q \in Seq(OwnRows(s)) : By(t, q) = IF s = t THEN q ELSE <<>>}
<1>0. Seq(OwnRows(s)) \subseteq Seq(RowType)
  <2>1. OwnRows(s) \subseteq RowType BY DEF OwnRows
  <2>. QED BY <2>1, SeqOfMore
<1>1. <<>> \in P BY ByEmpty, EmptySeq
<1>2. ASSUME NEW q \in Seq(OwnRows(s)), NEW r \in OwnRows(s), q \in P
      PROVE  Append(q, r) \in P
  <2>1. r \in RowType /\ r.by = s BY DEF OwnRows
  <2>2. q \in Seq(RowType) /\ <<r>> \in Seq(RowType) BY <1>0, <2>1
  <2>3. PICK x \in Seq(RowType) : x = <<r>> BY <2>2
  <2>4. By(t, x) = IF s = t THEN <<r>> ELSE <<>>
    <3>1. FlatMap(OwnMap(t), x) = OwnMap(t)[r] BY <2>1, <2>3, OwnMaps, FlatMapOne
    <3>. QED BY <2>1, <3>1, ByIsMapped DEF OwnMap
  <2>5. By(t, q \o x) = By(t, q) \o By(t, x) BY <2>2, ByConcat
  <2>6. Append(q, r) = q \o x BY <2>3, AppendIsConcat
  <2>7. Append(q, r) \in Seq(OwnRows(s)) BY AppendProperties
  <2>8. <<>> \o <<>> = <<>> BY EmptySeq, ConcatEmptySeq
  <2>. QED BY <1>2, <2>3, <2>4, <2>5, <2>6, <2>7, <2>8
<1>3. Seq(OwnRows(s)) \subseteq P
  <2>. HIDE DEF P
  <2>. QED BY <1>1, <1>2, SeqInduction
<1>. QED BY <1>0, <1>3

-----------------------------------------------------------------------------
(* Where the rows of a thread are. *)
LEMMA LogRowsType ==
    ASSUME TypeOK
    PROVE  /\ LogRows \in Seq(RowType) /\ Len(LogRows) = Len(log)
           /\ \A i \in 1 .. Len(log) : LogRows[i] = log[i].row
<1>1. log \in Seq(LogType) /\ DOMAIN log = 1 .. Len(log) /\ Len(log) \in Nat
      BY LenProperties DEF TypeOK
<1>2. \A i \in 1 .. Len(log) : log[i].row \in RowType
  <2>1. \A i \in 1 .. Len(log) : log[i] \in LogType BY <1>1, ElementOfSeq
  <2>. QED BY <2>1 DEF LogType
<1>3. LogRows \in [1 .. Len(log) -> RowType] BY <1>1, <1>2 DEF LogRows
<1>4. LogRows \in Seq(RowType) BY <1>1, <1>3, SeqDef
<1>5. Len(LogRows) = Len(log)
  <2>1. DOMAIN LogRows = 1 .. Len(log) BY <1>3
  <2>. QED BY <1>1, <1>4, <2>1, LenProperties
<1>. QED BY <1>1, <1>4, <1>5 DEF LogRows

LEMMA DraftsType ==
    ASSUME TypeOK, NEW t \in Threads
    PROVE  /\ writer[t].rows \in Seq(OwnRows(t)) /\ RowsOf(writer[t].units) \in Seq(OwnRows(t))
           /\ Drafts(t) \in Seq(OwnRows(t))
<1>1. writer[t].rows \in Seq(OwnRows(t)) /\ writer[t].units \in Seq(Units(OwnRows(t)))
      BY DEF TypeOK, Writers
<1>2. RowsOf(writer[t].units) \in Seq(OwnRows(t))
  <2>1. PICK us \in Seq(Units(OwnRows(t))) : us = writer[t].units BY <1>1
  <2>2. RowsOf(us) \in Seq(OwnRows(t)) BY RowsOfType
  <2>. QED BY <2>1, <2>2
<1>. QED BY <1>1, <1>2, ConcatProperties DEF Drafts

LEMMA Places ==
    ASSUME TypeOK, NEW t \in Threads
    PROVE  /\ LogRows \in Seq(RowType) /\ By(t, LogRows) \in Seq(RowType)
           /\ RowsOf(wire) \in Seq(RowType) /\ By(t, RowsOf(wire)) \in Seq(RowType)
           /\ RowsOf(queue) \in Seq(RowType) /\ By(t, RowsOf(queue)) \in Seq(RowType)
           /\ Arriving \in Seq(RowType) /\ By(t, Arriving) \in Seq(RowType)
           /\ Handed \in Seq(RowType) /\ By(t, Handed) \in Seq(RowType)
           /\ Written(t) \in Seq(RowType)
           /\ By(t, Arriving) = By(t, LogRows) \o By(t, RowsOf(wire))
           /\ By(t, Handed) = By(t, Arriving) \o By(t, RowsOf(queue))
<1>1. LogRows \in Seq(RowType) BY LogRowsType
<1>2. RowsOf(wire) \in Seq(RowType) /\ RowsOf(queue) \in Seq(RowType)
      BY RowsOfType DEF TypeOK
<1>3. Arriving \in Seq(RowType) BY <1>1, <1>2, ConcatProperties DEF Arriving
<1>4. Handed = Arriving \o RowsOf(queue) BY DEF Handed, Arriving
<1>5. Handed \in Seq(RowType) BY <1>2, <1>3, <1>4, ConcatProperties
<1>6. By(t, Arriving) = By(t, LogRows) \o By(t, RowsOf(wire))
      BY <1>1, <1>2, ByConcat DEF Arriving
<1>7. By(t, Handed) = By(t, Arriving) \o By(t, RowsOf(queue)) BY <1>2, <1>3, <1>4, ByConcat
<1>8. By(t, Handed) \in Seq(RowType) BY <1>5, ByType
<1>9. Drafts(t) \in Seq(RowType) BY DraftsType, ByOwn
<1>10. Written(t) \in Seq(RowType) BY ONLY <1>8, <1>9, ConcatProperties DEF Written
<1>. QED BY <1>1, <1>2, <1>3, <1>5, <1>6, <1>7, <1>8, <1>10, ByType

(* The next row of a thread, and those that come with a block. *)
LEMMA StampedType ==
    ASSUME TypeOK, NEW t \in Threads,
           NEW row, row.op \in Ops, row.cells \in Seq(Cells), NEW j \in Nat, NEW kind,
           NEW block \in Nat
    PROVE  /\ Stamped(t, row, j, kind, block) \in OwnRows(t)
           /\ Stamped(t, row, j, kind, block).n = completed[t] + j
           /\ Stamped(t, row, j, kind, block).block
                 = IF kind = "transaction" THEN block ELSE 0
<1>1. completed[t] + j \in Nat BY DEF TypeOK
<1>. QED BY <1>1 DEF Stamped, OwnRows, RowType

-----------------------------------------------------------------------------
(* The operators of a message writer. *)
LEMMA NewWriterType == ASSUME NEW t PROVE NewWriter \in Writers(t)
BY EmptySeq DEF NewWriter, Writers

LEMMA StartRowType ==
    ASSUME NEW t, NEW w \in Writers(t)
    PROVE  StartRow(w) \in Writers(t)
BY EmptySeq DEF StartRow, Writers, Ops

LEMMA SetOperationType ==
    ASSUME NEW t, NEW w \in Writers(t), NEW op \in UsedOps
    PROVE  SetOperation(w, op) \in Writers(t)
BY InputsAssumption DEF SetOperation, Writers

LEMMA SetColumnType ==
    ASSUME NEW t, NEW w \in Writers(t), NEW j, NEW op, NEW value \in Column(j, op)
    PROVE  SetColumn(w, value) \in Writers(t)
<1>1. value \in Cells BY DEF Column, Cells
<1>2. w.cells \in Seq(Cells) BY DEF Writers
<1>3. Append(w.cells, value) \in Seq(Cells) BY <1>1, <1>2, AppendProperties
<1>. QED BY <1>3 DEF SetColumn, Writers

LEMMA UnitType ==
    ASSUME NEW S, NEW kind \in Kinds, NEW rows \in Seq(S)
    PROVE  Unit(kind, rows) \in Units(S)
BY DEF Unit, Units

LEMMA EndRowType ==
    ASSUME NEW t, NEW w \in Writers(t), NEW row \in OwnRows(t)
    PROVE  EndRow(w, row) \in Writers(t)
<1>1. w.rows \in Seq(OwnRows(t)) /\ w.units \in Seq(Units(OwnRows(t))) BY DEF Writers
<1>2. <<row>> \in Seq(OwnRows(t)) OBVIOUS
<1>3. Unit("row", <<row>>) \in Units(OwnRows(t)) BY <1>2 DEF Unit, Units, Kinds
<1>4. Append(w.units, Unit("row", <<row>>)) \in Seq(Units(OwnRows(t)))
      BY <1>1, <1>3, AppendProperties
<1>5. Append(w.rows, row) \in Seq(OwnRows(t)) BY <1>1, AppendProperties
<1>. QED BY <1>4, <1>5, EmptySeq DEF EndRow, Writers

LEMMA StartBlockType ==
    ASSUME NEW t, NEW w \in Writers(t), NEW kind \in {"transaction", "envelope"}
    PROVE  StartBlock(w, kind) \in Writers(t)
BY DEF StartBlock, Writers

LEMMA EndBlockType ==
    ASSUME NEW t, NEW w \in Writers(t), CanEndBlock(w)
    PROVE  EndBlock(w) \in Writers(t)
<1>1. w.rows \in Seq(OwnRows(t)) /\ w.units \in Seq(Units(OwnRows(t)))
      BY DEF Writers
<1>2. w.block \in Kinds BY DEF Writers, Kinds, CanEndBlock
<1>3. Unit(w.block, w.rows) \in Units(OwnRows(t)) BY <1>1, <1>2, UnitType
<1>4. Append(w.units, Unit(w.block, w.rows)) \in Seq(Units(OwnRows(t)))
      BY <1>1, <1>3, AppendProperties
<1>. QED BY <1>1, <1>4, EmptySeq DEF EndBlock, Writers

LEMMA SentType ==
    ASSUME NEW t, NEW w \in Writers(t)
    PROVE  Sent(w) \in Writers(t)
BY EmptySeq DEF Sent, Writers

-----------------------------------------------------------------------------
(* Types are kept. *)
LEMMA InitType == Init => TypeOK /\ WriterInv
<1>. SUFFICES ASSUME Init PROVE TypeOK /\ WriterInv OBVIOUS
<1>1. \A t \in Threads : writer[t] = NewWriter /\ writer[t] \in Writers(t)
      BY NewWriterType DEF Init
<1>2. TypeOK BY <1>1, EmptySeq DEF Init, TypeOK
<1>3. \A t \in Threads : writer[t].rows = <<>> /\ writer[t].units = <<>> /\ pc[t] = "free"
      BY <1>1 DEF Init, NewWriter
<1>. QED BY <1>2, <1>3 DEF Init, WriterInv

LEMMA FormatType ==
    ASSUME TypeOK, NEW t \in Threads, NEW w \in Writers(t), Format(t, w),
           blocks' \in [Threads -> Nat], completed' \in [Threads -> Nat],
           pc' = pc \/ \E call \in {"free", "queue"} : pc' = [pc EXCEPT ![t] = call]
    PROVE  TypeOK'
BY DEF TypeOK, Format, sdk

LEMMA FormatWriter ==
    ASSUME TypeOK, WriterInv, NEW t \in Threads, NEW w, Format(t, w), pc[t] = "free",
           w.block = "none" => w.rows = <<>>,
           \/ pc' = pc /\ w.units = writer[t].units
           \/ pc' = [pc EXCEPT ![t] = "queue"] /\ Buffered
           \/ pc' = [pc EXCEPT ![t] = "free"] /\ (Buffered => w.units = <<>>)
    PROVE  WriterInv'
BY DEF TypeOK, WriterInv, Format, Buffered, sdk

LEMMA CompleteType ==
    ASSUME TypeOK, NEW t \in Threads, NEW w \in Writers(t), Complete(t, w),
           blocks' \in [Threads -> Nat], completed' \in [Threads -> Nat]
    PROVE  TypeOK'
<1>1. \E call \in {"free", "queue"} : pc' = [pc EXCEPT ![t] = call] BY DEF Complete
<1>. QED BY <1>1, FormatType DEF Complete

LEMMA CompleteWriter ==
    ASSUME TypeOK, WriterInv, NEW t \in Threads, NEW w \in Writers(t), Complete(t, w),
           pc[t] = "free", w.block = "none" => w.rows = <<>>
    PROVE  WriterInv'
<1>1. \/ pc' = [pc EXCEPT ![t] = "queue"] /\ Buffered
      \/ pc' = [pc EXCEPT ![t] = "free"] /\ (Buffered => w.units = <<>>)
      BY DEF Complete
<1>. QED BY <1>1, FormatWriter DEF Complete

(* The unit a buffer makes, and the writer after it. *)
BufferRows(t, b) == [j \in DOMAIN b.rows |-> Stamped(t, b.rows[j], j, b.kind, blocks[t] + 1)]
BufferUnit(t, b) == Unit(b.kind, BufferRows(t, b))
WithUnit(w, u)   == [w EXCEPT !.units = Append(@, u)]

LEMMA BufferType ==
    ASSUME TypeOK, NEW t \in Threads, NEW b \in Buffers
    PROVE  /\ BufferRows(t, b) \in Seq(OwnRows(t)) /\ Len(BufferRows(t, b)) = Len(b.rows)
           /\ \A j \in 1 .. Len(b.rows) :
                 /\ BufferRows(t, b)[j].n = completed[t] + j
                 /\ BufferRows(t, b)[j].block
                       = IF b.kind = "transaction" THEN blocks[t] + 1 ELSE 0
           /\ BufferUnit(t, b) \in Units(OwnRows(t))
<1>1. b.kind \in Kinds /\ b.rows \in Seq([op : Ops, cells : Seq(Cells)])
      BY InputsAssumption DEF Kinds
<1>2. DOMAIN b.rows = 1 .. Len(b.rows) /\ Len(b.rows) \in Nat BY <1>1, LenProperties
<1>3. blocks[t] + 1 \in Nat BY DEF TypeOK
<1>4. ASSUME NEW j \in 1 .. Len(b.rows)
      PROVE  /\ BufferRows(t, b)[j] \in OwnRows(t)
             /\ BufferRows(t, b)[j].n = completed[t] + j
             /\ BufferRows(t, b)[j].block
                   = IF b.kind = "transaction" THEN blocks[t] + 1 ELSE 0
  <2>1. b.rows[j] \in [op : Ops, cells : Seq(Cells)] BY <1>1, ElementOfSeq
  <2>2. PICK row : row = b.rows[j] /\ row.op \in Ops /\ row.cells \in Seq(Cells) BY <2>1
  <2>3. PICK k \in Nat : k = blocks[t] + 1 BY <1>3
  <2>4. j \in Nat BY <1>2
  <2>5. BufferRows(t, b)[j] = Stamped(t, row, j, b.kind, k)
        BY <1>2, <2>2, <2>3 DEF BufferRows
  <2>. QED BY <2>2, <2>3, <2>4, <2>5, StampedType
<1>5. BufferRows(t, b) \in [1 .. Len(b.rows) -> OwnRows(t)] BY <1>2, <1>4 DEF BufferRows
<1>6. BufferRows(t, b) \in Seq(OwnRows(t)) BY <1>2, <1>5, SeqDef
<1>7. Len(BufferRows(t, b)) = Len(b.rows)
  <2>1. DOMAIN BufferRows(t, b) = 1 .. Len(b.rows) BY <1>5
  <2>. QED BY <1>2, <1>6, <2>1, LenProperties
<1>. QED BY <1>1, <1>4, <1>6, <1>7, UnitType DEF BufferUnit

LEMMA WithUnitType ==
    ASSUME NEW t, NEW w \in Writers(t), NEW u \in Units(OwnRows(t))
    PROVE  WithUnit(w, u) \in Writers(t)
<1>1. w.units \in Seq(Units(OwnRows(t))) BY DEF Writers
<1>2. Append(w.units, u) \in Seq(Units(OwnRows(t))) BY <1>1, AppendProperties
<1>. QED BY <1>2 DEF WithUnit, Writers

(* The two ways to add a buffer. *)
RowBuffer(t, b) ==
    /\ b.kind = "row"
    /\ Complete(t, EndRow(writer[t], Stamped(t, b.rows[1], 1, writer[t].block, blocks[t])))
    /\ completed' = [completed EXCEPT ![t] = @ + 1]
    /\ UNCHANGED blocks
BlockBuffer(t, b) ==
    /\ b.kind # "row" /\ writer[t].block = "none"
    /\ blocks' = [blocks EXCEPT ![t] = IF Uncounted(b) THEN @ ELSE @ + 1]
    /\ completed' = [completed EXCEPT ![t] = @ + Len(b.rows)]
    /\ Complete(t, WithUnit(writer[t], BufferUnit(t, b)))

LEMMA AddBuffer ==
    ASSUME NEW t \in Threads, Add_Buffer(t)
    PROVE  \E b \in Buffers : Call(t) /\ (RowBuffer(t, b) \/ BlockBuffer(t, b))
<1>1. \A b \in Buffers : b.kind = "row" => Len(b.rows) = 1 BY InputsAssumption
<1>. QED BY <1>1 DEF Add_Buffer, RowBuffer, BlockBuffer, WithUnit, BufferUnit, BufferRows

(* The row that is ended. *)
LEMMA EndedRow ==
    ASSUME TypeOK, NEW t \in Threads, CanEndRow(writer[t])
    PROVE  LET r == Stamped(t, Row(writer[t]), 1, writer[t].block, blocks[t])
           IN  /\ r \in OwnRows(t) /\ r.n = completed[t] + 1
               /\ r.block = IF writer[t].block = "transaction" THEN blocks[t] ELSE 0
<1>0. writer[t].op \in Ops /\ writer[t].cells \in Seq(Cells)
      BY DEF TypeOK, Writers, CanEndRow, InRow
<1>a. Row(writer[t]).op \in Ops /\ Row(writer[t]).cells \in Seq(Cells) BY <1>0 DEF Row
<1>1. PICK row : row = Row(writer[t]) /\ row.op \in Ops /\ row.cells \in Seq(Cells)
      BY <1>a
<1>2. blocks[t] \in Nat /\ 1 \in Nat BY DEF TypeOK
<1>. QED BY <1>1, <1>2, StampedType

LEMMA AddedRow ==
    ASSUME TypeOK, NEW t \in Threads, NEW b \in Buffers, b.kind = "row"
    PROVE  LET r == Stamped(t, b.rows[1], 1, writer[t].block, blocks[t])
           IN  /\ r \in OwnRows(t) /\ r.n = completed[t] + 1
               /\ r.block = IF writer[t].block = "transaction" THEN blocks[t] ELSE 0
<1>1. b.rows \in Seq([op : Ops, cells : Seq(Cells)]) /\ Len(b.rows) = 1
      BY InputsAssumption
<1>2. b.rows[1] \in [op : Ops, cells : Seq(Cells)]
  <2>1. 1 \in 1 .. Len(b.rows) BY <1>1
  <2>. QED BY <1>1, <2>1, ElementOfSeq
<1>3. PICK row : row = b.rows[1] /\ row.op \in Ops /\ row.cells \in Seq(Cells)
      BY <1>2
<1>4. blocks[t] \in Nat /\ 1 \in Nat BY DEF TypeOK
<1>. QED BY <1>3, <1>4, StampedType

-----------------------------------------------------------------------------
(* Types are kept by every step. *)
LEMMA CompletedType ==
    ASSUME TypeOK, NEW t \in Threads, NEW k \in Nat, completed' = [completed EXCEPT ![t] = @ + k]
    PROVE  /\ completed' \in [Threads -> Nat] /\ completed'[t] = completed[t] + k
           /\ \A s \in Threads \ {t} : completed'[s] = completed[s]
BY DEF TypeOK

LEMMA FormatOnlyType ==
    ASSUME TypeOK, WriterInv, NEW t \in Threads, Call(t), NEW w \in Writers(t),
           Format(t, w), UNCHANGED <<completed, pc>>, blocks' \in [Threads -> Nat],
           w.block = "none" => w.rows = <<>>, w.units = writer[t].units
    PROVE  TypeOK' /\ WriterInv'
<1>1. pc' = pc /\ completed' \in [Threads -> Nat] BY DEF TypeOK
<1>2. pc[t] = "free" BY DEF Call
<1>. QED BY <1>1, <1>2, FormatType, FormatWriter

LEMMA RowStepType ==
    ASSUME TypeOK, WriterInv, NEW t \in Threads,
           \/ Start_Row(t) \/ Set_Operation(t) \/ Set_Column(t)
           \/ \E kind \in {"transaction", "envelope"} : Start_Block(t, kind)
    PROVE  TypeOK' /\ WriterInv'
<1>1. /\ writer[t] \in Writers(t) /\ (writer[t].block = "none" => writer[t].rows = <<>>)
      /\ blocks \in [Threads -> Nat]
      BY DEF TypeOK, WriterInv
<1>2. CASE Start_Row(t)
  <2>1. /\ StartRow(writer[t]) \in Writers(t)
        /\ StartRow(writer[t]).block = writer[t].block
        /\ StartRow(writer[t]).rows = writer[t].rows
        /\ StartRow(writer[t]).units = writer[t].units
    <3>1. StartRow(writer[t]) \in Writers(t) BY <1>1, StartRowType
    <3>. QED BY <1>1, <3>1 DEF StartRow, Writers
  <2>2. Call(t) /\ Format(t, StartRow(writer[t])) /\ UNCHANGED <<completed, pc, blocks>>
        BY <1>2 DEF Start_Row
  <2>. QED BY <1>1, <2>1, <2>2, FormatOnlyType
<1>3. CASE Set_Operation(t)
  <2>1. PICK op \in UsedOps : Format(t, SetOperation(writer[t], op))
        BY <1>3 DEF Set_Operation
  <2>2. /\ SetOperation(writer[t], op) \in Writers(t)
        /\ SetOperation(writer[t], op).block = writer[t].block
        /\ SetOperation(writer[t], op).rows = writer[t].rows
        /\ SetOperation(writer[t], op).units = writer[t].units
    <3>1. SetOperation(writer[t], op) \in Writers(t) BY <1>1, SetOperationType
    <3>. QED BY <1>1, <3>1 DEF SetOperation, Writers
  <2>3. Call(t) /\ UNCHANGED <<completed, pc, blocks>> BY <1>3 DEF Set_Operation
  <2>. QED BY <1>1, <2>1, <2>2, <2>3, FormatOnlyType
<1>4. CASE Set_Column(t)
  <2>1. PICK value \in Column(Len(writer[t].cells) + 1, writer[t].op) :
           Format(t, SetColumn(writer[t], value))
        BY <1>4 DEF Set_Column
  <2>2. /\ SetColumn(writer[t], value) \in Writers(t)
        /\ SetColumn(writer[t], value).block = writer[t].block
        /\ SetColumn(writer[t], value).rows = writer[t].rows
        /\ SetColumn(writer[t], value).units = writer[t].units
    <3>1. SetColumn(writer[t], value) \in Writers(t) BY <1>1, SetColumnType
    <3>. QED BY <1>1, <3>1 DEF SetColumn, Writers
  <2>3. Call(t) /\ UNCHANGED <<completed, pc, blocks>> BY <1>4 DEF Set_Column
  <2>. QED BY <1>1, <2>1, <2>2, <2>3, FormatOnlyType
<1>5. CASE \E kind \in {"transaction", "envelope"} : Start_Block(t, kind)
  <2>1. PICK kind \in {"transaction", "envelope"} : Start_Block(t, kind) BY <1>5
  <2>2. /\ StartBlock(writer[t], kind) \in Writers(t)
        /\ StartBlock(writer[t], kind).block = kind /\ kind # "none"
        /\ StartBlock(writer[t], kind).units = writer[t].units
    <3>1. StartBlock(writer[t], kind) \in Writers(t) BY <1>1, StartBlockType
    <3>. QED BY <1>1, <3>1 DEF StartBlock, Writers
  <2>3. /\ Call(t) /\ UNCHANGED <<completed, pc>> /\ Format(t, StartBlock(writer[t], kind))
        /\ blocks' \in [Threads -> Nat]
        BY <1>1, <2>1 DEF Start_Block
  <2>. QED BY <1>1, <2>2, <2>3, FormatOnlyType
<1>. QED BY <1>2, <1>3, <1>4, <1>5

LEMMA CompleteStepType ==
    ASSUME TypeOK, WriterInv, NEW t \in Threads,
           End_Row(t) \/ Add_Buffer(t) \/ End_Block(t)
    PROVE  TypeOK' /\ WriterInv'
<1>1. /\ writer[t] \in Writers(t) /\ (writer[t].block = "none" => writer[t].rows = <<>>)
      /\ blocks \in [Threads -> Nat]
      BY DEF TypeOK, WriterInv
<1>2. ASSUME NEW row \in OwnRows(t)
      PROVE  LET w == EndRow(writer[t], row)
             IN  w \in Writers(t) /\ (w.block = "none" => w.rows = <<>>)
  <2>1. EndRow(writer[t], row) \in Writers(t) BY <1>1, EndRowType
  <2>2. EndRow(writer[t], row).block = writer[t].block BY <1>1 DEF EndRow, Writers
  <2>3. writer[t].block = "none" => EndRow(writer[t], row).rows = writer[t].rows
        BY <1>1 DEF EndRow, Writers
  <2>. QED BY <1>1, <2>1, <2>2, <2>3
<1>3. ASSUME NEW row \in OwnRows(t), Complete(t, EndRow(writer[t], row)), UNCHANGED blocks,
             pc[t] = "free", completed' = [completed EXCEPT ![t] = @ + 1]
      PROVE  TypeOK' /\ WriterInv'
  <2>1. PICK w \in Writers(t) : w = EndRow(writer[t], row) /\ (w.block = "none" => w.rows = <<>>)
        BY <1>2
  <2>2. 1 \in Nat /\ completed' \in [Threads -> Nat] BY <1>3, CompletedType
  <2>. QED BY <1>1, <1>3, <2>1, <2>2, CompleteType, CompleteWriter
<1>4. CASE End_Row(t)
  <2>1. /\ CanEndRow(writer[t]) /\ UNCHANGED blocks /\ pc[t] = "free"
        /\ completed' = [completed EXCEPT ![t] = @ + 1]
        BY <1>4 DEF End_Row, Call
  <2>2. PICK row \in OwnRows(t) :
           row = Stamped(t, Row(writer[t]), 1, writer[t].block, blocks[t])
        BY <2>1, EndedRow
  <2>3. Complete(t, EndRow(writer[t], row)) BY <1>4, <2>2 DEF End_Row
  <2>. QED BY <1>3, <2>1, <2>2, <2>3
<1>5. CASE Add_Buffer(t)
  <2>1. PICK b \in Buffers : Call(t) /\ (RowBuffer(t, b) \/ BlockBuffer(t, b))
        BY <1>5, AddBuffer
  <2>2. CASE RowBuffer(t, b)
    <3>1. PICK row \in OwnRows(t) :
             row = Stamped(t, b.rows[1], 1, writer[t].block, blocks[t])
          BY <2>2, AddedRow DEF RowBuffer
    <3>2. /\ Complete(t, EndRow(writer[t], row)) /\ UNCHANGED blocks /\ pc[t] = "free"
          /\ completed' = [completed EXCEPT ![t] = @ + 1]
          BY <2>1, <2>2, <3>1 DEF RowBuffer, Call
    <3>. QED BY <1>3, <3>1, <3>2
  <2>3. CASE BlockBuffer(t, b)
    <3>1. PICK u \in Units(OwnRows(t)) : u = BufferUnit(t, b) BY BufferType
    <3>2. PICK w \in Writers(t) : w = WithUnit(writer[t], u) BY <1>1, WithUnitType
    <3>3. w.block = writer[t].block /\ w.rows = writer[t].rows
          BY <1>1, <3>2 DEF WithUnit, Writers
    <3>4. Complete(t, w) /\ pc[t] = "free" /\ blocks' \in [Threads -> Nat]
          BY <1>1, <2>1, <2>3, <3>1, <3>2 DEF BlockBuffer, Call
    <3>5. completed' \in [Threads -> Nat]
      <4>1. b.rows \in Seq([op : Ops, cells : Seq(Cells)]) BY InputsAssumption
      <4>2. PICK k \in Nat : k = Len(b.rows) BY <4>1, LenProperties
      <4>. QED BY <2>3, <4>2, CompletedType DEF BlockBuffer
    <3>. QED BY <1>1, <3>3, <3>4, <3>5, CompleteType, CompleteWriter
  <2>. QED BY <2>1, <2>2, <2>3
<1>6. CASE End_Block(t)
  <2>1. PICK w \in Writers(t) : w = EndBlock(writer[t])
        BY <1>1, <1>6, EndBlockType DEF End_Block
  <2>2. w.block = "none" /\ w.rows = <<>> BY <1>1, <2>1 DEF EndBlock, Writers
  <2>3. /\ Complete(t, w) /\ UNCHANGED blocks /\ pc[t] = "free"
        /\ completed' \in [Threads -> Nat]
        BY <1>6, <2>1 DEF End_Block, Call, TypeOK
  <2>. QED BY <1>1, <2>2, <2>3, CompleteType, CompleteWriter
<1>. QED BY <1>4, <1>5, <1>6

(* Units of one thread are units, and the first of them may be taken. *)
LEMMA UnitsOfThread ==
    ASSUME NEW t, NEW units \in Seq(Units(OwnRows(t)))
    PROVE  /\ units \in Seq(Units(RowType)) /\ Units(OwnRows(t)) \subseteq Units(RowType)
           /\ units # <<>> => /\ Head(units) \in Units(OwnRows(t))
                              /\ Tail(units) \in Seq(Units(OwnRows(t)))
<1>1. OwnRows(t) \subseteq RowType BY DEF OwnRows
<1>2. Seq(OwnRows(t)) \subseteq Seq(RowType) BY <1>1, SeqOfMore
<1>3. Units(OwnRows(t)) \subseteq Units(RowType) BY <1>2 DEF Units
<1>. QED BY <1>3, SeqOfMore, HeadAndTail

LEMMA WaitType ==
    ASSUME TypeOK, WriterInv, NEW t \in Threads,
           \/ Publish(t) \/ Commit(t) \/ Close(t)
           \/ PublishReturns(t) \/ CommitReturns(t) \/ CloseReturns(t) \/ CallFails(t)
    PROVE  TypeOK' /\ WriterInv'
<1>0. Len(wire) \in Nat /\ Len(queue) \in Nat BY LenProperties DEF TypeOK
<1>1. CASE Publish(t) \/ Commit(t) \/ Close(t)
  <2>0. Len(wire) + Len(queue) \in Nat BY <1>0
  <2>1. PICK call \in {"publish", "commit", "close"}, units \in Nat :
           Enter(t, call, units) /\ link' \in {link, "closing"}
        BY <1>1, <2>0 DEF Publish, Commit, Close
  <2>2. /\ link = "connected" /\ pc[t] = "free" /\ writer[t].block = "none"
        /\ pc' = [pc EXCEPT ![t] = call] /\ ahead' = [ahead EXCEPT ![t] = units]
        /\ UNCHANGED <<opt, writer, blocks, completed, queue, wire, log, flushed, acked>>
        BY <2>1 DEF Enter, Call, sdk
  <2>. QED BY <2>1, <2>2 DEF TypeOK, WriterInv, Buffered
<1>2. CASE CloseReturns(t)
  <2>1. /\ pc' = [pc EXCEPT ![t] = "free"] /\ ahead' = [ahead EXCEPT ![t] = 0]
        /\ link' = "closed"
        /\ UNCHANGED <<opt, writer, blocks, completed, queue, wire, log, flushed, acked>>
        BY <1>2 DEF CloseReturns, Return
  <2>. QED BY <2>1 DEF TypeOK, WriterInv, Buffered
<1>3. CASE CallFails(t)
  <2>1. /\ pc' = [pc EXCEPT ![t] = "free"] /\ ahead' = [ahead EXCEPT ![t] = 0]
        /\ link \in {"closed", "lost"} /\ link' = link
        /\ UNCHANGED <<opt, writer, blocks, completed, queue, wire, log, flushed, acked>>
        BY <1>3 DEF CallFails, Return
  <2>. QED BY <2>1 DEF TypeOK, WriterInv, Buffered
<1>4. CASE PublishReturns(t) \/ CommitReturns(t)
  <2>1. /\ pc' = [pc EXCEPT ![t] = "free"] /\ ahead' = [ahead EXCEPT ![t] = 0]
        /\ pc[t] \in {"publish", "commit"}
        /\ UNCHANGED <<opt, link, writer, blocks, completed, queue, wire, log>>
        BY <1>4 DEF PublishReturns, CommitReturns, Return
  <2>2. completed[t] \in Nat /\ Len(By(t, Handed)) \in Nat
        BY Places, LenProperties DEF TypeOK
  <2>3. flushed' \in [Threads -> Nat] /\ acked' \in [Threads -> Nat]
    <3>1. CASE PublishReturns(t) BY <2>2, <3>1 DEF PublishReturns, TypeOK
    <3>2. CASE CommitReturns(t)
      <4>1. PICK k \in Nat : k = Len(By(t, Handed)) BY <2>2
      <4>. QED BY <3>2, <4>1 DEF CommitReturns, TypeOK
    <3>. QED BY <1>4, <3>1, <3>2
  <2>. QED BY <2>1, <2>3 DEF TypeOK, WriterInv, Buffered
<1>. QED BY <1>1, <1>2, <1>3, <1>4

LEMMA EnqueueType ==
    ASSUME TypeOK, WriterInv, NEW t \in Threads, Enqueue(t)
    PROVE  TypeOK' /\ WriterInv'
<1>1. writer[t] \in Writers(t) /\ writer[t].units \in Seq(Units(OwnRows(t)))
      BY DEF TypeOK, Writers
<1>2. queue' \in Seq(Units(RowType))
  <2>1. writer[t].units \in Seq(Units(RowType)) BY <1>1, UnitsOfThread
  <2>. QED BY <2>1, ConcatProperties DEF Enqueue, TypeOK
<1>3. PICK w \in Writers(t) : w = Sent(writer[t]) BY <1>1, SentType
<1>4. w.units = <<>> /\ w.block = writer[t].block /\ w.rows = writer[t].rows
      BY <1>1, <1>3 DEF Sent, Writers
<1>5. /\ pc' = [pc EXCEPT ![t] = "free"] /\ ahead' = [ahead EXCEPT ![t] = 0]
      /\ pc[t] = "queue" /\ writer' = [writer EXCEPT ![t] = w]
      /\ UNCHANGED <<opt, link, blocks, completed, wire, log, flushed, acked>>
      BY <1>3 DEF Enqueue, Return
<1>. QED BY <1>2, <1>4, <1>5 DEF TypeOK, WriterInv, Buffered

LEMMA WriteType ==
    ASSUME TypeOK, WriterInv, NEW t \in Threads, WriteUnit(t)
    PROVE  TypeOK' /\ WriterInv'
<1>1. /\ writer[t] \in Writers(t) /\ writer[t].units \in Seq(Units(OwnRows(t)))
      /\ writer[t].units # <<>>
      BY DEF TypeOK, Writers, WriteUnit
<1>2. PICK u \in Units(RowType), r \in Seq(Units(OwnRows(t))) :
         u = Head(writer[t].units) /\ r = Tail(writer[t].units)
      BY <1>1, UnitsOfThread
<1>3. Append(wire, u) \in Seq(Units(RowType)) BY AppendProperties DEF TypeOK
<1>4. PICK w \in Writers(t) : w = [writer[t] EXCEPT !.units = r] BY <1>1 DEF Writers
<1>5. w.block = writer[t].block /\ w.rows = writer[t].rows BY <1>1, <1>4 DEF Writers
<1>6. writer' = [writer EXCEPT ![t] = w] /\ wire' = Append(wire, u)
      /\ UNCHANGED <<opt, link, blocks, completed, pc, ahead, queue, log, flushed, acked>>
      /\ ~Buffered
      BY <1>2, <1>4 DEF WriteUnit
<1>. QED BY <1>3, <1>5, <1>6 DEF TypeOK, WriterInv, Buffered

LEMMA SendType ==
    ASSUME TypeOK, WriterInv, Send
    PROVE  TypeOK' /\ WriterInv'
<1>1. queue \in Seq(Units(RowType)) /\ queue # <<>> /\ wire \in Seq(Units(RowType))
      BY DEF TypeOK, Send
<1>2. Head(queue) \in Units(RowType) /\ Tail(queue) \in Seq(Units(RowType))
      BY <1>1, HeadAndTail
<1>3. Unit("transaction", RowsOf(queue)) \in Units(RowType)
  <2>1. RowsOf(queue) \in Seq(RowType) /\ "transaction" \in Kinds BY <1>1, RowsOfType DEF Kinds
  <2>. QED BY <2>1, UnitType
<1>4. wire' \in Seq(Units(RowType)) /\ queue' \in Seq(Units(RowType))
  <2>1. CASE opt.mode = "auto"
    <3>1. wire' = Append(wire, Unit("transaction", RowsOf(queue))) /\ queue' = <<>>
          BY <2>1 DEF Send
    <3>. QED BY <1>1, <1>3, <3>1, AppendProperties, EmptySeq
  <2>2. CASE opt.mode # "auto"
    <3>1. wire' = Append(wire, Head(queue)) /\ queue' = Tail(queue) BY <2>2 DEF Send
    <3>. QED BY <1>1, <1>2, <3>1, AppendProperties
  <2>. QED BY <2>1, <2>2
<1>5. ahead' \in [Threads -> Nat]
  <2>1. Len(wire') \in Nat BY <1>4, LenProperties
  <2>. QED BY <2>1 DEF Send, TypeOK
<1>6. UNCHANGED <<opt, link, writer, blocks, completed, pc, log, flushed, acked>> /\ queue # <<>>
      BY DEF Send
<1>. QED BY <1>4, <1>5, <1>6 DEF TypeOK, WriterInv, Buffered

(* What the project makes of a unit. *)
Results(u) == [i \in DOMAIN u.rows |-> [row |-> u.rows[i], ok |-> i \in Passing(window, u)]]

LEMMA ResultsType ==
    ASSUME NEW u \in Units(RowType)
    PROVE  /\ Results(u) \in Seq(LogType) /\ Len(Results(u)) = Len(u.rows)
           /\ u.rows \in Seq(RowType) /\ Len(u.rows) \in Nat
           /\ \A i \in 1 .. Len(u.rows) : /\ Results(u)[i].row = u.rows[i]
                                          /\ Results(u)[i].ok = (i \in Passing(window, u))
<1>1. u.rows \in Seq(RowType) BY DEF Units
<1>2. DOMAIN u.rows = 1 .. Len(u.rows) /\ Len(u.rows) \in Nat BY <1>1, LenProperties
<1>3. ASSUME NEW i \in 1 .. Len(u.rows)
      PROVE  [row |-> u.rows[i], ok |-> i \in Passing(window, u)] \in LogType
  <2>1. u.rows[i] \in RowType BY <1>1, ElementOfSeq
  <2>2. (i \in Passing(window, u)) \in BOOLEAN OBVIOUS
  <2>. QED BY <2>1, <2>2 DEF LogType
<1>4. Results(u) \in [1 .. Len(u.rows) -> LogType] BY <1>2, <1>3 DEF Results
<1>5. Results(u) \in Seq(LogType) BY <1>2, <1>4, SeqDef
<1>6. Len(Results(u)) = Len(u.rows)
  <2>1. DOMAIN Results(u) = 1 .. Len(u.rows) BY <1>4
  <2>. QED BY <1>2, <1>5, <2>1, LenProperties
<1>. QED BY <1>1, <1>2, <1>5, <1>6 DEF Results

LEMMA ProcessStep ==
    ASSUME TypeOK, Process
    PROVE  /\ Head(wire) \in Units(RowType) /\ Tail(wire) \in Seq(Units(RowType))
           /\ wire # <<>> /\ wire' = Tail(wire) /\ log' = log \o Results(Head(wire))
           /\ UNCHANGED <<opt, link, writer, blocks, completed, pc, queue, flushed, acked>>
<1>1. wire \in Seq(Units(RowType)) /\ wire # <<>> BY DEF TypeOK, Process
<1>. QED BY <1>1, HeadAndTail DEF Process, Results

LEMMA ProcessType ==
    ASSUME TypeOK, WriterInv, Process
    PROVE  TypeOK' /\ WriterInv'
<1>1. log \o Results(Head(wire)) \in Seq(LogType)
  <2>1. Results(Head(wire)) \in Seq(LogType) BY ProcessStep, ResultsType
  <2>. QED BY <2>1, ConcatProperties DEF TypeOK
<1>2. ahead' \in [Threads -> Nat] BY DEF Process, TypeOK
<1>. QED BY <1>1, <1>2, ProcessStep DEF TypeOK, WriterInv, Buffered

(* What is left of the socket's units when the connection breaks. *)
LEMMA PrefixSplits ==
    ASSUME NEW S, NEW s \in Seq(S), NEW p \in Prefixes(s)
    PROVE  p \in Seq(S) /\ \E r \in Seq(S) : s = p \o r
<1>1. PICK l \in 0 .. Len(s) : p = SubSeq(s, 1, l) BY DEF Prefixes
<1>2. Len(s) \in Nat /\ l \in Int /\ \A i \in 1 .. Len(s) : s[i] \in S
      BY LenProperties, ElementOfSeq
<1>. DEFINE r == SubSeq(s, l + 1, Len(s))
<1>3. /\ p \in Seq(S) /\ Len(p) = l /\ \A i \in 1 .. l : p[i] = s[i]
  <2>1. 1 \in Int /\ \A i \in 1 .. l : s[i] \in S BY <1>2
  <2>2. /\ SubSeq(s, 1, l) \in Seq(S) /\ Len(SubSeq(s, 1, l)) = IF 1 <= l THEN l - 1 + 1 ELSE 0
        /\ \A i \in 1 .. l - 1 + 1 : SubSeq(s, 1, l)[i] = s[1 + i - 1]
        BY <1>2, <2>1, SubSeqProperties
  <2>3. l - 1 + 1 = l /\ (IF 1 <= l THEN l - 1 + 1 ELSE 0) = l BY <1>2
  <2>4. \A i \in 1 .. l : 1 + i - 1 = i BY <1>2
  <2>. QED BY <1>1, <2>2, <2>3, <2>4
<1>4. /\ r \in Seq(S) /\ Len(r) = Len(s) - l /\ \A i \in 1 .. Len(s) - l : r[i] = s[l + i]
  <2>0. l + 1 \in Int /\ Len(s) \in Int BY <1>2
  <2>1. \A i \in l + 1 .. Len(s) : s[i] \in S BY <1>2
  <2>2. PICK m \in Int, n \in Int : m = l + 1 /\ n = Len(s) BY <2>0
  <2>3. /\ SubSeq(s, m, n) \in Seq(S)
        /\ Len(SubSeq(s, m, n)) = IF m <= n THEN n - m + 1 ELSE 0
        /\ \A i \in 1 .. n - m + 1 : SubSeq(s, m, n)[i] = s[m + i - 1]
        BY <2>1, <2>2, SubSeqProperties
  <2>4. n - m + 1 = Len(s) - l /\ (IF m <= n THEN n - m + 1 ELSE 0) = Len(s) - l
        BY <1>2, <2>2
  <2>5. \A i \in 1 .. Len(s) - l : m + i - 1 = l + i BY <1>2, <2>2
  <2>. QED BY <2>2, <2>3, <2>4, <2>5
<1>. HIDE DEF r
<1>5. /\ p \o r \in Seq(S) /\ Len(p \o r) = Len(p) + Len(r)
      /\ \A i \in 1 .. Len(p) + Len(r) :
            (p \o r)[i] = IF i <= Len(p) THEN p[i] ELSE r[i - Len(p)]
      BY <1>3, <1>4, ConcatProperties
<1>6. ASSUME NEW i \in 1 .. Len(s) PROVE s[i] = (p \o r)[i]
  <2>1. CASE i <= l
    <3>1. i \in 1 .. l /\ i \in 1 .. Len(p) + Len(r) BY <1>2, <1>3, <1>4, <2>1
    <3>. QED BY <1>3, <1>5, <2>1, <3>1
  <2>2. CASE ~(i <= l)
    <3>1. i - l \in 1 .. Len(s) - l /\ l + (i - l) = i /\ i \in 1 .. Len(p) + Len(r)
          BY <1>2, <1>3, <1>4, <2>2
    <3>. QED BY <1>3, <1>4, <1>5, <2>2, <3>1
  <2>. QED BY <2>1, <2>2
<1>7. Len(s) = Len(p \o r) BY <1>2, <1>3, <1>4, <1>5
<1>8. s = p \o r BY <1>5, <1>6, <1>7, SeqEqual
<1>. QED BY <1>3, <1>4, <1>8

LEMMA LoseType ==
    ASSUME TypeOK, WriterInv, LoseLink
    PROVE  TypeOK' /\ WriterInv'
<1>1. wire' \in Seq(Units(RowType))
  <2>1. wire \in Seq(Units(RowType)) /\ wire' \in Prefixes(wire) BY DEF TypeOK, LoseLink
  <2>. QED BY <2>1, PrefixSplits
<1>. QED BY <1>1 DEF LoseLink, TypeOK, WriterInv, Buffered

LEMMA StepType == TypeOK /\ WriterInv /\ [Next]_vars => TypeOK' /\ WriterInv'
<1>. SUFFICES ASSUME TypeOK, WriterInv, [Next]_vars PROVE TypeOK' /\ WriterInv' OBVIOUS
<1>1. CASE Connect BY <1>1 DEF Connect, sdk, TypeOK, WriterInv, Buffered
<1>2. CASE Send BY <1>2, SendType
<1>3. CASE Process BY <1>3, ProcessType
<1>4. CASE LoseLink BY <1>4, LoseType
<1>5. ASSUME NEW t \in Threads, ThreadStep(t) PROVE TypeOK' /\ WriterInv'
      BY <1>5, RowStepType, CompleteStepType, WaitType DEF ThreadStep
<1>6. ASSUME NEW t \in Threads, Finish(t) PROVE TypeOK' /\ WriterInv'
      BY <1>6, EnqueueType, WriteType, WaitType DEF Finish
<1>7. CASE UNCHANGED vars BY <1>7 DEF vars, TypeOK, WriterInv, Buffered
<1>. QED BY <1>1, <1>2, <1>3, <1>4, <1>5, <1>6, <1>7 DEF Next

-----------------------------------------------------------------------------
(* Rows in order. *)

(* b continues a, and with the numbers that come next. *)
Continues(a, b) == \E x \in Seq(RowType) : b = a \o x
CountsOn(a, b)  == \E x \in Seq(RowType) :
                      b = a \o x /\ \A j \in 1 .. Len(x) : x[j].n = Len(a) + j

LEMMA ContinuesOnly ==
    ASSUME NEW a \in Seq(RowType), NEW b, Continues(a, b)
    PROVE  /\ b \in Seq(RowType) /\ Len(a) \in Nat /\ Len(b) \in Nat /\ Len(a) <= Len(b)
           /\ \A i \in 1 .. Len(a) : b[i] = a[i]
<1>1. PICK x \in Seq(RowType) : b = a \o x BY DEF Continues
<1>2. /\ b \in Seq(RowType) /\ Len(b) = Len(a) + Len(x)
      /\ \A i \in 1 .. Len(a) + Len(x) : b[i] = IF i <= Len(a) THEN a[i] ELSE x[i - Len(a)]
      BY <1>1, ConcatProperties
<1>3. Len(a) \in Nat /\ Len(x) \in Nat BY LenProperties
<1>. QED BY <1>2, <1>3

LEMMA ContinuesSelf == ASSUME NEW a \in Seq(RowType) PROVE Continues(a, a) /\ CountsOn(a, a)
<1>1. <<>> \in Seq(RowType) /\ Len(<<>>) = 0 /\ a = a \o <<>> BY EmptySeq, ConcatEmptySeq
<1>2. PICK e \in Seq(RowType) : Len(e) = 0 /\ a = a \o e BY <1>1
<1>3. \A j \in 1 .. Len(e) : e[j].n = Len(a) + j
  <2>1. 1 .. Len(e) = {} BY <1>2
  <2>. QED BY <2>1
<1>. QED BY <1>2, <1>3 DEF Continues, CountsOn

LEMMA InOrderPart ==
    ASSUME NEW a \in Seq(RowType), NEW b, Continues(a, b), InOrder(b)
    PROVE  InOrder(a)
<1>1. /\ b \in Seq(RowType) /\ Len(a) \in Nat /\ Len(b) \in Nat /\ Len(a) <= Len(b)
      /\ \A i \in 1 .. Len(a) : b[i] = a[i]
      BY ContinuesOnly
<1>2. DOMAIN a = 1 .. Len(a) /\ DOMAIN b = 1 .. Len(b) BY <1>1, LenProperties
<1>. QED BY <1>1, <1>2 DEF InOrder

LEMMA InOrderMore ==
    ASSUME NEW a \in Seq(RowType), NEW b, CountsOn(a, b), InOrder(a)
    PROVE  InOrder(b)
<1>1. PICK x \in Seq(RowType) : b = a \o x /\ \A j \in 1 .. Len(x) : x[j].n = Len(a) + j
      BY DEF CountsOn
<1>2. /\ b \in Seq(RowType) /\ Len(b) = Len(a) + Len(x)
      /\ \A i \in 1 .. Len(a) + Len(x) : b[i] = IF i <= Len(a) THEN a[i] ELSE x[i - Len(a)]
      BY <1>1, ConcatProperties
<1>3. Len(a) \in Nat /\ Len(x) \in Nat /\ DOMAIN a = 1 .. Len(a) /\ DOMAIN b = 1 .. Len(b)
      BY <1>2, LenProperties
<1>4. ASSUME NEW i \in 1 .. Len(b) PROVE b[i].n = i
  <2>1. CASE i <= Len(a)
    <3>1. i \in 1 .. Len(a) BY <1>3, <2>1
    <3>. QED BY <1>2, <1>3, <2>1, <3>1 DEF InOrder
  <2>2. CASE ~(i <= Len(a))
    <3>1. i - Len(a) \in 1 .. Len(x) /\ Len(a) + (i - Len(a)) = i BY <1>2, <1>3, <2>2
    <3>2. x[i - Len(a)].n = i BY <1>1, <3>1
    <3>. QED BY <1>2, <2>2, <3>2
  <2>. QED BY <2>1, <2>2
<1>. QED BY <1>3, <1>4 DEF InOrder

(* The places of a thread's rows continue each other. *)
LEMMA PlacesContinue ==
    ASSUME TypeOK, NEW t \in Threads
    PROVE  /\ Continues(By(t, LogRows), By(t, Arriving))
           /\ Continues(By(t, Arriving), Written(t))
<1>1. /\ By(t, LogRows) \in Seq(RowType) /\ By(t, RowsOf(wire)) \in Seq(RowType)
      /\ By(t, RowsOf(queue)) \in Seq(RowType) /\ By(t, Arriving) \in Seq(RowType)
      /\ By(t, Arriving) = By(t, LogRows) \o By(t, RowsOf(wire))
      /\ By(t, Handed) = By(t, Arriving) \o By(t, RowsOf(queue))
      BY Places
<1>2. Drafts(t) \in Seq(RowType) BY DraftsType, ByOwn
<1>3. PICK a \in Seq(RowType), q \in Seq(RowType), d \in Seq(RowType) :
         a = By(t, Arriving) /\ q = By(t, RowsOf(queue)) /\ d = Drafts(t)
      BY <1>1, <1>2
<1>4. (a \o q) \o d = a \o (q \o d) BY ConcatAssociative
<1>5. PICK y \in Seq(RowType) : y = q \o d BY ConcatProperties
<1>6. Written(t) = a \o y BY <1>1, <1>3, <1>4, <1>5 DEF Written
<1>. QED BY <1>1, <1>3, <1>6 DEF Continues

InPlaces == \A t \in Threads :
    /\ By(t, LogRows) \in Seq(RowType) /\ By(t, Arriving) \in Seq(RowType)
    /\ Written(t) \in Seq(RowType)
    /\ Continues(By(t, LogRows), By(t, Arriving)) /\ Continues(By(t, Arriving), Written(t))

LEMMA InPlacesNow == TypeOK => InPlaces
BY Places, PlacesContinue DEF InPlaces

LEMMA InPlacesNext == TypeOK' => InPlaces'
BY InPlacesNow, PTL

(* A step that moves rows on, and at most adds the next rows of a thread. *)
MovesOn ==
    \A s \in Threads : /\ Continues(By(s, LogRows), By(s, LogRows)')
                       /\ Continues(By(s, Arriving), By(s, Arriving)')
                       /\ CountsOn(Written(s), Written(s)')
                       /\ Len(Written(s)) = completed[s] => Len(Written(s)') = completed'[s]
                       /\ link = "lost" => By(s, Arriving)' = By(s, Arriving)

LEMMA OrderKept ==
    ASSUME TypeOK, TypeOK', OrderInv, MovesOn, link' = "lost" <=> link = "lost"
    PROVE  OrderInv'
<1>1. ASSUME NEW s \in Threads
      PROVE  /\ InOrder(By(s, LogRows))' /\ InOrder(By(s, Arriving))'
             /\ link' # "lost" => /\ InOrder(Written(s))' /\ Len(Written(s)') = completed'[s]
  <2>1. PICK a \in Seq(RowType), w \in Seq(RowType) : a = By(s, Arriving) /\ w = Written(s)
        BY Places
  <2>2. PICK l2 \in Seq(RowType), a2 \in Seq(RowType), w2 \in Seq(RowType) :
           l2 = By(s, LogRows)' /\ a2 = By(s, Arriving)' /\ w2 = Written(s)'
        BY InPlacesNext DEF InPlaces
  <2>3. Continues(l2, a2) /\ Continues(a2, w2) BY <2>2, InPlacesNext DEF InPlaces
  <2>4. /\ CountsOn(w, w2) /\ (link = "lost" => a2 = a)
        /\ Len(w) = completed[s] => Len(w2) = completed'[s]
        BY <2>1, <2>2 DEF MovesOn
  <2>5. InOrder(a) /\ (link # "lost" => InOrder(w) /\ Len(w) = completed[s])
        BY <2>1 DEF OrderInv, InOrderOnce
  <2>6. link # "lost" => InOrder(w2) BY <2>4, <2>5, InOrderMore
  <2>7. InOrder(a2) BY <2>3, <2>4, <2>5, <2>6, InOrderPart
  <2>8. InOrder(l2) BY <2>3, <2>7, InOrderPart
  <2>. QED BY <2>2, <2>4, <2>5, <2>6, <2>7, <2>8
<1>. QED BY <1>1 DEF OrderInv, InOrderOnce

LEMMA PromisesStay ==
    ASSUME TypeOK, PromisesKept, MovesOn, link' = "lost" <=> link = "lost",
           UNCHANGED <<flushed, acked>>
    PROVE  PromisesKept'
<1>1. ASSUME NEW s \in Threads
      PROVE  /\ link' # "lost" => flushed'[s] <= Len(By(s, Arriving)')
             /\ acked'[s] <= Len(By(s, LogRows)')
  <2>1. PICK a \in Seq(RowType), l \in Seq(RowType) : a = By(s, Arriving) /\ l = By(s, LogRows)
        BY Places
  <2>2. Continues(a, By(s, Arriving)') /\ Continues(l, By(s, LogRows)') BY <2>1 DEF MovesOn
  <2>3. PICK m \in Nat, n \in Nat : m = Len(By(s, Arriving)') /\ n = Len(By(s, LogRows)')
                                    /\ Len(a) <= m /\ Len(l) <= n
        BY <2>2, ContinuesOnly
  <2>4. (link # "lost" => flushed[s] <= Len(a)) /\ acked[s] <= Len(l)
        BY <2>1 DEF PromisesKept, Arriving
  <2>5. flushed[s] \in Nat /\ acked[s] \in Nat /\ Len(a) \in Nat /\ Len(l) \in Nat
        BY LenProperties DEF TypeOK
  <2>. QED BY <2>3, <2>4, <2>5
<1>. QED BY <1>1 DEF PromisesKept, Arriving

(* Steps that leave the rows where they are. *)
LEMMA RowsStay ==
    ASSUME TypeOK, UNCHANGED <<log, wire, queue, completed>>,
           \A s \in Threads : Drafts(s)' = Drafts(s)
    PROVE  MovesOn
<1>1. ASSUME NEW s \in Threads
      PROVE  /\ By(s, LogRows)' = By(s, LogRows) /\ By(s, Arriving)' = By(s, Arriving)
             /\ Written(s)' = Written(s)
  <2>1. /\ LogRows' = LogRows /\ Arriving' = Arriving /\ Handed' = Handed
        BY DEF LogRows, Arriving, Handed
  <2>. QED BY <2>1 DEF Written
<1>. QED BY <1>1, Places, ContinuesSelf DEF MovesOn

(* What is completed comes next, wherever it goes. *)
LEMMA CompleteRows ==
    ASSUME TypeOK, NEW t \in Threads, NEW w \in Writers(t), Complete(t, w)
    PROVE  /\ UNCHANGED <<log, wire, queue, link, flushed, acked>>
           /\ RowsOf(w.units) \in Seq(OwnRows(t)) /\ w.rows \in Seq(OwnRows(t))
           /\ Written(t)' = By(t, Handed) \o (RowsOf(w.units) \o w.rows)
           /\ \A s \in Threads \ {t} : Written(s)' = Written(s)
<1>1. /\ UNCHANGED <<log, wire, queue, link, flushed, acked>> /\ DOMAIN writer = Threads
      /\ w.rows \in Seq(OwnRows(t)) /\ w.units \in Seq(Units(OwnRows(t)))
      /\ writer' = [writer EXCEPT ![t] = w]
      BY DEF Complete, Format, TypeOK, Writers, sdk
<1>2. RowsOf(w.units) \in Seq(OwnRows(t))
  <2>1. PICK us \in Seq(Units(OwnRows(t))) : us = w.units BY <1>1
  <2>2. RowsOf(us) \in Seq(OwnRows(t)) BY RowsOfType
  <2>. QED BY <2>1, <2>2
<1>3. Handed' = Handed BY <1>1 DEF Handed, LogRows
<1>4. writer'[t] = w /\ \A s \in Threads \ {t} : writer'[s] = writer[s] BY <1>1
<1>5. Drafts(t)' = RowsOf(w.units) \o w.rows BY <1>4 DEF Drafts
<1>6. \A s \in Threads \ {t} : Drafts(s)' = Drafts(s) BY <1>4 DEF Drafts
<1>. QED BY <1>1, <1>2, <1>3, <1>5, <1>6 DEF Written

LEMMA CompleteMoves ==
    ASSUME TypeOK, NEW t \in Threads, NEW w \in Writers(t), Complete(t, w),
           NEW b, b = By(t, Handed) \o (RowsOf(w.units) \o w.rows),
           CountsOn(Written(t), b), Len(Written(t)) = completed[t] => Len(b) = completed'[t],
           \A s \in Threads \ {t} : completed'[s] = completed[s]
    PROVE  MovesOn
<1>1. ASSUME NEW s \in Threads
      PROVE  By(s, LogRows)' = By(s, LogRows) /\ By(s, Arriving)' = By(s, Arriving)
      BY CompleteRows DEF LogRows, Arriving
<1>2. ASSUME NEW s \in Threads
      PROVE  /\ CountsOn(Written(s), Written(s)')
             /\ Len(Written(s)) = completed[s] => Len(Written(s)') = completed'[s]
  <2>1. CASE s = t BY <2>1, CompleteRows
  <2>2. CASE s # t BY <2>2, CompleteRows, Places, ContinuesSelf
  <2>. QED BY <2>1, <2>2
<1>. QED BY <1>1, <1>2, Places, ContinuesSelf DEF MovesOn

(* More rows after those of the writer, numbered on. *)
LEMMA DraftsMore ==
    ASSUME TypeOK, NEW t \in Threads, NEW x \in Seq(OwnRows(t)),
           \A j \in 1 .. Len(x) : x[j].n = Len(Written(t)) + j
    PROVE  LET b == By(t, Handed) \o (Drafts(t) \o x)
           IN  CountsOn(Written(t), b) /\ Len(b) = Len(Written(t)) + Len(x)
<1>1. PICK h \in Seq(RowType), d \in Seq(RowType), y \in Seq(RowType) :
         h = By(t, Handed) /\ d = Drafts(t) /\ y = x
      BY Places, DraftsType, ByOwn
<1>2. (h \o d) \o y = h \o (d \o y) BY ConcatAssociative
<1>3. PICK w \in Seq(RowType) : w = h \o d BY ConcatProperties
<1>4. Len(w \o y) = Len(w) + Len(y) BY ConcatProperties
<1>. QED BY <1>1, <1>2, <1>3, <1>4 DEF CountsOn, Written

LEMMA EndRowRows ==
    ASSUME TypeOK, WriterInv, NEW t \in Threads, NEW row \in OwnRows(t)
    PROVE  RowsOf(EndRow(writer[t], row).units) \o EndRow(writer[t], row).rows
              = Drafts(t) \o <<row>>
<1>1. writer[t] \in Writers(t) BY DEF TypeOK
<1>2. PICK w \in Writers(t) : w = writer[t] /\ (w.block = "none" => w.rows = <<>>)
      BY <1>1 DEF WriterInv
<1>3. w.rows \in Seq(OwnRows(t)) /\ w.units \in Seq(Units(OwnRows(t))) BY DEF Writers
<1>4. PICK x \in Seq(OwnRows(t)), y \in Seq(OwnRows(t)) :
         x = RowsOf(w.units) /\ y = w.rows
      BY <1>2, <1>3, DraftsType
<1>5. <<row>> \in Seq(OwnRows(t)) OBVIOUS
<1>6. PICK r \in Seq(OwnRows(t)) : r = <<row>> BY <1>5
<1>7. CASE w.block = "none"
  <2>1. /\ EndRow(w, row).units = Append(w.units, Unit("row", r))
        /\ EndRow(w, row).rows = <<>>
        BY <1>2, <1>6, <1>7 DEF EndRow, Writers
  <2>2. Unit("row", r) \in Units(OwnRows(t)) /\ Unit("row", r).rows = r
        BY UnitType DEF Kinds, Unit
  <2>3. RowsOf(EndRow(w, row).units) = x \o r
        BY <1>3, <1>4, <2>1, <2>2, RowsOfAppend
  <2>4. PICK z \in Seq(OwnRows(t)) : z = x \o r BY ConcatProperties
  <2>5. z \o <<>> = z /\ x \o <<>> = x BY ConcatEmptySeq
  <2>. QED BY <1>2, <1>4, <1>6, <1>7, <2>1, <2>3, <2>4, <2>5 DEF Drafts
<1>8. CASE w.block # "none"
  <2>1. EndRow(w, row).units = w.units /\ EndRow(w, row).rows = Append(y, row)
        BY <1>4, <1>8 DEF EndRow, Writers
  <2>2. Append(y, row) = y \o r BY <1>6, AppendIsConcat
  <2>3. x \o (y \o r) = (x \o y) \o r BY ConcatAssociative
  <2>. QED BY <1>2, <1>4, <1>6, <2>1, <2>2, <2>3 DEF Drafts
<1>. QED BY <1>7, <1>8

LEMMA EndBlockRows ==
    ASSUME TypeOK, NEW t \in Threads, CanEndBlock(writer[t])
    PROVE  RowsOf(EndBlock(writer[t]).units) \o EndBlock(writer[t]).rows = Drafts(t)
<1>1. PICK w \in Writers(t) : w = writer[t] BY DEF TypeOK
<1>3. w.rows \in Seq(OwnRows(t)) /\ w.units \in Seq(Units(OwnRows(t))) BY DEF Writers
<1>4. PICK x \in Seq(OwnRows(t)), y \in Seq(OwnRows(t)) : x = RowsOf(w.units) /\ y = w.rows
      BY <1>1, <1>3, DraftsType
<1>5. EndBlock(w).rows = <<>> BY DEF EndBlock, Writers
<1>6. RowsOf(EndBlock(w).units) = x \o y
  <2>1. CASE y = <<>>
    <3>1. EndBlock(w).units = w.units BY <1>4, <2>1 DEF EndBlock, Writers
    <3>. QED BY <1>4, <2>1, <3>1, ConcatEmptySeq
  <2>2. CASE y # <<>>
    <3>1. EndBlock(w).units = Append(w.units, Unit(w.block, y))
          BY <1>4, <2>2 DEF EndBlock, Writers
    <3>2. w.block \in Kinds BY <1>1 DEF Writers, Kinds, CanEndBlock
    <3>3. Unit(w.block, y) \in Units(OwnRows(t)) /\ Unit(w.block, y).rows = y
          BY <3>2, UnitType DEF Unit
    <3>. QED BY <1>3, <1>4, <3>1, <3>3, RowsOfAppend
  <2>. QED BY <2>1, <2>2
<1>7. PICK z \in Seq(OwnRows(t)) : z = x \o y BY ConcatProperties
<1>8. z \o <<>> = z BY ConcatEmptySeq
<1>. QED BY <1>1, <1>4, <1>5, <1>6, <1>7, <1>8 DEF Drafts

LEMMA WithUnitRows ==
    ASSUME TypeOK, WriterInv, NEW t \in Threads, writer[t].block = "none",
           NEW u \in Units(OwnRows(t))
    PROVE  RowsOf(WithUnit(writer[t], u).units) \o WithUnit(writer[t], u).rows
              = Drafts(t) \o u.rows
<1>1. PICK w \in Writers(t) : w = writer[t] /\ w.rows = <<>> BY DEF TypeOK, WriterInv
<1>2. w.units \in Seq(Units(OwnRows(t))) /\ u.rows \in Seq(OwnRows(t)) BY DEF Writers, Units
<1>3. PICK x \in Seq(OwnRows(t)), r \in Seq(OwnRows(t)) : x = RowsOf(w.units) /\ r = u.rows
      BY <1>1, <1>2, DraftsType
<1>4. WithUnit(w, u).units = Append(w.units, u) /\ WithUnit(w, u).rows = <<>>
      BY <1>1 DEF WithUnit, Writers
<1>5. RowsOf(WithUnit(w, u).units) = x \o r BY <1>2, <1>3, <1>4, RowsOfAppend
<1>6. PICK z \in Seq(OwnRows(t)) : z = x \o r BY ConcatProperties
<1>7. z \o <<>> = z /\ x \o <<>> = x BY ConcatEmptySeq
<1>. QED BY <1>1, <1>3, <1>4, <1>5, <1>6, <1>7 DEF Drafts

LEMMA Associates ==
    \A a, b, c \in Seq(RowType) : (a \o b) \o c = a \o (b \o c)
BY ConcatAssociative

LEMMA AssociatesFour ==
    ASSUME NEW a \in Seq(RowType), NEW b \in Seq(RowType), NEW c \in Seq(RowType),
           NEW d \in Seq(RowType)
    PROVE  (a \o b) \o (c \o d) = a \o ((b \o c) \o d)
<1>1. PICK e \in Seq(RowType) : e = c \o d BY ConcatProperties
<1>2. (a \o b) \o e = a \o (b \o e) BY Associates
<1>3. (b \o c) \o d = b \o (c \o d) BY Associates
<1>. QED BY <1>1, <1>2, <1>3

LEMMA OwnAssociates ==
    ASSUME NEW t, NEW a \in Seq(RowType), NEW b \in Seq(OwnRows(t)),
           NEW c \in Seq(OwnRows(t)), NEW d \in Seq(OwnRows(t))
    PROVE  (a \o b) \o (c \o d) = a \o ((b \o c) \o d)
BY AssociatesFour, ByOwn

(* What a thread has completed goes from its writer to the end of the queue. *)
LEMMA EnqueueMoves == ASSUME TypeOK, NEW t \in Threads, Enqueue(t) PROVE MovesOn
<1>1. /\ UNCHANGED <<log, wire, completed, link>> /\ queue \in Seq(Units(RowType))
      /\ DOMAIN writer = Threads /\ writer[t] \in Writers(t)
      BY DEF Enqueue, Return, TypeOK
<1>2. PICK us \in Seq(Units(OwnRows(t))), y \in Seq(OwnRows(t)) :
         us = writer[t].units /\ y = writer[t].rows
      BY <1>1 DEF Writers
<1>3. PICK x \in Seq(OwnRows(t)) : x = RowsOf(us) BY RowsOfType
<1>5. x \in Seq(RowType) /\ y \in Seq(RowType) /\ By(t, x) = x
      /\ \A s \in Threads \ {t} : By(s, x) = <<>>
      BY ByOwn
<1>6. PICK h \in Seq(RowType) : h = Handed BY Places
<1>7. \A s \in Threads : By(s, h) \in Seq(RowType) BY ByType
<1>8. writer' = [writer EXCEPT ![t] = Sent(writer[t])] /\ queue' = queue \o us
      BY <1>2 DEF Enqueue
<1>9. Sent(writer[t]).units = <<>> /\ Sent(writer[t]).rows = y
      BY <1>1, <1>2 DEF Sent, Writers
<1>10. Drafts(t)' = y
  <2>1. writer'[t].units = <<>> /\ writer'[t].rows = y BY <1>1, <1>8, <1>9
  <2>2. <<>> \o y = y BY ConcatEmptySeq
  <2>. QED BY <2>1, <2>2, RowsOfEmpty DEF Drafts
<1>11. \A s \in Threads \ {t} : Drafts(s)' = Drafts(s)
  <2>1. \A s \in Threads \ {t} : writer'[s] = writer[s] BY <1>1, <1>8
  <2>. QED BY <2>1 DEF Drafts
<1>12. Handed' = h \o x
  <2>1. us \in Seq(Units(RowType)) BY UnitsOfThread
  <2>2. RowsOf(queue \o us) = RowsOf(queue) \o x
    <3>1. PICK q \in Seq(Units(RowType)), v \in Seq(Units(RowType)) : q = queue /\ v = us
          BY <1>1, <2>1
    <3>2. RowsOf(q \o v) = RowsOf(q) \o RowsOf(v) BY RowsOfConcat
    <3>. QED BY <1>3, <3>1, <3>2
  <2>3. PICK a \in Seq(RowType), q \in Seq(RowType) : a = Arriving /\ q = RowsOf(queue)
        BY Places
  <2>4. (a \o q) \o x = a \o (q \o x) BY <1>5, Associates
  <2>5. h = a \o q BY <1>6, <2>3 DEF Handed, Arriving
  <2>6. Handed' = a \o (q \o x) BY <1>1, <1>8, <2>2, <2>3 DEF Handed, Arriving, LogRows
  <2>. QED BY <2>4, <2>5, <2>6
<1>13. \A s \in Threads : By(s, h \o x) = By(s, h) \o By(s, x) BY <1>5, ByConcat
<1>14. Written(t)' = Written(t)
  <2>1. Written(t)' = (By(t, h) \o x) \o y BY <1>5, <1>10, <1>12, <1>13 DEF Written
  <2>2. Written(t) = By(t, h) \o (x \o y) BY <1>2, <1>3, <1>6 DEF Written, Drafts
  <2>3. (By(t, h) \o x) \o y = By(t, h) \o (x \o y) BY <1>5, <1>7, Associates
  <2>. QED BY <2>1, <2>2, <2>3
<1>15. ASSUME NEW s \in Threads \ {t} PROVE Written(s)' = Written(s)
  <2>1. Written(s)' = (By(s, h) \o <<>>) \o Drafts(s)
        BY <1>5, <1>11, <1>12, <1>13 DEF Written
  <2>. QED BY <1>6, <1>7, <2>1, ConcatEmptySeq DEF Written
<1>16. LogRows' = LogRows /\ Arriving' = Arriving BY <1>1 DEF Arriving, LogRows
<1>17. ASSUME NEW s \in Threads
       PROVE  /\ Continues(By(s, LogRows), By(s, LogRows)')
              /\ Continues(By(s, Arriving), By(s, Arriving)')
              /\ CountsOn(Written(s), Written(s)') /\ Written(s)' = Written(s)
  <2>1. Written(s)' = Written(s) BY <1>14, <1>15
  <2>. QED BY <1>16, <2>1, Places, ContinuesSelf
<1>. QED BY <1>1, <1>16, <1>17 DEF MovesOn

(* Rows handed to the socket: those of the queue, or of a writer. *)
LEMMA HandsOn ==
    ASSUME TypeOK, NEW x \in Seq(RowType), link # "lost",
           UNCHANGED <<log, completed>>, RowsOf(wire)' = RowsOf(wire) \o x,
           \A s \in Threads : Written(s)' = Written(s)
    PROVE  MovesOn
<1>1. LogRows' = LogRows BY DEF LogRows
<1>2. Arriving' = Arriving \o x
  <2>1. PICK l \in Seq(RowType), y \in Seq(RowType) : l = LogRows /\ y = RowsOf(wire)
        BY LogRowsType, RowsOfType DEF TypeOK
  <2>2. (l \o y) \o x = l \o (y \o x) BY Associates
  <2>. QED BY <1>1, <2>1, <2>2 DEF Arriving
<1>3. ASSUME NEW s \in Threads
      PROVE  /\ Continues(By(s, LogRows), By(s, LogRows)')
             /\ Continues(By(s, Arriving), By(s, Arriving)')
             /\ CountsOn(Written(s), Written(s)')
  <2>1. Continues(By(s, LogRows), By(s, LogRows)') BY <1>1, Places, ContinuesSelf
  <2>2. By(s, Arriving)' = By(s, Arriving) \o By(s, x)
    <3>1. PICK a \in Seq(RowType) : a = Arriving BY Places
    <3>2. By(s, a \o x) = By(s, a) \o By(s, x) BY ByConcat
    <3>. QED BY <1>2, <3>1, <3>2
  <2>3. By(s, x) \in Seq(RowType) BY ByType
  <2>4. CountsOn(Written(s), Written(s)') BY Places, ContinuesSelf
  <2>. QED BY <2>1, <2>2, <2>3, <2>4 DEF Continues
<1>. QED BY <1>3 DEF MovesOn

LEMMA SendMoves == ASSUME TypeOK, Send PROVE MovesOn
<1>1. /\ UNCHANGED <<log, writer, completed, link>> /\ link # "lost" /\ queue # <<>>
      BY DEF Send, Open
<1>2. PICK q \in Seq(Units(RowType)), v \in Seq(Units(RowType)) : q = queue /\ v = wire
      BY DEF TypeOK
<1>3. PICK x \in Seq(RowType), y \in Seq(RowType) :
         /\ RowsOf(wire)' = RowsOf(wire) \o x /\ RowsOf(queue)' = y
         /\ RowsOf(queue) = x \o y
  <2>1. CASE opt.mode = "auto"
    <3>1. PICK x \in Seq(RowType) : x = RowsOf(q) BY RowsOfType
    <3>2. PICK u \in Units(RowType) : u = Unit("transaction", x) BY UnitType DEF Kinds
    <3>3. wire' = Append(v, u) /\ queue' = <<>> /\ u.rows = x
          BY <1>2, <2>1, <3>1, <3>2 DEF Send, Unit
    <3>4. RowsOf(Append(v, u)) = RowsOf(v) \o x BY <3>3, RowsOfAppend
    <3>5. RowsOf(queue)' = <<>> BY <3>3, RowsOfEmpty
    <3>6. x \o <<>> = x /\ <<>> \in Seq(RowType) BY ConcatEmptySeq, EmptySeq
    <3>7. RowsOf(wire)' = RowsOf(wire) \o x BY <1>2, <3>3, <3>4
    <3>. QED BY <1>2, <3>1, <3>5, <3>6, <3>7
  <2>2. CASE opt.mode # "auto"
    <3>1. PICK u \in Units(RowType), r \in Seq(Units(RowType)) : u = Head(q) /\ r = Tail(q)
          BY <1>1, <1>2, HeadAndTail
    <3>2. wire' = Append(v, u) /\ queue' = r BY <1>2, <2>2, <3>1 DEF Send
    <3>3. u.rows \in Seq(RowType) BY DEF Units
    <3>4. RowsOf(Append(v, u)) = RowsOf(v) \o u.rows BY RowsOfAppend
    <3>5. RowsOf(q) = u.rows \o RowsOf(r) BY <1>1, <1>2, <3>1, RowsOfHead
    <3>6. RowsOf(r) \in Seq(RowType) BY RowsOfType
    <3>7. RowsOf(wire)' = RowsOf(wire) \o u.rows BY <1>2, <3>2, <3>4
    <3>8. RowsOf(queue)' = RowsOf(r) BY <3>2
    <3>. QED BY <1>2, <3>3, <3>5, <3>6, <3>7, <3>8
  <2>. QED BY <2>1, <2>2
<1>4. Handed' = Handed
  <2>1. PICK l \in Seq(RowType), w \in Seq(RowType) : l = LogRows /\ w = RowsOf(wire)
        BY LogRowsType, RowsOfType DEF TypeOK
  <2>2. (l \o (w \o x)) \o y = (l \o w) \o (x \o y)
    <3>1. l \o (w \o x) = (l \o w) \o x BY Associates
    <3>2. PICK a \in Seq(RowType) : a = l \o w BY ConcatProperties
    <3>3. (a \o x) \o y = a \o (x \o y) BY Associates
    <3>. QED BY <3>1, <3>2, <3>3
  <2>. QED BY <1>1, <1>3, <2>1, <2>2 DEF Handed, LogRows
<1>5. \A s \in Threads : Written(s)' = Written(s) BY <1>1, <1>4 DEF Written, Drafts
<1>. QED BY <1>1, <1>3, <1>5, HandsOn

LEMMA WriteMoves == ASSUME TypeOK, WriterInv, NEW t \in Threads, WriteUnit(t) PROVE MovesOn
<1>0. \A a \in Seq(RowType), b, c, d \in Seq(OwnRows(t)) :
         (a \o b) \o (c \o d) = a \o ((b \o c) \o d)
      BY OwnAssociates
<1>1. /\ UNCHANGED <<log, queue, completed, link>> /\ link # "lost" /\ writer[t].units # <<>>
      /\ queue = <<>> /\ writer[t] \in Writers(t) /\ DOMAIN writer = Threads
      BY DEF WriteUnit, Open, TypeOK, WriterInv
<1>2. PICK us \in Seq(Units(OwnRows(t))) : us = writer[t].units BY <1>1 DEF Writers
<1>3. PICK u, r : /\ u \in Units(OwnRows(t)) /\ r \in Seq(Units(OwnRows(t)))
                  /\ u = Head(us) /\ r = Tail(us)
      BY <1>1, <1>2, UnitsOfThread
<1>4. PICK x \in Seq(OwnRows(t)), y \in Seq(OwnRows(t)), z \in Seq(OwnRows(t)) :
         x = u.rows /\ y = RowsOf(r) /\ z = writer[t].rows
  <2>1. u.rows \in Seq(OwnRows(t)) /\ RowsOf(r) \in Seq(OwnRows(t)) BY <1>3, RowsOfType DEF Units
  <2>. QED BY <2>1, DraftsType
<1>5. /\ writer'[t].units = r /\ writer'[t].rows = z
      /\ \A s \in Threads \ {t} : writer'[s] = writer[s]
      /\ wire' = Append(wire, u)
  <2>1. writer' = [writer EXCEPT ![t].units = r] /\ wire' = Append(wire, u)
        BY <1>2, <1>3 DEF WriteUnit
  <2>. QED BY <1>1, <1>4, <2>1 DEF Writers
<1>6. RowsOf(writer[t].units) = x \o y
      BY <1>1, <1>2, <1>3, <1>4, RowsOfHead
<1>7. x \in Seq(RowType) /\ By(t, x) = x /\ \A s \in Threads \ {t} : By(s, x) = <<>>
      BY ByOwn
<1>8. RowsOf(wire)' = RowsOf(wire) \o x
  <2>1. u \in Units(RowType) BY <1>3, UnitsOfThread
  <2>2. PICK v \in Seq(Units(RowType)) : v = wire BY DEF TypeOK
  <2>3. RowsOf(Append(v, u)) = RowsOf(v) \o u.rows BY <2>1, RowsOfAppend
  <2>. QED BY <1>4, <1>5, <2>2, <2>3
<1>9. PICK h \in Seq(RowType) : h = Handed /\ Handed' = h \o x
  <2>1. PICK l \in Seq(RowType), w \in Seq(RowType) : l = LogRows /\ w = RowsOf(wire)
        BY LogRowsType, RowsOfType DEF TypeOK
  <2>2. PICK a \in Seq(RowType), b \in Seq(RowType) : a = l \o w /\ b = x
        BY <1>7, ConcatProperties
  <2>3. PICK c \in Seq(RowType) : c = a \o b BY ConcatProperties
  <2>4. l \o (w \o b) = a \o b
    <3>1. (l \o w) \o b = l \o (w \o b) BY Associates
    <3>. QED BY <2>2, <3>1
  <2>5. a \o <<>> = a /\ c \o <<>> = c BY ConcatEmptySeq
  <2>6. Handed = a BY <1>1, <2>1, <2>2, <2>5, RowsOfEmpty DEF Handed
  <2>7. RowsOf(queue)' = <<>> BY <1>1, RowsOfEmpty
  <2>8. Handed' = a \o b BY <1>1, <1>8, <2>1, <2>2, <2>3, <2>4, <2>5, <2>7 DEF Handed, LogRows
  <2>. QED BY <2>2, <2>6, <2>8
<1>10. \A s \in Threads : By(s, h \o x) = By(s, h) \o By(s, x) BY <1>7, ByConcat
<1>11. (By(t, h) \o x) \o (y \o z) = By(t, h) \o ((x \o y) \o z)
  <2>1. By(t, h) \in Seq(RowType) BY ByType
  <2>. QED BY <1>0, <2>1
<1>12. Written(t)' = Written(t)
  <2>1. Written(t)' = (By(t, h) \o x) \o (y \o z)
        BY <1>4, <1>5, <1>7, <1>9, <1>10 DEF Written, Drafts
  <2>2. Written(t) = By(t, h) \o ((x \o y) \o z) BY <1>4, <1>6, <1>9 DEF Written, Drafts
  <2>. QED BY <1>11, <2>1, <2>2
<1>13. ASSUME NEW s \in Threads \ {t} PROVE Written(s)' = Written(s)
  <2>1. By(s, h) \in Seq(RowType) BY ByType
  <2>2. By(s, h) \o <<>> = By(s, h) BY <2>1, ConcatEmptySeq
  <2>3. By(s, Handed)' = By(s, h) BY <1>7, <1>9, <1>10, <2>2
  <2>4. Drafts(s)' = Drafts(s) BY <1>5 DEF Drafts
  <2>. QED BY <1>9, <2>3, <2>4 DEF Written
<1>14. \A s \in Threads : Written(s)' = Written(s) BY <1>12, <1>13
<1>. QED BY <1>1, <1>7, <1>8, <1>14, HandsOn

LogFits == /\ LogRows \in Seq(RowType) /\ Len(LogRows) = Len(log)
           /\ \A i \in 1 .. Len(log) : LogRows[i] = log[i].row

LEMMA LogFitsNow == TypeOK => LogFits
BY LogRowsType DEF LogFits

LEMMA LogFitsNext == TypeOK' => LogFits'
BY LogFitsNow, PTL

(* The project's log gets the rows of the unit it processes. *)
LEMMA LogRowsGrow ==
    ASSUME TypeOK, TypeOK', Process
    PROVE  LogRows' = LogRows \o Head(wire).rows
<1>1. PICK u \in Units(RowType) : u = Head(wire) BY ProcessStep
<1>2. log' = log \o Results(u) /\ log \in Seq(LogType) BY <1>1, ProcessStep DEF TypeOK
<1>3. /\ Results(u) \in Seq(LogType) /\ Len(Results(u)) = Len(u.rows)
      /\ u.rows \in Seq(RowType) /\ Len(u.rows) \in Nat
      /\ \A i \in 1 .. Len(u.rows) : Results(u)[i].row = u.rows[i]
      BY ResultsType
<1>4. /\ Len(log') = Len(log) + Len(u.rows) /\ Len(log) \in Nat
      /\ \A i \in 1 .. Len(log) + Len(u.rows) :
            log'[i] = IF i <= Len(log) THEN log[i] ELSE Results(u)[i - Len(log)]
  <2>1. PICK a \in Seq(LogType), b \in Seq(LogType) : a = log /\ b = Results(u)
        BY <1>2, <1>3
  <2>2. /\ Len(a \o b) = Len(a) + Len(b) /\ Len(a) \in Nat
        /\ \A i \in 1 .. Len(a) + Len(b) :
              (a \o b)[i] = IF i <= Len(a) THEN a[i] ELSE b[i - Len(a)]
        BY ConcatProperties, LenProperties
  <2>. QED BY <1>2, <1>3, <2>1, <2>2
<1>5. /\ LogRows \in Seq(RowType) /\ Len(LogRows) = Len(log)
      /\ \A i \in 1 .. Len(log) : LogRows[i] = log[i].row
      BY LogRowsType
<1>6. /\ LogRows' \in Seq(RowType) /\ Len(LogRows') = Len(log')
      /\ \A i \in 1 .. Len(log') : LogRows'[i] = log'[i].row
  BY LogFitsNext DEF LogFits
<1>7. PICK l \in Seq(RowType), l2 \in Seq(RowType), x \in Seq(RowType) :
         l = LogRows /\ l2 = LogRows' /\ x = u.rows
      BY <1>3, <1>5, <1>6
<1>8. /\ l \o x \in Seq(RowType) /\ Len(l \o x) = Len(l) + Len(x)
      /\ \A i \in 1 .. Len(l) + Len(x) : (l \o x)[i] = IF i <= Len(l) THEN l[i] ELSE x[i - Len(l)]
      BY ConcatProperties
<1>9. ASSUME NEW i \in 1 .. Len(l2) PROVE l2[i] = (l \o x)[i]
  <2>0. i \in 1 .. Len(log) + Len(x) /\ l2[i] = log'[i].row BY <1>4, <1>6, <1>7
  <2>1. CASE i <= Len(log)
    <3>1. i \in 1 .. Len(log) BY <1>4, <2>0, <2>1
    <3>2. log'[i] = log[i] BY <1>4, <1>7, <2>0, <2>1
    <3>. QED BY <1>5, <1>7, <1>8, <2>0, <2>1, <3>1, <3>2
  <2>2. CASE ~(i <= Len(log))
    <3>1. i - Len(log) \in 1 .. Len(x) BY <1>3, <1>4, <1>7, <2>0, <2>2
    <3>2. log'[i] = Results(u)[i - Len(log)] BY <1>4, <1>7, <2>0, <2>2
    <3>3. Results(u)[i - Len(log)].row = x[i - Len(log)] BY <1>3, <1>7, <3>1
    <3>. QED BY <1>5, <1>7, <1>8, <2>0, <2>2, <3>2, <3>3
  <2>. QED BY <2>1, <2>2
<1>10. Len(l2) = Len(l \o x) BY <1>4, <1>5, <1>6, <1>7, <1>8
<1>11. l2 = l \o x BY <1>8, <1>9, <1>10, SeqEqual
<1>. QED BY <1>1, <1>7, <1>11

LEMMA ProcessMoves == ASSUME TypeOK, TypeOK', Process PROVE MovesOn
<1>1. /\ UNCHANGED <<writer, completed, queue, link>> /\ wire \in Seq(Units(RowType)) /\ wire # <<>>
      /\ Head(wire) \in Units(RowType) /\ Tail(wire) \in Seq(Units(RowType))
      /\ wire' = Tail(wire)
      BY ProcessStep DEF TypeOK
<1>2. Head(wire).rows \in Seq(RowType) /\ RowsOf(Tail(wire)) \in Seq(RowType)
      BY <1>1, RowsOfType DEF Units
<1>3. PICK l \in Seq(RowType), x \in Seq(RowType), y \in Seq(RowType) :
         l = LogRows /\ x = Head(wire).rows /\ y = RowsOf(Tail(wire))
      BY <1>2, LogRowsType
<1>4. LogRows' = l \o x BY <1>3, LogRowsGrow
<1>5. RowsOf(wire) = x \o y BY <1>1, <1>3, RowsOfHead
<1>6. (l \o x) \o y = l \o (x \o y) BY Associates
<1>7. Arriving' = Arriving BY <1>1, <1>3, <1>4, <1>5, <1>6 DEF Arriving
<1>8. Handed' = Handed BY <1>1, <1>7 DEF Handed, Arriving
<1>9. ASSUME NEW s \in Threads
      PROVE  /\ Continues(By(s, LogRows), By(s, LogRows)')
             /\ By(s, Arriving)' = By(s, Arriving) /\ Written(s)' = Written(s)
  <2>1. By(s, l \o x) = By(s, l) \o By(s, x) /\ By(s, x) \in Seq(RowType) BY ByConcat, ByType
  <2>2. Continues(By(s, LogRows), By(s, LogRows)') BY <1>3, <1>4, <2>1 DEF Continues
  <2>. QED BY <1>1, <1>7, <1>8, <2>2 DEF Written, Drafts
<1>. QED BY <1>1, <1>9, Places, ContinuesSelf DEF MovesOn

(* A thread's steps, but for the waits. *)
LEMMA FormatMoves ==
    ASSUME TypeOK, NEW t \in Threads, Call(t), NEW w, Format(t, w), UNCHANGED completed,
           w.units = writer[t].units, w.rows = writer[t].rows
    PROVE  MovesOn /\ UNCHANGED <<link, flushed, acked>>
<1>1. /\ UNCHANGED <<log, wire, completed, queue, link, flushed, acked>>
      /\ \A s \in Threads : writer'[s] = IF s = t THEN w ELSE writer[s]
      BY DEF Format, TypeOK, sdk
<1>2. \A s \in Threads : writer'[s].units = writer[s].units /\ writer'[s].rows = writer[s].rows
      BY <1>1
<1>3. \A s \in Threads : Drafts(s)' = Drafts(s) BY <1>2 DEF Drafts
<1>. QED BY <1>1, <1>3, RowsStay

LEMMA RowStepMoves ==
    ASSUME TypeOK, WriterInv, NEW t \in Threads,
           \/ Start_Row(t) \/ Set_Operation(t) \/ Set_Column(t)
           \/ \E kind \in {"transaction", "envelope"} : Start_Block(t, kind)
    PROVE  MovesOn /\ UNCHANGED <<link, flushed, acked>>
<1>1. PICK w : /\ Call(t) /\ Format(t, w) /\ UNCHANGED completed
               /\ w.units = writer[t].units /\ w.rows = writer[t].rows
  <2>1. writer[t] \in Writers(t) BY DEF TypeOK
  <2>2. CASE Start_Row(t)
    <3>1. /\ StartRow(writer[t]).units = writer[t].units
          /\ StartRow(writer[t]).rows = writer[t].rows
          BY <2>1 DEF StartRow, Writers
    <3>. QED BY <2>2, <3>1 DEF Start_Row
  <2>3. CASE Set_Operation(t)
    <3>1. PICK op : Format(t, SetOperation(writer[t], op)) BY <2>3 DEF Set_Operation
    <3>2. /\ SetOperation(writer[t], op).units = writer[t].units
          /\ SetOperation(writer[t], op).rows = writer[t].rows
          BY <2>1 DEF SetOperation, Writers
    <3>. QED BY <2>3, <3>1, <3>2 DEF Set_Operation
  <2>4. CASE Set_Column(t)
    <3>1. PICK value : Format(t, SetColumn(writer[t], value)) BY <2>4 DEF Set_Column
    <3>2. /\ SetColumn(writer[t], value).units = writer[t].units
          /\ SetColumn(writer[t], value).rows = writer[t].rows
          BY <2>1 DEF SetColumn, Writers
    <3>. QED BY <2>4, <3>1, <3>2 DEF Set_Column
  <2>5. CASE \E kind \in {"transaction", "envelope"} : Start_Block(t, kind)
    <3>1. PICK kind \in {"transaction", "envelope"} : Start_Block(t, kind) BY <2>5
    <3>2. /\ StartBlock(writer[t], kind).units = writer[t].units
          /\ StartBlock(writer[t], kind).rows = writer[t].rows
          BY <2>1 DEF StartBlock, Writers
    <3>. QED BY <3>1, <3>2 DEF Start_Block
  <2>. QED BY <2>2, <2>3, <2>4, <2>5
<1>. QED BY <1>1, FormatMoves

LEMMA CompleteStepMoves ==
    ASSUME TypeOK, WriterInv, OrderInv, NEW t \in Threads,
           End_Row(t) \/ Add_Buffer(t) \/ End_Block(t)
    PROVE  MovesOn /\ UNCHANGED <<link, flushed, acked>>
<1>1. writer[t] \in Writers(t) BY DEF TypeOK
<1>a. Len(Written(t)) = completed[t]
      BY DEF End_Row, Add_Buffer, End_Block, Call, OrderInv, InOrderOnce
<1>2. ASSUME NEW w \in Writers(t), Complete(t, w), NEW x \in Seq(OwnRows(t)),
             RowsOf(w.units) \o w.rows = Drafts(t) \o x, completed'[t] = completed[t] + Len(x),
             \A s \in Threads \ {t} : completed'[s] = completed[s],
             \A j \in 1 .. Len(x) : x[j].n = completed[t] + j
      PROVE  MovesOn /\ UNCHANGED <<link, flushed, acked>>
  <2>1. PICK b : b = By(t, Handed) \o (Drafts(t) \o x) OBVIOUS
  <2>2. CountsOn(Written(t), b) /\ Len(b) = Len(Written(t)) + Len(x)
        BY <1>a, <1>2, <2>1, DraftsMore
  <2>3. Len(b) = completed'[t] BY <1>a, <1>2, <2>2
  <2>4. b = By(t, Handed) \o (RowsOf(w.units) \o w.rows) BY <1>2, <2>1
  <2>5. MovesOn BY <1>2, <2>2, <2>3, <2>4, CompleteMoves
  <2>. QED BY <1>2, <2>5, CompleteRows
<1>3. ASSUME NEW row \in OwnRows(t), Complete(t, EndRow(writer[t], row)),
             row.n = completed[t] + 1, completed' = [completed EXCEPT ![t] = @ + 1]
      PROVE  MovesOn /\ UNCHANGED <<link, flushed, acked>>
  <2>1. <<row>> \in Seq(OwnRows(t)) /\ Len(<<row>>) = 1 /\ <<row>>[1] = row OBVIOUS
  <2>2. PICK x \in Seq(OwnRows(t)) : x = <<row>> /\ Len(x) = 1 /\ x[1] = row BY <2>1
  <2>3. \A j \in 1 .. Len(x) : x[j].n = completed[t] + j BY <1>3, <2>2
  <2>4. PICK w \in Writers(t) : w = EndRow(writer[t], row) BY <1>1, EndRowType
  <2>5. RowsOf(w.units) \o w.rows = Drafts(t) \o x BY <2>2, <2>4, EndRowRows
  <2>6. 1 \in Nat /\ completed'[t] = completed[t] + Len(x)
        /\ \A s \in Threads \ {t} : completed'[s] = completed[s]
        BY <1>3, <2>2, CompletedType
  <2>. QED BY <1>2, <1>3, <2>3, <2>4, <2>5, <2>6
<1>4. CASE End_Row(t)
  <2>1. CanEndRow(writer[t]) /\ completed' = [completed EXCEPT ![t] = @ + 1]
        BY <1>4 DEF End_Row
  <2>2. PICK row \in OwnRows(t) :
           /\ row = Stamped(t, Row(writer[t]), 1, writer[t].block, blocks[t])
           /\ row.n = completed[t] + 1
        BY <2>1, EndedRow
  <2>3. Complete(t, EndRow(writer[t], row)) BY <1>4, <2>2 DEF End_Row
  <2>. QED BY <1>3, <2>1, <2>2, <2>3
<1>5. CASE Add_Buffer(t)
  <2>1. PICK b \in Buffers : RowBuffer(t, b) \/ BlockBuffer(t, b) BY <1>5, AddBuffer
  <2>2. CASE RowBuffer(t, b)
    <3>1. PICK row \in OwnRows(t) :
             /\ row = Stamped(t, b.rows[1], 1, writer[t].block, blocks[t])
             /\ row.n = completed[t] + 1
          BY <2>2, AddedRow DEF RowBuffer
    <3>2. /\ Complete(t, EndRow(writer[t], row))
          /\ completed' = [completed EXCEPT ![t] = @ + 1]
          BY <2>2, <3>1 DEF RowBuffer
    <3>. QED BY <1>3, <3>1, <3>2
  <2>3. CASE BlockBuffer(t, b)
    <3>1. PICK u \in Units(OwnRows(t)) : u = BufferUnit(t, b) BY BufferType
    <3>2. PICK x \in Seq(OwnRows(t)) : /\ x = u.rows /\ Len(x) = Len(b.rows)
                                       /\ \A j \in 1 .. Len(x) : x[j].n = completed[t] + j
          BY <3>1, BufferType DEF BufferUnit, Unit
    <3>3. PICK w \in Writers(t) : w = WithUnit(writer[t], u) BY <1>1, WithUnitType
    <3>4. RowsOf(w.units) \o w.rows = Drafts(t) \o x
          BY <2>3, <3>2, <3>3, WithUnitRows DEF BlockBuffer
    <3>5. Complete(t, w) BY <2>3, <3>1, <3>3 DEF BlockBuffer
    <3>6. Len(x) \in Nat /\ completed' = [completed EXCEPT ![t] = @ + Len(x)]
          BY <2>3, <3>2, LenProperties DEF BlockBuffer
    <3>7. PICK k \in Nat : k = Len(x) BY <3>6
    <3>8. completed'[t] = completed[t] + k /\ \A s \in Threads \ {t} : completed'[s] = completed[s]
          BY <3>6, <3>7, CompletedType
    <3>. QED BY <1>2, <3>2, <3>4, <3>5, <3>7, <3>8
  <2>. QED BY <2>1, <2>2, <2>3
<1>6. CASE End_Block(t)
  <2>1. CanEndBlock(writer[t]) BY <1>6 DEF End_Block
  <2>2. PICK w \in Writers(t) : w = EndBlock(writer[t]) BY <1>1, <2>1, EndBlockType
  <2>3. RowsOf(w.units) \o w.rows = Drafts(t) BY <2>1, <2>2, EndBlockRows
  <2>4. PICK e \in Seq(OwnRows(t)) : e = <<>> /\ Len(e) = 0 BY EmptySeq
  <2>5. PICK d \in Seq(OwnRows(t)) : d = Drafts(t) BY DraftsType
  <2>6. Drafts(t) = Drafts(t) \o e BY <2>4, <2>5, ConcatEmptySeq
  <2>7. \A j \in 1 .. Len(e) : e[j].n = completed[t] + j
    <3>1. 1 .. Len(e) = {} BY <2>4
    <3>. QED BY <3>1
  <2>8. /\ Complete(t, w) /\ completed'[t] = completed[t] + Len(e)
        /\ \A s \in Threads \ {t} : completed'[s] = completed[s]
        BY <1>6, <2>2, <2>4 DEF End_Block, TypeOK
  <2>9. RowsOf(w.units) \o w.rows = Drafts(t) \o e BY <2>3, <2>6
  <2>. QED BY <1>2, <2>7, <2>8, <2>9
<1>. QED BY <1>4, <1>5, <1>6

LEMMA WaitMoves ==
    ASSUME TypeOK, NEW t \in Threads,
           \/ Publish(t) \/ Commit(t) \/ Close(t)
           \/ PublishReturns(t) \/ CommitReturns(t) \/ CloseReturns(t) \/ CallFails(t)
    PROVE  /\ MovesOn /\ (link' = "lost" <=> link = "lost")
           /\ PublishReturns(t) \/ CommitReturns(t) \/ UNCHANGED <<flushed, acked>>
<1>1. UNCHANGED <<log, wire, completed, queue, writer>>
      BY DEF Publish, Commit, Close, Enter, PublishReturns, CommitReturns, CloseReturns,
             CallFails, Return, sdk
<1>2. \A s \in Threads : Drafts(s)' = Drafts(s) BY <1>1 DEF Drafts
<1>3. link' = "lost" <=> link = "lost"
      BY DEF Publish, Commit, Close, Enter, Call, PublishReturns, CommitReturns, CloseReturns,
             CallFails
<1>4. PublishReturns(t) \/ CommitReturns(t) \/ UNCHANGED <<flushed, acked>>
      BY DEF Publish, Commit, Close, Enter, CloseReturns, CallFails
<1>. QED BY <1>1, <1>2, <1>3, <1>4, RowsStay

(* Every step but the loss of the connection moves the rows on. *)
LEMMA StepMoves ==
    ASSUME TypeOK, TypeOK', WriterInv, OrderInv, [Next]_vars
    PROVE  \/ LoseLink
           \/ /\ MovesOn /\ (link' = "lost" <=> link = "lost")
              /\ \/ UNCHANGED <<flushed, acked>>
                 \/ \E t \in Threads : PublishReturns(t) \/ CommitReturns(t)
<1>1. CASE Connect \/ UNCHANGED vars
  <2>1. /\ UNCHANGED <<log, wire, completed, queue, writer, flushed, acked>>
        /\ (link' = "lost" <=> link = "lost")
        BY <1>1 DEF Connect, sdk, vars
  <2>2. \A s \in Threads : Drafts(s)' = Drafts(s) BY <2>1 DEF Drafts
  <2>. QED BY <2>1, <2>2, RowsStay
<1>2. CASE Send BY <1>2, SendMoves DEF Send
<1>3. CASE Process BY <1>3, ProcessMoves, ProcessStep
<1>4. ASSUME NEW t \in Threads, ThreadStep(t)
      PROVE  /\ MovesOn /\ (link' = "lost" <=> link = "lost") /\ UNCHANGED <<flushed, acked>>
  <2>1. CASE Publish(t) \/ Commit(t) \/ Close(t)
    <3>1. UNCHANGED <<flushed, acked>> BY <2>1 DEF Publish, Commit, Close, Enter
    <3>. QED BY <2>1, <3>1, WaitMoves
  <2>. QED BY <1>4, <2>1, RowStepMoves, CompleteStepMoves DEF ThreadStep
<1>5. ASSUME NEW t \in Threads, Finish(t)
      PROVE  /\ MovesOn /\ (link' = "lost" <=> link = "lost")
             /\ PublishReturns(t) \/ CommitReturns(t) \/ UNCHANGED <<flushed, acked>>
  <2>1. CASE WriteUnit(t) BY <2>1, WriteMoves DEF WriteUnit
  <2>2. CASE Enqueue(t) BY <2>2, EnqueueMoves DEF Enqueue
  <2>. QED BY <1>5, <2>1, <2>2, WaitMoves DEF Finish
<1>. QED BY <1>1, <1>2, <1>3, <1>4, <1>5 DEF Next

(* A connection that breaks takes rows from the end. *)
LEMMA LoseKeeps ==
    ASSUME TypeOK, OrderInv, PromisesKept, LoseLink
    PROVE  OrderInv' /\ PromisesKept'
<1>1. UNCHANGED <<log, queue, writer, flushed, acked>> /\ link' = "lost" BY DEF LoseLink
<1>2. PICK v \in Seq(Units(RowType)), r \in Seq(Units(RowType)) : v = wire' /\ wire = v \o r
  <2>1. PICK u \in Seq(Units(RowType)) : u = wire BY DEF TypeOK
  <2>2. PICK v \in Prefixes(u) : v = wire' BY <2>1 DEF LoseLink
  <2>3. v \in Seq(Units(RowType)) /\ \E r \in Seq(Units(RowType)) : u = v \o r
        BY PrefixSplits
  <2>. QED BY <2>1, <2>2, <2>3
<1>3. PICK x \in Seq(RowType), y \in Seq(RowType) : x = RowsOf(v) /\ y = RowsOf(r)
      BY RowsOfType
<1>4. RowsOf(wire) = x \o y BY <1>2, <1>3, RowsOfConcat
<1>5. LogRows' = LogRows BY <1>1 DEF LogRows
<1>6. ASSUME NEW s \in Threads
      PROVE  InOrder(By(s, LogRows)') /\ InOrder(By(s, Arriving)')
  <2>1. PICK l \in Seq(RowType) : l = LogRows BY Places
  <2>2. PICK a \in Seq(RowType) : a = l \o x BY ConcatProperties
  <2>3. Arriving' = a BY <1>2, <1>3, <1>5, <2>1, <2>2 DEF Arriving
  <2>4. Arriving = a \o y
    <3>1. (l \o x) \o y = l \o (x \o y) BY Associates
    <3>. QED BY <1>4, <2>1, <2>2, <3>1 DEF Arriving
  <2>5. PICK ba \in Seq(RowType), by \in Seq(RowType) : ba = By(s, a) /\ by = By(s, y)
        BY ByType
  <2>6. By(s, Arriving) = ba \o by BY <2>4, <2>5, ByConcat
  <2>7. Continues(ba, By(s, Arriving)) BY <2>6 DEF Continues
  <2>8. InOrder(ba) BY <2>7, InOrderPart DEF OrderInv
  <2>. QED BY <1>5, <2>3, <2>5, <2>8 DEF OrderInv, InOrderOnce
<1>. QED BY <1>1, <1>5, <1>6 DEF OrderInv, InOrderOnce, PromisesKept

-----------------------------------------------------------------------------
(* Two ways to cut a sequence. *)
LEMMA TailOfOne ==
    ASSUME NEW S, NEW u \in S, NEW s \in Seq(S)
    PROVE  <<u>> \o s # <<>> /\ Tail(<<u>> \o s) = s
<1>0. <<u>> \in Seq(S) /\ Len(<<u>>) = 1 OBVIOUS
<1>1. PICK h \in Seq(S) : h = <<u>> /\ Len(h) = 1 BY <1>0
<1>a. /\ h \o s \in Seq(S) /\ Len(h \o s) = Len(h) + Len(s)
      /\ \A i \in 1 .. Len(h) + Len(s) :
            (h \o s)[i] = IF i <= Len(h) THEN h[i] ELSE s[i - Len(h)]
      BY ConcatProperties
<1>2. PICK a \in Seq(S) : /\ a = h \o s /\ Len(a) = Len(h) + Len(s)
                           /\ \A i \in 1 .. Len(h) + Len(s) :
                                 a[i] = IF i <= Len(h) THEN h[i] ELSE s[i - Len(h)]
      BY <1>a
<1>3. Len(s) \in Nat /\ Len(a) = 1 + Len(s) BY <1>1, <1>2, LenProperties
<1>4. a # <<>> BY <1>3, EmptySeq
<1>5. /\ Tail(a) \in Seq(S) /\ Len(Tail(a)) = Len(a) - 1
      /\ \A i \in 1 .. Len(Tail(a)) : Tail(a)[i] = a[i + 1]
      BY <1>4, HeadTailProperties
<1>6. ASSUME NEW i \in 1 .. Len(s) PROVE Tail(a)[i] = s[i]
  <2>1. i + 1 \in 1 .. Len(h) + Len(s) /\ ~(i + 1 <= Len(h)) /\ i + 1 - Len(h) = i
        BY <1>1, <1>3
  <2>. QED BY <1>1, <1>2, <1>3, <1>5, <2>1
<1>7. Tail(a) = s BY <1>3, <1>5, <1>6, SeqEqual
<1>. QED BY <1>1, <1>2, <1>4, <1>7

LEMMA Cancels == \A S : \A a, x, y \in Seq(S) : a \o x = a \o y => x = y
BY ConcatSimplifications

Regrouped(x, y, z) == (x \o y) \o z = x \o (y \o z)
Cut(S, w, q, a, b) == \E r \in Seq(S) : w = a \o r /\ b = r \o q

LEMMA Regroups ==
    ASSUME NEW S, NEW x \in Seq(S), NEW y \in Seq(S), NEW z \in Seq(S)
    PROVE  Regrouped(x, y, z)
BY ConcatAssociative DEF Regrouped

LEMMA Splits ==
    ASSUME NEW S, NEW a \in Seq(S), NEW b \in Seq(S), NEW w \in Seq(S), NEW q \in Seq(S),
           w \o q = a \o b, Len(a) <= Len(w)
    PROVE  Cut(S, w, q, a, b)
<1>1. Len(a) \in Nat /\ Len(w) \in Nat /\ Len(q) \in Nat /\ Len(b) \in Nat BY LenProperties
<1>2. SubSeq(w, 1, Len(a)) \in Prefixes(w) BY <1>1 DEF Prefixes
<1>3. PICK p \in Prefixes(w) : p = SubSeq(w, 1, Len(a)) BY <1>2
<1>a. p \in Seq(S) /\ \E r \in Seq(S) : w = p \o r
      BY ONLY w \in Seq(S), p \in Prefixes(w), PrefixSplits
<1>4. PICK r \in Seq(S) : p \in Seq(S) /\ w = p \o r BY <1>a
<1>5. p = a
  <2>1. \A i \in 1 .. Len(a) : w[i] \in S BY <1>1, ElementOfSeq
  <2>2. 1 \in Int /\ Len(a) \in Int /\ Len(a) - 1 + 1 = Len(a)
        /\ (IF 1 <= Len(a) THEN Len(a) - 1 + 1 ELSE 0) = Len(a)
        BY <1>1
  <2>3. Len(p) = Len(a) /\ \A i \in 1 .. Len(a) : p[i] = w[i]
    <3>1. PICK l \in Int : l = Len(a) BY <1>1
    <3>2. /\ Len(SubSeq(w, 1, l)) = IF 1 <= l THEN l - 1 + 1 ELSE 0
          /\ \A i \in 1 .. l - 1 + 1 : SubSeq(w, 1, l)[i] = w[1 + i - 1]
          BY <2>1, <2>2, <3>1, SubSeqProperties
    <3>3. \A i \in 1 .. l : 1 + i - 1 = i OBVIOUS
    <3>. QED BY <1>3, <2>2, <3>1, <3>2, <3>3
  <2>4. \A i \in 1 .. Len(w) + Len(q) : (w \o q)[i] = IF i <= Len(w) THEN w[i] ELSE q[i - Len(w)]
        BY ConcatProperties
  <2>5. \A i \in 1 .. Len(a) + Len(b) : (a \o b)[i] = IF i <= Len(a) THEN a[i] ELSE b[i - Len(a)]
        BY ConcatProperties
  <2>6. \A i \in 1 .. Len(a) : w[i] = a[i]
    <3>1. \A i \in 1 .. Len(a) : /\ i \in 1 .. Len(w) + Len(q) /\ i <= Len(w)
                                  /\ i \in 1 .. Len(a) + Len(b) /\ i <= Len(a)
          BY <1>1
    <3>. QED BY <2>4, <2>5, <3>1
  <2>7. \A i \in 1 .. Len(p) : p[i] = a[i] BY <2>3, <2>6
  <2>. QED BY <1>4, <2>3, <2>7, SeqEqual
<1>6. a \o (r \o q) = a \o b
  <2>1. Regrouped(a, r, q) BY Regroups
  <2>. QED BY <1>4, <1>5, <2>1 DEF Regrouped
<1>7. PICK c \in Seq(S) : c = r \o q BY ConcatProperties
<1>8. c = b BY <1>6, <1>7, Cancels
<1>. QED BY <1>4, <1>5, <1>7, <1>8 DEF Cut

-----------------------------------------------------------------------------
(* What a thread waits for that commits, or publishes through the queue: of *)
(* the units on their way, the n first ones; none of the others has a row   *)
(* of it.                                                                   *)
Waits(t)            == /\ link \notin {"closed", "lost"}
                       /\ pc[t] = "commit" \/ (pc[t] = "publish" /\ Buffered)
Behind(t, n, units) == \E a, b \in Seq(Units(RowType)) :
                          units = a \o b /\ Len(a) = n /\ By(t, RowsOf(b)) = <<>>
AheadInv == \A t \in Threads : Waits(t) => Behind(t, ahead[t], wire \o queue)

LEMMA UnitsAssociate ==
    \A a, b, c \in Seq(Units(RowType)) : (a \o b) \o c = a \o (b \o c)
BY ConcatAssociative

LEMMA OneUnit == \A u \in Units(RowType) : <<u>> \in Seq(Units(RowType))
OBVIOUS

LEMMA ByUnits ==
    ASSUME NEW t, NEW a \in Seq(Units(RowType)), NEW b \in Seq(Units(RowType))
    PROVE  /\ By(t, RowsOf(a \o b)) = By(t, RowsOf(a)) \o By(t, RowsOf(b))
           /\ By(t, RowsOf(a)) \in Seq(RowType) /\ By(t, RowsOf(b)) \in Seq(RowType)
<1>1. PICK x \in Seq(RowType), y \in Seq(RowType) : x = RowsOf(a) /\ y = RowsOf(b)
      BY RowsOfType
<1>2. RowsOf(a \o b) = x \o y BY <1>1, RowsOfConcat
<1>3. By(t, x \o y) = By(t, x) \o By(t, y) BY ByConcat
<1>. QED BY <1>1, <1>2, <1>3, ByType

LEMMA NoneOfBoth ==
    ASSUME NEW x \in Seq(RowType), NEW y \in Seq(RowType), x \o y = <<>>
    PROVE  x = <<>> /\ y = <<>>
<1>1. Len(x \o y) = Len(x) + Len(y) BY ConcatProperties
<1>2. Len(x) \in Nat /\ Len(y) \in Nat BY LenProperties
<1>3. Len(x \o y) = 0 BY EmptySeq
<1>4. Len(x) = 0 /\ Len(y) = 0 BY <1>1, <1>2, <1>3
<1>. QED BY <1>4, EmptySeq

LEMMA NoneOfUnits ==
    ASSUME NEW t, NEW a \in Seq(Units(RowType)), NEW b \in Seq(Units(RowType))
    PROVE  By(t, RowsOf(a \o b)) = <<>>
             <=> By(t, RowsOf(a)) = <<>> /\ By(t, RowsOf(b)) = <<>>
<1>1. PICK x \in Seq(RowType), y \in Seq(RowType) :
         /\ x = By(t, RowsOf(a)) /\ y = By(t, RowsOf(b)) /\ By(t, RowsOf(a \o b)) = x \o y
      BY ByUnits
<1>2. <<>> \o <<>> = <<>> BY EmptySeq, ConcatEmptySeq
<1>. QED BY <1>1, <1>2, NoneOfBoth

LEMMA BehindAll ==
    ASSUME NEW t, NEW units \in Seq(Units(RowType))
    PROVE  Behind(t, Len(units), units)
<1>1. PICK e \in Seq(Units(RowType)) : e = <<>> BY EmptySeq
<1>2. units = units \o e BY <1>1, ConcatEmptySeq
<1>3. By(t, RowsOf(e)) = <<>> BY <1>1, RowsOfEmpty, ByEmpty
<1>. QED BY <1>2, <1>3 DEF Behind

LEMMA BehindMore ==
    ASSUME NEW t, NEW n, NEW units \in Seq(Units(RowType)), Behind(t, n, units),
           NEW x \in Seq(Units(RowType)), By(t, RowsOf(x)) = <<>>
    PROVE  Behind(t, n, units \o x)
<1>1. PICK a \in Seq(Units(RowType)), b \in Seq(Units(RowType)) :
         units = a \o b /\ Len(a) = n /\ By(t, RowsOf(b)) = <<>>
      BY DEF Behind
<1>2. PICK c \in Seq(Units(RowType)) : c = b \o x BY ConcatProperties
<1>3. units \o x = a \o c BY <1>1, <1>2, UnitsAssociate
<1>4. By(t, RowsOf(c)) = <<>> BY <1>1, <1>2, NoneOfUnits
<1>. QED BY <1>1, <1>3, <1>4 DEF Behind

(* The first unit is processed. *)
LEMMA BehindTail ==
    ASSUME NEW t, NEW n \in Nat, NEW units \in Seq(Units(RowType)), units # <<>>,
           Behind(t, n, units)
    PROVE  Behind(t, IF n > 0 THEN n - 1 ELSE 0, Tail(units))
<1>1. PICK a \in Seq(Units(RowType)), b \in Seq(Units(RowType)) :
         units = a \o b /\ Len(a) = n /\ By(t, RowsOf(b)) = <<>>
      BY DEF Behind
<1>2. CASE a = <<>>
  <2>1. n = 0 /\ units = b BY <1>1, <1>2, EmptySeq, ConcatEmptySeq
  <2>2. PICK u \in Units(RowType), r \in Seq(Units(RowType)) : u = Head(b) /\ r = Tail(b)
        BY <2>1, HeadAndTail
  <2>3. PICK h \in Seq(Units(RowType)) : h = <<u>> BY OneUnit
  <2>4. b = h \o r BY <2>1, <2>2, <2>3, HeadAndTail
  <2>5. By(t, RowsOf(r)) = <<>> BY <1>1, <2>4, NoneOfUnits
  <2>6. a \o r = r BY <1>2, ConcatEmptySeq
  <2>7. Tail(units) = a \o r /\ Len(a) = IF n > 0 THEN n - 1 ELSE 0
        BY <1>1, <2>1, <2>2, <2>6
  <2>. QED BY <2>5, <2>7 DEF Behind
<1>3. CASE a # <<>>
  <2>1. PICK u \in Units(RowType), r \in Seq(Units(RowType)) : u = Head(a) /\ r = Tail(a)
        BY <1>3, HeadAndTail
  <2>2. PICK h \in Seq(Units(RowType)) : h = <<u>> BY OneUnit
  <2>3. a = h \o r BY <1>3, <2>1, <2>2, HeadAndTail
  <2>4. PICK s \in Seq(Units(RowType)) : s = r \o b BY ConcatProperties
  <2>5. units = h \o s
    <3>1. (h \o r) \o b = h \o (r \o b) BY UnitsAssociate
    <3>. QED BY <1>1, <2>3, <2>4, <3>1
  <2>6. Tail(units) = s BY <2>2, <2>5, TailOfOne
  <2>7. n > 0 /\ Len(r) = n - 1
    <3>1. Len(a) = 1 + Len(r) /\ Len(r) \in Nat
      <4>1. Len(h \o r) = Len(h) + Len(r) BY ConcatProperties
      <4>2. Len(h) = 1 BY <2>2
      <4>. QED BY <2>3, <4>1, <4>2, LenProperties
    <3>. QED BY <1>1, <3>1
  <2>. QED BY <1>1, <2>4, <2>6, <2>7 DEF Behind
<1>. QED BY <1>2, <1>3

(* What is left of the first of two sequences after the part before n. *)
LEMMA BehindSplit ==
    ASSUME NEW t, NEW n \in Nat, NEW w \in Seq(Units(RowType)), NEW q \in Seq(Units(RowType)),
           Behind(t, n, w \o q), n <= Len(w)
    PROVE  \E a, r \in Seq(Units(RowType)) :
              /\ w = a \o r /\ Len(a) = n
              /\ By(t, RowsOf(r)) = <<>> /\ By(t, RowsOf(q)) = <<>>
<1>1. PICK a \in Seq(Units(RowType)), b \in Seq(Units(RowType)) :
         w \o q = a \o b /\ Len(a) = n /\ By(t, RowsOf(b)) = <<>>
      BY DEF Behind
<1>2. Cut(Units(RowType), w, q, a, b) BY <1>1, Splits
<1>3. PICK r \in Seq(Units(RowType)) : w = a \o r /\ b = r \o q BY <1>2 DEF Cut
<1>. QED BY <1>1, <1>3, NoneOfUnits

LEMMA BehindQueue ==
    ASSUME NEW t, NEW n \in Nat, NEW w \in Seq(Units(RowType)), NEW q \in Seq(Units(RowType)),
           Behind(t, n, w \o q), n <= Len(w)
    PROVE  By(t, RowsOf(q)) = <<>>
BY BehindSplit

LEMMA BehindNone ==
    ASSUME NEW t, NEW w \in Seq(Units(RowType)), NEW q \in Seq(Units(RowType)),
           Behind(t, 0, w \o q)
    PROVE  By(t, RowsOf(w)) = <<>> /\ By(t, RowsOf(q)) = <<>>
<1>1. PICK a \in Seq(Units(RowType)), b \in Seq(Units(RowType)) :
         w \o q = a \o b /\ Len(a) = 0 /\ By(t, RowsOf(b)) = <<>>
      BY DEF Behind
<1>2. w \o q = b
  <2>1. a = <<>> BY <1>1, EmptySeq
  <2>. QED BY <1>1, <2>1, ConcatEmptySeq
<1>. QED BY <1>1, <1>2, NoneOfUnits

(* AUTO_BLOCKING: the units of the queue become one. *)
LEMMA BehindJoined ==
    ASSUME NEW t, NEW n \in Nat, NEW w \in Seq(Units(RowType)), NEW q \in Seq(Units(RowType)),
           Behind(t, n, w \o q), NEW u \in Units(RowType), u.rows = RowsOf(q)
    PROVE  LET w2 == Append(w, u) IN Behind(t, IF n > Len(w2) THEN Len(w2) ELSE n, w2)
<1>1. PICK w2 \in Seq(Units(RowType)) : w2 = Append(w, u) /\ Len(w2) = Len(w) + 1
      BY AppendProperties
<1>2. Len(w) \in Nat BY LenProperties
<1>3. CASE n > Len(w)
  <2>1. (IF n > Len(w2) THEN Len(w2) ELSE n) = Len(w2) BY <1>1, <1>2, <1>3
  <2>. QED BY <1>1, <2>1, BehindAll
<1>4. CASE n <= Len(w)
  <2>1. (IF n > Len(w2) THEN Len(w2) ELSE n) = n BY <1>1, <1>2, <1>4
  <2>2. PICK a \in Seq(Units(RowType)), r \in Seq(Units(RowType)) :
           /\ w = a \o r /\ Len(a) = n
           /\ By(t, RowsOf(r)) = <<>> /\ By(t, RowsOf(q)) = <<>>
        BY <1>4, BehindSplit
  <2>3. PICK h \in Seq(Units(RowType)) : h = <<u>> BY OneUnit
  <2>4. By(t, RowsOf(h)) = <<>> BY <2>2, <2>3, RowsOfOne
  <2>5. PICK c \in Seq(Units(RowType)) : c = r \o h BY ConcatProperties
  <2>6. By(t, RowsOf(c)) = <<>> BY <2>2, <2>4, <2>5, NoneOfUnits
  <2>7. w2 = w \o h BY <1>1, <2>3, AppendIsConcat
  <2>8. w2 = a \o c
    <3>1. Regrouped(a, r, h) BY Regroups
    <3>. QED BY <2>2, <2>5, <2>7, <3>1 DEF Regrouped
  <2>. QED BY <1>1, <2>1, <2>2, <2>6, <2>8 DEF Behind
<1>. QED BY <1>2, <1>3, <1>4

(* Steps that leave what is on its way, and let no thread wait. *)
LEMMA AheadFrame ==
    ASSUME AheadInv, UNCHANGED <<opt, wire, queue>>,
           link \in {"closed", "lost"} => link' \in {"closed", "lost"},
           \A s \in Threads : pc'[s] \in {"publish", "commit"} =>
              pc'[s] = pc[s] /\ ahead'[s] = ahead[s]
    PROVE  AheadInv'
BY DEF AheadInv, Waits, Buffered

LEMMA EnterAhead ==
    ASSUME TypeOK, AheadInv, NEW t \in Threads, Publish(t) \/ Commit(t) \/ Close(t)
    PROVE  AheadInv'
<1>1. PICK units \in Seq(Units(RowType)) : units = wire \o queue
      BY ConcatProperties DEF TypeOK
<1>2. Len(units) = Len(wire) + Len(queue) BY <1>1, ConcatProperties DEF TypeOK
<1>3. UNCHANGED <<opt, wire, queue>> /\ link = "connected"
      BY DEF Publish, Commit, Close, Enter, Call, sdk
<1>4. ASSUME NEW s \in Threads, Waits(s)' PROVE Behind(s, ahead'[s], units)
  <2>1. CASE s = t
    <3>1. ahead'[t] = Len(units)
          BY <1>2, <1>3, <1>4, <2>1 DEF Publish, Commit, Close, Enter, Waits, Buffered, TypeOK
    <3>. QED BY <2>1, <3>1, BehindAll
  <2>2. CASE s # t
    <3>1. pc'[s] = pc[s] /\ ahead'[s] = ahead[s]
          BY <2>2 DEF Publish, Commit, Close, Enter, TypeOK
    <3>2. Waits(s) BY <1>3, <1>4, <3>1 DEF Waits, Buffered
    <3>. QED BY <1>1, <3>1, <3>2 DEF AheadInv
  <2>. QED BY <2>1, <2>2
<1>. QED BY <1>1, <1>3, <1>4 DEF AheadInv

LEMMA EnqueueAhead ==
    ASSUME TypeOK, AheadInv, NEW t \in Threads, Enqueue(t)
    PROVE  AheadInv'
<1>1. PICK w \in Seq(Units(RowType)), q \in Seq(Units(RowType)) : w = wire /\ q = queue
      BY DEF TypeOK
<1>2. PICK us \in Seq(Units(OwnRows(t))) : us = writer[t].units BY DEF TypeOK, Writers
<1>3. PICK x \in Seq(Units(RowType)) : x = us BY UnitsOfThread
<1>4. /\ UNCHANGED <<opt, link>> /\ wire' = w /\ queue' = q \o x
      /\ \A s \in Threads : /\ pc'[s] = IF s = t THEN "free" ELSE pc[s]
                            /\ ahead'[s] = IF s = t THEN 0 ELSE ahead[s]
      BY <1>1, <1>2, <1>3 DEF Enqueue, Return, TypeOK
<1>5. ASSUME NEW s \in Threads, Waits(s)' PROVE Behind(s, ahead'[s], w \o (q \o x))
  <2>1. s # t /\ Waits(s) /\ ahead'[s] = ahead[s] BY <1>4, <1>5 DEF Waits, Buffered
  <2>2. By(s, RowsOf(x)) = <<>>
    <3>1. RowsOf(us) \in Seq(OwnRows(t)) BY RowsOfType
    <3>. QED BY <1>3, <2>1, <3>1, ByOwn
  <2>3. PICK units \in Seq(Units(RowType)) : units = w \o q BY ConcatProperties
  <2>4. Behind(s, ahead[s], units) BY <1>1, <2>1, <2>3 DEF AheadInv
  <2>5. Behind(s, ahead[s], units \o x) BY <2>2, <2>4, BehindMore
  <2>. QED BY <2>1, <2>3, <2>5, UnitsAssociate
<1>. QED BY <1>4, <1>5 DEF AheadInv

LEMMA WriteAhead ==
    ASSUME TypeOK, WriterInv, AheadInv, NEW t \in Threads, WriteUnit(t)
    PROVE  AheadInv'
<1>1. PICK w \in Seq(Units(RowType)) : w = wire BY DEF TypeOK
<1>2. /\ UNCHANGED <<opt, link, pc, ahead, queue>> /\ queue = <<>> /\ ~Buffered
      /\ pc[t] = "publish" /\ writer[t] \in Writers(t) /\ writer[t].units # <<>>
      BY DEF WriteUnit, WriterInv, TypeOK
<1>3. writer[t].units \in Seq(Units(OwnRows(t))) BY <1>2 DEF Writers
<1>4. PICK u \in Units(OwnRows(t)) : u = Head(writer[t].units) BY <1>2, <1>3, UnitsOfThread
<1>5. u \in Units(RowType) BY <1>3, UnitsOfThread
<1>6. PICK x \in Seq(Units(RowType)) : x = <<u>> BY <1>5, OneUnit
<1>7. wire' = w \o x BY <1>1, <1>4, <1>5, <1>6, AppendIsConcat DEF WriteUnit
<1>8. ASSUME NEW s \in Threads, Waits(s)' PROVE Behind(s, ahead'[s], w \o x)
  <2>1. s # t /\ Waits(s) /\ ahead'[s] = ahead[s] BY <1>2, <1>8 DEF Waits, Buffered
  <2>2. By(s, RowsOf(x)) = <<>>
    <3>1. RowsOf(x) = u.rows /\ u.rows \in Seq(OwnRows(t)) BY <1>6, RowsOfOne
    <3>. QED BY <2>1, <3>1, ByOwn
  <2>3. Behind(s, ahead[s], w) BY <1>1, <1>2, <2>1, ConcatEmptySeq DEF AheadInv
  <2>. QED BY <2>1, <2>2, <2>3, BehindMore
<1>9. wire' \o queue' = w \o x
  <2>1. w \o x \in Seq(Units(RowType)) BY ConcatProperties
  <2>. QED BY <1>2, <1>7, <2>1, ConcatEmptySeq
<1>. QED BY <1>8, <1>9 DEF AheadInv

LEMMA SendAhead == ASSUME TypeOK, AheadInv, Send PROVE AheadInv'
<1>1. PICK w \in Seq(Units(RowType)), q \in Seq(Units(RowType)) :
         w = wire /\ q = queue /\ q # <<>>
      BY DEF TypeOK, Send
<1>2. UNCHANGED <<opt, link, pc>> BY DEF Send
<1>3. \A s \in Threads : Waits(s)' => Waits(s) BY <1>2 DEF Waits, Buffered
<1>4. CASE opt.mode = "auto"
  <2>1. PICK u \in Units(RowType) : u = Unit("transaction", RowsOf(q)) /\ u.rows = RowsOf(q)
    <3>1. RowsOf(q) \in Seq(RowType) BY RowsOfType
    <3>2. PICK x \in Seq(RowType) : x = RowsOf(q) BY <3>1
    <3>3. "transaction" \in Kinds BY DEF Kinds
    <3>4. Unit("transaction", x) \in Units(RowType) /\ Unit("transaction", x).rows = x
          BY <3>3, UnitType DEF Unit
    <3>. QED BY <3>2, <3>4
  <2>2. PICK w2 \in Seq(Units(RowType)) : w2 = Append(w, u) BY AppendProperties
  <2>3. /\ wire' = w2 /\ queue' = <<>>
        /\ \A s \in Threads : ahead'[s] = IF ahead[s] > Len(w2) THEN Len(w2) ELSE ahead[s]
        BY <1>1, <1>4, <2>1, <2>2 DEF Send
  <2>4. w2 \o <<>> = w2 BY ConcatEmptySeq
  <2>5. ASSUME NEW s \in Threads, Waits(s)' PROVE Behind(s, ahead'[s], w2)
    <3>1. Behind(s, ahead[s], w \o q) BY <1>1, <1>3, <2>5 DEF AheadInv
    <3>2. ahead[s] \in Nat BY DEF TypeOK
    <3>. QED BY <2>1, <2>2, <2>3, <3>1, <3>2, BehindJoined
  <2>. QED BY <2>3, <2>4, <2>5 DEF AheadInv
<1>5. CASE opt.mode # "auto"
  <2>1. PICK u \in Units(RowType), r \in Seq(Units(RowType)) : u = Head(q) /\ r = Tail(q)
        BY <1>1, HeadAndTail
  <2>2. PICK h \in Seq(Units(RowType)) : h = <<u>> BY OneUnit
  <2>3. q = h \o r BY <1>1, <2>1, <2>2, HeadAndTail
  <2>4. Append(w, u) = w \o h BY <2>2, AppendIsConcat
  <2>5. wire' = w \o h /\ queue' = r /\ ahead' = ahead BY <1>1, <1>5, <2>1, <2>4 DEF Send
  <2>6. wire' \o queue' = wire \o queue BY <1>1, <2>3, <2>5, UnitsAssociate
  <2>. QED BY <1>3, <2>5, <2>6 DEF AheadInv
<1>. QED BY <1>4, <1>5

LEMMA ProcessAhead == ASSUME TypeOK, AheadInv, Process PROVE AheadInv'
<1>1. PICK w \in Seq(Units(RowType)), q \in Seq(Units(RowType)) :
         w = wire /\ q = queue /\ w # <<>>
      BY DEF TypeOK, Process
<1>2. /\ UNCHANGED <<opt, link, pc, queue>> /\ wire' = Tail(w)
      /\ \A s \in Threads : ahead'[s] = IF ahead[s] > 0 THEN ahead[s] - 1 ELSE 0
      BY <1>1 DEF Process
<1>3. PICK u \in Units(RowType), r \in Seq(Units(RowType)) : u = Head(w) /\ r = Tail(w)
      BY <1>1, HeadAndTail
<1>4. PICK h \in Seq(Units(RowType)) : h = <<u>> BY OneUnit
<1>5. w = h \o r BY <1>1, <1>3, <1>4, HeadAndTail
<1>6. PICK s \in Seq(Units(RowType)) : s = r \o q BY ConcatProperties
<1>7. PICK all \in Seq(Units(RowType)) : all = w \o q BY ConcatProperties
<1>8. all = h \o s BY <1>5, <1>6, <1>7, UnitsAssociate
<1>9. Tail(all) = s /\ all # <<>> BY <1>4, <1>8, TailOfOne
<1>10. ASSUME NEW x \in Threads, Waits(x)' PROVE Behind(x, ahead'[x], wire' \o queue')
  <2>1. Waits(x) BY <1>2, <1>10 DEF Waits, Buffered
  <2>2. Behind(x, ahead[x], all) /\ ahead[x] \in Nat BY <1>1, <1>7, <2>1 DEF AheadInv, TypeOK
  <2>3. Behind(x, IF ahead[x] > 0 THEN ahead[x] - 1 ELSE 0, Tail(all))
        BY <1>9, <2>2, BehindTail
  <2>4. wire' \o queue' = s BY <1>1, <1>2, <1>3, <1>6
  <2>. QED BY <1>2, <1>9, <2>3, <2>4
<1>. QED BY <1>10 DEF AheadInv

LEMMA AheadStep ==
    ASSUME TypeOK, WriterInv, AheadInv, [Next]_vars
    PROVE  AheadInv'
<1>1. CASE Connect \/ UNCHANGED vars BY <1>1, AheadFrame DEF Connect, vars, sdk
<1>2. CASE LoseLink BY <1>2 DEF LoseLink, AheadInv, Waits
<1>3. ASSUME NEW t \in Threads, ThreadStep(t) PROVE AheadInv'
  <2>1. CASE Publish(t) \/ Commit(t) \/ Close(t) BY <2>1, EnterAhead
  <2>2. CASE End_Row(t) \/ Add_Buffer(t) \/ End_Block(t)
    <3>1. PICK w : Complete(t, w) BY <2>2 DEF End_Row, Add_Buffer, End_Block
    <3>2. \A s \in Threads : pc'[s] \in {"publish", "commit"} => pc'[s] = pc[s]
          BY <3>1 DEF Complete, TypeOK
    <3>3. UNCHANGED <<opt, wire, queue, ahead, link>> BY <3>1 DEF Complete, Format, sdk
    <3>. QED BY <3>2, <3>3, AheadFrame
  <2>3. CASE \/ Start_Row(t) \/ Set_Operation(t) \/ Set_Column(t)
             \/ \E kind \in {"transaction", "envelope"} : Start_Block(t, kind)
    <3>1. UNCHANGED <<opt, wire, queue, ahead, link, pc>>
          BY <2>3 DEF Start_Row, Set_Operation, Set_Column, Start_Block, Format, sdk
    <3>. QED BY <3>1, AheadFrame
  <2>. QED BY <1>3, <2>1, <2>2, <2>3 DEF ThreadStep
<1>4. ASSUME NEW t \in Threads, Finish(t) PROVE AheadInv'
  <2>1. CASE \/ PublishReturns(t) \/ CommitReturns(t) \/ CloseReturns(t) \/ CallFails(t)
    <3>1. /\ UNCHANGED <<opt, wire, queue>> /\ Return(t)
          /\ link \in {"closed", "lost"} => link' \in {"closed", "lost"}
          BY <2>1 DEF PublishReturns, CommitReturns, CloseReturns, CallFails, Return
    <3>2. \A s \in Threads : pc'[s] \in {"publish", "commit"} =>
             pc'[s] = pc[s] /\ ahead'[s] = ahead[s]
          BY <3>1 DEF Return, TypeOK
    <3>. QED BY <3>1, <3>2, AheadFrame
  <2>. QED BY <1>4, <2>1, EnqueueAhead, WriteAhead DEF Finish
<1>. QED BY <1>1, <1>2, <1>3, <1>4, SendAhead, ProcessAhead DEF Next

LEMMA AheadInit == Init => AheadInv
BY DEF Init, AheadInv, Waits

(* What publish() and commit() wait for. *)
LEMMA PublishKeeps ==
    ASSUME TypeOK, WriterInv, OrderInv, AheadInv, PromisesKept, NEW t \in Threads,
           PublishReturns(t)
    PROVE  PromisesKept'
<1>1. /\ UNCHANGED <<opt, link, writer, log, queue, wire>>
      /\ link \in {"connected", "closing"} /\ pc[t] = "publish"
      /\ flushed' = [flushed EXCEPT ![t] = Len(Written(t))]
      /\ acked' = IF opt.async THEN acked ELSE [acked EXCEPT ![t] = Len(Written(t))]
  <2>1. completed[t] = Len(Written(t)) BY DEF PublishReturns, Open, OrderInv, InOrderOnce
  <2>. QED BY <2>1 DEF PublishReturns, Return, Open
<1>2. /\ Drafts(t) = <<>> /\ By(t, RowsOf(queue)) = <<>>
      /\ opt.async \/ By(t, RowsOf(wire)) = <<>>
  <2>1. writer[t].rows = <<>> BY <1>1 DEF WriterInv
  <2>2. <<>> \o <<>> = <<>> BY EmptySeq, ConcatEmptySeq
  <2>3. CASE Buffered
    <3>1. writer[t].units = <<>> BY <1>1, <2>3 DEF WriterInv
    <3>2. opt.async BY <2>3, OptionsAssumption DEF TypeOK, Buffered
    <3>3. By(t, RowsOf(queue)) = <<>>
      <4>1. ahead[t] \in Nat /\ wire \in Seq(Units(RowType)) /\ queue \in Seq(Units(RowType))
            /\ ahead[t] <= Len(wire) /\ Behind(t, ahead[t], wire \o queue)
            BY <1>1, <2>3 DEF AheadInv, Waits, Open, PublishReturns, TypeOK
      <4>. QED BY <4>1, BehindQueue
    <3>. QED BY <2>1, <2>2, <3>1, <3>2, <3>3, RowsOfEmpty DEF Drafts
  <2>4. CASE ~Buffered
    <3>1. writer[t].units = <<>> /\ (opt.async \/ By(t, RowsOf(wire)) = <<>>) /\ queue = <<>>
          BY <2>4 DEF WriterInv, PublishReturns
    <3>. QED BY <2>1, <2>2, <3>1, RowsOfEmpty, ByEmpty DEF Drafts
  <2>. QED BY <2>3, <2>4
<1>3. PICK a \in Seq(RowType), l \in Seq(RowType) : a = By(t, Arriving) /\ l = By(t, LogRows)
      BY Places
<1>4. Written(t) = a
  <2>1. a \o <<>> = a BY ConcatEmptySeq
  <2>. QED BY <1>2, <1>3, <2>1, Places DEF Written
<1>5. opt.async \/ a = l
  <2>1. l \o <<>> = l BY ConcatEmptySeq
  <2>. QED BY <1>2, <1>3, <2>1, Places
<1>6. Len(a) \in Nat /\ Len(l) \in Nat BY LenProperties
<1>7. Arriving' = Arriving /\ LogRows' = LogRows BY <1>1 DEF Arriving, LogRows
<1>8. ASSUME NEW s \in Threads
      PROVE  flushed'[s] <= Len(By(s, Arriving)) /\ acked'[s] <= Len(By(s, LogRows))
  <2>1. flushed[s] <= Len(By(s, Arriving)) /\ acked[s] <= Len(By(s, LogRows))
        BY <1>1 DEF PromisesKept, Arriving
  <2>2. CASE s = t
    <3>1. flushed'[t] = Len(a) BY <1>1, <1>4 DEF TypeOK
    <3>2. acked'[t] = IF opt.async THEN acked[t] ELSE Len(a) BY <1>1, <1>4 DEF TypeOK
    <3>. QED BY <1>3, <1>5, <1>6, <2>1, <2>2, <3>1, <3>2
  <2>3. CASE s # t
    <3>1. flushed'[s] = flushed[s] /\ acked'[s] = acked[s] BY <1>1, <2>3 DEF TypeOK
    <3>. QED BY <2>1, <3>1
  <2>. QED BY <2>2, <2>3
<1>. QED BY <1>7, <1>8 DEF PromisesKept, Arriving

LEMMA CommitKeeps ==
    ASSUME TypeOK, AheadInv, PromisesKept, NEW t \in Threads, CommitReturns(t)
    PROVE  PromisesKept'
<1>1. /\ UNCHANGED <<link, log, wire>> /\ link \in {"connected", "closing"}
      /\ pc[t] = "commit" /\ ahead[t] = 0
      /\ flushed' = [flushed EXCEPT ![t] = Len(By(t, Handed))]
      /\ acked' = [acked EXCEPT ![t] = Len(By(t, Handed))]
      BY DEF CommitReturns, Return, Open
<1>2. Arriving' = Arriving /\ LogRows' = LogRows BY <1>1 DEF Arriving, LogRows
<1>3. PICK a \in Seq(RowType), l \in Seq(RowType) : a = By(t, Arriving) /\ l = By(t, LogRows)
      BY Places
<1>4. By(t, Handed) = l /\ a = l
  <2>1. By(t, RowsOf(wire)) = <<>> /\ By(t, RowsOf(queue)) = <<>>
    <3>1. wire \in Seq(Units(RowType)) /\ queue \in Seq(Units(RowType))
          /\ Behind(t, 0, wire \o queue)
          BY <1>1 DEF AheadInv, Waits, Open, TypeOK
    <3>. QED BY <3>1, BehindNone
  <2>2. l \o <<>> = l BY ConcatEmptySeq
  <2>. QED BY <1>3, <2>1, <2>2, Places
<1>5. Len(l) \in Nat BY LenProperties
<1>6. ASSUME NEW s \in Threads
      PROVE  flushed'[s] <= Len(By(s, Arriving)) /\ acked'[s] <= Len(By(s, LogRows))
  <2>1. flushed[s] <= Len(By(s, Arriving)) /\ acked[s] <= Len(By(s, LogRows))
        BY <1>1 DEF PromisesKept, Arriving
  <2>2. CASE s = t
    <3>1. flushed'[t] = Len(l) /\ acked'[t] = Len(l) BY <1>1, <1>4 DEF TypeOK
    <3>2. By(t, Arriving) = l /\ By(t, LogRows) = l BY <1>3, <1>4
    <3>3. flushed'[t] <= Len(By(t, Arriving)) /\ acked'[t] <= Len(By(t, LogRows))
          BY <1>5, <3>1, <3>2
    <3>. QED BY <2>2, <3>3
  <2>3. CASE s # t
    <3>1. flushed'[s] = flushed[s] /\ acked'[s] = acked[s] BY <1>1, <2>3 DEF TypeOK
    <3>. QED BY <2>1, <3>1
  <2>. QED BY <2>2, <2>3
<1>. QED BY <1>2, <1>6 DEF PromisesKept, Arriving

LEMMA OrderStep ==
    TypeOK /\ TypeOK' /\ WriterInv /\ OrderInv /\ AheadInv /\ PromisesKept /\ [Next]_vars
       => OrderInv' /\ PromisesKept'
BY StepMoves, LoseKeeps, OrderKept, PromisesStay, PublishKeeps, CommitKeeps

LEMMA OrderInit == Init => OrderInv /\ PromisesKept
<1>. SUFFICES ASSUME Init PROVE OrderInv /\ PromisesKept OBVIOUS
<1>0. TypeOK BY InitType
<1>1. <<>> \o <<>> = <<>> /\ <<>> \in Seq({}) BY EmptySeq, ConcatEmptySeq
<1>2. LogRows = <<>>
  <2>1. LogRows \in Seq(RowType) /\ Len(LogRows) = 0 BY <1>0, LogRowsType, EmptySeq DEF Init
  <2>. QED BY <2>1, EmptySeq
<1>3. RowsOf(wire) = <<>> /\ RowsOf(queue) = <<>> BY RowsOfEmpty DEF Init
<1>4. Arriving = <<>> /\ Handed = <<>> BY <1>1, <1>2, <1>3 DEF Arriving, Handed
<1>5. ASSUME NEW s \in Threads PROVE Written(s) = <<>>
  <2>1. writer[s].units = <<>> /\ writer[s].rows = <<>> BY DEF Init, NewWriter
  <2>. QED BY <1>1, <1>4, <2>1, RowsOfEmpty, ByEmpty DEF Written, Drafts
<1>6. InOrder(<<>>) BY DEF InOrder
<1>7. \A s \in Threads : flushed[s] = 0 /\ acked[s] = 0 /\ completed[s] = 0 BY DEF Init
<1>. QED BY <1>2, <1>4, <1>5, <1>6, <1>7, ByEmpty, EmptySeq
         DEF OrderInv, InOrderOnce, PromisesKept, Arriving

-----------------------------------------------------------------------------
(* The transactions of a thread on their way. *)
LEMMA MarkMaps == ASSUME NEW t PROVE Maps(MarkOf(t), Units(RowType), Nat)
<1>1. ASSUME NEW u \in Units(RowType)
      PROVE  (IF u.kind = "transaction" /\ u.rows # <<>> /\ u.rows[1].by = t
                THEN <<u.rows[1].block>> ELSE <<>>) \in Seq(Nat)
  <2>1. CASE u.rows # <<>>
    <3>1. u.rows \in Seq(RowType) BY DEF Units
    <3>2. u.rows[1] \in RowType BY <2>1, <3>1, HeadTailProperties
    <3>3. u.rows[1].block \in Nat BY <3>2 DEF RowType
    <3>4. <<u.rows[1].block>> \in Seq(Nat) /\ <<>> \in Seq(Nat) BY <3>3
    <3>. QED BY <3>4
  <2>2. CASE u.rows = <<>> BY <2>2, EmptySeq
  <2>. QED BY <2>1, <2>2
<1>. QED BY <1>1 DEF Maps, MarkOf

LEMMA MarksType ==
    ASSUME NEW t, NEW units \in Seq(Units(RowType))
    PROVE  Marks(t, units) \in Seq(Nat)
BY MarkMaps, FlatMapType DEF Marks

LEMMA MarksEmpty == ASSUME NEW t PROVE Marks(t, <<>>) = <<>>
BY FlatMapEmpty DEF Marks

LEMMA MarksConcat ==
    ASSUME NEW t, NEW units \in Seq(Units(RowType)), NEW others \in Seq(Units(RowType))
    PROVE  Marks(t, units \o others) = Marks(t, units) \o Marks(t, others)
BY MarkMaps, FlatMapConcat DEF Marks

LEMMA MarksAppend ==
    ASSUME NEW t, NEW units \in Seq(Units(RowType)), NEW u \in Units(RowType)
    PROVE  /\ Marks(t, Append(units, u)) = Marks(t, units) \o MarkOf(t)[u]
           /\ MarkOf(t)[u] \in Seq(Nat)
BY MarkMaps, FlatMapAppend DEF Marks, Maps

LEMMA MarksHead ==
    ASSUME NEW t, NEW units \in Seq(Units(RowType)), units # <<>>
    PROVE  /\ Marks(t, units) = MarkOf(t)[Head(units)] \o Marks(t, Tail(units))
           /\ MarkOf(t)[Head(units)] \in Seq(Nat)
<1>1. Head(units) \in Units(RowType) BY HeadAndTail
<1>2. MarkOf(t)[Head(units)] \in Seq(Nat) BY <1>1, MarkMaps DEF Maps
<1>3. FlatMap(MarkOf(t), units) = MarkOf(t)[Head(units)] \o FlatMap(MarkOf(t), Tail(units))
      BY MarkMaps, FlatMapHead
<1>. QED BY <1>2, <1>3 DEF Marks

(* The units of a thread have no transaction of another. *)
LEMMA MarkOfOther ==
    ASSUME NEW t, NEW s, s # t, NEW u \in Units(OwnRows(t))
    PROVE  u \in Units(RowType) /\ MarkOf(s)[u] = <<>>
<1>1. u \in Units(RowType) BY EmptySeq, UnitsOfThread
<1>2. CASE u.rows = <<>> BY <1>1, <1>2 DEF MarkOf
<1>3. CASE u.rows # <<>>
  <2>1. u.rows \in Seq(OwnRows(t)) BY DEF Units
  <2>2. u.rows[1] \in OwnRows(t) BY <1>3, <2>1, HeadTailProperties
  <2>3. u.rows[1].by = t BY <2>2 DEF OwnRows
  <2>. QED BY <1>1, <2>3 DEF MarkOf
<1>. QED BY <1>2, <1>3

LEMMA MarksOther ==
    ASSUME NEW t, NEW s, s # t, NEW units \in Seq(Units(OwnRows(t)))
    PROVE  Marks(s, units) = <<>>
<1>. DEFINE P == {q \in Seq(Units(OwnRows(t))) : Marks(s, q) = <<>>}
<1>1. <<>> \in P BY MarksEmpty, EmptySeq
<1>2. ASSUME NEW q \in Seq(Units(OwnRows(t))), NEW u \in Units(OwnRows(t)), q \in P
      PROVE  Append(q, u) \in P
  <2>1. u \in Units(RowType) /\ MarkOf(s)[u] = <<>> BY MarkOfOther
  <2>2. q \in Seq(Units(RowType)) BY UnitsOfThread
  <2>3. Marks(s, Append(q, u)) = <<>> \o <<>> BY <1>2, <2>1, <2>2, MarksAppend
  <2>4. <<>> \o <<>> = <<>> BY EmptySeq, ConcatEmptySeq
  <2>5. Append(q, u) \in Seq(Units(OwnRows(t))) BY AppendProperties
  <2>. QED BY <2>3, <2>4, <2>5
<1>3. Seq(Units(OwnRows(t))) \subseteq P
  <2>. HIDE DEF P
  <2>. QED BY <1>1, <1>2, SeqInduction
<1>. QED BY <1>3

LEMMA BeforeType ==
    ASSUME TypeOK, NEW t \in Threads
    PROVE  /\ Marks(t, wire) \in Seq(Nat) /\ Marks(t, queue) \in Seq(Nat)
           /\ Before(t) \in Seq(Nat) /\ writer[t].units \in Seq(Units(RowType))
           /\ Marks(t, writer[t].units) \in Seq(Nat) /\ Rest(t) \in Seq(Nat)
<1>1. writer[t].units \in Seq(Units(OwnRows(t))) BY DEF TypeOK, Writers
<1>2. PICK us \in Seq(Units(OwnRows(t))) : us = writer[t].units BY <1>1
<1>3. us \in Seq(Units(RowType)) BY UnitsOfThread
<1>4. Marks(t, wire) \in Seq(Nat) /\ Marks(t, queue) \in Seq(Nat) /\ Marks(t, us) \in Seq(Nat)
      BY <1>3, MarksType DEF TypeOK
<1>5. Before(t) \in Seq(Nat) BY <1>4, ConcatProperties DEF Before
<1>6. Before(t) \o Marks(t, us) \in Seq(Nat) BY <1>4, <1>5, ConcatProperties
<1>. QED BY <1>2, <1>3, <1>4, <1>5, <1>6 DEF Rest

-----------------------------------------------------------------------------
(* What is queued. *)
LEMMA QueuedLess ==
    ASSUME NEW done \in SUBSET Nat, NEW a \in Seq(Nat), NEW x \in Seq(Nat), NEW last \in Int,
           NEW more \in Int, last <= more, Queued(done, a \o x, last)
    PROVE  Queued(done, a, more)
<1>1. PICK b \in Seq(Nat) : b = a \o x BY ConcatProperties
<1>2. /\ DOMAIN a = 1 .. Len(a) /\ DOMAIN b = 1 .. Len(b) /\ Len(b) = Len(a) + Len(x)
      /\ Len(a) \in Nat /\ Len(x) \in Nat /\ \A i \in 1 .. Len(a) : b[i] = a[i] /\ a[i] \in Nat
      BY <1>1, ConcatProperties, LenProperties, ElementOfSeq
<1>3. \A i \in DOMAIN a : i \in DOMAIN b /\ b[i] = a[i] /\ a[i] \in Nat BY <1>2
<1>4. Rising(a) BY <1>1, <1>3 DEF Queued, Rising
<1>5. \A i \in DOMAIN a : a[i] <= more BY <1>1, <1>3 DEF Queued
<1>6. \A d \in done : d <= more /\ \A j \in DOMAIN a : d < a[j] BY <1>1, <1>3 DEF Queued
<1>. QED BY <1>4, <1>5, <1>6 DEF Queued

LEMMA QueuedMore ==
    ASSUME NEW done \in SUBSET Nat, NEW a \in Seq(Nat), NEW m \in Nat, NEW last \in Int,
           NEW more \in Int, last < m, m <= more, Queued(done, a, last)
    PROVE  Queued(done, Append(a, m), more)
<1>1. PICK b \in Seq(Nat) : b = Append(a, m) BY AppendProperties
<1>2. /\ DOMAIN a = 1 .. Len(a) /\ DOMAIN b = 1 .. Len(b) /\ Len(b) = Len(a) + 1
      /\ Len(a) \in Nat /\ b[Len(a) + 1] = m
      /\ \A i \in 1 .. Len(a) : b[i] = a[i] /\ a[i] \in Nat
      BY <1>1, AppendProperties, LenProperties, ElementOfSeq
<1>3. \A i \in DOMAIN b : (i \in DOMAIN a /\ b[i] = a[i] /\ a[i] \in Nat)
                          \/ (i = Len(a) + 1 /\ b[i] = m)
      BY <1>2
<1>4. \A i \in DOMAIN a : a[i] <= last /\ a[i] \in Nat BY <1>2 DEF Queued
<1>5. ASSUME NEW i \in DOMAIN b, NEW j \in DOMAIN b, i < j PROVE b[i] < b[j]
  <2>1. i \in DOMAIN a /\ b[i] = a[i] /\ a[i] \in Nat BY <1>2, <1>5
  <2>2. CASE j \in DOMAIN a
    <3>1. b[j] = a[j] BY <1>2, <2>2
    <3>2. a[i] < a[j] BY <1>5, <2>1, <2>2 DEF Queued, Rising
    <3>. QED BY <2>1, <3>1, <3>2
  <2>3. CASE j \notin DOMAIN a
    <3>1. b[j] = m BY <1>3, <2>3
    <3>. QED BY <1>4, <2>1, <3>1
  <2>. QED BY <2>2, <2>3
<1>6. Rising(b) BY <1>5 DEF Rising
<1>7. \A i \in DOMAIN b : b[i] <= more BY <1>3, <1>4
<1>8. \A d \in done : d <= more /\ \A j \in DOMAIN b : d < b[j]
  <2>1. \A d \in done : d \in Nat /\ d <= last /\ \A j \in DOMAIN a : d < a[j] BY DEF Queued
  <2>. QED BY <1>3, <2>1
<1>. QED BY <1>1, <1>6, <1>7, <1>8 DEF Queued

LEMMA QueuedHead ==
    ASSUME NEW done \in SUBSET Nat, NEW m \in Nat, NEW a \in Seq(Nat), NEW last \in Int,
           Queued(done, <<m>> \o a, last)
    PROVE  Queued(done \cup {m}, a, last) /\ \A d \in done : d < m
<1>0. <<m>> \in Seq(Nat) /\ Len(<<m>>) = 1 /\ <<m>>[1] = m OBVIOUS
<1>1. PICK h \in Seq(Nat) : h = <<m>> /\ Len(h) = 1 /\ h[1] = m BY <1>0
<1>2. PICK b \in Seq(Nat) : b = h \o a BY ConcatProperties
<1>3. /\ Len(b) = 1 + Len(a) /\ Len(a) \in Nat
      /\ \A i \in 1 .. Len(h) + Len(a) : b[i] = IF i <= Len(h) THEN h[i] ELSE a[i - Len(h)]
      /\ DOMAIN a = 1 .. Len(a) /\ DOMAIN b = 1 .. Len(b)
      BY <1>1, <1>2, ConcatProperties, LenProperties
<1>4. b[1] = m /\ 1 \in DOMAIN b BY <1>1, <1>3
<1>5. \A i \in DOMAIN a : i + 1 \in DOMAIN b /\ b[i + 1] = a[i] /\ i \in Nat
  <2>1. ASSUME NEW i \in DOMAIN a PROVE i + 1 \in DOMAIN b /\ b[i + 1] = a[i] /\ i \in Nat
    <3>1. i \in Nat /\ i + 1 \in 1 .. Len(b) /\ ~(i + 1 <= 1) /\ i + 1 - 1 = i BY <1>3
    <3>. QED BY <1>1, <1>3, <3>1
  <2>. QED BY <2>1
<1>6. Queued(done, b, last) BY <1>1, <1>2
<1>7. Rising(a)
  <2>1. ASSUME NEW i \in DOMAIN a, NEW j \in DOMAIN a, i < j PROVE a[i] < a[j]
    <3>1. i + 1 < j + 1 BY <1>5, <2>1
    <3>. QED BY <1>5, <1>6, <3>1 DEF Queued, Rising
  <2>. QED BY <2>1 DEF Rising
<1>8. \A i \in DOMAIN a : a[i] <= last BY <1>5, <1>6 DEF Queued
<1>9. m <= last /\ \A d \in done : d < m /\ d <= last BY <1>4, <1>6 DEF Queued
<1>10. \A j \in DOMAIN a : m < a[j]
  <2>1. ASSUME NEW j \in DOMAIN a PROVE m < a[j]
    <3>1. j + 1 \in DOMAIN b /\ 1 < j + 1 BY <1>3, <1>5
    <3>. QED BY <1>4, <1>5, <1>6, <3>1 DEF Queued, Rising
  <2>. QED BY <2>1
<1>11. \A d \in done : \A j \in DOMAIN a : d < a[j] BY <1>5, <1>6 DEF Queued
<1>. QED BY <1>7, <1>8, <1>9, <1>10, <1>11 DEF Queued

(* The blocks of rows. *)
LEMMA BlocksType ==
    ASSUME NEW t, NEW rows \in Seq(RowType)
    PROVE  Blocks(t, rows) \in SUBSET Nat
<1>1. \A i \in DOMAIN rows : rows[i] \in RowType BY LenProperties, ElementOfSeq
<1>2. \A i \in DOMAIN rows : rows[i].block \in Nat BY <1>1 DEF RowType
<1>. QED BY <1>2 DEF Blocks

LEMMA BlocksConcat ==
    ASSUME NEW t, NEW rows \in Seq(RowType), NEW others \in Seq(RowType)
    PROVE  Blocks(t, rows \o others) \subseteq Blocks(t, rows) \cup Blocks(t, others)
<1>1. PICK b \in Seq(RowType) : b = rows \o others BY ConcatProperties
<1>2. /\ Len(b) = Len(rows) + Len(others) /\ Len(rows) \in Nat /\ Len(others) \in Nat
      /\ \A i \in 1 .. Len(rows) + Len(others) :
            b[i] = IF i <= Len(rows) THEN rows[i] ELSE others[i - Len(rows)]
      /\ DOMAIN b = 1 .. Len(b) /\ DOMAIN rows = 1 .. Len(rows)
      /\ DOMAIN others = 1 .. Len(others)
      BY <1>1, ConcatProperties, LenProperties
<1>3. ASSUME NEW i \in DOMAIN b
      PROVE  \/ i \in DOMAIN rows /\ b[i] = rows[i]
             \/ i - Len(rows) \in DOMAIN others /\ b[i] = others[i - Len(rows)]
  <2>1. CASE i <= Len(rows) BY <1>2, <2>1
  <2>2. CASE ~(i <= Len(rows))
    <3>1. i - Len(rows) \in 1 .. Len(others) BY <1>2, <2>2
    <3>. QED BY <1>2, <2>2, <3>1
  <2>. QED BY <2>1, <2>2
<1>4. ASSUME NEW i \in DOMAIN b, b[i].by = t, b[i].block # 0
      PROVE  b[i].block \in Blocks(t, rows) \cup Blocks(t, others)
  <2>1. CASE i \in DOMAIN rows /\ b[i] = rows[i] BY <1>4, <2>1 DEF Blocks
  <2>2. CASE i - Len(rows) \in DOMAIN others /\ b[i] = others[i - Len(rows)]
        BY <1>4, <2>2 DEF Blocks
  <2>. QED BY <1>3, <2>1, <2>2
<1>5. Blocks(t, b) \subseteq Blocks(t, rows) \cup Blocks(t, others) BY <1>4 DEF Blocks
<1>. QED BY <1>1, <1>5

(* A unit's rows are of the block it is, if it is one of the thread. *)
LEMMA UnitBlocks ==
    ASSUME NEW t, NEW u \in ShapedUnits
    PROVE  \/ MarkOf(t)[u] = <<>> /\ Blocks(t, u.rows) = {}
           \/ \E m \in Nat : MarkOf(t)[u] = <<m>> /\ Blocks(t, u.rows) \subseteq {m}
<1>1. u \in Units(RowType) /\ Shaped(u) /\ u.rows \in Seq(RowType) BY DEF ShapedUnits, Units
<1>2. CASE u.kind = "transaction" /\ u.rows # <<>> /\ u.rows[1].by = t
  <2>1. u.rows[1] \in RowType BY <1>1, <1>2, HeadTailProperties
  <2>2. u.rows[1].block \in Nat /\ MarkOf(t)[u] = <<u.rows[1].block>>
        BY <1>1, <1>2, <2>1 DEF RowType, MarkOf
  <2>3. \A i \in DOMAIN u.rows : u.rows[i].block = u.rows[1].block
        BY <1>1, <1>2 DEF Shaped
  <2>4. Blocks(t, u.rows) \subseteq {u.rows[1].block} BY <2>3 DEF Blocks
  <2>. QED BY <2>2, <2>4
<1>3. CASE ~(u.kind = "transaction" /\ u.rows # <<>> /\ u.rows[1].by = t)
  <2>1. MarkOf(t)[u] = <<>> BY <1>1, <1>3 DEF MarkOf
  <2>2. ASSUME NEW i \in DOMAIN u.rows PROVE ~(u.rows[i].by = t /\ u.rows[i].block # 0)
    <3>1. CASE u.kind = "transaction"
      <4>1. u.rows # <<>>
        <5>1. DOMAIN <<>> = {} OBVIOUS
        <5>. QED BY <2>2, <5>1
      <4>2. u.rows[i].by = u.rows[1].by BY <1>1, <3>1 DEF Shaped
      <4>. QED BY <1>3, <3>1, <4>1, <4>2
    <3>2. CASE u.kind # "transaction" BY <1>1, <3>2 DEF Shaped
    <3>. QED BY <3>1, <3>2
  <2>3. Blocks(t, u.rows) = {} BY <2>2 DEF Blocks
  <2>. QED BY <2>1, <2>3
<1>. QED BY <1>2, <1>3

LEMMA ShapedAreUnits == Seq(ShapedUnits) \subseteq Seq(Units(RowType))
<1>1. ShapedUnits \subseteq Units(RowType) BY DEF ShapedUnits
<1>. QED BY <1>1, SeqOfMore

-----------------------------------------------------------------------------
(* Transactions, step by step. *)
Fits == \A t \in Threads : /\ Newest(writer[t], blocks[t]) \in Int /\ Rest(t) \in Seq(Nat)
                            /\ LogRows \in Seq(RowType)

LEMMA FitsNow == TypeOK => Fits
<1>1. ASSUME TypeOK, NEW t \in Threads PROVE Newest(writer[t], blocks[t]) \in Int
  <2>1. blocks[t] \in Nat BY <1>1 DEF TypeOK
  <2>. QED BY <2>1 DEF Newest
<1>. QED BY <1>1, BeforeType, LogRowsType DEF Fits

LEMMA FitsNext == TypeOK' => Fits'
BY FitsNow, PTL

(* Steps that leave the units where they are, or drop the last of them. *)
LEMMA BlocksStay ==
    ASSUME TypeOK, TypeOK', BlockInv, Blocking, UNCHANGED <<opt, log>>,
           wire' \in Seq(ShapedUnits), queue' \in Seq(ShapedUnits),
           \A s \in Threads :
              /\ \E x \in Seq(Nat) : Rest(s) = Rest(s)' \o x
              /\ Newest(writer[s], blocks[s]) <= Newest(writer'[s], blocks'[s])
              /\ Draft(writer'[s], blocks'[s])
    PROVE  BlockInv'
<1>1. ASSUME NEW s \in Threads
      PROVE  Queued(Blocks(s, LogRows)', Rest(s)', Newest(writer'[s], blocks'[s]))
  <2>1. PICK x \in Seq(Nat) : Rest(s) = Rest(s)' \o x OBVIOUS
  <2>2. PICK d \in SUBSET Nat : d = Blocks(s, LogRows) /\ d = Blocks(s, LogRows)'
    <3>1. LogRows' = LogRows BY DEF LogRows
    <3>. QED BY <3>1, FitsNow, BlocksType DEF Fits
  <2>3. PICK m \in Int : m = Newest(writer[s], blocks[s]) BY FitsNow DEF Fits
  <2>4. PICK n \in Int : n = Newest(writer'[s], blocks'[s]) BY FitsNext DEF Fits
  <2>5. PICK a \in Seq(Nat) : a = Rest(s)' BY FitsNext DEF Fits
  <2>6. Queued(d, a \o x, m) BY <2>1, <2>2, <2>3, <2>5 DEF BlockInv
  <2>7. m <= n BY <2>3, <2>4
  <2>8. Queued(d, a, n) BY <2>6, <2>7, QueuedLess
  <2>. QED BY <2>2, <2>4, <2>5, <2>8
<1>. QED BY <1>1 DEF BlockInv

(* The same, for most steps: nothing moves past a writer. *)
LEMMA BlocksSame ==
    ASSUME TypeOK, TypeOK', BlockInv, Blocking, UNCHANGED <<opt, log, wire, queue>>,
           link' = "lost" <=> link = "lost",
           \A s \in Threads : /\ writer'[s].units = writer[s].units
                              /\ Newest(writer[s], blocks[s]) <= Newest(writer'[s], blocks'[s])
                              /\ Draft(writer'[s], blocks'[s])
    PROVE  BlockInv'
<1>1. ASSUME NEW s \in Threads PROVE \E x \in Seq(Nat) : Rest(s) = Rest(s)' \o x
  <2>1. Rest(s)' = Rest(s) BY DEF Rest, Before
  <2>2. Rest(s) = Rest(s) \o <<>> /\ <<>> \in Seq(Nat)
        BY FitsNow, ConcatEmptySeq, EmptySeq DEF Fits
  <2>. QED BY <2>1, <2>2
<1>2. wire' \in Seq(ShapedUnits) /\ queue' \in Seq(ShapedUnits) BY DEF BlockInv
<1>. QED BY <1>1, <1>2, BlocksStay

(* What is completed. *)
LEMMA CompleteMarks ==
    ASSUME TypeOK, NEW t \in Threads, NEW w \in Writers(t), Complete(t, w), link = "connected"
    PROVE  /\ Rest(t)' = Before(t) \o Marks(t, w.units)
           /\ \A s \in Threads \ {t} : Rest(s)' = Rest(s)
<1>1. /\ UNCHANGED <<wire, queue, link>> /\ DOMAIN writer = Threads
      /\ writer' = [writer EXCEPT ![t] = w]
      BY DEF Complete, Format, TypeOK, sdk
<1>2. writer'[t] = w /\ \A s \in Threads \ {t} : writer'[s] = writer[s] BY <1>1
<1>3. \A s \in Threads : Before(s)' = Before(s) BY <1>1 DEF Before
<1>. QED BY <1>1, <1>2, <1>3 DEF Rest

LEMMA BlocksComplete ==
    ASSUME TypeOK, TypeOK', BlockInv, Blocking, NEW t \in Threads, NEW w \in Writers(t),
           Complete(t, w), link = "connected", NEW n \in Nat,
           blocks' = [blocks EXCEPT ![t] = n], Draft(w, n),
           Queued(Blocks(t, LogRows), Before(t) \o Marks(t, w.units), Newest(w, n))
    PROVE  BlockInv'
<1>1. /\ UNCHANGED <<opt, log, wire, queue>> /\ DOMAIN writer = Threads
      /\ DOMAIN blocks = Threads /\ writer' = [writer EXCEPT ![t] = w]
      BY DEF Complete, Format, TypeOK, sdk
<1>2. wire' \in Seq(ShapedUnits) /\ queue' \in Seq(ShapedUnits) BY <1>1 DEF BlockInv
<1>3. writer'[t] = w /\ \A s \in Threads \ {t} : writer'[s] = writer[s] BY <1>1
<1>4. LogRows' = LogRows BY <1>1 DEF LogRows
<1>5. ASSUME NEW s \in Threads
      PROVE  /\ Queued(Blocks(s, LogRows)', Rest(s)', Newest(writer'[s], blocks'[s]))
             /\ Draft(writer'[s], blocks'[s])
  <2>1. CASE s = t
    <3>1. blocks'[t] = n BY <1>1
    <3>2. Rest(t)' = Before(t) \o Marks(t, w.units) BY CompleteMarks
    <3>. QED BY <1>3, <1>4, <2>1, <3>1, <3>2
  <2>2. CASE s # t
    <3>1. blocks'[s] = blocks[s] /\ writer'[s] = writer[s] BY <1>1, <1>3, <2>2
    <3>2. Rest(s)' = Rest(s) BY <2>2, CompleteMarks
    <3>. QED BY <1>4, <3>1, <3>2 DEF BlockInv
  <2>. QED BY <2>1, <2>2
<1>. QED BY <1>1, <1>2, <1>5 DEF BlockInv

LEMMA NumbersAssociate ==
    \A a, b, c \in Seq(Nat) : (a \o b) \o c = a \o (b \o c)
BY ConcatAssociative

LEMMA QueuedUp ==
    ASSUME NEW done \in SUBSET Nat, NEW a \in Seq(Nat), NEW last \in Int,
           NEW more \in Int, last <= more, Queued(done, a, last)
    PROVE  Queued(done, a, more)
<1>1. PICK e \in Seq(Nat) : e = <<>> BY EmptySeq
<1>2. a = a \o e BY <1>1, ConcatEmptySeq
<1>. QED BY <1>2, QueuedLess

(* A writer that has no more units, or one more. *)
LEMMA BlocksNoUnit ==
    ASSUME TypeOK, TypeOK', BlockInv, Blocking, NEW t \in Threads, NEW w \in Writers(t),
           Complete(t, w), link = "connected", NEW n \in Nat,
           blocks' = [blocks EXCEPT ![t] = n], Draft(w, n),
           w.units = writer[t].units, Newest(writer[t], blocks[t]) <= Newest(w, n)
    PROVE  BlockInv'
<1>1. Rest(t) = Before(t) \o Marks(t, w.units) BY DEF Rest
<1>2. PICK d \in SUBSET Nat, a \in Seq(Nat), k \in Int, m \in Int :
         /\ d = Blocks(t, LogRows) /\ a = Rest(t) /\ k = Newest(writer[t], blocks[t])
         /\ m = Newest(w, n)
  <2>1. Newest(w, n) \in Int BY DEF Newest
  <2>. QED BY <2>1, FitsNow, BlocksType DEF Fits
<1>3. Queued(d, a, k) /\ k <= m BY <1>2 DEF BlockInv
<1>4. Queued(d, a, m) BY <1>3, QueuedUp
<1>. QED BY <1>1, <1>2, <1>4, BlocksComplete

LEMMA BlocksUnit ==
    ASSUME TypeOK, TypeOK', BlockInv, Blocking, NEW t \in Threads, NEW w \in Writers(t),
           Complete(t, w), link = "connected", NEW n \in Nat,
           blocks' = [blocks EXCEPT ![t] = n], Draft(w, n), NEW u \in Units(RowType),
           w.units = Append(writer[t].units, u),
           Newest(writer[t], blocks[t]) <= Newest(w, n),
           \/ MarkOf(t)[u] = <<>>
           \/ \E m \in Nat : /\ MarkOf(t)[u] = <<m>>
                             /\ Newest(writer[t], blocks[t]) < m /\ m <= Newest(w, n)
    PROVE  BlockInv'
<1>1. /\ Before(t) \in Seq(Nat) /\ Marks(t, writer[t].units) \in Seq(Nat)
      /\ writer[t].units \in Seq(Units(RowType))
      BY BeforeType
<1>2. PICK b \in Seq(Nat), c \in Seq(Nat), us \in Seq(Units(RowType)) :
         b = Before(t) /\ c = Marks(t, us) /\ us = writer[t].units
      BY <1>1
<1>3. Marks(t, w.units) = c \o MarkOf(t)[u] /\ MarkOf(t)[u] \in Seq(Nat) BY <1>2, MarksAppend
<1>4. PICK d \in SUBSET Nat, a \in Seq(Nat), k \in Int, l \in Int :
         /\ d = Blocks(t, LogRows) /\ a = Rest(t) /\ k = Newest(writer[t], blocks[t])
         /\ l = Newest(w, n)
  <2>1. Newest(w, n) \in Int BY DEF Newest
  <2>. QED BY <2>1, FitsNow, BlocksType DEF Fits
<1>5. a = b \o c BY <1>2, <1>4 DEF Rest
<1>6. Before(t) \o Marks(t, w.units) = a \o MarkOf(t)[u]
  <2>1. PICK x \in Seq(Nat) : x = MarkOf(t)[u] BY <1>3
  <2>2. (b \o c) \o x = b \o (c \o x) BY NumbersAssociate
  <2>. QED BY <1>2, <1>3, <1>5, <2>1, <2>2
<1>7. Queued(d, a, k) /\ k <= l BY <1>4 DEF BlockInv
<1>8. CASE MarkOf(t)[u] = <<>>
  <2>1. a \o <<>> = a BY ConcatEmptySeq
  <2>2. Queued(d, a, l) BY <1>7, QueuedUp
  <2>. QED BY <1>4, <1>6, <1>8, <2>1, <2>2, BlocksComplete
<1>9. CASE \E m \in Nat : /\ MarkOf(t)[u] = <<m>>
                          /\ Newest(writer[t], blocks[t]) < m /\ m <= Newest(w, n)
  <2>1. PICK m \in Nat : MarkOf(t)[u] = <<m>> /\ k < m /\ m <= l BY <1>4, <1>9
  <2>2. Append(a, m) = a \o <<m>> BY AppendIsConcat
  <2>3. Queued(d, Append(a, m), l) BY <1>7, <2>1, QueuedMore
  <2>. QED BY <1>4, <1>6, <2>1, <2>2, <2>3, BlocksComplete
<1>. QED BY <1>8, <1>9

(* Rows and blocks being formatted. *)
LEMMA RowStepBlocks ==
    ASSUME TypeOK, TypeOK', WriterInv, BlockInv, Blocking, NEW t \in Threads,
           \/ Start_Row(t) \/ Set_Operation(t) \/ Set_Column(t)
           \/ \E kind \in {"transaction", "envelope"} : Start_Block(t, kind)
    PROVE  BlockInv'
<1>1. /\ writer[t] \in Writers(t) /\ DOMAIN writer = Threads /\ blocks \in [Threads -> Nat]
      BY DEF TypeOK
<1>2. PICK w \in Writers(t), n \in Nat :
         /\ Call(t) /\ Format(t, w) /\ blocks' = [blocks EXCEPT ![t] = n]
         /\ w.units = writer[t].units /\ Newest(writer[t], blocks[t]) <= Newest(w, n)
         /\ Draft(w, n)
  <2>0. blocks[t] \in Nat /\ Draft(writer[t], blocks[t]) /\ blocks = [blocks EXCEPT ![t] = @]
        BY <1>1 DEF BlockInv
  <2>1. ASSUME NEW w, Call(t), Format(t, w), UNCHANGED blocks,
               w.units = writer[t].units, w.rows = writer[t].rows, w.block = writer[t].block
        PROVE  /\ Call(t) /\ Format(t, w)
               /\ blocks' = [blocks EXCEPT ![t] = blocks[t]]
               /\ w.units = writer[t].units
               /\ Newest(writer[t], blocks[t]) <= Newest(w, blocks[t])
               /\ Draft(w, blocks[t])
    <3>1. Newest(w, blocks[t]) = Newest(writer[t], blocks[t]) BY <2>1 DEF Newest
    <3>2. Newest(writer[t], blocks[t]) \in Int BY FitsNow DEF Fits
    <3>3. Draft(w, blocks[t]) BY <2>0, <2>1 DEF Draft
    <3>. QED BY <2>0, <2>1, <3>1, <3>2, <3>3
  <2>2. CASE Start_Row(t)
    <3>1. PICK w \in Writers(t) : w = StartRow(writer[t]) BY <1>1, StartRowType
    <3>2. w.units = writer[t].units /\ w.rows = writer[t].rows /\ w.block = writer[t].block
          BY <1>1, <3>1 DEF StartRow, Writers
    <3>3. Call(t) /\ Format(t, w) /\ UNCHANGED blocks BY <2>2, <3>1 DEF Start_Row
    <3>. QED BY <2>0, <2>1, <3>2, <3>3
  <2>3. CASE Set_Operation(t)
    <3>1. PICK op \in UsedOps : Format(t, SetOperation(writer[t], op)) BY <2>3 DEF Set_Operation
    <3>2. PICK w \in Writers(t) : w = SetOperation(writer[t], op)
          BY <1>1, <3>1, SetOperationType
    <3>3. w.units = writer[t].units /\ w.rows = writer[t].rows /\ w.block = writer[t].block
          BY <1>1, <3>2 DEF SetOperation, Writers
    <3>4. Call(t) /\ Format(t, w) /\ UNCHANGED blocks
          BY <2>3, <3>1, <3>2 DEF Set_Operation
    <3>. QED BY <2>0, <2>1, <3>3, <3>4
  <2>4. CASE Set_Column(t)
    <3>1. PICK value \in Column(Len(writer[t].cells) + 1, writer[t].op) :
             Format(t, SetColumn(writer[t], value))
          BY <2>4 DEF Set_Column
    <3>2. PICK w \in Writers(t) : w = SetColumn(writer[t], value) BY <1>1, SetColumnType
    <3>3. w.units = writer[t].units /\ w.rows = writer[t].rows /\ w.block = writer[t].block
          BY <1>1, <3>2 DEF SetColumn, Writers
    <3>4. Call(t) /\ Format(t, w) /\ UNCHANGED blocks
          BY <2>4, <3>1, <3>2 DEF Set_Column
    <3>. QED BY <2>0, <2>1, <3>3, <3>4
  <2>5. CASE \E kind \in {"transaction", "envelope"} : Start_Block(t, kind)
    <3>1. PICK kind \in {"transaction", "envelope"} : Start_Block(t, kind) BY <2>5
    <3>2. PICK w \in Writers(t) : w = StartBlock(writer[t], kind) BY <1>1, StartBlockType
    <3>3. w.units = writer[t].units /\ w.rows = writer[t].rows /\ w.block = kind
          BY <1>1, <3>2 DEF StartBlock, Writers
    <3>4. writer[t].block = "none" /\ writer[t].rows = <<>>
          BY <3>1 DEF Start_Block, CanStartBlock, WriterInv
    <3>5. PICK n \in Nat : n = blocks[t] + 1 BY <2>0
    <3>6. /\ Call(t) /\ Format(t, w)
          /\ blocks' = [blocks EXCEPT ![t] = n]
          BY <3>1, <3>2, <3>5 DEF Start_Block
    <3>7. Newest(writer[t], blocks[t]) <= Newest(w, n)
      <4>1. Newest(writer[t], blocks[t]) = blocks[t] BY <3>4 DEF Newest
      <4>2. Newest(w, n) \in {n, n - 1} BY DEF Newest
      <4>. QED BY <2>0, <3>5, <4>1, <4>2
    <3>8. Draft(w, n)
      <4>1. w.units \in Seq(ShapedUnits) BY <2>0, <3>3 DEF Draft
      <4>2. n > 0 BY <2>0, <3>5
      <4>3. DOMAIN w.rows = {}
        <5>1. DOMAIN <<>> = {} OBVIOUS
        <5>. QED BY <3>3, <3>4, <5>1
      <4>. QED BY <4>1, <4>2, <4>3 DEF Draft
    <3>. QED BY <3>3, <3>6, <3>7, <3>8
  <2>. QED BY <2>2, <2>3, <2>4, <2>5
<1>3. UNCHANGED <<opt, log, wire, queue, link>> BY <1>2 DEF Format, sdk
<1>4. ASSUME NEW s \in Threads
      PROVE  /\ writer'[s].units = writer[s].units
             /\ Newest(writer[s], blocks[s]) <= Newest(writer'[s], blocks'[s])
             /\ Draft(writer'[s], blocks'[s])
  <2>1. CASE s = t
    <3>1. writer'[t] = w /\ blocks'[t] = n BY <1>1, <1>2 DEF Format
    <3>. QED BY <1>2, <2>1, <3>1
  <2>2. CASE s # t
    <3>1. writer'[s] = writer[s] /\ blocks'[s] = blocks[s] BY <1>1, <1>2, <2>2 DEF Format
    <3>2. Newest(writer[s], blocks[s]) \in Int BY FitsNow DEF Fits
    <3>. QED BY <3>1, <3>2 DEF BlockInv
  <2>. QED BY <2>1, <2>2
<1>. QED BY <1>3, <1>4, BlocksSame

-----------------------------------------------------------------------------
(* Completed rows and blocks. *)
LEMMA EndRowBlocks ==
    ASSUME TypeOK, TypeOK', WriterInv, BlockInv, Blocking, NEW t \in Threads,
           link = "connected", UNCHANGED blocks, NEW row \in OwnRows(t),
           row.block = IF writer[t].block = "transaction" THEN blocks[t] ELSE 0,
           Complete(t, EndRow(writer[t], row))
    PROVE  BlockInv'
<1>1. /\ writer[t] \in Writers(t) /\ blocks[t] \in Nat /\ blocks \in [Threads -> Nat]
      /\ Draft(writer[t], blocks[t])
      BY DEF TypeOK, BlockInv
<1>2. PICK w \in Writers(t) : w = EndRow(writer[t], row) /\ Complete(t, w)
      BY <1>1, EndRowType
<1>3. PICK n \in Nat : n = blocks[t] /\ blocks' = [blocks EXCEPT ![t] = n] BY <1>1
<1>4. w.block = writer[t].block BY <1>1, <1>2 DEF EndRow, Writers
<1>5. Newest(writer[t], blocks[t]) <= Newest(w, n)
  <2>1. Newest(w, n) = Newest(writer[t], blocks[t]) BY <1>3, <1>4 DEF Newest
  <2>. QED BY <2>1, FitsNow DEF Fits
<1>6. CASE writer[t].block = "none"
  <2>1. <<row>> \in Seq(OwnRows(t)) /\ Len(<<row>>) = 1 /\ <<row>>[1] = row OBVIOUS
  <2>2. PICK r \in Seq(OwnRows(t)) : r = <<row>> BY <2>1
  <2>3. PICK u \in Units(OwnRows(t)) : u = Unit("row", r) BY UnitType DEF Kinds
  <2>4. u.kind = "row" /\ u.rows = r BY <2>3 DEF Unit
  <2>5. u \in Units(RowType) BY EmptySeq, UnitsOfThread
  <2>6. /\ w.units = Append(writer[t].units, u) /\ w.rows = writer[t].rows
        BY <1>1, <1>2, <1>6, <2>2, <2>3 DEF EndRow, Writers
  <2>7. MarkOf(t)[u] = <<>> BY <2>4, <2>5 DEF MarkOf
  <2>8. u \in ShapedUnits
    <3>1. \A i \in DOMAIN r : r[i].block = 0
      <4>1. \A i \in DOMAIN r : r[i] = row BY <2>1, <2>2, LenProperties
      <4>. QED BY <1>6, <4>1
    <3>. QED BY <2>4, <2>5, <3>1 DEF ShapedUnits, Shaped
  <2>9. Draft(w, n)
    <3>1. Append(writer[t].units, u) \in Seq(ShapedUnits)
          BY <1>1, <2>8, AppendProperties DEF Draft
    <3>. QED BY <1>1, <1>3, <1>4, <2>6, <3>1 DEF Draft
  <2>. QED BY <1>2, <1>3, <1>5, <2>5, <2>6, <2>7, <2>9, BlocksUnit
<1>7. CASE writer[t].block # "none"
  <2>1. w.units = writer[t].units /\ w.rows = Append(writer[t].rows, row)
        BY <1>1, <1>2, <1>7 DEF EndRow, Writers
  <2>2. Draft(w, n)
    <3>1. PICK rows \in Seq(OwnRows(t)) : rows = writer[t].rows BY <1>1 DEF Writers
    <3>2. /\ DOMAIN Append(rows, row) = 1 .. Len(rows) + 1 /\ DOMAIN rows = 1 .. Len(rows)
          /\ \A i \in 1 .. Len(rows) : Append(rows, row)[i] = rows[i]
          /\ Append(rows, row)[Len(rows) + 1] = row /\ Len(rows) \in Nat
          BY AppendProperties, LenProperties
    <3>3. \A i \in DOMAIN Append(rows, row) : i \in DOMAIN rows \/ i = Len(rows) + 1 BY <3>2
    <3>4. \A i \in DOMAIN rows :
             rows[i].block = IF w.block = "transaction" THEN n ELSE 0
          BY <1>1, <1>3, <1>4, <3>1 DEF Draft
    <3>5. \A i \in DOMAIN w.rows :
             w.rows[i].block = IF w.block = "transaction" THEN n ELSE 0
          BY <1>3, <1>4, <2>1, <3>1, <3>2, <3>3, <3>4
    <3>. QED BY <1>1, <1>3, <1>4, <2>1, <3>5 DEF Draft
  <2>. QED BY <1>2, <1>3, <1>5, <2>1, <2>2, BlocksNoUnit
<1>. QED BY <1>6, <1>7

LEMMA EndBlockBlocks ==
    ASSUME TypeOK, TypeOK', WriterInv, BlockInv, Blocking, NEW t \in Threads,
           link = "connected", End_Block(t)
    PROVE  BlockInv'
<1>1. /\ writer[t] \in Writers(t) /\ blocks[t] \in Nat /\ blocks \in [Threads -> Nat]
      /\ Draft(writer[t], blocks[t]) /\ CanEndBlock(writer[t])
      BY DEF TypeOK, BlockInv, End_Block
<1>2. PICK w \in Writers(t) : w = EndBlock(writer[t]) /\ Complete(t, w)
      BY <1>1, EndBlockType DEF End_Block
<1>3. PICK n \in Nat : n = blocks[t] /\ blocks' = [blocks EXCEPT ![t] = n]
      BY <1>1 DEF End_Block
<1>4. w.block = "none" /\ w.rows = <<>> BY <1>1, <1>2 DEF EndBlock, Writers
<1>5. Newest(w, n) = n /\ Newest(writer[t], blocks[t]) <= n
      /\ (writer[t].block = "transaction" => n > 0 /\ Newest(writer[t], blocks[t]) < n)
      BY <1>1, <1>3, <1>4 DEF Newest, Draft
<1>6. \A i \in DOMAIN w.rows : w.rows[i].block = 0
  <2>1. DOMAIN <<>> = {} OBVIOUS
  <2>. QED BY <1>4, <2>1
<1>7. CASE writer[t].rows = <<>>
  <2>1. w.units = writer[t].units BY <1>1, <1>2, <1>7 DEF EndBlock, Writers
  <2>2. Draft(w, n) BY <1>1, <1>4, <1>6, <2>1 DEF Draft
  <2>. QED BY <1>2, <1>3, <1>5, <2>1, <2>2, BlocksNoUnit
<1>8. CASE writer[t].rows # <<>>
  <2>1. PICK rows \in Seq(OwnRows(t)) : rows = writer[t].rows BY <1>1 DEF Writers
  <2>2. writer[t].block \in Kinds BY <1>1 DEF Writers, Kinds, CanEndBlock
  <2>3. PICK u \in Units(OwnRows(t)) : u = Unit(writer[t].block, rows) BY <2>2, UnitType
  <2>4. u.kind = writer[t].block /\ u.rows = rows /\ rows # <<>>
        BY <1>8, <2>1, <2>3 DEF Unit
  <2>5. u \in Units(RowType) BY EmptySeq, UnitsOfThread
  <2>6. w.units = Append(writer[t].units, u)
        BY <1>1, <1>2, <1>8, <2>1, <2>3 DEF EndBlock, Writers
  <2>7. /\ \A i \in DOMAIN rows : rows[i].by = t
        /\ \A i \in DOMAIN rows :
              rows[i].block = IF u.kind = "transaction" THEN n ELSE 0
        /\ 1 \in DOMAIN rows
    <3>1. \A i \in DOMAIN rows : rows[i] \in OwnRows(t) BY LenProperties, ElementOfSeq
    <3>2. \A i \in DOMAIN rows : rows[i].by = t BY <3>1 DEF OwnRows
    <3>3. 1 \in DOMAIN rows
      <4>1. Len(rows) \in Nat /\ Len(rows) # 0 /\ DOMAIN rows = 1 .. Len(rows)
            BY <2>4, EmptySeq, LenProperties
      <4>. QED BY <4>1
    <3>. QED BY <1>1, <1>3, <2>1, <2>4, <3>2, <3>3 DEF Draft
  <2>8. u \in ShapedUnits
    <3>1. u.kind = "transaction" => n # 0 BY <1>5, <2>4
    <3>2. \A i \in DOMAIN u.rows :
             IF u.kind = "transaction"
               THEN /\ u.rows[i].by = u.rows[1].by
                    /\ u.rows[i].block = u.rows[1].block /\ u.rows[i].block # 0
               ELSE u.rows[i].block = 0
          BY <2>4, <2>7, <3>1
    <3>. QED BY <2>5, <3>2 DEF ShapedUnits, Shaped
  <2>9. Draft(w, n)
    <3>1. Append(writer[t].units, u) \in Seq(ShapedUnits)
          BY <1>1, <2>8, AppendProperties DEF Draft
    <3>. QED BY <1>4, <1>6, <2>6, <3>1 DEF Draft
  <2>10. CASE writer[t].block = "transaction"
    <3>1. MarkOf(t)[u] = <<n>> BY <2>4, <2>5, <2>7, <2>10 DEF MarkOf
    <3>2. Newest(writer[t], blocks[t]) < n /\ n <= Newest(w, n) BY <1>5, <2>10
    <3>3. Newest(writer[t], blocks[t]) <= Newest(w, n) BY <1>5
    <3>. QED BY <1>2, <1>3, <2>5, <2>6, <2>9, <3>1, <3>2, <3>3, BlocksUnit
  <2>11. CASE writer[t].block # "transaction"
    <3>1. MarkOf(t)[u] = <<>> BY <2>4, <2>5, <2>11 DEF MarkOf
    <3>2. Newest(writer[t], blocks[t]) <= Newest(w, n) BY <1>5
    <3>. QED BY <1>2, <1>3, <2>5, <2>6, <2>9, <3>1, <3>2, BlocksUnit
  <2>. QED BY <2>10, <2>11
<1>. QED BY <1>7, <1>8

LEMMA BufferBlocks ==
    ASSUME TypeOK, TypeOK', WriterInv, BlockInv, Blocking, NEW t \in Threads,
           link = "connected", NEW b \in Buffers, BlockBuffer(t, b)
    PROVE  BlockInv'
<1>1. /\ writer[t] \in Writers(t) /\ blocks[t] \in Nat /\ blocks \in [Threads -> Nat]
      /\ Draft(writer[t], blocks[t]) /\ writer[t].block = "none" /\ writer[t].rows = <<>>
      BY DEF TypeOK, BlockInv, WriterInv, BlockBuffer
<1>2. PICK u \in Units(OwnRows(t)) : u = BufferUnit(t, b) BY BufferType
<1>3. PICK w \in Writers(t) : w = WithUnit(writer[t], u) /\ Complete(t, w)
      BY <1>1, <1>2, WithUnitType DEF BlockBuffer
<1>4. PICK k \in Nat : k = blocks[t] + 1 BY <1>1
<1>a. PICK n \in Nat : /\ blocks' = [blocks EXCEPT ![t] = n]
                       /\ n = k \/ (n = blocks[t] /\ b.rows = <<>>)
  <2>1. CASE Uncounted(b)
    <3>1. blocks' = [blocks EXCEPT ![t] = blocks[t]] BY <2>1 DEF BlockBuffer
    <3>. QED BY <1>1, <2>1, <3>1 DEF Uncounted
  <2>2. CASE ~Uncounted(b)
    <3>1. blocks' = [blocks EXCEPT ![t] = k] BY <1>4, <2>2 DEF BlockBuffer
    <3>. QED BY <3>1
  <2>. QED BY <2>1, <2>2
<1>5. w.block = "none" /\ w.rows = <<>> /\ w.units = Append(writer[t].units, u)
      BY <1>1, <1>3 DEF WithUnit, Writers
<1>6. Newest(w, n) = n /\ Newest(writer[t], blocks[t]) < k
      /\ Newest(writer[t], blocks[t]) <= Newest(w, n) /\ k # 0
      BY <1>1, <1>4, <1>a, <1>5 DEF Newest
<1>7. u \in Units(RowType) BY EmptySeq, UnitsOfThread
<1>8. u.kind = b.kind /\ u.rows = BufferRows(t, b) BY <1>2 DEF BufferUnit, Unit
<1>9. /\ \A i \in DOMAIN u.rows : u.rows[i].by = t
      /\ \A i \in DOMAIN u.rows :
            u.rows[i].block = IF u.kind = "transaction" THEN k ELSE 0
      /\ u.rows # <<>> => 1 \in DOMAIN u.rows /\ n = k
  <2>1. PICK rows \in Seq(OwnRows(t)) : rows = u.rows /\ Len(rows) = Len(b.rows)
        BY <1>8, BufferType
  <2>2. DOMAIN rows = 1 .. Len(rows) /\ Len(rows) \in Nat
        /\ \A i \in DOMAIN rows : rows[i] \in OwnRows(t)
        BY LenProperties, ElementOfSeq
  <2>3. \A i \in DOMAIN rows : rows[i].by = t BY <2>2 DEF OwnRows
  <2>4. \A i \in DOMAIN rows : rows[i].block = IF u.kind = "transaction" THEN k ELSE 0
        BY <1>4, <1>8, <2>1, <2>2, BufferType
  <2>5. rows # <<>> => 1 \in DOMAIN rows /\ n = k
    <3>1. rows # <<>> => Len(rows) # 0 BY EmptySeq
    <3>2. b.rows = <<>> => Len(rows) = 0 BY <2>1, EmptySeq
    <3>. QED BY <1>a, <2>2, <3>1, <3>2
  <2>. QED BY <2>1, <2>3, <2>4, <2>5
<1>10. u \in ShapedUnits
  <2>1. \A i \in DOMAIN u.rows :
           IF u.kind = "transaction"
             THEN /\ u.rows[i].by = u.rows[1].by
                  /\ u.rows[i].block = u.rows[1].block /\ u.rows[i].block # 0
             ELSE u.rows[i].block = 0
    <3>1. ASSUME NEW i \in DOMAIN u.rows PROVE 1 \in DOMAIN u.rows
      <4>1. DOMAIN <<>> = {} OBVIOUS
      <4>. QED BY <1>9, <3>1, <4>1
    <3>. QED BY <1>6, <1>9, <3>1
  <2>. QED BY <1>7, <2>1 DEF ShapedUnits, Shaped
<1>11. Draft(w, n)
  <2>1. Append(writer[t].units, u) \in Seq(ShapedUnits)
        BY <1>1, <1>10, AppendProperties DEF Draft
  <2>2. DOMAIN <<>> = {} OBVIOUS
  <2>. QED BY <1>5, <2>1, <2>2 DEF Draft
<1>12. MarkOf(t)[u] = <<>> \/ (MarkOf(t)[u] = <<k>> /\ n = k) BY <1>7, <1>9 DEF MarkOf
<1>13. \/ MarkOf(t)[u] = <<>>
       \/ \E m \in Nat : /\ MarkOf(t)[u] = <<m>>
                         /\ Newest(writer[t], blocks[t]) < m /\ m <= Newest(w, n)
       BY <1>6, <1>12
<1>14. Newest(writer[t], blocks[t]) <= Newest(w, n) BY <1>6
<1>. QED BY <1>3, <1>a, <1>5, <1>7, <1>11, <1>13, <1>14, BlocksUnit

LEMMA CompleteStepBlocks ==
    ASSUME TypeOK, TypeOK', WriterInv, BlockInv, Blocking, NEW t \in Threads,
           End_Row(t) \/ Add_Buffer(t) \/ End_Block(t)
    PROVE  BlockInv'
<1>1. link = "connected" BY DEF End_Row, Add_Buffer, End_Block, Call
<1>2. CASE End_Row(t)
  <2>1. CanEndRow(writer[t]) /\ UNCHANGED blocks BY <1>2 DEF End_Row
  <2>2. PICK row \in OwnRows(t) :
           /\ row = Stamped(t, Row(writer[t]), 1, writer[t].block, blocks[t])
           /\ row.block = IF writer[t].block = "transaction" THEN blocks[t] ELSE 0
        BY <2>1, EndedRow
  <2>3. Complete(t, EndRow(writer[t], row)) BY <1>2, <2>2 DEF End_Row
  <2>. QED BY <1>1, <2>1, <2>2, <2>3, EndRowBlocks
<1>3. CASE Add_Buffer(t)
  <2>1. PICK b \in Buffers : RowBuffer(t, b) \/ BlockBuffer(t, b) BY <1>3, AddBuffer
  <2>2. CASE RowBuffer(t, b)
    <3>1. PICK row \in OwnRows(t) :
             /\ row = Stamped(t, b.rows[1], 1, writer[t].block, blocks[t])
             /\ row.block = IF writer[t].block = "transaction" THEN blocks[t] ELSE 0
          BY <2>2, AddedRow DEF RowBuffer
    <3>2. Complete(t, EndRow(writer[t], row)) /\ UNCHANGED blocks
          BY <2>2, <3>1 DEF RowBuffer
    <3>. QED BY <1>1, <3>1, <3>2, EndRowBlocks
  <2>. QED BY <1>1, <2>1, <2>2, BufferBlocks
<1>. QED BY <1>1, <1>2, <1>3, EndBlockBlocks

-----------------------------------------------------------------------------
(* Steps that leave the writers' rows and blocks. *)
LEMMA DraftsSame ==
    ASSUME TypeOK, BlockInv, Blocking, UNCHANGED <<writer, blocks>>, NEW s \in Threads
    PROVE  /\ Newest(writer[s], blocks[s]) <= Newest(writer'[s], blocks'[s])
           /\ Draft(writer'[s], blocks'[s])
<1>1. Newest(writer[s], blocks[s]) \in Int BY FitsNow DEF Fits
<1>. QED BY <1>1 DEF BlockInv

LEMMA StillBlocks ==
    ASSUME TypeOK, TypeOK', BlockInv, Blocking,
           UNCHANGED <<opt, log, wire, queue, writer, blocks>>, link' = "lost" <=> link = "lost"
    PROVE  BlockInv'
BY DraftsSame, BlocksSame

(* Units that go from one place to the next. *)
LEMMA EnqueueBlocks ==
    ASSUME TypeOK, TypeOK', BlockInv, Blocking, NEW t \in Threads, Enqueue(t)
    PROVE  BlockInv'
<1>1. /\ UNCHANGED <<opt, link, blocks, log, wire>> /\ link # "lost" /\ DOMAIN writer = Threads
      /\ writer' = [writer EXCEPT ![t] = Sent(writer[t])] /\ writer[t] \in Writers(t)
      BY DEF Enqueue, Return, Open, TypeOK
<1>2. PICK q \in Seq(Units(RowType)), us \in Seq(Units(OwnRows(t))) :
         q = queue /\ us = writer[t].units /\ queue' = q \o us
      BY DEF Enqueue, TypeOK, Writers
<1>3. us \in Seq(Units(RowType)) BY UnitsOfThread
<1>4. /\ writer'[t].units = <<>> /\ writer'[t].rows = writer[t].rows
      /\ writer'[t].block = writer[t].block
      /\ \A s \in Threads \ {t} : writer'[s] = writer[s]
      BY <1>1 DEF Sent, Writers
<1>5. ASSUME NEW s \in Threads PROVE Rest(s)' = Rest(s)
  <2>1. PICK a \in Seq(Nat), b \in Seq(Nat), c \in Seq(Nat) :
           a = Marks(s, wire) /\ b = Marks(s, q) /\ c = Marks(s, us)
        BY <1>3, BeforeType, MarksType
  <2>2. Marks(s, queue)' = b \o c
    <3>1. Marks(s, q \o us) = Marks(s, q) \o Marks(s, us) BY <1>3, MarksConcat
    <3>. QED BY <1>2, <2>1, <3>1
  <2>3. (a \o b) \o c = a \o (b \o c) BY NumbersAssociate
  <2>4. Before(s) = a \o b /\ Before(s)' = (a \o b) \o c
        BY <1>1, <1>2, <2>1, <2>2, <2>3 DEF Before
  <2>5. CASE s = t
    <3>1. PICK d \in Seq(Nat) : d = (a \o b) \o c BY ConcatProperties
    <3>2. d \o <<>> = d BY ConcatEmptySeq
    <3>3. Marks(s, writer[s].units)' = <<>> BY <1>4, <2>5, MarksEmpty
    <3>4. Marks(s, writer[s].units) = c BY <1>2, <2>1, <2>5
    <3>. QED BY <1>1, <2>4, <3>1, <3>2, <3>3, <3>4 DEF Rest
  <2>6. CASE s # t
    <3>1. c = <<>> BY <2>1, <2>6, MarksOther
    <3>2. PICK d \in Seq(Nat) : d = a \o b BY ConcatProperties
    <3>3. d \o <<>> = d BY ConcatEmptySeq
    <3>4. Before(s)' = Before(s) BY <2>4, <3>1, <3>2, <3>3
    <3>. QED BY <1>1, <1>4, <2>6, <3>4 DEF Rest
  <2>. QED BY <2>5, <2>6
<1>6. ASSUME NEW s \in Threads PROVE \E x \in Seq(Nat) : Rest(s) = Rest(s)' \o x
  <2>1. Rest(s) = Rest(s) \o <<>> /\ <<>> \in Seq(Nat)
        BY FitsNow, ConcatEmptySeq, EmptySeq DEF Fits
  <2>. QED BY <1>5, <2>1
<1>7. /\ wire \in Seq(ShapedUnits) /\ queue \in Seq(ShapedUnits)
      /\ \A s \in Threads : Draft(writer[s], blocks[s])
      BY DEF BlockInv
<1>8. wire' \in Seq(ShapedUnits) /\ queue' \in Seq(ShapedUnits)
  <2>1. us \in Seq(ShapedUnits) BY <1>2, <1>7 DEF Draft
  <2>2. q \o us \in Seq(ShapedUnits) BY <1>2, <1>7, <2>1, ConcatProperties
  <2>. QED BY <1>1, <1>2, <1>7, <2>2
<1>9. ASSUME NEW s \in Threads
      PROVE  /\ Newest(writer[s], blocks[s]) <= Newest(writer'[s], blocks'[s])
             /\ Draft(writer'[s], blocks'[s])
  <2>1. writer'[s].rows = writer[s].rows /\ writer'[s].block = writer[s].block
        /\ writer'[s].units \in {<<>>, writer[s].units}
        BY <1>4
  <2>2. Newest(writer[s], blocks[s]) \in Int BY FitsNow DEF Fits
  <2>3. Newest(writer'[s], blocks'[s]) = Newest(writer[s], blocks[s])
        BY <1>1, <2>1 DEF Newest
  <2>4. Draft(writer'[s], blocks'[s]) BY <1>1, <1>7, <2>1, EmptySeq DEF Draft
  <2>. QED BY <2>2, <2>3, <2>4
<1>. QED BY <1>1, <1>6, <1>8, <1>9, BlocksStay

LEMMA SendBlocks ==
    ASSUME TypeOK, TypeOK', WriterInv, BlockInv, Blocking, Send
    PROVE  BlockInv'
<1>1. /\ queue # <<>> /\ link # "lost" /\ UNCHANGED <<opt, link, writer, blocks, log>>
      /\ wire' = Append(wire, Head(queue)) /\ queue' = Tail(queue)
  <2>1. opt.mode # "auto" BY DEF Blocking, WriterInv, Send
  <2>. QED BY <2>1 DEF Send, Open
<1>2. PICK v \in Seq(Units(RowType)), q \in Seq(Units(RowType)) : v = wire /\ q = queue
      BY DEF TypeOK
<1>3. PICK u, r : u \in Units(RowType) /\ r \in Seq(Units(RowType)) /\ u = Head(q) /\ r = Tail(q)
      BY <1>1, <1>2, HeadAndTail
<1>4. ASSUME NEW s \in Threads PROVE \E x \in Seq(Nat) : Rest(s) = Rest(s)' \o x
  <2>1. PICK a \in Seq(Nat), m \in Seq(Nat), b \in Seq(Nat) :
           a = Marks(s, v) /\ m = MarkOf(s)[u] /\ b = Marks(s, r)
        BY <1>3, MarksType, MarksAppend
  <2>2. Marks(s, wire)' = a \o m
    <3>1. Marks(s, Append(v, u)) = Marks(s, v) \o MarkOf(s)[u] BY <1>3, MarksAppend
    <3>. QED BY <1>1, <1>2, <1>3, <2>1, <3>1
  <2>3. Marks(s, queue)' = b BY <1>1, <1>2, <1>3, <2>1
  <2>4. Marks(s, queue) = m \o b
    <3>1. Marks(s, q) = MarkOf(s)[Head(q)] \o Marks(s, Tail(q)) BY <1>1, <1>2, MarksHead
    <3>. QED BY <1>2, <1>3, <2>1, <3>1
  <2>5. (a \o m) \o b = a \o (m \o b) BY NumbersAssociate
  <2>6. Before(s)' = Before(s) BY <1>2, <2>1, <2>2, <2>3, <2>4, <2>5 DEF Before
  <2>7. Rest(s)' = Rest(s) BY <1>1, <2>6 DEF Rest
  <2>8. Rest(s) = Rest(s) \o <<>> /\ <<>> \in Seq(Nat)
        BY FitsNow, ConcatEmptySeq, EmptySeq DEF Fits
  <2>. QED BY <2>7, <2>8
<1>5. wire' \in Seq(ShapedUnits) /\ queue' \in Seq(ShapedUnits)
  <2>1. wire \in Seq(ShapedUnits) /\ queue \in Seq(ShapedUnits) BY DEF BlockInv
  <2>2. Head(queue) \in ShapedUnits /\ Tail(queue) \in Seq(ShapedUnits)
        BY <1>1, <2>1, HeadAndTail
  <2>. QED BY <1>1, <2>1, <2>2, AppendProperties
<1>. QED BY <1>1, <1>4, <1>5, DraftsSame, BlocksStay

LEMMA WriteBlocks ==
    ASSUME TypeOK, TypeOK', WriterInv, BlockInv, Blocking, NEW t \in Threads, WriteUnit(t)
    PROVE  BlockInv'
<1>1. /\ UNCHANGED <<opt, link, blocks, log, queue>> /\ link # "lost" /\ queue = <<>>
      /\ writer[t].units # <<>> /\ wire' = Append(wire, Head(writer[t].units))
      /\ writer' = [writer EXCEPT ![t].units = Tail(@)]
      /\ writer[t] \in Writers(t) /\ DOMAIN writer = Threads
      BY DEF WriteUnit, Open, WriterInv, TypeOK
<1>2. PICK v \in Seq(Units(RowType)), q \in Seq(Units(OwnRows(t))) :
         v = wire /\ q = writer[t].units
      BY <1>1 DEF TypeOK, Writers
<1>3. PICK u, r : /\ u \in Units(OwnRows(t)) /\ r \in Seq(Units(OwnRows(t)))
                  /\ u = Head(q) /\ r = Tail(q)
      BY <1>1, <1>2, UnitsOfThread
<1>4. u \in Units(RowType) /\ r \in Seq(Units(RowType)) /\ q \in Seq(Units(RowType))
      BY <1>3, UnitsOfThread
<1>5. /\ writer'[t].units = r /\ writer'[t].rows = writer[t].rows
      /\ writer'[t].block = writer[t].block
      /\ \A s \in Threads \ {t} : writer'[s] = writer[s]
      BY <1>1, <1>2, <1>3 DEF Writers
<1>6. ASSUME NEW s \in Threads
      PROVE  Marks(s, wire)' = Marks(s, wire) \o MarkOf(s)[u]
  <2>1. Marks(s, Append(v, u)) = Marks(s, v) \o MarkOf(s)[u] BY <1>4, MarksAppend
  <2>. QED BY <1>1, <1>2, <1>3, <2>1
<1>7. ASSUME NEW s \in Threads PROVE Rest(s)' = Rest(s)
  <2>0. Marks(s, queue) = <<>> /\ Marks(s, queue)' = <<>> BY <1>1, MarksEmpty
  <2>1. PICK a \in Seq(Nat), m \in Seq(Nat), b \in Seq(Nat) :
           a = Marks(s, wire) /\ m = MarkOf(s)[u] /\ b = Marks(s, r)
        BY <1>4, BeforeType, MarksType, MarksAppend
  <2>2. PICK c \in Seq(Nat) : c = a \o m BY ConcatProperties
  <2>3. a \o <<>> = a /\ c \o <<>> = c BY ConcatEmptySeq
  <2>4. Before(s) = a /\ Before(s)' = a \o m
        BY <1>6, <2>0, <2>1, <2>2, <2>3 DEF Before
  <2>5. CASE s = t
    <3>1. Marks(t, q) = MarkOf(t)[Head(q)] \o Marks(t, Tail(q))
          BY <1>1, <1>2, <1>4, MarksHead
    <3>2. Marks(s, writer[s].units) = m \o b BY <1>2, <1>3, <2>1, <2>5, <3>1
    <3>3. Marks(s, writer[s].units)' = b BY <1>5, <2>1, <2>5
    <3>4. (a \o m) \o b = a \o (m \o b) BY NumbersAssociate
    <3>. QED BY <1>1, <2>4, <3>2, <3>3, <3>4 DEF Rest
  <2>6. CASE s # t
    <3>1. m = <<>> BY <1>3, <2>1, <2>6, MarkOfOther
    <3>2. Before(s)' = Before(s) BY <2>3, <2>4, <3>1
    <3>. QED BY <1>1, <1>5, <2>6, <3>2 DEF Rest
  <2>. QED BY <2>5, <2>6
<1>8. ASSUME NEW s \in Threads PROVE \E x \in Seq(Nat) : Rest(s) = Rest(s)' \o x
  <2>1. Rest(s) = Rest(s) \o <<>> /\ <<>> \in Seq(Nat)
        BY FitsNow, ConcatEmptySeq, EmptySeq DEF Fits
  <2>. QED BY <1>7, <2>1
<1>9. /\ wire \in Seq(ShapedUnits) /\ Draft(writer[t], blocks[t])
      /\ writer[t].units \in Seq(ShapedUnits)
      BY DEF BlockInv, Draft
<1>10. Head(writer[t].units) \in ShapedUnits /\ r \in Seq(ShapedUnits)
      BY <1>1, <1>2, <1>3, <1>9, HeadAndTail
<1>11. wire' \in Seq(ShapedUnits) /\ queue' \in Seq(ShapedUnits)
      BY <1>1, <1>9, <1>10, AppendProperties, EmptySeq
<1>12. ASSUME NEW s \in Threads
       PROVE  /\ Newest(writer[s], blocks[s]) <= Newest(writer'[s], blocks'[s])
              /\ Draft(writer'[s], blocks'[s])
  <2>1. Newest(writer[s], blocks[s]) \in Int BY FitsNow DEF Fits
  <2>2. CASE s = t BY <1>1, <1>5, <1>9, <1>10, <2>1, <2>2 DEF Draft, Newest
  <2>3. CASE s # t BY <1>1, <1>5, <2>1, <2>3 DEF BlockInv
  <2>. QED BY <2>2, <2>3
<1>. QED BY <1>1, <1>8, <1>11, <1>12, BlocksStay

Chained(a, b, c, d) == ((a \o b) \o c) \o d = a \o (b \o (c \o d))

LEMMA ChainedNumbers ==
    ASSUME NEW a \in Seq(Nat), NEW b \in Seq(Nat), NEW c \in Seq(Nat), NEW d \in Seq(Nat)
    PROVE  Chained(a, b, c, d)
<1>1. ((a \o b) \o c) \o d = (a \o b) \o (c \o d)
  <2>1. PICK e \in Seq(Nat) : e = a \o b BY ConcatProperties
  <2>2. (e \o c) \o d = e \o (c \o d) BY NumbersAssociate
  <2>. QED BY <2>1, <2>2
<1>2. (a \o b) \o (c \o d) = a \o (b \o (c \o d))
  <2>1. PICK e \in Seq(Nat) : e = c \o d BY ConcatProperties
  <2>2. (a \o b) \o e = a \o (b \o e) BY NumbersAssociate
  <2>. QED BY <2>1, <2>2
<1>. QED BY <1>1, <1>2 DEF Chained

(* What is left of the socket is the first part of what was to come. *)
LEMMA RestOfPrefix ==
    ASSUME TypeOK, NEW s \in Threads, link # "lost",
           NEW x \in Seq(Units(RowType)), NEW y \in Seq(Units(RowType)), wire = x \o y
    PROVE  \E z \in Seq(Nat) : Rest(s) = Marks(s, x) \o z
<1>1. Marks(s, wire) = Marks(s, x) \o Marks(s, y) BY MarksConcat
<1>2. PICK a \in Seq(Nat), b \in Seq(Nat), c \in Seq(Nat), d \in Seq(Nat) :
         /\ a = Marks(s, x) /\ b = Marks(s, y) /\ c = Marks(s, queue)
         /\ d = Marks(s, writer[s].units)
      BY BeforeType, MarksType
<1>3. Rest(s) = ((a \o b) \o c) \o d BY <1>1, <1>2 DEF Rest, Before
<1>4. Chained(a, b, c, d) BY ChainedNumbers
<1>5. b \o (c \o d) \in Seq(Nat)
  <2>1. PICK e \in Seq(Nat) : e = c \o d BY ConcatProperties
  <2>. QED BY <2>1, ConcatProperties
<1>. QED BY <1>2, <1>3, <1>4, <1>5 DEF Chained

LEMMA LoseBlocks ==
    ASSUME TypeOK, TypeOK', BlockInv, Blocking, LoseLink
    PROVE  BlockInv'
<1>1. /\ UNCHANGED <<opt, writer, blocks, log, queue>> /\ link # "lost" /\ link' = "lost"
      /\ wire' \in Prefixes(wire)
      BY DEF LoseLink, Open
<1>2. PICK u \in Seq(ShapedUnits) : u = wire BY DEF BlockInv
<1>3. PICK v \in Prefixes(u) : v = wire' BY <1>1, <1>2
<1>4. PICK r \in Seq(ShapedUnits) : v \in Seq(ShapedUnits) /\ u = v \o r BY PrefixSplits
<1>5. PICK x \in Seq(Units(RowType)), y \in Seq(Units(RowType)) : x = v /\ y = r
      BY <1>4, ShapedAreUnits
<1>6. ASSUME NEW s \in Threads PROVE \E z \in Seq(Nat) : Rest(s) = Rest(s)' \o z
  <2>1. Rest(s)' = Marks(s, x) BY <1>1, <1>3, <1>5 DEF Rest
  <2>2. wire = x \o y BY <1>2, <1>4, <1>5
  <2>. QED BY <1>1, <2>1, <2>2, RestOfPrefix
<1>7. wire' \in Seq(ShapedUnits) /\ queue' \in Seq(ShapedUnits)
      BY <1>1, <1>3, <1>4 DEF BlockInv
<1>. QED BY <1>1, <1>6, <1>7, DraftsSame, BlocksStay

(* What the project takes from the socket is the first of what is left. *)
LEMMA RestHead ==
    ASSUME TypeOK, Process, NEW s \in Threads
    PROVE  /\ MarkOf(s)[Head(wire)] \in Seq(Nat)
           /\ Rest(s) = MarkOf(s)[Head(wire)] \o Rest(s)'
<1>1. /\ UNCHANGED <<writer, completed, queue, link>> /\ wire \in Seq(Units(RowType)) /\ wire # <<>>
      /\ wire' = Tail(wire) /\ Tail(wire) \in Seq(Units(RowType))
      BY ProcessStep, HeadAndTail DEF TypeOK
<1>2. PICK v \in Seq(Units(RowType)), r \in Seq(Units(RowType)) : v = wire /\ r = Tail(wire)
      BY <1>1
<1>3. Marks(s, v) = MarkOf(s)[Head(v)] \o Marks(s, Tail(v)) /\ MarkOf(s)[Head(v)] \in Seq(Nat)
      BY <1>1, <1>2, MarksHead
<1>4. PICK m \in Seq(Nat), a \in Seq(Nat), b \in Seq(Nat), c \in Seq(Nat) :
         /\ m = MarkOf(s)[Head(wire)] /\ a = Marks(s, Tail(wire)) /\ b = Marks(s, queue)
         /\ c = Marks(s, writer[s].units)
      BY <1>2, <1>3, BeforeType, MarksType
<1>5. Marks(s, wire) = m \o a /\ Marks(s, wire)' = a BY <1>1, <1>2, <1>3, <1>4
<1>6. CASE link = "lost" BY <1>1, <1>4, <1>5, <1>6 DEF Rest
<1>7. CASE link # "lost"
  <2>1. Rest(s) = ((m \o a) \o b) \o c BY <1>4, <1>5, <1>7 DEF Rest, Before
  <2>2. Rest(s)' = (a \o b) \o c BY <1>1, <1>4, <1>5, <1>7 DEF Rest, Before
  <2>3. Chained(m, a, b, c) BY ChainedNumbers
  <2>4. (a \o b) \o c = a \o (b \o c) BY NumbersAssociate
  <2>. QED BY <1>4, <2>1, <2>2, <2>3, <2>4 DEF Chained
<1>. QED BY <1>4, <1>6, <1>7

LEMMA QueuedFewer ==
    ASSUME NEW done, NEW fewer \in SUBSET done, NEW a, NEW last, Queued(done, a, last)
    PROVE  Queued(fewer, a, last)
BY DEF Queued

LEMMA QueuedNothing ==
    ASSUME NEW done \in SUBSET Nat, NEW a \in Seq(Nat), NEW last \in Int,
           Queued(done, <<>> \o a, last)
    PROVE  Queued(done, a, last)
<1>1. <<>> \o a = a BY ConcatEmptySeq
<1>. QED BY <1>1

LEMMA ProcessBlocks ==
    ASSUME TypeOK, TypeOK', BlockInv, Blocking, Process
    PROVE  BlockInv'
<1>1. /\ UNCHANGED <<opt, writer, queue, blocks>> /\ wire # <<>> /\ wire' = Tail(wire)
      /\ LogRows' = LogRows \o Head(wire).rows
      BY LogRowsGrow DEF Process
<1>2. /\ wire \in Seq(ShapedUnits) /\ queue \in Seq(ShapedUnits)
      /\ Head(wire) \in ShapedUnits /\ Tail(wire) \in Seq(ShapedUnits)
      BY <1>1, HeadAndTail DEF BlockInv
<1>3. PICK u \in ShapedUnits : u = Head(wire) BY <1>2
<1>4. PICK rows \in Seq(RowType) : rows = u.rows BY DEF ShapedUnits, Units
<1>5. ASSUME NEW s \in Threads
      PROVE  Queued(Blocks(s, LogRows)', Rest(s)', Newest(writer[s], blocks[s]))
  <2>1. PICK done \in SUBSET Nat, new \in SUBSET Nat, more \in SUBSET Nat :
           /\ done = Blocks(s, LogRows) /\ new = Blocks(s, u.rows)
           /\ more = Blocks(s, LogRows \o u.rows) /\ more \subseteq done \cup new
    <3>1. PICK l \in Seq(RowType) : l = LogRows BY LogRowsType
    <3>2. PICK all \in Seq(RowType) : all = l \o rows BY ConcatProperties
    <3>3. Blocks(s, l \o rows) \subseteq Blocks(s, l) \cup Blocks(s, rows) BY BlocksConcat
    <3>4. Blocks(s, l) \in SUBSET Nat /\ Blocks(s, rows) \in SUBSET Nat
          /\ Blocks(s, all) \in SUBSET Nat
          BY BlocksType
    <3>. QED BY <1>4, <3>1, <3>2, <3>3, <3>4
  <2>2. PICK last \in Int : last = Newest(writer[s], blocks[s]) BY FitsNow DEF Fits
  <2>3. PICK rest \in Seq(Nat) : rest = Rest(s)' BY FitsNext DEF Fits
  <2>4. Queued(done, MarkOf(s)[u] \o rest, last)
        BY <1>3, <2>1, <2>2, <2>3, RestHead DEF BlockInv
  <2>5. CASE MarkOf(s)[u] = <<>> /\ new = {}
    <3>1. Queued(done, rest, last) BY <2>4, <2>5, QueuedNothing
    <3>. QED BY <1>1, <1>3, <2>1, <2>2, <2>3, <2>5, <3>1, QueuedFewer
  <2>6. CASE \E m \in Nat : MarkOf(s)[u] = <<m>> /\ new \subseteq {m}
    <3>1. PICK m \in Nat : MarkOf(s)[u] = <<m>> /\ new \subseteq {m} BY <2>6
    <3>2. Queued(done \cup {m}, rest, last) BY <2>4, <3>1, QueuedHead
    <3>3. more \in SUBSET (done \cup {m}) BY <2>1, <3>1
    <3>4. Queued(more, rest, last) BY <3>2, <3>3, QueuedFewer
    <3>. QED BY <1>1, <1>3, <2>1, <2>2, <2>3, <3>4
  <2>. QED BY <2>1, <2>5, <2>6, UnitBlocks
<1>6. ASSUME NEW s \in Threads
      PROVE  /\ Queued(Blocks(s, LogRows), Rest(s), Newest(writer[s], blocks[s]))'
             /\ Draft(writer[s], blocks[s])'
  <2>1. Draft(writer'[s], blocks'[s]) BY <1>1, DraftsSame
  <2>. QED BY <1>1, <1>5, <2>1
<1>. QED BY <1>1, <1>2, <1>6 DEF BlockInv

-----------------------------------------------------------------------------
(* Rows of a transaction pass together. *)
LEMMA PassTogether ==
    ASSUME NEW u \in ShapedUnits, NEW k \in DOMAIN u.rows, NEW l \in DOMAIN u.rows,
           u.rows[k].block # 0
    PROVE  (k \in Passing(window, u)) = (l \in Passing(window, u))
<1>1. u.kind = "transaction" BY DEF ShapedUnits, Shaped
<1>2. Passing(window, u) = {} \/ Passing(window, u) = DOMAIN u.rows BY <1>1 DEF Passing
<1>. QED BY <1>2

(* They come after the transactions of which the project has rows. *)
LEMMA RowsAreNew ==
    ASSUME TypeOK, TypeOK', BlockInv, Blocking, Process, NEW s \in Threads,
           NEW u \in ShapedUnits, u = Head(wire),
           NEW k \in DOMAIN u.rows, u.rows[k].by = s, u.rows[k].block # 0
    PROVE  u.rows[k].block \notin Blocks(s, LogRows)
<1>1. PICK done \in SUBSET Nat : done = Blocks(s, LogRows)
  <2>1. PICK l \in Seq(RowType) : l = LogRows BY LogRowsType
  <2>. QED BY <2>1, BlocksType
<1>2. PICK last \in Int : last = Newest(writer[s], blocks[s]) BY FitsNow DEF Fits
<1>3. PICK rest \in Seq(Nat) : rest = Rest(s)' BY FitsNext DEF Fits
<1>4. Queued(done, MarkOf(s)[u] \o rest, last)
  <2>0. MarkOf(s)[Head(wire)] = MarkOf(s)[u] OBVIOUS
  <2>1. Rest(s) = MarkOf(s)[u] \o rest BY <1>3, <2>0, RestHead
  <2>2. Queued(done, Rest(s), last) BY <1>1, <1>2 DEF BlockInv
  <2>. QED BY <2>1, <2>2
<1>5. u.rows[k].block \in Blocks(s, u.rows) BY DEF Blocks
<1>6. PICK m \in Nat : MarkOf(s)[u] = <<m>> /\ Blocks(s, u.rows) \subseteq {m}
  <2>1. \/ MarkOf(s)[u] = <<>> /\ Blocks(s, u.rows) = {}
        \/ \E m \in Nat : MarkOf(s)[u] = <<m>> /\ Blocks(s, u.rows) \subseteq {m}
        BY ONLY u \in ShapedUnits, UnitBlocks
  <2>. QED BY <1>5, <2>1
<1>7. Queued(done, <<m>> \o rest, last) BY <1>4, <1>6
<1>8. \A d \in done : d < m BY <1>7, QueuedHead
<1>. QED BY <1>1, <1>5, <1>6, <1>8

LEMMA LogGrows ==
    ASSUME TypeOK, Process, NEW u \in Units(RowType), u = Head(wire),
           NEW i \in DOMAIN log'
    PROVE  \/ i \in DOMAIN log /\ log'[i] = log[i]
           \/ \E k \in DOMAIN u.rows : /\ log'[i].row = u.rows[k]
                                       /\ log'[i].ok = (k \in Passing(window, u))
<1>1. PICK a \in Seq(LogType), b \in Seq(LogType) : a = log /\ b = Results(u)
      BY ResultsType DEF TypeOK
<1>2. log' = a \o b BY <1>1, ProcessStep
<1>3. /\ Len(a) \in Nat /\ Len(b) \in Nat /\ DOMAIN a = 1 .. Len(a)
      /\ Len(b) = Len(u.rows) /\ DOMAIN u.rows = 1 .. Len(u.rows)
  <2>1. u.rows \in Seq(RowType) /\ Len(b) = Len(u.rows) BY <1>1, ResultsType
  <2>. QED BY <2>1, LenProperties
<1>4. /\ DOMAIN log' = 1 .. Len(a) + Len(b)
      /\ log'[i] = IF i <= Len(a) THEN a[i] ELSE b[i - Len(a)]
  <2>1. PICK c \in Seq(LogType) : c = a \o b BY ConcatProperties
  <2>2. DOMAIN c = 1 .. Len(c) /\ Len(c) = Len(a) + Len(b) BY <2>1, LenProperties, ConcatProperties
  <2>3. i \in 1 .. Len(a) + Len(b) BY <1>2, <2>1, <2>2
  <2>4. c[i] = IF i <= Len(a) THEN a[i] ELSE b[i - Len(a)] BY <2>1, <2>3, ConcatProperties
  <2>. QED BY <1>2, <2>1, <2>2, <2>4
<1>5. CASE i <= Len(a) BY <1>1, <1>3, <1>4, <1>5
<1>6. CASE ~(i <= Len(a))
  <2>1. PICK k : k = i - Len(a) /\ k \in 1 .. Len(u.rows) BY <1>3, <1>4, <1>6
  <2>2. b[k].row = u.rows[k] /\ b[k].ok = (k \in Passing(window, u)) BY <1>1, <2>1, ResultsType
  <2>. QED BY <1>3, <1>4, <1>6, <2>1, <2>2
<1>. QED BY <1>5, <1>6

LEMMA ProcessWhole ==
    ASSUME TypeOK, TypeOK', BlockInv, AllOrNothing, Blocking, Process
    PROVE  AllOrNothing'
<1>1. PICK u \in ShapedUnits : u = Head(wire)
  <2>1. wire \in Seq(ShapedUnits) /\ wire # <<>> BY ProcessStep DEF BlockInv
  <2>. QED BY <2>1, HeadAndTail
<1>2. u \in Units(RowType) BY DEF ShapedUnits
<1>3. \A i \in DOMAIN log : log[i].row.by \in Threads
  <2>1. DOMAIN log = 1 .. Len(log) /\ log \in Seq(LogType) BY LenProperties DEF TypeOK
  <2>2. \A i \in DOMAIN log : log[i] \in LogType BY <2>1, ElementOfSeq
  <2>. QED BY <2>2 DEF LogType, RowType
<1>4. \A i \in DOMAIN log : log[i].row.block # 0 =>
                              log[i].row.block \in Blocks(log[i].row.by, LogRows)
  <2>1. DOMAIN log = 1 .. Len(log) BY LenProperties DEF TypeOK
  <2>2. DOMAIN LogRows = DOMAIN log /\ \A i \in DOMAIN log : LogRows[i] = log[i].row
        BY <2>1 DEF LogRows
  <2>. QED BY <2>2 DEF Blocks
<1>5. ASSUME NEW i \in DOMAIN log, NEW k \in DOMAIN u.rows,
             log[i].row.by = u.rows[k].by, log[i].row.block = u.rows[k].block,
             log[i].row.block # 0
      PROVE  FALSE
  <2>1. u.rows[k].block \notin Blocks(u.rows[k].by, LogRows) BY <1>1, <1>3, <1>5, RowsAreNew
  <2>. QED BY <1>4, <1>5, <2>1
<1>6. ASSUME NEW i \in DOMAIN log', NEW j \in DOMAIN log',
             log'[i].row.by = log'[j].row.by, log'[i].row.block = log'[j].row.block,
             log'[i].row.block # 0
      PROVE  log'[i].ok = log'[j].ok
  <2>1. CASE i \in DOMAIN log /\ log'[i] = log[i] /\ j \in DOMAIN log /\ log'[j] = log[j]
        BY <1>6, <2>1 DEF AllOrNothing
  <2>2. ASSUME i \in DOMAIN log, log'[i] = log[i], NEW k \in DOMAIN u.rows,
               log'[j].row = u.rows[k]
        PROVE  FALSE
        BY <1>5, <1>6, <2>2
  <2>3. ASSUME j \in DOMAIN log, log'[j] = log[j], NEW k \in DOMAIN u.rows,
               log'[i].row = u.rows[k]
        PROVE  FALSE
        BY <1>5, <1>6, <2>3
  <2>4. ASSUME NEW k \in DOMAIN u.rows, NEW l \in DOMAIN u.rows,
               log'[i].row = u.rows[k], log'[i].ok = (k \in Passing(window, u)),
               log'[j].row = u.rows[l], log'[j].ok = (l \in Passing(window, u))
        PROVE  log'[i].ok = log'[j].ok
    <3>1. u.rows[k].block # 0 BY <1>6, <2>4
    <3>. QED BY <2>4, <3>1, PassTogether
  <2>. QED BY <1>1, <1>2, <2>1, <2>2, <2>3, <2>4, LogGrows
<1>. QED BY <1>6 DEF AllOrNothing, Process

-----------------------------------------------------------------------------
(* All together. *)
LEMMA BlockInit == Init => BlockInv /\ AllOrNothing
<1>. SUFFICES ASSUME Init, Blocking PROVE BlockInv /\ AllOrNothing
     BY DEF BlockInv, AllOrNothing
<1>0. TypeOK BY InitType
<1>1. wire = <<>> /\ queue = <<>> /\ log = <<>> /\ DOMAIN log = {} BY DEF Init
<1>2. ASSUME NEW t \in Threads
      PROVE  /\ Queued(Blocks(t, LogRows), Rest(t), Newest(writer[t], blocks[t]))
             /\ Draft(writer[t], blocks[t])
  <2>1. /\ writer[t].units = <<>> /\ writer[t].rows = <<>> /\ writer[t].block = "none"
        /\ blocks[t] = 0
        BY DEF Init, NewWriter
  <2>2. Rest(t) = <<>>
    <3>1. <<>> \o <<>> = <<>> BY EmptySeq, ConcatEmptySeq
    <3>. QED BY <1>1, <2>1, <3>1, MarksEmpty DEF Rest, Before
  <2>3. Blocks(t, LogRows) = {}
    <3>1. DOMAIN LogRows = {} BY <1>1 DEF LogRows
    <3>. QED BY <3>1 DEF Blocks
  <2>4. DOMAIN <<>> = {} OBVIOUS
  <2>5. Queued({}, <<>>, 0) BY <2>4 DEF Queued, Rising
  <2>6. Draft(writer[t], blocks[t]) BY <2>1, <2>4, EmptySeq DEF Draft
  <2>. QED BY <2>1, <2>2, <2>3, <2>5, <2>6 DEF Newest
<1>. QED BY <1>1, <1>2, EmptySeq DEF BlockInv, AllOrNothing

LEMMA BlockStep ==
    ASSUME TypeOK, TypeOK', WriterInv, BlockInv, Blocking, [Next]_vars
    PROVE  BlockInv'
<1>1. CASE Connect \/ UNCHANGED vars
  <2>1. /\ UNCHANGED <<opt, log, wire, queue, writer, blocks>>
        /\ (link' = "lost" <=> link = "lost")
        BY <1>1 DEF Connect, sdk, vars
  <2>. QED BY <2>1, StillBlocks
<1>2. CASE Send BY <1>2, SendBlocks
<1>3. CASE Process BY <1>3, ProcessBlocks
<1>4. CASE LoseLink BY <1>4, LoseBlocks
<1>5. ASSUME NEW t \in Threads,
             \/ Publish(t) \/ Commit(t) \/ Close(t)
             \/ PublishReturns(t) \/ CommitReturns(t) \/ CloseReturns(t) \/ CallFails(t)
      PROVE  BlockInv'
  <2>1. /\ UNCHANGED <<opt, log, wire, queue, writer, blocks>>
        /\ (link' = "lost" <=> link = "lost")
        BY <1>5, WaitMoves
           DEF Publish, Commit, Close, Enter, PublishReturns, CommitReturns, CloseReturns,
               CallFails, Return, sdk
  <2>. QED BY <2>1, StillBlocks
<1>6. ASSUME NEW t \in Threads, ThreadStep(t) PROVE BlockInv'
      BY <1>5, <1>6, RowStepBlocks, CompleteStepBlocks DEF ThreadStep
<1>7. ASSUME NEW t \in Threads, Finish(t) PROVE BlockInv'
      BY <1>5, <1>7, EnqueueBlocks, WriteBlocks DEF Finish
<1>. QED BY <1>1, <1>2, <1>3, <1>4, <1>6, <1>7 DEF Next

LEMMA WholeStep ==
    ASSUME TypeOK, TypeOK', WriterInv, BlockInv, AllOrNothing, [Next]_vars
    PROVE  BlockInv' /\ AllOrNothing'
<1>1. UNCHANGED opt /\ (UNCHANGED log \/ Process)
  <2>1. ASSUME NEW t \in Threads, ThreadStep(t) PROVE UNCHANGED <<opt, log>>
    <3>1. ASSUME NEW w, Complete(t, w) PROVE UNCHANGED <<opt, log>>
          BY <3>1 DEF Complete, Format, sdk
    <3>2. CASE Add_Buffer(t) BY <3>1, <3>2 DEF Add_Buffer
    <3>. QED BY <2>1, <3>1, <3>2
             DEF ThreadStep, Start_Row, Set_Operation, Set_Column, End_Row, Start_Block,
                 End_Block, Publish, Commit, Close, Enter, Format, sdk
  <2>2. ASSUME NEW t \in Threads, Finish(t) PROVE UNCHANGED <<opt, log>>
        BY <2>2 DEF Finish, Enqueue, WriteUnit, PublishReturns, CommitReturns, CloseReturns,
                    CallFails, Return
  <2>. QED BY <2>1, <2>2 DEF Next, Connect, Send, Process, LoseLink, sdk, vars
<1>2. Blocking' = Blocking BY <1>1 DEF Blocking, Buffered
<1>3. CASE ~Blocking
  <2>1. ~Blocking' BY <1>2, <1>3
  <2>. QED BY <2>1 DEF BlockInv, AllOrNothing
<1>4. CASE Blocking
  <2>1. CASE log' = log
    <3>1. \A i, j \in DOMAIN log :
             (/\ log[i].row.by = log[j].row.by
              /\ log[i].row.block = log[j].row.block
              /\ log[i].row.block # 0) => log[i].ok = log[j].ok
          BY <1>4 DEF AllOrNothing
    <3>2. AllOrNothing' BY <2>1, <3>1 DEF AllOrNothing
    <3>. QED BY <1>4, <3>2, BlockStep
  <2>. QED BY <1>1, <1>4, <2>1, BlockStep, ProcessWhole
<1>. QED BY <1>3, <1>4

(* The invariant. *)
IInv == /\ TypeOK /\ WriterInv /\ OrderInv /\ AheadInv /\ PromisesKept
        /\ BlockInv /\ AllOrNothing

THEOREM Invariant == Spec => []IInv
<1>1. Init => IInv BY InitType, OrderInit, AheadInit, BlockInit DEF IInv
<1>2. IInv /\ [Next]_vars => IInv' BY StepType, OrderStep, AheadStep, WholeStep DEF IInv
<1>. QED BY <1>1, <1>2, PTL DEF Spec

(* The rows of each thread get to the project once and in order, whatever   *)
(* other threads publish and wherever the connection breaks                 *)
(* (EspPublisher's queue and its publishing thread).                        *)
THEOREM RowsInOrderOnce == Spec => []InOrderOnce
<1>1. IInv => InOrderOnce BY DEF IInv, OrderInv
<1>. QED BY <1>1, Invariant, PTL

(* Once publish() or commit() has returned, the rows it stands for are out  *)
(* of the publisher, and those acknowledged are in the project.             *)
THEOREM PromisesAreKept == Spec => []PromisesKept
<1>1. IInv => PromisesKept BY DEF IInv
<1>. QED BY <1>1, Invariant, PTL

(* The rows of a transaction pass together or are discarded together,       *)
(* whatever threads start and end blocks, and in whatever mode that does    *)
(* not ignore them (start_transaction(), end_transaction()).                *)
THEOREM TransactionsWhole == Spec => []AllOrNothing
<1>1. IInv => AllOrNothing BY DEF IInv
<1>. QED BY <1>1, Invariant, PTL
=============================================================================

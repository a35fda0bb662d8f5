------------------------ MODULE EspSubscriber_proofs ------------------------
(***************************************************************************)
(* Proofs about EspSubscriber, for every schema, every set of messages and *)
(* every set of options: the window the user builds from the events of the *)
(* subscription is the project's window, and with PRESERVE_BLOCKS always   *)
(* one the project has had.                                                *)
(*                                                                         *)
(* The argument is about rows first (a copy that agrees with a window goes *)
(* on to agree when it takes what the subscription says of a row), then    *)
(* about sequences of rows and the events that carry them, and last about  *)
(* the queue, whose data may give way to a warning.                        *)
(***************************************************************************)
EXTENDS EspSubscriber, DataLemmas

(***************************************************************************)
(* Windows, and what rows make of them and of the copy of the user.        *)
(***************************************************************************)
(* Rows of the window: values and no marks. *)
Cells == [1 .. NumColumns -> Keys \cup Values \cup {Null}]

Windows == {w \in UNION {[K -> Cells] : K \in SUBSET Keys} :
               IsFiniteSet(DOMAIN w) /\ \A k \in DOMAIN w : w[k][1] = k}

Removing == {"DELETE", "SAFEDELETE"}

-----------------------------------------------------------------------------
(* Windows and what a row makes of them. *)

(* A window has finitely many keys, each with the cells of its row. *)
LEMMA WindowFacts ==
    ASSUME NEW w \in Windows
    PROVE  /\ DOMAIN w \in SUBSET Keys /\ IsFiniteSet(DOMAIN w)
           /\ w \in [DOMAIN w -> Cells]
           /\ \A k \in DOMAIN w : w[k] \in Cells /\ w[k][1] = k
<1>1. PICK K \in SUBSET Keys : w \in [K -> Cells] BY DEF Windows
<1>2. DOMAIN w = K BY <1>1
<1>3. w \in [DOMAIN w -> Cells] BY <1>1, <1>2
<1>4. IsFiniteSet(DOMAIN w) /\ \A k \in DOMAIN w : w[k][1] = k BY DEF Windows
<1>. QED BY <1>1, <1>2, <1>3, <1>4

(* How to see that something is a window. *)
LEMMA IsWindow ==
    ASSUME NEW K \in SUBSET Keys, IsFiniteSet(K), NEW w \in [K -> Cells],
           \A k \in K : w[k][1] = k
    PROVE  w \in Windows
<1>1. DOMAIN w = K OBVIOUS
<1>2. w \in UNION {[L -> Cells] : L \in SUBSET Keys} OBVIOUS
<1>. QED BY <1>1, <1>2 DEF Windows

(* The window without rows. *)
LEMMA EmptyWindow == <<>> \in Windows
<1>1. <<>> \in [{} -> Cells]
  <2>1. DOMAIN <<>> = {} OBVIOUS
  <2>. QED BY <2>1
<1>2. IsFiniteSet({}) BY FS_EmptySet
<1>3. PICK w \in [{} -> Cells] : w = <<>> BY <1>1
<1>4. {} \in SUBSET Keys /\ \A k \in {} : w[k][1] = k OBVIOUS
<1>5. w \in Windows BY <1>2, <1>4, IsWindow
<1>. QED BY <1>3, <1>5

(* The cells of a row of the window: NumColumns of them, no mark. *)
LEMMA CellFacts ==
    ASSUME NEW c \in Cells
    PROVE  /\ DOMAIN c = 1 .. NumColumns /\ c = [j \in 1 .. NumColumns |-> c[j]]
           /\ \A j \in 1 .. NumColumns : c[j] \in Keys \cup Values \cup {Null} /\ c[j] # Shine
           /\ 1 \in 1 .. NumColumns
BY SchemaAssumption DEF Cells

(* What a row to publish is. *)
LEMMA RowFacts ==
    ASSUME NEW row \in Rows
    PROVE  /\ row.op \in Ops /\ row = [op |-> row.op, cells |-> row.cells]
           /\ row.cells \in Seq(Keys \cup Values \cup {Null, Shine})
           /\ DOMAIN row.cells = 1 .. Len(row.cells) /\ Len(row.cells) \in Nat
           /\ 1 \in DOMAIN row.cells
           /\ \A j \in DOMAIN row.cells : row.cells[j] \in Keys \cup Values \cup {Null, Shine}
           /\ Key(row) \in Keys /\ Key(row) = row.cells[1] /\ row.cells[1] # Shine
           /\ row.op \notin Removing => DOMAIN row.cells = 1 .. NumColumns
<1>. DEFINE V == Keys \cup Values \cup {Null, Shine}
<1>1. row \in [op : Ops, cells : Seq(V)] /\ row.cells # <<>> /\ Key(row) \in Keys
      /\ (row.op \in Removing \/ Len(row.cells) = NumColumns)
      BY DEF Rows, Removing
<1>2. row.op \in Ops /\ row.cells \in Seq(V) /\ row = [op |-> row.op, cells |-> row.cells]
      BY <1>1
<1>3. Len(row.cells) \in Nat /\ DOMAIN row.cells = 1 .. Len(row.cells)
      /\ \A j \in 1 .. Len(row.cells) : row.cells[j] \in V
      BY <1>2, LenProperties, ElementOfSeq
<1>4. Len(row.cells) # 0 BY <1>1, <1>2, EmptySeq
<1>5. 1 \in DOMAIN row.cells BY <1>3, <1>4
<1>6. Key(row) = row.cells[1] /\ row.cells[1] # Shine BY <1>1, SchemaAssumption DEF Key
<1>. QED BY <1>1, <1>2, <1>3, <1>5, <1>6

(* How to see that something is a row. *)
LEMMA IsRow ==
    ASSUME NEW op \in Ops, NEW cells \in Seq(Keys \cup Values \cup {Null, Shine}),
           cells # <<>>, cells[1] \in Keys, op \in Removing \/ Len(cells) = NumColumns
    PROVE  [op |-> op, cells |-> cells] \in Rows
<1>. DEFINE row == [op |-> op, cells |-> cells]
<1>1. row \in [op : Ops, cells : Seq(Keys \cup Values \cup {Null, Shine})] OBVIOUS
<1>2. row.op = op /\ row.cells = cells OBVIOUS
<1>. HIDE DEF row
<1>. QED BY <1>1, <1>2 DEF Rows, Key, Removing, row

(* The cells of a row are a sequence. *)
LEMMA CellsAreSeq ==
    ASSUME NEW c \in [1 .. NumColumns -> Keys \cup Values \cup {Null, Shine}]
    PROVE  /\ c \in Seq(Keys \cup Values \cup {Null, Shine})
           /\ Len(c) = NumColumns /\ c # <<>>
<1>1. NumColumns \in Nat /\ NumColumns # 0 BY SchemaAssumption
<1>2. c \in Seq(Keys \cup Values \cup {Null, Shine}) BY <1>1, SeqDef
<1>3. DOMAIN c = 1 .. NumColumns OBVIOUS
<1>4. Len(c) = NumColumns BY <1>1, <1>2, <1>3, LenProperties
<1>. QED BY <1>1, <1>2, <1>4, EmptySeq

(* Merged leaves no mark: a cell is new, the window's or null. *)
LEMMA MergedFacts ==
    ASSUME NEW w \in Windows, NEW row \in Rows, row.op \notin Removing
    PROVE  /\ Merged(w, row) \in Cells /\ Merged(w, row)[1] = Key(row)
           /\ \A j \in 1 .. NumColumns :
                 Merged(w, row)[j] = IF row.cells[j] # Shine THEN row.cells[j]
                                     ELSE IF Has(w, row) THEN w[Key(row)][j] ELSE Null
<1>1. DOMAIN row.cells = 1 .. NumColumns /\ 1 \in DOMAIN row.cells
      /\ (\A j \in DOMAIN row.cells : row.cells[j] \in Keys \cup Values \cup {Null, Shine})
      /\ Key(row) = row.cells[1] /\ row.cells[1] # Shine
      BY RowFacts
<1>2. Merged(w, row) = [j \in 1 .. NumColumns |->
                           IF row.cells[j] # Shine THEN row.cells[j]
                           ELSE IF Has(w, row) THEN w[Key(row)][j] ELSE Null]
      BY <1>1 DEF Merged
<1>3. ASSUME NEW j \in 1 .. NumColumns, Has(w, row)
      PROVE  w[Key(row)][j] \in Keys \cup Values \cup {Null}
  <2>1. w[Key(row)] \in Cells BY <1>3, WindowFacts DEF Has
  <2>. QED BY <2>1 DEF Cells
<1>4. Merged(w, row) \in Cells BY <1>1, <1>2, <1>3 DEF Cells
<1>. QED BY <1>1, <1>2, <1>4

(* Put changes the row of one key. *)
LEMMA PutFacts ==
    ASSUME NEW w \in Windows, NEW row \in Rows, row.op \notin Removing
    PROVE  /\ Put(w, row) \in Windows
           /\ DOMAIN Put(w, row) = DOMAIN w \cup {Key(row)}
           /\ Put(w, row)[Key(row)] = Merged(w, row)
           /\ \A k \in DOMAIN w \ {Key(row)} : Put(w, row)[k] = w[k]
<1>. DEFINE K == DOMAIN w \cup {Key(row)}
<1>1. Merged(w, row) \in Cells /\ Merged(w, row)[1] = Key(row) BY MergedFacts
<1>2. Key(row) \in Keys BY RowFacts
<1>3. DOMAIN w \in SUBSET Keys /\ IsFiniteSet(DOMAIN w)
      /\ \A k \in DOMAIN w : w[k] \in Cells /\ w[k][1] = k
      BY WindowFacts
<1>4. K \in SUBSET Keys /\ IsFiniteSet(K) BY <1>2, <1>3, FS_AddElement
<1>5. PICK p : p = Put(w, row) OBVIOUS
<1>6. p = [k \in K |-> IF k = Key(row) THEN Merged(w, row) ELSE w[k]] BY <1>5 DEF Put
<1>7. p \in [K -> Cells] /\ (\A k \in K : p[k][1] = k) BY <1>1, <1>3, <1>6
<1>8. p \in Windows
  <2>. HIDE DEF K
  <2>. QED BY <1>4, <1>7, IsWindow
<1>. QED BY <1>5, <1>6, <1>8

(* Without takes out the row of one key. *)
LEMMA WithoutFacts ==
    ASSUME NEW w \in Windows, NEW row
    PROVE  /\ Without(w, row) \in Windows
           /\ DOMAIN Without(w, row) = DOMAIN w \ {Key(row)}
           /\ \A k \in DOMAIN w \ {Key(row)} : Without(w, row)[k] = w[k]
           /\ ~Has(w, row) => Without(w, row) = w
<1>. DEFINE K == DOMAIN w \ {Key(row)}
<1>3. DOMAIN w \in SUBSET Keys /\ IsFiniteSet(DOMAIN w) /\ w \in [DOMAIN w -> Cells]
      /\ \A k \in DOMAIN w : w[k] \in Cells /\ w[k][1] = k
      BY WindowFacts
<1>4. K \in SUBSET Keys /\ IsFiniteSet(K) BY <1>3, FS_Subset
<1>5. PICK p : p = Without(w, row) OBVIOUS
<1>6. p = [k \in K |-> w[k]] BY <1>5 DEF Without
<1>7. p \in [K -> Cells] /\ (\A k \in K : p[k][1] = k) BY <1>3, <1>6
<1>8. p \in Windows
  <2>. HIDE DEF K
  <2>. QED BY <1>4, <1>7, IsWindow
<1>9. ASSUME ~Has(w, row) PROVE p = w
  <2>1. K = DOMAIN w BY <1>9 DEF Has
  <2>2. p = [k \in DOMAIN w |-> w[k]] BY <1>6, <2>1
  <2>. QED BY <1>3, <2>2
<1>. QED BY <1>5, <1>6, <1>8, <1>9

(* A row that fails or has no effect leaves the window alone. *)
LEMMA ApplyStays ==
    ASSUME NEW w \in Windows, NEW row \in Rows,
           Fails(w, row) \/ ~Effective(w, row)
    PROVE  Apply(w, row) = w
<1>1. CASE Fails(w, row) \/ row.op = "NOOP" BY <1>1 DEF Apply
<1>2. CASE ~(Fails(w, row) \/ row.op = "NOOP")
  <2>1. row.op = "SAFEDELETE" /\ ~Has(w, row) BY <1>2 DEF Effective
  <2>2. Without(w, row) = w BY <2>1, WithoutFacts
  <2>. QED BY <1>2, <2>1, <2>2 DEF Apply
<1>. QED BY <1>1, <1>2

(* A row to delete takes its key out. *)
LEMMA ApplyRemoves ==
    ASSUME NEW w \in Windows, NEW row \in Rows, ~Fails(w, row), row.op \in Removing
    PROVE  Apply(w, row) = Without(w, row)
BY DEF Apply, Removing

(* Any other row is put. *)
LEMMA ApplyPuts ==
    ASSUME NEW w \in Windows, NEW row \in Rows, ~Fails(w, row), row.op \notin Removing,
           row.op # "NOOP"
    PROVE  Apply(w, row) = Put(w, row)
BY DEF Apply, Removing

(* What a row makes of a window is a window. *)
LEMMA ApplyType ==
    ASSUME NEW w \in Windows, NEW row \in Rows
    PROVE  Apply(w, row) \in Windows
<1>1. CASE Fails(w, row) \/ ~Effective(w, row) BY <1>1, ApplyStays
<1>2. CASE ~(Fails(w, row) \/ ~Effective(w, row)) /\ row.op \in Removing
      BY <1>2, ApplyRemoves, WithoutFacts
<1>3. CASE ~(Fails(w, row) \/ ~Effective(w, row)) /\ row.op \notin Removing
  <2>1. row.op # "NOOP" BY <1>3 DEF Effective
  <2>. QED BY <1>3, <2>1, ApplyPuts, PutFacts
<1>. QED BY <1>1, <1>2, <1>3

(* A row is about its key. *)
LEMMA ApplyElse ==
    ASSUME NEW w \in Windows, NEW row \in Rows, NEW k, k # Key(row)
    PROVE  /\ k \in DOMAIN Apply(w, row) <=> k \in DOMAIN w
           /\ k \in DOMAIN w => Apply(w, row)[k] = w[k]
<1>1. CASE Fails(w, row) \/ ~Effective(w, row) BY <1>1, ApplyStays
<1>2. CASE ~(Fails(w, row) \/ ~Effective(w, row)) /\ row.op \in Removing
  <2>1. Apply(w, row) = Without(w, row) BY <1>2, ApplyRemoves
  <2>2. /\ DOMAIN Without(w, row) = DOMAIN w \ {Key(row)}
        /\ \A i \in DOMAIN w \ {Key(row)} : Without(w, row)[i] = w[i]
        BY WithoutFacts
  <2>. QED BY ONLY k # Key(row), <2>1, <2>2
<1>3. CASE ~(Fails(w, row) \/ ~Effective(w, row)) /\ row.op \notin Removing
  <2>1. row.op # "NOOP" BY <1>3 DEF Effective
  <2>2. Apply(w, row) = Put(w, row) BY <1>3, <2>1, ApplyPuts
  <2>3. /\ DOMAIN Put(w, row) = DOMAIN w \cup {Key(row)}
        /\ \A i \in DOMAIN w \ {Key(row)} : Put(w, row)[i] = w[i]
        BY <1>3, PutFacts
  <2>. QED BY ONLY k # Key(row), <2>2, <2>3
<1>. QED BY <1>1, <1>2, <1>3

-----------------------------------------------------------------------------
(* What the user makes of a row. *)

(* The user reads the row with an operation that cannot fail. *)
LEMMA TakenFacts ==
    ASSUME NEW row \in Rows
    PROVE  /\ Taken(row) \in Rows /\ Taken(row).cells = row.cells
           /\ Key(Taken(row)) = Key(row)
           /\ Taken(row).op = IF row.op \in Removing THEN "SAFEDELETE" ELSE "UPSERT"
<1>. DEFINE op == IF row.op \in Removing THEN "SAFEDELETE" ELSE "UPSERT"
<1>1. row = [op |-> row.op, cells |-> row.cells] BY RowFacts
<1>2. Taken(row) = [op |-> op, cells |-> row.cells]
  <2>1. PICK o, c : o = row.op /\ c = row.cells /\ row = [op |-> o, cells |-> c] BY <1>1
  <2>. QED BY <2>1 DEF Taken, Removing
<1>3. Taken(row).op = op /\ Taken(row).cells = row.cells BY <1>2
<1>4. Key(Taken(row)) = Key(row) BY <1>3 DEF Key
<1>5. op \in Ops /\ (op \in Removing <=> row.op \in Removing) BY DEF Ops, Removing
<1>6. row.cells \in Seq(Keys \cup Values \cup {Null, Shine}) /\ row.cells # <<>>
      /\ row.cells[1] \in Keys /\ (row.op \in Removing \/ Len(row.cells) = NumColumns)
      BY DEF Rows, Key, Removing
<1>. HIDE DEF op
<1>7. [op |-> op, cells |-> row.cells] \in Rows BY <1>5, <1>6, IsRow
<1>. QED BY <1>2, <1>3, <1>4, <1>7 DEF op

(* A row that is not deleted is in the copy afterwards. *)
LEMMA TakePuts ==
    ASSUME NEW c \in Windows, NEW row \in Rows, row.op \notin Removing
    PROVE  /\ Take(c, row) \in Windows
           /\ DOMAIN Take(c, row) = DOMAIN c \cup {Key(row)}
           /\ Take(c, row)[Key(row)] \in Cells
           /\ \A j \in 1 .. NumColumns :
                 Take(c, row)[Key(row)][j] =
                     IF row.cells[j] # Shine THEN row.cells[j]
                     ELSE IF Key(row) \in DOMAIN c THEN c[Key(row)][j] ELSE Null
           /\ \A k \in DOMAIN c \ {Key(row)} : Take(c, row)[k] = c[k]
<1>1. PICK t \in Rows : t = Taken(row) BY TakenFacts
<1>2. t.cells = row.cells /\ Key(t) = Key(row) /\ t.op = "UPSERT" BY <1>1, TakenFacts
<1>3. ~Fails(c, t) /\ t.op \notin Removing /\ t.op # "NOOP" BY <1>2 DEF Fails, Removing
<1>4. Take(c, row) = Put(c, t) BY <1>1, <1>3, ApplyPuts DEF Take
<1>5. /\ Put(c, t) \in Windows
      /\ DOMAIN Put(c, t) = DOMAIN c \cup {Key(t)}
      /\ Put(c, t)[Key(t)] = Merged(c, t)
      /\ \A k \in DOMAIN c \ {Key(t)} : Put(c, t)[k] = c[k]
      BY <1>3, PutFacts
<1>6. /\ Merged(c, t) \in Cells
      /\ \A j \in 1 .. NumColumns :
                 Merged(c, t)[j] = IF t.cells[j] # Shine THEN t.cells[j]
                                     ELSE IF Has(c, t) THEN c[Key(t)][j] ELSE Null
      BY <1>3, MergedFacts
<1>7. Has(c, t) <=> Key(row) \in DOMAIN c BY <1>2 DEF Has
<1>. QED BY <1>2, <1>4, <1>5, <1>6, <1>7

(* A row that is deleted is not. *)
LEMMA TakeRemoves ==
    ASSUME NEW c \in Windows, NEW row \in Rows, row.op \in Removing
    PROVE  /\ Take(c, row) \in Windows
           /\ DOMAIN Take(c, row) = DOMAIN c \ {Key(row)}
           /\ \A k \in DOMAIN c \ {Key(row)} : Take(c, row)[k] = c[k]
<1>1. PICK t \in Rows : t = Taken(row) BY TakenFacts
<1>2. Key(t) = Key(row) /\ t.op = "SAFEDELETE" BY <1>1, TakenFacts
<1>3. ~Fails(c, t) /\ t.op \in Removing BY <1>2 DEF Fails, Removing
<1>4. Take(c, row) = Without(c, t) BY <1>1, <1>3, ApplyRemoves DEF Take
<1>. QED BY <1>2, <1>4, WithoutFacts

(* The copy stays a window, *)
LEMMA TakeType ==
    ASSUME NEW c \in Windows, NEW row \in Rows
    PROVE  Take(c, row) \in Windows
BY TakePuts, TakeRemoves

(* and its other keys stay as they are. *)
LEMMA TakeElse ==
    ASSUME NEW c \in Windows, NEW row \in Rows, NEW k, k # Key(row)
    PROVE  /\ k \in DOMAIN Take(c, row) <=> k \in DOMAIN c
           /\ k \in DOMAIN c => Take(c, row)[k] = c[k]
<1>1. CASE row.op \in Removing
  <2>1. /\ DOMAIN Take(c, row) = DOMAIN c \ {Key(row)}
        /\ \A i \in DOMAIN c \ {Key(row)} : Take(c, row)[i] = c[i]
        BY <1>1, TakeRemoves
  <2>. QED BY ONLY k # Key(row), <2>1
<1>2. CASE row.op \notin Removing
  <2>1. /\ DOMAIN Take(c, row) = DOMAIN c \cup {Key(row)}
        /\ \A i \in DOMAIN c \ {Key(row)} : Take(c, row)[i] = c[i]
        BY <1>2, TakePuts
  <2>. QED BY ONLY k # Key(row), <2>1
<1>. QED BY <1>1, <1>2

-----------------------------------------------------------------------------
(***************************************************************************)
(* A sequence of rows that is read.                                        *)
(***************************************************************************)
(* After, a step for each row. *)
Steps(w, s, f) ==
    /\ f \in [0 .. Len(s) -> Windows]
    /\ f[0] = w
    /\ \A i \in 1 .. Len(s) : f[i] = Apply(f[i - 1], s[i])

(* After is such a function. *)
LEMMA AfterSteps ==
    ASSUME NEW w \in Windows, NEW s \in Seq(Rows)
    PROVE  Steps(w, s, After(w, s))
<1>. DEFINE n == Len(s)
            V == Windows
            G == [p \in V \X Nat |-> IF p[2] + 1 \in 1 .. n
                                       THEN Apply(p[1], s[p[2] + 1]) ELSE p[1]]
            Is(f) == f = [i \in 0 .. n |-> IF i = 0 THEN w ELSE Apply(f[i - 1], s[i])]
<1>1. n \in Nat /\ \A i \in 1 .. n : s[i] \in Rows BY LenProperties, ElementOfSeq
<1>. HIDE DEF n
<1>2. G \in [V \X Nat -> V]
  <2>1. ASSUME NEW p \in V \X Nat, p[2] + 1 \in 1 .. n
        PROVE Apply(p[1], s[p[2] + 1]) \in V
    <3>1. p[1] \in V /\ s[p[2] + 1] \in Rows BY <1>1, <2>1
    <3>. QED BY <3>1, ApplyType
  <2>. QED BY <2>1
<1>3. ASSUME NEW v \in V, NEW k \in Nat, k + 1 \in 1 .. n
      PROVE  G[<<v, k>>] = Apply(v, s[k + 1])
  <2>. HIDE DEF V
  <2>. QED BY <1>3
<1>4. PICK g \in [Nat -> V] : g[0] = w /\ \A k \in Nat : g[k + 1] = G[<<g[k], k>>]
  <2>. HIDE DEF G
  <2>1. Recurs(V, w, G) BY <1>2, Recursion
  <2>. QED BY <2>1 DEF Recurs
<1>5. ASSUME NEW i \in 1 .. n PROVE g[i] = Apply(g[i - 1], s[i])
  <2>1. i - 1 \in Nat /\ (i - 1) + 1 = i BY <1>1
  <2>2. PICK v \in V, k \in Nat : v = g[i - 1] /\ k = i - 1 BY <2>1
  <2>. HIDE DEF G, V
  <2>3. g[k + 1] = G[<<v, k>>] BY <1>4, <2>2
  <2>4. k + 1 = i BY <2>1, <2>2
  <2>5. G[<<v, k>>] = Apply(v, s[k + 1]) BY <1>3, <2>4
  <2>. QED BY ONLY <2>2, <2>3, <2>4, <2>5
<1>. HIDE DEF G
<1>. DEFINE h == [i \in 0 .. n |-> g[i]]
<1>6. Is(h)
  <2>1. ASSUME NEW i \in 0 .. n
        PROVE  h[i] = IF i = 0 THEN w ELSE Apply(h[i - 1], s[i])
    <3>1. CASE i = 0 BY <1>4, <3>1
    <3>2. CASE i # 0
      <4>1. i \in 1 .. n /\ i - 1 \in 0 .. n BY <1>1, <3>2
      <4>2. h[i] = g[i] /\ h[i - 1] = g[i - 1] BY <4>1
      <4>. QED BY <1>5, <3>2, <4>1, <4>2
    <3>. QED BY <3>1, <3>2
  <2>2. h = [i \in 0 .. n |-> h[i]] OBVIOUS
  <2>. HIDE DEF h
  <2>. QED BY <2>1, <2>2
<1>. DEFINE f == CHOOSE f : Is(f)
<1>7. Is(f)
  <2>. HIDE DEF h, Is
  <2>. QED BY <1>6
<1>8. After(w, s) = f BY DEF After, n
<1>. HIDE DEF f
<1>9. /\ f[0] = w
      /\ \A i \in 1 .. n : f[i] = Apply(f[i - 1], s[i])
      /\ f = [i \in 0 .. n |-> f[i]]
  <2>1. f[0] = w BY <1>1, <1>7
  <2>2. f = [i \in 0 .. n |-> f[i]] BY <1>7
  <2>3. ASSUME NEW i \in 1 .. n PROVE f[i] = Apply(f[i - 1], s[i])
    <3>1. i \in 0 .. n /\ i # 0 BY <1>1
    <3>. QED BY <1>7, <3>1
  <2>. HIDE DEF Is
  <2>. QED BY <2>1, <2>2, <2>3
<1>. HIDE DEF Is
<1>10. \A i \in 0 .. n : f[i] \in V
  <2>. DEFINE Typed == {k \in Nat : k \in 0 .. n => f[k] \in V}
  <2>1. 0 \in Typed BY <1>9
  <2>2. ASSUME NEW k \in Nat, k \in Typed PROVE k + 1 \in Typed
    <3>1. CASE k + 1 \in 0 .. n
      <4>1. k + 1 \in 1 .. n /\ k \in 0 .. n /\ (k + 1) - 1 = k BY <1>1, <3>1
      <4>2. f[k] \in V /\ s[k + 1] \in Rows BY <1>1, <2>2, <4>1
      <4>3. Apply(f[k], s[k + 1]) \in V BY <4>2, ApplyType
      <4>4. f[k + 1] = Apply(f[k], s[k + 1]) BY <1>9, <4>1
      <4>. QED BY <4>3, <4>4
    <3>2. CASE k + 1 \notin 0 .. n BY <3>2
    <3>. QED BY <3>1, <3>2
  <2>3. Nat \subseteq Typed
    <3>. HIDE DEF Typed
    <3>. QED BY <2>1, <2>2, SetInduction
  <2>. QED BY <1>1, <2>3
<1>11. f \in [0 .. n -> Windows] BY <1>9, <1>10
<1>. QED BY <1>8, <1>9, <1>11 DEF n, Steps

(* The rows as the user takes them. *)
TakenAll(s) == [i \in DOMAIN s |-> Taken(s[i])]

(* They are rows, and as many. *)
LEMMA TakenAllType ==
    ASSUME NEW s \in Seq(Rows)
    PROVE  TakenAll(s) \in Seq(Rows) /\ Len(TakenAll(s)) = Len(s)
<1>1. Len(s) \in Nat /\ DOMAIN s = 1 .. Len(s) /\ \A i \in 1 .. Len(s) : s[i] \in Rows
      BY LenProperties, ElementOfSeq
<1>2. [i \in 1 .. Len(s) |-> Taken(s[i])] \in [1 .. Len(s) -> Rows] BY <1>1, TakenFacts
<1>3. TakenAll(s) = [i \in 1 .. Len(s) |-> Taken(s[i])] BY <1>1 DEF TakenAll
<1>4. TakenAll(s) \in Seq(Rows) BY <1>1, <1>2, <1>3, SeqDef
<1>5. DOMAIN TakenAll(s) = 1 .. Len(s) BY <1>3
<1>. QED BY <1>1, <1>4, <1>5, LenProperties

(* Reading rows, a step for each. *)
LEMMA ReadSteps ==
    ASSUME NEW c \in Windows, NEW s \in Seq(Rows)
    PROVE  \E f \in [0 .. Len(s) -> Windows] :
              /\ Read(c, s) = f[Len(s)] /\ f[0] = c
              /\ \A i \in 1 .. Len(s) : f[i] = Take(f[i - 1], s[i])
<1>1. PICK t \in Seq(Rows) : t = TakenAll(s) BY TakenAllType
<1>2. Len(t) = Len(s) BY <1>1, TakenAllType
<1>3. PICK f : f = After(c, t) OBVIOUS
<1>4. Steps(c, t, f) BY <1>3, AfterSteps
<1>5. Read(c, s) = f[Len(s)]
  <2>1. Read(c, s) = ApplyEach(c, t) BY <1>1 DEF Read, TakenAll
  <2>. QED BY <1>2, <1>3, <2>1 DEF ApplyEach
<1>6. f \in [0 .. Len(s) -> Windows] /\ f[0] = c
      /\ \A i \in 1 .. Len(s) : f[i] = Apply(f[i - 1], t[i])
      BY <1>2, <1>4 DEF Steps
<1>7. ASSUME NEW i \in 1 .. Len(s) PROVE f[i] = Take(f[i - 1], s[i])
  <2>1. i \in DOMAIN s BY LenProperties
  <2>2. t[i] = Taken(s[i]) BY <1>1, <2>1 DEF TakenAll
  <2>. QED BY <1>6, <2>2 DEF Take
<1>. QED BY <1>5, <1>6, <1>7

(* What is read is a window. *)
LEMMA ReadType ==
    ASSUME NEW c \in Windows, NEW s \in Seq(Rows)
    PROVE  Read(c, s) \in Windows
<1>1. PICK f \in [0 .. Len(s) -> Windows] : Read(c, s) = f[Len(s)] BY ReadSteps
<1>2. Len(s) \in Nat BY LenProperties
<1>3. Len(s) \in 0 .. Len(s) BY <1>2
<1>. QED BY <1>1, <1>3

(* Reading nothing changes nothing. *)
LEMMA ReadEmpty ==
    ASSUME NEW c \in Windows
    PROVE  Read(c, <<>>) = c
<1>1. <<>> \in Seq(Rows) /\ Len(<<>>) = 0 BY EmptySeq
<1>2. PICK s \in Seq(Rows) : s = <<>> BY <1>1
<1>3. PICK f \in [0 .. Len(s) -> Windows] : Read(c, s) = f[Len(s)] /\ f[0] = c BY ReadSteps
<1>. QED BY <1>1, <1>2, <1>3

(* Reading one row more. *)
LEMMA ReadAppend ==
    ASSUME NEW c \in Windows, NEW s \in Seq(Rows), NEW x \in Rows
    PROVE  Read(c, Append(s, x)) = Take(Read(c, s), x)
<1>. DEFINE n == Len(s)
            t == Append(s, x)
<1>1. /\ t \in Seq(Rows) /\ Len(t) = n + 1 /\ n \in Nat /\ t[n + 1] = x
      /\ \A i \in 1 .. n : t[i] = s[i]
      BY AppendProperties, LenProperties
<1>. HIDE DEF n, t
<1>2. PICK f \in [0 .. n -> Windows] :
         /\ Read(c, s) = f[n] /\ f[0] = c
         /\ \A i \in 1 .. n : f[i] = Take(f[i - 1], s[i])
      BY ReadSteps DEF n
<1>3. PICK g \in [0 .. n + 1 -> Windows] :
         /\ Read(c, t) = g[n + 1] /\ g[0] = c
         /\ \A i \in 1 .. n + 1 : g[i] = Take(g[i - 1], t[i])
  <2>1. \E g \in [0 .. Len(t) -> Windows] :
         /\ Read(c, t) = g[Len(t)] /\ g[0] = c
         /\ \A i \in 1 .. Len(t) : g[i] = Take(g[i - 1], t[i])
        BY <1>1, ReadSteps
  <2>. QED BY <1>1, <2>1
<1>4. f[n] = g[n]
  <2>. DEFINE Same == {k \in Nat : k \in 0 .. n => f[k] = g[k]}
  <2>1. 0 \in Same BY <1>2, <1>3
  <2>2. ASSUME NEW k \in Nat, k \in Same PROVE k + 1 \in Same
    <3>1. CASE k + 1 \in 0 .. n
      <4>1. k + 1 \in 1 .. n /\ k + 1 \in 1 .. n + 1 /\ k \in 0 .. n /\ (k + 1) - 1 = k
            BY <1>1, <3>1
      <4>2. f[k] = g[k] /\ s[k + 1] = t[k + 1] BY <1>1, <2>2, <4>1
      <4>3. f[k + 1] = Take(f[k], s[k + 1]) BY <1>2, <4>1
      <4>4. g[k + 1] = Take(g[k], t[k + 1]) BY <1>3, <4>1
      <4>. QED BY <4>2, <4>3, <4>4
    <3>2. CASE k + 1 \notin 0 .. n BY <3>2
    <3>. QED BY <3>1, <3>2
  <2>3. Nat \subseteq Same
    <3>. HIDE DEF Same
    <3>. QED BY <2>1, <2>2, SetInduction
  <2>. QED BY <1>1, <2>3
<1>5. n + 1 \in 1 .. n + 1 /\ (n + 1) - 1 = n BY <1>1
<1>6. g[n + 1] = Take(g[n], x) BY <1>1, <1>3, <1>5
<1>. QED BY <1>2, <1>3, <1>4, <1>6 DEF t

(* Reading on is reading what follows. *)
LEMMA ReadConcat ==
    ASSUME NEW c \in Windows, NEW s \in Seq(Rows), NEW t \in Seq(Rows)
    PROVE  Read(c, s \o t) = Read(Read(c, s), t)
<1>. DEFINE P == {u \in Seq(Rows) : Read(c, s \o u) = Read(Read(c, s), u)}
<1>0. PICK d \in Windows : d = Read(c, s) BY ReadType
<1>1. <<>> \in P
  <2>1. s \o <<>> = s BY ConcatEmptySeq
  <2>2. Read(d, <<>>) = d BY ReadEmpty
  <2>. QED BY <1>0, <2>1, <2>2, EmptySeq
<1>2. ASSUME NEW u \in Seq(Rows), NEW x \in Rows, u \in P PROVE Append(u, x) \in P
  <2>1. s \o u \in Seq(Rows) /\ Append(u, x) \in Seq(Rows) BY ConcatProperties, AppendProperties
  <2>2. s \o Append(u, x) = Append(s \o u, x) BY AppendOfConcat
  <2>3. PICK v \in Seq(Rows) : v = s \o u BY <2>1
  <2>4. Read(c, Append(v, x)) = Take(Read(c, v), x) BY ReadAppend
  <2>5. Read(d, Append(u, x)) = Take(Read(d, u), x) BY ReadAppend
  <2>. QED BY <1>0, <1>2, <2>1, <2>2, <2>3, <2>4, <2>5
<1>3. Seq(Rows) \subseteq P
  <2>. HIDE DEF P
  <2>. QED BY <1>1, <1>2, SeqInduction
<1>. QED BY <1>3

(* Reading one row. *)
LEMMA ReadOne ==
    ASSUME NEW c \in Windows, NEW x \in Rows
    PROVE  Read(c, <<x>>) = Take(c, x)
<1>1. <<>> \in Seq(Rows) /\ Append(<<>>, x) = <<x>> BY EmptySeq
<1>2. Read(c, Append(<<>>, x)) = Take(Read(c, <<>>), x) BY <1>1, ReadAppend
<1>. QED BY <1>1, <1>2, ReadEmpty

(* Reading the first row first. *)
LEMMA ReadHead ==
    ASSUME NEW c \in Windows, NEW s \in Seq(Rows), s # <<>>
    PROVE  /\ Head(s) \in Rows /\ Tail(s) \in Seq(Rows)
           /\ Read(c, s) = Read(Take(c, Head(s)), Tail(s))
<1>1. PICK h \in Rows, t \in Seq(Rows) :
         h = Head(s) /\ t = Tail(s) /\ <<h>> \in Seq(Rows) /\ s = <<h>> \o t
      BY HeadAndTail
<1>2. Read(c, <<h>> \o t) = Read(Read(c, <<h>>), t) BY <1>1, ReadConcat
<1>3. Read(c, <<h>>) = Take(c, h) BY ReadOne
<1>. QED BY <1>1, <1>2, <1>3

-----------------------------------------------------------------------------
(***************************************************************************)
(* Copies of a window.                                                     *)
(***************************************************************************)
(* A copy is right about a key. *)
AgreeAt(c, w, k) ==
    IF Has_Flag("NOBASE")
      THEN k \in DOMAIN c =>
              k \in DOMAIN w /\ \A j \in DOMAIN w[k] : c[k][j] \in {w[k][j], Null}
      ELSE k \in DOMAIN c \/ k \in DOMAIN w =>
              k \in DOMAIN c /\ k \in DOMAIN w /\ c[k] = w[k]

(* Agree, key by key. *)
LEMMA AgreePointwise ==
    ASSUME NEW c, NEW w, NEW K
    PROVE  Agree(c, w, K) <=> \A k : k \notin K => AgreeAt(c, w, k)
<1>1. CASE Has_Flag("NOBASE") BY <1>1, Zenon DEF Agree, AgreeAt
<1>2. CASE ~Has_Flag("NOBASE") BY <1>2, Zenon DEF Agree, AgreeAt
<1>. QED BY <1>1, <1>2

(* It is no harder to be right but for more keys. *)
LEMMA AgreeMore ==
    ASSUME NEW c, NEW w, NEW K, NEW L, K \subseteq L, Agree(c, w, K)
    PROVE  Agree(c, w, L)
BY AgreePointwise

(* Whether a copy is right about a key depends on that key alone. *)
LEMMA AgreeSame ==
    ASSUME NEW c, NEW w, NEW b, NEW v, NEW k, AgreeAt(c, w, k),
           k \in DOMAIN b <=> k \in DOMAIN c, k \in DOMAIN c => b[k] = c[k],
           k \in DOMAIN v <=> k \in DOMAIN w, k \in DOMAIN w => v[k] = w[k]
    PROVE  AgreeAt(b, v, k)
<1>1. CASE Has_Flag("NOBASE") BY <1>1, Zenon DEF AgreeAt
<1>2. CASE ~Has_Flag("NOBASE") BY <1>2, Zenon DEF AgreeAt
<1>. QED BY <1>1, <1>2

(* What a row that passes looks like to the subscriber. *)
LEMMA DeltaFacts ==
    ASSUME NEW w \in Windows, NEW row \in Rows
    PROVE  /\ Delta(w, row) \in Rows /\ Key(Delta(w, row)) = Key(row)
           /\ Delta(w, row).op \in Removing <=> row.op \in Removing
           /\ row.op \notin Removing =>
                 \A j \in 1 .. NumColumns :
                    \/ Delta(w, row).cells[j] = Merged(w, row)[j]
                    \/ /\ Delta(w, row).cells[j] = Shine
                       /\ Has(w, row) /\ Merged(w, row)[j] = w[Key(row)][j]
<1>1. CASE row.op \in Removing
  <2>1. Delta(w, row) = [op |-> "DELETE", cells |-> row.cells]
        BY <1>1 DEF Delta, Removing
  <2>2. row.cells \in Seq(Keys \cup Values \cup {Null, Shine}) /\ row.cells # <<>>
        /\ row.cells[1] \in Keys
        BY DEF Rows, Key
  <2>3. "DELETE" \in Ops /\ "DELETE" \in Removing BY DEF Ops, Removing
  <2>4. [op |-> "DELETE", cells |-> row.cells] \in Rows BY <2>2, <2>3, IsRow
  <2>5. Delta(w, row).op = "DELETE" /\ Delta(w, row).cells = row.cells BY <2>1
  <2>6. Key(Delta(w, row)) = Key(row) BY <2>5 DEF Key
  <2>. QED BY <1>1, <2>1, <2>3, <2>4, <2>5, <2>6
<1>2. CASE row.op \notin Removing
  <2>. DEFINE V == Keys \cup Values \cup {Null, Shine}
  <2>1. PICK m \in Cells : m = Merged(w, row) /\ m[1] = Key(row) BY <1>2, MergedFacts
  <2>2. DOMAIN m = 1 .. NumColumns /\ 1 \in 1 .. NumColumns
        /\ (\A j \in 1 .. NumColumns : m[j] \in V)
        /\ m \in [1 .. NumColumns -> V]
        BY CellFacts
  <2>3. Key(row) \in Keys BY RowFacts
  <2>4. ASSUME NEW op \in {"INSERT", "UPDATE"}, NEW x \in [1 .. NumColumns -> V],
               Delta(w, row) = [op |-> op, cells |-> x], x[1] = m[1],
               \A j \in 1 .. NumColumns :
                  x[j] = m[j] \/ (x[j] = Shine /\ Has(w, row) /\ m[j] = w[Key(row)][j])
        PROVE  /\ Delta(w, row) \in Rows /\ Key(Delta(w, row)) = Key(row)
               /\ Delta(w, row).op \in Removing <=> row.op \in Removing
               /\ row.op \notin Removing =>
                 \A j \in 1 .. NumColumns :
                    \/ Delta(w, row).cells[j] = Merged(w, row)[j]
                    \/ /\ Delta(w, row).cells[j] = Shine
                       /\ Has(w, row) /\ Merged(w, row)[j] = w[Key(row)][j]
    <3>1. op \in Ops /\ op \notin Removing BY DEF Ops, Removing
    <3>2. x \in Seq(V) /\ Len(x) = NumColumns /\ x # <<>> BY CellsAreSeq
    <3>3. x[1] \in Keys BY <2>1, <2>3, <2>4
    <3>4. [op |-> op, cells |-> x] \in Rows BY <3>1, <3>2, <3>3, IsRow
    <3>5. Delta(w, row).op = op /\ Delta(w, row).cells = x BY <2>4
    <3>6. Key(Delta(w, row)) = Key(row) BY <2>1, <2>4, <3>5 DEF Key
    <3>7. Delta(w, row) \in Rows BY <2>4, <3>4
    <3>. HIDE DEF V
    <3>. QED BY <1>2, <2>1, <2>4, <3>1, <3>5, <3>6, <3>7
  <2>5. CASE ~Has(w, row)
    <3>1. Delta(w, row) = [op |-> "INSERT", cells |-> m]
          BY <1>2, <2>1, <2>5 DEF Delta, Removing
    <3>. QED BY <2>2, <2>4, <3>1
  <2>6. CASE Has(w, row)
    <3>. DEFINE x == [j \in 1 .. NumColumns |->
                        IF j > 1 /\ Has_Flag("SHINETHROUGH") /\ m[j] = w[Key(row)][j]
                          THEN Shine ELSE m[j]]
    <3>1. Delta(w, row) = [op |-> "UPDATE", cells |-> x]
          BY <1>2, <2>1, <2>2, <2>6 DEF Delta, Removing
    <3>2. x \in [1 .. NumColumns -> V] /\ x[1] = m[1] BY <2>2
    <3>3. \A j \in 1 .. NumColumns :
             x[j] = m[j] \/ (x[j] = Shine /\ Has(w, row) /\ m[j] = w[Key(row)][j])
          BY <2>6
    <3>. HIDE DEF x, V
    <3>. QED BY <2>4, <3>1, <3>2, <3>3
  <2>. QED BY <2>5, <2>6
<1>. QED BY <1>1, <1>2

(* The subscriber follows. *)
LEMMA DeltaKeeps ==
    ASSUME NEW c \in Windows, NEW w \in Windows, NEW row \in Rows, NEW K,
           ~Fails(w, row), Effective(w, row), Agree(c, w, K)
    PROVE  Agree(Take(c, Delta(w, row)), Apply(w, row), K)
<1>1. PICK d \in Rows : d = Delta(w, row) /\ Key(d) = Key(row) BY DeltaFacts
<1>2. d.op \in Removing <=> row.op \in Removing BY <1>1, DeltaFacts
<1>. DEFINE b == Take(c, d)   v == Apply(w, row)   x == Key(row)
<1>3. ASSUME NEW k, k \notin K, k # x PROVE AgreeAt(b, v, k)
  <2>1. AgreeAt(c, w, k) BY <1>3, AgreePointwise
  <2>2. (k \in DOMAIN b <=> k \in DOMAIN c) /\ (k \in DOMAIN c => b[k] = c[k])
        BY <1>1, <1>3, TakeElse
  <2>3. (k \in DOMAIN v <=> k \in DOMAIN w) /\ (k \in DOMAIN w => v[k] = w[k])
        BY <1>3, ApplyElse
  <2>. HIDE DEF b, v
  <2>. QED BY <2>1, <2>2, <2>3, AgreeSame
<1>4. ASSUME x \notin K PROVE AgreeAt(b, v, x)
  <2>1. CASE row.op \in Removing
    <3>1. x \notin DOMAIN b
      <4>1. d.op \in Removing BY <1>2, <2>1
      <4>2. DOMAIN b = DOMAIN c \ {Key(d)} BY <4>1, TakeRemoves
      <4>. QED BY ONLY <1>1, <4>2 DEF x
    <3>2. v = Without(w, row) BY <2>1, ApplyRemoves
    <3>3. x \notin DOMAIN v
      <4>1. DOMAIN Without(w, row) = DOMAIN w \ {Key(row)} BY WithoutFacts
      <4>. QED BY ONLY <3>2, <4>1 DEF x
    <3>. HIDE DEF b, v
    <3>. QED BY <3>1, <3>3 DEF AgreeAt
  <2>2. CASE row.op \notin Removing
    <3>1. row.op # "NOOP" BY DEF Effective
    <3>2. v = Put(w, row) BY <2>2, <3>1, ApplyPuts
    <3>3. x \in DOMAIN v /\ v[x] = Merged(w, row) BY <2>2, <3>2, PutFacts
    <3>4. /\ Merged(w, row) \in Cells
          /\ \A j \in 1 .. NumColumns :
                    \/ d.cells[j] = Merged(w, row)[j]
                    \/ /\ d.cells[j] = Shine
                       /\ Has(w, row) /\ Merged(w, row)[j] = w[x][j]
          BY <1>1, <2>2, MergedFacts, DeltaFacts
    <3>5. PICK m \in Cells : m = v[x] BY <3>3, <3>4
    <3>6. x \in DOMAIN b /\ b[x] \in Cells
          /\ \A j \in 1 .. NumColumns :
               b[x][j] = IF d.cells[j] # Shine THEN d.cells[j]
                         ELSE IF x \in DOMAIN c THEN c[x][j] ELSE Null
      <4>0. d.op \notin Removing BY <1>2, <2>2
      <4>1. DOMAIN b = DOMAIN c \cup {Key(d)} BY <4>0, TakePuts
      <4>2. b[Key(d)] \in Cells
          /\ \A j \in 1 .. NumColumns :
               b[Key(d)][j] = IF d.cells[j] # Shine THEN d.cells[j]
                         ELSE IF Key(d) \in DOMAIN c THEN c[Key(d)][j] ELSE Null
            BY <4>0, TakePuts
      <4>3. x = Key(d) BY <1>1
      <4>. HIDE DEF b, x
      <4>. QED BY ONLY <4>1, <4>2, <4>3
    <3>7. PICK e \in Cells : e = b[x] BY <3>6
    <3>8. (\A j \in 1 .. NumColumns : m[j] # Shine) /\ DOMAIN m = 1 .. NumColumns
          /\ m = [j \in 1 .. NumColumns |-> m[j]] /\ e = [j \in 1 .. NumColumns |-> e[j]]
          BY CellFacts
    <3>9. AgreeAt(c, w, x) BY <1>4, AgreePointwise
    <3>10. \A j \in 1 .. NumColumns :
             \/ d.cells[j] = m[j]
             \/ d.cells[j] = Shine /\ x \in DOMAIN w /\ m[j] = w[x][j]
          BY <3>3, <3>4, <3>5 DEF Has
    <3>11. \A j \in 1 .. NumColumns :
               e[j] = IF d.cells[j] # Shine THEN d.cells[j]
                         ELSE IF x \in DOMAIN c THEN c[x][j] ELSE Null
          BY <3>6, <3>7
    <3>. HIDE DEF b, v, x
    <3>12. CASE Has_Flag("NOBASE")
      <4>1. ASSUME NEW j \in 1 .. NumColumns PROVE e[j] \in {m[j], Null}
        <5>1. CASE d.cells[j] = m[j] BY <3>8, <3>11, <5>1
        <5>2. CASE d.cells[j] = Shine /\ x \in DOMAIN w /\ m[j] = w[x][j]
          <6>1. x \in DOMAIN c => c[x][j] \in {w[x][j], Null}
            <7>1. w[x] \in Cells BY <5>2, WindowFacts
            <7>2. DOMAIN w[x] = 1 .. NumColumns BY <7>1, CellFacts
            <7>. QED BY <3>9, <3>12, <7>2 DEF AgreeAt
          <6>. QED BY <3>11, <5>2, <6>1
        <5>. QED BY <3>10, <5>1, <5>2
      <4>. QED BY <3>3, <3>5, <3>7, <3>8, <3>12, <4>1 DEF AgreeAt
    <3>13. CASE ~Has_Flag("NOBASE")
      <4>1. ASSUME NEW j \in 1 .. NumColumns PROVE e[j] = m[j]
        <5>1. CASE d.cells[j] = m[j] BY <3>8, <3>11, <5>1
        <5>2. CASE d.cells[j] = Shine /\ x \in DOMAIN w /\ m[j] = w[x][j]
          <6>1. x \in DOMAIN c /\ c[x] = w[x] BY <3>9, <3>13, <5>2 DEF AgreeAt
          <6>. QED BY <3>11, <5>2, <6>1
        <5>. QED BY <3>10, <5>1, <5>2
      <4>2. e = m BY <3>8, <4>1
      <4>. QED BY <3>3, <3>5, <3>6, <3>7, <3>13, <4>2 DEF AgreeAt
    <3>. QED BY <3>12, <3>13
  <2>. QED BY <2>1, <2>2
<1>5. \A k : k \notin K => AgreeAt(b, v, k)
  <2>. HIDE DEF b, v, x
  <2>. QED BY <1>3, <1>4
<1>6. Agree(b, v, K)
  <2>. HIDE DEF b, v, x
  <2>. QED BY <1>5, AgreePointwise
<1>. QED BY <1>1, <1>6

(* A copy that does not follow is out of date about the key of the row. *)
LEMMA ApplyLeaves ==
    ASSUME NEW c, NEW w \in Windows, NEW row \in Rows, NEW K, Agree(c, w, K)
    PROVE  Agree(c, Apply(w, row), K \cup {Key(row)})
<1>. DEFINE v == Apply(w, row)   x == Key(row)
<1>1. ASSUME NEW k, k \notin K, k # x PROVE AgreeAt(c, v, k)
  <2>1. AgreeAt(c, w, k) BY <1>1, AgreePointwise
  <2>2. (k \in DOMAIN v <=> k \in DOMAIN w) /\ (k \in DOMAIN w => v[k] = w[k])
        BY <1>1, ApplyElse
  <2>. HIDE DEF v
  <2>. QED BY <2>1, <2>2, AgreeSame
<1>. HIDE DEF v, x
<1>2. Agree(c, v, K \cup {x}) BY <1>1, AgreePointwise
<1>. QED BY <1>2 DEF v, x

-----------------------------------------------------------------------------
(* Rows that tell the state of their keys, whatever there was before. *)
Latest(w, d) == IF Key(d) \in DOMAIN w THEN d.op \notin Removing /\ d.cells = w[Key(d)]
                                       ELSE d.op \in Removing

(* The user takes such a row and is right about its key. *)
LEMMA LatestKeeps ==
    ASSUME NEW c \in Windows, NEW w \in Windows, NEW d \in Rows, Latest(w, d), NEW K,
           Agree(c, w, K)
    PROVE  Agree(Take(c, d), w, K \ {Key(d)})
<1>. DEFINE b == Take(c, d)   x == Key(d)
<1>1. ASSUME NEW k, k \notin K, k # x PROVE AgreeAt(b, w, k)
  <2>1. AgreeAt(c, w, k) BY <1>1, AgreePointwise
  <2>2. (k \in DOMAIN b <=> k \in DOMAIN c) /\ (k \in DOMAIN c => b[k] = c[k])
        BY <1>1, TakeElse
  <2>. HIDE DEF b
  <2>. QED BY <2>1, <2>2, AgreeSame
<1>2. AgreeAt(b, w, x)
  <2>1. CASE x \in DOMAIN w
    <3>1. d.op \notin Removing /\ d.cells = w[x] BY <2>1 DEF Latest
    <3>2. PICK m \in Cells : m = w[x] BY <2>1, WindowFacts
    <3>3. x \in DOMAIN b /\ b[x] \in Cells
          /\ \A j \in 1 .. NumColumns :
               b[x][j] = IF d.cells[j] # Shine THEN d.cells[j]
                         ELSE IF x \in DOMAIN c THEN c[x][j] ELSE Null
          BY <3>1, TakePuts
    <3>4. PICK e \in Cells : e = b[x] BY <3>3
    <3>5. (\A j \in 1 .. NumColumns : m[j] # Shine) /\ DOMAIN m = 1 .. NumColumns
          /\ m = [j \in 1 .. NumColumns |-> m[j]] /\ e = [j \in 1 .. NumColumns |-> e[j]]
          BY CellFacts
    <3>. HIDE DEF b, x
    <3>6. \A j \in 1 .. NumColumns : e[j] = m[j] BY <3>1, <3>2, <3>3, <3>4, <3>5
    <3>7. e = m BY <3>5, <3>6
    <3>8. b[x] = w[x] BY <3>2, <3>4, <3>7
    <3>. QED BY <2>1, <3>3, <3>8 DEF AgreeAt
  <2>2. CASE x \notin DOMAIN w
    <3>1. d.op \in Removing BY <2>2 DEF Latest
    <3>2. x \notin DOMAIN b BY <3>1, TakeRemoves
    <3>. HIDE DEF b, x
    <3>. QED BY <2>2, <3>2 DEF AgreeAt
  <2>. QED BY <2>1, <2>2
<1>. HIDE DEF b, x
<1>3. Agree(b, w, K \ {x}) BY <1>1, <1>2, AgreePointwise
<1>. QED BY <1>3 DEF b, x

KeysOf(s) == {Key(s[i]) : i \in DOMAIN s}

(* The keys of one row more. *)
LEMMA KeysOfAppend ==
    ASSUME NEW s \in Seq(Rows), NEW d \in Rows
    PROVE  KeysOf(Append(s, d)) = KeysOf(s) \cup {Key(d)}
<1>1. /\ DOMAIN s = 1 .. Len(s) /\ Len(s) \in Nat
      /\ DOMAIN Append(s, d) = 1 .. Len(s) + 1
      /\ \A i \in 1 .. Len(s) : Append(s, d)[i] = s[i]
      /\ Append(s, d)[Len(s) + 1] = d
      BY AppendProperties, LenProperties
<1>2. DOMAIN Append(s, d) = DOMAIN s \cup {Len(s) + 1} /\ Len(s) + 1 \notin DOMAIN s
      BY <1>1
<1>. QED BY <1>1, <1>2 DEF KeysOf

(* The user reads such rows and is right about all their keys. *)
LEMMA LatestAllKeep ==
    ASSUME NEW c \in Windows, NEW w \in Windows, NEW K, Agree(c, w, K),
           NEW s \in Seq(Rows), \A i \in DOMAIN s : Latest(w, s[i])
    PROVE  Agree(Read(c, s), w, K \ KeysOf(s))
<1>. DEFINE All(u) == \A i \in DOMAIN u : Latest(w, u[i])
            P == {u \in Seq(Rows) : All(u) => Agree(Read(c, u), w, K \ KeysOf(u))}
<1>1. <<>> \in P
  <2>1. <<>> \in Seq(Rows) BY EmptySeq
  <2>2. KeysOf(<<>>) = {} BY DEF KeysOf
  <2>3. Read(c, <<>>) = c BY ReadEmpty
  <2>. QED BY <2>1, <2>2, <2>3
<1>2. ASSUME NEW u \in Seq(Rows), NEW d \in Rows, u \in P PROVE Append(u, d) \in P
  <2>1. Append(u, d) \in Seq(Rows) BY AppendProperties
  <2>2. SUFFICES ASSUME All(Append(u, d))
                 PROVE  Agree(Read(c, Append(u, d)), w, K \ KeysOf(Append(u, d)))
        BY <2>1
  <2>3. /\ DOMAIN u = 1 .. Len(u) /\ Len(u) \in Nat
        /\ DOMAIN Append(u, d) = 1 .. Len(u) + 1
        /\ \A i \in 1 .. Len(u) : Append(u, d)[i] = u[i]
        /\ Append(u, d)[Len(u) + 1] = d
        BY AppendProperties, LenProperties
  <2>4. All(u) /\ Latest(w, d)
    <3>1. ASSUME NEW i \in DOMAIN u PROVE Latest(w, u[i])
      <4>1. i \in DOMAIN Append(u, d) /\ Append(u, d)[i] = u[i] BY <2>3
      <4>. QED BY <2>2, <4>1
    <3>2. Len(u) + 1 \in DOMAIN Append(u, d) BY <2>3
    <3>3. Latest(w, Append(u, d)[Len(u) + 1]) BY <2>2, <3>2
    <3>. QED BY <2>3, <3>1, <3>3
  <2>5. Agree(Read(c, u), w, K \ KeysOf(u)) BY <1>2, <2>4
  <2>6. PICK e \in Windows : e = Read(c, u) BY ReadType
  <2>. HIDE DEF All, P
  <2>7. Agree(Take(e, d), w, (K \ KeysOf(u)) \ {Key(d)}) BY <2>4, <2>5, <2>6, LatestKeeps
  <2>8. (K \ KeysOf(u)) \ {Key(d)} = K \ KeysOf(Append(u, d)) BY KeysOfAppend
  <2>9. Read(c, Append(u, d)) = Take(e, d) BY <2>6, ReadAppend
  <2>. QED BY <2>7, <2>8, <2>9
<1>3. Seq(Rows) \subseteq P
  <2>. HIDE DEF P
  <2>. QED BY <1>1, <1>2, SeqInduction
<1>. QED BY <1>3

-----------------------------------------------------------------------------
(***************************************************************************)
(* Messages, and the events they become.                                   *)
(***************************************************************************)
LEMMA FlattenFromEmpty ==
    ASSUME NEW S, NEW t \in Seq(Seq(S))
    PROVE  \E g \in [0 .. Len(t) -> Seq(S)] :
              /\ FlattenSeq(t) = g[Len(t)] /\ g[0] = <<>>
              /\ \A i \in 1 .. Len(t) : g[i] = g[i - 1] \o t[i]
<1>. DEFINE n == Len(t)
<1>1. n \in Nat /\ <<>> \in Seq(S) BY LenProperties, EmptySeq
<1>2. CASE t = <<>>
  <2>1. n = 0 BY <1>2, EmptySeq
  <2>. DEFINE g == [i \in 0 .. 0 |-> <<>>]
  <2>2. g \in [0 .. n -> Seq(S)] BY <1>1, <2>1
  <2>3. FlattenSeq(t) = <<>> BY <1>2, FlattenEmpty
  <2>4. g[n] = <<>> /\ g[0] = <<>> BY <2>1
  <2>5. 1 .. n = {} BY <2>1
  <2>. QED BY <2>2, <2>3, <2>4, <2>5
<1>3. CASE t # <<>>
  <2>1. PICK f \in [1 .. n -> Seq(S)] :
           /\ FlattenSeq(t) = f[n]
           /\ f[1] = t[1]
           /\ \A i \in 2 .. n : f[i] = f[i - 1] \o t[i]
        BY <1>3, FlattenSteps DEF Flattens
  <2>2. n # 0 BY <1>3, EmptySeq
  <2>. DEFINE g == [i \in 0 .. n |-> IF i = 0 THEN <<>> ELSE f[i]]
  <2>. HIDE DEF n
  <2>3. g \in [0 .. n -> Seq(S)] BY <1>1
  <2>4. g[n] = f[n] /\ g[0] = <<>> BY <1>1, <2>2
  <2>5. ASSUME NEW i \in 1 .. n PROVE g[i] = g[i - 1] \o t[i]
    <3>1. CASE i = 1
      <4>1. t[1] \in Seq(S) BY <1>1, <2>2, ElementOfSeq DEF n
      <4>2. <<>> \o t[1] = t[1] BY <4>1, ConcatEmptySeq
      <4>3. g[1] = f[1] /\ g[0] = <<>> /\ 1 - 1 = 0 BY <1>1, <2>2
      <4>. HIDE DEF g
      <4>. QED BY <2>1, <3>1, <4>2, <4>3
    <3>2. CASE i # 1
      <4>1. i \in 2 .. n /\ i - 1 \in 1 .. n /\ i \in 0 .. n /\ i - 1 \in 0 .. n BY <1>1, <3>2
      <4>2. g[i] = f[i] /\ g[i - 1] = f[i - 1] BY <4>1
      <4>. HIDE DEF g
      <4>. QED BY <2>1, <4>1, <4>2
    <3>. QED BY <3>1, <3>2
  <2>. HIDE DEF g
  <2>. QED BY <2>1, <2>3, <2>4, <2>5 DEF n
<1>. QED BY <1>2, <1>3

-----------------------------------------------------------------------------
(* What the subscriber gets to see of a message. *)
LEMMA DeltasFollow ==
    ASSUME window \in Windows, NEW u \in Messages, NEW c \in Windows, NEW K,
           Agree(c, window, K)
    PROVE  /\ Deltas(u) \in Seq(Rows) /\ Processed(window, u) \in Windows
           /\ Agree(Read(c, Deltas(u)), Processed(window, u), K)
           /\ Agree(c, Processed(window, u), K \cup KeysOf(Deltas(u)))
<1>. DEFINE s == u.rows
            n == Len(s)
            f == After(window, s)
            pass == Passing(window, u)
            Seen(i) == i \in pass /\ Effective(f[i - 1], s[i])
            all == [i \in DOMAIN s |-> IF Seen(i) THEN <<Delta(f[i - 1], s[i])>> ELSE <<>>]
            v(i) == IF pass = {} THEN window ELSE f[i]
<1>1. s \in Seq(Rows) BY MessagesAssumption
<1>2. n \in Nat /\ DOMAIN s = 1 .. n /\ \A i \in 1 .. n : s[i] \in Rows
      BY <1>1, LenProperties, ElementOfSeq
<1>3. Steps(window, s, f) BY <1>1, AfterSteps
<1>4. f \in [0 .. n -> Windows] /\ f[0] = window
      /\ \A i \in 1 .. n : f[i] = Apply(f[i - 1], s[i])
      BY <1>3 DEF Steps
<1>5. /\ pass \subseteq 1 .. n
      /\ \A i \in pass : ~Fails(f[i - 1], s[i])
      /\ pass # {} => \A i \in 1 .. n : i \notin pass => Fails(f[i - 1], s[i])
  <2>1. \A i \in 1 .. n : i \in Failing(window, s) <=> Fails(f[i - 1], s[i])
        BY <1>2 DEF Failing
  <2>2. pass \in {{}, 1 .. n \ Failing(window, s)} BY <1>2 DEF Passing
  <2>. HIDE DEF n, f, s, pass
  <2>. QED BY <2>1, <2>2
<1>6. Deltas(u) = FlattenSeq(all) BY DEF Deltas
<1>7. Processed(window, u) = v(n)
  <2>1. Processed(window, u) = IF pass = {} THEN window ELSE f[n] BY DEF Processed, ApplyEach
  <2>. QED BY <2>1
<1>. HIDE DEF n, f, s, pass
<1>8. ASSUME NEW i \in 1 .. n
      PROVE  /\ i - 1 \in 0 .. n /\ f[i - 1] \in Windows /\ s[i] \in Rows
             /\ Delta(f[i - 1], s[i]) \in Rows
             /\ <<Delta(f[i - 1], s[i])>> \in Seq(Rows)
  <2>1. i - 1 \in 0 .. n BY <1>2
  <2>2. f[i - 1] \in Windows /\ s[i] \in Rows BY <1>2, <1>4, <2>1
  <2>3. Delta(f[i - 1], s[i]) \in Rows BY <2>2, DeltaFacts
  <2>. QED BY <2>1, <2>2, <2>3
<1>9. /\ all \in Seq(Seq(Rows)) /\ Len(all) = n
      /\ \A i \in 1 .. n : all[i] = IF Seen(i) THEN <<Delta(f[i - 1], s[i])>> ELSE <<>>
  <2>1. ASSUME NEW i \in 1 .. n
        PROVE  (IF Seen(i) THEN <<Delta(f[i - 1], s[i])>> ELSE <<>>) \in Seq(Rows)
    <3>1. <<>> \in Seq(Rows) BY EmptySeq
    <3>. HIDE DEF Seen
    <3>. QED BY <1>8, <3>1
  <2>. HIDE DEF Seen
  <2>2. DOMAIN all = 1 .. n
        /\ \A i \in 1 .. n : all[i] = IF Seen(i) THEN <<Delta(f[i - 1], s[i])>> ELSE <<>>
        BY <1>2
  <2>3. all \in [1 .. n -> Seq(Rows)] BY <1>2, <2>1
  <2>. HIDE DEF all
  <2>4. all \in Seq(Seq(Rows)) BY <1>2, <2>3, SeqDef
  <2>5. Len(all) = n BY <1>2, <2>2, <2>4, LenProperties
  <2>. QED BY <2>2, <2>4, <2>5
<1>. HIDE DEF all
<1>10. PICK g \in [0 .. n -> Seq(Rows)] :
          /\ FlattenSeq(all) = g[n] /\ g[0] = <<>>
          /\ \A i \in 1 .. n : g[i] = g[i - 1] \o all[i]
  <2>1. \E g \in [0 .. Len(all) -> Seq(Rows)] :
              /\ FlattenSeq(all) = g[Len(all)] /\ g[0] = <<>>
              /\ \A i \in 1 .. Len(all) : g[i] = g[i - 1] \o all[i]
        BY <1>9, FlattenFromEmpty
  <2>. QED BY <1>9, <2>1
<1>. DEFINE Good(i) == Agree(Read(c, g[i]), v(i), K) /\ Agree(c, v(i), K \cup KeysOf(g[i]))
<1>11. Good(0)
  <2>1. KeysOf(<<>>) = {} BY DEF KeysOf
  <2>2. v(0) = window BY <1>4
  <2>3. Read(c, <<>>) = c /\ K \cup {} = K BY ReadEmpty
  <2>. HIDE DEF v
  <2>. QED BY <1>10, <2>1, <2>2, <2>3
<1>12. ASSUME NEW i \in 1 .. n, Good(i - 1) PROVE Good(i)
  <2>0. i - 1 \in 0 .. n /\ i \in 0 .. n BY <1>2
  <2>1. PICK r \in Rows, w \in Windows : r = s[i] /\ w = f[i - 1] BY <1>8
  <2>2. PICK q \in Seq(Rows) : q = g[i - 1] BY <1>10, <2>0
  <2>3. g[i] = q \o all[i] BY <1>10, <2>2
  <2>4. CASE Seen(i)
    <3>1. pass # {} /\ ~Fails(w, r) /\ Effective(w, r) BY <1>5, <2>1, <2>4
    <3>2. v(i - 1) = w /\ v(i) = Apply(w, r) BY <1>4, <2>1, <3>1
    <3>3. PICK d \in Rows : d = Delta(w, r) /\ Key(d) = Key(r) BY DeltaFacts
    <3>4. all[i] = <<d>> BY <1>9, <2>1, <2>4, <3>3
    <3>5. g[i] = Append(q, d) BY <2>3, <3>4, AppendIsConcat
    <3>6. PICK e \in Windows : e = Read(c, q) BY ReadType
    <3>7. Agree(e, w, K) /\ Agree(c, w, K \cup KeysOf(q)) BY <1>12, <2>2, <3>2, <3>6
    <3>. HIDE DEF v, Seen
    <3>8. Agree(Take(e, d), Apply(w, r), K) BY <3>1, <3>3, <3>7, DeltaKeeps
    <3>9. Read(c, g[i]) = Take(e, d) BY <3>5, <3>6, ReadAppend
    <3>10. Agree(c, Apply(w, r), (K \cup KeysOf(q)) \cup {Key(r)}) BY <3>7, ApplyLeaves
    <3>11. (K \cup KeysOf(q)) \cup {Key(r)} = K \cup KeysOf(g[i])
      <4>1. KeysOf(g[i]) = KeysOf(q) \cup {Key(r)} BY <3>3, <3>5, KeysOfAppend
      <4>. QED BY <4>1
    <3>. QED BY <3>2, <3>8, <3>9, <3>10, <3>11
  <2>5. CASE ~Seen(i)
    <3>1. g[i] = q
      <4>1. all[i] = <<>> BY <1>9, <2>5
      <4>. QED BY <2>3, <4>1, ConcatEmptySeq
    <3>2. v(i) = v(i - 1)
      <4>1. pass # {} => Fails(w, r) \/ ~Effective(w, r) BY <1>5, <2>1, <2>5
      <4>2. pass # {} => Apply(w, r) = w BY <4>1, ApplyStays
      <4>. QED BY <1>4, <2>1, <4>2
    <3>. HIDE DEF v, Seen
    <3>. QED BY <1>12, <2>2, <3>1, <3>2
  <2>. QED BY <2>4, <2>5
<1>13. Good(n)
  <2>. DEFINE P == {i \in Nat : i \in 0 .. n => Good(i)}
  <2>1. 0 \in P
    <3>. HIDE DEF Good
    <3>. QED BY <1>11
  <2>2. ASSUME NEW i \in Nat, i \in P PROVE i + 1 \in P
    <3>1. CASE i + 1 \in 0 .. n
      <4>1. i + 1 \in 1 .. n /\ i \in 0 .. n /\ (i + 1) - 1 = i BY <1>2, <3>1
      <4>. HIDE DEF Good
      <4>2. PICK j \in 1 .. n : j = i + 1 BY <4>1
      <4>3. j - 1 = i /\ Good(i) BY <2>2, <4>1, <4>2
      <4>4. Good(j) BY <1>12, <4>3
      <4>. QED BY <4>2, <4>4
    <3>2. CASE i + 1 \notin 0 .. n BY <3>2
    <3>. QED BY <3>1, <3>2
  <2>3. Nat \subseteq P
    <3>. HIDE DEF P
    <3>. QED BY <2>1, <2>2, SetInduction
  <2>. HIDE DEF Good
  <2>. QED BY <1>2, <2>3
<1>14. v(n) \in Windows
  <2>1. n \in 0 .. n BY <1>2
  <2>. QED BY <1>4, <2>1
<1>15. Deltas(u) = g[n] /\ g[n] \in Seq(Rows)
  <2>1. n \in 0 .. n BY <1>2
  <2>. QED BY <1>6, <1>10, <2>1
<1>. HIDE DEF v
<1>. QED BY <1>7, <1>13, <1>14, <1>15

-----------------------------------------------------------------------------
(* The rows of events. *)
Types  == {"none", "DATA", "SYNC_START", "SYNC_END", "DATA_LOST", "DISCONNECTED", "STREAM_EXIT"}
Events == [type : Types, rows : Seq(Rows)]

RowsMap == [e \in Events |-> e.rows]

(* RowsMap takes events to sequences of rows, *)
LEMMA RowsMaps == Maps(RowsMap, Events, Rows)
BY DEF Maps, RowsMap, Events

(* and RowsIn puts these together. *)
LEMMA RowsAreMapped ==
    ASSUME NEW q \in Seq(Events)
    PROVE  RowsIn(q) = FlatMap(RowsMap, q)
<1>1. \A i \in DOMAIN q : q[i] \in Events BY LenProperties, ElementOfSeq
<1>2. \A i \in DOMAIN q : RowsMap[q[i]] = q[i].rows BY <1>1 DEF RowsMap
<1>. QED BY <1>2 DEF RowsIn, FlatMap, Mapped

(* No events, no rows. *)
LEMMA RowsInEmpty == RowsIn(<<>>) = <<>>
<1>1. <<>> \in Seq(Events) BY EmptySeq
<1>. QED BY <1>1, RowsAreMapped, FlatMapEmpty

(* RowsIn returns rows. *)
LEMMA RowsInType ==
    ASSUME NEW q \in Seq(Events)
    PROVE  RowsIn(q) \in Seq(Rows)
BY RowsMaps, RowsAreMapped, FlatMapType

(* The rows of one event. *)
LEMMA RowsInOne ==
    ASSUME NEW e \in Events
    PROVE  RowsIn(<<e>>) = e.rows /\ e.rows \in Seq(Rows)
<1>1. <<e>> \in Seq(Events) OBVIOUS
<1>2. PICK q \in Seq(Events) : q = <<e>> BY <1>1
<1>3. FlatMap(RowsMap, q) = RowsMap[e] BY <1>2, RowsMaps, FlatMapOne
<1>. QED BY <1>2, <1>3, RowsAreMapped DEF RowsMap, Events

(* The rows of more events follow those of the first. *)
LEMMA RowsInConcat ==
    ASSUME NEW p \in Seq(Events), NEW q \in Seq(Events)
    PROVE  RowsIn(p \o q) = RowsIn(p) \o RowsIn(q)
<1>1. PICK all \in Seq(Events) : all = p \o q BY ConcatProperties
<1>2. FlatMap(RowsMap, p \o q) = FlatMap(RowsMap, p) \o FlatMap(RowsMap, q)
      BY RowsMaps, FlatMapConcat
<1>. QED BY <1>1, <1>2, RowsAreMapped

DataOf == {e \in Events : e.type = "DATA"}

(* Data is an event with its rows. *)
LEMMA DataType ==
    ASSUME NEW s \in Seq(Rows)
    PROVE  Data(s) \in DataOf /\ Data(s) \in Events /\ Data(s).rows = s /\ Data(s).type = "DATA"
<1>1. Data(s) \in Events BY DEF Data, Events, Types
<1>2. Data(s).rows = s /\ Data(s).type = "DATA" BY DEF Data
<1>. QED BY <1>1, <1>2 DEF DataOf

(* Any other event has none. *)
LEMMA OtherType ==
    ASSUME NEW t \in Types
    PROVE  Other(t) \in Events /\ Other(t).rows = <<>> /\ Other(t).type = t
<1>1. <<>> \in Seq(Rows) BY EmptySeq
<1>. QED BY <1>1 DEF Other, Events

(* Events, one for each row. *)
LEMMA OneEach ==
    ASSUME NEW s \in Seq(Rows)
    PROVE  LET q == [i \in DOMAIN s |-> Data(<<s[i]>>)]
           IN  q \in Seq(DataOf) /\ q \in Seq(Events) /\ RowsIn(q) = s
<1>. DEFINE Q(r) == [i \in DOMAIN r |-> Data(<<r[i]>>)]
            P == {r \in Seq(Rows) : Q(r) \in Seq(DataOf) /\ RowsIn(Q(r)) = r}
<1>0. ASSUME NEW r \in Seq(Rows)
      PROVE  /\ Q(r) \in Seq(DataOf) /\ Q(r) \in Seq(Events) /\ Len(Q(r)) = Len(r)
             /\ \A i \in 1 .. Len(r) : Q(r)[i] = Data(<<r[i]>>)
  <2>1. Len(r) \in Nat /\ DOMAIN r = 1 .. Len(r) /\ \A i \in 1 .. Len(r) : r[i] \in Rows
        BY LenProperties, ElementOfSeq
  <2>2. ASSUME NEW i \in 1 .. Len(r) PROVE Data(<<r[i]>>) \in DataOf
    <3>1. <<r[i]>> \in Seq(Rows) BY <2>1
    <3>. QED BY <3>1, DataType
  <2>3. PICK q : q = Q(r) OBVIOUS
  <2>4. q \in [1 .. Len(r) -> DataOf] BY <2>1, <2>2, <2>3
  <2>5. DOMAIN q = 1 .. Len(r) /\ \A i \in 1 .. Len(r) : q[i] = Data(<<r[i]>>) BY <2>1, <2>3
  <2>6. q \in Seq(DataOf) BY <2>1, <2>4, SeqDef
  <2>7. Len(q) = Len(r) BY <2>1, <2>5, <2>6, LenProperties
  <2>8. q \in [1 .. Len(r) -> Events] BY <2>4 DEF DataOf
  <2>9. q \in Seq(Events) BY <2>1, <2>8, SeqDef
  <2>. QED BY <2>3, <2>5, <2>6, <2>7, <2>9
<1>1. <<>> \in P
  <2>1. <<>> \in Seq(Rows) /\ Len(<<>>) = 0 BY EmptySeq
  <2>2. PICK e \in Seq(Rows) : e = <<>> BY <2>1
  <2>3. Q(e) \in Seq(DataOf) /\ Len(Q(e)) = 0 BY <1>0, <2>1, <2>2
  <2>. HIDE DEF Q
  <2>4. Q(e) = <<>> BY <2>3, EmptySeq
  <2>. QED BY <2>2, <2>3, <2>4, RowsInEmpty
<1>2. ASSUME NEW r \in Seq(Rows), NEW x \in Rows, r \in P PROVE Append(r, x) \in P
  <2>1. /\ Append(r, x) \in Seq(Rows) /\ Len(Append(r, x)) = Len(r) + 1 /\ Len(r) \in Nat
        /\ \A i \in 1 .. Len(r) : Append(r, x)[i] = r[i]
        /\ Append(r, x)[Len(r) + 1] = x
        BY AppendProperties, LenProperties
  <2>2. <<x>> \in Seq(Rows) OBVIOUS
  <2>3. PICK e \in Events : e = Data(<<x>>) /\ e.rows = <<x>> BY <2>2, DataType
  <2>4. PICK a \in Seq(Events), b \in Seq(Events) : a = Q(Append(r, x)) /\ b = Q(r)
        BY <1>0, <2>1
  <2>5. /\ Len(a) = Len(r) + 1 /\ Len(b) = Len(r)
        /\ \A i \in 1 .. Len(r) + 1 : a[i] = Data(<<Append(r, x)[i]>>)
        /\ \A i \in 1 .. Len(r) : b[i] = Data(<<r[i]>>)
        BY <1>0, <2>1, <2>4
  <2>6. a \in Seq(DataOf) BY <1>0, <2>1, <2>4
  <2>7. RowsIn(b) = r BY <1>2, <2>4
  <2>. HIDE DEF Q, P
  <2>8. /\ Append(b, e) \in Seq(Events) /\ Len(Append(b, e)) = Len(r) + 1
        /\ \A i \in 1 .. Len(r) : Append(b, e)[i] = b[i]
        /\ Append(b, e)[Len(r) + 1] = e
        BY <2>5, AppendProperties
  <2>9. ASSUME NEW i \in 1 .. Len(r) + 1 PROVE a[i] = Append(b, e)[i]
    <3>1. CASE i \in 1 .. Len(r) BY <2>1, <2>5, <2>8, <3>1
    <3>2. CASE i = Len(r) + 1 BY <2>1, <2>3, <2>5, <2>8, <3>2
    <3>3. Len(r) \in Nat BY <2>1
    <3>4. i \in 1 .. Len(r) \/ i = Len(r) + 1 BY ONLY <3>3, i \in 1 .. Len(r) + 1
    <3>. QED BY <3>1, <3>2, <3>4
  <2>10. a = Append(b, e) BY <2>5, <2>8, <2>9, SeqEqual
  <2>11. <<e>> \in Seq(Events) OBVIOUS
  <2>12. PICK y \in Seq(Events) : y = <<e>> BY <2>11
  <2>13. RowsIn(b \o y) = RowsIn(b) \o RowsIn(y) BY RowsInConcat
  <2>14. RowsIn(y) = <<x>> BY <2>3, <2>12, RowsInOne
  <2>15. a = b \o y BY <2>10, <2>12, AppendIsConcat
  <2>16. RowsIn(a) = Append(r, x) BY <2>7, <2>13, <2>14, <2>15, AppendIsConcat
  <2>. QED BY <2>1, <2>4, <2>6, <2>16 DEF P
<1>3. Seq(Rows) \subseteq P
  <2>. HIDE DEF P
  <2>. QED BY <1>1, <1>2, SeqInduction
<1>. QED BY <1>0, <1>3

(* However they are packed, the events of a message carry its rows. *)
LEMMA DataEventsFacts ==
    ASSUME NEW ds \in Seq(Rows)
    PROVE  /\ DataEvents(ds) \in Seq(DataOf) /\ DataEvents(ds) \in Seq(Events)
           /\ RowsIn(DataEvents(ds)) = ds
           /\ Has_Flag("PRESERVE_BLOCKS") =>
                 DataEvents(ds) = <<>> \/ \E e \in DataOf : DataEvents(ds) = <<e>>
<1>1. CASE ds = <<>>
  <2>1. DataEvents(ds) = <<>> BY <1>1 DEF DataEvents
  <2>. QED BY <1>1, <2>1, RowsInEmpty, EmptySeq
<1>2. CASE ds # <<>> /\ Has_Flag("PRESERVE_BLOCKS")
  <2>1. PICK e \in DataOf : e = Data(ds) /\ e \in Events /\ e.rows = ds BY DataType
  <2>2. DataEvents(ds) = <<e>> BY <1>2, <2>1 DEF DataEvents
  <2>3. <<e>> \in Seq(DataOf) /\ <<e>> \in Seq(Events) BY <2>1
  <2>. QED BY <2>1, <2>2, <2>3, RowsInOne
<1>3. CASE ds # <<>> /\ ~Has_Flag("PRESERVE_BLOCKS")
  <2>1. DataEvents(ds) = [i \in DOMAIN ds |-> Data(<<ds[i]>>)] BY <1>3 DEF DataEvents
  <2>. QED BY <1>3, <2>1, OneEach
<1>. QED BY <1>1, <1>2, <1>3

-----------------------------------------------------------------------------
(***************************************************************************)
(* Base data, pulses and queues.                                           *)
(***************************************************************************)
(* A finite set as a sequence. *)
LEMMA SetToSeqFacts ==
    ASSUME NEW S, IsFiniteSet(S)
    PROVE  /\ SetToSeq(S) \in Seq(S)
           /\ \A x \in S : \E i \in DOMAIN SetToSeq(S) : SetToSeq(S)[i] = x
<1>. DEFINE n == Cardinality(S)
<1>1. n \in Nat /\ ExistsBijection(1 .. n, S) BY FS_CardinalityType
<1>2. \E f \in [1 .. n -> S] : IsInjective(f)
      BY <1>1 DEF ExistsBijection, Bijection, Injection
<1>3. SetToSeq(S) \in [1 .. n -> S] /\ IsInjective(SetToSeq(S)) BY <1>2 DEF SetToSeq
<1>4. PICK f \in [1 .. n -> S] : f = SetToSeq(S) /\ IsInjective(f) BY <1>3
<1>5. f \in Injection(1 .. n, S) BY <1>4 DEF Injection
<1>6. Cardinality(1 .. n) = n /\ IsFiniteSet(1 .. n) BY <1>1, FS_Interval
<1>7. f \in Surjection(1 .. n, S)
  <2>. HIDE DEF n
  <2>1. Cardinality(1 .. n) = Cardinality(S) BY <1>6 DEF n
  <2>. QED BY <1>5, <2>1, FS_Injection
<1>8. DOMAIN f = 1 .. n BY <1>4
<1>9. \A x \in S : \E i \in DOMAIN f : f[i] = x BY <1>7, <1>8 DEF Surjection
<1>10. f \in Seq(S) BY <1>1, <1>4, SeqDef
<1>. QED BY <1>4, <1>9, <1>10

(* The rows that tell the state of some keys. *)
LEMMA LatestRows ==
    ASSUME NEW K \in SUBSET Keys, IsFiniteSet(K), NEW w \in Windows,
           NEW F, \A k \in K : F[k] \in Rows /\ Key(F[k]) = k /\ Latest(w, F[k]),
           NEW s, s = [i \in DOMAIN SetToSeq(K) |-> F[SetToSeq(K)[i]]]
    PROVE  s \in Seq(Rows) /\ KeysOf(s) = K /\ \A i \in DOMAIN s : Latest(w, s[i])
<1>1. PICK ks \in Seq(K) : ks = SetToSeq(K) /\ \A k \in K : \E i \in DOMAIN ks : ks[i] = k
      BY SetToSeqFacts
<1>2. Len(ks) \in Nat /\ DOMAIN ks = 1 .. Len(ks) /\ \A i \in 1 .. Len(ks) : ks[i] \in K
      BY LenProperties, ElementOfSeq
<1>3. DOMAIN s = 1 .. Len(ks) /\ \A i \in 1 .. Len(ks) : s[i] = F[ks[i]] BY <1>1, <1>2
<1>4. ASSUME NEW i \in 1 .. Len(ks)
      PROVE  s[i] \in Rows /\ Key(s[i]) = ks[i] /\ Latest(w, s[i])
      BY <1>2, <1>3
<1>5. s \in [1 .. Len(ks) -> Rows] BY <1>1, <1>2, <1>3, <1>4
<1>6. s \in Seq(Rows) BY <1>2, <1>5, SeqDef
<1>7. KeysOf(s) = {ks[i] : i \in DOMAIN ks} BY <1>2, <1>3, <1>4 DEF KeysOf
<1>8. {ks[i] : i \in DOMAIN ks} = K BY <1>1, <1>2
<1>. QED BY <1>3, <1>4, <1>6, <1>7, <1>8

(* A pulse tells the state of the keys that have changed. *)
LEMMA ConsolidatedFacts ==
    ASSUME window \in Windows, NEW K \in SUBSET Keys, IsFiniteSet(K)
    PROVE  /\ Consolidated(K) \in Seq(Rows) /\ KeysOf(Consolidated(K)) = K
           /\ \A i \in DOMAIN Consolidated(K) : Latest(window, Consolidated(K)[i])
<1>. DEFINE F == [k \in K |-> State(k)]
<1>1. ASSUME NEW k \in K
      PROVE  State(k) \in Rows /\ Key(State(k)) = k /\ Latest(window, State(k))
  <2>1. CASE k \in DOMAIN window
    <3>1. PICK c \in Cells : c = window[k] /\ c[1] = k BY <2>1, WindowFacts
    <3>2. State(k) = [op |-> "UPSERT", cells |-> c] BY <2>1, <3>1 DEF State
    <3>3. c \in [1 .. NumColumns -> Keys \cup Values \cup {Null, Shine}]
      <4>1. Keys \cup Values \cup {Null} \subseteq Keys \cup Values \cup {Null, Shine} OBVIOUS
      <4>. QED BY <4>1 DEF Cells
    <3>4. c \in Seq(Keys \cup Values \cup {Null, Shine}) /\ Len(c) = NumColumns /\ c # <<>>
          BY <3>3, CellsAreSeq
    <3>5. "UPSERT" \in Ops /\ "UPSERT" \notin Removing BY DEF Ops, Removing
    <3>6. [op |-> "UPSERT", cells |-> c] \in Rows BY <3>1, <3>4, <3>5, IsRow
    <3>7. State(k).op = "UPSERT" /\ State(k).cells = c BY <3>2
    <3>8. Key(State(k)) = k BY <3>1, <3>7 DEF Key
    <3>. QED BY <2>1, <3>1, <3>2, <3>5, <3>6, <3>7, <3>8 DEF Latest
  <2>2. CASE k \notin DOMAIN window
    <3>1. PICK c : c = <<k>> OBVIOUS
    <3>2. State(k) = [op |-> "SAFEDELETE", cells |-> c] BY <2>2, <3>1 DEF State
    <3>3. c \in Seq(Keys \cup Values \cup {Null, Shine}) /\ c[1] = k /\ c # <<>>
      <4>1. k \in Keys \cup Values \cup {Null, Shine} OBVIOUS
      <4>2. <<k>> \in Seq(Keys \cup Values \cup {Null, Shine}) BY <4>1
      <4>3. Len(<<k>>) = 1 /\ <<k>>[1] = k OBVIOUS
      <4>. QED BY <3>1, <4>2, <4>3, EmptySeq
    <3>5. "SAFEDELETE" \in Ops /\ "SAFEDELETE" \in Removing BY DEF Ops, Removing
    <3>6. [op |-> "SAFEDELETE", cells |-> c] \in Rows BY <3>3, <3>5, IsRow
    <3>7. State(k).op = "SAFEDELETE" /\ State(k).cells = c BY <3>2
    <3>8. Key(State(k)) = k BY <3>3, <3>7 DEF Key
    <3>. QED BY <2>2, <3>2, <3>5, <3>6, <3>7, <3>8 DEF Latest
  <2>. QED BY <2>1, <2>2
<1>2. \A k \in K : F[k] = State(k) OBVIOUS
<1>3. \A i \in DOMAIN SetToSeq(K) : SetToSeq(K)[i] \in K
      BY SetToSeqFacts, LenProperties, ElementOfSeq
<1>. HIDE DEF F
<1>4. Consolidated(K) = [i \in DOMAIN SetToSeq(K) |-> F[SetToSeq(K)[i]]]
      BY <1>2, <1>3 DEF Consolidated
<1>5. \A k \in K : F[k] \in Rows /\ Key(F[k]) = k /\ Latest(window, F[k]) BY <1>1, <1>2
<1>. QED BY <1>4, <1>5, LatestRows

(* The base data. *)
Base == LET ks == SetToSeq(DOMAIN window)
        IN  [i \in DOMAIN ks |-> [op |-> "INSERT", cells |-> window[ks[i]]]]

(* The base data tells the state of all keys of the window. *)
LEMMA BaseFacts ==
    ASSUME window \in Windows
    PROVE  /\ Base \in Seq(Rows) /\ KeysOf(Base) = DOMAIN window
           /\ \A i \in DOMAIN Base : Latest(window, Base[i])
<1>. DEFINE K == DOMAIN window
            F == [k \in K |-> [op |-> "INSERT", cells |-> window[k]]]
<1>0. K \in SUBSET Keys /\ IsFiniteSet(K) BY WindowFacts
<1>1. ASSUME NEW k \in K
      PROVE  F[k] \in Rows /\ Key(F[k]) = k /\ Latest(window, F[k])
  <2>1. PICK c \in Cells : c = window[k] /\ c[1] = k BY WindowFacts
  <2>2. F[k] = [op |-> "INSERT", cells |-> c] BY <2>1
  <2>3. c \in [1 .. NumColumns -> Keys \cup Values \cup {Null, Shine}]
    <3>1. Keys \cup Values \cup {Null} \subseteq Keys \cup Values \cup {Null, Shine} OBVIOUS
    <3>. QED BY <3>1 DEF Cells
  <2>4. c \in Seq(Keys \cup Values \cup {Null, Shine}) /\ Len(c) = NumColumns /\ c # <<>>
        BY <2>3, CellsAreSeq
  <2>5. "INSERT" \in Ops /\ "INSERT" \notin Removing BY DEF Ops, Removing
  <2>6. c[1] \in Keys BY <1>0, <2>1
  <2>. HIDE DEF F
  <2>7. [op |-> "INSERT", cells |-> c] \in Rows BY <2>4, <2>5, <2>6, IsRow
  <2>8. F[k].op = "INSERT" /\ F[k].cells = c BY <2>2
  <2>9. Key(F[k]) = k BY <2>1, <2>8 DEF Key
  <2>. QED BY <2>1, <2>2, <2>5, <2>7, <2>8, <2>9 DEF Latest
<1>3. \A i \in DOMAIN SetToSeq(K) : SetToSeq(K)[i] \in K
  <2>. HIDE DEF K
  <2>. QED BY <1>0, SetToSeqFacts, LenProperties, ElementOfSeq
<1>4. Base = [i \in DOMAIN SetToSeq(K) |-> F[SetToSeq(K)[i]]] BY <1>3 DEF Base
<1>. HIDE DEF K, F
<1>5. \A k \in K : F[k] \in Rows /\ Key(F[k]) = k /\ Latest(window, F[k]) BY <1>1
<1>6. Base \in Seq(Rows) /\ KeysOf(Base) = K /\ \A i \in DOMAIN Base : Latest(window, Base[i])
      BY <1>0, <1>4, <1>5, LatestRows
<1>. QED BY <1>6 DEF K

-----------------------------------------------------------------------------
(* What a queue contains. *)
LEMMA ContainsConcat ==
    ASSUME NEW S, NEW p \in Seq(S), NEW q \in Seq(S), NEW e
    PROVE  Contains(p \o q, e) <=> Contains(p, e) \/ Contains(q, e)
<1>1. /\ p \o q \in Seq(S) /\ Len(p \o q) = Len(p) + Len(q)
      /\ Len(p) \in Nat /\ Len(q) \in Nat
      /\ \A i \in 1 .. Len(p) + Len(q) :
            (p \o q)[i] = IF i <= Len(p) THEN p[i] ELSE q[i - Len(p)]
      BY ConcatProperties, LenProperties
<1>2. ASSUME Contains(p \o q, e) PROVE Contains(p, e) \/ Contains(q, e)
  <2>1. PICK i \in 1 .. Len(p) + Len(q) : (p \o q)[i] = e BY <1>1, <1>2 DEF Contains
  <2>2. CASE i <= Len(p)
    <3>1. i \in 1 .. Len(p) /\ p[i] = e BY <1>1, <2>1, <2>2
    <3>. QED BY <3>1 DEF Contains
  <2>3. CASE ~(i <= Len(p))
    <3>1. i - Len(p) \in 1 .. Len(q) /\ q[i - Len(p)] = e BY <1>1, <2>1, <2>3
    <3>. QED BY <3>1 DEF Contains
  <2>. QED BY <2>2, <2>3
<1>3. ASSUME Contains(p, e) PROVE Contains(p \o q, e)
  <2>1. PICK i \in 1 .. Len(p) : p[i] = e BY <1>3 DEF Contains
  <2>2. i \in 1 .. Len(p \o q) /\ i \in 1 .. Len(p) + Len(q) /\ i <= Len(p) BY <1>1
  <2>3. (p \o q)[i] = e BY <1>1, <2>1, <2>2
  <2>. QED BY <2>2, <2>3 DEF Contains
<1>4. ASSUME Contains(q, e) PROVE Contains(p \o q, e)
  <2>1. PICK i \in 1 .. Len(q) : q[i] = e BY <1>4 DEF Contains
  <2>2. PICK j \in 1 .. Len(p) + Len(q) : j = Len(p) + i BY <1>1
  <2>3. ~(j <= Len(p)) /\ j - Len(p) = i /\ j \in 1 .. Len(p \o q) BY <1>1, <2>2
  <2>4. (p \o q)[j] = e BY <1>1, <2>1, <2>3
  <2>. QED BY <2>3, <2>4 DEF Contains
<1>. QED BY <1>2, <1>3, <1>4

(* A queue of one event. *)
LEMMA ContainsOne == ASSUME NEW x, NEW e PROVE Contains(<<x>>, e) <=> x = e
<1>1. Len(<<x>>) = 1 /\ <<x>>[1] = x OBVIOUS
<1>. QED BY <1>1 DEF Contains

(* A queue without events. *)
LEMMA ContainsEmpty == ASSUME NEW e PROVE ~Contains(<<>>, e)
BY DEF Contains

(* A queue of data contains nothing else. *)
LEMMA DataContains ==
    ASSUME NEW q \in Seq(DataOf), NEW t, t # "DATA"
    PROVE  ~Contains(q, Other(t))
<1>1. \A i \in 1 .. Len(q) : q[i].type = "DATA" BY ElementOfSeq DEF DataOf
<1>2. Other(t).type = t BY DEF Other
<1>. QED BY <1>1, <1>2 DEF Contains

-----------------------------------------------------------------------------
(* Data that gives way. *)
Lost == Other("DATA_LOST")

ShedsFrom(q, d, a, m, z) ==
    /\ q = a \o (m \o z)
    /\ d = a \o (<<Lost>> \o z)
    /\ ~Contains(m, Other("SYNC_END")) /\ ~Contains(z, Other("SYNC_END"))

(* The positions of the live data of a queue. *)
LEMMA LiveFacts ==
    ASSUME NEW q \in Seq(Events)
    PROVE  /\ Live(q) \in SUBSET Nat /\ Live(q) \subseteq 1 .. Len(q) /\ IsFiniteSet(Live(q))
           /\ Cardinality(Live(q)) \in Nat
           /\ \A i \in Live(q) : \A j \in 1 .. Len(q) : j >= i => q[j].type # "SYNC_END"
<1>1. Len(q) \in Nat /\ DOMAIN q = 1 .. Len(q) BY LenProperties
<1>2. Live(q) \subseteq 1 .. Len(q) BY <1>1 DEF Live
<1>3. IsFiniteSet(1 .. Len(q)) BY <1>1, FS_Interval
<1>4. IsFiniteSet(Live(q)) BY <1>2, <1>3, FS_Subset
<1>5. ASSUME NEW i \in Live(q), NEW j \in 1 .. Len(q), j >= i, q[j].type = "SYNC_END"
      PROVE  FALSE
  <2>1. j < i BY <1>1, <1>5 DEF Live
  <2>2. i \in Nat BY <1>2
  <2>. QED BY <1>5, <2>1, <2>2
<1>. QED BY <1>1, <1>2, <1>4, <1>5, FS_CardinalityType

Joined(s, t, u) == (s \o t) \o u = s \o (t \o u)

(* Concatenation of queues is associative. *)
LEMMA EventsJoined == \A s, t, u \in Seq(Events) : Joined(s, t, u)
BY ConcatAssociative DEF Joined

(* What Shed leaves: a beginning, the warning and an end. *)
LEMMA ShedFacts ==
    ASSUME NEW q \in Seq(Events), NEW n \in 1 .. Cardinality(Live(q))
    PROVE  \E a \in Seq(Events), m \in Seq(Events), z \in Seq(Events) :
              ShedsFrom(q, Shed(q, n), a, m, z)
<1>. DEFINE upTo(i) == {j \in Live(q) : j <= i}
            nth(k) == CHOOSE i \in Live(q) : Cardinality(upTo(i)) = k
            l == Len(q)
<1>1. /\ Live(q) \in SUBSET Nat /\ Live(q) \subseteq 1 .. l /\ IsFiniteSet(Live(q))
      /\ Cardinality(Live(q)) \in Nat /\ l \in Nat
      /\ \A i \in Live(q) : \A j \in 1 .. l : j >= i => q[j].type # "SYNC_END"
      BY LiveFacts, LenProperties
<1>2. \A k \in 1 .. Cardinality(Live(q)) : nth(k) \in Live(q) /\ Cardinality(upTo(nth(k))) = k
  <2>1. ASSUME NEW k \in 1 .. Cardinality(Live(q))
        PROVE  \E i \in Live(q) : Cardinality(upTo(i)) = k
        BY <1>1, Ranks
  <2>. HIDE DEF upTo
  <2>. QED BY <2>1
<1>3. 1 \in 1 .. Cardinality(Live(q)) /\ n \in Nat /\ n >= 1 BY <1>1
<1>4. PICK i \in Live(q), j \in Live(q) :
         i = nth(1) /\ j = nth(n) /\ Cardinality(upTo(i)) = 1 /\ Cardinality(upTo(j)) = n
  <2>. HIDE DEF upTo, nth
  <2>. QED BY <1>2, <1>3
<1>5. i \in 1 .. l /\ j \in 1 .. l BY <1>1
<1>6. i <= j
  <2>1. SUFFICES ASSUME j < i PROVE FALSE BY <1>5
  <2>2. upTo(j) \in SUBSET upTo(i) /\ i \in upTo(i) /\ i \notin upTo(j) BY <1>1, <1>5, <2>1
  <2>3. IsFiniteSet(upTo(i))
    <3>1. upTo(i) \in SUBSET Live(q) OBVIOUS
    <3>. QED BY <1>1, <3>1, FS_Subset
  <2>. HIDE DEF upTo
  <2>4. Cardinality(upTo(j)) <= Cardinality(upTo(i))
        /\ (Cardinality(upTo(i)) = Cardinality(upTo(j)) => upTo(i) = upTo(j))
        BY <2>2, <2>3, FS_Subset
  <2>5. n = 1 BY <1>3, <1>4, <2>4
  <2>. QED BY <1>4, <2>2, <2>4, <2>5
<1>. DEFINE before == SubSeq(q, 1, i - 1)
            mid == SubSeq(q, i, j)
            rest == SubSeq(q, j + 1, l)
<1>7. Shed(q, n) = IF before # <<>> /\ Last(before) = Lost THEN before \o rest
                   ELSE Append(before, Lost) \o rest
      BY <1>4 DEF Shed, Lost
<1>. HIDE DEF upTo, nth
<1>8. \A k \in 1 .. l : q[k] \in Events BY ElementOfSeq
<1>9. /\ before \in Seq(Events) /\ mid \in Seq(Events) /\ rest \in Seq(Events)
      /\ Len(mid) = j - i + 1 /\ Len(rest) = l - j
      /\ \A k \in 1 .. j - i + 1 : mid[k] = q[i + k - 1]
      /\ \A k \in 1 .. l - j : rest[k] = q[j + k]
  <2>1. before \in Seq(Events)
    <3>1. 1 \in Int /\ i - 1 \in Int /\ \A k \in 1 .. i - 1 : q[k] \in Events BY <1>5, <1>8
    <3>. QED BY <3>1, SubSeqProperties
  <2>2. mid \in Seq(Events) /\ Len(mid) = j - i + 1
        /\ \A k \in 1 .. j - i + 1 : mid[k] = q[i + k - 1]
    <3>1. i \in Int /\ j \in Int /\ \A k \in i .. j : q[k] \in Events BY <1>5, <1>8
    <3>. QED BY <1>6, <3>1, SubSeqProperties
  <2>3. rest \in Seq(Events) /\ Len(rest) = (IF j + 1 <= l THEN l - (j + 1) + 1 ELSE 0)
        /\ \A k \in 1 .. l - (j + 1) + 1 : rest[k] = q[(j + 1) + k - 1]
    <3>1. PICK a \in Int, b \in Int : a = j + 1 /\ b = l BY <1>1, <1>5
    <3>2. \A k \in a .. b : q[k] \in Events BY <1>1, <1>5, <1>8, <3>1
    <3>3. /\ SubSeq(q, a, b) \in Seq(Events)
          /\ Len(SubSeq(q, a, b)) = (IF a <= b THEN b - a + 1 ELSE 0)
          /\ \A k \in 1 .. b - a + 1 : SubSeq(q, a, b)[k] = q[a + k - 1]
          BY <3>2, SubSeqProperties
    <3>. QED BY <3>1, <3>3
  <2>. HIDE DEF l, rest, mid, before
  <2>4. l - (j + 1) + 1 = l - j /\ (IF j + 1 <= l THEN l - (j + 1) + 1 ELSE 0) = l - j
        BY <1>1, <1>5
  <2>5. ASSUME NEW k \in 1 .. l - j PROVE rest[k] = q[j + k]
    <3>1. k \in 1 .. l - (j + 1) + 1 /\ (j + 1) + k - 1 = j + k BY <1>1, <1>5
    <3>. QED BY <2>3, <3>1
  <2>. QED BY <2>1, <2>2, <2>3, <2>4, <2>5
<1>10. q = before \o (mid \o rest)
  <2>1. mid \o rest = SubSeq(q, i, l)
    <3>1. i \in 1 .. Len(q) + 1 /\ j \in i - 1 .. Len(q) /\ Len(q) \in j .. Len(q)
          BY <1>1, <1>5, <1>6
    <3>. QED BY <3>1, ConcatAdjacentSubSeq
  <2>2. before \o SubSeq(q, i, l) = SubSeq(q, 1, l)
    <3>1. 1 \in 1 .. Len(q) + 1 /\ i - 1 \in 1 - 1 .. Len(q) /\ Len(q) \in i - 1 .. Len(q)
          /\ (i - 1) + 1 = i
          BY <1>1, <1>5
    <3>2. SubSeq(q, 1, i - 1) \o SubSeq(q, (i - 1) + 1, l) = SubSeq(q, 1, l)
          BY <3>1, ConcatAdjacentSubSeq
    <3>. QED BY <3>1, <3>2
  <2>3. SubSeq(q, 1, l) = q BY SubSeqFull
  <2>. QED BY <2>1, <2>2, <2>3
<1>11. ~Contains(mid, Other("SYNC_END")) /\ ~Contains(rest, Other("SYNC_END"))
  <2>0. Other("SYNC_END").type = "SYNC_END" BY DEF Other
  <2>1. ASSUME NEW k \in 1 .. j - i + 1 PROVE mid[k].type # "SYNC_END"
    <3>1. i + k - 1 \in 1 .. l /\ i + k - 1 >= i BY <1>1, <1>5
    <3>. QED BY <1>1, <1>9, <3>1
  <2>2. ASSUME NEW k \in 1 .. l - j PROVE rest[k].type # "SYNC_END"
    <3>1. j + k \in 1 .. l /\ j + k >= i BY <1>1, <1>5, <1>6
    <3>. QED BY <1>1, <1>9, <3>1
  <2>. HIDE DEF mid, rest, l
  <2>. QED BY <1>9, <2>0, <2>1, <2>2 DEF Contains
<1>12. Lost \in Events /\ Lost # Other("SYNC_END") BY OtherType DEF Lost, Types, Other
<1>. HIDE DEF before, mid, rest
<1>13. CASE before # <<>> /\ Last(before) = Lost
  <2>1. PICK a \in Seq(Events), e \in Events : before = Append(a, e)
        BY <1>9, <1>13, SequenceEmptyOrAppend
  <2>2. e = Lost
    <3>1. Len(before) = Len(a) + 1 /\ before[Len(a) + 1] = e BY <2>1, AppendProperties
    <3>. QED BY <1>13, <3>1 DEF Last
  <2>3. PICK x \in Seq(Events) : x = <<Lost>>
    <3>1. <<Lost>> \in Seq(Events) BY <1>12
    <3>. QED BY <3>1
  <2>4. before = a \o x BY <2>1, <2>2, <2>3, AppendIsConcat
  <2>5. PICK y \in Seq(Events) : y = mid \o rest BY <1>9, ConcatProperties
  <2>6. (a \o x) \o y = a \o (x \o y)
    <3>1. Joined(a, x, y) BY ONLY a \in Seq(Events), x \in Seq(Events), y \in Seq(Events), EventsJoined
    <3>. QED BY ONLY <3>1 DEF Joined
  <2>7. x \o (mid \o rest) = (x \o mid) \o rest
    <3>1. PICK u \in Seq(Events), v \in Seq(Events) : u = mid /\ v = rest BY <1>9
    <3>2. Joined(x, u, v) BY ONLY x \in Seq(Events), u \in Seq(Events), v \in Seq(Events), EventsJoined
    <3>3. (x \o u) \o v = x \o (u \o v) BY ONLY <3>2 DEF Joined
    <3>. QED BY <3>1, <3>3
  <2>8. (a \o x) \o rest = a \o (x \o rest)
    <3>1. PICK v \in Seq(Events) : v = rest BY <1>9
    <3>2. Joined(a, x, v) BY ONLY a \in Seq(Events), x \in Seq(Events), v \in Seq(Events), EventsJoined
    <3>3. (a \o x) \o v = a \o (x \o v) BY ONLY <3>2 DEF Joined
    <3>. QED BY <3>1, <3>3
  <2>9. PICK m \in Seq(Events) : m = x \o mid BY <1>9, ConcatProperties
  <2>10. ~Contains(m, Other("SYNC_END"))
    <3>1. ~Contains(x, Other("SYNC_END")) BY <1>12, <2>3, ContainsOne
    <3>. QED BY <1>9, <1>11, <2>9, <3>1, ContainsConcat
  <2>11. q = a \o (m \o rest) BY <1>10, <2>4, <2>5, <2>6, <2>7, <2>9
  <2>12. Shed(q, n) = a \o (x \o rest) BY <1>7, <1>13, <2>4, <2>8
  <2>13. ShedsFrom(q, Shed(q, n), a, m, rest)
         BY <1>11, <2>3, <2>10, <2>11, <2>12 DEF ShedsFrom
  <2>. QED BY <1>9, <2>13
<1>14. CASE ~(before # <<>> /\ Last(before) = Lost)
  <2>3. PICK x \in Seq(Events) : x = <<Lost>>
    <3>1. <<Lost>> \in Seq(Events) BY <1>12
    <3>. QED BY <3>1
  <2>4. Append(before, Lost) = before \o x BY <1>9, <1>12, <2>3, AppendIsConcat
  <2>5. (before \o x) \o rest = before \o (x \o rest)
    <3>1. PICK u \in Seq(Events), v \in Seq(Events) : u = before /\ v = rest BY <1>9
    <3>2. Joined(u, x, v) BY ONLY u \in Seq(Events), x \in Seq(Events), v \in Seq(Events), EventsJoined
    <3>3. (u \o x) \o v = u \o (x \o v) BY ONLY <3>2 DEF Joined
    <3>. QED BY <3>1, <3>3
  <2>6. ShedsFrom(q, Shed(q, n), before, mid, rest)
        BY <1>7, <1>10, <1>11, <1>14, <2>3, <2>4, <2>5 DEF ShedsFrom
  <2>. QED BY <1>9, <2>6
<1>. QED BY <1>13, <1>14

-----------------------------------------------------------------------------
(***************************************************************************)
(* Queues that tell of whole blocks.                                       *)
(***************************************************************************)
(* What comes first can be cancelled. *)
LEMMA EventsCancel == \A s, t, u \in Seq(Events) : s \o t = s \o u => t = u
<1>1. \A S : \A s, t, u \in Seq(S) : s \o t = s \o u => t = u BY ConcatSimplifications
<1>. QED BY <1>1

Split(a, e, z, p, r)      == a \o (<<e>> \o z) = p \o r
SplitBy(x, a, e, z, p, r) == a = p \o x /\ r = x \o (<<e>> \o z)

(* The same sequence, divided in two ways: L is not in the first part p.    *)
LEMMA QueueSplit ==
    ASSUME NEW a \in Seq(Events), NEW L \in Events, NEW z \in Seq(Events),
           NEW p \in Seq(Events), NEW r \in Seq(Events),
           Split(a, L, z, p, r), ~Contains(p, L)
    PROVE  \E x \in Seq(Events) : SplitBy(x, a, L, z, p, r)
<1>1. <<L>> \in Seq(Events) /\ Len(<<L>>) = 1 /\ <<L>>[1] = L OBVIOUS
<1>2. PICK o \in Seq(Events) : o = <<L>> /\ Len(o) = 1 /\ o[1] = L BY <1>1
<1>3. PICK y \in Seq(Events) : y = o \o z /\ Len(y) = 1 + Len(z) /\ y[1] = L
  <2>1. /\ o \o z \in Seq(Events) /\ Len(o \o z) = Len(o) + Len(z)
        /\ \A i \in 1 .. Len(o) + Len(z) :
              (o \o z)[i] = IF i <= Len(o) THEN o[i] ELSE z[i - Len(o)]
        BY ConcatProperties
  <2>2. 1 \in 1 .. Len(o) + Len(z) /\ 1 <= Len(o)
    <3>1. Len(z) \in Nat BY LenProperties
    <3>. QED BY <1>2, <3>1
  <2>. QED BY <1>2, <2>1, <2>2
<1>4. PICK k \in Nat, l \in Nat, m \in Nat :
         k = Len(a) /\ l = Len(p) /\ m = Len(r) /\ Len(z) \in Nat
      BY LenProperties
<1>5a. PICK d \in Seq(Events) : d = a \o y /\ d = p \o r
  <2>1. a \o y = p \o r BY <1>2, <1>3 DEF Split
  <2>. QED BY <2>1, ConcatProperties
<1>5. /\ Len(d) = k + Len(y) /\ Len(d) = l + m
      /\ \A i \in 1 .. k + Len(y) : d[i] = IF i <= k THEN a[i] ELSE y[i - k]
      /\ \A i \in 1 .. l + m : d[i] = IF i <= l THEN p[i] ELSE r[i - l]
  <2>1. /\ Len(a \o y) = Len(a) + Len(y)
        /\ \A i \in 1 .. Len(a) + Len(y) :
              (a \o y)[i] = IF i <= Len(a) THEN a[i] ELSE y[i - Len(a)]
        BY ConcatProperties
  <2>2. /\ Len(p \o r) = Len(p) + Len(r)
        /\ \A i \in 1 .. Len(p) + Len(r) :
              (p \o r)[i] = IF i <= Len(p) THEN p[i] ELSE r[i - Len(p)]
        BY ConcatProperties
  <2>. QED BY ONLY <1>4, <1>5a, <2>1, <2>2
<1>6. l <= k
  <2>1. SUFFICES ASSUME ~(l <= k) PROVE FALSE OBVIOUS
  <2>0. k + 1 \in 1 .. l BY <2>1
  <2>2. PICK i \in 1 .. l : i = k + 1 BY <2>0
  <2>3. i \in 1 .. k + Len(y) /\ ~(i <= k) /\ i - k = 1 /\ i \in 1 .. l + m /\ i <= l
        BY <1>3, <1>4, <2>2
  <2>4. d[i] = L /\ d[i] = p[i] BY <1>3, <1>5, <2>3
  <2>. QED BY <1>4, <2>2, <2>4 DEF Contains
<1>7. PICK x \in Seq(Events) : a = p \o x
  <2>1. 1 \in 1 .. Len(a) + 1 /\ l \in 1 - 1 .. Len(a) /\ Len(a) \in l .. Len(a)
        BY <1>4, <1>6
  <2>2. SubSeq(a, 1, l) \o SubSeq(a, l + 1, Len(a)) = SubSeq(a, 1, Len(a))
        BY <2>1, ConcatAdjacentSubSeq
  <2>3. SubSeq(a, 1, Len(a)) = a BY SubSeqFull
  <2>4. \A i \in 1 .. k : a[i] \in Events BY <1>4, ElementOfSeq
  <2>5. SubSeq(a, l + 1, Len(a)) \in Seq(Events)
    <3>0. l + 1 \in Int /\ k \in Int OBVIOUS
    <3>1. PICK u \in Int, v \in Int : u = l + 1 /\ v = Len(a) BY <1>4, <3>0
    <3>2. \A i \in u .. v : a[i] \in Events BY <1>4, <2>4, <3>1
    <3>3. SubSeq(a, u, v) \in Seq(Events) BY <3>2, SubSeqProperties
    <3>. QED BY <3>1, <3>3
  <2>6. SubSeq(a, 1, l) = p
    <3>0. 1 \in Int /\ l \in Int OBVIOUS
    <3>1. PICK u \in Int, v \in Int : u = 1 /\ v = l BY <3>0
    <3>2. \A i \in u .. v : a[i] \in Events BY <1>4, <1>6, <2>4, <3>1
    <3>3. /\ SubSeq(a, u, v) \in Seq(Events)
          /\ Len(SubSeq(a, u, v)) = (IF u <= v THEN v - u + 1 ELSE 0)
          /\ \A i \in 1 .. v - u + 1 : SubSeq(a, u, v)[i] = a[u + i - 1]
          BY ONLY u \in Int, v \in Int, <3>2, SubSeqProperties
    <3>4. PICK b \in Seq(Events) : b = SubSeq(a, 1, l) BY <3>1, <3>3
    <3>5. Len(b) = l BY <1>4, <3>1, <3>3, <3>4
    <3>6. ASSUME NEW i \in 1 .. l PROVE b[i] = p[i]
      <4>1. i \in 1 .. v - u + 1 /\ u + i - 1 = i /\ i \in 1 .. k + Len(y) /\ i <= k
            /\ i \in 1 .. l + m /\ i <= l
            BY <1>3, <1>4, <1>6, <3>1
      <4>2. b[i] = a[i] BY <3>1, <3>3, <3>4, <4>1
      <4>. QED BY <1>5, <4>1, <4>2
    <3>7. b = p BY <1>4, <3>5, <3>6, SeqEqual
    <3>. QED BY <3>4, <3>7
  <2>. QED BY <2>2, <2>3, <2>5, <2>6
<1>8. r = x \o y
  <2>1. Joined(p, x, y) BY EventsJoined
  <2>2. p \o r = p \o (x \o y) BY ONLY <1>5a, <1>7, <2>1 DEF Joined
  <2>3. PICK v \in Seq(Events) : v = x \o y BY ConcatProperties
  <2>4. p \o r = p \o v => r = v
        BY ONLY p \in Seq(Events), r \in Seq(Events), v \in Seq(Events), EventsCancel
  <2>. QED BY ONLY <2>2, <2>3, <2>4
<1>. QED BY <1>2, <1>3, <1>7, <1>8 DEF SplitBy

(* The last element is in the second part, or the second part is empty.     *)
LEMMA LastSplit ==
    ASSUME NEW q \in Seq(Events), NEW e \in Events,
           NEW p \in Seq(Events), NEW r \in Seq(Events),
           Split(q, e, <<>>, p, r)
    PROVE  \/ r = <<>> /\ p = q \o <<e>>
           \/ Contains(r, e) /\ \E x \in Seq(Events) : SplitBy(x, q, e, <<>>, p, r)
<1>0. <<e>> \o <<>> = <<e>> /\ q \o <<e>> = p \o r
  <2>1. <<e>> \in Seq(Events) OBVIOUS
  <2>2. <<e>> \o <<>> = <<e>> BY <2>1, ConcatEmptySeq
  <2>. QED BY <2>2 DEF Split
<1>1. CASE r = <<>> BY <1>0, <1>1, ConcatEmptySeq
<1>2. CASE r # <<>>
  <2>1. PICK s \in Seq(Events), f \in Events : r = Append(s, f) BY <1>2, SequenceEmptyOrAppend
  <2>2. p \o Append(s, f) = Append(p \o s, f) BY AppendOfConcat
  <2>3. PICK t \in Seq(Events) : t = p \o s BY ConcatProperties
  <2>4. Append(q, e) = Append(t, f) BY <1>0, <2>1, <2>2, <2>3, AppendIsConcat
  <2>5. q = t /\ e = f
    <3>1. /\ Len(Append(q, e)) = Len(q) + 1 /\ Append(q, e)[Len(q) + 1] = e
          /\ \A i \in 1 .. Len(q) : Append(q, e)[i] = q[i]
          /\ Len(Append(t, f)) = Len(t) + 1 /\ Append(t, f)[Len(t) + 1] = f
          /\ \A i \in 1 .. Len(t) : Append(t, f)[i] = t[i]
          /\ Len(q) \in Nat /\ Len(t) \in Nat
          BY AppendProperties, LenProperties
    <3>2. Len(q) = Len(t)
      <4>1. Len(q) + 1 = Len(t) + 1 BY <2>4, <3>1
      <4>. QED BY <3>1, <4>1
    <3>3. \A i \in 1 .. Len(q) : q[i] = t[i] BY <2>4, <3>1, <3>2
    <3>. QED BY <2>4, <3>1, <3>2, <3>3, SeqEqual
  <2>6. r = s \o <<e>> BY <2>1, <2>5, AppendIsConcat
  <2>7. Contains(r, e)
    <3>1. <<e>> \in Seq(Events) OBVIOUS
    <3>2. PICK o \in Seq(Events) : o = <<e>> BY <3>1
    <3>3. Contains(o, e) BY <3>2, ContainsOne
    <3>4. Contains(s \o o, e) BY <3>3, ContainsConcat
    <3>. QED BY <2>6, <3>2, <3>4
  <2>8. SplitBy(s, q, e, <<>>, p, r) BY <1>0, <2>3, <2>5, <2>6 DEF SplitBy
  <2>. QED BY <2>7, <2>8
<1>. QED BY <1>1, <1>2

-----------------------------------------------------------------------------
(* What the user will have at any event that is not part of the base and   *)
(* not after lost data is one of the windows P.                            *)
Ends == Other("SYNC_END")

Tells(q, c, s, P) ==
    \A p, r \in Seq(Events) :
        q = p \o r /\ ~Contains(p, Lost) /\ ~Contains(r, Ends) => Read(c, s \o RowsIn(p)) \in P

(* The warning is an event without rows. *)
LEMMA LostType == Lost \in Events /\ Lost # Ends /\ Lost.rows = <<>> /\ Ends \in Events
<1>1. Lost.type = "DATA_LOST" /\ Ends.type = "SYNC_END" BY DEF Lost, Ends, Other
<1>2. "DATA_LOST" \in Types /\ "SYNC_END" \in Types BY DEF Types
<1>3. Lost # Ends BY <1>1
<1>. QED BY <1>2, <1>3, OtherType DEF Lost, Ends

(* The user will have one of more windows. *)
LEMMA MoreTells ==
    ASSUME NEW q, NEW c, NEW s, NEW P, NEW Q, P \subseteq Q, Tells(q, c, s, P)
    PROVE  Tells(q, c, s, Q)
BY DEF Tells

(* Data has given way: up to the warning nothing has changed. *)
LEMMA ShedTells ==
    ASSUME NEW q \in Seq(Events), NEW d, NEW c, NEW s, NEW P, Tells(q, c, s, P),
           NEW a \in Seq(Events), NEW m \in Seq(Events), NEW z \in Seq(Events),
           ShedsFrom(q, d, a, m, z)
    PROVE  Tells(d, c, s, P)
<1>1. SUFFICES ASSUME NEW p \in Seq(Events), NEW r \in Seq(Events),
                      d = p \o r, ~Contains(p, Lost), ~Contains(r, Ends)
               PROVE  Read(c, s \o RowsIn(p)) \in P
      BY DEF Tells
<1>2. /\ q = a \o (m \o z) /\ d = a \o (<<Lost>> \o z)
      /\ ~Contains(m, Ends) /\ ~Contains(z, Ends)
      BY DEF ShedsFrom, Ends
<1>3. Split(a, Lost, z, p, r) BY <1>1, <1>2 DEF Split
<1>4. PICK x \in Seq(Events) : a = p \o x /\ r = x \o (<<Lost>> \o z)
  <2>1. PICK x \in Seq(Events) : SplitBy(x, a, Lost, z, p, r)
        BY <1>1, <1>3, LostType, QueueSplit
  <2>. QED BY <2>1 DEF SplitBy
<1>5. PICK y \in Seq(Events), o \in Seq(Events) : y = m \o z /\ o = <<Lost>> \o z
  <2>1. <<Lost>> \in Seq(Events) BY LostType
  <2>2. PICK l \in Seq(Events) : l = <<Lost>> BY <2>1
  <2>. QED BY <2>2, ConcatProperties
<1>6. PICK t \in Seq(Events) : t = x \o y BY ConcatProperties
<1>7. q = p \o t
  <2>1. Joined(p, x, y) BY EventsJoined
  <2>. QED BY ONLY <1>2, <1>4, <1>5, <1>6, <2>1 DEF Joined
<1>8. ~Contains(t, Ends)
  <2>1. ~Contains(x, Ends)
    <3>1. Contains(x \o o, Ends) <=> Contains(x, Ends) \/ Contains(o, Ends) BY ContainsConcat
    <3>. QED BY <1>1, <1>4, <1>5, <3>1
  <2>2. Contains(y, Ends) <=> Contains(m, Ends) \/ Contains(z, Ends) BY <1>5, ContainsConcat
  <2>3. Contains(t, Ends) <=> Contains(x, Ends) \/ Contains(y, Ends) BY <1>6, ContainsConcat
  <2>. QED BY <1>2, <2>1, <2>2, <2>3
<1>. QED BY <1>1, <1>7, <1>8 DEF Tells

(* One more event that says what all has come to. *)
LEMMA AppendTells ==
    ASSUME NEW q \in Seq(Events), NEW e \in Events, NEW c, NEW s, NEW P, NEW Q,
           P \subseteq Q, Tells(q, c, s, P),
           ~Contains(q \o <<e>>, Lost) => Read(c, s \o RowsIn(q \o <<e>>)) \in Q
    PROVE  Tells(q \o <<e>>, c, s, Q)
<1>1. SUFFICES ASSUME NEW p \in Seq(Events), NEW r \in Seq(Events),
                      q \o <<e>> = p \o r, ~Contains(p, Lost), ~Contains(r, Ends)
               PROVE  Read(c, s \o RowsIn(p)) \in Q
      BY DEF Tells
<1>2. \/ r = <<>> /\ p = q \o <<e>>
      \/ Contains(r, e) /\ \E t \in Seq(Events) : SplitBy(t, q, e, <<>>, p, r)
  <2>1. <<e>> \o <<>> = <<e>>
    <3>1. <<e>> \in Seq(Events) OBVIOUS
    <3>. QED BY <3>1, ConcatEmptySeq
  <2>2. Split(q, e, <<>>, p, r) BY <1>1, <2>1 DEF Split
  <2>. QED BY <2>2, LastSplit
<1>3. CASE r = <<>> /\ p = q \o <<e>> BY <1>1, <1>3
<1>4. CASE \E t \in Seq(Events) : SplitBy(t, q, e, <<>>, p, r)
  <2>2. <<e>> \in Seq(Events) OBVIOUS
  <2>1. PICK t \in Seq(Events) : r = t \o <<e>> /\ q = p \o t
    <3>1. <<e>> \o <<>> = <<e>> BY <2>2, ConcatEmptySeq
    <3>. QED BY <1>4, <3>1 DEF SplitBy
  <2>3. PICK o \in Seq(Events) : o = <<e>> BY <2>2
  <2>4. Contains(t \o o, Ends) <=> Contains(t, Ends) \/ Contains(o, Ends) BY ContainsConcat
  <2>5. ~Contains(t, Ends) BY <1>1, <2>1, <2>3, <2>4
  <2>. QED BY <1>1, <2>1, <2>5 DEF Tells
<1>. QED BY <1>2, <1>3, <1>4

(* The first event is taken. *)
LEMMA TailTells ==
    ASSUME NEW h \in Events, NEW t \in Seq(Events), NEW c, NEW P, h # Lost,
           Tells(<<h>> \o t, c, <<>>, P)
    PROVE  Tells(t, c, h.rows, P)
<1>1. SUFFICES ASSUME NEW p \in Seq(Events), NEW r \in Seq(Events),
                      t = p \o r, ~Contains(p, Lost), ~Contains(r, Ends)
               PROVE  Read(c, h.rows \o RowsIn(p)) \in P
      BY DEF Tells
<1>2. <<h>> \in Seq(Events) OBVIOUS
<1>3. PICK o \in Seq(Events) : o = <<h>> BY <1>2
<1>4. PICK b \in Seq(Events) : b = o \o p BY ConcatProperties
<1>5. o \o t = b \o r
  <2>1. Joined(o, p, r) BY EventsJoined
  <2>. QED BY ONLY <1>1, <1>4, <2>1 DEF Joined
<1>6. ~Contains(b, Lost)
  <2>1. Contains(b, Lost) <=> Contains(o, Lost) \/ Contains(p, Lost) BY <1>4, ContainsConcat
  <2>2. ~Contains(o, Lost) BY <1>3, ContainsOne
  <2>. QED BY <1>1, <2>1, <2>2
<1>7. Read(c, <<>> \o RowsIn(b)) \in P BY <1>1, <1>3, <1>5, <1>6 DEF Tells
<1>8. <<>> \o RowsIn(b) = h.rows \o RowsIn(p)
  <2>1. RowsIn(b) = RowsIn(o) \o RowsIn(p) BY <1>4, RowsInConcat
  <2>2. RowsIn(o) = h.rows BY <1>3, RowsInOne
  <2>3. RowsIn(b) \in Seq(Rows) BY RowsInType
  <2>4. <<>> \o RowsIn(b) = RowsIn(b) BY <2>3, ConcatEmptySeq
  <2>. QED BY <2>1, <2>2, <2>4
<1>. QED BY <1>7, <1>8

(* A row is read. *)
LEMMA ReadOn ==
    ASSUME NEW c \in Windows, NEW s \in Seq(Rows), s # <<>>, NEW x \in Seq(Rows)
    PROVE  Read(Take(c, Head(s)), Tail(s) \o x) = Read(c, s \o x)
<1>1. PICK h \in Rows, t \in Seq(Rows) :
         h = Head(s) /\ t = Tail(s) /\ Read(c, s) = Read(Take(c, h), t)
      BY ReadHead
<1>2. PICK d \in Windows : d = Take(c, h) BY TakeType
<1>3. Read(d, t \o x) = Read(Read(d, t), x) BY ReadConcat
<1>4. Read(c, s \o x) = Read(Read(c, s), x) BY ReadConcat
<1>. QED BY <1>1, <1>2, <1>3, <1>4

(* A row of the event the user holds is read. *)
LEMMA ReadTells ==
    ASSUME NEW q, NEW c \in Windows, NEW s \in Seq(Rows), s # <<>>, NEW P,
           Tells(q, c, s, P)
    PROVE  Tells(q, Take(c, Head(s)), Tail(s), P)
<1>1. SUFFICES ASSUME NEW p \in Seq(Events), NEW r \in Seq(Events),
                      q = p \o r, ~Contains(p, Lost), ~Contains(r, Ends)
               PROVE  Read(Take(c, Head(s)), Tail(s) \o RowsIn(p)) \in P
      BY DEF Tells
<1>2. PICK x \in Seq(Rows) : x = RowsIn(p) BY RowsInType
<1>3. Read(Take(c, Head(s)), Tail(s) \o x) = Read(c, s \o x) BY ReadOn
<1>4. Read(c, s \o x) \in P BY <1>1, <1>2 DEF Tells
<1>. QED BY <1>2, <1>3, <1>4

-----------------------------------------------------------------------------
(***************************************************************************)
(* The events of the project.                                              *)
(***************************************************************************)
(* Copies of a window. *)
LEMMA AgreeEqual ==
    ASSUME NEW c \in Windows, NEW w \in Windows, ~Has_Flag("NOBASE"), Agree(c, w, {})
    PROVE  c = w
<1>1. c \in [DOMAIN c -> Cells] /\ w \in [DOMAIN w -> Cells] BY WindowFacts
<1>2. \A k \in DOMAIN c \cup DOMAIN w : k \in DOMAIN c /\ k \in DOMAIN w /\ c[k] = w[k]
      BY DEF Agree
<1>3. DOMAIN c = DOMAIN w BY <1>2
<1>4. \A k \in DOMAIN w : c[k] = w[k] BY <1>2
<1>. QED BY ONLY <1>1, <1>3, <1>4

(* The copy without rows is right about the keys a window does not have. *)
LEMMA AgreeNothing ==
    ASSUME NEW w, NEW K, Has_Flag("NOBASE") \/ DOMAIN w \subseteq K
    PROVE  Agree(<<>>, w, K)
<1>1. DOMAIN <<>> = {} OBVIOUS
<1>2. PICK e : e = <<>> OBVIOUS
<1>3. \A k : k \notin K => AgreeAt(e, w, k)
  <2>1. DOMAIN e = {} BY <1>1, <1>2
  <2>. QED BY <2>1 DEF AgreeAt
<1>. QED BY <1>2, <1>3, AgreePointwise

(* Rows have finitely many keys. *)
LEMMA KeysFinite ==
    ASSUME NEW s \in Seq(Rows)
    PROVE  KeysOf(s) \in SUBSET Keys /\ IsFiniteSet(KeysOf(s))
<1>. DEFINE P == {u \in Seq(Rows) : KeysOf(u) \in SUBSET Keys /\ IsFiniteSet(KeysOf(u))}
<1>1. <<>> \in P
  <2>1. KeysOf(<<>>) = {} BY DEF KeysOf
  <2>. QED BY <2>1, EmptySeq, FS_EmptySet
<1>2. ASSUME NEW u \in Seq(Rows), NEW d \in Rows, u \in P PROVE Append(u, d) \in P
  <2>1. Append(u, d) \in Seq(Rows) BY AppendProperties
  <2>2. KeysOf(Append(u, d)) = KeysOf(u) \cup {Key(d)} BY KeysOfAppend
  <2>3. Key(d) \in Keys BY RowFacts
  <2>4. IsFiniteSet(KeysOf(u) \cup {Key(d)}) BY <1>2, FS_AddElement
  <2>. QED BY <1>2, <2>1, <2>2, <2>3, <2>4
<1>3. Seq(Rows) \subseteq P
  <2>. HIDE DEF P
  <2>. QED BY <1>1, <1>2, SeqInduction
<1>. QED BY <1>3

-----------------------------------------------------------------------------
(* The base data: at its end the user has the window. *)
LEMMA BaseEventsFacts ==
    ASSUME window \in Windows
    PROVE  /\ BaseEvents \in Seq(Events) /\ RowsIn(BaseEvents) = Base
           /\ \E b \in Seq(Events) : BaseEvents = b \o <<Ends>>
<1>. DEFINE data == IF Base = <<>> THEN <<>> ELSE <<Data(Base)>>
<1>1. Base \in Seq(Rows) BY BaseFacts
<1>2. BaseEvents = <<Other("SYNC_START")>> \o data \o <<Ends>> BY DEF BaseEvents, Base, Ends
<1>3. data \in Seq(Events) /\ RowsIn(data) = Base
  <2>1. CASE Base = <<>> BY <2>1, EmptySeq, RowsInEmpty
  <2>2. CASE Base # <<>>
    <3>1. PICK e \in Events : e = Data(Base) /\ e.rows = Base BY <1>1, DataType
    <3>2. data = <<e>> BY <2>2, <3>1
    <3>3. RowsIn(<<e>>) = e.rows BY RowsInOne
    <3>. QED BY <3>1, <3>2, <3>3
  <2>. QED BY <2>1, <2>2
<1>4. Other("SYNC_START") \in Events /\ Other("SYNC_START").rows = <<>>
      /\ Ends \in Events /\ Ends.rows = <<>>
  <2>1. "SYNC_START" \in Types /\ "SYNC_END" \in Types BY DEF Types
  <2>. QED BY <2>1, OtherType DEF Ends
<1>5. PICK start \in Events, end \in Events :
         /\ start = Other("SYNC_START") /\ end = Ends /\ start.rows = <<>> /\ end.rows = <<>>
      BY <1>4
<1>6. <<start>> \in Seq(Events) /\ <<end>> \in Seq(Events) OBVIOUS
<1>7. PICK a \in Seq(Events), z \in Seq(Events), d \in Seq(Events) :
         a = <<start>> /\ z = <<end>> /\ d = data
      BY <1>3, <1>6
<1>8. RowsIn(a) = <<>> /\ RowsIn(z) = <<>> /\ RowsIn(d) = Base
      BY <1>3, <1>5, <1>7, RowsInOne
<1>. HIDE DEF data
<1>9. PICK b \in Seq(Events) : b = a \o d BY ConcatProperties
<1>10. BaseEvents = b \o z BY <1>2, <1>5, <1>7, <1>9
<1>11. BaseEvents \in Seq(Events) BY <1>10, ConcatProperties
<1>12. RowsIn(b) = Base
  <2>1. RowsIn(b) = RowsIn(a) \o RowsIn(d) BY <1>9, RowsInConcat
  <2>. QED BY <1>1, <1>8, <2>1, ConcatEmptySeq
<1>13. RowsIn(BaseEvents) = Base
  <2>1. RowsIn(b \o z) = RowsIn(b) \o RowsIn(z) BY RowsInConcat
  <2>. QED BY <1>1, <1>8, <1>10, <1>12, <2>1, ConcatEmptySeq
<1>. QED BY <1>5, <1>7, <1>10, <1>11, <1>13

(* Having read the base data the user has the window. *)
LEMMA BaseRead ==
    ASSUME window \in Windows, ~Has_Flag("NOBASE")
    PROVE  Agree(Read(<<>>, RowsIn(BaseEvents)), window, {})
<1>1. PICK e \in Windows, s \in Seq(Rows), K \in SUBSET Keys :
         e = <<>> /\ s = Base /\ K = DOMAIN window
      BY EmptyWindow, BaseFacts, WindowFacts
<1>2. Agree(e, window, K) BY <1>1, AgreeNothing
<1>3. KeysOf(s) = K /\ \A i \in DOMAIN s : Latest(window, s[i]) BY <1>1, BaseFacts
<1>4. Agree(Read(e, s), window, K \ KeysOf(s)) BY <1>2, <1>3, LatestAllKeep
<1>5. K \ KeysOf(s) = {} BY <1>3
<1>. QED BY <1>1, <1>4, <1>5, BaseEventsFacts

(* At the end of the base data, and only there, the user has the window. *)
LEMMA BaseTells ==
    ASSUME window \in Windows, ~Has_Flag("NOBASE")
    PROVE  Tells(BaseEvents, <<>>, <<>>, {window})
<1>1. SUFFICES ASSUME NEW p \in Seq(Events), NEW r \in Seq(Events),
                      BaseEvents = p \o r, ~Contains(r, Ends)
               PROVE  Read(<<>>, <<>> \o RowsIn(p)) = window
      BY DEF Tells
<1>2. PICK b \in Seq(Events) : BaseEvents = b \o <<Ends>> BY BaseEventsFacts
<1>3. Split(b, Ends, <<>>, p, r)
  <2>1. <<Ends>> \in Seq(Events) BY LostType
  <2>2. <<Ends>> \o <<>> = <<Ends>> BY <2>1, ConcatEmptySeq
  <2>. QED BY <1>1, <1>2, <2>2 DEF Split
<1>4. p = BaseEvents
  <2>1. \/ r = <<>> /\ p = b \o <<Ends>>
        \/ Contains(r, Ends)
        BY <1>3, LostType, LastSplit
  <2>. QED BY <1>1, <1>2, <2>1
<1>5. PICK s \in Seq(Rows) : s = RowsIn(p) BY RowsInType
<1>6. <<>> \o s = s BY ConcatEmptySeq
<1>7. Read(<<>>, s) \in Windows /\ Agree(Read(<<>>, s), window, {})
      BY <1>4, <1>5, BaseRead, ReadType, EmptyWindow
<1>8. Read(<<>>, s) = window BY <1>7, AgreeEqual
<1>. QED BY <1>5, <1>6, <1>8

-----------------------------------------------------------------------------
(* What becomes of the queue when events are delivered: they are put behind *)
(* it, data gives way, or the subscription is dropped.                      *)
LEMMA QueuedFacts ==
    ASSUME opt \in Options, queue \in Seq(Events), NEW new \in Seq(Events)
    PROVE  /\ Queued(new) \in Seq(Events)
           /\ \/ Queued(new) = queue \o new
              \/ Drops(new)
              \/ \E a, m, z \in Seq(Events) : ShedsFrom(queue \o new, Queued(new), a, m, z)
<1>1. PICK q \in Seq(Events) : q = queue \o new BY ConcatProperties
<1>2. CASE ~Full(q) BY <1>1, <1>2 DEF Queued
<1>3. CASE Full(q) /\ ~Has_Flag("LOSSY")
  <2>1. Queued(new) = <<Other("DISCONNECTED")>> /\ Drops(new) BY <1>1, <1>3 DEF Queued, Drops
  <2>2. "DISCONNECTED" \in Types BY DEF Types
  <2>3. PICK e \in Events : e = Other("DISCONNECTED") BY <2>2, OtherType
  <2>4. <<e>> \in Seq(Events) OBVIOUS
  <2>. QED BY <2>1, <2>3, <2>4
<1>4. CASE Full(q) /\ Has_Flag("LOSSY")
  <2>1. Cardinality(Live(q)) \in Nat BY LiveFacts
  <2>2. opt.size \in Nat \ {0} BY SubscriberAssumption
  <2>3. PICK n \in 1 .. Cardinality(Live(q)) : n = Cardinality(Live(q)) - opt.size
    <3>1. Cardinality(Live(q)) - opt.size \in 1 .. Cardinality(Live(q))
          BY <1>4, <2>1, <2>2 DEF Full
    <3>. QED BY <3>1
  <2>4. Queued(new) = Shed(q, n) BY <1>1, <1>4, <2>3 DEF Queued
  <2>5. PICK a \in Seq(Events), m \in Seq(Events), z \in Seq(Events) :
           ShedsFrom(q, Shed(q, n), a, m, z)
        BY ShedFacts
  <2>6. Shed(q, n) \in Seq(Events)
    <3>1. <<Lost>> \in Seq(Events) BY LostType
    <3>2. PICK o \in Seq(Events) : o = <<Lost>> \o z BY <3>1, ConcatProperties
    <3>. QED BY <2>5, <3>2, ConcatProperties DEF ShedsFrom
  <2>. QED BY <1>1, <2>4, <2>5, <2>6
<1>. QED BY <1>2, <1>3, <1>4

(* The queue that Shed leaves contains the warning. *)
LEMMA ShedIsLost ==
    ASSUME NEW q, NEW d, NEW a \in Seq(Events), NEW m \in Seq(Events), NEW z \in Seq(Events),
           ShedsFrom(q, d, a, m, z)
    PROVE  Contains(d, Lost)
<1>1. <<Lost>> \in Seq(Events) BY LostType
<1>2. PICK l \in Seq(Events) : l = <<Lost>> BY <1>1
<1>3. PICK o \in Seq(Events) : o = l \o z BY ConcatProperties
<1>4. Contains(l, Lost) BY <1>2, ContainsOne
<1>5. Contains(o, Lost) BY <1>3, <1>4, ContainsConcat
<1>6. Contains(a \o o, Lost) BY <1>5, ContainsConcat
<1>. QED BY <1>2, <1>3, <1>6 DEF ShedsFrom

-----------------------------------------------------------------------------
(***************************************************************************)
(* The inductive invariant.                                                *)
(***************************************************************************)
TypeOK ==
    /\ opt \in Options
    /\ window \in Windows /\ replica \in Windows
    /\ changed \in SUBSET Keys /\ IsFiniteSet(changed)
    /\ sub \in {"created", "connected", "on", "ended", "closed"}
    /\ queue \in Seq(Events) /\ held \in Events /\ rows \in Seq(Rows)
    /\ warned \in BOOLEAN

(* No rows without their event; nothing is read before there is a          *)
(* subscription; only pulses leave changes behind.                         *)
Order ==
    /\ held = NoEvent => rows = <<>>
    /\ sub \in {"created", "connected"} => replica = <<>> /\ rows = <<>>
    /\ ~opt.pulsed => changed = {}

(* BlocksKept, for every event that is on its way. *)
Kept ==
    /\ Has_Flag("PRESERVE_BLOCKS") /\ ~opt.pulsed /\ ~Has_Flag("NOBASE")
    /\ sub = "on" /\ ~warned
    => Tells(queue, replica, rows, past)

Inv == TypeOK /\ Order /\ Converges /\ Kept

(* What the user will have is a window. *)
LEMMA ExpectedType ==
    ASSUME TypeOK
    PROVE  Expected \in Windows
<1>1. RowsIn(queue) \in Seq(Rows) BY RowsInType DEF TypeOK
<1>2. PICK s \in Seq(Rows) : s = rows \o RowsIn(queue) BY <1>1, ConcatProperties DEF TypeOK
<1>. QED BY <1>2, ReadType DEF TypeOK, Expected

(* What the user will have once there are more events. *)
LEMMA ExpectedMore ==
    ASSUME TypeOK, NEW new \in Seq(Events)
    PROVE  Read(replica, rows \o RowsIn(queue \o new)) = Read(Expected, RowsIn(new))
<1>1. PICK c \in Windows, r \in Seq(Rows), q \in Seq(Events) :
         c = replica /\ r = rows /\ q = queue
      BY DEF TypeOK
<1>2. PICK s \in Seq(Rows), t \in Seq(Rows) : s = RowsIn(q) /\ t = RowsIn(new) BY RowsInType
<1>3. RowsIn(q \o new) = s \o t BY <1>2, RowsInConcat
<1>4. PICK x \in Seq(Rows) : x = r \o s BY ConcatProperties
<1>5. r \o (s \o t) = x \o t BY <1>4, ConcatAssociative
<1>6. Read(c, x \o t) = Read(Read(c, x), t) BY ReadConcat
<1>. QED BY ONLY <1>1, <1>2, <1>3, <1>4, <1>5, <1>6 DEF Expected

(* Events are delivered that make the copy one of v. *)
LEMMA Delivered ==
    ASSUME Inv, sub = "on", NEW new \in Seq(Events), Deliver(new),
           opt' = opt, UNCHANGED userVars,
           window' \in Windows, NEW K, changed' = K,
           Agree(Expected, window, changed) =>
              Agree(Read(Expected, RowsIn(new)), window', K)
    PROVE  queue' \in Seq(Events) /\ sub' \in {"on", "ended"} /\ Converges'
<1>1. queue' = Queued(new) /\ sub' = IF Drops(new) THEN "ended" ELSE sub BY DEF Deliver
<1>2. TypeOK /\ opt \in Options /\ queue \in Seq(Events) BY DEF Inv, TypeOK
<1>3. queue' \in Seq(Events) BY <1>1, <1>2, QueuedFacts
<1>4. ASSUME sub' = "on", ~Warning' PROVE Agree(Expected, window, changed)'
  <2>1. ~Drops(new) BY <1>1, <1>4
  <2>2. ~warned /\ ~Contains(queue', Lost) BY <1>4 DEF Warning, Lost, userVars, Other
  <2>3. queue' = queue \o new
    <3>1. \/ queue' = queue \o new
          \/ \E a, m, z \in Seq(Events) : ShedsFrom(queue \o new, queue', a, m, z)
          BY <1>1, <1>2, <2>1, QueuedFacts
    <3>2. PICK d : d = queue' OBVIOUS
    <3>3. ~\E a, m, z \in Seq(Events) : ShedsFrom(queue \o new, d, a, m, z)
          BY <2>2, <3>2, ShedIsLost
    <3>. QED BY <3>1, <3>2, <3>3
  <2>4. ~Warning
    <3>1. Contains(queue \o new, Lost) <=> Contains(queue, Lost) \/ Contains(new, Lost)
          BY <1>2, ContainsConcat
    <3>. QED BY <2>2, <2>3, <3>1 DEF Warning, Lost
  <2>5. Agree(Expected, window, changed) BY <2>4 DEF Inv, Converges
  <2>6. Expected' = Read(Expected, RowsIn(new))
    <3>1. Expected' = Read(replica', rows' \o RowsIn(queue')) BY DEF Expected
    <3>. QED BY <1>2, <2>3, <3>1, ExpectedMore DEF userVars
  <2>7. PICK c, w : c = Expected' /\ w = window' OBVIOUS
  <2>8. Agree(c, w, K) BY <2>5, <2>6, <2>7
  <2>. QED BY <2>7, <2>8 DEF Agree, Has_Flag
<1>. QED BY <1>1, <1>3, <1>4 DEF Converges

-----------------------------------------------------------------------------
(***************************************************************************)
(* The steps of the project.                                               *)
(***************************************************************************)
(* A block is delivered that says the window is one of Q. *)
LEMMA DeliveredBlock ==
    ASSUME TypeOK, NEW new, new = <<>> \/ \E e \in Events : new = <<e>>,
           ~Drops(new), NEW P, Tells(queue, replica, rows, P), NEW Q, P \subseteq Q,
           ~Contains(queue \o new, Lost) => Read(Expected, RowsIn(new)) \in Q
    PROVE  Tells(Queued(new), replica, rows, Q)
<1>1. opt \in Options /\ queue \in Seq(Events) BY DEF TypeOK
<1>2. new \in Seq(Events)
  <2>1. \A e \in Events : <<e>> \in Seq(Events) OBVIOUS
  <2>2. <<>> \in Seq(Events) BY EmptySeq
  <2>. QED BY <2>1, <2>2
<1>3. PICK q \in Seq(Events) : q = queue \o new BY <1>1, <1>2, ConcatProperties
<1>4. Read(replica, rows \o RowsIn(q)) = Read(Expected, RowsIn(new))
      BY <1>2, <1>3, ExpectedMore
<1>5. Tells(q, replica, rows, Q)
  <2>1. CASE new = <<>>
    <3>1. q = queue BY <1>1, <1>3, <2>1, ConcatEmptySeq
    <3>. QED BY <3>1, MoreTells
  <2>2. CASE \E e \in Events : new = <<e>>
    <3>1. PICK e \in Events : new = <<e>> BY <2>2
    <3>0. PICK o \in Seq(Events) : o = queue BY <1>1
    <3>2. PICK c, s : c = replica /\ s = rows /\ o = queue BY <3>0
    <3>3. q = o \o <<e>> BY <1>3, <3>1, <3>2
    <3>4. Tells(o, c, s, P) BY <3>2
    <3>5. ~Contains(o \o <<e>>, Lost) => Read(c, s \o RowsIn(o \o <<e>>)) \in Q
      <4>1. ~Contains(q, Lost) => Read(Expected, RowsIn(new)) \in Q BY <1>3
      <4>2. Read(c, s \o RowsIn(q)) = Read(Expected, RowsIn(new)) BY <1>4, <3>2
      <4>. QED BY ONLY <3>3, <4>1, <4>2
    <3>6. Tells(o \o <<e>>, c, s, Q) BY <3>4, <3>5, AppendTells
    <3>. QED BY <3>2, <3>3, <3>6
  <2>. QED BY <2>1, <2>2
<1>6. \/ Queued(new) = q
      \/ \E a, m, z \in Seq(Events) : ShedsFrom(q, Queued(new), a, m, z)
      BY <1>1, <1>2, <1>3, QueuedFacts
<1>7. CASE Queued(new) = q BY <1>5, <1>7
<1>8. CASE \E a, m, z \in Seq(Events) : ShedsFrom(q, Queued(new), a, m, z)
  <2>1. PICK a \in Seq(Events), m \in Seq(Events), z \in Seq(Events) :
           ShedsFrom(q, Queued(new), a, m, z)
        BY <1>8
  <2>2. PICK d, c, s : d = Queued(new) /\ c = replica /\ s = rows OBVIOUS
  <2>3. Tells(d, c, s, Q) BY <1>5, <2>1, <2>2, ShedTells
  <2>. QED BY <2>2, <2>3
<1>. QED BY <1>6, <1>7, <1>8

(* A message is processed, and what it has changed is told. *)
LEMMA PublishStep ==
    ASSUME Inv, NEW u \in Messages, Publish(u)
    PROVE  Inv'
<1>. DEFINE ds == Deltas(u)
<1>1. /\ opt' = opt /\ UNCHANGED userVars /\ window' = Processed(window, u)
      /\ sub \notin {"on"} => UNCHANGED <<past, changed, queue, sub>>
      BY DEF Publish
<1>2. TypeOK /\ Order /\ Converges /\ Kept BY DEF Inv
<1>3. PICK c \in Windows : c = Expected BY <1>2, ExpectedType
<1>4. window \in Windows /\ changed \in SUBSET Keys /\ IsFiniteSet(changed) BY <1>2 DEF TypeOK
<1>5. /\ ds \in Seq(Rows) /\ window' \in Windows
      /\ Agree(c, window, changed) =>
            /\ Agree(Read(c, ds), window', changed)
            /\ Agree(c, window', changed \cup KeysOf(ds))
  <2>1. PICK K, L : K = changed /\ L = DOMAIN c \cup DOMAIN window OBVIOUS
  <2>2. Agree(c, window, L) BY <2>1, AgreePointwise DEF AgreeAt
  <2>3. ds \in Seq(Rows) /\ window' \in Windows BY <1>1, <1>4, <2>2, DeltasFollow
  <2>4. Agree(c, window, K) => Agree(Read(c, ds), window', K)
                               /\ Agree(c, window', K \cup KeysOf(ds))
        BY <1>1, <1>4, DeltasFollow
  <2>. QED BY <2>1, <2>3, <2>4
<1>. HIDE DEF ds
<1>6. CASE sub # "on"
  <2>1. UNCHANGED <<changed, queue, sub>> BY <1>1, <1>6
  <2>2. TypeOK' BY <1>1, <1>2, <1>5, <2>1 DEF TypeOK, userVars
  <2>3. Order' BY <1>1, <1>2, <2>1 DEF Order, userVars
  <2>. QED BY <1>6, <2>1, <2>2, <2>3 DEF Inv, Converges, Kept
<1>7. CASE sub = "on" /\ opt.pulsed
  <2>1. changed' = changed \cup KeysOf(ds) /\ UNCHANGED <<queue, sub>>
    <3>1. changed' = changed \cup {Key(d) : d \in ToSet(ds)} /\ UNCHANGED <<queue, sub>>
          BY <1>7 DEF Publish, ds
    <3>2. {Key(d) : d \in ToSet(ds)} = KeysOf(ds) BY DEF ToSet, KeysOf
    <3>. QED BY <3>1, <3>2
  <2>2. TypeOK'
    <3>1. PICK K, L : K = changed /\ L = KeysOf(ds) OBVIOUS
    <3>2. L \in SUBSET Keys /\ IsFiniteSet(L) BY <1>5, <3>1, KeysFinite
    <3>3. IsFiniteSet(K \cup L) /\ K \cup L \in SUBSET Keys BY <1>4, <3>1, <3>2, FS_Union
    <3>4. changed' \in SUBSET Keys /\ IsFiniteSet(changed') BY <2>1, <3>1, <3>3
    <3>. QED BY <1>1, <1>2, <1>5, <2>1, <3>4 DEF TypeOK, userVars
  <2>3. Order' BY <1>1, <1>2, <1>7, <2>1 DEF Order, userVars
  <2>4. Converges'
    <3>1. SUFFICES ASSUME ~Warning' PROVE Agree(Expected, window, changed)'
          BY DEF Converges
    <3>2. ~Warning BY <1>1, <2>1, <3>1 DEF Warning, userVars
    <3>3. Agree(c, window, changed) BY <1>2, <1>3, <1>7, <3>2 DEF Converges
    <3>4. Expected' = c BY <1>1, <1>3, <2>1 DEF Expected, userVars
    <3>5. PICK w, K : w = window' /\ K = changed' OBVIOUS
    <3>6. Agree(c, w, K) BY <1>5, <2>1, <3>3, <3>5
    <3>. QED BY <1>1, <3>4, <3>5, <3>6 DEF Agree, Has_Flag
  <2>5. Kept' BY <1>1, <1>7 DEF Kept
  <2>. QED BY <2>2, <2>3, <2>4, <2>5 DEF Inv
<1>8. CASE sub = "on" /\ ~opt.pulsed
  <2>. DEFINE new == DataEvents(ds)
  <2>1. Deliver(new) /\ changed' = changed /\ past' = past \cup {window'}
        BY <1>8 DEF Publish, ds
  <2>2. new \in Seq(Events) /\ RowsIn(new) = ds
        /\ (Has_Flag("PRESERVE_BLOCKS") => new = <<>> \/ \E e \in Events : new = <<e>>)
        BY <1>5, DataEventsFacts DEF DataOf
  <2>. HIDE DEF new
  <2>3. queue' \in Seq(Events) /\ sub' \in {"on", "ended"} /\ Converges'
    <3>1. PICK K : K = changed' OBVIOUS
    <3>2. Agree(Expected, window, changed) => Agree(Read(Expected, RowsIn(new)), window', K)
          BY <1>3, <1>5, <2>1, <2>2, <3>1
    <3>. QED BY <1>1, <1>5, <1>8, <2>1, <2>2, <3>1, <3>2, Delivered
  <2>4. TypeOK' BY <1>1, <1>2, <1>5, <2>1, <2>3 DEF TypeOK, userVars
  <2>5. Order' BY <1>1, <1>2, <1>8, <2>1, <2>3 DEF Order, userVars
  <2>6. Kept'
    <3>1. SUFFICES ASSUME Has_Flag("PRESERVE_BLOCKS"), ~Has_Flag("NOBASE"), sub' = "on", ~warned
                   PROVE  Tells(queue, replica, rows, past)'
          BY <1>1 DEF Kept, Has_Flag, userVars
    <3>2. Tells(queue, replica, rows, past) BY <1>2, <1>8, <3>1 DEF Kept
    <3>3. ~Drops(new) /\ queue' = Queued(new) BY <2>1, <3>1 DEF Deliver
    <3>4. changed = {} BY <1>2, <1>8 DEF Order
    <3>5. ASSUME ~Contains(queue \o new, Lost) PROVE Read(c, ds) = window'
      <4>1. ~Warning
        <5>1. Contains(queue \o new, Lost) <=> Contains(queue, Lost) \/ Contains(new, Lost)
              BY <1>2, <2>2, ContainsConcat DEF TypeOK
        <5>. QED BY <3>1, <3>5, <5>1 DEF Warning, Lost
      <4>2. Agree(Read(c, ds), window', {}) BY <1>2, <1>3, <1>5, <1>8, <3>4, <4>1 DEF Converges
      <4>3. PICK b \in Windows, w \in Windows : b = Read(c, ds) /\ w = window'
            BY <1>5, ReadType
      <4>. QED BY <3>1, <4>2, <4>3, AgreeEqual
    <3>6. PICK P, Q : P = past /\ Q = past' OBVIOUS
    <3>7. P \subseteq Q /\ (~Contains(queue \o new, Lost) => Read(Expected, RowsIn(new)) \in Q)
          BY <1>3, <2>1, <2>2, <3>5, <3>6
    <3>8. Tells(Queued(new), replica, rows, Q)
          BY <1>2, <2>2, <3>1, <3>2, <3>3, <3>6, <3>7, DeliveredBlock
    <3>9. PICK t, d, s : t = Queued(new) /\ d = replica /\ s = rows OBVIOUS
    <3>10. t = queue' /\ d = replica' /\ s = rows' /\ Q = past'
           BY <1>1, <3>3, <3>6, <3>9 DEF userVars
    <3>. QED BY <3>8, <3>9, <3>10
  <2>. QED BY <2>3, <2>4, <2>5, <2>6 DEF Inv
<1>. QED BY <1>6, <1>7, <1>8

(* A pulse tells what has changed. *)
LEMMA PulseStep ==
    ASSUME Inv, Pulse
    PROVE  Inv'
<1>. DEFINE s == Consolidated(changed)
            new == <<Data(s)>>
<1>1. /\ sub = "on" /\ changed # {} /\ Deliver(new) /\ changed' = {}
      /\ UNCHANGED <<opt, window, userVars, past>>
      BY DEF Pulse
<1>2. TypeOK /\ Order /\ Converges /\ Kept BY DEF Inv
<1>3. opt.pulsed BY <1>1, <1>2 DEF Order
<1>4. window \in Windows /\ changed \in SUBSET Keys /\ IsFiniteSet(changed) BY <1>2 DEF TypeOK
<1>5. /\ s \in Seq(Rows) /\ KeysOf(s) = changed
      /\ \A i \in DOMAIN s : Latest(window, s[i])
  <2>1. PICK K \in SUBSET Keys : K = changed /\ IsFiniteSet(K) BY <1>4
  <2>. QED BY <1>4, <2>1, ConsolidatedFacts
<1>. HIDE DEF s
<1>6. new \in Seq(Events) /\ RowsIn(new) = s
  <2>1. PICK e \in Events : e = Data(s) /\ e.rows = s BY <1>5, DataType
  <2>2. <<e>> \in Seq(Events) OBVIOUS
  <2>3. RowsIn(<<e>>) = e.rows BY RowsInOne
  <2>. QED BY <2>1, <2>2, <2>3
<1>. HIDE DEF new
<1>7. Agree(Expected, window, changed) => Agree(Read(Expected, RowsIn(new)), window', {})
  <2>0. PICK c \in Windows, w \in Windows, t \in Seq(Rows) :
           c = Expected /\ w = window /\ t = s
        BY <1>2, <1>4, <1>5, ExpectedType
  <2>1. PICK K : c = Expected /\ w = window /\ K = changed /\ t = s BY <2>0
  <2>2. Agree(c, w, K) => Agree(Read(c, t), w, K \ KeysOf(t))
        BY <1>5, <2>1, LatestAllKeep
  <2>3. K \ KeysOf(t) = {} BY <1>5, <2>1
  <2>. QED BY <1>1, <1>6, <2>1, <2>2, <2>3
<1>8. queue' \in Seq(Events) /\ sub' \in {"on", "ended"} /\ Converges'
  <2>1. window' \in Windows BY <1>1, <1>4
  <2>. QED BY <1>1, <1>6, <1>7, <2>1, Delivered
<1>9. TypeOK' BY <1>1, <1>2, <1>8, FS_EmptySet DEF TypeOK, userVars
<1>10. Order' BY <1>1, <1>2, <1>8 DEF Order, userVars
<1>11. Kept' BY <1>1, <1>3 DEF Kept
<1>. QED BY <1>8, <1>9, <1>10, <1>11 DEF Inv

-----------------------------------------------------------------------------
(***************************************************************************)
(* The steps of the user, and the theorems.                                *)
(***************************************************************************)
LEMMA EndStep ==
    ASSUME Inv, NEW t \in Types, NEW q \in Seq(Events), EndWith(t, q)
    PROVE  Inv'
<1>1. /\ sub = "on" /\ sub' = "ended" /\ queue' = Append(q, Other(t))
      /\ UNCHANGED <<opt, window, changed, userVars, past>>
      BY DEF EndWith
<1>2. TypeOK /\ Order BY DEF Inv
<1>3. queue' \in Seq(Events)
  <2>1. PICK e \in Events : e = Other(t) BY OtherType
  <2>. QED BY <1>1, <2>1, AppendProperties
<1>4. TypeOK' BY <1>1, <1>2, <1>3 DEF TypeOK, userVars
<1>5. Order' BY <1>1, <1>2 DEF Order, userVars
<1>. QED BY <1>1, <1>4, <1>5 DEF Inv, Converges, Kept

(* The subscription begins with the window as it is. *)
LEMMA SubscribeStep ==
    ASSUME Inv, Subscribe
    PROVE  Inv'
<1>1. /\ sub = "connected" /\ sub' = "on"
      /\ queue' = IF Has_Flag("NOBASE") THEN <<>> ELSE BaseEvents
      /\ past' = {window}
      /\ UNCHANGED <<opt, window, changed, userVars>>
      BY DEF Subscribe
<1>2. TypeOK /\ Order BY DEF Inv
<1>3. replica = <<>> /\ rows = <<>> /\ window \in Windows BY <1>1, <1>2 DEF Order, TypeOK
<1>4. BaseEvents \in Seq(Events) /\ RowsIn(BaseEvents) \in Seq(Rows)
      BY <1>3, BaseEventsFacts, RowsInType
<1>5. TypeOK' BY <1>1, <1>2, <1>4, EmptySeq DEF TypeOK, userVars
<1>6. Order' BY <1>1, <1>2 DEF Order, userVars
<1>7. Converges'
  <2>1. PICK w, K, s : w = window /\ K = changed /\ s = RowsIn(queue') OBVIOUS
  <2>2. s \in Seq(Rows) BY <1>1, <1>4, <2>1, RowsInEmpty, EmptySeq
  <2>3. Expected' = Read(<<>>, s)
    <3>1. Expected' = Read(replica', rows' \o RowsIn(queue')) BY DEF Expected
    <3>2. <<>> \o s = s BY <2>2, ConcatEmptySeq
    <3>3. replica' = <<>> /\ rows' = <<>> BY <1>1, <1>3 DEF userVars
    <3>. QED BY ONLY <2>1, <3>1, <3>2, <3>3
  <2>4. Agree(Read(<<>>, s), w, K)
    <3>1. CASE Has_Flag("NOBASE")
      <4>1. s = <<>> BY <1>1, <2>1, <3>1, RowsInEmpty
      <4>2. Read(<<>>, <<>>) = <<>> BY EmptyWindow, ReadEmpty
      <4>. QED BY <3>1, <4>1, <4>2, AgreeNothing
    <3>2. CASE ~Has_Flag("NOBASE")
      <4>1. Agree(Read(<<>>, s), w, {}) BY <1>1, <1>3, <2>1, <3>2, BaseRead
      <4>. QED BY <4>1, AgreeMore
    <3>. QED BY <3>1, <3>2
  <2>5. PICK c : c = Expected' OBVIOUS
  <2>6. Agree(c, w, K) BY <2>3, <2>4, <2>5
  <2>7. w = window' /\ K = changed' BY <1>1, <2>1
  <2>8. Agree(Expected, window, changed)'
        BY <1>1, <2>5, <2>6, <2>7 DEF Agree, Has_Flag
  <2>. QED BY <2>8 DEF Converges
<1>8. Kept'
  <2>1. SUFFICES ASSUME ~Has_Flag("NOBASE")
                 PROVE  Tells(queue, replica, rows, past)'
        BY <1>1 DEF Kept, Has_Flag
  <2>2. Tells(BaseEvents, <<>>, <<>>, {window}) BY <1>3, <2>1, BaseTells
  <2>3. PICK q, c, P : q = BaseEvents /\ c = <<>> /\ P = {window} OBVIOUS
  <2>4. q = queue' /\ c = replica' /\ c = rows' /\ P = past'
        BY <1>1, <1>3, <2>1, <2>3 DEF userVars
  <2>. QED BY <2>2, <2>3, <2>4
<1>. QED BY <1>5, <1>6, <1>7, <1>8 DEF Inv

(* The user takes an event. *)
LEMMA NextEventStep ==
    ASSUME Inv, NextEvent
    PROVE  Inv'
<1>1. /\ sub \in {"on", "ended"} /\ held = NoEvent /\ queue # <<>>
      /\ held' = Head(queue) /\ queue' = Tail(queue) /\ rows' = Head(queue).rows
      /\ warned' = (warned \/ Head(queue).type = "DATA_LOST")
      /\ UNCHANGED <<opt, window, changed, sub, replica, past>>
      BY DEF NextEvent
<1>2. TypeOK /\ Order /\ Converges /\ Kept BY DEF Inv
<1>3. rows = <<>> /\ queue \in Seq(Events) /\ warned \in BOOLEAN BY <1>1, <1>2 DEF Order, TypeOK
<1>4. PICK h \in Events, t \in Seq(Events) :
         h = Head(queue) /\ t = Tail(queue) /\ queue = <<h>> \o t
      BY <1>1, <1>3, HeadAndTail
<1>5. h.rows \in Seq(Rows) BY DEF Events
<1>6. TypeOK' BY <1>1, <1>2, <1>4, <1>5 DEF TypeOK
<1>7. Order'
  <2>1. held' = NoEvent => rows' = <<>> BY <1>1 DEF NoEvent
  <2>2. sub' \notin {"created", "connected"} BY <1>1
  <2>. QED BY <1>1, <1>2, <2>1, <2>2 DEF Order
<1>8. ASSUME ~warned' PROVE ~warned /\ h # Lost
  <2>1. Lost.type = "DATA_LOST" BY DEF Lost, Other
  <2>. QED BY <1>1, <1>4, <1>8, <2>1
<1>9. Converges'
  <2>1. SUFFICES ASSUME sub = "on", ~Warning' PROVE Agree(Expected, window, changed)'
        BY <1>1 DEF Converges
  <2>2. <<h>> \in Seq(Events) OBVIOUS
  <2>3. PICK o \in Seq(Events) : o = <<h>> BY <2>2
  <2>4. ~Warning
    <3>1. ~warned' /\ ~Contains(t, Lost) BY <1>1, <1>4, <2>1 DEF Warning, Lost, Other
    <3>2. Contains(o \o t, Lost) <=> Contains(o, Lost) \/ Contains(t, Lost) BY ContainsConcat
    <3>3. ~Contains(o, Lost) BY <1>8, <2>3, <3>1, ContainsOne
    <3>. QED BY <1>4, <1>8, <2>3, <3>1, <3>2, <3>3 DEF Warning, Lost
  <2>5. Agree(Expected, window, changed) BY <1>2, <2>1, <2>4 DEF Converges
  <2>6. Expected' = Expected
    <3>1. Expected' = Read(replica', rows' \o RowsIn(queue')) BY DEF Expected
    <3>2. RowsIn(o \o t) = RowsIn(o) \o RowsIn(t) BY RowsInConcat
    <3>3. RowsIn(o) = h.rows BY <2>3, RowsInOne
    <3>4. RowsIn(queue) \in Seq(Rows) BY <1>3, RowsInType
    <3>5. <<>> \o RowsIn(queue) = RowsIn(queue) BY <3>4, ConcatEmptySeq
    <3>6. rows \o RowsIn(queue) = rows' \o RowsIn(queue')
          BY ONLY <1>1, <1>3, <1>4, <2>3, <3>2, <3>3, <3>5
    <3>. QED BY ONLY <1>1, <3>1, <3>6 DEF Expected
  <2>7. PICK c, w, K : c = Expected /\ w = window /\ K = changed OBVIOUS
  <2>8. Agree(c, w, K) BY <2>5, <2>7
  <2>9. c = Expected' /\ w = window' /\ K = changed' BY <1>1, <2>6, <2>7
  <2>. QED BY <1>1, <2>8, <2>9 DEF Agree, Has_Flag
<1>10. Kept'
  <2>1. SUFFICES ASSUME Has_Flag("PRESERVE_BLOCKS"), ~opt.pulsed, ~Has_Flag("NOBASE"),
                        sub = "on", ~warned'
                 PROVE  Tells(queue, replica, rows, past)'
        BY <1>1 DEF Kept, Has_Flag
  <2>2. Tells(queue, replica, rows, past) BY <1>2, <1>8, <2>1 DEF Kept
  <2>3. PICK c, P : c = replica /\ P = past OBVIOUS
  <2>4. Tells(<<h>> \o t, c, <<>>, P) BY <1>3, <1>4, <2>2, <2>3
  <2>5. Tells(t, c, h.rows, P) BY <1>8, <2>1, <2>4, TailTells
  <2>6. PICK s : s = h.rows OBVIOUS
  <2>7. t = queue' /\ c = replica' /\ s = rows' /\ P = past' BY <1>1, <1>4, <2>3, <2>6
  <2>. QED BY <2>5, <2>6, <2>7
<1>. QED BY <1>6, <1>7, <1>9, <1>10 DEF Inv

(* The user reads a row of the event. *)
LEMMA NextRowStep ==
    ASSUME Inv, NextRow
    PROVE  Inv'
<1>1. /\ held # NoEvent /\ rows # <<>>
      /\ replica' = Take(replica, Head(rows)) /\ rows' = Tail(rows)
      /\ UNCHANGED <<opt, window, changed, sub, queue, held, warned, past>>
      BY DEF NextRow
<1>2. TypeOK /\ Order /\ Converges /\ Kept BY DEF Inv
<1>3. PICK c \in Windows, s \in Seq(Rows) : c = replica /\ s = rows /\ s # <<>>
      BY <1>1, <1>2 DEF TypeOK
<1>4. Head(s) \in Rows /\ Tail(s) \in Seq(Rows) BY <1>3, ReadHead
<1>5. Take(c, Head(s)) \in Windows BY <1>4, TakeType
<1>6. TypeOK' BY <1>1, <1>2, <1>3, <1>4, <1>5 DEF TypeOK
<1>7. Order' BY <1>1, <1>2 DEF Order
<1>8. Expected' = Expected
  <2>1. PICK x \in Seq(Rows) : x = RowsIn(queue) BY <1>2, RowsInType DEF TypeOK
  <2>2. Read(Take(c, Head(s)), Tail(s) \o x) = Read(c, s \o x) BY <1>3, ReadOn
  <2>3. Expected' = Read(replica', rows' \o RowsIn(queue')) BY DEF Expected
  <2>. QED BY ONLY <1>1, <1>3, <2>1, <2>2, <2>3 DEF Expected
<1>9. Converges'
  <2>1. SUFFICES ASSUME sub = "on", ~Warning PROVE Agree(Expected, window, changed)'
        BY <1>1 DEF Converges, Warning
  <2>2. Agree(Expected, window, changed) BY <1>2, <2>1 DEF Converges
  <2>3. PICK e, w, K : e = Expected /\ w = window /\ K = changed OBVIOUS
  <2>4. Agree(e, w, K) BY <2>2, <2>3
  <2>5. e = Expected' /\ w = window' /\ K = changed' BY <1>1, <1>8, <2>3
  <2>. QED BY <1>1, <2>4, <2>5 DEF Agree, Has_Flag
<1>10. Kept'
  <2>1. SUFFICES ASSUME Has_Flag("PRESERVE_BLOCKS"), ~opt.pulsed, ~Has_Flag("NOBASE"),
                        sub = "on", ~warned
                 PROVE  Tells(queue, replica, rows, past)'
        BY <1>1 DEF Kept, Has_Flag
  <2>2. PICK q, P : q = queue /\ P = past OBVIOUS
  <2>3. Tells(q, c, s, P) BY <1>2, <1>3, <2>1, <2>2 DEF Kept
  <2>4. PICK d, t : d = Take(c, Head(s)) /\ t = Tail(s) OBVIOUS
  <2>5. Tells(q, d, t, P) BY <1>3, <2>3, <2>4, ReadTells
  <2>6. q = queue' /\ d = replica' /\ t = rows' /\ P = past' BY <1>1, <1>3, <2>2, <2>4
  <2>. QED BY <2>5, <2>6
<1>. QED BY <1>6, <1>7, <1>9, <1>10 DEF Inv

(* Steps that leave the window and the user's copy alone. *)
LEMMA OtherSteps ==
    ASSUME Inv, UNCHANGED <<opt, window, queue, rows, replica, warned, past>>,
           held' \in Events, held' = NoEvent => rows = <<>>, changed' = changed,
           \/ sub' = sub
           \/ sub = "created" /\ sub' = "connected"
    PROVE  Inv'
<1>1. TypeOK /\ Order /\ Converges /\ Kept BY DEF Inv
<1>2. TypeOK' BY <1>1 DEF TypeOK
<1>3. Order' BY <1>1 DEF Order
<1>4. Converges'
  <2>1. SUFFICES ASSUME sub = "on", ~Warning PROVE Agree(Expected, window, changed)'
        BY DEF Converges, Warning
  <2>2. Agree(Expected, window, changed) BY <1>1, <2>1 DEF Converges
  <2>3. PICK e, w, K : e = Expected /\ w = window /\ K = changed OBVIOUS
  <2>4. Agree(e, w, K) BY <2>2, <2>3
  <2>5. e = Expected' /\ w = window' /\ K = changed' BY <2>3 DEF Expected
  <2>. QED BY <2>4, <2>5 DEF Agree, Has_Flag
<1>5. Kept' BY <1>1 DEF Kept, Has_Flag
<1>. QED BY <1>2, <1>3, <1>4, <1>5 DEF Inv

(* The subscription is closed; nothing more is claimed. *)
LEMMA CloseStep ==
    ASSUME Inv, Close
    PROVE  Inv'
<1>1. /\ sub' = "closed" /\ queue' = <<>> /\ changed' = {}
      /\ UNCHANGED <<opt, window, userVars, past>>
      BY DEF Close
<1>2. TypeOK /\ Order BY DEF Inv
<1>3. TypeOK' BY <1>1, <1>2, EmptySeq, FS_EmptySet DEF TypeOK, userVars
<1>4. Order' BY <1>1, <1>2 DEF Order, userVars
<1>. QED BY <1>1, <1>3, <1>4 DEF Inv, Converges, Kept

(* The invariant holds at first, *)
LEMMA InvInit == Init => Inv
<1>1. SUFFICES ASSUME Init PROVE Inv OBVIOUS
<1>2. NoEvent \in Events
  <2>1. "none" \in Types /\ <<>> \in Seq(Rows) BY EmptySeq DEF Types
  <2>. QED BY <2>1 DEF NoEvent, Events
<1>3. <<>> \in Seq(Events) /\ <<>> \in Seq(Rows) BY EmptySeq
<1>4. TypeOK BY <1>1, <1>2, <1>3, EmptyWindow, FS_EmptySet DEF Init, TypeOK
<1>5. Order BY <1>1 DEF Init, Order
<1>. QED BY <1>1, <1>4, <1>5 DEF Init, Inv, Converges, Kept

(* and every step keeps it. *)
LEMMA InvStep == Inv /\ [Next]_vars => Inv'
<1>. SUFFICES ASSUME Inv, [Next]_vars PROVE Inv' OBVIOUS
<1>0. TypeOK /\ Order BY DEF Inv
<1>1. CASE \E u \in Messages : Publish(u) BY <1>1, PublishStep
<1>2. CASE Pulse BY <1>2, PulseStep
<1>3. CASE BaseTimeout
  <2>1. "DISCONNECTED" \in Types /\ <<>> \in Seq(Events) BY EmptySeq DEF Types
  <2>. QED BY <1>3, <2>1, EndStep DEF BaseTimeout
<1>4. CASE Disconnect
  <2>1. PICK q \in Prefixes(queue) : EndWith("DISCONNECTED", q) BY <1>4 DEF Disconnect
  <2>2. q \in Seq(Events)
    <3>1. PICK l \in 0 .. Len(queue) : q = SubSeq(queue, 1, l) BY DEF Prefixes
    <3>2. Len(queue) \in Nat /\ \A i \in 1 .. Len(queue) : queue[i] \in Events
          BY <1>0, LenProperties, ElementOfSeq DEF TypeOK
    <3>3. 1 \in Int /\ l \in Int /\ \A i \in 1 .. l : queue[i] \in Events BY <3>2
    <3>. QED BY <3>1, <3>3, SubSeqProperties
  <2>3. "DISCONNECTED" \in Types BY DEF Types
  <2>. QED BY <2>1, <2>2, <2>3, EndStep
<1>5. CASE StreamExit
  <2>1. "STREAM_EXIT" \in Types BY DEF Types
  <2>. QED BY <1>0, <1>5, <2>1, EndStep DEF StreamExit, TypeOK
<1>6. CASE NextEvent BY <1>6, NextEventStep
<1>7. CASE NextRow BY <1>7, NextRowStep
<1>8. CASE FreeEvent
  <2>1. NoEvent \in Events
    <3>1. "none" \in Types /\ <<>> \in Seq(Rows) BY EmptySeq DEF Types
    <3>. QED BY <3>1 DEF NoEvent, Events
  <2>. QED BY <1>8, <2>1, OtherSteps DEF FreeEvent
<1>9. CASE Connect
  <2>1. held' = held /\ held \in Events BY <1>0, <1>9 DEF Connect, userVars, TypeOK
  <2>2. held = NoEvent => rows = <<>> BY <1>0 DEF Order
  <2>. QED BY <1>9, <2>1, <2>2, OtherSteps DEF Connect, userVars
<1>10. CASE Subscribe BY <1>10, SubscribeStep
<1>11. CASE Close BY <1>11, CloseStep
<1>12. CASE UNCHANGED vars
  <2>1. held' = held /\ held \in Events BY <1>0, <1>12 DEF vars, userVars, TypeOK
  <2>2. held = NoEvent => rows = <<>> BY <1>0 DEF Order
  <2>. QED BY <1>12, <2>1, <2>2, OtherSteps DEF vars, userVars
<1>. QED BY <1>1, <1>2, <1>3, <1>4, <1>5, <1>6, <1>7, <1>8, <1>9, <1>10, <1>11, <1>12
         DEF Next, ProjectStep, UserStep

(* The inductive invariant holds in every behaviour of the subscription.    *)
THEOREM Invariance == Spec => []Inv
BY InvInit, InvStep, PTL DEF Spec

(* Window and copy are windows of the schema and the queue holds events, in *)
(* every behaviour of project and user.                                    *)
THEOREM TypeCorrect == Spec => []TypeOK
<1>1. Inv => TypeOK BY DEF Inv
<1>. QED BY <1>1, Invariance, PTL

(* A subscriber that is not told of lost data and reads what is queued has  *)
(* the window of the project, but for the keys a pulse will bring up to     *)
(* date: for every schema, message, option and packaging of the events that *)
(* get_next_event() returns, and however the user's reads fall.            *)
THEOREM CopyConverges == Spec => []Converges
<1>1. Inv => Converges BY DEF Inv
<1>. QED BY <1>1, Invariance, PTL

(* With PRESERVE_BLOCKS and a base, without pulses, whenever the user is    *)
(* between two events past SYNC_END and not told of lost data, what it has  *)
(* made of them is a window the project has had: neither a part of the base *)
(* data nor a part of a transaction is ever shown as the whole.            *)
THEOREM BlocksStayWhole == Spec => []BlocksKept
<1>1. Inv => BlocksKept
  <2>1. SUFFICES ASSUME Inv, Has_Flag("PRESERVE_BLOCKS"), ~opt.pulsed, ~Has_Flag("NOBASE"),
                        sub = "on", ~warned, rows = <<>>, ~Contains(queue, Ends)
                 PROVE  replica \in past
        BY DEF BlocksKept, Ends
  <2>2. Tells(queue, replica, rows, past) BY <2>1 DEF Inv, Kept
  <2>3. PICK p \in Seq(Events), q \in Seq(Events) : p = <<>> /\ q = queue
        BY <2>1, EmptySeq DEF Inv, TypeOK
  <2>4. q = p \o q BY <2>3, ConcatEmptySeq
  <2>5. ~Contains(p, Lost) BY <2>3, ContainsEmpty
  <2>6. Read(replica, rows \o RowsIn(p)) \in past BY <2>1, <2>2, <2>3, <2>4, <2>5 DEF Tells
  <2>7. rows \o RowsIn(p) = <<>>
    <3>1. <<>> \o <<>> = <<>> BY EmptySeq, ConcatEmptySeq
    <3>. QED BY <2>1, <2>3, <3>1, RowsInEmpty
  <2>8. Read(replica, <<>>) = replica BY <2>1, ReadEmpty DEF Inv, TypeOK
  <2>. QED BY <2>6, <2>7, <2>8
<1>. QED BY <1>1, Invariance, PTL
=============================================================================

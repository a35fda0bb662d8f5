------------------------- MODULE DbagPublisher_proofs -------------------------
(***************************************************************************)
(* Proofs about DbagPublisher, for every number of rows and rounds and all *)
(* block and buffer sizes: what TLC checks of a few rows holds of the two  *)
(* million that main() publishes.                                          *)
(***************************************************************************)
EXTENDS DbagPublisher, DataLemmas

-----------------------------------------------------------------------------
(* The inductive invariant, in named parts. *)

(* start(), stop() and the connection follow the thread. *)
LifeInv == /\ pc = "start" => starts = 0 /\ stops = 0
           /\ pc # "start" => starts = 1
           /\ pc \in {"connect", "round", "row", "end row", "report"} => stops = 0
           /\ pc \in {"start", "connect"} => link = "none"
           /\ pc \in {"round", "row", "end row", "report"} => link # "none"
           /\ pc \in {"finally", "end"} /\ stops # 0 => link # "up"
           /\ pc = "end" => stops # 0

(* Nothing is queued before there is a connection, or after stop() has     *)
(* ended it.                                                               *)
IdleInv == link = "none" => queue = <<>>

(* The two modes; a block is open if and only if inblock says so. *)
ModeInv == /\ Buffered => writer = <<>>
           /\ ~Buffered => queue = <<>>
           /\ BlockFlag
           /\ blockSize = 0 => ~inblock
           /\ pc = "end row" => (inblock <=> blockSize > 0)

(* The rows sent, those on their way and the next one follow each other.   *)
NumberInv == /\ Numbered(inserted, 0)
             /\ Numbered(writer, Len(inserted))
             /\ Numbered(queue, Len(inserted))
             /\ value = Len(inserted) + Len(writer) + Len(queue)

(* The next row's number is its place in the rounds. *)
PlaceInv == /\ pc \in {"start", "connect"} => lcount = LCount /\ value = 0
            /\ pc \in {"round", "report"} => value = (LCount - lcount) * NumRows
            /\ pc = "row" => lcount < LCount /\ value = (LCount - lcount - 1) * NumRows + i
            /\ pc = "end row" => /\ lcount < LCount
                                 /\ value = (LCount - lcount - 1) * NumRows + i + 1

(* How many rows wait in the writer for the end of their block when v rows *)
(* have been written, i of them in this round: those since the last row of *)
(* this or the last round that ended one.                                  *)
Waiting(v) == IF blockSize = 0 THEN 0
              ELSE IF i > 0 THEN (i - 1) % blockSize
              ELSE IF v = 0 THEN 0
              ELSE (NumRows - 1) % blockSize

WriterInv == ~Buffered =>
                /\ pc \in {"start", "connect"} => writer = <<>>
                /\ pc \in {"round", "report"} =>
                      Len(writer) = IF blockSize = 0 \/ value = 0 THEN 0
                                    ELSE (NumRows - 1) % blockSize
                /\ pc = "row" => Len(writer) = Waiting(value)
                /\ pc = "end row" => Len(writer) = Waiting(value - 1) + 1

(* After the commit nothing is written, queued or sent. *)
CommitInv == committed => /\ pc \in {"report", "round", "finally", "end"}
                          /\ lcount = 0 /\ queue = <<>>
                          /\ CommittedRows

IInv == /\ TypeOK /\ LifeInv /\ IdleInv /\ ModeInv /\ NumberInv
        /\ PlaceInv /\ WriterInv /\ CommitInv

-----------------------------------------------------------------------------
(* The steps that touch neither the rows nor the place in the rounds.      *)
Still == UNCHANGED <<blockSize, bufferSize, lcount, i, value, inblock, rowVars, committed>>

LEMMA StillSteps ==
    ASSUME Start \/ ConnectPublisher \/ Report \/ StopPublisher \/ Throw \/ Finally
           \/ (LoseLink /\ UNCHANGED pubVars)
    PROVE  Still
BY DEF Still, Start, ConnectPublisher, Report, StopPublisher, Throw, Finally, LoseLink,
       pubVars, rowVars, sdkVars, StartSdk, StopSdk, Connect, GoTo

(* A step by its name. *)
LEMMA Steps ==
    ASSUME [Next]_vars
    PROVE  \/ NextRound \/ WriteRow \/ EndRow \/ EndRound
           \/ Start \/ ConnectPublisher \/ Report \/ StopPublisher \/ Throw \/ Finally
           \/ (LoseLink /\ UNCHANGED pubVars)
           \/ (Send /\ UNCHANGED pubVars)
           \/ UNCHANGED vars
BY DEF Next, PublisherStep, SdkStep, Ended

-----------------------------------------------------------------------------
(* The initial states. *)
LEMMA InitType == Init => TypeOK
<1>. SUFFICES ASSUME Init PROVE TypeOK OBVIOUS
<1>1. blockSize \in Nat /\ bufferSize \in Nat BY ArgsAssumption DEF Init
<1>2. NumRows \in Nat \ {0} /\ LCount \in Nat \ {0} BY ArgsAssumption
<1>3. lcount \in 0 .. LCount /\ i \in 0 .. NumRows /\ value \in Nat BY <1>2 DEF Init
<1>4. writer \in Seq(Nat) /\ queue \in Seq(Nat) /\ inserted \in Seq(Nat)
      /\ Len(queue) <= bufferSize
      BY <1>1, EmptySeq DEF Init, SdkInit
<1>5. /\ pc \in Labels /\ (pc = "end row" => i < NumRows)
      /\ starts \in Nat /\ stops \in Nat /\ link \in {"none", "up", "lost"}
      BY DEF Init, SdkInit, Labels
<1>6. inblock \in BOOLEAN /\ open \in BOOLEAN /\ committed \in BOOLEAN
      BY DEF Init, SdkInit
<1>. QED BY <1>1, <1>3, <1>4, <1>5, <1>6 DEF TypeOK

LEMMA InitInv == Init => IInv
<1>. SUFFICES ASSUME Init PROVE IInv OBVIOUS
<1>1. TypeOK BY InitType
<1>2. LifeInv /\ IdleInv BY DEF LifeInv, IdleInv, Init, SdkInit
<1>3. ModeInv BY DEF ModeInv, BlockFlag, Buffered, Init, SdkInit
<1>4. Len(<<>>) = 0 OBVIOUS
<1>5. NumberInv BY <1>4 DEF NumberInv, Numbered, Init, SdkInit
<1>6. PlaceInv BY ArgsAssumption DEF PlaceInv, Init
<1>7. WriterInv BY DEF WriterInv, Init, SdkInit
<1>8. CommitInv BY DEF CommitInv, Init, SdkInit
<1>. QED BY <1>1, <1>2, <1>3, <1>5, <1>6, <1>7, <1>8 DEF IInv

-----------------------------------------------------------------------------
(* TypeOK is inductive. *)
LEMMA StepType == TypeOK /\ [Next]_vars => TypeOK'
<1>. SUFFICES ASSUME TypeOK, [Next]_vars PROVE TypeOK' OBVIOUS
<1>0. NumRows \in Nat \ {0} /\ LCount \in Nat \ {0} BY ArgsAssumption
<1>n. /\ blockSize \in Nat /\ bufferSize \in Nat /\ value \in Nat /\ starts \in Nat
      /\ stops \in Nat /\ lcount \in 0 .. LCount /\ i \in 0 .. NumRows
      BY DEF TypeOK
<1>b. inblock \in BOOLEAN /\ open \in BOOLEAN /\ committed \in BOOLEAN BY DEF TypeOK
<1>s. writer \in Seq(Nat) /\ queue \in Seq(Nat) /\ inserted \in Seq(Nat) BY DEF TypeOK
<1>q. Len(queue) <= bufferSize BY DEF TypeOK
<1>l. link \in {"none", "up", "lost"} BY DEF TypeOK
<1>1. CASE NextRound BY <1>1, <1>0 DEF NextRound, sdkVars, TypeOK, Labels
<1>2. CASE WriteRow
  <2>1. Append(writer, value) \in Seq(Nat) /\ Append(queue, value) \in Seq(Nat)
        /\ Len(Append(queue, value)) = Len(queue) + 1
        BY <1>n, <1>s, AppendProperties
  <2>2. /\ pc' = "end row" /\ blockSize' = blockSize /\ bufferSize' = bufferSize
        /\ lcount' = lcount /\ i' = i /\ i < NumRows /\ value' = value + 1
        /\ starts' = starts /\ stops' = stops /\ link' = link
        /\ inserted' = inserted /\ committed' = committed
        BY <1>2 DEF WriteRow, Write
  <2>3. inblock' \in BOOLEAN
    <3>1. inblock' = (blockSize > 0) BY <1>2 DEF WriteRow
    <3>. QED BY <3>1
  <2>4. writer' \in Seq(Nat) /\ queue' \in Seq(Nat) /\ open' \in BOOLEAN
        /\ Len(queue') <= bufferSize'
    <3>1. CASE Buffered
      <4>1. /\ queue' = Append(queue, value) /\ writer' = writer /\ open' = open
            /\ Len(queue) < bufferSize
            BY <1>2, <3>1 DEF WriteRow, Write
      <4>2. Len(queue) + 1 <= bufferSize BY <1>n, <1>s, <4>1, LenProperties
      <4>. QED BY <1>b, <1>s, <2>1, <2>2, <4>1, <4>2
    <3>2. CASE ~Buffered
      <4>1. /\ queue' = queue /\ writer' = Append(writer, value)
            /\ open' = (open \/ (blockSize > 0 /\ ~inblock))
            BY <1>2, <3>2 DEF WriteRow, Write
      <4>2. open' \in BOOLEAN BY <4>1
      <4>. QED BY <1>q, <1>s, <2>1, <2>2, <4>1, <4>2
    <3>. QED BY <3>1, <3>2
  <2>5. pc' \in Labels /\ (pc' = "end row" => i' < NumRows) BY <2>2 DEF Labels
  <2>6. value' \in Nat
    <3>1. value \in Nat /\ value' = value + 1 BY <1>n, <2>2
    <3>. QED BY <3>1
  <2>. QED BY <1>n, <1>b, <1>s, <1>l, <2>2, <2>3, <2>4, <2>5, <2>6 DEF TypeOK
<1>3. CASE EndRow
  <2>1. i' \in 0 .. NumRows
    <3>1. i < NumRows /\ i' = i + 1 BY <1>3 DEF EndRow, GoTo, TypeOK
    <3>. QED BY <1>0, <1>n, <3>1
  <2>2. inserted \o writer \in Seq(Nat) /\ <<>> \in Seq(Nat)
        BY <1>s, ConcatProperties, EmptySeq
  <2>3. /\ pc' = "row" /\ blockSize' = blockSize /\ bufferSize' = bufferSize
        /\ lcount' = lcount /\ value' = value /\ starts' = starts /\ stops' = stops
        /\ link' = link /\ queue' = queue /\ committed' = committed
        /\ inblock' = (inblock /\ ~EndsBlock)
        BY <1>3 DEF EndRow, GoTo, Publish, sdkVars
  <2>4. inblock' \in BOOLEAN BY <2>3
  <2>5. writer' \in Seq(Nat) /\ inserted' \in Seq(Nat) /\ open' \in BOOLEAN
    <3>1. CASE Publish(EndsBlock)
      <4>1. writer' = <<>> /\ inserted' = inserted \o writer /\ open' = (open /\ ~EndsBlock)
            BY <3>1 DEF Publish
      <4>. QED BY <2>2, <4>1
    <3>2. CASE UNCHANGED sdkVars BY <1>b, <1>s, <3>2 DEF sdkVars
    <3>. QED BY <1>3, <3>1, <3>2 DEF EndRow
  <2>6. pc' \in Labels /\ (pc' = "end row" => i' < NumRows) BY <2>3 DEF Labels
  <2>. QED BY <1>n, <1>b, <1>s, <1>q, <1>l, <2>1, <2>3, <2>4, <2>5, <2>6 DEF TypeOK
<1>4. CASE EndRound BY <1>4, <1>0 DEF EndRound, Commit, sdkVars, rowVars, TypeOK, Labels
<1>5. CASE Start BY <1>5, <1>0 DEF Start, StartSdk, GoTo, rowVars, TypeOK, Labels
<1>6. CASE ConnectPublisher BY <1>6, <1>0 DEF ConnectPublisher, Connect, GoTo, rowVars, TypeOK, Labels
<1>7. CASE Report BY <1>7, <1>0 DEF Report, GoTo, sdkVars, TypeOK, Labels
<1>8. CASE StopPublisher BY <1>8, <1>0 DEF StopPublisher, StopSdk, GoTo, rowVars, TypeOK, Labels
<1>9. CASE Finally BY <1>9, <1>0 DEF Finally, StopSdk, GoTo, rowVars, TypeOK, Labels
<1>10. CASE Throw BY <1>10, <1>0 DEF Throw, sdkVars, TypeOK, Labels
<1>11. CASE LoseLink /\ UNCHANGED pubVars BY <1>11 DEF LoseLink, pubVars, rowVars, TypeOK
<1>12. CASE Send /\ UNCHANGED pubVars
  <2>1. Tail(queue) \in Seq(Nat) /\ Len(Tail(queue)) = Len(queue) - 1 /\ Head(queue) \in Nat
        BY <1>12, <1>s, HeadTailProperties, EmptySeq DEF Send
  <2>2. Append(inserted, Head(queue)) \in Seq(Nat) BY <1>s, <2>1, AppendProperties
  <2>3. queue' = Tail(queue) /\ bufferSize' = bufferSize BY <1>12 DEF Send
  <2>4. Len(queue') <= bufferSize' BY <1>n, <1>q, <1>s, <2>1, <2>3, LenProperties
  <2>5. queue' \in Seq(Nat) /\ inserted' \in Seq(Nat) BY <1>12, <2>1, <2>2 DEF Send
  <2>. QED BY <1>12, <2>4, <2>5 DEF Send, pubVars, TypeOK
<1>13. CASE UNCHANGED vars BY <1>13 DEF vars, TypeOK
<1>. QED BY <1>1, <1>2, <1>3, <1>4, <1>5, <1>6, <1>7, <1>8, <1>9, <1>10, <1>11, <1>12,
            <1>13, Steps

(* LifeInv is inductive. *)
LEMMA StepLife == TypeOK /\ LifeInv /\ [Next]_vars => LifeInv'
<1>. SUFFICES ASSUME TypeOK, LifeInv, [Next]_vars PROVE LifeInv' OBVIOUS
<1>0. starts \in Nat /\ stops \in Nat /\ queue \in Seq(Nat) /\ pc \in Labels BY DEF TypeOK
<1>. USE <1>0 DEF Labels, LifeInv
<1>1. CASE NextRound BY <1>1 DEF NextRound, sdkVars
<1>2. CASE WriteRow BY <1>2 DEF WriteRow, Write
<1>3. CASE EndRow BY <1>3 DEF EndRow, GoTo, Publish, sdkVars
<1>4. CASE EndRound BY <1>4 DEF EndRound, Commit, sdkVars, rowVars
<1>5. CASE Start BY <1>5 DEF Start, StartSdk, GoTo, rowVars
<1>6. CASE ConnectPublisher BY <1>6 DEF ConnectPublisher, Connect, GoTo, rowVars
<1>7. CASE Report BY <1>7 DEF Report, GoTo, sdkVars
<1>8. CASE StopPublisher BY <1>8 DEF StopPublisher, StopSdk, GoTo, rowVars
<1>9. CASE Finally BY <1>9 DEF Finally, StopSdk, GoTo, rowVars
<1>10. CASE Throw
  <2>1. /\ pc \in {"connect", "row", "end row", "report"} /\ pc' = "finally"
        /\ starts' = starts /\ stops' = stops
        BY <1>10 DEF Throw, sdkVars
  <2>2. starts' = 1 /\ stops' = 0 BY <2>1
  <2>3. (pc = "start" => starts = 0 /\ stops = 0)' BY <2>1
  <2>4. (pc # "start" => starts = 1)' BY <2>2
  <2>5. (pc \in {"connect", "round", "row", "end row", "report"} => stops = 0)' BY <2>2
  <2>6. (pc \in {"start", "connect"} => link = "none")' BY <2>1
  <2>7. (pc \in {"round", "row", "end row", "report"} => link # "none")' BY <2>1
  <2>8. (pc \in {"finally", "end"} /\ stops # 0 => link # "up")' BY <2>2
  <2>9. (pc = "end" => stops # 0)' BY <2>1
  <2>. QED BY <2>3, <2>4, <2>5, <2>6, <2>7, <2>8, <2>9
<1>11. CASE LoseLink /\ UNCHANGED pubVars BY <1>11 DEF LoseLink, pubVars, rowVars
<1>12. CASE Send /\ UNCHANGED pubVars BY <1>12 DEF Send, pubVars
<1>13. CASE UNCHANGED vars BY <1>13 DEF vars
<1>. QED BY <1>1, <1>2, <1>3, <1>4, <1>5, <1>6, <1>7, <1>8, <1>9, <1>10, <1>11, <1>12,
            <1>13, Steps

(* IdleInv is inductive: stop() has waited for the queue to be sent.       *)
LEMMA StepIdle == TypeOK /\ LifeInv /\ IdleInv /\ [Next]_vars => IdleInv'
<1>. SUFFICES ASSUME TypeOK, LifeInv, IdleInv, [Next]_vars PROVE IdleInv' OBVIOUS
<1>. USE DEF IdleInv
<1>1. CASE NextRound BY <1>1 DEF NextRound, sdkVars
<1>2. CASE WriteRow
  <2>1. link # "none" /\ link' = link BY <1>2 DEF WriteRow, Write, LifeInv
  <2>. QED BY <2>1
<1>3. CASE EndRow BY <1>3 DEF EndRow, Publish, sdkVars
<1>4. CASE EndRound BY <1>4 DEF EndRound, Commit, sdkVars, rowVars
<1>5. CASE Start BY <1>5 DEF Start, StartSdk, rowVars
<1>6. CASE ConnectPublisher BY <1>6 DEF ConnectPublisher, Connect
<1>7. CASE Report BY <1>7 DEF Report, sdkVars
<1>8. CASE StopPublisher \/ Finally
  <2>1. StopSdk BY <1>8 DEF StopPublisher, Finally
  <2>2. queue' = queue /\ (link' = link \/ queue = <<>>)
        BY <2>1 DEF StopSdk, rowVars
  <2>. QED BY <2>2
<1>9. CASE Throw BY <1>9 DEF Throw, sdkVars
<1>10. CASE LoseLink /\ UNCHANGED pubVars BY <1>10 DEF LoseLink
<1>11. CASE Send /\ UNCHANGED pubVars BY <1>11 DEF Send
<1>12. CASE UNCHANGED vars BY <1>12 DEF vars
<1>. QED BY <1>1, <1>2, <1>3, <1>4, <1>5, <1>6, <1>7, <1>8, <1>9, <1>10, <1>11, <1>12, Steps

(* ModeInv is inductive: EndRow clears inblock if and only if it tells the *)
(* writer to end the block.                                                *)
LEMMA StepMode == TypeOK /\ ModeInv /\ [Next]_vars => ModeInv'
<1>. SUFFICES ASSUME TypeOK, ModeInv, [Next]_vars PROVE ModeInv' OBVIOUS
<1>n. blockSize \in Nat BY DEF TypeOK
<1>b. inblock \in BOOLEAN /\ open \in BOOLEAN BY DEF TypeOK
<1>m. (Buffered => writer = <<>>) /\ (~Buffered => queue = <<>>) BY DEF ModeInv
<1>f. ~Buffered => (inblock <=> open) BY DEF ModeInv, BlockFlag
<1>z. blockSize = 0 => ~inblock BY DEF ModeInv
<1>1. CASE NextRound BY <1>1 DEF NextRound, sdkVars, Buffered, ModeInv, BlockFlag
<1>2. CASE WriteRow
  <2>1. Buffered' <=> Buffered BY <1>2 DEF WriteRow, Write, Buffered
  <2>2. blockSize' = blockSize BY <1>2 DEF WriteRow
  <2>3. inblock' = (blockSize > 0) BY <1>2 DEF WriteRow
  <2>4. inblock' <=> blockSize' > 0 BY <2>2, <2>3
  <2>5. blockSize' = 0 => ~inblock' BY <1>n, <2>2, <2>4
  <2>6. CASE Buffered
    <3>1. writer' = writer BY <1>2, <2>6 DEF WriteRow, Write
    <3>. QED BY <1>m, <2>1, <2>4, <2>5, <2>6, <3>1 DEF ModeInv, BlockFlag
  <2>7. CASE ~Buffered
    <3>1. open' = (open \/ (blockSize > 0 /\ ~inblock)) /\ queue' = queue
          BY <1>2, <2>7 DEF WriteRow, Write
    <3>2. ASSUME inblock PROVE inblock' <=> open'
      <4>1. blockSize > 0 BY <1>n, <1>z, <3>2
      <4>. QED BY <1>f, <2>3, <2>7, <3>1, <3>2, <4>1
    <3>3. ASSUME ~inblock, blockSize > 0 PROVE inblock' <=> open'
      <4>1. open' /\ inblock' BY <2>3, <3>1, <3>3
      <4>. QED BY <4>1
    <3>4. ASSUME ~inblock, ~(blockSize > 0) PROVE inblock' <=> open'
      <4>1. ~open' /\ ~inblock' BY <1>f, <2>3, <2>7, <3>1, <3>4
      <4>. QED BY <4>1
    <3>5. inblock' <=> open' BY <3>2, <3>3, <3>4
    <3>. QED BY <1>m, <2>1, <2>4, <2>5, <2>7, <3>1, <3>5 DEF ModeInv, BlockFlag
  <2>. QED BY <2>6, <2>7
<1>3. CASE EndRow
  <2>1. Buffered' <=> Buffered BY <1>3 DEF EndRow, Publish, sdkVars, Buffered
  <2>2. blockSize' = blockSize /\ queue' = queue /\ pc' # "end row"
        BY <1>3 DEF EndRow, GoTo, Publish, sdkVars
  <2>3. inblock' = (inblock /\ ~EndsBlock) BY <1>3 DEF EndRow
  <2>4. blockSize' = 0 => ~inblock' BY <1>z, <2>2, <2>3
  <2>5. CASE ~Buffered /\ (EndsBlock \/ blockSize = 0)
    <3>1. writer' = <<>> /\ open' = (open /\ ~EndsBlock)
          BY <1>3, <2>5 DEF EndRow, Publish
    <3>2. inblock' <=> open' BY <1>f, <2>3, <2>5, <3>1
    <3>. QED BY <1>m, <2>1, <2>2, <2>4, <2>5, <3>1, <3>2 DEF ModeInv, BlockFlag
  <2>6. CASE ~(~Buffered /\ (EndsBlock \/ blockSize = 0))
    <3>1. writer' = writer /\ open' = open BY <1>3, <2>6 DEF EndRow, sdkVars
    <3>2. ~Buffered => (inblock' <=> open') BY <1>f, <2>3, <2>6, <3>1
    <3>. QED BY <1>m, <2>1, <2>2, <2>4, <3>1, <3>2 DEF ModeInv, BlockFlag
  <2>. QED BY <2>5, <2>6
<1>4. CASE EndRound BY <1>4 DEF EndRound, Commit, sdkVars, rowVars, Buffered, ModeInv, BlockFlag
<1>5. CASE Still /\ pc' # "end row" BY <1>5 DEF Still, rowVars, Buffered, ModeInv, BlockFlag
<1>6. CASE LoseLink /\ UNCHANGED pubVars
      BY <1>6 DEF LoseLink, pubVars, rowVars, Buffered, ModeInv, BlockFlag
<1>7. CASE Send /\ UNCHANGED pubVars BY <1>7 DEF Send, pubVars, Buffered, ModeInv, BlockFlag
<1>8. CASE UNCHANGED vars BY <1>8 DEF vars, Buffered, ModeInv, BlockFlag
<1>9. Start \/ ConnectPublisher \/ Report \/ StopPublisher \/ Throw \/ Finally
      => pc' # "end row"
      BY DEF Start, ConnectPublisher, Report, StopPublisher, Throw, Finally, GoTo
<1>. QED BY <1>1, <1>2, <1>3, <1>4, <1>5, <1>6, <1>7, <1>8, <1>9, Steps, StillSteps

(* NumberInv is inductive: rows go from the writer or the queue to the     *)
(* stream in the order they were written.                                  *)
LEMMA StepNumber == TypeOK /\ ModeInv /\ NumberInv /\ [Next]_vars => NumberInv'
<1>. SUFFICES ASSUME TypeOK, ModeInv, NumberInv, [Next]_vars PROVE NumberInv' OBVIOUS
<1>s. writer \in Seq(Nat) /\ queue \in Seq(Nat) /\ inserted \in Seq(Nat) BY DEF TypeOK
<1>l. Len(writer) \in Nat /\ Len(queue) \in Nat /\ Len(inserted) \in Nat
      BY <1>s, LenProperties
<1>e. Len(<<>>) = 0 /\ \A n \in Nat : Numbered(<<>>, n) BY DEF Numbered
<1>m. (Buffered => writer = <<>>) /\ (~Buffered => queue = <<>>) BY DEF ModeInv
<1>v. /\ Numbered(inserted, 0) /\ Numbered(writer, Len(inserted))
      /\ Numbered(queue, Len(inserted))
      /\ value = Len(inserted) + Len(writer) + Len(queue)
      BY DEF NumberInv
<1>1. CASE UNCHANGED <<value, rowVars>> BY <1>1 DEF NumberInv, rowVars
<1>2. CASE WriteRow
  <2>1. value' = value + 1 /\ inserted' = inserted BY <1>2 DEF WriteRow, Write
  <2>2. CASE Buffered
    <3>1. queue' = Append(queue, value) /\ writer' = writer /\ writer = <<>>
          BY <1>2, <1>m, <2>2 DEF WriteRow, Write
    <3>2. value = Len(inserted) + Len(queue) BY <1>v, <1>l, <1>e, <3>1
    <3>3. Len(queue') = Len(queue) + 1 /\ Numbered(queue', Len(inserted))
          BY <1>s, <1>l, <1>v, <3>1, <3>2, AppendNumbered
    <3>. QED BY <1>l, <1>v, <2>1, <3>1, <3>3 DEF NumberInv
  <2>3. CASE ~Buffered
    <3>1. writer' = Append(writer, value) /\ queue' = queue /\ queue = <<>>
          BY <1>2, <1>m, <2>3 DEF WriteRow, Write
    <3>2. value = Len(inserted) + Len(writer) BY <1>v, <1>l, <1>e, <3>1
    <3>3. Len(writer') = Len(writer) + 1 /\ Numbered(writer', Len(inserted))
          BY <1>s, <1>l, <1>v, <3>1, <3>2, AppendNumbered
    <3>. QED BY <1>l, <1>v, <2>1, <3>1, <3>3 DEF NumberInv
  <2>. QED BY <2>2, <2>3
<1>3. CASE EndRow
  <2>1. value' = value BY <1>3 DEF EndRow
  <2>2. CASE ~Buffered /\ Publish(EndsBlock)
    <3>1. inserted' = inserted \o writer /\ writer' = <<>> /\ queue' = queue /\ queue = <<>>
          BY <1>m, <2>2 DEF Publish
    <3>2. Len(inserted') = Len(inserted) + Len(writer) /\ Numbered(inserted', 0)
          BY <1>s, <1>v, <3>1, ConcatNumbered
    <3>3. Numbered(writer', Len(inserted')) /\ Numbered(queue', Len(inserted'))
          BY <1>e, <1>l, <3>1, <3>2
    <3>. QED BY <1>e, <1>l, <1>v, <2>1, <3>1, <3>2, <3>3 DEF NumberInv
  <2>3. CASE UNCHANGED sdkVars BY <1>1, <2>1, <2>3 DEF sdkVars, rowVars
  <2>. QED BY <1>3, <2>2, <2>3 DEF EndRow
<1>4. CASE Send /\ UNCHANGED pubVars
  <2>1. queue # <<>> /\ queue' = Tail(queue) /\ inserted' = Append(inserted, Head(queue))
        /\ writer' = writer /\ value' = value
        BY <1>4 DEF Send, pubVars
  <2>2. writer = <<>> BY <1>m, <2>1
  <2>3. Head(queue) = Len(inserted) /\ Len(queue') = Len(queue) - 1
        /\ Numbered(queue', Len(inserted) + 1)
        BY <1>s, <1>l, <1>v, <2>1, TailNumbered
  <2>4. Append(inserted, 0 + Len(inserted)) = inserted' BY <1>l, <2>1, <2>3
  <2>5. Len(inserted') = Len(inserted) + 1 /\ Numbered(inserted', 0)
        BY <1>s, <1>v, <2>4, AppendNumbered
  <2>6. Numbered(writer', Len(inserted')) BY <1>e, <1>l, <2>1, <2>2, <2>5
  <2>. QED BY <1>l, <1>v, <2>1, <2>3, <2>5, <2>6 DEF NumberInv
<1>5. NextRound \/ EndRound \/ Still \/ (LoseLink /\ UNCHANGED pubVars) \/ UNCHANGED vars
      => UNCHANGED <<value, rowVars>>
      BY DEF NextRound, EndRound, Still, LoseLink, Commit, pubVars, rowVars, sdkVars, vars
<1>. QED BY <1>1, <1>2, <1>3, <1>4, <1>5, Steps, StillSteps

-----------------------------------------------------------------------------
(* A round more is NumRows rows more. *)
LEMMA OneRoundMore ==
    ASSUME NEW a \in Nat, NEW b \in Nat
    PROVE  (a + 1) * b = a * b + b /\ a * b \in Nat
OBVIOUS

(* PlaceInv is inductive. *)
LEMMA StepPlace == TypeOK /\ PlaceInv /\ [Next]_vars => PlaceInv'
<1>. SUFFICES ASSUME TypeOK, PlaceInv, [Next]_vars PROVE PlaceInv' OBVIOUS
<1>0. NumRows \in Nat /\ LCount \in Nat BY ArgsAssumption
<1>i. i \in Nat
  <2>1. i \in 0 .. NumRows BY DEF TypeOK
  <2>. QED BY <2>1, <1>0
<1>n. lcount \in 0 .. LCount /\ i \in Nat /\ value \in Nat BY <1>i DEF TypeOK
<1>1. CASE NextRound
  <2>1. lcount > 0 /\ pc' = "row" /\ lcount' = lcount - 1 /\ i' = 0
        /\ value' = (LCount - lcount) * NumRows
        BY <1>1 DEF NextRound, PlaceInv
  <2>2. LCount - lcount = LCount - lcount' - 1 /\ lcount' < LCount BY <1>0, <1>n, <2>1
  <2>3. (LCount - lcount) * NumRows \in Nat BY <1>0, <1>n, OneRoundMore
  <2>4. value' = (LCount - lcount' - 1) * NumRows + i' BY <2>1, <2>2, <2>3
  <2>. QED BY <2>1, <2>2, <2>4 DEF PlaceInv
<1>2. CASE WriteRow
  <2>1. pc' = "end row" /\ value' = value + 1 /\ lcount' = lcount /\ i' = i /\ lcount < LCount
        /\ value = (LCount - lcount - 1) * NumRows + i
        BY <1>2 DEF WriteRow, PlaceInv
  <2>2. value' = (LCount - lcount' - 1) * NumRows + i' + 1 BY <2>1
  <2>. QED BY <2>1, <2>2 DEF PlaceInv
<1>3. CASE EndRow
  <2>1. pc' = "row" /\ value' = value /\ lcount' = lcount /\ i' = i + 1 /\ lcount < LCount
        /\ value = (LCount - lcount - 1) * NumRows + i + 1
        BY <1>3 DEF EndRow, GoTo, PlaceInv
  <2>2. LCount - lcount - 1 \in Nat BY <1>0, <1>n, <2>1
  <2>3. (LCount - lcount - 1) * NumRows \in Nat BY <1>0, <2>2, OneRoundMore
  <2>4. value' = (LCount - lcount' - 1) * NumRows + i' BY <1>n, <2>1, <2>3
  <2>. QED BY <2>1, <2>4 DEF PlaceInv
<1>4. CASE EndRound
  <2>1. pc' = "report" /\ value' = value /\ lcount' = lcount /\ lcount < LCount
        /\ value = (LCount - lcount - 1) * NumRows + NumRows
        BY <1>4 DEF EndRound, PlaceInv
  <2>2. LCount - lcount - 1 \in Nat /\ LCount - lcount = (LCount - lcount - 1) + 1
        BY <1>0, <1>n, <2>1
  <2>3. value = (LCount - lcount) * NumRows BY <1>0, <2>1, <2>2, OneRoundMore
  <2>. QED BY <2>1, <2>3 DEF PlaceInv
<1>5. CASE ConnectPublisher
  <2>1. pc' = "round" /\ lcount' = LCount /\ value' = 0
        BY <1>5 DEF ConnectPublisher, GoTo, PlaceInv
  <2>2. (LCount - lcount') * NumRows = 0 BY <1>0, <2>1
  <2>. QED BY <2>1, <2>2 DEF PlaceInv
<1>6. CASE Start \/ Report BY <1>6 DEF Start, Report, GoTo, PlaceInv
<1>7. CASE StopPublisher \/ Throw \/ Finally
      BY <1>7 DEF StopPublisher, Throw, Finally, GoTo, PlaceInv
<1>8. CASE UNCHANGED pubVars BY <1>8 DEF pubVars, PlaceInv
<1>9. UNCHANGED vars => UNCHANGED pubVars BY DEF vars, pubVars
<1>. QED BY <1>1, <1>2, <1>3, <1>4, <1>5, <1>6, <1>7, <1>8, <1>9, Steps

(* WriterInv is inductive: the rows since the last one that ended a block  *)
(* wait, across the rounds, and they never fill more than a block.         *)
LEMMA StepWriter ==
    TypeOK /\ ModeInv /\ PlaceInv /\ WriterInv /\ [Next]_vars => WriterInv'
<1>. SUFFICES ASSUME TypeOK, ModeInv, PlaceInv, WriterInv, [Next]_vars, ~Buffered'
              PROVE  WriterInv'
     BY DEF WriterInv
<1>0. NumRows \in Nat \ {0} /\ LCount \in Nat BY ArgsAssumption
<1>n. blockSize \in Nat /\ i \in 0 .. NumRows /\ value \in Nat /\ lcount \in 0 .. LCount
      BY DEF TypeOK
<1>i. i \in Nat BY <1>0, <1>n
<1>v. value \in Nat BY <1>n
<1>s. writer \in Seq(Nat) /\ Len(writer) \in Nat BY LenProperties DEF TypeOK
<1>b. bufferSize' = bufferSize /\ blockSize' = blockSize
      BY Steps DEF NextRound, WriteRow, EndRow, EndRound, Start, ConnectPublisher, Report,
         StopPublisher, Throw, Finally, LoseLink, Send, pubVars, vars, sdkVars, rowVars,
         Write, Publish, Commit, StartSdk, StopSdk, Connect
<1>u. ~Buffered /\ queue = <<>> BY <1>b DEF Buffered, ModeInv
<1>1. CASE NextRound
  <2>1. pc = "round" /\ pc' = "row" /\ i' = 0 /\ value' = value /\ writer' = writer
        BY <1>1 DEF NextRound, sdkVars
  <2>2. Len(writer) = IF blockSize = 0 \/ value = 0 THEN 0 ELSE (NumRows - 1) % blockSize
        BY <1>u, <2>1 DEF WriterInv
  <2>. QED BY <1>b, <2>1, <2>2 DEF WriterInv, Waiting
<1>2. CASE WriteRow
  <2>1. pc = "row" /\ pc' = "end row" /\ i' = i /\ value' = value + 1
        /\ writer' = Append(writer, value)
        BY <1>2, <1>u DEF WriteRow, Write
  <2>2. Len(writer) = Waiting(value) /\ Len(writer') = Len(writer) + 1
        BY <1>u, <1>s, <1>n, <2>1, AppendProperties DEF WriterInv
  <2>3. value' - 1 = value
    <3>1. value' = value + 1 BY <2>1
    <3>. QED BY <1>v, <3>1
  <2>4. (Waiting(value - 1))' = Waiting(value) BY <1>b, <2>1, <2>3 DEF Waiting
  <2>. QED BY <2>1, <2>2, <2>4 DEF WriterInv
<1>3. CASE EndRow
  <2>0. i' = i + 1 BY <1>3 DEF EndRow
  <2>1. pc = "end row" /\ pc' = "row" /\ value' = value BY <1>3 DEF EndRow, GoTo
  <2>2. (Waiting(value))' = IF blockSize = 0 THEN 0 ELSE i % blockSize
    <3>1. i' - 1 = i /\ i' > 0 BY <1>i, <2>0
    <3>. QED BY <1>b, <3>1 DEF Waiting
  <2>3. inblock <=> blockSize > 0 BY <2>1 DEF ModeInv
  <2>4. CASE EndsBlock \/ blockSize = 0
    <3>1. writer' = <<>> BY <1>3, <1>u, <2>4 DEF EndRow, Publish
    <3>2. (Waiting(value))' = 0 BY <2>2, <2>4 DEF EndsBlock
    <3>3. Len(writer') = 0 BY <3>1
    <3>. QED BY <2>1, <3>2, <3>3 DEF WriterInv
  <2>5. CASE ~(EndsBlock \/ blockSize = 0)
    <3>1. writer' = writer BY <1>3, <2>5 DEF EndRow, sdkVars
    <3>2. blockSize > 0 /\ blockSize # 0 BY <1>n, <2>5
    <3>3. i % blockSize # 0 BY <2>3, <2>5, <3>2 DEF EndsBlock
    <3>4. i > 0 /\ i - 1 \in Nat /\ (i - 1) + 1 = i
      <4>1. 0 % blockSize = 0 BY <1>n, <3>2
      <4>. QED BY <1>n, <3>3, <4>1
    <3>5. i % blockSize = ((i - 1) % blockSize) + 1
      <4>1. blockSize \in Nat \ {0} BY <1>n, <3>2
      <4>2. ((i - 1) + 1) % blockSize # 0
            => ((i - 1) + 1) % blockSize = ((i - 1) % blockSize) + 1
            BY <3>4, <4>1, ModNext
      <4>. QED BY <3>3, <3>4, <4>2
    <3>6. Len(writer) = ((i - 1) % blockSize) + 1
          BY <1>u, <2>1, <3>2, <3>4 DEF WriterInv, Waiting
    <3>7. (i - 1) % blockSize \in 0 .. blockSize - 1 BY <1>n, <3>2, <3>4, ModRange
    <3>8. Len(writer') = (Waiting(value))' BY <2>2, <3>1, <3>2, <3>5, <3>6, <3>7
    <3>. QED BY <2>1, <3>8 DEF WriterInv
  <2>. QED BY <2>4, <2>5
<1>4. CASE EndRound
  <2>1. pc = "row" /\ i = NumRows /\ pc' = "report" /\ value' = value /\ writer' = writer
        /\ lcount < LCount
        BY <1>4 DEF EndRound, Commit, sdkVars, rowVars, PlaceInv
  <2>2. i > 0 /\ value # 0
    <3>1. LCount - lcount - 1 \in Nat BY <1>0, <1>n, <2>1
    <3>2. (LCount - lcount - 1) * NumRows \in Nat BY <1>0, <3>1, OneRoundMore
    <3>3. value = (LCount - lcount - 1) * NumRows + i BY <2>1 DEF PlaceInv
    <3>. QED BY <1>0, <2>1, <3>2, <3>3
  <2>3. Len(writer) = Waiting(value) BY <1>u, <2>1 DEF WriterInv
  <2>4. Len(writer) = IF blockSize = 0 THEN 0 ELSE (NumRows - 1) % blockSize
        BY <2>1, <2>2, <2>3 DEF Waiting
  <2>. QED BY <1>b, <2>1, <2>2, <2>4 DEF WriterInv
<1>5. CASE ConnectPublisher
  <2>1. pc = "connect" /\ pc' = "round" /\ value' = 0 /\ writer' = <<>>
        BY <1>5, <1>u DEF ConnectPublisher, Connect, GoTo, rowVars, PlaceInv, WriterInv
  <2>2. Len(writer') = 0 BY <2>1
  <2>. QED BY <2>1, <2>2 DEF WriterInv
<1>6. CASE Start
  <2>1. writer' = writer /\ pc = "start" /\ pc' = "connect"
        BY <1>6 DEF Start, StartSdk, GoTo, rowVars
  <2>. QED BY <1>u, <2>1 DEF WriterInv
<1>10. CASE Report
  <2>1. writer' = writer /\ value' = value /\ pc = "report" /\ pc' = "round"
        BY <1>10 DEF Report, GoTo, sdkVars
  <2>. QED BY <1>u, <1>b, <2>1 DEF WriterInv
<1>7. CASE StopPublisher \/ Throw \/ Finally
  <2>1. pc' \in {"finally", "end"} BY <1>7 DEF StopPublisher, Throw, Finally, GoTo
  <2>. QED BY <2>1 DEF WriterInv
<1>8. CASE UNCHANGED <<pubVars, writer>>
      BY <1>u, <1>8 DEF pubVars, WriterInv, Waiting
<1>9. ((LoseLink \/ Send) /\ UNCHANGED pubVars) \/ UNCHANGED vars
      => UNCHANGED <<pubVars, writer>>
      BY DEF vars, pubVars, LoseLink, Send, rowVars
<1>. QED BY <1>1, <1>2, <1>3, <1>4, <1>5, <1>6, <1>7, <1>8, <1>9, <1>10, Steps

(* CommitInv is inductive: all rows but those of an open block have been   *)
(* inserted when the last round commits, and the thread writes none after. *)
LEMMA StepCommit == IInv /\ [Next]_vars => CommitInv'
<1>. SUFFICES ASSUME IInv, [Next]_vars PROVE CommitInv' OBVIOUS
<1>0. NumRows \in Nat \ {0} /\ LCount \in Nat \ {0} BY ArgsAssumption
<1>t. TypeOK /\ ModeInv /\ NumberInv /\ PlaceInv /\ WriterInv /\ CommitInv BY DEF IInv
<1>1. CASE UNCHANGED <<lcount, rowVars, blockSize, bufferSize, committed>>
           /\ (committed => pc' \in {"report", "round", "finally", "end"})
      BY <1>1, <1>t DEF CommitInv, CommittedRows, Leftover, Buffered, rowVars
<1>2. CASE NextRound \/ WriteRow \/ EndRow
  <2>1. ~committed
    <3>1. NextRound => lcount # 0
      <4>1. lcount \in 0 .. LCount BY <1>t DEF TypeOK
      <4>. QED BY <4>1 DEF NextRound
    <3>2. WriteRow \/ EndRow => pc \notin {"report", "round", "finally", "end"}
          BY DEF WriteRow, EndRow, GoTo
    <3>. QED BY <1>2, <1>t, <3>1, <3>2 DEF CommitInv
  <2>2. committed' = committed
        BY <1>2 DEF NextRound, WriteRow, EndRow, Write, Publish, sdkVars
  <2>. QED BY <2>1, <2>2 DEF CommitInv
<1>3. CASE EndRound
  <2>1. pc = "row" /\ i = NumRows /\ pc' = "report"
        /\ UNCHANGED <<blockSize, bufferSize, lcount, i, value, rowVars>>
        BY <1>3 DEF EndRound, Commit, sdkVars, rowVars
  <2>2. ~committed BY <1>t, <2>1 DEF CommitInv
  <2>3. CASE lcount = 0
    <3>1. queue = <<>> /\ queue' = <<>> BY <1>3, <2>3 DEF EndRound, Commit, rowVars
    <3>2. Len(inserted) \in Nat /\ Len(writer) \in Nat /\ Len(queue) = 0
          BY <1>t, <3>1, LenProperties DEF TypeOK
    <3>3. value = Len(inserted) + Len(writer) BY <1>t, <3>2 DEF NumberInv
    <3>4. value = NumRows * LCount
      <4>1. value = (LCount - 0 - 1) * NumRows + NumRows BY <1>t, <2>1, <2>3 DEF PlaceInv
      <4>2. LCount - 1 \in Nat /\ LCount = (LCount - 1) + 1 BY <1>0
      <4>3. value = LCount * NumRows BY <1>0, <4>1, <4>2, OneRoundMore
      <4>. QED BY <1>0, <4>3
    <3>5. Len(writer) = Leftover
      <4>1. CASE Buffered
        <5>1. writer = <<>> BY <1>t, <4>1 DEF ModeInv
        <5>. QED BY <4>1, <5>1 DEF Leftover
      <4>2. CASE ~Buffered
        <5>1. Len(writer) = Waiting(value) BY <1>t, <2>1, <4>2 DEF WriterInv
        <5>2. i > 0 BY <1>0, <2>1
        <5>. QED BY <2>1, <4>2, <5>1, <5>2 DEF Waiting, Leftover
      <4>. QED BY <4>1, <4>2
    <3>6. Len(inserted) = NumRows * LCount - Leftover BY <3>2, <3>3, <3>4, <3>5
    <3>7. inserted' = inserted /\ Leftover' = Leftover
          BY <2>1 DEF rowVars, Leftover, Buffered
    <3>8. Len(inserted') = NumRows * LCount - Leftover' BY <3>6, <3>7
    <3>9. pc' \in {"report", "round", "finally", "end"} /\ lcount' = 0 BY <2>1, <2>3
    <3>. QED BY <3>1, <3>8, <3>9 DEF CommitInv, CommittedRows
  <2>4. CASE lcount # 0
    <3>1. committed' = committed BY <1>3, <2>4 DEF EndRound, sdkVars
    <3>. QED BY <2>2, <3>1 DEF CommitInv
  <2>. QED BY <2>3, <2>4
<1>4. ASSUME committed,
             Start \/ ConnectPublisher \/ Report \/ StopPublisher \/ Throw \/ Finally
             \/ (LoseLink /\ UNCHANGED pubVars) \/ UNCHANGED vars
      PROVE  pc' \in {"report", "round", "finally", "end"}
  <2>1. pc \in {"report", "round", "finally", "end"} BY <1>4, <1>t DEF CommitInv
  <2>. QED BY <1>4, <2>1 DEF Start, ConnectPublisher, Report, StopPublisher, Throw, Finally,
                             GoTo, pubVars, vars
<1>5. CASE Send /\ UNCHANGED pubVars
  <2>1. ~committed /\ committed' = committed BY <1>5, <1>t DEF Send, CommitInv
  <2>. QED BY <2>1 DEF CommitInv
<1>6. Still \/ UNCHANGED vars \/ (LoseLink /\ UNCHANGED pubVars)
      => UNCHANGED <<lcount, rowVars, blockSize, bufferSize, committed>>
      BY DEF Still, vars, rowVars, LoseLink, pubVars
<1>. QED BY <1>1, <1>2, <1>3, <1>4, <1>5, <1>6, Steps, StillSteps

-----------------------------------------------------------------------------
(* IInv holds for ever. *)
LEMMA StepInv == IInv /\ [Next]_vars => IInv'
<1>. SUFFICES ASSUME IInv, [Next]_vars PROVE IInv' OBVIOUS
<1>1. TypeOK' /\ LifeInv' /\ IdleInv' /\ ModeInv' /\ NumberInv'
      BY StepType, StepLife, StepIdle, StepMode, StepNumber DEF IInv
<1>2. PlaceInv' /\ WriterInv' /\ CommitInv'
      BY StepPlace, StepWriter, StepCommit DEF IInv
<1>. QED BY <1>1, <1>2 DEF IInv

LEMMA Invariant == Spec => []IInv
<1>1. Init => IInv BY InitInv
<1>2. IInv /\ [Next]_vars => IInv' BY StepInv
<1>. QED BY <1>1, <1>2, PTL DEF Spec

(* The state keeps its shape; the queue never holds more rows than the     *)
(* buffer size that was asked for.                                         *)
THEOREM TypeCorrect == Spec => []TypeOK
BY Invariant, PTL DEF IInv

(* A transaction is open exactly as long as inblock is set, over rounds    *)
(* and exceptions (DbagPublisher.java:75-101).                             *)
THEOREM BlockFlagRight == Spec => []BlockFlag
<1>1. IInv => BlockFlag BY DEF IInv, ModeInv
<1>. QED BY <1>1, Invariant, PTL

(* The commit leaves out the rows of the open transaction and no others,   *)
(* whatever the number of rows is to the block size                        *)
(* (DbagPublisher.java:97, :107-110).                                      *)
THEOREM AllButTheOpenBlock == Spec => []CommittedRows
<1>1. IInv => CommittedRows BY DEF IInv, CommitInv, CommittedRows
<1>. QED BY <1>1, Invariant, PTL

(* No row is left in the queue of a working connection when main ends, on  *)
(* whichever way it got there (DbagPublisher.java:136-147).                *)
THEOREM QueueDrained == Spec => []DrainedAtEnd
<1>1. IInv => DrainedAtEnd
  <2>. SUFFICES ASSUME IInv, pc = "end", link # "lost" PROVE queue = <<>>
       BY DEF DrainedAtEnd
  <2>1. link # "up" BY DEF IInv, LifeInv
  <2>2. link = "none" BY <2>1 DEF IInv, TypeOK
  <2>. QED BY <2>2 DEF IInv, IdleInv
<1>. QED BY <1>1, Invariant, PTL

-----------------------------------------------------------------------------
(* The abstract transaction size of the refinement mapping.                *)
Most == IF Buffered \/ blockSize = 0 THEN 1 ELSE blockSize

LEMMA MostType == TypeOK => Most \in Nat \ {0}
<1>. SUFFICES ASSUME TypeOK PROVE Most \in Nat \ {0} OBVIOUS
<1>1. blockSize \in Nat BY DEF TypeOK
<1>. QED BY <1>1 DEF Most

(* Every step inserts the next rows, a transaction's at most, or commits,  *)
(* or is nothing to the stream.                                            *)
LEMMA StepStream == IInv /\ IInv' /\ [Next]_vars => [Stream!Next]_(Stream!vars)
<1>. SUFFICES ASSUME IInv, IInv', [Next]_vars PROVE [Stream!Next]_(Stream!vars) OBVIOUS
<1>0. NumRows \in Nat \ {0} /\ LCount \in Nat \ {0} BY ArgsAssumption
<1>t. TypeOK /\ ModeInv /\ NumberInv /\ WriterInv /\ CommitInv BY DEF IInv
<1>m. Most \in Nat \ {0} BY <1>t, MostType
<1>s. writer \in Seq(Nat) /\ queue \in Seq(Nat) /\ inserted \in Seq(Nat)
      /\ Len(writer) \in Nat /\ Len(queue) \in Nat /\ Len(inserted) \in Nat
      BY <1>t, LenProperties DEF TypeOK
<1>b. Most' = Most
  <2>1. bufferSize' = bufferSize /\ blockSize' = blockSize
        BY Steps DEF NextRound, WriteRow, EndRow, EndRound, Start, ConnectPublisher, Report,
           StopPublisher, Throw, Finally, LoseLink, Send, pubVars, vars, sdkVars, rowVars,
           Write, Publish, Commit, StartSdk, StopSdk, Connect
  <2>. QED BY <2>1 DEF Most, Buffered
<1>1. CASE UNCHANGED <<inserted, committed>>
      BY <1>1, <1>b DEF Stream!vars, Most
<1>2. ASSUME ~committed, committed' = committed,
             NEW n \in 1 .. Most, inserted' = inserted \o Stream!Rows(Len(inserted), n)
      PROVE  Stream!Next
      BY <1>2, <1>b DEF Stream!Next, Stream!Insert, Most
<1>3. CASE EndRow /\ Publish(EndsBlock) /\ ~Buffered /\ (EndsBlock \/ blockSize = 0)
  <2>1. pc = "end row" /\ committed' = committed /\ inserted' = inserted \o writer
        BY <1>3 DEF EndRow, GoTo, Publish
  <2>2. ~committed BY <1>t, <2>1 DEF CommitInv
  <2>3. Len(writer) \in 1 .. Most
    <3>0. Len(writer) = Waiting(value - 1) + 1 BY <1>3, <1>t, <2>1 DEF WriterInv
    <3>1. CASE blockSize = 0
      <4>1. Waiting(value - 1) = 0 /\ Most = 1 BY <3>1 DEF Waiting, Most
      <4>. QED BY <3>0, <4>1
    <3>2. CASE blockSize # 0
      <4>1. Most = blockSize /\ blockSize \in Nat \ {0} BY <1>3, <1>t, <3>2 DEF Most, TypeOK
      <4>2. i \in Nat /\ NumRows - 1 \in Nat
        <5>1. i \in 0 .. NumRows BY <1>t DEF TypeOK
        <5>. QED BY <1>0, <5>1
      <4>3. i > 0 => (i - 1) % blockSize \in 0 .. blockSize - 1
        <5>1. i > 0 => i - 1 \in Nat BY <4>2
        <5>. QED BY <4>1, <5>1, ModRange
      <4>4. (NumRows - 1) % blockSize \in 0 .. blockSize - 1 BY <4>1, <4>2, ModRange
      <4>5. Waiting(value - 1) \in 0 .. blockSize - 1 BY <3>2, <4>1, <4>3, <4>4 DEF Waiting
      <4>. QED BY <3>0, <4>1, <4>5
    <3>. QED BY <3>1, <3>2
  <2>4. writer = Stream!Rows(Len(inserted), Len(writer))
        BY <1>s, <1>t, ConcatNumbered DEF NumberInv, Stream!Rows
  <2>. QED BY <1>2, <2>1, <2>2, <2>3, <2>4
<1>4. CASE Send /\ UNCHANGED pubVars
  <2>1. queue # <<>> /\ inserted' = Append(inserted, Head(queue)) /\ committed' = committed
        BY <1>4 DEF Send
  <2>2. ~committed BY <1>t, <2>1 DEF CommitInv
  <2>3. Head(queue) = Len(inserted) BY <1>s, <1>t, <2>1, TailNumbered DEF NumberInv
  <2>4. inserted' = inserted \o <<Len(inserted)>>
        BY <1>s, <2>1, <2>3, AppendIsConcat
  <2>5. Stream!Rows(Len(inserted), 1) = <<Len(inserted)>>
    <3>1. Stream!Rows(Len(inserted), 1) = [j \in 1 .. 1 |-> Len(inserted)]
          BY <1>s DEF Stream!Rows
    <3>. QED BY <3>1
  <2>6. 1 \in 1 .. Most BY <1>m
  <2>. QED BY <1>2, <2>1, <2>2, <2>4, <2>5, <2>6
<1>5. CASE EndRound /\ Commit
  <2>1. /\ pc = "row" /\ committed' = TRUE
        /\ UNCHANGED <<inserted, bufferSize, blockSize>>
        BY <1>5 DEF EndRound, Commit, rowVars
  <2>2. ~committed BY <1>t, <2>1 DEF CommitInv
  <2>3. Len(inserted) = NumRows * LCount - Leftover
        BY <2>1 DEF IInv, CommitInv, CommittedRows, Leftover, Buffered
  <2>4. Leftover \in 0 .. Most - 1
    <3>1. CASE Buffered \/ blockSize = 0 BY <3>1 DEF Leftover, Most
    <3>2. CASE ~(Buffered \/ blockSize = 0)
      <4>0. blockSize \in Nat BY <1>t DEF TypeOK
      <4>1. blockSize \in Nat \ {0} /\ NumRows - 1 \in Nat BY <1>0, <3>2, <4>0
      <4>. QED BY <3>2, <4>1, ModRange DEF Leftover, Most
    <3>. QED BY <3>1, <3>2
  <2>5. NumRows * LCount \in Nat BY <1>0, OneRoundMore
  <2>6. Len(inserted) + Most > NumRows * LCount BY <1>m, <2>3, <2>4, <2>5
  <2>. QED BY <1>b, <2>1, <2>2, <2>6 DEF Stream!Next, Stream!Commit, Most
<1>6. ASSUME NextRound \/ WriteRow \/ Still \/ (LoseLink /\ UNCHANGED pubVars) \/ UNCHANGED vars
             \/ (EndRow /\ UNCHANGED sdkVars) \/ (EndRound /\ UNCHANGED sdkVars)
      PROVE  UNCHANGED <<inserted, committed>>
      BY <1>6 DEF NextRound, WriteRow, Write, Still, LoseLink, vars, rowVars, sdkVars
<1>7. EndRow => \/ EndRow /\ UNCHANGED sdkVars
                \/ EndRow /\ Publish(EndsBlock) /\ ~Buffered /\ (EndsBlock \/ blockSize = 0)
      BY DEF EndRow
<1>8. EndRound => \/ EndRound /\ UNCHANGED sdkVars
                  \/ EndRound /\ Commit
  <2>1. EndRound => UNCHANGED sdkVars \/ Commit BY DEF EndRound
  <2>. QED BY <2>1
<1>. QED BY <1>1, <1>3, <1>4, <1>5, <1>6, <1>7, <1>8, Steps, StillSteps

(* The publisher implements RowStream for every number of rows and rounds, *)
(* every block size and every buffer size: rows arrive in order, each      *)
(* once, a transaction at a time (DbagPublisher.java:71-112).              *)
THEOREM StreamImplemented == Spec => ImplementsStream
<1>1. Init => Stream!Init
  <2>. SUFFICES ASSUME Init PROVE Stream!Init OBVIOUS
  <2>1. Most \in Nat \ {0} BY InitType, MostType
  <2>2. inserted = <<>> /\ committed = FALSE BY DEF Init, SdkInit
  <2>. QED BY <2>1, <2>2 DEF Stream!Init, Most
<1>2. IInv /\ IInv' /\ [Next]_vars => [Stream!Next]_(Stream!vars) BY StepStream
<1>. QED BY <1>1, <1>2, Invariant, PTL DEF Spec, ImplementsStream, Stream!Spec
===============================================================================

---------------------------- MODULE NetFeed_proofs ----------------------------
(***************************************************************************)
(* Proofs about the network feed, for every number of events per round,    *)
(* sampling rate, history and number of rounds, and about the pool of byte *)
(* arrays that EventReceiver.java holds beside it.                         *)
(***************************************************************************)
EXTENDS NetFeed, StupidPool, DataLemmas

(***************************************************************************)
(* The topic: what its operators return.                                   *)
(***************************************************************************)
(* A successful offer() leaves a topic of the same payload. *)
LEMMA OfferedType ==
    ASSUME NEW P, NEW t \in Topics(P), NEW m \in P
    PROVE  Offered(t, m) \in Topics(P)
<1>1. CASE Follows(t)
  <2>1. Append(t.queue, m) \in Seq(P) BY DEF Topics
  <2>. QED BY <1>1, <2>1 DEF Offered, Topics
<1>2. CASE ~Follows(t)
  <2>1. t.open \in BOOLEAN BY DEF Topics
  <2>. QED BY <1>2, <2>1 DEF Offered, Topics
<1>. QED BY <1>1, <1>2

(* Taking the next message leaves a topic; the message is a payload. *)
LEMMA TakenType ==
    ASSUME NEW P, NEW t \in Topics(P), Deliverable(t)
    PROVE  Taken(t) \in Topics(P) /\ Head(t.queue) \in P
BY DEF Taken, Deliverable, Topics

(* What a dead publisher leaves behind is a topic. *)
LEMMA OrphanedType ==
    ASSUME NEW P, NEW t \in Topics(P), NEW k \in 0 .. Len(t.queue), NEW gap \in BOOLEAN
    PROVE  Orphaned(t, k, gap) \in Topics(P)
<1>1. SubSeq(t.queue, 1, k) \in Seq(P) BY DEF Topics
<1>2. (gap /\ t.gap) \in BOOLEAN OBVIOUS
<1>. QED BY <1>1, <1>2 DEF Orphaned, Topics

-----------------------------------------------------------------------------
(* TypeOK is inductive: the state keeps its shape over every step. *)
LEMMA InitType == Init => TypeOK
<1>. SUFFICES ASSUME Init PROVE TypeOK OBVIOUS
<1>. USE DEF Init, PubInit, RecvInit
<1>1. stream \in Topics(Msg) /\ back \in Topics(BackMsg)
      BY DEF Unsubscribed, Subscribed, Topics
<1>2. pubRound \in Round /\ pubI \in 0 .. NumEvents
      BY FeedAssumption DEF Round
<1>3. histos \in Seq(Histograms) /\ hi \in DOMAIN histos
  <2>1. NewHistogram \in Histograms BY DEF NewHistogram, Histograms
  <2>. QED BY <2>1
<1>4. ends \in Seq(BackMsg) /\ dumping \subseteq DOMAIN histos /\ printed \in Seq(DOMAIN histos)
      OBVIOUS
<1>5. inc \in Nat /\ count \in 0 .. SampleEvery - 1 /\ cur \in Seq(Msg) /\ Len(cur) <= 1
      BY SampleAssumption
<1>. QED BY <1>1, <1>2, <1>3, <1>4, <1>5 DEF TypeOK

LEMMA StepType == TypeOK /\ [Next]_vars => TypeOK'
<1>. SUFFICES ASSUME TypeOK, [Next]_vars PROVE TypeOK' OBVIOUS
<1>m. NextMsg \in Msg BY FeedAssumption DEF TypeOK, NextMsg, Msg
<1>o. Offered(stream, NextMsg) \in Topics(Msg) BY <1>m, OfferedType DEF TypeOK
<1>1. CASE SendEvent /\ UNCHANGED recvVars
      BY <1>1, <1>o, FeedAssumption DEF SendEvent, recvVars, measureVars, TypeOK
<1>2. CASE SendEnd /\ UNCHANGED recvVars
      BY <1>2, <1>o, FeedAssumption DEF SendEnd, recvVars, measureVars, TypeOK, Round
<1>3. ASSUME NEW fast \in BOOLEAN, RecordLatency(fast), UNCHANGED recvVars
      PROVE  TypeOK'
  <2>. DEFINE m == Head(back.queue)
  <2>1. Taken(back) \in Topics(BackMsg) /\ m \in BackMsg
        BY <1>3, TakenType DEF RecordLatency, TypeOK
  <2>2. Sample(m) \in Event
        BY <1>3, <2>1, FeedAssumption DEF RecordLatency, Sample, Event, Msg, BackMsg, IsEnd
  <2>3. histos' \in Seq(Histograms) /\ Len(histos') = Len(histos)
    <3>1. \E h \in Histograms : histos' = [histos EXCEPT ![hi] = h]
      <4>. DEFINE r == [histos[hi] EXCEPT !.rec = @ \cup {Sample(m)}]
                  c == [histos[hi] EXCEPT !.cut = @ \cup {Sample(m)}]
      <4>1. histos[hi] \in Histograms BY DEF TypeOK
      <4>2. r \in Histograms /\ c \in Histograms BY <2>2, <4>1 DEF Histograms
      <4>3. CASE fast
        <5>1. histos' = [histos EXCEPT ![hi] = r] BY <1>3, <4>3 DEF RecordLatency
        <5>. QED BY <4>2, <5>1
      <4>4. CASE ~fast
        <5>1. histos' = [histos EXCEPT ![hi] = c] BY <1>3, <4>4 DEF RecordLatency
        <5>. QED BY <4>2, <5>1
      <4>. QED BY <4>3, <4>4
    <3>. QED BY <3>1 DEF TypeOK
  <2>. QED BY <1>3, <2>1, <2>3 DEF RecordLatency, recvVars, senderVars, TypeOK
<1>4. CASE CloseRound /\ UNCHANGED recvVars
  <2>1. Taken(back) \in Topics(BackMsg) /\ Head(back.queue) \in BackMsg
        BY <1>4, TakenType DEF CloseRound, TypeOK
  <2>2. NewHistogram \in Histograms BY DEF NewHistogram, Histograms
  <2>3. /\ histos' \in Seq(Histograms) /\ DOMAIN histos' = 1 .. Len(histos) + 1
        /\ DOMAIN histos = 1 .. Len(histos)
        BY <1>4, <2>2 DEF CloseRound, TypeOK
  <2>4. printed' \in Seq(DOMAIN histos')
        BY <1>4, <2>3 DEF CloseRound, TypeOK
  <2>. QED BY <1>4, <2>1, <2>3, <2>4 DEF CloseRound, recvVars, senderVars, TypeOK
<1>5. CASE LoseBack /\ UNCHANGED recvVars
  <2>1. Unsubscribed \in Topics(BackMsg) BY DEF Unsubscribed, Topics
  <2>. QED BY <1>5, <2>1 DEF LoseBack, recvVars, senderVars, measureVars, TypeOK
<1>6. ASSUME NEW k \in dumping, Dump(k), UNCHANGED recvVars
      PROVE  TypeOK'
      BY <1>6 DEF Dump, recvVars, senderVars, TypeOK
<1>7. CASE Start /\ UNCHANGED pubVars
  <2>1. Subscribed \in Topics(Msg) BY DEF Subscribed, Topics
  <2>. QED BY <1>7, <2>1, SampleAssumption DEF Start, pubVars, TypeOK
<1>8. CASE ReceiveEvent /\ UNCHANGED pubVars
  <2>1. Taken(stream) \in Topics(Msg) /\ Head(stream.queue) \in Msg
        BY <1>8, TakenType DEF ReceiveEvent, TypeOK
  <2>2. count' \in 0 .. SampleEvery - 1
        BY <1>8, SampleAssumption DEF ReceiveEvent, TypeOK
  <2>3. cur' \in Seq(Msg) /\ Len(cur') <= 1
    <3>1. CASE count + 1 = SampleEvery
      <4>1. cur' = <<Head(stream.queue)>> BY <1>8, <3>1 DEF ReceiveEvent
      <4>. QED BY <2>1, <4>1
    <3>2. CASE count + 1 # SampleEvery
      <4>1. cur' = cur BY <1>8, <3>2 DEF ReceiveEvent
      <4>. QED BY <4>1 DEF TypeOK
    <3>. QED BY <3>1, <3>2
  <2>. QED BY <1>8, <2>1, <2>2, <2>3 DEF ReceiveEvent, pubVars, TypeOK
<1>9. CASE ReceiveEnd /\ UNCHANGED pubVars
  <2>1. Taken(stream) \in Topics(Msg) /\ Head(stream.queue) \in Msg
        BY <1>9, TakenType DEF ReceiveEnd, TypeOK
  <2>. QED BY <1>9, <2>1 DEF ReceiveEnd, pubVars, TypeOK
<1>10. CASE Bounce /\ UNCHANGED pubVars
  <2>. DEFINE m == Head(cur)
  <2>m. m \in Msg BY <1>10 DEF Bounce, TypeOK
  <2>1. Bounced(m) \in BackMsg BY <2>m DEF Bounced, TypeOK, Msg, BackMsg
  <2>2. back' \in Topics(BackMsg)
        BY <1>10, <2>1, OfferedType DEF Bounce, TypeOK
  <2>. QED BY <1>10, <2>2 DEF Bounce, pubVars, TypeOK
<1>11. CASE Exit /\ UNCHANGED pubVars
  <2>1. back \in Topics(BackMsg) BY DEF TypeOK
  <2>2. back' \in Topics(BackMsg) BY <1>11, <2>1, OrphanedType DEF Exit

  <2>3. Unsubscribed \in Topics(Msg) BY DEF Unsubscribed, Topics
  <2>. QED BY <1>11, <2>2, <2>3, SampleAssumption DEF Exit, pubVars, TypeOK
<1>12. CASE UNCHANGED vars
       BY <1>12 DEF vars, TypeOK
<1>. QED BY <1>1, <1>2, <1>3, <1>4, <1>5, <1>6, <1>7, <1>8, <1>9, <1>10, <1>11, <1>12
         DEF Next, PubStep, RecvStep, PubSend, PubReceive, PubDump, RecvHandle, Quiescent

(* The state of the feed is well typed in every behaviour. *)
THEOREM TypeCorrect == Spec => []TypeOK
BY InitType, StepType, PTL DEF Spec

-----------------------------------------------------------------------------
(***************************************************************************)
(* Queues in order.                                                        *)
(***************************************************************************)
(* The head of an ordered queue comes before the rest, which is ordered. *)
LEMMA TakenInOrder ==
    ASSUME NEW P, NEW t \in Topics(P), Deliverable(t), InOrder(t.queue)
    PROVE  /\ InOrder(Taken(t).queue)
           /\ Range(t.queue) = {Head(t.queue)} \cup Range(Taken(t).queue)
           /\ AllBefore({Head(t.queue)}, Range(Taken(t).queue))
<1>. DEFINE q == t.queue
            r == Taken(t).queue
<1>1. q \in Seq(P) /\ q # <<>> BY DEF Topics, Deliverable
<1>2. r = Tail(q) BY DEF Taken, Topics
<1>3. /\ Len(q) \in Nat /\ Len(q) > 0 /\ DOMAIN q = 1 .. Len(q)
      /\ DOMAIN r = 1 .. Len(q) - 1
      /\ \A i \in 1 .. Len(q) - 1 : r[i] = q[i + 1]
      /\ Head(q) = q[1]
      BY <1>1, <1>2
<1>. HIDE DEF q, r
<1>4. InOrder(q) BY DEF q
<1>5. InOrder(r)
  <2>. SUFFICES ASSUME NEW i \in DOMAIN r, NEW j \in DOMAIN r, i < j
                PROVE  Before(r[i], r[j])
       BY DEF InOrder
  <2>1. i + 1 \in DOMAIN q /\ j + 1 \in DOMAIN q /\ i + 1 < j + 1 BY <1>3
  <2>. QED BY <1>3, <1>4, <2>1 DEF InOrder
<1>6. Range(q) = {Head(q)} \cup Range(r)
  <2>1. ASSUME NEW x \in Range(q) PROVE x \in {Head(q)} \cup Range(r)
    <3>1. PICK i \in DOMAIN q : q[i] = x BY DEF Range
    <3>2. CASE i = 1 BY <1>3, <3>1, <3>2
    <3>3. CASE i # 1
      <4>1. i - 1 \in 1 .. Len(q) - 1 /\ (i - 1) + 1 = i BY <1>3, <3>1, <3>3
      <4>2. r[i - 1] = x BY <1>3, <3>1, <4>1
      <4>. QED BY <1>3, <4>1, <4>2 DEF Range
    <3>. QED BY <3>2, <3>3
  <2>2. Head(q) \in Range(q) BY <1>3 DEF Range
  <2>3. ASSUME NEW x \in Range(r) PROVE x \in Range(q)
    <3>1. PICK i \in DOMAIN r : r[i] = x BY DEF Range
    <3>2. i + 1 \in DOMAIN q /\ q[i + 1] = x BY <1>3, <3>1
    <3>. QED BY <3>2 DEF Range
  <2>. QED BY <2>1, <2>2, <2>3
<1>7. ASSUME NEW x \in Range(r) PROVE Before(Head(q), x)
  <2>1. PICK i \in DOMAIN r : r[i] = x BY DEF Range
  <2>2. i + 1 \in DOMAIN q /\ 1 < i + 1 /\ 1 \in DOMAIN q BY <1>3, <2>1
  <2>. QED BY <1>3, <1>4, <2>1, <2>2 DEF InOrder
<1>. QED BY <1>5, <1>6, <1>7 DEF AllBefore, q, r

(* An offered message goes last; at worst it is lost. *)
LEMMA OfferedInOrder ==
    ASSUME NEW P, NEW t \in Topics(P), NEW m, InOrder(t.queue),
           AllBefore(Range(t.queue), {m})
    PROVE  /\ InOrder(Offered(t, m).queue)
           /\ Range(Offered(t, m).queue) \subseteq Range(t.queue) \cup {m}
<1>1. CASE Follows(t)
  <2>. DEFINE q == t.queue
              r == Offered(t, m).queue
  <2>1. q \in Seq(P) BY DEF Topics
  <2>2. r = Append(q, m) BY <1>1 DEF Offered, Topics
  <2>3. /\ Len(q) \in Nat /\ DOMAIN q = 1 .. Len(q)
        /\ DOMAIN r = 1 .. Len(q) + 1
        /\ \A i \in 1 .. Len(q) : r[i] = q[i]
        /\ r[Len(q) + 1] = m
        BY <2>1, <2>2
  <2>4. InOrder(q) /\ \A i \in DOMAIN q : Before(q[i], m)
        BY DEF AllBefore, Range
  <2>. HIDE DEF q, r
  <2>5. InOrder(r) BY <2>3, <2>4 DEF InOrder
  <2>6. Range(r) \subseteq Range(q) \cup {m} BY <2>3 DEF Range
  <2>. QED BY <2>5, <2>6 DEF q, r
<1>2. CASE ~Follows(t)
  <2>1. Offered(t, m).queue = t.queue BY <1>2 DEF Offered, Topics
  <2>. QED BY <2>1
<1>. QED BY <1>1, <1>2

(* A dead publisher leaves a prefix of what it sent. *)
LEMMA OrphanedInOrder ==
    ASSUME NEW P, NEW t \in Topics(P), NEW k \in 0 .. Len(t.queue), NEW gap \in BOOLEAN,
           InOrder(t.queue)
    PROVE  /\ InOrder(Orphaned(t, k, gap).queue)
           /\ Range(Orphaned(t, k, gap).queue) \subseteq Range(t.queue)
<1>. DEFINE q == t.queue
            r == Orphaned(t, k, gap).queue
<1>1. q \in Seq(P) BY DEF Topics
<1>2. r = SubSeq(q, 1, k) BY DEF Orphaned, Topics
<1>3. /\ DOMAIN q = 1 .. Len(q) /\ DOMAIN r = 1 .. k /\ Len(q) \in Nat
      /\ k \in 0 .. Len(q)
      /\ \A i \in 1 .. k : r[i] = q[i]
      BY <1>1, <1>2
<1>. HIDE DEF q, r
<1>4. InOrder(q) BY DEF q
<1>5. InOrder(r) BY <1>3, <1>4 DEF InOrder
<1>6. Range(r) \subseteq Range(q) BY <1>3 DEF Range
<1>. QED BY <1>5, <1>6 DEF q, r

-----------------------------------------------------------------------------
(***************************************************************************)
(* The order on messages and samples.                                      *)
(***************************************************************************)
Keyed(x) == x.round \in Round /\ x.n \in 0 .. NumEvents

(* y is x, or was sent before x. *)
NotAfter(y, x) == Before(y, x) \/ (y.round = x.round /\ y.n = x.n)

(* Before is transitive. *)
LEMMA BeforeTransitive ==
    ASSUME NEW a, NEW b, NEW c, Keyed(a), Keyed(b), Keyed(c),
           Before(a, b), NotAfter(b, c)
    PROVE  Before(a, c)
BY FeedAssumption DEF Keyed, Before, NotAfter, Round

(* Whatever is in flight is in that order. *)
LEMMA KeyedInFlight ==
    ASSUME NEW b \in Topics(BackMsg), NEW c \in Seq(Msg), NEW s \in Topics(Msg)
    PROVE  \A m \in Range(b.queue) \cup Range(c) \cup Range(s.queue) : Keyed(m)
<1>1. ASSUME NEW m \in Range(b.queue) PROVE Keyed(m)
  <2>1. m \in BackMsg BY DEF Topics, Range
  <2>. QED BY <2>1 DEF BackMsg, Keyed
<1>2. ASSUME NEW m \in Range(s.queue) PROVE Keyed(m)
  <2>1. m \in Msg BY DEF Topics, Range
  <2>. QED BY <2>1 DEF Msg, Keyed
<1>3. ASSUME NEW m \in Range(c) PROVE Keyed(m)
  <2>1. m \in Msg BY DEF Range
  <2>. QED BY <2>1 DEF Msg, Keyed
<1>. QED BY <1>1, <1>2, <1>3

(* So is what is about to be sent, what has been sampled, and, with its    *)
(* round, the last END.                                                    *)
LEMMA AllKeyed ==
    ASSUME TypeOK
    PROVE  /\ \A m \in InFlight \cup {NextMsg} : Keyed(m)
           /\ \A k \in DOMAIN histos : \A s \in Samples(k) : Keyed(s)
           /\ ClosedRound(Len(ends)) \in Nat
<1>1. \A m \in InFlight : Keyed(m) BY KeyedInFlight DEF TypeOK, InFlight
<1>4. Keyed(NextMsg) BY DEF TypeOK, Keyed, NextMsg
<1>5. ASSUME NEW k \in DOMAIN histos, NEW s \in Samples(k) PROVE Keyed(s)
  <2>1. histos[k] \in Histograms BY DEF TypeOK
  <2>2. s \in Msg BY <2>1 DEF Samples, Histograms, Event
  <2>. QED BY <2>2 DEF Msg, Keyed
<1>6. ClosedRound(Len(ends)) \in Nat
  <2>1. CASE ends = <<>> BY <2>1 DEF ClosedRound
  <2>2. CASE ends # <<>>
    <3>1. ends[Len(ends)] \in BackMsg BY <2>2 DEF TypeOK
    <3>. QED BY <3>1 DEF BackMsg, Round, ClosedRound
  <2>. QED BY <2>1, <2>2
<1>. QED BY <1>1, <1>4, <1>5, <1>6

(* The measurement is not touched by a step that changes none of its       *)
(* variables and puts nothing in flight that is older than what was there. *)
LEMMA MeasureKept ==
    ASSUME TypeOK, TypeOK', MeasureInv, UNCHANGED measureVars,
           \A x \in (InFlight \cup {NextMsg})' :
              \E y \in InFlight \cup {NextMsg} : NotAfter(y, x)
    PROVE  MeasureInv'
<1>. DEFINE F == InFlight \cup {NextMsg}
<1>u. hi' = hi /\ histos' = histos /\ ends' = ends /\ dumping' = dumping /\ printed' = printed
      BY DEF measureVars
<1>c. ClosedRound(Len(ends))' = ClosedRound(Len(ends)) BY <1>u DEF ClosedRound
<1>s. \A k : Samples(k)' = Samples(k) BY <1>u DEF Samples
<1>1. ASSUME NEW x \in F'
      PROVE  /\ x.round > ClosedRound(Len(ends))'
             /\ \A s \in Samples(hi)' : Before(s, x)
  <2>1. PICK y \in F : NotAfter(y, x) OBVIOUS
  <2>2. Keyed(y) /\ ClosedRound(Len(ends)) \in Nat BY AllKeyed
  <2>3. Keyed(x)
    <3>1. CASE x \in InFlight'
          BY <3>1, KeyedInFlight DEF TypeOK, InFlight
    <3>2. CASE x = NextMsg' BY <3>2 DEF TypeOK, Keyed, NextMsg
    <3>. QED BY <3>1, <3>2
  <2>4. y.round > ClosedRound(Len(ends)) BY DEF MeasureInv
  <2>5. x.round > ClosedRound(Len(ends))
        BY <2>1, <2>2, <2>3, <2>4 DEF NotAfter, Before, Keyed, Round
  <2>6. ASSUME NEW s \in Samples(hi) PROVE Before(s, x)
    <3>1. Keyed(s) BY AllKeyed DEF TypeOK
    <3>2. Before(s, y) BY DEF MeasureInv, AllBefore
    <3>. QED BY <2>1, <2>2, <2>3, <3>1, <3>2, BeforeTransitive
  <2>7. Samples(hi)' = Samples(hi) BY <1>u DEF Samples
  <2>. QED BY <1>c, <2>5, <2>6, <2>7
<1>2. AllBefore(Samples(hi)', F') BY <1>1 DEF AllBefore
<1>3. SamplesInTheirRound'
      BY <1>u DEF MeasureInv, SamplesInTheirRound, Samples, ClosedRound
<1>. QED BY <1>u, <1>1, <1>2, <1>3 DEF MeasureInv, AllBefore

-----------------------------------------------------------------------------
(* FeedInv is inductive. *)
LEMMA InitInv == Init => FeedInv
<1>. SUFFICES ASSUME Init PROVE FeedInv OBVIOUS
<1>1. TypeOK BY InitType
<1>. USE DEF Init, PubInit, RecvInit, Subscribed, Unsubscribed
<1>2. InFlight = {} BY DEF InFlight, Range
<1>3. PipelineInOrder BY <1>2 DEF PipelineInOrder, AllBefore, InOrder, Range
<1>4. Samples(1) = {} BY DEF Samples, NewHistogram
<1>5. Len(histos) = 1 /\ DOMAIN histos = {1} /\ Len(ends) = 0 /\ Range(printed) = {}
      BY DEF Range
<1>6. SamplesInTheirRound BY <1>4, <1>5 DEF SamplesInTheirRound
<1>7. NextMsg.round > ClosedRound(Len(ends)) BY <1>5 DEF NextMsg, ClosedRound
<1>8. MeasureInv BY <1>2, <1>4, <1>5, <1>6, <1>7 DEF MeasureInv, AllBefore
<1>. QED BY <1>1, <1>3, <1>8 DEF FeedInv

(* PUB's main thread sends the next message and goes on to a later one. *)
LEMMA SendStep ==
    ASSUME FeedInv, TypeOK', stream' = Offered(stream, NextMsg), pubRound <= MaxRounds,
           Before(NextMsg, NextMsg'), UNCHANGED <<back, cur, measureVars>>
    PROVE  PipelineInOrder' /\ MeasureInv'
<1>. DEFINE B == Range(back.queue)
            C == Range(cur)
            S == Range(stream.queue)
<1>. USE DEF FeedInv
<1>1. /\ InOrder(stream'.queue)
      /\ S' \subseteq S \cup {NextMsg}
  <2>1. stream \in Topics(Msg) /\ InOrder(stream.queue) /\ AllBefore(S, {NextMsg})
        BY DEF TypeOK, PipelineInOrder, InFlight, AllBefore
  <2>. QED BY <2>1, OfferedInOrder
<1>2. B' = B /\ C' = C OBVIOUS
<1>3. InFlight' \subseteq InFlight \cup {NextMsg} BY <1>1, <1>2 DEF InFlight
<1>4. AllBefore(B \cup C, S')
      BY <1>1 DEF PipelineInOrder, AllBefore, InFlight
<1>5. ASSUME NEW x \in InFlight' PROVE Before(x, NextMsg') /\ x.round <= MaxRounds
  <2>1. CASE x = NextMsg BY <2>1 DEF NextMsg
  <2>2. CASE x \in InFlight
    <3>1. Before(x, NextMsg) /\ x.round <= MaxRounds
          BY <2>2 DEF PipelineInOrder, AllBefore
    <3>2. Keyed(x) /\ Keyed(NextMsg) BY <2>2, AllKeyed
    <3>3. Keyed(NextMsg') BY DEF TypeOK, Keyed, NextMsg
    <3>. QED BY <3>1, <3>2, <3>3, BeforeTransitive DEF NotAfter
  <2>. QED BY <1>3, <2>1, <2>2
<1>6. PipelineInOrder'
      BY <1>1, <1>2, <1>4, <1>5 DEF PipelineInOrder, AllBefore
<1>7. \A x \in (InFlight \cup {NextMsg})' :
         \E y \in InFlight \cup {NextMsg} : NotAfter(y, x)
      BY <1>3 DEF NotAfter
<1>8. UNCHANGED measureVars /\ TypeOK /\ MeasureInv OBVIOUS
<1>9. MeasureInv' BY <1>7, <1>8, MeasureKept
<1>. QED BY <1>6, <1>9

(* SUB's receiving thread takes the next message while it has no other. *)
LEMMA TakeStep ==
    ASSUME FeedInv, TypeOK', Deliverable(stream), cur = <<>>,
           stream' = Taken(stream), cur' \in {<<>>, <<Head(stream.queue)>>},
           UNCHANGED <<back, senderVars, measureVars>>
    PROVE  PipelineInOrder' /\ MeasureInv'
<1>. DEFINE B == Range(back.queue)
            C == Range(cur)
            S == Range(stream.queue)
            m == Head(stream.queue)
<1>. USE DEF FeedInv
<1>1. InOrder(stream'.queue) /\ S = {m} \cup S' /\ AllBefore({m}, S')
  <2>1. stream \in Topics(Msg) /\ InOrder(stream.queue)
        BY DEF TypeOK, PipelineInOrder
  <2>. QED BY <2>1, TakenInOrder
<1>2. C = {} /\ C' \subseteq {m} BY DEF Range
<1>3. B' = B /\ NextMsg' = NextMsg BY DEF NextMsg, senderVars
<1>4. InFlight' \subseteq InFlight BY <1>1, <1>2, <1>3 DEF InFlight
<1>5. PipelineInOrder'
  <2>1. AllBefore(B, C') /\ AllBefore(B \cup C', S')
        BY <1>1, <1>2 DEF PipelineInOrder, AllBefore
  <2>2. AllBefore(InFlight', {NextMsg}) /\ \A x \in InFlight' : x.round <= MaxRounds
        BY <1>4 DEF PipelineInOrder, AllBefore
  <2>. QED BY <1>1, <1>3, <2>1, <2>2 DEF PipelineInOrder
<1>6. \A x \in (InFlight \cup {NextMsg})' :
         \E y \in InFlight \cup {NextMsg} : NotAfter(y, x)
      BY <1>3, <1>4 DEF NotAfter
<1>7. UNCHANGED measureVars /\ TypeOK /\ MeasureInv OBVIOUS
<1>8. MeasureInv' BY <1>6, <1>7, MeasureKept
<1>. QED BY <1>5, <1>8

(* The spin on offer() ends: the message goes from the thread to "back". *)
LEMMA BounceStep ==
    ASSUME FeedInv, TypeOK', Bounce, UNCHANGED pubVars
    PROVE  PipelineInOrder' /\ MeasureInv'
<1>. DEFINE B == Range(back.queue)
            C == Range(cur)
            S == Range(stream.queue)
            m == Head(cur)
            b == Bounced(m)
<1>. USE DEF FeedInv
<1>1. m \in C /\ cur' = <<>> /\ back' = Offered(back, b) /\ stream' = stream
      BY DEF Bounce, TypeOK, Range
<1>2. b.round = m.round /\ b.n = m.n BY DEF Bounced
<1>3. InOrder(back'.queue) /\ B' \subseteq B \cup {b}
  <2>1. back \in Topics(BackMsg) /\ InOrder(back.queue)
        BY DEF TypeOK, PipelineInOrder
  <2>2. AllBefore(B, {b})
        BY <1>1, <1>2 DEF PipelineInOrder, AllBefore, Before
  <2>. QED BY <1>1, <2>1, <2>2, OfferedInOrder
<1>4. C' = {} /\ S' = S /\ NextMsg' = NextMsg
      BY <1>1 DEF Range, NextMsg, pubVars
<1>5. AllBefore(B', S)
      BY <1>1, <1>2, <1>3 DEF PipelineInOrder, AllBefore, Before
<1>6. ASSUME NEW x \in InFlight'
      PROVE  \E y \in InFlight : y.round = x.round /\ y.n = x.n
  <2>1. x \in InFlight \/ x = b BY <1>3, <1>4 DEF InFlight
  <2>2. m \in InFlight BY <1>1 DEF InFlight
  <2>. QED BY <1>2, <2>1, <2>2
<1>7. AllBefore(InFlight', {NextMsg}) /\ \A x \in InFlight' : x.round <= MaxRounds
      BY <1>6 DEF PipelineInOrder, AllBefore, Before
<1>8. PipelineInOrder'
  <2>1. AllBefore(B', C') /\ AllBefore(B' \cup C', S')
        BY <1>4, <1>5 DEF AllBefore
  <2>2. InOrder(stream'.queue) BY <1>1 DEF PipelineInOrder
  <2>. QED BY <1>3, <1>4, <1>7, <2>1, <2>2 DEF PipelineInOrder
<1>9. \A x \in (InFlight \cup {NextMsg})' :
         \E y \in InFlight \cup {NextMsg} : NotAfter(y, x)
      BY <1>4, <1>6 DEF NotAfter
<1>10. UNCHANGED measureVars /\ TypeOK /\ MeasureInv BY DEF pubVars, measureVars
<1>11. MeasureInv' BY <1>9, <1>10, MeasureKept
<1>. QED BY <1>8, <1>11

(* A subscription begins or ends, SUB dies: what is in flight only shrinks. *)
LEMMA ShrinkStep ==
    ASSUME FeedInv, TypeOK', UNCHANGED <<senderVars, measureVars, cur>>,
           InOrder(back'.queue), Range(back.queue)' \subseteq Range(back.queue),
           InOrder(stream'.queue), Range(stream.queue)' \subseteq Range(stream.queue)
    PROVE  PipelineInOrder' /\ MeasureInv'
<1>. USE DEF FeedInv
<1>1. NextMsg' = NextMsg /\ Range(cur)' = Range(cur) BY DEF NextMsg, senderVars
<1>2. InFlight' \subseteq InFlight BY <1>1 DEF InFlight
<1>3. PipelineInOrder' BY <1>1, <1>2 DEF PipelineInOrder, AllBefore
<1>4. \A x \in (InFlight \cup {NextMsg})' :
         \E y \in InFlight \cup {NextMsg} : NotAfter(y, x)
      BY <1>1, <1>2 DEF NotAfter
<1>5. UNCHANGED measureVars /\ TypeOK /\ MeasureInv OBVIOUS
<1>6. MeasureInv' BY <1>4, <1>5, MeasureKept
<1>. QED BY <1>3, <1>6

(* PUB's receiving thread takes a message off "back": the pipeline. *)
LEMMA TakeBack ==
    ASSUME FeedInv, TypeOK', Deliverable(back), back' = Taken(back),
           UNCHANGED <<stream, cur, senderVars>>
    PROVE  /\ PipelineInOrder'
           /\ Head(back.queue) \in InFlight
           /\ NextMsg' = NextMsg /\ InFlight' \subseteq InFlight
           /\ AllBefore({Head(back.queue)}, (InFlight \cup {NextMsg})')
<1>. DEFINE B == Range(back.queue)
            C == Range(cur)
            S == Range(stream.queue)
            m == Head(back.queue)
<1>. USE DEF FeedInv
<1>1. InOrder(back'.queue) /\ B = {m} \cup B' /\ AllBefore({m}, B')
  <2>1. back \in Topics(BackMsg) /\ InOrder(back.queue)
        BY DEF TypeOK, PipelineInOrder
  <2>. QED BY <2>1, TakenInOrder
<1>2. NextMsg' = NextMsg /\ C' = C /\ S' = S BY DEF NextMsg, senderVars
<1>3. m \in InFlight /\ InFlight' \subseteq InFlight BY <1>1, <1>2 DEF InFlight
<1>4. PipelineInOrder' BY <1>1, <1>2, <1>3 DEF PipelineInOrder, AllBefore
<1>5. AllBefore({m}, (InFlight \cup {NextMsg})')
      BY <1>1, <1>2, <1>3 DEF PipelineInOrder, AllBefore, InFlight
<1>. QED BY <1>2, <1>3, <1>4, <1>5

(* A latency is recorded into the open report. *)
LEMMA RecordStep ==
    ASSUME FeedInv, TypeOK', NEW fast \in BOOLEAN, RecordLatency(fast), UNCHANGED recvVars
    PROVE  PipelineInOrder' /\ MeasureInv'
<1>. DEFINE m == Head(back.queue)
            F == InFlight \cup {NextMsg}
<1>. USE DEF FeedInv
<1>1. /\ Deliverable(back) /\ back' = Taken(back)
      /\ UNCHANGED <<stream, cur, senderVars, hi, ends, dumping, printed>>
      BY DEF RecordLatency, recvVars
<1>2. /\ PipelineInOrder' /\ m \in InFlight
      /\ F' \subseteq F /\ AllBefore({m}, F')
      BY <1>1, TakeBack
<1>3. /\ Len(histos') = Len(histos) /\ DOMAIN histos' = DOMAIN histos
      /\ hi \in DOMAIN histos
      BY DEF TypeOK, RecordLatency
<1>4. ASSUME NEW k \in DOMAIN histos, k # hi PROVE Samples(k)' = Samples(k)
      BY <1>4 DEF RecordLatency, TypeOK, Samples
<1>5. Samples(hi)' = Samples(hi) \cup {Sample(m)}
      <2>1. histos[hi] \in Histograms BY <1>3 DEF TypeOK
      <2>2. hi' = hi BY <1>1
      <2>3. CASE fast
            BY <1>3, <2>1, <2>2, <2>3 DEF RecordLatency, TypeOK, Samples, Histograms
      <2>4. CASE ~fast
            BY <1>3, <2>1, <2>2, <2>4 DEF RecordLatency, TypeOK, Samples, Histograms
      <2>. QED BY <2>3, <2>4
<1>6. Sample(m).round = m.round /\ Sample(m).n = m.n BY DEF Sample
<1>7. AllBefore(Samples(hi)', F')
      BY <1>2, <1>5, <1>6 DEF MeasureInv, AllBefore, Before
<1>8. \A x \in F' : x.round > ClosedRound(Len(ends))'
      BY <1>1, <1>2 DEF MeasureInv, ClosedRound
<1>9. SamplesInTheirRound'
  <2>. SUFFICES ASSUME NEW k \in DOMAIN histos, NEW s \in Samples(k)'
                PROVE  /\ ClosedRound(k - 1) < s.round
                       /\ k \in DOMAIN ends => s.round <= ends[k].round
       BY <1>1, <1>3 DEF SamplesInTheirRound, ClosedRound
  <2>1. CASE s \in Samples(k) BY <2>1 DEF MeasureInv, SamplesInTheirRound
  <2>2. CASE s \notin Samples(k)
    <3>1. k = hi /\ s = Sample(m) BY <1>1, <1>4, <1>5, <2>2
    <3>2. hi - 1 = Len(ends) /\ hi \notin DOMAIN ends
          BY DEF MeasureInv, TypeOK
    <3>3. m.round > ClosedRound(Len(ends)) BY <1>2 DEF MeasureInv
    <3>4. Keyed(m) /\ ClosedRound(Len(ends)) \in Nat BY <1>2, AllKeyed
    <3>. QED BY <1>6, <3>1, <3>2, <3>3, <3>4 DEF Keyed, Round
  <2>. QED BY <2>1, <2>2
<1>10. MeasureInv' BY <1>1, <1>3, <1>7, <1>8, <1>9 DEF MeasureInv, AllBefore
<1>. QED BY <1>2, <1>10

(* What the heap of histograms looks like after a bounced END. *)
LEMMA ClosedHeap ==
    ASSUME FeedInv, CloseRound
    PROVE  /\ hi = Len(histos) /\ hi = Len(ends) + 1 /\ hi \in Nat /\ hi > 0
           /\ hi' = hi + 1 /\ Len(histos') = hi + 1
           /\ DOMAIN histos = 1 .. hi /\ DOMAIN histos' = 1 .. hi + 1
           /\ Len(ends') = hi /\ DOMAIN ends = 1 .. hi - 1 /\ DOMAIN ends' = 1 .. hi
           /\ ends'[hi] = Head(back.queue)
           /\ \A k \in 1 .. hi : Samples(k)' = Samples(k)
           /\ Samples(hi)' = {}
           /\ \A k \in 1 .. hi - 1 : ends'[k] = ends[k]
           /\ \A k \in 0 .. hi - 1 : ClosedRound(k)' = ClosedRound(k)
           /\ ClosedRound(Len(ends))' = Head(back.queue).round
<1>. USE DEF FeedInv
<1>h. /\ histos \in Seq(Histograms) /\ ends \in Seq(BackMsg)
      /\ NewHistogram \in Histograms /\ Head(back.queue) \in BackMsg
  <2>1. back \in Topics(BackMsg) /\ Deliverable(back) BY DEF TypeOK, CloseRound
  <2>. QED BY <2>1, TakenType DEF TypeOK, NewHistogram, Histograms
<1>1. /\ hi = Len(histos) /\ hi = Len(ends) + 1 /\ hi \in Nat /\ hi > 0
      /\ Len(ends) = hi - 1
      BY <1>h DEF MeasureInv
<1>2. /\ DOMAIN histos = 1 .. hi /\ DOMAIN ends = 1 .. hi - 1
  <2>1. DOMAIN histos = 1 .. Len(histos) /\ DOMAIN ends = 1 .. Len(ends) BY <1>h
  <2>. QED BY <1>1, <2>1
<1>0. /\ histos' = Append(histos, NewHistogram) /\ hi' = hi + 1
      /\ ends' = Append(ends, Head(back.queue))
      BY <1>1 DEF CloseRound
<1>3. /\ Len(histos') = hi + 1 /\ DOMAIN histos' = 1 .. hi + 1
      /\ histos'[hi + 1] = NewHistogram
      /\ \A k \in 1 .. hi : histos'[k] = histos[k]
  <2>. DEFINE L == Len(histos)
              G == Append(histos, NewHistogram)
  <2>1. /\ Len(G) = L + 1 /\ DOMAIN G = 1 .. L + 1 /\ G[L + 1] = NewHistogram
        /\ \A k \in 1 .. L : G[k] = histos[k]
        BY <1>h
  <2>2. L = hi /\ histos' = G BY <1>0, <1>1
  <2>. QED BY <2>1, <2>2
<1>4. /\ Len(ends') = hi /\ DOMAIN ends' = 1 .. hi
      /\ ends'[hi] = Head(back.queue)
      /\ \A k \in 1 .. hi - 1 : ends'[k] = ends[k]
      BY <1>h, <1>0, <1>1
<1>5. \A k \in 1 .. hi : Samples(k)' = Samples(k) BY <1>3 DEF Samples
<1>6. Samples(hi)' = {} BY <1>0, <1>3 DEF Samples, NewHistogram
<1>7. \A k \in 0 .. hi - 1 : ClosedRound(k)' = ClosedRound(k)
      BY <1>1, <1>4 DEF ClosedRound
<1>8. ClosedRound(Len(ends))' = Head(back.queue).round
      BY <1>1, <1>4 DEF ClosedRound
<1>. QED BY <1>0, <1>1, <1>2, <1>3, <1>4, <1>5, <1>6, <1>7, <1>8

(* A bounced END closes the open report and hands it over. *)
LEMMA CloseStep ==
    ASSUME FeedInv, TypeOK', CloseRound, UNCHANGED recvVars
    PROVE  PipelineInOrder' /\ MeasureInv'
<1>. DEFINE m == Head(back.queue)
            F == InFlight \cup {NextMsg}
<1>. USE DEF FeedInv
<1>1. /\ Deliverable(back) /\ back' = Taken(back) /\ IsEnd(m)
      /\ UNCHANGED <<stream, cur, senderVars, printed>>
      /\ dumping' = dumping \cup {hi}
      BY DEF CloseRound, recvVars
<1>2. /\ PipelineInOrder' /\ m \in InFlight
      /\ F' \subseteq F /\ AllBefore({m}, F')
      BY <1>1, TakeBack
<1>3. hi' = Len(histos') /\ hi' = Len(ends') + 1 BY ClosedHeap
<1>4. /\ (dumping \cup Range(printed))' \subseteq 1 .. Len(ends')
      /\ (dumping \cap Range(printed))' = {}
  <2>1. /\ dumping \cup Range(printed) \subseteq 1 .. hi - 1
        /\ dumping \cap Range(printed) = {}
        BY ClosedHeap DEF MeasureInv
  <2>2. Range(printed)' = Range(printed) /\ hi \notin Range(printed)
        BY <1>1, <2>1, ClosedHeap
  <2>3. Len(ends') = hi /\ hi \in Nat /\ hi > 0 BY ClosedHeap
  <2>. QED BY <1>1, <2>1, <2>2, <2>3
<1>5. \A x \in F' : x.round > ClosedRound(Len(ends))'
  <2>. SUFFICES ASSUME NEW x \in F' PROVE x.round > m.round
       BY ClosedHeap
  <2>1. Keyed(x) /\ Keyed(m) BY <1>2, AllKeyed
  <2>2. Before(m, x) BY <1>2 DEF AllBefore
  <2>. QED BY <1>1, <2>1, <2>2, FeedAssumption DEF IsEnd, Before, Keyed, Round
<1>6. AllBefore(Samples(hi)', F') BY ClosedHeap DEF AllBefore
<1>7. SamplesInTheirRound'
  <2>. SUFFICES ASSUME NEW k \in 1 .. hi + 1, NEW s \in Samples(k)'
                PROVE  /\ ClosedRound(k - 1)' < s.round
                       /\ k \in DOMAIN ends' => s.round <= ends'[k].round
       BY ClosedHeap DEF SamplesInTheirRound
  <2>1. k \in 1 .. hi /\ s \in Samples(k) /\ hi \in Nat
    <3>1. k # hi + 1
      <4>1. k = hi' => Samples(k)' = Samples(hi)' BY DEF Samples
      <4>. QED BY <4>1, ClosedHeap
    <3>2. k \in 1 .. hi BY <3>1, ClosedHeap
    <3>. QED BY <3>2, ClosedHeap
  <2>2. ClosedRound(k - 1)' < s.round
    <3>1. k - 1 \in 0 .. hi - 1 /\ k \in DOMAIN histos BY <2>1, ClosedHeap
    <3>2. ClosedRound(k - 1) < s.round
          BY <2>1, <3>1 DEF MeasureInv, SamplesInTheirRound
    <3>3. ClosedRound(k - 1)' = ClosedRound(k - 1) BY <3>1, ClosedHeap
    <3>. QED BY <3>2, <3>3
  <2>3. CASE k = hi
    <3>1. Before(s, m) BY <1>2, <2>1, <2>3 DEF MeasureInv, AllBefore
    <3>2. Keyed(s) /\ Keyed(m) BY <1>2, <2>1, AllKeyed, ClosedHeap
    <3>3. s.round <= m.round BY <3>1, <3>2 DEF Before, Keyed, Round
    <3>. QED BY <2>2, <2>3, <3>3, ClosedHeap
  <2>4. CASE k # hi
    <3>1. k \in 1 .. hi - 1 BY <2>1, <2>4
    <3>2. k \in DOMAIN ends /\ k \in DOMAIN histos /\ ends'[k] = ends[k]
          BY <2>1, <3>1, ClosedHeap
    <3>3. s.round <= ends[k].round
          BY <2>1, <3>2 DEF MeasureInv, SamplesInTheirRound
    <3>. QED BY <2>2, <3>2, <3>3
  <2>. QED BY <2>3, <2>4
<1>8. MeasureInv'
      BY <1>3, <1>4, <1>5, <1>6, <1>7 DEF MeasureInv, AllBefore
<1>. QED BY <1>2, <1>8

(* A pool thread prints report k, which it will not print again. *)
LEMMA DumpStep ==
    ASSUME FeedInv, TypeOK', NEW k \in dumping, Dump(k), UNCHANGED recvVars
    PROVE  PipelineInOrder' /\ MeasureInv'
<1>. USE DEF FeedInv
<1>1. /\ UNCHANGED <<stream, back, cur, senderVars, hi, histos, ends>>
      /\ dumping' = dumping \ {k}
      BY DEF Dump, recvVars
<1>2. Range(printed') = Range(printed) \cup {k}
  <2>1. printed' = Append(printed, k) /\ printed \in Seq(DOMAIN histos)
        BY DEF Dump, TypeOK
  <2>2. /\ DOMAIN printed = 1 .. Len(printed) /\ Len(printed) \in Nat
        /\ DOMAIN printed' = 1 .. Len(printed) + 1
        /\ printed'[Len(printed) + 1] = k
        /\ \A i \in 1 .. Len(printed) : printed'[i] = printed[i]
        BY <2>1
  <2>3. DOMAIN printed' = DOMAIN printed \cup {Len(printed) + 1} BY <2>2
  <2>. QED BY <2>2, <2>3 DEF Range
<1>3. NextMsg' = NextMsg /\ InFlight' = InFlight
      BY <1>1 DEF NextMsg, senderVars, InFlight
<1>4. PipelineInOrder' BY <1>1, <1>3 DEF PipelineInOrder
<1>5. SamplesInTheirRound'
      BY <1>1 DEF MeasureInv, SamplesInTheirRound, Samples, ClosedRound
<1>6. ClosedRound(Len(ends))' = ClosedRound(Len(ends)) /\ Samples(hi)' = Samples(hi)
      BY <1>1 DEF ClosedRound, Samples
<1>7. MeasureInv' BY <1>1, <1>2, <1>3, <1>5, <1>6 DEF MeasureInv
<1>. QED BY <1>4, <1>7

LEMMA StepInv == FeedInv /\ [Next]_vars => FeedInv'
<1>. SUFFICES ASSUME FeedInv, [Next]_vars PROVE FeedInv' OBVIOUS
<1>0. TypeOK' BY StepType DEF FeedInv
<1>1. CASE SendEvent /\ UNCHANGED recvVars
  <2>1. Before(NextMsg, NextMsg')
        BY <1>1, FeedAssumption DEF SendEvent, NextMsg, Before, FeedInv, TypeOK
  <2>. QED BY <1>0, <1>1, <2>1, SendStep DEF SendEvent, recvVars, FeedInv
<1>2. CASE SendEnd /\ UNCHANGED recvVars
  <2>1. Before(NextMsg, NextMsg')
        BY <1>2, FeedAssumption DEF SendEnd, NextMsg, Before, FeedInv, TypeOK, Round
  <2>. QED BY <1>0, <1>2, <2>1, SendStep DEF SendEnd, recvVars, FeedInv
<1>3. ASSUME NEW fast \in BOOLEAN, RecordLatency(fast), UNCHANGED recvVars
      PROVE  FeedInv'
      BY <1>0, <1>3, RecordStep DEF FeedInv
<1>4. CASE CloseRound /\ UNCHANGED recvVars
      BY <1>0, <1>4, CloseStep DEF FeedInv
<1>5. CASE LoseBack /\ UNCHANGED recvVars
  <2>1. /\ UNCHANGED <<senderVars, measureVars, cur, stream>>
        /\ back' = Unsubscribed
        BY <1>5 DEF LoseBack, recvVars
  <2>2. InOrder(back'.queue) /\ Range(back'.queue) = {}
        BY <2>1 DEF Unsubscribed, InOrder, Range
  <2>3. InOrder(stream'.queue) BY <2>1 DEF FeedInv, PipelineInOrder
  <2>. QED BY <1>0, <2>1, <2>2, <2>3, ShrinkStep DEF FeedInv
<1>6. ASSUME NEW k \in dumping, Dump(k), UNCHANGED recvVars
      PROVE  FeedInv'
      BY <1>0, <1>6, DumpStep DEF FeedInv
<1>7. CASE Start /\ UNCHANGED pubVars
  <2>1. /\ UNCHANGED <<senderVars, measureVars, cur, back>>
        /\ stream' = Subscribed
        BY <1>7 DEF Start, pubVars, senderVars, measureVars
  <2>2. InOrder(stream'.queue) /\ Range(stream'.queue) = {}
        BY <2>1 DEF Subscribed, InOrder, Range
  <2>3. InOrder(back'.queue) BY <2>1 DEF FeedInv, PipelineInOrder
  <2>. QED BY <1>0, <2>1, <2>2, <2>3, ShrinkStep DEF FeedInv
<1>8. CASE ReceiveEvent /\ UNCHANGED pubVars
  <2>1. /\ Deliverable(stream) /\ cur = <<>> /\ stream' = Taken(stream)
        /\ UNCHANGED <<back, senderVars, measureVars>>
        BY <1>8 DEF ReceiveEvent, pubVars, senderVars, measureVars
  <2>2. cur' \in {<<>>, <<Head(stream.queue)>>} BY <1>8 DEF ReceiveEvent
  <2>. QED BY <1>0, <2>1, <2>2, TakeStep DEF FeedInv
<1>9. CASE ReceiveEnd /\ UNCHANGED pubVars
  <2>1. /\ Deliverable(stream) /\ cur = <<>> /\ stream' = Taken(stream)
        /\ cur' \in {<<>>, <<Head(stream.queue)>>}
        /\ UNCHANGED <<back, senderVars, measureVars>>
        BY <1>9 DEF ReceiveEnd, pubVars, senderVars, measureVars
  <2>. QED BY <1>0, <2>1, TakeStep DEF FeedInv
<1>10. CASE Bounce /\ UNCHANGED pubVars
       BY <1>0, <1>10, BounceStep DEF FeedInv
<1>11. CASE Exit /\ UNCHANGED pubVars
  <2>1. /\ UNCHANGED <<senderVars, measureVars, cur>>
        /\ stream' = Unsubscribed
        BY <1>11 DEF Exit, pubVars, senderVars, measureVars
  <2>2. PICK k \in 0 .. Len(back.queue), gap \in BOOLEAN :
           back' = Orphaned(back, k, gap)
        BY <1>11 DEF Exit
  <2>3. back \in Topics(BackMsg) /\ InOrder(back.queue)
        BY DEF FeedInv, TypeOK, PipelineInOrder
  <2>4. InOrder(back'.queue) /\ Range(back'.queue) \subseteq Range(back.queue)
        BY <2>2, <2>3, OrphanedInOrder
  <2>5. InOrder(stream'.queue) /\ Range(stream'.queue) = {}
        BY <2>1 DEF Unsubscribed, InOrder, Range
  <2>. QED BY <1>0, <2>1, <2>4, <2>5, ShrinkStep DEF FeedInv
<1>12. CASE UNCHANGED vars
  <2>1. NextMsg' = NextMsg /\ InFlight' = InFlight
        BY <1>12 DEF vars, NextMsg, InFlight
  <2>2. PipelineInOrder' BY <1>12, <2>1 DEF vars, FeedInv, PipelineInOrder
  <2>3. SamplesInTheirRound'
        BY <1>12 DEF vars, FeedInv, MeasureInv, SamplesInTheirRound, Samples, ClosedRound
  <2>4. ClosedRound(Len(ends))' = ClosedRound(Len(ends)) /\ Samples(hi)' = Samples(hi)
        BY <1>12 DEF vars, ClosedRound, Samples
  <2>5. MeasureInv' BY <1>12, <2>1, <2>3, <2>4 DEF vars, FeedInv, MeasureInv
  <2>. QED BY <1>0, <2>2, <2>5 DEF FeedInv
<1>. QED BY <1>1, <1>2, <1>3, <1>4, <1>5, <1>6, <1>7, <1>8, <1>9, <1>10, <1>11, <1>12
         DEF Next, PubStep, RecvStep, PubSend, PubReceive, PubDump, RecvHandle, Quiescent

LEMMA Invariance == Spec => []FeedInv
BY InitInv, StepInv, PTL DEF Spec

(* Nothing in flight overtakes anything, in every behaviour. *)
THEOREM NothingOvertakes == Spec => []PipelineInOrder
<1>1. FeedInv => PipelineInOrder BY DEF FeedInv
<1>. QED BY Invariance, <1>1, PTL

(* Every report is made of samples of the rounds it closes. *)
THEOREM SamplesAreInTheirRound == Spec => []SamplesInTheirRound
<1>1. FeedInv => SamplesInTheirRound BY DEF FeedInv, MeasureInv
<1>. QED BY Invariance, <1>1, PTL

(* The histograms handed over, the open one and what is in flight agree at *)
(* any time: nothing left in flight belongs to a report that is closed.    *)
THEOREM MeasureIsConsistent == Spec => []MeasureInv
<1>1. FeedInv => MeasureInv BY DEF FeedInv
<1>. QED BY Invariance, <1>1, PTL

(* What the dumper prints is never written again. *)
LEMMA FrozenStep ==
    ASSUME FeedInv, TypeOK', Next,
           NEW k \in dumping \cup Range(printed)
    PROVE  /\ histos'[k] = histos[k]
           /\ hi' # k
           /\ k \notin dumping => k \notin dumping'
<1>. USE DEF FeedInv
<1>0. /\ k \in 1 .. hi - 1 /\ hi \in Nat /\ hi = Len(histos) /\ k # hi
      /\ histos \in Seq(Histograms) /\ hi \in DOMAIN histos /\ k \in DOMAIN histos
      BY DEF MeasureInv, TypeOK
<1>1. CASE CloseRound
  <2>1. /\ hi' = hi + 1 /\ dumping' = dumping \cup {hi}
        /\ histos' = Append(histos, NewHistogram)
        BY <1>1, ClosedHeap DEF CloseRound
  <2>2. histos'[k] = histos[k]
    <3>1. k \in 1 .. Len(histos) BY <1>0
    <3>. QED BY <1>0, <2>1, <3>1
  <2>. QED BY <1>0, <2>1, <2>2
<1>2. ASSUME NEW fast \in BOOLEAN, RecordLatency(fast) PROVE
          histos'[k] = histos[k] /\ hi' = hi /\ dumping' = dumping
      BY <1>0, <1>2 DEF RecordLatency
<1>3. ASSUME NEW d \in dumping, Dump(d) PROVE
          histos' = histos /\ hi' = hi /\ dumping' \subseteq dumping
      BY <1>3 DEF Dump
<1>4. CASE SendEvent \/ SendEnd \/ LoseBack \/ UNCHANGED pubVars
      BY <1>0, <1>4 DEF SendEvent, SendEnd, LoseBack, measureVars, pubVars
<1>. QED BY <1>0, <1>1, <1>2, <1>3, <1>4
         DEF Next, PubStep, RecvStep, PubSend, PubReceive, PubDump, Quiescent, vars, pubVars

(* A histogram handed to the dumper is never recorded into, reset or handed *)
(* over again.                                                             *)
THEOREM HandedOverIsFrozen == Spec => HandedOverFrozen
<1>. DEFINE A == \A k \in dumping \cup Range(printed) :
                    /\ histos'[k] = histos[k]
                    /\ hi' # k
                    /\ k \notin dumping => k \notin dumping'
<1>1. FeedInv /\ Next => A BY FrozenStep, StepType DEF FeedInv
<1>2. FeedInv /\ [Next]_vars => [A]_vars BY <1>1
<1>. QED BY Invariance, <1>2, PTL DEF Spec, HandedOverFrozen

-----------------------------------------------------------------------------
(***************************************************************************)
(* The feed implements LatencyReports.                                     *)
(***************************************************************************)
(* A sequence and one more element, as a function. *)
LEMMA AppendIsFunction ==
    ASSUME NEW S, NEW q \in Seq(S), NEW e \in S, NEW n \in Nat, n = Len(q) + 1
    PROVE  Append(q, e) = [k \in 1 .. n |-> IF k = n THEN e ELSE q[k]]
<1>. DEFINE f == [k \in 1 .. n |-> IF k = n THEN e ELSE q[k]]
<1>1. Len(q) \in Nat /\ DOMAIN q = 1 .. Len(q) /\ \A k \in 1 .. Len(q) : q[k] \in S
      OBVIOUS
<1>2. f \in Seq(S) /\ Len(f) = n
  <2>1. f \in [1 .. n -> S] BY <1>1
  <2>2. f \in Seq(S) BY <2>1
  <2>. QED BY <2>1, <2>2
<1>3. /\ Append(q, e) \in Seq(S) /\ Len(Append(q, e)) = n
      /\ \A k \in 1 .. n : Append(q, e)[k] = IF k = n THEN e ELSE q[k]
      BY <1>1
<1>4. \A k \in 1 .. n : Append(q, e)[k] = f[k] BY <1>3
<1>. HIDE DEF f
<1>5. Append(q, e) = f BY <1>2, <1>3, <1>4, SeqEqual
<1>. QED BY <1>5 DEF f

(* The reports are a sequence, its last round the one closed last. *)
LEMMA ReportsSeq ==
    ASSUME TypeOK
    PROVE  /\ Len(Reports) = Len(ends) /\ DOMAIN Reports = DOMAIN ends
           /\ Reports = <<>> <=> ends = <<>>
           /\ Abstract!LastRound = ClosedRound(Len(ends))
<1>. DEFINE A == {[round |-> ends[k].round, samples |-> Samples(k)] : k \in DOMAIN ends}
<1>1. DOMAIN ends = 1 .. Len(ends) /\ Len(ends) \in Nat BY DEF TypeOK
<1>2. DOMAIN Reports = 1 .. Len(ends) BY <1>1 DEF Reports
<1>3. Reports \in Seq(A)
  <2>1. Reports \in [1 .. Len(ends) -> A] BY <1>1 DEF Reports
  <2>. QED BY <1>1, <2>1
<1>4. Len(Reports) = Len(ends) BY <1>1, <1>2, <1>3
<1>5. Reports = <<>> <=> ends = <<>>
  <2>1. Reports = <<>> <=> Len(Reports) = 0 BY <1>3
  <2>2. ends = <<>> <=> Len(ends) = 0 BY DEF TypeOK
  <2>. QED BY <1>4, <2>1, <2>2
<1>6. Abstract!LastRound = ClosedRound(Len(ends))
  <2>1. CASE ends = <<>> BY <1>5, <2>1 DEF Abstract!LastRound, ClosedRound
  <2>2. CASE ends # <<>>
    <3>1. Len(ends) \in DOMAIN ends /\ Len(ends) # 0 BY <2>2 DEF TypeOK
    <3>2. Reports[Len(Reports)].round = ends[Len(ends)].round
          BY <1>4, <3>1 DEF Reports
    <3>. QED BY <1>5, <2>2, <3>1, <3>2 DEF Abstract!LastRound, ClosedRound
  <2>. QED BY <2>1, <2>2
<1>. QED BY <1>1, <1>2, <1>4, <1>5, <1>6

(* A latency recorded by PUB is one recorded by the abstract measurement. *)
LEMMA RecordRefines ==
    ASSUME FeedInv, NEW fast \in BOOLEAN, RecordLatency(fast), UNCHANGED recvVars
    PROVE  Abstract!Record
<1>. DEFINE m == Head(back.queue)
<1>. USE DEF FeedInv
<1>1. back \in Topics(BackMsg) /\ Deliverable(back) /\ InOrder(back.queue)
      BY DEF TypeOK, PipelineInOrder, RecordLatency
<1>2. m \in InFlight BY <1>1, TakenInOrder DEF InFlight
<1>3. m.round \in 1 .. MaxRounds /\ m.n \in 0 .. NumEvents - 1
  <2>1. Keyed(m) BY <1>2, AllKeyed
  <2>2. m.round <= MaxRounds BY <1>2 DEF PipelineInOrder
  <2>3. m.n # NumEvents BY DEF RecordLatency, IsEnd
  <2>. QED BY <2>1, <2>2, <2>3, FeedAssumption DEF Keyed, Round
<1>4. m.round > Abstract!LastRound BY <1>2, ReportsSeq DEF MeasureInv
<1>5. /\ hi' = hi /\ ends' = ends /\ printed' = printed
      /\ histos \in Seq(Histograms) /\ hi \in DOMAIN histos /\ histos[hi] \in Histograms
      BY DEF RecordLatency, TypeOK
<1>6. Samples(hi)' = Samples(hi) \cup {[round |-> m.round, n |-> m.n]}
  <2>1. CASE fast
        BY <1>5, <2>1 DEF RecordLatency, Samples, Sample, Histograms
  <2>2. CASE ~fast
        BY <1>5, <2>2 DEF RecordLatency, Samples, Sample, Histograms
  <2>. QED BY <2>1, <2>2
<1>7. Reports' = Reports
  <2>1. DOMAIN ends = 1 .. hi - 1 /\ hi \in Nat /\ DOMAIN histos = 1 .. hi
    <3>1. DOMAIN ends = 1 .. Len(ends) /\ DOMAIN histos = 1 .. Len(histos)
          BY DEF TypeOK
    <3>2. Len(ends) = hi - 1 /\ Len(histos) = hi /\ hi \in Nat
          BY DEF MeasureInv, TypeOK
    <3>. QED BY <3>1, <3>2
  <2>2. ASSUME NEW k \in DOMAIN ends PROVE Samples(k)' = Samples(k)
    <3>1. k # hi /\ k \in DOMAIN histos BY <2>1
    <3>2. histos'[k] = histos[k] BY <1>5, <3>1 DEF RecordLatency
    <3>. QED BY <3>2 DEF Samples
  <2>. QED BY <1>5, <2>2 DEF Reports
<1>. QED BY <1>3, <1>4, <1>5, <1>6, <1>7 DEF Abstract!Record

(* A bounced END closes a report of the abstract measurement. *)
LEMMA CloseRefines ==
    ASSUME FeedInv, CloseRound, UNCHANGED recvVars
    PROVE  Abstract!Close
<1>. DEFINE m == Head(back.queue)
            r == [round |-> m.round, samples |-> Samples(hi)]
<1>. USE DEF FeedInv
<1>1. back \in Topics(BackMsg) /\ Deliverable(back) /\ InOrder(back.queue)
      BY DEF TypeOK, PipelineInOrder, CloseRound
<1>2. m \in InFlight BY <1>1, TakenInOrder DEF InFlight
<1>3. Keyed(m) /\ m.round \in 1 .. MaxRounds
  <2>1. Keyed(m) BY <1>2, AllKeyed
  <2>2. m.round <= MaxRounds BY <1>2 DEF PipelineInOrder
  <2>. QED BY <2>1, <2>2, FeedAssumption DEF Keyed, Round
<1>4. m.round > Abstract!LastRound BY <1>2, ReportsSeq DEF MeasureInv
<1>5. ASSUME NEW s \in Samples(hi) PROVE s.round <= m.round
  <2>1. Before(s, m) BY <1>2 DEF MeasureInv, AllBefore
  <2>2. Keyed(s) BY AllKeyed DEF TypeOK
  <2>. QED BY <1>3, <2>1, <2>2 DEF Before, Keyed, Round
<1>6. Reports' = Append(Reports, r)
  <2>1. Len(Reports) = hi - 1 /\ hi \in Nat /\ DOMAIN Reports = 1 .. hi - 1
        BY ReportsSeq, ClosedHeap
  <2>2. Append(Reports, r) = [k \in 1 .. hi |-> IF k = hi THEN r ELSE Reports[k]]
    <3>1. Reports \in Seq(Range(Reports) \cup {r})
      <4>1. Reports \in [1 .. hi - 1 -> Range(Reports) \cup {r}]
            BY <2>1 DEF Reports, Range
      <4>. QED BY <2>1, <4>1
    <3>. QED BY <2>1, <3>1, AppendIsFunction
  <2>3. Reports' = [k \in 1 .. hi |-> [round |-> ends'[k].round, samples |-> Samples(k)']]
        BY ClosedHeap DEF Reports
  <2>4. ASSUME NEW k \in 1 .. hi
        PROVE  [round |-> ends'[k].round, samples |-> Samples(k)'] =
                  IF k = hi THEN r ELSE Reports[k]
    <3>1. CASE k = hi BY <2>4, <3>1, ClosedHeap
    <3>2. CASE k # hi
      <4>1. k \in 1 .. hi - 1 /\ k \in DOMAIN ends BY <2>1, <3>2, ClosedHeap
      <4>2. ends'[k] = ends[k] /\ Samples(k)' = Samples(k) BY <4>1, ClosedHeap
      <4>. QED BY <3>2, <4>1, <4>2 DEF Reports
    <3>. QED BY <3>1, <3>2
  <2>. QED BY <2>2, <2>3, <2>4
<1>7. Samples(hi)' = {} /\ printed' = printed BY ClosedHeap DEF CloseRound
<1>. QED BY <1>3, <1>4, <1>5, <1>6, <1>7 DEF Abstract!Close

(* What the rest of the feed does is not seen in the reports. *)
LEMMA ReportsUnchanged ==
    ASSUME UNCHANGED <<hi, histos, ends>>
    PROVE  UNCHANGED <<Samples(hi), Reports>>
BY DEF Samples, Reports

LEMMA AbstractStep ==
    ASSUME FeedInv, [Next]_vars
    PROVE  [Abstract!Next]_(Abstract!vars)
<1>1. CASE (SendEvent \/ SendEnd \/ LoseBack) /\ UNCHANGED recvVars
      BY <1>1, ReportsUnchanged DEF SendEvent, SendEnd, LoseBack, measureVars, Abstract!vars
<1>2. ASSUME NEW fast \in BOOLEAN, RecordLatency(fast), UNCHANGED recvVars
      PROVE  Abstract!Record
      BY <1>2, RecordRefines
<1>3. CASE CloseRound /\ UNCHANGED recvVars
      BY <1>3, CloseRefines DEF Abstract!Next
<1>4. ASSUME NEW k \in dumping, Dump(k), UNCHANGED recvVars
      PROVE  k \in DOMAIN Reports /\ Abstract!Publish(k)
  <2>1. DOMAIN Reports = 1 .. Len(ends)
        BY ReportsSeq DEF FeedInv, TypeOK
  <2>2. k \in DOMAIN Reports /\ k \notin Range(printed)
        BY <2>1 DEF FeedInv, MeasureInv
  <2>3. UNCHANGED <<hi, histos, ends>> /\ printed' = Append(printed, k)
        BY <1>4 DEF Dump
  <2>4. UNCHANGED <<Samples(hi), Reports>> BY <2>3, ReportsUnchanged
  <2>5. Abstract!Range(printed) = Range(printed) BY DEF Abstract!Range, Range
  <2>. QED BY <2>2, <2>3, <2>4, <2>5 DEF Abstract!Publish
<1>5. CASE UNCHANGED pubVars \/ UNCHANGED vars
      BY <1>5, ReportsUnchanged DEF pubVars, vars, Abstract!vars
<1>. QED BY <1>1, <1>2, <1>3, <1>4, <1>5
         DEF Next, PubStep, RecvStep, PubSend, PubReceive, PubDump, Quiescent, Abstract!Next

(* The feed of threads, topics and histogram objects does what the          *)
(* measurement promises the reader of its reports.                         *)
THEOREM Implements == Spec => ImplementsReports
<1>1. Init => Abstract!Init
  <2>. SUFFICES ASSUME Init PROVE Abstract!Init OBVIOUS
  <2>1. Samples(hi) = {} /\ printed = <<>>
        BY DEF Init, PubInit, NewHistogram, Samples
  <2>2. TypeOK /\ ends = <<>> BY InitType DEF Init, PubInit
  <2>3. Reports = <<>> BY <2>2, ReportsSeq
  <2>. QED BY <2>1, <2>3 DEF Abstract!Init
<1>2. FeedInv /\ [Next]_vars => [Abstract!Next]_(Abstract!vars) BY AbstractStep
<1>. QED BY Invariance, <1>1, <1>2, PTL DEF Spec, ImplementsReports, Abstract!Spec

-----------------------------------------------------------------------------
(***************************************************************************)
(* The reports of the network feed are complete (CompleteReports): for     *)
(* every number of events, sampling rate, history and number of rounds, a  *)
(* report that follows another one of the same SUB process is about one    *)
(* round, and about one event in SampleEvery of it.                        *)
(*                                                                         *)
(* The argument: a SUB process counts the events from its start on, so     *)
(* that a number, its base, tells which events it bounces.  Whatever it    *)
(* bounces is on its way to PUB without a hole, from the END of the last   *)
(* report to the next message it will take; so what PUB has recorded since *)
(* then is all that was to be bounced.                                     *)
(***************************************************************************)
(* What PUB sends after m. *)
NextOf(m) == IF IsEnd(m) THEN [round |-> m.round + 1, n |-> 0]
                         ELSE [round |-> m.round, n |-> m.n + 1]

(* The listener's count when it is about to take m, in a SUB process with  *)
(* base c, and whether such a process bounces m.                           *)
Phase(c, m)    == (c + m.round * NumEvents + m.n) % SampleEvery
Returned(c, m) == IsEnd(m) \/ Phase(c, m) = SampleEvery - 1

(* What it bounces after x and before y. *)
Between(c, x, y) == {m \in Msg : Before(x, m) /\ Before(m, y) /\ Returned(c, m)}

-----------------------------------------------------------------------------
(* Messages in order. *)

(* The count moves on by one for each event, and not for an END. *)
LEMMA PhaseNext ==
    ASSUME NEW c \in Nat, NEW m, Keyed(m)
    PROVE  /\ Keyed(NextOf(m))
           /\ Phase(c, m) \in 0 .. SampleEvery - 1
           /\ IsEnd(m) => Phase(c, NextOf(m)) = Phase(c, m)
           /\ ~IsEnd(m) => Phase(c, NextOf(m)) = IF Phase(c, m) + 1 = SampleEvery THEN 0
                                                 ELSE Phase(c, m) + 1
<1>. DEFINE k == m.round * NumEvents
            a == c + k + m.n
<1>0. /\ NumEvents \in Nat /\ NumEvents > 0 /\ SampleEvery \in Nat \ {0}
      /\ m.round \in Nat /\ m.round > 0 /\ m.n \in 0 .. NumEvents
      BY FeedAssumption, SampleAssumption DEF Keyed, Round
<1>1. k \in Nat BY <1>0
<1>2. a \in Nat /\ Phase(c, m) = a % SampleEvery BY <1>0, <1>1 DEF Phase
<1>3. (m.round + 1) * NumEvents = k + NumEvents BY <1>0
<1>. HIDE DEF k
<1>4. Keyed(NextOf(m)) BY <1>0 DEF Keyed, NextOf, Round, IsEnd
<1>5. CASE IsEnd(m)
  <2>1. NextOf(m).round = m.round + 1 /\ NextOf(m).n = 0 /\ m.n = NumEvents
        BY <1>5 DEF NextOf, IsEnd
  <2>2. c + NextOf(m).round * NumEvents + NextOf(m).n = a BY <1>0, <1>1, <1>3, <2>1
  <2>3. Phase(c, NextOf(m)) = Phase(c, m) BY <1>2, <2>2 DEF Phase
  <2>. QED BY <1>0, <1>2, <1>4, <1>5, <2>3, ModRange
<1>6. CASE ~IsEnd(m)
  <2>1. NextOf(m).round = m.round /\ NextOf(m).n = m.n + 1 BY <1>6 DEF NextOf
  <2>2. c + NextOf(m).round * NumEvents + NextOf(m).n = a + 1
        BY <1>0, <1>1, <2>1 DEF k
  <2>3. Phase(c, NextOf(m)) = (a + 1) % SampleEvery BY <2>2 DEF Phase
  <2>. HIDE DEF a
  <2>4. a % SampleEvery \in 0 .. SampleEvery - 1
        /\ (a + 1) % SampleEvery \in 0 .. SampleEvery - 1
        BY <1>0, <1>2, ModRange
  <2>5. /\ (a + 1) % SampleEvery = 0 => a % SampleEvery = SampleEvery - 1
        /\ (a + 1) % SampleEvery # 0 => (a + 1) % SampleEvery = (a % SampleEvery) + 1
        BY <1>0, <1>2, ModNext
  <2>. QED BY <1>0, <1>2, <1>4, <1>6, <2>3, <2>4, <2>5
<1>. QED BY <1>5, <1>6

(* Nothing is between a message and the next one. *)
LEMMA NothingBetween ==
    ASSUME NEW c, NEW y, Keyed(y)
    PROVE  Between(c, y, NextOf(y)) = {}
<1>. SUFFICES ASSUME NEW m \in Msg, Before(y, m), Before(m, NextOf(y)) PROVE FALSE
     BY DEF Between
<1>. QED BY FeedAssumption DEF Keyed, Before, NextOf, IsEnd, Msg, Round

(* A message that is not bounced makes no difference. *)
LEMMA SkippedBetween ==
    ASSUME NEW c, NEW x, NEW y, Keyed(y), ~Returned(c, y)
    PROVE  Between(c, x, NextOf(y)) = Between(c, x, y)
<1>1. ASSUME NEW m \in Msg, Before(m, NextOf(y)), Returned(c, m) PROVE Before(m, y)
  <2>1. CASE m.round = y.round /\ m.n = y.n BY <1>1, <2>1 DEF Returned, IsEnd, Phase
  <2>2. CASE ~(m.round = y.round /\ m.n = y.n)
        BY <1>1, <2>2, FeedAssumption DEF Keyed, Before, NextOf, IsEnd, Msg, Round
  <2>. QED BY <2>1, <2>2
<1>2. ASSUME NEW m \in Msg, Before(m, y) PROVE Before(m, NextOf(y))
      BY <1>2, FeedAssumption DEF Keyed, Before, NextOf, IsEnd, Msg, Round
<1>. QED BY <1>1, <1>2 DEF Between

(* A message that is bounced is the one between its neighbours. *)
LEMMA OneBetween ==
    ASSUME NEW c, NEW e, NEW h, NEW k, Keyed(e), Keyed(h), Keyed(k),
           Before(e, h), Before(h, k), Returned(c, h), Between(c, h, k) = {}
    PROVE  Between(c, e, k) = Between(c, e, h) \cup {Sample(h)}
<1>. USE DEF Keyed, Before, Msg, Round
<1>1. Sample(h) \in Between(c, e, k)
      BY DEF Sample, Between, Returned, IsEnd, Phase
<1>2. ASSUME NEW m \in Between(c, e, k), m # Sample(h) PROVE m \in Between(c, e, h)
  <2>1. m \in Msg /\ m \notin Between(c, h, k) BY DEF Between
  <2>2. ~Before(h, m) BY <2>1 DEF Between
  <2>3. ~(m.round = h.round /\ m.n = h.n) BY <1>2, <2>1 DEF Sample
  <2>4. Before(m, h) BY <2>1, <2>2, <2>3, FeedAssumption
  <2>. QED BY <2>1, <2>4 DEF Between
<1>3. ASSUME NEW m \in Between(c, e, h) PROVE m \in Between(c, e, k)
  <2>1. m \in Msg /\ Before(m, h) BY DEF Between
  <2>2. Before(m, k) BY <2>1, FeedAssumption
  <2>. QED BY <2>2 DEF Between
<1>. QED BY <1>1, <1>2, <1>3

-----------------------------------------------------------------------------
(* How many events of a round are bounced. *)

(* One index in SampleEvery is in phase, wherever the counting begins. *)
LEMMA CountInPhase ==
    ASSUME NEW a \in Nat, NEW r
    PROVE  LET B == {[round |-> r, n |-> n] :
                        n \in {i \in 0 .. NumEvents - 1 : (a + i) % SampleEvery = SampleEvery - 1}}
           IN  Cardinality(B) \in { NumEvents \div SampleEvery,
                                    (NumEvents + SampleEvery - 1) \div SampleEvery }
<1>. DEFINE N == NumEvents
            S == SampleEvery
            I == {i \in 0 .. N - 1 : (a + i) % S = S - 1}
            B == {[round |-> r, n |-> n] : n \in I}
            p == a \div S
            s == a % S
            q == (N + s) \div S
            f == [j \in 1 .. q |-> [round |-> r, n |-> j * S - 1 - s]]
<1>0. N \in Nat \ {0} /\ S \in Nat \ {0} BY FeedAssumption, SampleAssumption
<1>. HIDE DEF N, S
<1>1. p \in Nat /\ s \in 0 .. S - 1 /\ a = S * p + s BY <1>0
<1>. HIDE DEF p, s
<1>2. q \in Nat /\ S * q <= N + s /\ N + s < S * q + S BY <1>0, <1>1
<1>. HIDE DEF q
<1>3. ASSUME NEW j \in 1 .. q PROVE j * S - 1 - s \in I
  <2>1. j * S >= S /\ j * S <= S * q BY <1>0, <1>2
  <2>2. j * S - 1 - s \in 0 .. N - 1 BY <1>0, <1>1, <1>2, <2>1
  <2>3. (p + j - 1) \in Nat BY <1>1
  <2>4. a + (j * S - 1 - s) = S * (p + j - 1) + (S - 1) BY <1>0, <1>1
  <2>5. (S * (p + j - 1) + (S - 1)) % S = S - 1 BY <1>0, <2>3
  <2>. QED BY <2>2, <2>4, <2>5
<1>4. ASSUME NEW i \in I PROVE \E j \in 1 .. q : i = j * S - 1 - s
  <2>. DEFINE k == (a + i) \div S
              j == k + 1 - p
  <2>1. i \in 0 .. N - 1 /\ (a + i) % S = S - 1 OBVIOUS
  <2>2. k \in Nat /\ a + i = S * k + (S - 1) BY <1>0, <2>1
  <2>. HIDE DEF k
  <2>3. j \in Int BY <1>1, <2>2
  <2>4. S * j = i + s + 1
    <3>1. S * j = S * k + S - S * p BY <1>0, <1>1, <2>2
    <3>. QED BY <1>0, <1>1, <2>1, <2>2, <3>1
  <2>. HIDE DEF j
  <2>5. j >= 1
    <3>1. CASE j <= 0
      <4>1. S * j <= 0 BY <1>0, <2>3, <3>1
      <4>. QED BY <1>1, <2>1, <2>4, <4>1
    <3>. QED BY <2>3, <3>1
  <2>6. j <= q
    <3>1. CASE j >= q + 1
      <4>1. S * j >= S * (q + 1) BY <1>0, <1>2, <2>3, <3>1
      <4>2. S * (q + 1) = S * q + S BY <1>0, <1>2
      <4>. QED BY <1>0, <1>1, <1>2, <2>1, <2>4, <4>1, <4>2
    <3>. QED BY <1>2, <2>3, <3>1
  <2>7. i = j * S - 1 - s BY <1>0, <1>1, <2>1, <2>3, <2>4
  <2>. QED BY <1>2, <2>3, <2>5, <2>6, <2>7
<1>5. f \in Bijection(1 .. q, B)
  <2>1. f \in [1 .. q -> B] BY <1>3
  <2>2. ASSUME NEW j \in 1 .. q, NEW k \in 1 .. q, f[j] = f[k] PROVE j = k
    <3>1. j * S - 1 - s = k * S - 1 - s BY <2>2
    <3>2. j * S = k * S BY <1>0, <1>1, <3>1
    <3>. QED BY <1>0, <3>2
  <2>3. ASSUME NEW t \in B PROVE \E j \in 1 .. q : f[j] = t
    <3>1. PICK i \in I : t = [round |-> r, n |-> i] OBVIOUS
    <3>2. PICK j \in 1 .. q : i = j * S - 1 - s BY <1>4
    <3>3. f[j] = t BY <3>1, <3>2
    <3>. QED BY <3>3
  <2>. HIDE DEF f, B
  <2>. QED BY <2>1, <2>2, <2>3 DEF Bijection, Injection, Surjection, IsInjective
<1>6. Cardinality(B) = q
  <2>. HIDE DEF f, B
  <2>1. ExistsBijection(1 .. q, B) BY <1>5 DEF ExistsBijection
  <2>. QED BY <1>2, <2>1, FS_CountingElements
<1>7. q \in {N \div S, (N + S - 1) \div S}
  <2>. DEFINE u == N \div S
              v == N % S
              w == (N + S - 1) \div S
              x == (N + S - 1) % S
  <2>1. /\ u \in Nat /\ v \in 0 .. S - 1 /\ N = S * u + v
        /\ w \in Nat /\ x \in 0 .. S - 1 /\ N + S - 1 = S * w + x
        BY <1>0
  <2>. HIDE DEF u, v, w, x
  <2>2. q >= u
    <3>1. CASE q + 1 <= u
      <4>1. S * (q + 1) <= S * u BY <1>0, <1>2, <2>1, <3>1
      <4>2. S * (q + 1) = S * q + S BY <1>0, <1>2
      <4>. QED BY <1>0, <1>1, <1>2, <2>1, <4>1, <4>2
    <3>. QED BY <1>2, <2>1, <3>1
  <2>3. q <= w
    <3>1. CASE w + 1 <= q
      <4>1. S * (w + 1) <= S * q BY <1>0, <1>2, <2>1, <3>1
      <4>2. S * (w + 1) = S * w + S BY <1>0, <2>1
      <4>. QED BY <1>0, <1>1, <1>2, <2>1, <4>1, <4>2
    <3>. QED BY <1>2, <2>1, <3>1
  <2>4. w <= u + 1
    <3>1. CASE u + 2 <= w
      <4>1. S * (u + 2) <= S * w BY <1>0, <2>1, <3>1
      <4>2. S * (u + 2) = S * u + S + S BY <1>0, <2>1
      <4>. QED BY <1>0, <2>1, <4>1, <4>2
    <3>. QED BY <2>1, <3>1
  <2>5. q = u \/ q = w BY <1>2, <2>1, <2>2, <2>3, <2>4
  <2>. QED BY <2>5 DEF u, w
<1>. QED BY <1>6, <1>7 DEF N, S

(* What is bounced between two ENDs, if there is no END among it, is about *)
(* one round, and one event in SampleEvery of it.                          *)
LEMMA WholeRound ==
    ASSUME NEW c \in Nat, NEW e, NEW h, Keyed(e), Keyed(h), IsEnd(e), IsEnd(h),
           e.round < h.round, Between(c, e, h) \subseteq Event
    PROVE  /\ h.round = e.round + 1
           /\ \A m \in Between(c, e, h) : m.round = h.round
           /\ Cardinality(Between(c, e, h)) \in
                 { NumEvents \div SampleEvery,
                   (NumEvents + SampleEvery - 1) \div SampleEvery }
<1>. DEFINE a == c + h.round * NumEvents
            B == {[round |-> h.round, n |-> n] :
                     n \in {i \in 0 .. NumEvents - 1 : (a + i) % SampleEvery = SampleEvery - 1}}
<1>0. /\ NumEvents \in Nat \ {0} /\ e.round \in Round /\ h.round \in Round
      /\ e.n = NumEvents /\ h.n = NumEvents
      BY FeedAssumption DEF Keyed, IsEnd
<1>1. h.round = e.round + 1
  <2>1. CASE e.round + 1 < h.round
    <3>. DEFINE m == [round |-> e.round + 1, n |-> NumEvents]
    <3>1. m \in Msg /\ m \notin Event BY <1>0 DEF Msg, Event, Round
    <3>2. Before(e, m) /\ Before(m, h) /\ IsEnd(m)
          BY <1>0, <2>1 DEF Before, IsEnd, Round
    <3>3. m \in Between(c, e, h) BY <3>1, <3>2 DEF Between, Returned
    <3>. QED BY <3>1, <3>3
  <2>. QED BY <1>0, <2>1 DEF Round
<1>2. ASSUME NEW m \in Between(c, e, h) PROVE m.round = h.round /\ m \in B
  <2>1. /\ m \in Msg /\ m.n \in 0 .. NumEvents /\ m.n < NumEvents /\ m.round \in Round
        /\ Before(e, m) /\ Before(m, h) /\ Returned(c, m)
        BY DEF Between, Event, Msg
  <2>2. m.round = h.round BY <1>0, <1>1, <2>1 DEF Before, Round
  <2>3. Phase(c, m) = SampleEvery - 1 BY <1>0, <2>1 DEF Returned, IsEnd
  <2>4. m.n \in {i \in 0 .. NumEvents - 1 : (a + i) % SampleEvery = SampleEvery - 1}
        BY <1>0, <2>1, <2>2, <2>3 DEF Phase
  <2>5. m = [round |-> h.round, n |-> m.n] BY <2>1, <2>2 DEF Msg
  <2>. QED BY <2>2, <2>4, <2>5
<1>3. ASSUME NEW m \in B PROVE m \in Between(c, e, h)
  <2>1. PICK i \in 0 .. NumEvents - 1 : /\ m = [round |-> h.round, n |-> i]
                                        /\ (a + i) % SampleEvery = SampleEvery - 1
        OBVIOUS
  <2>2. m \in Msg /\ m.round = h.round /\ m.n = i /\ i < NumEvents
        BY <1>0, <2>1 DEF Msg
  <2>3. Before(e, m) /\ Before(m, h) BY <1>0, <2>2 DEF Before, Round
  <2>4. Returned(c, m) BY <2>1, <2>2 DEF Returned, Phase
  <2>. QED BY <2>2, <2>3, <2>4 DEF Between
<1>4. Between(c, e, h) = B BY <1>2, <1>3
<1>5. a \in Nat BY <1>0 DEF Round
<1>6. Cardinality(B) \in { NumEvents \div SampleEvery,
                           (NumEvents + SampleEvery - 1) \div SampleEvery }
  <2>. HIDE DEF a
  <2>. QED BY <1>5, CountInPhase
<1>. QED BY <1>1, <1>2, <1>4, <1>6

-----------------------------------------------------------------------------
(* The inductive invariant.  b[i] is the base of the i-th SUB process.     *)

(* y follows x on the way to PUB: nothing to be bounced between them got   *)
(* lost, unless SUB was started anew.                                      *)
Linked(b, x, y) == /\ x.inc <= y.inc
                   /\ x.inc = y.inc => Between(b[x.inc], x, y) = {}

(* The next message that SUB takes, as long as it is not dropped.          *)
AtStream == stream.open /\ (stream.queue # <<>> \/ ~stream.gap)
Pos      == IF stream.queue # <<>> THEN stream.queue[1] ELSE NextMsg

(* The next message that may be offered on "back", and the next that PUB   *)
(* will take.                                                              *)
HasFront == back.open /\ ~back.gap /\ (cur # <<>> \/ AtStream)
Coming    == Bounced(IF cur # <<>> THEN cur[1] ELSE Pos)
HasNext  == back.queue # <<>> \/ HasFront
NextUp   == IF back.queue # <<>> THEN back.queue[1] ELSE Coming

(* Topic "stream" has no hole up to the next message that PUB sends, or to *)
(* the gap.                                                                *)
StreamInv == /\ \A i \in 1 .. Len(stream.queue) - 1 :
                   stream.queue[i + 1] = NextOf(stream.queue[i])
             /\ stream.open /\ stream.queue # <<>> /\ ~stream.gap =>
                   NextMsg = NextOf(stream.queue[Len(stream.queue)])
             /\ cur # <<>> => stream.open

(* Topic "back" has no hole up to the message being bounced, or to the gap. *)
AllLinked(b, q) == \A i \in 1 .. Len(q) - 1 : Linked(b, q[i], q[i + 1])
QueueLinked(b) == AllLinked(b, back.queue)
FrontLinked(b) == back.queue # <<>> /\ HasFront =>
                     Linked(b, back.queue[Len(back.queue)], Coming)
CurLinked(b)   == cur # <<>> /\ AtStream => Linked(b, Bounced(cur[1]), Bounced(Pos))

(* Only what is to be bounced is. *)
AllReturned(b) ==
    /\ \A i \in 1 .. Len(back.queue) : LET m == back.queue[i]
                                       IN  Returned(b[m.inc], m) /\ m.inc <= inc
    /\ cur # <<>> => Returned(b[inc], cur[1])

CountRight(b) == AtStream => count = Phase(b[inc], Pos)

(* The open histogram has all that was to be bounced since the last END.   *)
OpenReport(b) == ends # <<>> =>
    LET e == ends[Len(ends)]
    IN  /\ IsEnd(e) /\ e.inc <= inc
        /\ HasNext => /\ e.inc <= NextUp.inc
                      /\ e.inc = NextUp.inc => Samples(hi) = Between(b[e.inc], e, NextUp)

BackInv(b) == /\ QueueLinked(b) /\ FrontLinked(b) /\ CurLinked(b)
              /\ AllReturned(b) /\ CountRight(b) /\ OpenReport(b)

ReportInv == /\ FeedInv /\ StreamInv /\ CompleteReports
             /\ \E b \in [Nat -> Nat] : BackInv(b)

-----------------------------------------------------------------------------
(* A queue that is not empty, and what remains when its head is taken. *)
LEMMA NonEmptyQueue ==
    ASSUME NEW P, NEW q \in Seq(P), q # <<>>
    PROVE  /\ Len(q) \in Nat /\ Len(q) > 0 /\ Head(q) = q[1]
           /\ \A i \in 1 .. Len(q) : q[i] \in P
           /\ Tail(q) \in Seq(P) /\ Len(Tail(q)) = Len(q) - 1
           /\ \A i \in 1 .. Len(Tail(q)) : i + 1 \in 1 .. Len(q) /\ Tail(q)[i] = q[i + 1]
           /\ \A i \in 1 .. Len(Tail(q)) - 1 :
                 /\ i + 1 \in 1 .. Len(q) - 1
                 /\ Tail(q)[i] = q[i + 1] /\ Tail(q)[i + 1] = q[(i + 1) + 1]
           /\ Tail(q) = <<>> => Len(q) = 1
           /\ Tail(q) # <<>> => /\ 1 \in 1 .. Len(q) - 1 /\ Len(q) > 1
                                /\ Tail(q)[1] = q[2]
                                /\ Tail(q)[Len(Tail(q))] = q[Len(q)]
<1>1. /\ Len(q) \in Nat /\ Len(q) # 0 BY EmptySeq
<1>2. /\ Head(q) = q[1] /\ Tail(q) \in Seq(P) /\ Len(Tail(q)) = Len(q) - 1
      /\ \A i \in 1 .. Len(Tail(q)) : Tail(q)[i] = q[i + 1]
      BY HeadTailProperties
<1>3. \A i \in 1 .. Len(q) : q[i] \in P BY ElementOfSeq
<1>4. Tail(q) # <<>> <=> Len(Tail(q)) # 0 BY <1>2, EmptySeq
<1>5. \A i \in 1 .. Len(q) - 1 : Tail(q)[i] = q[i + 1] BY <1>2
<1>. DEFINE n == Len(q)
            t == Tail(q)
            l == Len(t)
<1>6. /\ n \in Nat /\ n # 0 /\ l = n - 1 /\ (t # <<>> <=> l # 0)
      /\ \A i \in 1 .. n - 1 : t[i] = q[i + 1]
      BY <1>1, <1>2, <1>4, <1>5
<1>. HIDE DEF n, t, l
<1>7. n > 0 /\ (t = <<>> => n = 1) /\ (t # <<>> => 1 \in 1 .. n - 1 /\ n > 1) BY <1>6
<1>8. ASSUME t # <<>> PROVE t[1] = q[2] /\ t[l] = q[n]
  <2>1. n - 1 \in 1 .. n - 1 /\ 1 \in 1 .. n - 1 /\ (n - 1) + 1 = n BY <1>6, <1>7, <1>8
  <2>2. t[1] = q[1 + 1] /\ t[n - 1] = q[(n - 1) + 1] BY <1>6, <2>1
  <2>. QED BY <1>6, <2>1, <2>2
<1>9. ASSUME NEW i \in 1 .. l PROVE i + 1 \in 1 .. n /\ t[i] = q[i + 1]
      BY <1>6
<1>10. ASSUME NEW i \in 1 .. l - 1
       PROVE  i + 1 \in 1 .. n - 1 /\ t[i] = q[i + 1] /\ t[i + 1] = q[(i + 1) + 1]
       BY <1>6
<1>11. /\ Len(q) > 0 /\ (Tail(q) = <<>> => Len(q) = 1)
       /\ Tail(q) # <<>> => /\ 1 \in 1 .. Len(q) - 1 /\ Len(q) > 1
                            /\ Tail(q)[1] = q[2] /\ Tail(q)[Len(Tail(q))] = q[Len(q)]
       /\ \A i \in 1 .. Len(Tail(q)) : i + 1 \in 1 .. Len(q) /\ Tail(q)[i] = q[i + 1]
       /\ \A i \in 1 .. Len(Tail(q)) - 1 :
             /\ i + 1 \in 1 .. Len(q) - 1
             /\ Tail(q)[i] = q[i + 1] /\ Tail(q)[i + 1] = q[(i + 1) + 1]
       BY <1>7, <1>8, <1>9, <1>10 DEF n, t, l
<1>. QED BY <1>1, <1>2, <1>3, <1>11

(* Types of what is on its way. *)
LEMMA OnTheWay ==
    ASSUME TypeOK
    PROVE  /\ back.queue \in Seq(BackMsg) /\ stream.queue \in Seq(Msg)
           /\ cur \in Seq(Msg) /\ ends \in Seq(BackMsg) /\ inc \in Nat
           /\ Keyed(NextMsg) /\ Keyed(Pos)
           /\ Keyed(Coming) /\ Coming.inc = inc
           /\ cur # <<>> => Keyed(cur[1]) /\ cur = <<cur[1]>> /\ cur[1] \in Msg
<1>1. /\ back.queue \in Seq(BackMsg) /\ stream.queue \in Seq(Msg)
      /\ cur \in Seq(Msg) /\ ends \in Seq(BackMsg) /\ inc \in Nat /\ Len(cur) <= 1
      BY DEF TypeOK, Topics
<1>2. Keyed(NextMsg) BY DEF TypeOK, Keyed, NextMsg
<1>3. Keyed(Pos)
  <2>1. CASE stream.queue # <<>>
    <3>1. stream.queue[1] \in Msg BY <1>1, <2>1
    <3>. QED BY <2>1, <3>1 DEF Pos, Keyed, Msg
  <2>. QED BY <1>2, <2>1 DEF Pos
<1>4. cur # <<>> => Keyed(cur[1]) /\ cur = <<cur[1]>> /\ cur[1] \in Msg
  <2>. SUFFICES ASSUME cur # <<>> PROVE Keyed(cur[1]) /\ cur = <<cur[1]>> /\ cur[1] \in Msg
       OBVIOUS
  <2>0. Len(cur) \in Nat /\ Len(cur) > 0 /\ \A i \in 1 .. Len(cur) : cur[i] \in Msg
        BY <1>1, NonEmptyQueue
  <2>. DEFINE n == Len(cur)
  <2>1. n \in Nat /\ n > 0 /\ n <= 1 BY <1>1, <2>0
  <2>. HIDE DEF n
  <2>2. n = 1 BY <2>1
  <2>3. cur[1] \in Msg BY <2>0, <2>2 DEF n
  <2>4. cur = <<cur[1]>> BY <1>1, <2>2 DEF n
  <2>. QED BY <2>3, <2>4 DEF Keyed, Msg
<1>5. Keyed(Coming) /\ Coming.inc = inc BY <1>3, <1>4 DEF Coming, Bounced, Keyed
<1>. QED BY <1>1, <1>2, <1>3, <1>4, <1>5

(* The initial states. *)
LEMMA InitReports == Init => ReportInv
<1>. SUFFICES ASSUME Init PROVE ReportInv OBVIOUS
<1>1. FeedInv BY InitInv
<1>2. /\ stream = Unsubscribed /\ back = Subscribed /\ ends = <<>> /\ cur = <<>>
      BY DEF Init, PubInit, RecvInit
<1>3. Len(<<>>) = 0 OBVIOUS
<1>4. StreamInv /\ CompleteReports
      BY <1>2, <1>3 DEF Unsubscribed, StreamInv, CompleteReports
<1>5. ~AtStream /\ ~HasFront BY <1>2 DEF Unsubscribed, AtStream, HasFront
<1>6. BackInv([i \in Nat |-> 0])
      BY <1>2, <1>3, <1>5 DEF Subscribed, BackInv, QueueLinked, AllLinked, FrontLinked, CurLinked,
         AllReturned, CountRight, OpenReport
<1>7. [i \in Nat |-> 0] \in [Nat -> Nat] OBVIOUS
<1>. QED BY <1>1, <1>4, <1>6, <1>7 DEF ReportInv

-----------------------------------------------------------------------------
(* Topic "stream". *)

(* PUB sends the next message: SUB's next one stays the same. *)
LEMMA StreamSent ==
    ASSUME FeedInv, StreamInv, stream' = Offered(stream, NextMsg),
           NextMsg' = NextOf(NextMsg), UNCHANGED cur
    PROVE  StreamInv' /\ (AtStream' => AtStream /\ Pos' = Pos)
<1>. DEFINE q == stream.queue
<1>0. stream \in Topics(Msg) /\ q \in Seq(Msg) BY DEF FeedInv, TypeOK, Topics
<1>1. CASE Follows(stream)
  <2>1. /\ stream'.queue = Append(q, NextMsg) /\ stream'.open = stream.open
        /\ stream'.gap = stream.gap /\ stream.open /\ ~stream.gap
        BY <1>0, <1>1 DEF Offered, Follows, Topics
  <2>2. /\ Len(q) \in Nat /\ Len(stream'.queue) = Len(q) + 1
        /\ \A i \in 1 .. Len(q) : stream'.queue[i] = q[i]
        /\ stream'.queue[Len(q) + 1] = NextMsg
        /\ q # <<>> <=> Len(q) > 0
        BY <1>0, <2>1, AppendProperties, EmptySeq
  <2>3. ASSUME NEW i \in 1 .. Len(stream'.queue) - 1
        PROVE  stream'.queue[i + 1] = NextOf(stream'.queue[i])
    <3>1. CASE i = Len(q) BY <2>1, <2>2, <3>1 DEF StreamInv
    <3>2. CASE i # Len(q)
      <4>1. i \in 1 .. Len(q) - 1 /\ i \in 1 .. Len(q) /\ i + 1 \in 1 .. Len(q)
            BY <2>2, <3>2
      <4>2. stream'.queue[i] = q[i] /\ stream'.queue[i + 1] = q[i + 1] BY <2>2, <4>1
      <4>. QED BY <4>1, <4>2 DEF StreamInv
    <3>. QED BY <3>1, <3>2
  <2>4. StreamInv'
        BY <2>1, <2>2, <2>3 DEF StreamInv, NextOf, IsEnd
  <2>5. AtStream /\ Pos' = Pos
    <3>1. stream'.queue # <<>> /\ stream'.queue[1] = IF q # <<>> THEN q[1] ELSE NextMsg
          BY <2>1, <2>2
    <3>. QED BY <2>1, <3>1 DEF AtStream, Pos
  <2>. QED BY <2>4, <2>5
<1>2. CASE ~Follows(stream)
  <2>1. stream'.queue = q /\ stream'.gap = stream.open /\ stream'.open = stream.open
        BY <1>0, <1>2 DEF Offered, Topics
  <2>2. StreamInv' BY <2>1 DEF StreamInv, NextOf, IsEnd
  <2>3. AtStream' => AtStream /\ Pos' = Pos BY <2>1 DEF AtStream, Pos
  <2>. QED BY <2>2, <2>3
<1>. QED BY <1>1, <1>2

(* SUB takes its next message: the one PUB sent after it is the next. *)
LEMMA StreamTook ==
    ASSUME FeedInv, StreamInv, Deliverable(stream), stream' = Taken(stream),
           UNCHANGED senderVars
    PROVE  /\ StreamInv' /\ AtStream /\ Pos = Head(stream.queue)
           /\ AtStream' => Pos' = NextOf(Pos)
<1>. DEFINE q == stream.queue
<1>0. /\ stream \in Topics(Msg) /\ q \in Seq(Msg) /\ q # <<>> /\ stream.open
      /\ NextMsg' = NextMsg
      BY DEF FeedInv, TypeOK, Topics, Deliverable, senderVars, NextMsg
<1>1. /\ stream'.queue = Tail(q) /\ stream'.open = stream.open /\ stream'.gap = stream.gap
      BY <1>0 DEF Taken, Topics
<1>2. /\ Len(q) \in Nat /\ Len(q) > 0 /\ Head(q) = q[1]
      /\ Tail(q) \in Seq(Msg) /\ Len(Tail(q)) = Len(q) - 1
      /\ \A i \in 1 .. Len(Tail(q)) : i + 1 \in 1 .. Len(q) /\ Tail(q)[i] = q[i + 1]
      /\ \A i \in 1 .. Len(Tail(q)) - 1 :
            /\ i + 1 \in 1 .. Len(q) - 1
            /\ Tail(q)[i] = q[i + 1] /\ Tail(q)[i + 1] = q[(i + 1) + 1]
      /\ Tail(q) = <<>> => Len(q) = 1
      /\ Tail(q) # <<>> => /\ 1 \in 1 .. Len(q) - 1 /\ Len(q) > 1
                           /\ Tail(q)[1] = q[2] /\ Tail(q)[Len(Tail(q))] = q[Len(q)]
      BY <1>0, NonEmptyQueue
<1>3. ASSUME NEW i \in 1 .. Len(Tail(q)) - 1 PROVE Tail(q)[i + 1] = NextOf(Tail(q)[i])
      BY <1>2 DEF StreamInv
<1>4. Tail(q) # <<>> /\ ~stream.gap => NextMsg = NextOf(Tail(q)[Len(Tail(q))])
      BY <1>0, <1>2 DEF StreamInv
<1>5. StreamInv' BY <1>0, <1>1, <1>3, <1>4 DEF StreamInv, NextOf, IsEnd
<1>6. AtStream /\ Pos = Head(q) BY <1>0, <1>2 DEF AtStream, Pos
<1>7. AtStream' => Pos' = NextOf(Pos)
  <2>1. CASE Tail(q) # <<>>
    <3>1. Pos' = q[2] BY <1>1, <1>2, <2>1 DEF Pos
    <3>2. q[2] = NextOf(q[1]) BY <1>2, <2>1 DEF StreamInv
    <3>. QED BY <1>2, <1>6, <3>1, <3>2
  <2>2. CASE Tail(q) = <<>>
    <3>1. Pos' = NextMsg /\ (AtStream' => ~stream.gap) BY <1>0, <1>1, <2>2 DEF Pos, AtStream
    <3>2. Len(q) = 1 BY <1>2, <2>2
    <3>3. ~stream.gap => NextMsg = NextOf(q[1]) BY <1>0, <3>2 DEF StreamInv
    <3>. QED BY <1>2, <1>6, <3>1, <3>3
  <2>. QED BY <2>1, <2>2
<1>. QED BY <1>5, <1>6, <1>7

-----------------------------------------------------------------------------
(* Topic "back". *)

(* A step that leaves it, and SUB's next message, alone. *)
LEMMA BackKept ==
    ASSUME NEW b \in [Nat -> Nat], BackInv(b),
           UNCHANGED <<back, cur, inc, count, ends, hi, histos>>,
           AtStream' => AtStream /\ Pos' = Pos
    PROVE  BackInv(b)'
<1>1. HasFront' => HasFront /\ Coming' = Coming BY DEF HasFront, Coming, Bounced
<1>2. HasNext' => HasNext /\ NextUp' = NextUp BY <1>1 DEF HasNext, NextUp
<1>3. QueueLinked(b)' /\ AllReturned(b)'
      BY DEF BackInv, QueueLinked, AllLinked, AllReturned, Linked, Returned, IsEnd, Phase, Between
<1>4. FrontLinked(b)' BY <1>1 DEF BackInv, FrontLinked, Linked
<1>5. CurLinked(b)' BY DEF BackInv, CurLinked, Linked, Bounced
<1>6. CountRight(b)' BY DEF BackInv, CountRight, Phase
<1>7. OpenReport(b)' BY <1>2 DEF BackInv, OpenReport, Samples, IsEnd
<1>. QED BY <1>3, <1>4, <1>5, <1>6, <1>7 DEF BackInv

(* What of a queue is also in another one. *)
LEMMA Prefix ==
    ASSUME NEW n \in Nat, NEW l \in Nat, l <= n
    PROVE  /\ \A i \in 1 .. l : i \in 1 .. n
           /\ \A i \in 1 .. l - 1 : i \in 1 .. n - 1 /\ i \in 1 .. l /\ i + 1 \in 1 .. l
           /\ l > 0 => 1 \in 1 .. l /\ n # 0
OBVIOUS

(* A step that cuts it off behind some message, and ends it there. *)
LEMMA BackCut ==
    ASSUME NEW b \in [Nat -> Nat], BackInv(b), TypeOK, TypeOK',
           cur' \in {cur, <<>>}, UNCHANGED <<inc, ends, hi, histos>>,
           Len(back'.queue) <= Len(back.queue),
           \A i \in 1 .. Len(back'.queue) : back'.queue[i] = back.queue[i],
           ~HasFront',
           AtStream' => AtStream /\ Pos' = Pos /\ count' = count
    PROVE  BackInv(b)'
<1>. DEFINE n == Len(back.queue)
            l == Len(back'.queue)
<1>0. /\ back.queue \in Seq(BackMsg) /\ back'.queue \in Seq(BackMsg)
      /\ n \in Nat /\ l \in Nat
  <2>1. back \in Topics(BackMsg) BY DEF TypeOK
  <2>2. back' \in Topics(BackMsg) BY DEF TypeOK, Topics, BackMsg, Round
  <2>3. back.queue \in Seq(BackMsg) /\ back'.queue \in Seq(BackMsg) BY <2>1, <2>2 DEF Topics
  <2>. QED BY <2>3, EmptySeq
<1>p. /\ \A i \in 1 .. l : i \in 1 .. n
      /\ \A i \in 1 .. l - 1 : i \in 1 .. n - 1 /\ i \in 1 .. l /\ i + 1 \in 1 .. l
      /\ l > 0 => 1 \in 1 .. l /\ n # 0
  <2>1. l <= n OBVIOUS
  <2>. HIDE DEF n, l
  <2>. QED BY <1>0, <2>1, Prefix
<1>1. QueueLinked(b)'
  <2>1. ASSUME NEW i \in 1 .. Len(back'.queue) - 1
        PROVE  Linked(b, back'.queue[i], back'.queue[i + 1])
    <3>1. i \in 1 .. Len(back.queue) - 1 /\ i \in 1 .. Len(back'.queue)
          /\ i + 1 \in 1 .. Len(back'.queue)
          BY <1>p
    <3>2. back'.queue[i] = back.queue[i] /\ back'.queue[i + 1] = back.queue[i + 1] BY <3>1
    <3>. QED BY <3>1, <3>2 DEF BackInv, QueueLinked, AllLinked
  <2>. QED BY <2>1 DEF QueueLinked, AllLinked, Linked
<1>2. AllReturned(b)'
  <2>1. \A i \in 1 .. Len(back'.queue) : i \in 1 .. Len(back.queue) BY <1>p
  <2>. QED BY <2>1 DEF BackInv, AllReturned, Returned, IsEnd, Phase
<1>3. FrontLinked(b)' BY DEF FrontLinked
<1>4. CurLinked(b)' BY DEF BackInv, CurLinked, Linked, Bounced
<1>5. CountRight(b)' BY DEF BackInv, CountRight, Phase
<1>6. HasNext' => HasNext /\ NextUp' = NextUp
  <2>. SUFFICES ASSUME HasNext' PROVE HasNext /\ NextUp' = NextUp OBVIOUS
  <2>1. back'.queue # <<>> BY DEF HasNext
  <2>2. Len(back'.queue) > 0 BY <1>0, <2>1, NonEmptyQueue
  <2>3. back.queue # <<>> /\ 1 \in 1 .. Len(back'.queue) BY <1>0, <1>p, <2>2, EmptySeq
  <2>4. back'.queue[1] = back.queue[1] BY <2>3
  <2>. QED BY <2>1, <2>3, <2>4 DEF HasNext, NextUp
<1>7. OpenReport(b)' BY <1>6 DEF BackInv, OpenReport, Samples, IsEnd
<1>. QED BY <1>1, <1>2, <1>3, <1>4, <1>5, <1>7 DEF BackInv

(* PUB takes the next message: what remains follows it. *)
LEMMA BackTook ==
    ASSUME NEW b \in [Nat -> Nat], BackInv(b), TypeOK, Deliverable(back),
           back' = Taken(back), UNCHANGED <<stream, cur, inc, count, senderVars>>
    PROVE  /\ QueueLinked(b)' /\ FrontLinked(b)' /\ CurLinked(b)'
           /\ AllReturned(b)' /\ CountRight(b)'
           /\ back.queue # <<>> /\ Head(back.queue) = back.queue[1] /\ NextUp = back.queue[1]
           /\ 1 \in 1 .. Len(back.queue)
           /\ HasFront' => HasFront /\ Coming' = Coming
           /\ HasNext' => /\ Linked(b, back.queue[1], NextUp')
                          /\ NextUp' = IF Len(back.queue) > 1 THEN back.queue[2] ELSE Coming
                          /\ Len(back.queue) > 1 \/ HasFront
<1>. DEFINE q == back.queue
<1>0. /\ back \in Topics(BackMsg) /\ q \in Seq(BackMsg) /\ q # <<>>
      /\ NextMsg' = NextMsg
      BY DEF TypeOK, Topics, Deliverable, senderVars, NextMsg
<1>1. back'.queue = Tail(q) /\ back'.open = back.open /\ back'.gap = back.gap
      BY <1>0 DEF Taken, Topics
<1>2. /\ Len(q) \in Nat /\ Len(q) > 0 /\ Head(q) = q[1]
      /\ Tail(q) \in Seq(BackMsg) /\ Len(Tail(q)) = Len(q) - 1
      /\ \A i \in 1 .. Len(Tail(q)) : i + 1 \in 1 .. Len(q) /\ Tail(q)[i] = q[i + 1]
      /\ \A i \in 1 .. Len(Tail(q)) - 1 :
            /\ i + 1 \in 1 .. Len(q) - 1
            /\ Tail(q)[i] = q[i + 1] /\ Tail(q)[i + 1] = q[(i + 1) + 1]
      /\ Tail(q) = <<>> => Len(q) = 1
      /\ Tail(q) # <<>> => /\ 1 \in 1 .. Len(q) - 1 /\ Len(q) > 1
                           /\ Tail(q)[1] = q[2] /\ Tail(q)[Len(Tail(q))] = q[Len(q)]
      BY <1>0, NonEmptyQueue
<1>3. AtStream' = AtStream /\ Pos' = Pos BY <1>0 DEF AtStream, Pos
<1>4. HasFront' = HasFront /\ Coming' = Coming
      BY <1>1, <1>3 DEF HasFront, Coming, Bounced
<1>5. QueueLinked(b)'
  <2>1. ASSUME NEW i \in 1 .. Len(Tail(q)) - 1 PROVE Linked(b, Tail(q)[i], Tail(q)[i + 1])
    <3>1. /\ i + 1 \in 1 .. Len(q) - 1
          /\ Tail(q)[i] = q[i + 1] /\ Tail(q)[i + 1] = q[(i + 1) + 1]
          BY <1>2
    <3>2. Linked(b, q[i + 1], q[(i + 1) + 1]) BY <3>1 DEF BackInv, QueueLinked, AllLinked
    <3>. QED BY <3>1, <3>2
  <2>. QED BY <1>1, <2>1 DEF QueueLinked, AllLinked, Linked
<1>6. FrontLinked(b)'
  <2>. QED BY <1>0, <1>1, <1>2, <1>4 DEF BackInv, FrontLinked, Linked
<1>7. CurLinked(b)' BY <1>3 DEF BackInv, CurLinked, Linked, Bounced
<1>8. AllReturned(b)'
  <2>1. ASSUME NEW i \in 1 .. Len(Tail(q))
        PROVE  /\ Returned(b[Tail(q)[i].inc], Tail(q)[i]) /\ Tail(q)[i].inc <= inc
    <3>1. i + 1 \in 1 .. Len(q) /\ Tail(q)[i] = q[i + 1] BY <1>2
    <3>. QED BY <3>1 DEF BackInv, AllReturned
  <2>. QED BY <1>1, <2>1 DEF BackInv, AllReturned, Returned, IsEnd, Phase
<1>9. CountRight(b)' BY <1>3 DEF BackInv, CountRight, Phase
<1>10. NextUp = q[1] /\ 1 \in 1 .. Len(q)
  <2>. DEFINE n == Len(q)
  <2>1. n \in Nat /\ n > 0 BY <1>2
  <2>. HIDE DEF n
  <2>2. 1 \in 1 .. n BY <2>1
  <2>. QED BY <1>0, <2>2 DEF NextUp, n
<1>11. ASSUME HasNext'
       PROVE  /\ Linked(b, q[1], NextUp')
              /\ NextUp' = IF Len(q) > 1 THEN q[2] ELSE Coming
              /\ Len(q) > 1 \/ HasFront
  <2>1. CASE Tail(q) # <<>>
    <3>1. NextUp' = q[2] /\ Len(q) > 1 BY <1>1, <1>2, <2>1 DEF NextUp
    <3>2. Linked(b, q[1], q[2]) BY <1>2, <2>1 DEF BackInv, QueueLinked, AllLinked
    <3>. QED BY <3>1, <3>2
  <2>2. CASE Tail(q) = <<>>
    <3>1. Len(q) = 1 BY <1>2, <2>2
    <3>2. HasFront /\ NextUp' = Coming BY <1>1, <1>4, <1>11, <2>2 DEF HasNext, NextUp
    <3>3. Linked(b, q[1], Coming) BY <1>0, <3>1, <3>2 DEF BackInv, FrontLinked
    <3>. QED BY <3>1, <3>2, <3>3
  <2>. QED BY <2>1, <2>2
<1>. QED BY <1>0, <1>2, <1>4, <1>5, <1>6, <1>7, <1>8, <1>9, <1>10, <1>11

(* What was recorded or is on its way is in order. *)
LEMMA UpInOrder ==
    ASSUME FeedInv, back.queue # <<>>
    PROVE  LET q == back.queue
           IN  /\ q[1] \in BackMsg /\ Keyed(q[1])
               /\ Len(q) > 1 => q[2] \in BackMsg /\ Keyed(q[2]) /\ Before(q[1], q[2])
               /\ Before(q[1], Coming)
               /\ ends # <<>> => LET e == ends[Len(ends)]
                                 IN  e \in BackMsg /\ Keyed(e) /\ e.round < q[1].round
<1>. DEFINE q == back.queue
            n == Len(q)
            l == Len(ends)
<1>. USE DEF FeedInv
<1>1. q \in Seq(BackMsg) /\ cur \in Seq(Msg) /\ stream.queue \in Seq(Msg) /\ ends \in Seq(BackMsg)
      BY OnTheWay
<1>2. /\ n \in Nat /\ n > 0 /\ \A i \in 1 .. n : q[i] \in BackMsg
      BY <1>1, NonEmptyQueue
<1>3. DOMAIN q = 1 .. n BY <1>1
<1>4. InOrder(q) /\ AllBefore(Range(q), Range(cur) \cup Range(stream.queue) \cup {NextMsg})
      BY DEF PipelineInOrder, AllBefore, InFlight
<1>. HIDE DEF n
<1>5. 1 \in 1 .. n /\ (n > 1 => 2 \in 1 .. n) BY <1>2
<1>. HIDE DEF q
<1>6. \A m \in BackMsg : Keyed(m) BY DEF BackMsg, Keyed
<1>7. n > 1 => Before(q[1], q[2]) BY <1>3, <1>4, <1>5 DEF InOrder
<1>8. q[1] \in Range(q) BY <1>3, <1>5 DEF Range
<1>9. Before(q[1], Coming)
  <2>1. CASE cur # <<>>
    <3>1. cur[1] \in Range(cur)
      <4>1. cur = <<cur[1]>> BY <2>1, OnTheWay
      <4>2. DOMAIN cur = {1} BY <4>1
      <4>. QED BY <4>2 DEF Range
    <3>2. Before(q[1], cur[1]) BY <1>4, <1>8, <3>1 DEF AllBefore
    <3>. QED BY <2>1, <3>2 DEF Coming, Bounced, Before
  <2>2. CASE cur = <<>>
    <3>1. Pos \in Range(stream.queue) \cup {NextMsg}
      <4>1. CASE stream.queue # <<>>
        <5>1. 1 \in DOMAIN stream.queue BY <1>1, <4>1
        <5>. QED BY <4>1, <5>1 DEF Pos, Range
      <4>. QED BY <4>1 DEF Pos
    <3>2. Before(q[1], Pos) BY <1>4, <1>8, <3>1 DEF AllBefore
    <3>. QED BY <2>2, <3>2 DEF Coming, Bounced, Before
  <2>. QED BY <2>1, <2>2
<1>10. ASSUME ends # <<>>
       PROVE  LET e == ends[Len(ends)]
              IN  e \in BackMsg /\ Keyed(e) /\ e.round < q[1].round
  <2>1. l \in Nat /\ l > 0 /\ ends[l] \in BackMsg
    <3>1. l \in Nat /\ l > 0 /\ \A i \in 1 .. l : ends[i] \in BackMsg
          BY <1>1, <1>10, NonEmptyQueue
    <3>. HIDE DEF l
    <3>2. l \in 1 .. l BY <3>1
    <3>. QED BY <3>1, <3>2
  <2>2. q[1] \in InFlight BY <1>8 DEF InFlight, q
  <2>3. q[1].round > ClosedRound(l) BY <2>2 DEF MeasureInv
  <2>4. ClosedRound(l) = ends[l].round BY <2>1 DEF ClosedRound
  <2>5. Keyed(q[1]) /\ Keyed(ends[l]) BY <1>2, <1>5, <1>6, <2>1
  <2>. QED BY <2>1, <2>3, <2>4, <2>5 DEF Keyed, Round
<1>. QED BY <1>2, <1>5, <1>6, <1>7, <1>9, <1>10 DEF q, n

-----------------------------------------------------------------------------
(* What PUB's receiving thread does. *)

(* A step that sends and receives nothing on "stream". *)
LEMMA StreamKept ==
    ASSUME StreamInv, UNCHANGED <<stream, senderVars>>, cur' \in {cur, <<>>}
    PROVE  StreamInv' /\ AtStream' = AtStream /\ Pos' = Pos
<1>1. NextMsg' = NextMsg BY DEF NextMsg, senderVars
<1>2. StreamInv' BY <1>1 DEF StreamInv, NextOf, IsEnd
<1>3. AtStream' = AtStream /\ Pos' = Pos BY <1>1 DEF AtStream, Pos
<1>. QED BY <1>2, <1>3

(* The reports are those of before. *)
LEMMA ReportsKept ==
    ASSUME CompleteReports, UNCHANGED <<ends, histos>>
    PROVE  CompleteReports'
BY DEF CompleteReports, Samples

(* The sample joins the open report, and no other one. *)
LEMMA SampleJoins ==
    ASSUME TypeOK, NEW fast \in BOOLEAN, RecordLatency(fast)
    PROVE  /\ Samples(hi)' = Samples(hi) \cup {Sample(Head(back.queue))}
           /\ \A k \in DOMAIN histos : k # hi => Samples(k)' = Samples(k)
<1>1. ASSUME NEW k \in DOMAIN histos, k # hi PROVE Samples(k)' = Samples(k)
      BY <1>1 DEF RecordLatency, TypeOK, Samples
<1>2. hi \in DOMAIN histos /\ histos[hi] \in Histograms /\ hi' = hi
      BY DEF TypeOK, RecordLatency
<1>3. CASE fast
      BY <1>2, <1>3 DEF RecordLatency, TypeOK, Samples, Histograms
<1>4. CASE ~fast
      BY <1>2, <1>4 DEF RecordLatency, TypeOK, Samples, Histograms
<1>. QED BY <1>1, <1>3, <1>4

(* A bounced event is the next of the open report. *)
LEMMA RecordReports ==
    ASSUME FeedInv, StreamInv, CompleteReports, NEW b \in [Nat -> Nat], BackInv(b),
           NEW fast \in BOOLEAN, RecordLatency(fast), UNCHANGED recvVars
    PROVE  StreamInv' /\ CompleteReports' /\ BackInv(b)'
<1>. DEFINE q == back.queue
            h == q[1]
            e == ends[Len(ends)]
<1>. USE DEF FeedInv
<1>1. /\ Deliverable(back) /\ back' = Taken(back)
      /\ UNCHANGED <<stream, cur, inc, count, senderVars>>
      /\ hi' = hi /\ ends' = ends /\ ~IsEnd(Head(q))
      BY DEF RecordLatency, recvVars
<1>2. /\ QueueLinked(b)' /\ FrontLinked(b)' /\ CurLinked(b)'
      /\ AllReturned(b)' /\ CountRight(b)'
      /\ q # <<>> /\ Head(q) = h /\ NextUp = h
      /\ 1 \in 1 .. Len(q)
      /\ HasFront' => HasFront /\ Coming' = Coming
      /\ HasNext' => /\ Linked(b, h, NextUp')
                     /\ NextUp' = IF Len(q) > 1 THEN q[2] ELSE Coming
                     /\ Len(q) > 1 \/ HasFront
      BY <1>1, BackTook
<1>3. StreamInv' BY <1>1, StreamKept
<1>4. /\ Samples(hi)' = Samples(hi) \cup {Sample(h)}
      /\ \A k \in DOMAIN histos : k # hi => Samples(k)' = Samples(k)
      BY <1>2, SampleJoins
<1>5. CompleteReports'
  <2>1. ASSUME NEW k \in 2 .. Len(ends) PROVE Samples(k)' = Samples(k)
    <3>. DEFINE l == Len(ends)
    <3>0. /\ ends \in Seq(BackMsg) /\ histos \in Seq(Histograms)
          /\ hi = Len(histos) /\ hi = l + 1 /\ k \in 2 .. l
          BY DEF MeasureInv, TypeOK
    <3>1. l \in Nat /\ DOMAIN histos = 1 .. hi
      <4>1. Len(ends) \in Nat BY <3>0
      <4>2. DOMAIN histos = 1 .. Len(histos) BY ONLY <3>0, LenProperties
      <4>. QED BY <3>0, <4>1, <4>2
    <3>. HIDE DEF l
    <3>2. k \in 1 .. hi /\ k # hi BY <3>0, <3>1
    <3>3. k \in DOMAIN histos /\ k # hi BY <3>1, <3>2
    <3>. QED BY <1>4, <3>3
  <2>. QED BY <1>1, <2>1 DEF CompleteReports
<1>6. OpenReport(b)'
  <2>. SUFFICES ASSUME ends # <<>>
                PROVE  /\ IsEnd(e) /\ e.inc <= inc
                       /\ HasNext' => /\ e.inc <= NextUp'.inc
                                      /\ e.inc = NextUp'.inc =>
                                            Samples(hi)' = Between(b[e.inc], e, NextUp')
       BY <1>1 DEF OpenReport, IsEnd, Between, Before, Returned, Phase
  <2>1. HasNext BY <1>2 DEF HasNext
  <2>2. /\ IsEnd(e) /\ e.inc <= inc /\ e.inc <= h.inc
        /\ e.inc = h.inc => Samples(hi) = Between(b[e.inc], e, h)
        BY <1>2, <2>1 DEF BackInv, OpenReport
  <2>3. ASSUME HasNext'
        PROVE  /\ e.inc <= NextUp'.inc
               /\ e.inc = NextUp'.inc => Samples(hi)' = Between(b[e.inc], e, NextUp')
    <3>. DEFINE k == IF Len(q) > 1 THEN q[2] ELSE Coming
    <3>1. /\ NextUp' = k /\ Linked(b, h, k) BY <1>2, <2>3
    <3>2. /\ Keyed(e) /\ Keyed(h) /\ Keyed(k) /\ Before(h, k) /\ e.round < h.round
          /\ e.inc \in Nat /\ h.inc \in Nat /\ k.inc \in Nat
          BY <1>2, UpInOrder, OnTheWay DEF BackMsg
    <3>3. Before(e, h) BY <3>2 DEF Before
    <3>4. Returned(b[h.inc], h) BY <1>2 DEF BackInv, AllReturned
    <3>5. e.inc <= h.inc /\ (e.inc = h.inc => Samples(hi) = Between(b[e.inc], e, h)) BY <2>2
    <3>. DEFINE Step(x, y, z) == /\ x.inc <= z.inc
                                 /\ x.inc = z.inc =>
                                       Samples(hi) \cup {Sample(y)} = Between(b[x.inc], x, z)
    <3>6. ASSUME NEW x, NEW y, NEW z, x = e, y = h, z = k PROVE Step(x, y, z)
      <4>1. /\ Keyed(x) /\ Keyed(y) /\ Keyed(z) /\ Before(x, y) /\ Before(y, z)
            /\ x.inc \in Nat /\ y.inc \in Nat /\ z.inc \in Nat
            /\ Linked(b, y, z) /\ Returned(b[y.inc], y)
            /\ x.inc <= y.inc /\ (x.inc = y.inc => Samples(hi) = Between(b[x.inc], x, y))
            BY <3>1, <3>2, <3>3, <3>4, <3>5, <3>6
      <4>2. y.inc <= z.inc /\ (y.inc = z.inc => Between(b[y.inc], y, z) = {})
            BY <4>1 DEF Linked
      <4>3. x.inc <= z.inc
        <5>1. x.inc \in Nat /\ y.inc \in Nat /\ z.inc \in Nat /\ x.inc <= y.inc /\ y.inc <= z.inc
              BY <4>1, <4>2
        <5>. QED BY ONLY <5>1
      <4>4. ASSUME x.inc = z.inc
            PROVE  Samples(hi) \cup {Sample(y)} = Between(b[x.inc], x, z)
        <5>1. y.inc = x.inc /\ y.inc = z.inc BY <4>1, <4>2, <4>4
        <5>2. /\ Between(b[x.inc], y, z) = {} /\ Returned(b[x.inc], y)
              /\ Samples(hi) = Between(b[x.inc], x, y)
              BY <4>1, <4>2, <5>1
        <5>3. ASSUME NEW c, c = b[x.inc]
              PROVE  Between(c, x, z) = Between(c, x, y) \cup {Sample(y)}
          <6>1. /\ Keyed(x) /\ Keyed(y) /\ Keyed(z) /\ Before(x, y) /\ Before(y, z)
                /\ Between(c, y, z) = {} /\ Returned(c, y)
                BY <4>1, <5>2, <5>3
          <6>. QED BY ONLY <6>1, OneBetween
        <5>. QED BY <5>2, <5>3
      <4>. QED BY <4>3, <4>4
    <3>. QED BY <1>4, <3>1, <3>6
  <2>. QED BY <2>2, <2>3
<1>. QED BY <1>2, <1>3, <1>5, <1>6 DEF BackInv

(* A bounced END closes a report, which has what was to be bounced. *)
LEMMA CloseReports ==
    ASSUME FeedInv, StreamInv, CompleteReports, NEW b \in [Nat -> Nat], BackInv(b),
           CloseRound, UNCHANGED recvVars
    PROVE  StreamInv' /\ CompleteReports' /\ BackInv(b)'
<1>. DEFINE q == back.queue
            h == q[1]
            e == ends[Len(ends)]
<1>. USE DEF FeedInv
<1>1. /\ Deliverable(back) /\ back' = Taken(back)
      /\ UNCHANGED <<stream, cur, inc, count, senderVars>> /\ IsEnd(Head(q))
      /\ ends' = Append(ends, Head(q))
      BY DEF CloseRound, recvVars
<1>2. /\ QueueLinked(b)' /\ FrontLinked(b)' /\ CurLinked(b)'
      /\ AllReturned(b)' /\ CountRight(b)'
      /\ q # <<>> /\ Head(q) = h /\ NextUp = h
      /\ 1 \in 1 .. Len(q)
      /\ HasFront' => HasFront /\ Coming' = Coming
      /\ HasNext' => /\ Linked(b, h, NextUp')
                     /\ NextUp' = IF Len(q) > 1 THEN q[2] ELSE Coming
                     /\ Len(q) > 1 \/ HasFront
      BY <1>1, BackTook
<1>3. StreamInv' BY <1>1, StreamKept
<1>4. /\ hi = Len(ends) + 1 /\ hi \in Nat /\ hi > 0 /\ Len(ends') = hi /\ ends'[hi] = h
      /\ \A k \in 1 .. hi : Samples(k)' = Samples(k)
      /\ Samples(hi)' = {}
      /\ \A k \in 1 .. hi - 1 : ends'[k] = ends[k]
      BY <1>2, ClosedHeap
<1>5. ends'[Len(ends')] = h /\ ends' # <<>> BY <1>4
<1>7. OpenReport(b)'
  <2>1. h.inc <= inc BY <1>2 DEF BackInv, AllReturned
  <2>2. HasNext' => /\ h.inc <= NextUp'.inc
                    /\ h.inc = NextUp'.inc => Between(b[h.inc], h, NextUp') = {}
        BY <1>2 DEF Linked
  <2>. QED BY <1>1, <1>2, <1>4, <1>5, <2>1, <2>2
           DEF OpenReport, IsEnd, Between, Before, Returned, Phase
<1>8. ASSUME NEW k \in 2 .. Len(ends'), ends'[k].inc = ends'[k - 1].inc
      PROVE  /\ ends'[k].round = ends'[k - 1].round + 1
             /\ \A s \in Samples(k)' : s.round = ends'[k].round
             /\ Cardinality(Samples(k)') \in
                  { NumEvents \div SampleEvery,
                    (NumEvents + SampleEvery - 1) \div SampleEvery }
  <2>0. k \in 2 .. hi /\ hi \in Nat BY <1>4
  <2>a. k \in 1 .. hi /\ k - 1 \in 1 .. hi - 1 BY <2>0
  <2>1. k \in 2 .. hi /\ k \in 1 .. hi /\ k - 1 \in 1 .. hi - 1
        /\ Samples(k)' = Samples(k) /\ ends'[k - 1] = ends[k - 1]
        BY <1>4, <2>0, <2>a
  <2>2. CASE k = hi
    <3>0. Len(ends) = k - 1 /\ ends # <<>> BY <1>4, <2>1, <2>2, OnTheWay, EmptySeq
    <3>1. ends[k - 1] = e /\ ends'[k] = h /\ e.inc = h.inc BY <1>4, <1>8, <2>1, <2>2, <3>0
    <3>2. HasNext BY <1>2 DEF HasNext
    <3>3. IsEnd(e) /\ Samples(hi) = Between(b[e.inc], e, h)
          BY <1>2, <3>0, <3>1, <3>2 DEF BackInv, OpenReport
    <3>4. Keyed(e) /\ Keyed(h) /\ e.round < h.round /\ e.inc \in Nat
          BY <1>2, <3>0, UpInOrder DEF BackMsg
    <3>5. Samples(hi) \subseteq Event
      <4>1. histos[hi] \in Histograms BY DEF TypeOK
      <4>. QED BY <4>1 DEF Samples, Histograms
    <3>6. IsEnd(h) /\ b[e.inc] \in Nat BY <1>1, <1>2, <3>4
    <3>. HIDE DEF e, h
    <3>7. /\ h.round = e.round + 1
          /\ \A m \in Between(b[e.inc], e, h) : m.round = h.round
          /\ Cardinality(Between(b[e.inc], e, h)) \in
                 { NumEvents \div SampleEvery,
                   (NumEvents + SampleEvery - 1) \div SampleEvery }
          BY <3>3, <3>4, <3>5, <3>6, WholeRound
    <3>. QED BY <2>1, <2>2, <3>1, <3>3, <3>7
  <2>3. CASE k # hi
    <3>1. k \in 1 .. hi - 1 /\ k \in 2 .. Len(ends) BY <1>4, <2>1, <2>3
    <3>2. ends'[k] = ends[k] BY <1>4, <3>1
    <3>. QED BY <1>8, <2>1, <3>1, <3>2 DEF CompleteReports
  <2>. QED BY <2>2, <2>3
<1>9. CompleteReports'
  <2>1. \A k : Samples(k)' = histos'[k].rec \cup histos'[k].cut BY DEF Samples
  <2>. QED BY <1>8, <2>1 DEF CompleteReports, Samples
<1>. QED BY <1>2, <1>3, <1>7, <1>9 DEF BackInv

-----------------------------------------------------------------------------
(* What SUB does. *)

(* The incarnation that bounces makes no difference to the order. *)
LEMMA BouncedBetween ==
    ASSUME NEW c, NEW x, NEW y
    PROVE  /\ Between(c, Bounced(x), Bounced(y)) = Between(c, x, y)
           /\ Between(c, x, Bounced(y)) = Between(c, x, y)
           /\ Bounced(x).inc = inc
BY DEF Between, Before, Bounced

(* The receiving thread takes a message that it will bounce: what it does  *)
(* next on "back" stays the same.                                          *)
LEMMA TookReturned ==
    ASSUME FeedInv, StreamInv, NEW b \in [Nat -> Nat], BackInv(b),
           Deliverable(stream), cur = <<>>, stream' = Taken(stream),
           cur' = <<Head(stream.queue)>>,
           UNCHANGED <<back, inc, senderVars, ends, hi, histos>>,
           Returned(b[inc], Pos),
           AtStream' => count' = Phase(b[inc], NextOf(Pos))
    PROVE  StreamInv' /\ BackInv(b)'
<1>. DEFINE m == Head(stream.queue)
<1>1. /\ StreamInv' /\ AtStream /\ Pos = m
      /\ AtStream' => Pos' = NextOf(m)
      BY StreamTook
<1>2. Keyed(m) BY <1>1, OnTheWay DEF FeedInv
<1>. HIDE DEF m
<1>3. cur' = <<m>> /\ cur' # <<>> /\ cur'[1] = m BY DEF m
<1>4. HasFront' => HasFront /\ Coming' = Coming
      BY <1>1, <1>3 DEF HasFront, Coming, Bounced
<1>5. HasNext' => HasNext /\ NextUp' = NextUp BY <1>4 DEF HasNext, NextUp
<1>6. QueueLinked(b)' BY DEF BackInv, QueueLinked, AllLinked, Linked
<1>7. FrontLinked(b)' BY <1>4 DEF BackInv, FrontLinked, Linked
<1>8. CurLinked(b)'
  <2>1. Between(b[inc], Bounced(m), Bounced(NextOf(m))) = {}
        BY <1>2, NothingBetween, BouncedBetween
  <2>2. Linked(b, Bounced(m), Bounced(NextOf(m)))
    <3>1. inc \in Nat BY DEF FeedInv, TypeOK
    <3>2. Bounced(m).inc = inc /\ Bounced(NextOf(m)).inc = inc BY DEF Bounced
    <3>. QED BY <2>1, <3>1, <3>2 DEF Linked
  <2>. QED BY <1>1, <1>3, <2>2 DEF CurLinked, Linked, Bounced
<1>9. AllReturned(b)'
  <2>1. Returned(b[inc], m) BY <1>1
  <2>. QED BY <1>3, <2>1 DEF BackInv, AllReturned, Returned, IsEnd, Phase
<1>10. CountRight(b)' BY <1>1 DEF CountRight, Phase
<1>11. OpenReport(b)' BY <1>5 DEF BackInv, OpenReport, Samples, IsEnd
<1>. QED BY <1>1, <1>6, <1>7, <1>8, <1>9, <1>10, <1>11 DEF BackInv

(* It takes a message that it will not bounce. *)
LEMMA TookSkipped ==
    ASSUME FeedInv, StreamInv, NEW b \in [Nat -> Nat], BackInv(b),
           Deliverable(stream), cur = <<>>, stream' = Taken(stream),
           UNCHANGED <<back, inc, cur, senderVars, ends, hi, histos>>,
           ~Returned(b[inc], Pos),
           AtStream' => count' = Phase(b[inc], NextOf(Pos))
    PROVE  StreamInv' /\ BackInv(b)'
<1>. DEFINE m == Head(stream.queue)
            q == back.queue
<1>1. /\ StreamInv' /\ AtStream /\ Pos = m
      /\ AtStream' => Pos' = NextOf(m)
      BY StreamTook
<1>2. Keyed(m) /\ ~Returned(b[inc], m) BY <1>1, OnTheWay DEF FeedInv
<1>. HIDE DEF m
<1>3. HasFront' => HasFront /\ Coming = Bounced(m) /\ Coming' = Bounced(NextOf(m))
      BY <1>1 DEF HasFront, Coming, Bounced
<1>4. ASSUME NEW x
      PROVE  Between(b[inc], x, Bounced(NextOf(m))) = Between(b[inc], x, Bounced(m))
  <2>1. Between(b[inc], x, Bounced(NextOf(m))) = Between(b[inc], x, NextOf(m))
        BY BouncedBetween
  <2>2. Between(b[inc], x, Bounced(m)) = Between(b[inc], x, m) BY BouncedBetween
  <2>3. Between(b[inc], x, NextOf(m)) = Between(b[inc], x, m) BY <1>2, SkippedBetween
  <2>. QED BY <2>1, <2>2, <2>3
<1>5. Bounced(m).inc = inc /\ Bounced(NextOf(m)).inc = inc BY BouncedBetween
<1>6. QueueLinked(b)' BY DEF BackInv, QueueLinked, AllLinked, Linked
<1>7. FrontLinked(b)'
  <2>. SUFFICES ASSUME q # <<>>, HasFront' PROVE Linked(b, q[Len(q)], Bounced(NextOf(m)))
       BY <1>3 DEF FrontLinked, Linked
  <2>1. Linked(b, q[Len(q)], Bounced(m)) BY <1>3 DEF BackInv, FrontLinked
  <2>. QED BY <1>4, <1>5, <2>1 DEF Linked
<1>8. CurLinked(b)' BY DEF CurLinked
<1>9. AllReturned(b)' BY DEF BackInv, AllReturned, Returned, IsEnd, Phase
<1>10. CountRight(b)' BY <1>1 DEF CountRight, Phase
<1>11. OpenReport(b)'
  <2>. DEFINE e == ends[Len(ends)]
  <2>1. ASSUME HasNext'
        PROVE  /\ HasNext /\ NextUp'.inc = NextUp.inc
               /\ NextUp.inc = e.inc =>
                     Between(b[e.inc], e, NextUp') = Between(b[e.inc], e, NextUp)
    <3>1. CASE q # <<>> BY <3>1 DEF HasNext, NextUp
    <3>2. CASE q = <<>>
      <4>1. HasFront' /\ NextUp = Coming /\ NextUp' = Coming' BY <2>1, <3>2 DEF HasNext, NextUp
      <4>. QED BY <1>3, <1>4, <1>5, <4>1 DEF HasNext
    <3>. QED BY <3>1, <3>2
  <2>. QED BY <2>1 DEF BackInv, OpenReport, Samples, IsEnd
<1>. QED BY <1>1, <1>6, <1>7, <1>8, <1>9, <1>10, <1>11 DEF BackInv

(* The listener bounces when its count says so. *)
LEMMA ReceiveReports ==
    ASSUME FeedInv, StreamInv, CompleteReports, NEW b \in [Nat -> Nat], BackInv(b),
           ReceiveEvent \/ ReceiveEnd, UNCHANGED pubVars
    PROVE  StreamInv' /\ CompleteReports' /\ BackInv(b)'
<1>. DEFINE m == Head(stream.queue)
            c == b[inc]
<1>1. /\ Deliverable(stream) /\ cur = <<>> /\ stream' = Taken(stream)
      /\ UNCHANGED <<back, inc, senderVars, ends, hi, histos>>
      BY DEF ReceiveEvent, ReceiveEnd, pubVars, senderVars
<1>2. AtStream /\ Pos = m BY <1>1, StreamTook
<1>3. Keyed(m) /\ inc \in Nat /\ c \in Nat /\ count = Phase(c, m)
      BY <1>2, OnTheWay DEF FeedInv, BackInv, CountRight
<1>. HIDE DEF c, m
<1>4. /\ Phase(c, m) \in 0 .. SampleEvery - 1
      /\ IsEnd(m) => Phase(c, NextOf(m)) = Phase(c, m)
      /\ ~IsEnd(m) => Phase(c, NextOf(m)) = IF Phase(c, m) + 1 = SampleEvery THEN 0
                                            ELSE Phase(c, m) + 1
      BY <1>3, PhaseNext
<1>5. CompleteReports' BY <1>1, ReportsKept
<1>6. CASE ReceiveEnd
  <2>1. IsEnd(m) /\ cur' = <<m>> /\ count' = count BY <1>6 DEF ReceiveEnd, m
  <2>2. Returned(c, m) /\ count' = Phase(c, NextOf(m)) BY <1>3, <1>4, <2>1 DEF Returned
  <2>3. StreamInv' /\ BackInv(b)' BY <1>1, <1>2, <2>1, <2>2, TookReturned DEF c, m
  <2>. QED BY <1>5, <2>3
<1>7. CASE ReceiveEvent /\ count + 1 = SampleEvery
  <2>1. ~IsEnd(m) /\ cur' = <<m>> /\ count' = 0 BY <1>7 DEF ReceiveEvent, m
  <2>2. Returned(c, m) /\ count' = Phase(c, NextOf(m))
        BY <1>3, <1>4, <1>7, <2>1, SampleAssumption DEF Returned
  <2>3. StreamInv' /\ BackInv(b)' BY <1>1, <1>2, <2>1, <2>2, TookReturned DEF c, m
  <2>. QED BY <1>5, <2>3
<1>8. CASE ReceiveEvent /\ count + 1 # SampleEvery
  <2>1. ~IsEnd(m) /\ cur' = cur /\ count' = count + 1 BY <1>8 DEF ReceiveEvent, m
  <2>2. ~Returned(c, m) /\ count' = Phase(c, NextOf(m))
        BY <1>3, <1>4, <1>8, <2>1, SampleAssumption DEF Returned
  <2>3. StreamInv' /\ BackInv(b)' BY <1>1, <1>2, <2>1, <2>2, TookSkipped DEF c, m
  <2>. QED BY <1>5, <2>3
<1>. QED BY <1>6, <1>7, <1>8

(* A bounced message is appended to the queue, behind what it follows. *)
LEMMA AppendedLinked ==
    ASSUME NEW b \in [Nat -> Nat], NEW q \in Seq(BackMsg), NEW m \in BackMsg,
           AllLinked(b, q), q # <<>> => Linked(b, q[Len(q)], m)
    PROVE  LET r == Append(q, m)
           IN  /\ AllLinked(b, r)
               /\ r # <<>> /\ r[Len(r)] = m /\ r[1] = IF q # <<>> THEN q[1] ELSE m
               /\ \A i \in 1 .. Len(r) : r[i] = m \/ \E j \in 1 .. Len(q) : r[i] = q[j]
<1>. DEFINE n == Len(q)
            r == Append(q, m)
<1>0. /\ r \in Seq(BackMsg) /\ Len(r) = n + 1 /\ r[n + 1] = m
      /\ \A i \in 1 .. n : r[i] = q[i]
      BY AppendProperties
<1>1. /\ n \in Nat /\ Len(r) = n + 1 /\ r[n + 1] = m
      /\ \A i \in 1 .. n : r[i] = q[i]
      /\ (q # <<>> <=> n > 0) /\ r # <<>>
  <2>1. n \in Nat /\ (q = <<>> <=> n = 0) /\ (r = <<>> <=> Len(r) = 0)
        BY <1>0, EmptySeq
  <2>. HIDE DEF n, r
  <2>. QED BY <1>0, <2>1
<1>. HIDE DEF n, r
<1>2. ASSUME NEW i \in 1 .. n PROVE Linked(b, r[i], r[i + 1])
  <2>1. CASE i = n
    <3>1. Linked(b, q[n], m) BY <1>1, <2>1 DEF n
    <3>. QED BY <1>1, <2>1, <3>1
  <2>2. CASE i # n
    <3>1. i \in 1 .. n - 1 /\ i \in 1 .. n /\ i + 1 \in 1 .. n BY <1>1, <2>2
    <3>2. Linked(b, q[i], q[i + 1]) BY <3>1 DEF n, AllLinked
    <3>. QED BY <1>1, <3>1, <3>2
  <2>. QED BY <2>1, <2>2
<1>3. r[1] = IF q # <<>> THEN q[1] ELSE m
  <2>1. CASE n > 0
    <3>1. 1 \in 1 .. n BY <1>1, <2>1
    <3>. QED BY <1>1, <2>1, <3>1
  <2>2. CASE n = 0 BY <1>1, <2>2
  <2>. QED BY <1>1, <2>1, <2>2
<1>4. ASSUME NEW i \in 1 .. n + 1 PROVE r[i] = m \/ \E j \in 1 .. n : r[i] = q[j]
  <2>1. CASE i = n + 1 BY <1>1, <2>1
  <2>2. CASE i # n + 1
    <3>1. i \in 1 .. n BY <1>1, <2>2
    <3>. QED BY <1>1, <3>1
  <2>. QED BY <2>1, <2>2
<1>5. Len(r) - 1 = n BY <1>1
<1>6. AllLinked(b, r) BY <1>2, <1>5 DEF AllLinked
<1>. QED BY <1>1, <1>3, <1>4, <1>6 DEF n, r

(* A successful offer(), or one that PUB can no longer follow. *)
LEMMA BounceReports ==
    ASSUME FeedInv, TypeOK', StreamInv, CompleteReports, NEW b \in [Nat -> Nat], BackInv(b),
           Bounce, UNCHANGED pubVars
    PROVE  StreamInv' /\ CompleteReports' /\ BackInv(b)'
<1>. DEFINE q == back.queue
            m == Bounced(cur[1])
<1>. USE DEF FeedInv
<1>1. /\ cur # <<>> /\ cur' = <<>> /\ back' = Offered(back, m)
      /\ UNCHANGED <<stream, inc, count, senderVars, ends, hi, histos>>
      BY DEF Bounce, pubVars, senderVars
<1>2. /\ StreamInv' /\ AtStream' = AtStream /\ Pos' = Pos BY <1>1, StreamKept
<1>3. CompleteReports' BY <1>1, ReportsKept
<1>4. Coming = m /\ back \in Topics(BackMsg) /\ q \in Seq(BackMsg)
      BY <1>1 DEF Coming, TypeOK, Topics
<1>5. CASE ~Follows(back)
  <2>1. back'.queue = q /\ back'.open = back.open /\ back'.gap = back.open
        BY <1>1, <1>4, <1>5 DEF Offered, Topics
  <2>2. ~HasFront' BY <2>1 DEF HasFront
  <2>3. Len(back'.queue) <= Len(q) /\ \A i \in 1 .. Len(back'.queue) : back'.queue[i] = q[i]
    <3>1. Len(q) \in Nat BY <1>4, EmptySeq
    <3>. QED BY <2>1, <3>1
  <2>4. BackInv(b)' BY <1>1, <1>2, <2>2, <2>3, BackCut
  <2>. QED BY <1>2, <1>3, <2>4
<1>6. CASE Follows(back)
  <2>1. back'.queue = Append(q, m) /\ back'.open /\ ~back'.gap /\ HasFront
        BY <1>1, <1>4, <1>6 DEF Offered, Follows, Topics, HasFront
  <2>2. m \in BackMsg /\ m.inc = inc
        BY <1>1, OnTheWay DEF Bounced, BackMsg, Keyed
  <2>3. /\ AllLinked(b, q)
        /\ q # <<>> => Linked(b, q[Len(q)], m)
        BY <1>4, <2>1 DEF BackInv, QueueLinked, FrontLinked
  <2>. HIDE DEF m
  <2>4. /\ AllLinked(b, back'.queue)
        /\ back'.queue # <<>> /\ back'.queue[Len(back'.queue)] = m
        /\ back'.queue[1] = IF q # <<>> THEN q[1] ELSE m
        /\ \A i \in 1 .. Len(back'.queue) :
              back'.queue[i] = m \/ \E j \in 1 .. Len(q) : back'.queue[i] = q[j]
    <3>1. q \in Seq(BackMsg) BY <1>4
    <3>. HIDE DEF q
    <3>. DEFINE r == Append(q, m)
    <3>2. /\ AllLinked(b, r)
          /\ r # <<>> /\ r[Len(r)] = m /\ r[1] = IF q # <<>> THEN q[1] ELSE m
          /\ \A i \in 1 .. Len(r) : r[i] = m \/ \E j \in 1 .. Len(q) : r[i] = q[j]
          BY <2>2, <2>3, <3>1, AppendedLinked
    <3>3. r = back'.queue BY <2>1
    <3>. HIDE DEF r
    <3>. QED BY <3>2, <3>3
  <2>5. QueueLinked(b)' BY <2>4 DEF QueueLinked, AllLinked, Linked
  <2>6. FrontLinked(b)'
    <3>1. ASSUME HasFront' PROVE Linked(b, m, Bounced(Pos)) /\ Coming' = Bounced(Pos)
      <4>1. AtStream BY <1>1, <1>2, <3>1 DEF HasFront
      <4>2. Linked(b, m, Bounced(Pos)) BY <1>1, <4>1 DEF BackInv, CurLinked, m
      <4>3. Coming' = Bounced(Pos) BY <1>1, <1>2 DEF Coming, Bounced
      <4>. QED BY <4>2, <4>3
    <3>. QED BY <2>4, <3>1 DEF FrontLinked, Linked
  <2>7. CurLinked(b)' BY <1>1 DEF CurLinked
  <2>8. AllReturned(b)'
    <3>1. Returned(b[m.inc], m) /\ m.inc <= inc
      <4>1. Returned(b[inc], cur[1]) BY <1>1 DEF BackInv, AllReturned
      <4>2. Returned(b[inc], m) BY <4>1 DEF Returned, IsEnd, Phase, Bounced, m
      <4>3. inc \in Nat BY DEF TypeOK
      <4>. QED BY <2>2, <4>2, <4>3
    <3>2. \A j \in 1 .. Len(q) : Returned(b[q[j].inc], q[j]) /\ q[j].inc <= inc
          BY DEF BackInv, AllReturned
    <3>3. ASSUME NEW i \in 1 .. Len(back'.queue)
          PROVE  /\ Returned(b[back'.queue[i].inc], back'.queue[i])
                 /\ back'.queue[i].inc <= inc
      <4>1. CASE back'.queue[i] = m BY <3>1, <4>1
      <4>2. CASE back'.queue[i] # m
        <5>1. PICK j \in 1 .. Len(q) : back'.queue[i] = q[j] BY <2>4, <4>2
        <5>. QED BY <3>2, <5>1
      <4>. QED BY <4>1, <4>2
    <3>. QED BY <1>1, <3>3 DEF AllReturned, Returned, IsEnd, Phase
  <2>9. CountRight(b)' BY <1>1, <1>2 DEF BackInv, CountRight, Phase
  <2>10. HasNext /\ NextUp' = NextUp BY <1>4, <2>1, <2>4 DEF HasNext, NextUp
  <2>11. OpenReport(b)' BY <1>1, <2>10 DEF BackInv, OpenReport, Samples, IsEnd
  <2>. QED BY <1>2, <1>3, <2>5, <2>6, <2>7, <2>8, <2>9, <2>11 DEF BackInv
<1>. QED BY <1>5, <1>6

(* SUB dies, or PUB gives its subscription up. *)
LEMMA LoseReports ==
    ASSUME FeedInv, TypeOK', StreamInv, CompleteReports, NEW b \in [Nat -> Nat], BackInv(b),
           \/ LoseBack /\ UNCHANGED recvVars
           \/ Exit /\ UNCHANGED pubVars
    PROVE  StreamInv' /\ CompleteReports' /\ BackInv(b)'
<1>. USE DEF FeedInv
<1>1. UNCHANGED <<cur, inc, senderVars, ends, hi, histos>>
      BY DEF LoseBack, Exit, recvVars, pubVars, measureVars, senderVars
<1>2. CompleteReports' BY <1>1, ReportsKept
<1>3. back \in Topics(BackMsg) /\ back.queue \in Seq(BackMsg) BY DEF TypeOK, Topics
<1>4. CASE LoseBack /\ UNCHANGED recvVars
  <2>1. back' = Unsubscribed /\ UNCHANGED <<stream, count>>
        BY <1>4 DEF LoseBack, recvVars
  <2>2. StreamInv' /\ AtStream' = AtStream /\ Pos' = Pos BY <1>1, <2>1, StreamKept
  <2>3. back'.queue = <<>> /\ ~HasFront' BY <2>1 DEF Unsubscribed, HasFront
  <2>4. /\ Len(back'.queue) <= Len(back.queue)
        /\ \A i \in 1 .. Len(back'.queue) : back'.queue[i] = back.queue[i]
    <3>1. Len(back.queue) \in Nat /\ Len(<<>>) = 0 BY <1>3, EmptySeq
    <3>. QED BY <2>3, <3>1
  <2>5. BackInv(b)' BY <1>1, <2>1, <2>2, <2>3, <2>4, BackCut
  <2>. QED BY <1>2, <2>2, <2>5
<1>5. CASE Exit /\ UNCHANGED pubVars
  <2>1. stream' = Unsubscribed /\ cur = <<>> BY <1>5 DEF Exit
  <2>2. PICK k \in 0 .. Len(back.queue), gap \in BOOLEAN :
           back' = Orphaned(back, k, gap)
        BY <1>5 DEF Exit
  <2>3. /\ Len(back'.queue) <= Len(back.queue)
        /\ \A i \in 1 .. Len(back'.queue) : back'.queue[i] = back.queue[i]
    <3>. DEFINE q == back.queue
    <3>1. back'.queue = SubSeq(q, 1, k) /\ Len(q) \in Nat
          BY <1>3, <2>2, EmptySeq DEF Orphaned, Topics
    <3>2. Len(SubSeq(q, 1, k)) = k /\ \A i \in 1 .. k : SubSeq(q, 1, k)[i] = q[i]
          BY <1>3, <3>1
    <3>. QED BY <3>1, <3>2
  <2>4. ~AtStream' /\ ~HasFront'
        BY <1>1, <2>1 DEF Unsubscribed, AtStream, HasFront
  <2>5. StreamInv'
    <3>1. Len(<<>>) = 0 OBVIOUS
    <3>. QED BY <1>1, <2>1, <3>1 DEF Unsubscribed, StreamInv
  <2>6. BackInv(b)' BY <1>1, <2>3, <2>4, BackCut
  <2>. QED BY <1>2, <2>5, <2>6
<1>. QED BY <1>4, <1>5

(* A base with which a count that begins now is right. *)
LEMMA BaseExists ==
    ASSUME NEW m, Keyed(m)
    PROVE  \E c \in Nat : Phase(c, m) = 0
<1>. DEFINE k == m.round * NumEvents
            a == k + m.n
            c == a * SampleEvery - a
<1>1. /\ NumEvents \in Nat /\ SampleEvery \in Nat \ {0} /\ m.round \in Nat /\ m.n \in Nat
      BY FeedAssumption, SampleAssumption DEF Keyed, Round
<1>2. k \in Nat BY <1>1
<1>3. a \in Nat BY <1>1, <1>2
<1>4. c + k + m.n = a * SampleEvery
  <2>1. a * SampleEvery \in Nat BY <1>1, <1>3
  <2>. HIDE DEF k
  <2>. QED BY <1>1, <1>2, <2>1
<1>. HIDE DEF k, a
<1>5. c \in Nat BY <1>1, <1>3
<1>6. (a * SampleEvery) % SampleEvery = 0 BY <1>1, <1>3
<1>. HIDE DEF c
<1>7. Phase(c, m) = 0
  <2>1. c + m.round * NumEvents + m.n = a * SampleEvery BY <1>4 DEF k
  <2>. QED BY <1>6, <2>1 DEF Phase
<1>. QED BY <1>5, <1>7

(* An earlier incarnation is not the next one. *)
LEMMA LessThanNext ==
    ASSUME NEW i \in Nat, NEW j \in Nat, i <= j
    PROVE  i <= j + 1 /\ i # j + 1
OBVIOUS

(* Somebody starts SUB, which begins to count. *)
LEMMA StartReports ==
    ASSUME FeedInv, StreamInv, CompleteReports, NEW b \in [Nat -> Nat], BackInv(b),
           Start, UNCHANGED pubVars
    PROVE  StreamInv' /\ CompleteReports' /\ \E d \in [Nat -> Nat] : BackInv(d)'
<1>. USE DEF FeedInv
<1>1. /\ stream' = Subscribed /\ inc' = inc + 1 /\ count' = 0
      /\ UNCHANGED <<back, cur, senderVars, ends, hi, histos>>
      /\ cur = <<>> /\ inc \in Nat
      BY DEF Start, StreamInv, pubVars, senderVars, TypeOK
<1>2. CompleteReports' BY <1>1, ReportsKept
<1>3. NextMsg' = NextMsg /\ Keyed(NextMsg) BY <1>1, OnTheWay DEF NextMsg, senderVars
<1>4. StreamInv'
  <2>1. Len(<<>>) = 0 OBVIOUS
  <2>. QED BY <1>1, <2>1 DEF Subscribed, StreamInv
<1>5. Pos' = NextMsg /\ Coming'.inc = inc + 1
      BY <1>1, <1>3 DEF Subscribed, Pos, Coming, Bounced
<1>6. PICK c \in Nat : Phase(c, NextMsg) = 0 BY <1>3, BaseExists
<1>7. PICK d \in [Nat -> Nat] : /\ d[inc + 1] = c
                               /\ \A i \in Nat : i <= inc => d[i] = b[i]
  <2>. DEFINE f == [b EXCEPT ![inc + 1] = c]
  <2>1. /\ f \in [Nat -> Nat] /\ f[inc + 1] = c
        /\ \A i \in Nat : i <= inc => f[i] = b[i]
        BY <1>1
  <2>. QED BY <2>1
<1>. DEFINE q == back.queue
            n == Len(q)
<1>8. /\ q \in Seq(BackMsg) /\ n \in Nat /\ ends \in Seq(BackMsg)
      /\ \A i \in 1 .. n : q[i] \in BackMsg
      BY OnTheWay, EmptySeq, ElementOfSeq
<1>9. \A i \in 1 .. n : /\ Returned(b[q[i].inc], q[i]) /\ q[i].inc <= inc
                        /\ d[q[i].inc] = b[q[i].inc]
      BY <1>7, <1>8 DEF BackInv, AllReturned, BackMsg
<1>10. QueueLinked(d)'
  <2>1. ASSUME NEW i \in 1 .. n - 1 PROVE Linked(d, q[i], q[i + 1])
    <3>1. i \in 1 .. n
      <4>. HIDE DEF n
      <4>. QED BY <1>8
    <3>2. Linked(b, q[i], q[i + 1]) BY DEF BackInv, QueueLinked, AllLinked
    <3>. QED BY <1>9, <3>1, <3>2 DEF Linked
  <2>. QED BY <1>1, <2>1 DEF QueueLinked, AllLinked, Linked
<1>11. FrontLinked(d)'
  <2>. SUFFICES ASSUME q # <<>> PROVE Linked(d, q[n], Coming')
       BY <1>1 DEF FrontLinked, Linked
  <2>1. n \in 1 .. n /\ q[n] \in BackMsg
    <3>1. n > 0 BY <1>8, NonEmptyQueue
    <3>. HIDE DEF n
    <3>2. n \in 1 .. n BY <1>8, <3>1
    <3>. QED BY <1>8, <3>2
  <2>2. q[n].inc <= inc /\ q[n].inc \in Nat BY <1>9, <2>1 DEF BackMsg
  <2>3. q[n].inc <= inc + 1 /\ q[n].inc # inc + 1 BY <1>1, <2>2, LessThanNext
  <2>. QED BY <1>5, <2>3 DEF Linked
<1>12. CurLinked(d)' BY <1>1 DEF CurLinked
<1>13. AllReturned(d)'
  <2>1. ASSUME NEW i \in 1 .. n PROVE Returned(d[q[i].inc], q[i]) /\ q[i].inc <= inc + 1
    <3>1. q[i].inc \in Nat BY <1>8 DEF BackMsg
    <3>2. q[i].inc <= inc + 1 BY <1>1, <1>9, <3>1, LessThanNext
    <3>. QED BY <1>9, <3>2
  <2>. QED BY <1>1, <2>1 DEF AllReturned, Returned, IsEnd, Phase
<1>14. CountRight(d)' BY <1>1, <1>5, <1>6, <1>7 DEF CountRight, Phase
<1>15. OpenReport(d)'
  <2>. DEFINE e == ends[Len(ends)]
  <2>. SUFFICES ASSUME ends # <<>>
                PROVE  /\ IsEnd(e) /\ e.inc <= inc + 1
                       /\ HasNext' => /\ e.inc <= NextUp'.inc
                                      /\ e.inc = NextUp'.inc =>
                                            Samples(hi) = Between(d[e.inc], e, NextUp')
       BY <1>1 DEF OpenReport, Samples, IsEnd, Between, Before, Returned, Phase
  <2>1. IsEnd(e) /\ e.inc <= inc BY DEF BackInv, OpenReport
  <2>2. e.inc \in Nat
    <3>. DEFINE l == Len(ends)
    <3>1. l \in Nat /\ l > 0 /\ \A i \in 1 .. l : ends[i] \in BackMsg
          BY <1>8, NonEmptyQueue
    <3>. HIDE DEF l
    <3>2. l \in 1 .. l BY <3>1
    <3>3. ends[l] \in BackMsg BY <3>1, <3>2
    <3>. QED BY <3>3 DEF BackMsg, l
  <2>a. e.inc <= inc + 1 /\ e.inc # inc + 1 BY <1>1, <2>1, <2>2, LessThanNext
  <2>3. CASE q # <<>>
    <3>1. HasNext /\ NextUp' = NextUp BY <1>1, <2>3 DEF HasNext, NextUp
    <3>2. /\ e.inc <= NextUp.inc
          /\ e.inc = NextUp.inc => Samples(hi) = Between(b[e.inc], e, NextUp)
          BY <3>1 DEF BackInv, OpenReport
    <3>3. d[e.inc] = b[e.inc] BY <1>7, <2>1, <2>2
    <3>. QED BY <2>1, <2>a, <3>1, <3>2, <3>3
  <2>4. CASE q = <<>>
    <3>1. NextUp'.inc = inc + 1 BY <1>1, <1>5, <2>4 DEF NextUp
    <3>. QED BY <2>1, <2>a, <3>1
  <2>. QED BY <2>3, <2>4
<1>. QED BY <1>2, <1>4, <1>7, <1>10, <1>11, <1>12, <1>13, <1>14, <1>15 DEF BackInv

-----------------------------------------------------------------------------
(* PUB's main thread. *)
LEMMA SendReports ==
    ASSUME FeedInv, StreamInv, CompleteReports, NEW b \in [Nat -> Nat], BackInv(b),
           PubSend, UNCHANGED recvVars
    PROVE  StreamInv' /\ CompleteReports' /\ BackInv(b)'
<1>1. /\ stream' = Offered(stream, NextMsg)
      /\ UNCHANGED <<back, cur, inc, count, ends, hi, histos>>
      BY DEF PubSend, SendEvent, SendEnd, measureVars, recvVars
<1>2. NextMsg' = NextOf(NextMsg)
  <2>1. pubI \in Nat /\ NumEvents \in Nat BY FeedAssumption DEF FeedInv, TypeOK
  <2>2. CASE SendEvent
    <3>1. pubI # NumEvents /\ pubRound' = pubRound /\ pubI' = pubI + 1
          BY <2>1, <2>2 DEF SendEvent
    <3>. QED BY <3>1 DEF NextMsg, NextOf, IsEnd
  <2>3. CASE SendEnd
    <3>1. pubI = NumEvents /\ pubRound' = pubRound + 1 /\ pubI' = 0 BY <2>3 DEF SendEnd
    <3>. QED BY <3>1 DEF NextMsg, NextOf, IsEnd
  <2>. QED BY <2>2, <2>3 DEF PubSend
<1>3. StreamInv' /\ (AtStream' => AtStream /\ Pos' = Pos) BY <1>1, <1>2, StreamSent
<1>4. BackInv(b)' BY <1>1, <1>3, BackKept
<1>. QED BY <1>1, <1>3, <1>4, ReportsKept

(* What concerns neither the messages nor the reports. *)
LEMMA OtherReports ==
    ASSUME FeedInv, StreamInv, CompleteReports, NEW b \in [Nat -> Nat], BackInv(b),
           UNCHANGED <<stream, back, senderVars, cur, inc, count, ends, hi, histos>>
    PROVE  StreamInv' /\ CompleteReports' /\ BackInv(b)'
<1>1. StreamInv' /\ AtStream' = AtStream /\ Pos' = Pos BY StreamKept
<1>2. BackInv(b)' BY <1>1, BackKept
<1>. QED BY <1>1, <1>2, ReportsKept

LEMMA StepReports == ReportInv /\ [Next]_vars => ReportInv'
<1>. SUFFICES ASSUME ReportInv, [Next]_vars PROVE ReportInv' OBVIOUS
<1>0. FeedInv /\ FeedInv' /\ StreamInv /\ CompleteReports BY StepInv DEF ReportInv
<1>a. TypeOK' BY <1>0 DEF FeedInv
<1>b. PICK b \in [Nat -> Nat] : BackInv(b) BY DEF ReportInv
<1>1. CASE PubSend /\ UNCHANGED recvVars
      BY <1>0, <1>b, <1>1, SendReports DEF ReportInv
<1>2. ASSUME NEW fast \in BOOLEAN, RecordLatency(fast), UNCHANGED recvVars
      PROVE  ReportInv'
      BY <1>0, <1>b, <1>2, RecordReports DEF ReportInv
<1>3. CASE CloseRound /\ UNCHANGED recvVars
      BY <1>0, <1>b, <1>3, CloseReports DEF ReportInv
<1>4. CASE LoseBack /\ UNCHANGED recvVars
      BY <1>0, <1>a, <1>b, <1>4, LoseReports DEF ReportInv
<1>5. ASSUME NEW k \in dumping, Dump(k), UNCHANGED recvVars
      PROVE  ReportInv'
  <2>1. UNCHANGED <<stream, back, senderVars, cur, inc, count, ends, hi, histos>>
        BY <1>5 DEF Dump, recvVars
  <2>. QED BY <1>0, <1>b, <2>1, OtherReports DEF ReportInv
<1>6. CASE Start /\ UNCHANGED pubVars
      BY <1>0, <1>b, <1>6, StartReports DEF ReportInv
<1>7. CASE (ReceiveEvent \/ ReceiveEnd) /\ UNCHANGED pubVars
      BY <1>0, <1>b, <1>7, ReceiveReports DEF ReportInv
<1>8. CASE Bounce /\ UNCHANGED pubVars
      BY <1>0, <1>a, <1>b, <1>8, BounceReports DEF ReportInv
<1>9. CASE Exit /\ UNCHANGED pubVars
      BY <1>0, <1>a, <1>b, <1>9, LoseReports DEF ReportInv
<1>10. CASE UNCHANGED vars
  <2>1. UNCHANGED <<stream, back, senderVars, cur, inc, count, ends, hi, histos>>
        BY <1>10 DEF vars, senderVars
  <2>. QED BY <1>0, <1>b, <2>1, OtherReports DEF ReportInv
<1>. QED BY <1>1, <1>2, <1>3, <1>4, <1>5, <1>6, <1>7, <1>8, <1>9, <1>10
         DEF Next, PubStep, RecvStep, PubReceive, PubDump, RecvHandle, Quiescent

(* Every report that follows another one of the same SUB process is about  *)
(* exactly one round and one event in SampleEvery of it, in every behaviour. *)
THEOREM ReportsAreComplete == Spec => []CompleteReports
<1>1. ReportInv => CompleteReports BY DEF ReportInv
<1>. QED BY InitReports, StepReports, <1>1, PTL DEF Spec

-----------------------------------------------------------------------------
(***************************************************************************)
(* EventReceiver.StupidPool, for any number of threads, arrays and slots.  *)
(***************************************************************************)
(* The steps of thread t. *)
PoolStep(t) == \/ GetStart(t) \/ Get(t) \/ Return(t)
               \/ \E b \in held[t] : ReturnStart(t, b)

LEMMA PoolInitType == PoolInit => PoolTypeOK
BY PoolAssumption DEF PoolInit, PoolTypeOK, Labels, Slot

(* PoolTypeOK is inductive. *)
LEMMA PoolStepType == PoolTypeOK /\ [PoolNext]_poolVars => PoolTypeOK'
<1>. SUFFICES ASSUME PoolTypeOK, [PoolNext]_poolVars PROVE PoolTypeOK' OBVIOUS
<1>. USE PoolAssumption DEF PoolTypeOK, At, GoTo, NextSlot, statVars, Labels
<1>1. ASSUME NEW t \in Thread, GetStart(t) PROVE PoolTypeOK'
      BY <1>1 DEF GetStart
<1>2. ASSUME NEW t \in Thread, GetRead(t) PROVE PoolTypeOK'
  <2>0. slot[t] \in Slot /\ slot[t] \in 0 .. Size /\ slot[t] + 1 \in 0 .. Size
        BY <1>2 DEF GetRead, Slot
  <2>1. CASE pool[slot[t]] = NoBuffer
        BY <1>2, <2>0, <2>1 DEF GetRead
  <2>2. CASE ~(pool[slot[t]] = NoBuffer)
        BY <1>2, <2>0, <2>2 DEF GetRead
  <2>. QED BY <2>1, <2>2
<1>3. ASSUME NEW t \in Thread, GetCas(t) PROVE PoolTypeOK'
  <2>0. slot[t] \in Slot /\ slot[t] \in 0 .. Size /\ slot[t] + 1 \in 0 .. Size
        BY <1>3 DEF GetCas, Slot
  <2>1. CASE pool[slot[t]] = ba[t]
        BY <1>3, <2>0, <2>1 DEF GetCas
  <2>2. CASE ~(pool[slot[t]] = ba[t])
        BY <1>3, <2>0, <2>2 DEF GetCas
  <2>. QED BY <2>1, <2>2
<1>4. ASSUME NEW t \in Thread, ReadSuccess(t) PROVE PoolTypeOK'
      BY <1>4 DEF ReadSuccess
<1>5. ASSUME NEW t \in Thread, GetHit(t) PROVE PoolTypeOK'
      BY <1>5 DEF GetHit
<1>6. ASSUME NEW t \in Thread, ReadFail(t) PROVE PoolTypeOK'
      BY <1>6 DEF ReadFail
<1>7. ASSUME NEW t \in Thread, GetMiss(t) PROVE PoolTypeOK'
      BY <1>7 DEF GetMiss
<1>8. ASSUME NEW t \in Thread, NEW b \in held[t], ReturnStart(t, b) PROVE PoolTypeOK'
      BY <1>8 DEF ReturnStart
<1>9. ASSUME NEW t \in Thread, ReturnRead(t) PROVE PoolTypeOK'
  <2>0. slot[t] \in Slot /\ slot[t] \in 0 .. Size /\ slot[t] + 1 \in 0 .. Size
        BY <1>9 DEF ReturnRead, Slot
  <2>1. CASE pool[slot[t]] = NoBuffer
        BY <1>9, <2>0, <2>1 DEF ReturnRead
  <2>2. CASE ~(pool[slot[t]] = NoBuffer)
        BY <1>9, <2>0, <2>2 DEF ReturnRead
  <2>. QED BY <2>1, <2>2
<1>10. ASSUME NEW t \in Thread, ReturnCas(t) PROVE PoolTypeOK'
  <2>0. slot[t] \in Slot /\ slot[t] \in 0 .. Size /\ slot[t] + 1 \in 0 .. Size
        BY <1>10, PoolAssumption DEF ReturnCas, Slot
  <2>1. CASE pool[slot[t]] = NoBuffer
        BY <1>10, <2>0, <2>1 DEF ReturnCas
  <2>2. CASE ~(pool[slot[t]] = NoBuffer)
        BY <1>10, <2>0, <2>2 DEF ReturnCas
  <2>. QED BY <2>1, <2>2
<1>11. ASSUME NEW t \in Thread, ReturnFull(t) PROVE PoolTypeOK'
      BY <1>11 DEF ReturnFull
<1>12. CASE UNCHANGED poolVars BY <1>12 DEF poolVars
<1>. QED BY <1>1, <1>2, <1>3, <1>4, <1>5, <1>6, <1>7, <1>8, <1>9, <1>10, <1>11, <1>12
         DEF PoolNext, Get, Return, PoolQuiescent

(* The state of the pool is well typed in every behaviour. *)
THEOREM PoolTypeCorrect == PoolSpec => []PoolTypeOK
BY PoolInitType, PoolStepType, PTL DEF PoolSpec

-----------------------------------------------------------------------------
(***************************************************************************)
(* Exclusive, over the arrays a thread has.                                *)
(***************************************************************************)
Has(t) == held[t] \cup InCall(t)

(* Exclusive, said of slots and threads. *)
Apart == /\ \A t, u \in Thread : t # u => Has(t) \cap Has(u) = {}
         /\ \A t \in Thread, s \in Slot : pool[s] \notin Has(t)
         /\ \A t \in Thread : InCall(t) \cap held[t] = {}
         /\ \A s, r \in Slot : s # r /\ pool[s] # NoBuffer => pool[s] # pool[r]

LEMMA NoBufferApart ==
    ASSUME PoolTypeOK, NEW t \in Thread
    PROVE  NoBuffer \notin Has(t)
BY PoolAssumption DEF PoolTypeOK, Has, InCall

LEMMA ApartIsExclusive == PoolTypeOK => (Apart <=> Exclusive)
<1>. SUFFICES ASSUME PoolTypeOK PROVE Apart <=> Exclusive OBVIOUS
<1>1. \A t \in Thread : Lent[t] = Has(t) BY DEF Lent, Has
<1>2. ASSUME NEW t \in Thread
      PROVE  Lent[t] \cap Pooled = {} <=> \A s \in Slot : pool[s] \notin Has(t)
      BY <1>1, NoBufferApart DEF Pooled
<1>. QED BY <1>1, <1>2 DEF Apart, Exclusive

(* Apart is kept by a step that only changes where a call is. *)
LEMMA SameApart ==
    ASSUME Apart, pool' = pool,
           \A t \in Thread : Has(t)' = Has(t) /\ (InCall(t) \cap held[t])' = {}
    PROVE  Apart'
BY DEF Apart

(* The state of the other threads is not touched by a step of t. *)
LEMMA Others ==
    ASSUME PoolTypeOK, NEW t \in Thread, PoolStep(t), NEW u \in Thread, u # t
    PROVE  /\ Has(u)' = Has(u) /\ InCall(u)' = InCall(u) /\ held'[u] = held[u]
           /\ pc'[u] = pc[u] /\ slot'[u] = slot[u]
<1>1. pc'[u] = pc[u] /\ slot'[u] = slot[u] /\ ba'[u] = ba[u] /\ held'[u] = held[u]
  <2>. USE DEF PoolTypeOK, GoTo, NextSlot
  <2>1. CASE GetStart(t) BY <2>1 DEF GetStart
  <2>2. CASE GetRead(t) BY <2>2 DEF GetRead
  <2>3. CASE GetCas(t) BY <2>3 DEF GetCas
  <2>4. CASE ReadSuccess(t) BY <2>4 DEF ReadSuccess
  <2>5. CASE GetHit(t) BY <2>5 DEF GetHit
  <2>6. CASE ReadFail(t) BY <2>6 DEF ReadFail
  <2>7. CASE GetMiss(t) BY <2>7 DEF GetMiss
  <2>8. CASE \E b \in held[t] : ReturnStart(t, b) BY <2>8 DEF ReturnStart
  <2>9. CASE ReturnRead(t) BY <2>9 DEF ReturnRead
  <2>10. CASE ReturnCas(t) BY <2>10 DEF ReturnCas
  <2>11. CASE ReturnFull(t) BY <2>11 DEF ReturnFull
  <2>. QED BY <2>1, <2>2, <2>3, <2>4, <2>5, <2>6, <2>7, <2>8, <2>9, <2>10, <2>11
           DEF PoolStep, Get, Return
<1>. QED BY <1>1 DEF Has, InCall

(* How a step changes the slots and the arrays its own thread has. *)
LEMMA OwnStep ==
    ASSUME PoolTypeOK, Apart, NEW t \in Thread, PoolStep(t)
    PROVE  /\ (InCall(t) \cap held[t])' = {}
           /\ \/ pool' = pool /\ Has(t)' = Has(t)
              \/ \E s \in Slot : /\ pool[s] # NoBuffer
                                 /\ pool' = [pool EXCEPT ![s] = NoBuffer]
                                 /\ Has(t)' = Has(t) \cup {pool[s]}
              \/ \E b \in Buffer : /\ Fresh(b) /\ pool' = pool
                                   /\ Has(t)' = Has(t) \cup {b}
              \/ \E b \in Has(t) : /\ Has(t)' = Has(t) \ {b}
                                   /\ \/ pool' = pool
                                      \/ \E s \in Slot :
                                            /\ pool[s] = NoBuffer
                                            /\ pool' = [pool EXCEPT ![s] = b]
<1>. USE DEF PoolTypeOK, At, GoTo, NextSlot, Has, InCall
<1>a. InCall(t) \cap held[t] = {} BY DEF Apart
<1>1. CASE GetStart(t) BY <1>1 DEF GetStart
<1>2. CASE GetRead(t) BY <1>2 DEF GetRead
<1>3. CASE GetCas(t)
  <2>1. slot[t] \in Slot BY <1>3, PoolAssumption DEF GetCas, Slot
  <2>2. CASE pool[slot[t]] = ba[t]
    <3>1. ba[t] # NoBuffer BY <1>3 DEF GetCas
    <3>2. ba[t] \notin held[t] BY <2>1, <2>2 DEF Apart
    <3>3. /\ pool' = [pool EXCEPT ![slot[t]] = NoBuffer]
          /\ InCall(t) = {} /\ InCall(t)' = {ba[t]} /\ held' = held
          BY <1>3, <2>2 DEF GetCas
    <3>. QED BY <2>1, <2>2, <3>1, <3>2, <3>3
  <2>3. CASE pool[slot[t]] # ba[t] BY <1>3, <2>3 DEF GetCas
  <2>. QED BY <2>2, <2>3
<1>4. CASE ReadSuccess(t) BY <1>4, <1>a DEF ReadSuccess
<1>5. CASE GetHit(t)
  <2>1. /\ InCall(t) = {ba[t]} /\ InCall(t)' = {} /\ pool' = pool
        /\ held'[t] = held[t] \cup {ba[t]}
        BY <1>5 DEF GetHit
  <2>. QED BY <2>1
<1>6. CASE ReadFail(t) BY <1>6 DEF ReadFail
<1>7. CASE GetMiss(t)
  <2>1. PICK b \in Buffer : Fresh(b) /\ held' = [held EXCEPT ![t] = @ \cup {b}]
        BY <1>7 DEF GetMiss
  <2>2. InCall(t) = {} /\ InCall(t)' = {} /\ pool' = pool BY <1>7 DEF GetMiss
  <2>. QED BY <2>1, <2>2
<1>8. ASSUME NEW b \in held[t], ReturnStart(t, b)
      PROVE  (InCall(t) \cap held[t])' = {} /\ pool' = pool /\ Has(t)' = Has(t)
  <2>1. /\ InCall(t) = {} /\ InCall(t)' = {b} /\ pool' = pool
        /\ held'[t] = held[t] \ {b}
        BY <1>8 DEF ReturnStart
  <2>. QED BY <2>1
<1>9. CASE ReturnRead(t) BY <1>9, <1>a DEF ReturnRead
<1>10. CASE ReturnCas(t)
  <2>1. slot[t] \in Slot /\ held' = held /\ InCall(t) = {ba[t]}
        BY <1>10, PoolAssumption DEF ReturnCas, Slot
  <2>2. CASE pool[slot[t]] = NoBuffer
    <3>1. pool' = [pool EXCEPT ![slot[t]] = ba[t]] /\ InCall(t)' = {}
          BY <1>10, <2>2 DEF ReturnCas
    <3>. QED BY <1>a, <2>1, <2>2, <3>1
  <2>3. CASE pool[slot[t]] # NoBuffer BY <1>10, <1>a, <2>3 DEF ReturnCas
  <2>. QED BY <2>2, <2>3
<1>11. CASE ReturnFull(t)
  <2>1. /\ InCall(t) = {ba[t]} /\ InCall(t)' = {} /\ held' = held /\ pool' = pool
        BY <1>11 DEF ReturnFull
  <2>. QED BY <1>a, <2>1
<1>. QED BY <1>1, <1>2, <1>3, <1>4, <1>5, <1>6, <1>7, <1>8, <1>9, <1>10, <1>11
         DEF PoolStep, Get, Return

LEMMA InitApart == PoolInit => Apart
BY DEF PoolInit, Apart, Has, InCall

LEMMA StepApart == PoolTypeOK /\ Apart /\ [PoolNext]_poolVars => Apart'
<1>. SUFFICES ASSUME PoolTypeOK, Apart, [PoolNext]_poolVars PROVE Apart' OBVIOUS
<1>1. ASSUME NEW t \in Thread, PoolStep(t) PROVE Apart'
  <2>o. \A u \in Thread \ {t} :
           Has(u)' = Has(u) /\ InCall(u)' = InCall(u) /\ held'[u] = held[u]
        BY <1>1, Others
  <2>slot. \A u \in Thread : InCall(u)' \cap held'[u] = {}
        BY <1>1, <2>o, OwnStep DEF Apart
  <2>n. \A u \in Thread : NoBuffer \notin Has(u) BY NoBufferApart
  <2>p. pool \in [Slot -> Buffer \cup {NoBuffer}] BY DEF PoolTypeOK
  <2>1. CASE pool' = pool /\ Has(t)' = Has(t)
        BY <2>1, <2>o, <2>slot DEF Apart
  <2>2. ASSUME NEW s \in Slot, pool[s] # NoBuffer,
               pool' = [pool EXCEPT ![s] = NoBuffer], Has(t)' = Has(t) \cup {pool[s]}
        PROVE  Apart'
    <3>1. \A r \in Slot : pool'[r] = IF r = s THEN NoBuffer ELSE pool[r]
          BY <2>2, <2>p
    <3>2. \A r \in Slot : r # s => pool[r] # pool[s] BY <2>2 DEF Apart
    <3>3. \A u, v \in Thread : u # v => Has(u)' \cap Has(v)' = {}
      <4>1. \A u \in Thread \ {t} : Has(u)' \cap Has(t)' = {}
            BY <2>2, <2>o DEF Apart
      <4>. QED BY <2>o, <4>1 DEF Apart
    <3>4. \A u \in Thread, r \in Slot : pool'[r] \notin Has(u)'
      <4>. SUFFICES ASSUME NEW u \in Thread, NEW r \in Slot PROVE pool'[r] \notin Has(u)'
           OBVIOUS
      <4>1. CASE r = s
        <5>1. NoBuffer \notin Has(u)'
              BY <2>2, <2>o, <2>n
        <5>. QED BY <3>1, <4>1, <5>1
      <4>2. CASE r # s
        <5>1. pool'[r] = pool[r] /\ pool[r] # pool[s] BY <3>1, <3>2, <4>2
        <5>2. pool[r] \notin Has(u) BY DEF Apart
        <5>. QED BY <2>2, <2>o, <5>1, <5>2
      <4>. QED BY <4>1, <4>2
    <3>5. \A r, q \in Slot : r # q /\ pool'[r] # NoBuffer => pool'[r] # pool'[q]
          BY <3>1 DEF Apart
    <3>. QED BY <2>slot, <3>3, <3>4, <3>5 DEF Apart
  <2>3. ASSUME NEW b \in Buffer, Fresh(b), pool' = pool, Has(t)' = Has(t) \cup {b}
        PROVE  Apart'
    <3>1. \A u \in Thread : b \notin Has(u) BY <2>3 DEF Fresh, Has, InCall
    <3>2. \A u, v \in Thread : u # v => Has(u)' \cap Has(v)' = {}
      <4>1. \A u \in Thread \ {t} : Has(u)' \cap Has(t)' = {}
            BY <2>3, <2>o, <3>1 DEF Apart
      <4>. QED BY <2>o, <4>1 DEF Apart
    <3>3. \A u \in Thread, r \in Slot : pool'[r] \notin Has(u)'
          BY <2>3, <2>o DEF Apart, Fresh
    <3>. QED BY <2>3, <2>slot, <3>2, <3>3 DEF Apart
  <2>4. ASSUME NEW b \in Has(t), Has(t)' = Has(t) \ {b}, pool' = pool
        PROVE  Apart'
    <3>1. \A u \in Thread : Has(u)' \subseteq Has(u) BY <2>4, <2>o
    <3>. QED BY <2>4, <2>slot, <3>1 DEF Apart
  <2>5. ASSUME NEW b \in Has(t), Has(t)' = Has(t) \ {b}, NEW s \in Slot,
               pool[s] = NoBuffer, pool' = [pool EXCEPT ![s] = b]
        PROVE  Apart'
    <3>1. \A r \in Slot : pool'[r] = IF r = s THEN b ELSE pool[r]
          BY <2>5, <2>p
    <3>2. \A u \in Thread : Has(u)' \subseteq Has(u) BY <2>5, <2>o
    <3>3. \A u \in Thread : b \notin Has(u)'
          BY <2>5, <2>o DEF Apart
    <3>4. \A r \in Slot : pool[r] # b BY <2>5 DEF Apart
    <3>5. \A u, v \in Thread : u # v => Has(u)' \cap Has(v)' = {}
          BY <3>2 DEF Apart
    <3>6. \A u \in Thread, r \in Slot : pool'[r] \notin Has(u)'
          BY <3>1, <3>2, <3>3 DEF Apart
    <3>7. \A r, q \in Slot : r # q /\ pool'[r] # NoBuffer => pool'[r] # pool'[q]
          BY <3>1, <3>4 DEF Apart
    <3>. QED BY <2>slot, <3>5, <3>6, <3>7 DEF Apart
  <2>. QED BY <1>1, <2>1, <2>2, <2>3, <2>4, <2>5, OwnStep
<1>2. CASE UNCHANGED poolVars BY <1>2 DEF poolVars, Apart, Has, InCall
<1>. QED BY <1>1, <1>2 DEF PoolNext, PoolStep, PoolQuiescent

LEMMA PoolInvariance == PoolSpec => [](PoolTypeOK /\ Apart)
<1>1. PoolInit => PoolTypeOK /\ Apart BY PoolInitType, InitApart
<1>2. PoolTypeOK /\ Apart /\ [PoolNext]_poolVars => PoolTypeOK' /\ Apart'
      BY PoolStepType, StepApart
<1>. QED BY <1>1, <1>2, PTL DEF PoolSpec

(* No array is ever lent twice, or lent and pooled, or pooled twice. *)
THEOREM ArraysAreExclusive == PoolSpec => []Exclusive
BY PoolInvariance, ApartIsExclusive, PTL

-----------------------------------------------------------------------------
(* Every step of a call brings it nearer to its end, whatever the others do. *)
LEMMA CallStep ==
    ASSUME PoolTypeOK, NEW t \in Thread, PoolStep(t), ~At(t, "idle")
    PROVE  StepsLeft(t)' < StepsLeft(t)
<1>. USE PoolAssumption DEF PoolTypeOK, At, GoTo, NextSlot, StepsLeft
<1>1. CASE GetRead(t)
  <2>1. CASE pool[slot[t]] = NoBuffer BY <1>1, <2>1 DEF GetRead
  <2>2. CASE pool[slot[t]] # NoBuffer BY <1>1, <2>2 DEF GetRead
  <2>. QED BY <2>1, <2>2
<1>2. CASE GetCas(t)
  <2>1. CASE pool[slot[t]] = ba[t] BY <1>2, <2>1 DEF GetCas
  <2>2. CASE pool[slot[t]] # ba[t] BY <1>2, <2>2 DEF GetCas
  <2>. QED BY <2>1, <2>2
<1>3. CASE ReadSuccess(t) BY <1>3 DEF ReadSuccess
<1>4. CASE GetHit(t) BY <1>4 DEF GetHit
<1>5. CASE ReadFail(t) BY <1>5 DEF ReadFail
<1>6. CASE GetMiss(t) BY <1>6 DEF GetMiss
<1>7. CASE ReturnRead(t)
  <2>1. CASE pool[slot[t]] = NoBuffer BY <1>7, <2>1 DEF ReturnRead
  <2>2. CASE pool[slot[t]] # NoBuffer BY <1>7, <2>2 DEF ReturnRead
  <2>. QED BY <2>1, <2>2
<1>8. CASE ReturnCas(t)
  <2>1. CASE pool[slot[t]] = NoBuffer BY <1>8, <2>1 DEF ReturnCas
  <2>2. CASE pool[slot[t]] # NoBuffer BY <1>8, <2>2 DEF ReturnCas
  <2>. QED BY <2>1, <2>2
<1>9. CASE ReturnFull(t) BY <1>9 DEF ReturnFull
<1>. QED BY <1>1, <1>2, <1>3, <1>4, <1>5, <1>6, <1>7, <1>8, <1>9
         DEF PoolStep, Get, Return, GetStart, ReturnStart

(* A call of getBA() or returnBA() takes at most 2 * Size + 3 steps of its *)
(* thread: StepsLeft only ever falls while it runs.                        *)
THEOREM CallsAreBounded == PoolSpec => BoundedCall
<1>. DEFINE A == \A t \in Thread :
                    ~At(t, "idle") => \/ StepsLeft(t)' < StepsLeft(t)
                                      \/ UNCHANGED <<pc[t], slot[t]>>
<1>1. ASSUME PoolTypeOK, NEW u \in Thread, PoolStep(u) PROVE A
  <2>. SUFFICES ASSUME NEW t \in Thread, ~At(t, "idle")
                PROVE  \/ StepsLeft(t)' < StepsLeft(t)
                       \/ UNCHANGED <<pc[t], slot[t]>>
       OBVIOUS
  <2>1. CASE t = u BY <1>1, <2>1, CallStep
  <2>2. CASE t # u BY <1>1, <2>2, Others
  <2>. QED BY <2>1, <2>2
<1>2. PoolTypeOK /\ PoolNext => A \/ UNCHANGED poolVars
      BY <1>1 DEF PoolNext, PoolStep, PoolQuiescent
<1>3. PoolTypeOK /\ [PoolNext]_poolVars => [A]_poolVars BY <1>2
<1>. QED BY PoolTypeCorrect, <1>3, PTL DEF PoolSpec, BoundedCall

-----------------------------------------------------------------------------
(***************************************************************************)
(* The pool implements BufferPool.                                         *)
(***************************************************************************)
LEMMA LendingStep ==
    ASSUME PoolTypeOK, PoolTypeOK', Apart, NEW t \in Thread, PoolStep(t)
    PROVE  [Lending!Next]_(Lending!vars)
<1>l. /\ \A u \in Thread : Lent[u] = Has(u)
      /\ \A u \in Thread : Lent'[u] = Has(u)'
      BY DEF Lent, Has
<1>o. ASSUME NEW S, Has(t)' = S PROVE Lent' = [Lent EXCEPT ![t] = S]
  <2>1. \A u \in Thread : Lent'[u] = IF u = t THEN S ELSE Lent[u]
        BY <1>l, <1>o, Others
  <2>. QED BY <2>1 DEF Lent
<1>p. pool \in [Slot -> Buffer \cup {NoBuffer}] BY DEF PoolTypeOK
<1>1. CASE pool' = pool /\ Has(t)' = Has(t)
  <2>1. Pooled' = Pooled BY <1>1 DEF Pooled
  <2>2. Lent' = Lent
    <3>1. \A u \in Thread : Lent'[u] = Lent[u] BY <1>1, <1>l, Others
    <3>. QED BY <3>1 DEF Lent
  <2>. QED BY <2>1, <2>2 DEF Lending!vars
<1>2. ASSUME NEW s \in Slot, pool[s] # NoBuffer,
             pool' = [pool EXCEPT ![s] = NoBuffer], Has(t)' = Has(t) \cup {pool[s]}
      PROVE  Lending!Next
  <2>1. pool[s] \in Buffer /\ pool[s] \in Pooled BY <1>2, <1>p DEF Pooled
  <2>2. Pooled' = Pooled \ {pool[s]}
    <3>1. \A r \in Slot : pool'[r] = IF r = s THEN NoBuffer ELSE pool[r]
          BY <1>2, <1>p
    <3>2. \A r \in Slot : r # s => pool[r] # pool[s] BY <1>2 DEF Apart
    <3>. QED BY <3>1, <3>2 DEF Pooled
  <2>3. Lent' = [Lent EXCEPT ![t] = @ \cup {pool[s]}] BY <1>2, <1>o, <1>l
  <2>4. Lending!Take(t, pool[s]) BY <2>1, <2>2, <2>3 DEF Lending!Take
  <2>. QED BY <2>1, <2>4 DEF Lending!Next
<1>3. ASSUME NEW b \in Buffer, Fresh(b), pool' = pool, Has(t)' = Has(t) \cup {b}
      PROVE  Lending!Next
  <2>1. b \notin Pooled /\ \A u \in Thread : b \notin Lent[u]
        BY <1>3, <1>l DEF Fresh, Pooled, Has, InCall
  <2>2. Pooled' = Pooled BY <1>3 DEF Pooled
  <2>3. Lent' = [Lent EXCEPT ![t] = @ \cup {b}] BY <1>3, <1>o, <1>l
  <2>4. b \notin Lending!Used BY <2>1 DEF Lending!Used
  <2>5. Lending!Alloc(t, b) BY <2>2, <2>3, <2>4 DEF Lending!Alloc
  <2>. QED BY <2>5 DEF Lending!Next
<1>4. ASSUME NEW b \in Has(t), Has(t)' = Has(t) \ {b},
             \/ pool' = pool
             \/ \E s \in Slot : pool[s] = NoBuffer /\ pool' = [pool EXCEPT ![s] = b]
      PROVE  Lending!Next
  <2>1. b \in Buffer
        BY <1>4, NoBufferApart DEF Has, InCall, PoolTypeOK
  <2>2. Pooled' \in {Pooled, Pooled \cup {b}}
    <3>1. CASE pool' = pool BY <3>1 DEF Pooled
    <3>2. ASSUME NEW s \in Slot, pool[s] = NoBuffer, pool' = [pool EXCEPT ![s] = b]
          PROVE  Pooled' = Pooled \cup {b}
      <4>1. \A r \in Slot : pool'[r] = IF r = s THEN b ELSE pool[r]
            BY <3>2, <1>p
      <4>2. b # NoBuffer BY <2>1, PoolAssumption
      <4>. QED BY <3>2, <4>1, <4>2 DEF Pooled
    <3>. QED BY <1>4, <3>1, <3>2
  <2>3. Lent' = [Lent EXCEPT ![t] = @ \ {b}] BY <1>4, <1>o, <1>l
  <2>4. b \in Lent[t] BY <1>l
  <2>5. Lending!Give(t, b) BY <2>2, <2>3, <2>4 DEF Lending!Give
  <2>. QED BY <2>1, <2>5 DEF Lending!Next
<1>. QED BY <1>1, <1>2, <1>3, <1>4, OwnStep

(* The lock-free pool does what a pool with a lock would do. *)
THEOREM PoolImplemented == PoolSpec => ImplementsPool
<1>1. PoolInit => Lending!Init
  <2>. SUFFICES ASSUME PoolInit PROVE Lending!Init OBVIOUS
  <2>1. Pooled = {} BY DEF PoolInit, Pooled
  <2>2. Lent = [t \in Thread |-> {}] BY DEF PoolInit, Lent, InCall
  <2>. QED BY <2>1, <2>2 DEF Lending!Init
<1>2. PoolTypeOK /\ PoolTypeOK' /\ Apart /\ [PoolNext]_poolVars => [Lending!Next]_(Lending!vars)
  <2>1. ASSUME UNCHANGED poolVars PROVE UNCHANGED (Lending!vars)
        BY <2>1 DEF poolVars, Lending!vars, Pooled, Lent, InCall
  <2>. QED BY <2>1, LendingStep DEF PoolNext, PoolStep, PoolQuiescent
<1>. QED BY PoolInvariance, <1>1, <1>2, PTL DEF PoolSpec, ImplementsPool, Lending!Spec

-----------------------------------------------------------------------------
(* The statistics.  An increment that lost its race may set a counter back, *)
(* so the counters are compared with the number of calls that have ended:  *)
(* there are h and m, the hits and the misses so far, that no counter and  *)
(* no value read by an increment exceeds.                                  *)
InGet == {t \in Thread : pc[t] \in {"get", "take", "taken", "hit", "miss"}}

Counts(h, m) == /\ h + m + Cardinality(InGet) = calls
                /\ success <= h /\ fail <= m
                /\ \A t \in Thread : /\ pc[t] = "hit" => read[t] <= h
                                     /\ pc[t] = "miss" => read[t] <= m

CountInv == IsFiniteSet(InGet) /\ \E h, m \in Nat : Counts(h, m)

LEMMA InitCount == PoolInit => CountInv
<1> SUFFICES ASSUME PoolInit PROVE CountInv
  OBVIOUS
<1>1. InGet = {}
  BY DEF PoolInit, InGet
<1>2. IsFiniteSet(InGet) /\ Cardinality(InGet) = 0
  BY <1>1, FS_EmptySet
<1>3. Counts(0, 0)
  BY <1>2 DEF PoolInit, Counts
<1> QED BY <1>2, <1>3 DEF CountInv

(* A step that leaves the calls in progress and the statistics alone. *)
LEMMA CountKept ==
    ASSUME PoolTypeOK, CountInv, InGet' = InGet, UNCHANGED <<calls, statVars>>,
           \A t \in Thread : /\ pc'[t] = "hit" => pc[t] = "hit" /\ read'[t] = read[t]
                             /\ pc'[t] = "miss" => pc[t] = "miss" /\ read'[t] = read[t]
    PROVE  CountInv'
<1>1. PICK h \in Nat, m \in Nat : Counts(h, m)
  BY DEF CountInv
<1>2. Counts(h, m)'
  BY <1>1 DEF Counts, statVars
<1> QED BY <1>2 DEF CountInv

(* No step counts a call twice. *)
LEMMA StepCount == PoolTypeOK /\ CountInv /\ [PoolNext]_poolVars => CountInv'
<1> SUFFICES ASSUME PoolTypeOK, CountInv, [PoolNext]_poolVars PROVE CountInv'
  OBVIOUS
<1>0. PICK h \in Nat, m \in Nat : Counts(h, m)
  BY DEF CountInv
<1>n. /\ Cardinality(InGet) \in Nat /\ IsFiniteSet(InGet)
      /\ calls \in Nat /\ success \in Nat /\ fail \in Nat
      /\ pc \in [Thread -> Labels] /\ read \in [Thread -> Nat]
  BY FS_CardinalityType DEF CountInv, PoolTypeOK
<1>1. ASSUME NEW t \in Thread, GetStart(t) PROVE CountInv'
  <2>1. t \notin InGet /\ InGet' = InGet \cup {t}
    BY <1>1, <1>n DEF GetStart, At, GoTo, InGet
  <2>2. IsFiniteSet(InGet') /\ Cardinality(InGet') = Cardinality(InGet) + 1
    BY <2>1, <1>n, FS_AddElement
  <2>3. Counts(h, m)'
    BY <1>0, <1>1, <1>n, <2>2 DEF Counts, GetStart, At, GoTo, statVars
  <2> QED BY <2>2, <2>3 DEF CountInv
<1>2. ASSUME NEW t \in Thread, GetRead(t) PROVE CountInv'
  <2>1. InGet' = InGet
    BY <1>2, <1>n DEF GetRead, At, GoTo, InGet
  <2> QED BY <1>2, <1>n, <2>1, CountKept DEF GetRead, At, GoTo
<1>3. ASSUME NEW t \in Thread, GetCas(t) PROVE CountInv'
  <2>1. InGet' = InGet
    BY <1>3, <1>n DEF GetCas, At, GoTo, InGet
  <2> QED BY <1>3, <1>n, <2>1, CountKept DEF GetCas, At, GoTo
<1>4. ASSUME NEW t \in Thread, ReadSuccess(t) PROVE CountInv'
  <2>1. InGet' = InGet
    BY <1>4, <1>n DEF ReadSuccess, At, GoTo, InGet
  <2>2. Counts(h, m)'
    BY <1>0, <1>4, <1>n, <2>1 DEF Counts, ReadSuccess, At, GoTo, statVars
  <2> QED BY <1>n, <2>1, <2>2 DEF CountInv
<1>5. ASSUME NEW t \in Thread, ReadFail(t) PROVE CountInv'
  <2>1. InGet' = InGet
    BY <1>5, <1>n DEF ReadFail, At, GoTo, InGet
  <2>2. Counts(h, m)'
    BY <1>0, <1>5, <1>n, <2>1 DEF Counts, ReadFail, At, GoTo, statVars
  <2> QED BY <1>n, <2>1, <2>2 DEF CountInv
<1>6. ASSUME NEW t \in Thread, GetHit(t) PROVE CountInv'
  <2>1. t \in InGet /\ InGet' = InGet \ {t}
    BY <1>6, <1>n DEF GetHit, At, GoTo, InGet
  <2>2. IsFiniteSet(InGet') /\ Cardinality(InGet') = Cardinality(InGet) - 1
    BY <2>1, <1>n, FS_RemoveElement
  <2>3. read[t] <= h /\ success' = read[t] + 1 /\ UNCHANGED <<read, fail, calls>>
    BY <1>0, <1>6 DEF Counts, GetHit, At
  <2>4. \A u \in Thread : pc'[u] \in {"hit", "miss"} => pc[u] = pc'[u]
    BY <1>6, <1>n DEF GetHit, GoTo
  <2>5. Counts(h + 1, m)'
    BY <1>0, <1>n, <2>2, <2>3, <2>4 DEF Counts
  <2> QED BY <2>2, <2>5 DEF CountInv
<1>7. ASSUME NEW t \in Thread, GetMiss(t) PROVE CountInv'
  <2>1. t \in InGet /\ InGet' = InGet \ {t}
    BY <1>7, <1>n DEF GetMiss, At, GoTo, InGet
  <2>2. IsFiniteSet(InGet') /\ Cardinality(InGet') = Cardinality(InGet) - 1
    BY <2>1, <1>n, FS_RemoveElement
  <2>3. read[t] <= m /\ fail' = read[t] + 1 /\ UNCHANGED <<read, success, calls>>
    BY <1>0, <1>7 DEF Counts, GetMiss, At
  <2>4. \A u \in Thread : pc'[u] \in {"hit", "miss"} => pc[u] = pc'[u]
    BY <1>7, <1>n DEF GetMiss, GoTo
  <2>5. Counts(h, m + 1)'
    BY <1>0, <1>n, <2>2, <2>3, <2>4 DEF Counts
  <2> QED BY <2>2, <2>5 DEF CountInv
<1>8. ASSUME NEW t \in Thread, NEW b \in held[t], ReturnStart(t, b) PROVE CountInv'
  <2>1. InGet' = InGet
    BY <1>8, <1>n DEF ReturnStart, At, GoTo, InGet
  <2> QED BY <1>8, <1>n, <2>1, CountKept DEF ReturnStart, At, GoTo
<1>9. ASSUME NEW t \in Thread, Return(t) PROVE CountInv'
  <2>1. InGet' = InGet
    BY <1>9, <1>n DEF Return, ReturnRead, ReturnCas, ReturnFull, At, GoTo, InGet
  <2> QED BY <1>9, <1>n, <2>1, CountKept
          DEF Return, ReturnRead, ReturnCas, ReturnFull, At, GoTo
<1>10. CASE UNCHANGED poolVars
  <2>1. InGet' = InGet
    BY <1>10 DEF poolVars, InGet
  <2> QED BY <1>10, <2>1, CountKept DEF poolVars, statVars
<1> QED BY <1>1, <1>2, <1>3, <1>4, <1>5, <1>6, <1>7, <1>8, <1>9, <1>10
        DEF PoolNext, Get, PoolQuiescent

(* The statistics never claim more calls than there were, for any number   *)
(* of threads and any interleaving of their unsynchronised increments.     *)
THEOREM StatisticsAreLowerBounds == PoolSpec => []NeverOvercounted
<1>1. PoolTypeOK /\ CountInv => NeverOvercounted
  <2> SUFFICES ASSUME PoolTypeOK, CountInv PROVE NeverOvercounted
    OBVIOUS
  <2>1. PICK h \in Nat, m \in Nat : Counts(h, m)
    BY DEF CountInv
  <2>2. Cardinality(InGet) \in Nat
    BY FS_CardinalityType DEF CountInv
  <2> QED BY <2>1, <2>2 DEF Counts, NeverOvercounted, PoolTypeOK
<1> QED BY <1>1, InitCount, StepCount, PoolTypeCorrect, PTL DEF PoolSpec
=============================================================================

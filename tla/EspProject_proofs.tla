-------------------------- MODULE EspProject_proofs --------------------------
(***************************************************************************)
(* Proofs about the clock of a project, for any clients, components, rates *)
(* and sleep times and any number of changes, and the connections of servers, *)
(* projects, publishers and subscribers, for any entities and setups of    *)
(* them, losses, errors and calls.                                         *)
(***************************************************************************)
EXTENDS EspClock, EspConnection, DataLemmas

-----------------------------------------------------------------------------
(* The clock. *)
Clock == [rate : Rates \cup {2}, time : Nat, real : BOOLEAN, pauses : Nat,
          onDebug : BOOLEAN, halted : BOOLEAN]

ClockTypes == /\ clock \in Clock /\ sys \in Nat /\ debug \in BOOLEAN /\ made \in Seq(Nat)
              /\ seen \in [Components -> Nat] /\ runs \in [Components -> BOOLEAN]
              /\ snap \in [Clients -> Nat]
              /\ call \in [Clients -> Nat] /\ done \in [Clients -> Nat]
              /\ owes \in [Clients -> Nat] /\ orderly \in BOOLEAN

(* Changes are made in the order of time, and no component has slept       *)
(* through one for the maximum sleep time.                                 *)
Timing == /\ \A i \in 1..Len(made) : made[i] <= sys
          /\ \A i, j \in 1..Len(made) : i <= j => made[i] <= made[j]
          /\ \A k \in Components : seen[k] <= Len(made) /\ Awake(k, sys)

(* A call waits for the client's last change. *)
Waiting == \A c \in Clients : call[c] \in {0, done[c]} /\ done[c] <= Len(made)

(* What the clients have paused is what the project counts, as long as     *)
(* nobody resumes more than that.                                          *)
Counted == orderly => clock.pauses = SumOf(owes)

(* The change that a component goes by counts all pauses made before it.   *)
Viewed == orderly => \A c \in Clients :
              owes[c] > 0 => /\ \A k \in Components : seen[k] >= done[c] => ~runs[k]
                             /\ call[c] = 0 => snap[c] > 0

ClockInv == ClockTypes /\ Timing /\ Waiting /\ Counted /\ Viewed /\ RealMatches /\ ChangesArrive

(* The clocks that the calls make are clocks. *)
LEMMA WithPauses ==
    \A k \in Clock, n \in Nat : LET new == [k EXCEPT !.pauses = n, !.real = FALSE]
                                IN  new \in Clock /\ ~new.real /\ new.pauses = n
BY DEF Clock

LEMMA WithTime ==
    \A k \in Clock, t \in Nat : LET new == [k EXCEPT !.time = t, !.real = FALSE]
                                IN  new \in Clock /\ ~new.real /\ new.pauses = k.pauses
BY DEF Clock

LEMMA WithRateTime ==
    \A k \in Clock, r \in Rates, t \in Nat :
        LET new == [k EXCEPT !.rate = r, !.time = t, !.real = FALSE]
        IN  new \in Clock /\ ~new.real /\ new.pauses = k.pauses
BY DEF Clock

LEMMA AsReal ==
    ASSUME NEW onDebug \in BOOLEAN, NEW t \in Nat
    PROVE  RealClock(t, onDebug) \in Clock
BY DEF Clock, RealClock

(* While somebody owes a resume, the clock is paused. *)
LEMMA Paused ==
    ASSUME ClockTypes, Counted, orderly, NEW c \in Clients, owes[c] > 0
    PROVE  clock.pauses > 0 /\ clock.pauses \in Nat
<1>1. owes \in [Clients -> Nat] /\ owes[c] \in Nat /\ clock.pauses \in Nat
  BY DEF ClockTypes, Clock
<1>2. owes[c] <= SumOf(owes)
  BY <1>1, SumOfBounds, ClientsAssumption
<1>3. owes[c] <= clock.pauses
  BY <1>2 DEF Counted
<1> QED BY <1>1, <1>3

LEMMA ClockStarts == ClockInit => ClockInv
<1> SUFFICES ASSUME ClockInit PROVE ClockInv
  OBVIOUS
<1>1. Start \in Clock
  BY AsReal DEF Start
<1>2. /\ clock = Start /\ sys = 0 /\ debug = FALSE /\ made = <<>> /\ orderly = TRUE
      /\ seen \in [Components -> Nat] /\ \A k \in Components : seen[k] = 0
      /\ runs \in [Components -> BOOLEAN] /\ snap \in [Clients -> Nat]
      /\ call \in [Clients -> Nat] /\ done \in [Clients -> Nat] /\ owes \in [Clients -> Nat]
      /\ \A c \in Clients : call[c] = 0 /\ done[c] = 0 /\ owes[c] = 0
      /\ owes = [c \in Clients |-> 0]
  BY DEF ClockInit
<1>3. made \in Seq(Nat) /\ Len(made) = 0
  BY <1>2, EmptySeq
<1>4. ClockTypes
  BY <1>1, <1>2, <1>3 DEF ClockTypes
<1>5. Timing /\ Waiting
  BY <1>2, <1>3 DEF Timing, Waiting, Awake
<1>6. Counted
  <2>1. SumOf(owes) = 0
    BY <1>2, SumOfZero, ClientsAssumption
  <2> QED BY <1>2, <2>1 DEF Counted, Start, RealClock
<1>7. Viewed /\ RealMatches /\ ChangesArrive
  BY <1>2 DEF Viewed, RealMatches, ChangesArrive, Running, Start, RealClock
<1> QED BY <1>4, <1>5, <1>6, <1>7 DEF ClockInv

(* A change keeps what is known of the times of changes. *)
LEMMA AlterKeeps ==
    ASSUME ClockTypes, Timing, NEW new, Alter(new), UNCHANGED <<sys, seen>>, SleepAssumption
    PROVE  /\ made' \in Seq(Nat) /\ Len(made') = Len(made) + 1 /\ Len(made) \in Nat
           /\ clock' = new /\ Timing'
<1>1. made \in Seq(Nat) /\ sys \in Nat /\ made' = Append(made, sys) /\ clock' = new
  BY DEF ClockTypes, Alter
<1>2. /\ made' \in Seq(Nat) /\ Len(made') = Len(made) + 1 /\ Len(made) \in Nat
      /\ \A i \in 1..Len(made) : made'[i] = made[i]
      /\ made'[Len(made) + 1] = sys
  BY <1>1, AppendProperties, LenProperties
<1>3. \A i \in 1..Len(made') : made'[i] \in Nat /\ made'[i] <= sys
  <2> SUFFICES ASSUME NEW i \in 1..Len(made') PROVE made'[i] \in Nat /\ made'[i] <= sys
    OBVIOUS
  <2>1. CASE i = Len(made) + 1
    BY <1>1, <1>2, <2>1
  <2>2. CASE i # Len(made) + 1
    <3>1. i \in 1..Len(made)
      BY <1>2, <2>2
    <3>2. made[i] \in Nat
      BY <1>1, <3>1, ElementOfSeq
    <3> QED BY <1>2, <3>1, <3>2 DEF Timing
  <2> QED BY <2>1, <2>2
<1>4. \A i, j \in 1..Len(made') : i <= j => made'[i] <= made'[j]
  <2> SUFFICES ASSUME NEW i \in 1..Len(made'), NEW j \in 1..Len(made'), i <= j
               PROVE  made'[i] <= made'[j]
    OBVIOUS
  <2>1. CASE j = Len(made) + 1
    BY <1>2, <1>3, <2>1
  <2>2. CASE j # Len(made) + 1
    <3>1. i \in 1..Len(made) /\ j \in 1..Len(made)
      BY <1>2, <2>2
    <3> QED BY <1>2, <3>1 DEF Timing
  <2> QED BY <2>1, <2>2
<1>5. ASSUME NEW k \in Components PROVE seen'[k] <= Len(made') /\ Awake(k, sys)'
  <2>1. seen'[k] = seen[k] /\ seen[k] \in Nat /\ seen[k] <= Len(made) /\ sys' = sys
    BY DEF ClockTypes, Timing
  <2>2. CASE seen[k] = Len(made)
    BY <1>1, <1>2, <2>1, <2>2, SleepAssumption DEF Awake
  <2>3. CASE seen[k] # Len(made)
    <3>1. seen[k] + 1 \in 1..Len(made) /\ seen[k] < Len(made)
      BY <1>2, <2>1, <2>3
    <3>2. sys < made[seen[k] + 1] + MaxSleep
      BY <3>1 DEF Timing, Awake
    <3> QED BY <1>2, <2>1, <3>1, <3>2 DEF Awake
  <2> QED BY <2>2, <2>3
<1>6. sys' = sys
  OBVIOUS
<1> QED BY <1>1, <1>2, <1>3, <1>4, <1>5, <1>6 DEF Timing

(* A call that changes the clock keeps the invariant, if the new clock is   *)
(* real only when it should be and counts what the clients owe.             *)
LEMMA ChangeKeeps ==
    ASSUME ClockInv, NEW c \in Clients, NEW new \in Clock, Change(c, new), SleepAssumption,
           owes' \in [Clients -> Nat], orderly' \in BOOLEAN,
           new.real => /\ new.time = sys /\ new.rate = 2
                       /\ new.pauses = 0 /\ ~new.halted,
           orderly' => /\ orderly /\ new.pauses = SumOf(owes')
                       /\ \A d \in Clients \ {c} : owes'[d] > 0 => owes[d] > 0
    PROVE  ClockInv'
<1>t. ClockTypes /\ Timing
  BY DEF ClockInv
<1>1. UNCHANGED <<sys, debug, seen, runs, snap>> /\ Alter(new)
  BY DEF Change
<1>2. /\ made' \in Seq(Nat) /\ Len(made') = Len(made) + 1 /\ Len(made) \in Nat
      /\ clock' = new /\ Timing'
  BY <1>1, <1>t, AlterKeeps
<1>n. PICK n \in Nat : n = Len(made) /\ Len(made') = n + 1
  BY <1>2
<1>c. /\ call' = [call EXCEPT ![c] = n + 1] /\ done' = [done EXCEPT ![c] = n + 1]
      /\ call \in [Clients -> Nat] /\ done \in [Clients -> Nat] /\ call[c] = 0
  BY <1>n, <1>t DEF Change, ClockTypes
<1>3. call' \in [Clients -> Nat] /\ done' \in [Clients -> Nat]
  BY <1>c
<1>4. \A d \in Clients : /\ call'[d] = (IF d = c THEN n + 1 ELSE call[d])
                         /\ done'[d] = (IF d = c THEN n + 1 ELSE done[d])
  BY <1>c
<1>5. ClockTypes'
  BY <1>1, <1>2, <1>3, <1>t DEF ClockTypes
<1>6. Waiting'
  <2> SUFFICES ASSUME NEW d \in Clients
               PROVE  call'[d] \in {0, done'[d]} /\ done'[d] <= n + 1
    BY <1>n DEF Waiting
  <2>1. call[d] \in {0, done[d]} /\ done[d] <= n /\ done[d] \in Nat
    BY <1>n, <1>c DEF ClockInv, Waiting
  <2> QED BY <1>4, <2>1
<1>7. Counted'
  BY <1>2 DEF Counted
<1>8. ASSUME orderly', NEW d \in Clients, owes'[d] > 0
      PROVE  /\ \A k \in Components : seen'[k] >= done'[d] => ~runs'[k]
             /\ call'[d] = 0 => snap'[d] > 0
  <2>1. CASE d = c
    <3>1. call'[d] = n + 1 /\ done'[d] = n + 1
      BY <1>4, <2>1
    <3>2. ASSUME NEW k \in Components PROVE ~(seen'[k] >= done'[d])
      <4>1. seen'[k] = seen[k] /\ seen[k] \in Nat /\ seen[k] <= n
        BY <1>1, <1>n, <1>t DEF Timing, ClockTypes
      <4> QED BY <3>1, <4>1
    <3> QED BY <3>1, <3>2
  <2>2. CASE d # c
    <3>1. orderly /\ owes[d] > 0
      BY <1>8, <2>2
    <3> QED BY <1>1, <1>4, <2>2, <3>1 DEF ClockInv, Viewed
  <2> QED BY <2>1, <2>2
<1>9. Viewed'
  BY <1>8 DEF Viewed
<1>10. RealMatches'
  BY <1>1, <1>2 DEF RealMatches, Running
<1>11. ChangesArrive'
  BY <1>1, <1>4 DEF ClockInv, ChangesArrive
<1> QED BY <1>2, <1>5, <1>6, <1>7, <1>9, <1>10, <1>11 DEF ClockInv

(* A change that leaves the pauses alone. *)
LEMMA PlainChangeKeeps ==
    ASSUME ClockInv, NEW c \in Clients, NEW new \in Clock, Change(c, new), SleepAssumption,
           UNCHANGED <<owes, orderly>>, ~new.real, new.pauses = clock.pauses
    PROVE  ClockInv'
<1>1. owes' \in [Clients -> Nat] /\ orderly' \in BOOLEAN
  BY DEF ClockInv, ClockTypes
<1>2. orderly' => new.pauses = SumOf(owes')
  BY DEF ClockInv, Counted
<1> QED BY <1>1, <1>2, ChangeKeeps

LEMMA ClockSteps == ClockInv /\ [ClockNext]_clockVars => ClockInv'
<1> SUFFICES ASSUME ClockInv, [ClockNext]_clockVars PROVE ClockInv'
  OBVIOUS
<1> USE RatesAssumption, SleepAssumption
<1>p. \A n \in Nat : n + 1 \in Nat /\ n + 2 \in Nat
  OBVIOUS
<1>t. /\ ClockTypes /\ clock \in Clock /\ sys \in Nat /\ clock.pauses \in Nat
      /\ owes \in [Clients -> Nat] /\ owes \in [Clients -> Int] /\ orderly \in BOOLEAN
  BY DEF ClockInv, ClockTypes, Clock
<1>f. orderly => clock.pauses = SumOf(owes)
  BY DEF ClockInv, Counted
<1>1. ASSUME NEW c \in Clients, Pause(c) PROVE ClockInv'
  <2> DEFINE new == [clock EXCEPT !.pauses = @ + 1, !.real = FALSE]
  <2>1. new \in Clock /\ ~new.real /\ new.pauses = clock.pauses + 1
    BY <1>t, <1>p, WithPauses
  <2>2. /\ Change(c, new) /\ owes' \in [Clients -> Nat] /\ orderly' = orderly
        /\ owes' = [owes EXCEPT ![c] = owes[c] + 1]
        /\ \A d \in Clients \ {c} : owes'[d] = owes[d]
    BY <1>1, <1>t DEF Pause, Owe
  <2>3. SumOf(owes') = SumOf(owes) + 1
    <3>1. /\ owes' \in [Clients -> Int] /\ owes'[c] - owes[c] = 1
          /\ \A d \in Clients \ {c} : owes'[d] = owes[d]
      BY <1>t, <2>2
    <3> HIDE DEF new
    <3>2. SumOf(owes) \in Int /\ SumOf(owes') = SumOf(owes) + (owes'[c] - owes[c])
      BY <1>t, <3>1, SumOfChanged, ClientsAssumption
    <3> QED BY <3>1, <3>2
  <2>4. orderly' => new.pauses = SumOf(owes')
    BY <1>f, <2>1, <2>2, <2>3
  <2> HIDE DEF new
  <2> QED BY <1>t, <2>1, <2>2, <2>4, ChangeKeeps
<1>2. ASSUME NEW c \in Clients, Resume(c) PROVE ClockInv'
  <2> DEFINE new == [clock EXCEPT !.pauses = @ - 1]
  <2>1. clock.pauses > 0 /\ clock.pauses - 1 \in Nat
    BY <1>2, <1>t DEF Resume
  <2>2. new \in Clock /\ new.real = clock.real /\ new.pauses = clock.pauses - 1
    BY <1>t, <2>1 DEF Clock
  <2>3. ~new.real
    BY <1>t, <2>1, <2>2 DEF ClockInv, RealMatches, Running
  <2>4. /\ Change(c, new) /\ owes' \in [Clients -> Nat] /\ orderly' \in BOOLEAN
        /\ \A d \in Clients \ {c} : owes'[d] = owes[d]
        /\ orderly' => orderly /\ owes[c] > 0
    <3>1. Change(c, new) /\ orderly' \in BOOLEAN /\ (orderly' => orderly /\ owes[c] > 0)
      BY <1>2, <1>t DEF Resume
    <3>2. PICK n \in Nat : owes' = [owes EXCEPT ![c] = n]
      <4>1. owes[c] \in Nat /\ (IF owes[c] > 0 THEN owes[c] - 1 ELSE 0) \in Nat
        BY <1>t
      <4>2. owes' = [owes EXCEPT ![c] = IF owes[c] > 0 THEN owes[c] - 1 ELSE 0]
        BY <1>2, <1>t DEF Resume
      <4> QED BY <4>1, <4>2
    <3> HIDE DEF new
    <3> QED BY <1>t, <3>1, <3>2
  <2>5. ASSUME orderly' PROVE new.pauses = SumOf(owes')
    <3>1. owes' \in [Clients -> Int] /\ owes[c] \in Nat /\ owes'[c] = owes[c] - 1
      BY <1>2, <1>t, <2>4, <2>5 DEF Resume
    <3>2. SumOf(owes) \in Int /\ SumOf(owes') = SumOf(owes) + (owes'[c] - owes[c])
      BY <1>t, <2>4, <3>1, SumOfChanged, ClientsAssumption
    <3>3. SumOf(owes) = clock.pauses
      BY <1>f, <2>4, <2>5
    <3> QED BY <1>t, <2>2, <3>1, <3>2, <3>3
  <2> HIDE DEF new
  <2> QED BY <2>2, <2>3, <2>4, <2>5, ChangeKeeps
<1>3. ASSUME NEW c \in Clients, Set_Rate(c) PROVE ClockInv'
  <2>1. PICK rate \in Rates : Change(c, [clock EXCEPT !.rate = rate, !.real = FALSE])
    BY <1>3 DEF Set_Rate
  <2> DEFINE new == [clock EXCEPT !.rate = rate, !.real = FALSE]
  <2>2. new \in Clock /\ ~new.real /\ new.pauses = clock.pauses
    BY <1>t DEF Clock
  <2>3. UNCHANGED <<owes, orderly>>
    BY <1>3 DEF Set_Rate
  <2> HIDE DEF new
  <2>4. Change(c, new)
    BY <2>1 DEF new
  <2> QED BY <2>2, <2>3, <2>4, PlainChangeKeeps
<1>4. ASSUME NEW c \in Clients, Set_Time(c) PROVE ClockInv'
  <2> DEFINE new == [clock EXCEPT !.time = sys + 2, !.real = FALSE]
  <2>1. new \in Clock /\ ~new.real /\ new.pauses = clock.pauses
    BY <1>t, <1>p, WithTime
  <2>2. Change(c, new) /\ UNCHANGED <<owes, orderly>>
    BY <1>4 DEF Set_Time
  <2> HIDE DEF new
  <2> QED BY <2>1, <2>2, PlainChangeKeeps
<1>5. ASSUME NEW c \in Clients, Set_Rate_Time(c) PROVE ClockInv'
  <2>1. PICK rate \in Rates :
           Change(c, [clock EXCEPT !.rate = rate, !.time = sys + 2, !.real = FALSE])
    BY <1>5 DEF Set_Rate_Time
  <2> DEFINE new == [clock EXCEPT !.rate = rate, !.time = sys + 2, !.real = FALSE]
  <2>2. new \in Clock /\ ~new.real /\ new.pauses = clock.pauses
    BY <1>t, <1>p, WithRateTime
  <2>3. UNCHANGED <<owes, orderly>>
    BY <1>5 DEF Set_Rate_Time
  <2> HIDE DEF new
  <2>4. Change(c, new)
    BY <2>1 DEF new
  <2> QED BY <2>2, <2>3, <2>4, PlainChangeKeeps
<1>6. ASSUME NEW c \in Clients, Reset_To_Real(c) PROVE ClockInv'
  <2> DEFINE new == RealClock(sys, clock.onDebug)
  <2>1. /\ new \in Clock /\ new.time = sys /\ new.rate = 2
        /\ new.pauses = 0 /\ ~new.halted
    BY <1>t, AsReal DEF Clock, RealClock
  <2>2. /\ Change(c, new) /\ owes' = [d \in Clients |-> 0] /\ orderly' = orderly
    BY <1>6 DEF Reset_To_Real
  <2>3. SumOf(owes') = 0
    BY <2>2, SumOfZero, ClientsAssumption
  <2>4. owes' \in [Clients -> Nat] /\ \A d \in Clients : ~(owes'[d] > 0)
    BY <2>2
  <2> HIDE DEF new
  <2> QED BY <1>t, <2>1, <2>2, <2>3, <2>4, ChangeKeeps
<1>7. ASSUME NEW c \in Clients, Set_Pause_On_Debug(c) PROVE ClockInv'
  <2>1. /\ clock' \in Clock
        /\ clock'.rate = clock.rate /\ clock'.time = clock.time /\ clock'.real = clock.real
        /\ clock'.pauses = clock.pauses /\ clock'.halted = clock.halted
    BY <1>7, <1>t DEF Set_Pause_On_Debug, Clock
  <2>2. UNCHANGED <<sys, debug, made, seen, runs, snap, call, done, owes, orderly>>
    BY <1>7 DEF Set_Pause_On_Debug
  <2>3. Counted'
    BY <1>f, <2>1, <2>2 DEF Counted
  <2> QED BY <2>1, <2>2, <2>3 DEF ClockInv, ClockTypes, Timing, Awake, Waiting, Viewed,
                                  RealMatches, ChangesArrive, Running
<1>8. ASSUME NEW c \in Clients, Returns(c) \/ UpdateClock(c) PROVE ClockInv'
  <2>1. /\ UNCHANGED <<clock, sys, debug, made, seen, runs, done, owes, orderly>>
        /\ snap' = [snap EXCEPT ![c] = clock.pauses]
        /\ call' = [call EXCEPT ![c] = 0]
    BY <1>8, <1>t DEF Returns, UpdateClock, Refresh, ClockTypes
  <2>2. ASSUME NEW k \in Components PROVE seen[k] >= done[c]
    <3>1. CASE Returns(c)
      <4>1. call[c] > 0 /\ call[c] = done[c] /\ done[c] \in 1..Len(made)
        BY <3>1 DEF Returns, ClockInv, ClockTypes, Waiting
      <4>2. sys >= made[done[c]] + MaxSleep
        BY <3>1, <4>1 DEF Returns
      <4>3. made \in Seq(Nat) /\ Len(made) \in Nat /\ seen[k] \in Nat /\ done[c] \in Nat
        BY <1>t, LenProperties DEF ClockTypes
      <4>4. SUFFICES ASSUME seen[k] < done[c] PROVE FALSE
        BY <4>3
      <4>5. seen[k] + 1 \in 1..Len(made) /\ seen[k] + 1 <= done[c] /\ seen[k] < Len(made)
        BY <4>1, <4>3, <4>4
      <4>6. made[seen[k] + 1] <= made[done[c]] /\ sys < made[seen[k] + 1] + MaxSleep
        BY <4>1, <4>5 DEF ClockInv, Timing, Awake
      <4>7. made[seen[k] + 1] \in Nat /\ made[done[c]] \in Nat
        BY <4>1, <4>3, <4>5, ElementOfSeq
      <4> QED BY <1>t, <4>2, <4>6, <4>7
    <3>2. CASE UpdateClock(c)
      BY <3>2 DEF UpdateClock, ClockInv, ChangesArrive
    <3> QED BY <1>8, <3>1, <3>2
  <2>3. ClockTypes'
    BY <2>1, <1>t DEF ClockTypes
  <2>4. ChangesArrive'
    BY <2>1, <2>2, <1>t DEF ClockInv, ClockTypes, ChangesArrive
  <2>5. Viewed'
    <3>1. ASSUME orderly, NEW d \in Clients, owes[d] > 0 PROVE call'[d] = 0 => snap'[d] > 0
      <4>1. clock.pauses > 0
        BY <3>1, Paused DEF ClockInv
      <4> QED BY <2>1, <3>1, <4>1, <1>t DEF ClockInv, ClockTypes, Viewed
    <3> QED BY <2>1, <3>1 DEF ClockInv, Viewed
  <2>6. Timing' /\ Counted' /\ RealMatches'
    BY <1>f, <2>1 DEF ClockInv, Counted, Timing, Awake, RealMatches, Running
  <2>7. Waiting'
    BY <2>1, <1>t DEF ClockInv, ClockTypes, Waiting
  <2> QED BY <2>3, <2>4, <2>5, <2>6, <2>7 DEF ClockInv
<1>9. ASSUME NEW k \in Components, Discover(k) PROVE ClockInv'
  <2>1. /\ seen' = [seen EXCEPT ![k] = Len(made)] /\ runs' = [runs EXCEPT ![k] = Running]
        /\ UNCHANGED <<clock, sys, debug, made, snap, call, done, owes, orderly>>
        /\ seen[k] < Len(made) /\ Len(made) \in Nat
    BY <1>9, <1>t, LenProperties DEF Discover, ClockTypes
  <2>2. ClockTypes'
    <3>1. Running \in BOOLEAN
      BY DEF Running
    <3> QED BY <2>1, <3>1, <1>t DEF ClockTypes
  <2>3. \A j \in Components : /\ seen'[j] \in Nat /\ seen'[j] >= seen[j]
                              /\ j = k => seen'[j] = Len(made)
                              /\ j # k => seen'[j] = seen[j]
    BY <2>1, <1>t DEF ClockTypes
  <2>4. Timing'
    BY <2>1, <2>3 DEF ClockInv, Timing, Awake
  <2>5. ChangesArrive'
    BY <2>1, <2>3, <1>t DEF ClockInv, ClockTypes, ChangesArrive
  <2>6. Viewed'
    <3>1. ASSUME orderly, NEW d \in Clients, owes[d] > 0, NEW j \in Components,
                 seen'[j] >= done[d]
          PROVE  ~runs'[j]
      <4>1. ~Running
        BY <3>1, Paused DEF ClockInv, Running
      <4>2. CASE j = k
        BY <2>1, <4>1, <4>2, <1>t DEF ClockTypes
      <4>3. CASE j # k
        BY <2>1, <2>3, <3>1, <4>3, <1>t DEF ClockInv, ClockTypes, Viewed
      <4> QED BY <4>2, <4>3
    <3> QED BY <2>1, <3>1 DEF ClockInv, Viewed
  <2>7. Waiting' /\ Counted' /\ RealMatches'
    BY <1>f, <2>1 DEF ClockInv, Counted, Waiting, RealMatches, Running
  <2> QED BY <2>2, <2>4, <2>5, <2>6, <2>7 DEF ClockInv
<1>10. CASE Tick
  <2>1. /\ clock' \in Clock /\ clock'.real = clock.real /\ clock'.rate = clock.rate
        /\ clock'.pauses = clock.pauses /\ clock'.halted = clock.halted
        /\ clock'.time = IF Running THEN clock.time + clock.rate ELSE clock.time
    BY <1>10, <1>t DEF Tick, Clock
  <2>2. sys' = sys + 2 /\ UNCHANGED <<debug, made, seen, runs, snap, call, done, owes, orderly>>
    BY <1>10 DEF Tick
  <2>3. RealMatches'
    BY <2>1, <2>2, <1>t DEF ClockInv, RealMatches, Running
  <2>4. ClockTypes'
    BY <2>1, <2>2, <1>t DEF ClockTypes
  <2>5. Timing'
    <3>1. \A i \in 1..Len(made) : made[i] \in Nat /\ made[i] <= sys
      BY <1>t, ElementOfSeq DEF ClockTypes, ClockInv, Timing
    <3>2. \A i \in 1..Len(made') : made'[i] <= sys'
      BY <1>t, <2>2, <3>1
    <3>3. \A k \in Components : Awake(k, sys)'
      BY <1>10, <2>2 DEF Tick, Awake
    <3> QED BY <2>2, <3>2, <3>3 DEF ClockInv, Timing
  <2>6. Counted'
    BY <1>f, <2>1, <2>2 DEF Counted
  <2> QED BY <2>1, <2>2, <2>3, <2>4, <2>5, <2>6 DEF ClockInv, Waiting, Viewed, ChangesArrive
<1>11. CASE Debug
  <2>0. UNCHANGED <<sys, seen, runs, snap, call, done, owes, orderly>> /\ debug' \in BOOLEAN
    BY <1>11, <1>t DEF Debug, ClockTypes
  <2>1. CASE clock.halted = Halts
    <3>1. UNCHANGED <<clock, made>>
      BY <1>11, <2>1 DEF Debug
    <3>2. Counted'
      BY <1>f, <2>0, <3>1 DEF Counted
    <3> QED BY <2>0, <3>1, <3>2 DEF ClockInv, ClockTypes, Timing, Awake, Waiting, Viewed,
                                    RealMatches, ChangesArrive, Running
  <2>2. CASE clock.halted # Halts
    <3> DEFINE new == [clock EXCEPT !.halted = Halts, !.real = @ /\ ~Halts]
    <3>1. Alter(new)
      BY <1>11, <2>2 DEF Debug
    <3>2. /\ new \in Clock /\ new.rate = clock.rate /\ new.time = clock.time
          /\ new.pauses = clock.pauses /\ (new.real => clock.real /\ ~new.halted)
      BY <1>t DEF Clock, Halts
    <3> HIDE DEF new
    <3>3. /\ made' \in Seq(Nat) /\ Len(made') = Len(made) + 1 /\ Len(made) \in Nat
          /\ clock' = new /\ Timing'
      BY <2>0, <3>1, <1>t, AlterKeeps DEF ClockInv
    <3>4. ClockTypes'
      BY <2>0, <3>2, <3>3, <1>t DEF ClockTypes
    <3>5. Waiting'
      BY <2>0, <3>3, <1>t DEF ClockInv, Waiting, ClockTypes
    <3>6. RealMatches'
      <4>1. /\ clock'.rate = clock.rate /\ clock'.time = clock.time
            /\ clock'.pauses = clock.pauses /\ (clock'.real => clock.real /\ ~clock'.halted)
        BY <3>2, <3>3
      <4> QED BY <2>0, <4>1 DEF ClockInv, RealMatches, Running
    <3>7. Counted' /\ Viewed' /\ ChangesArrive'
      BY <1>f, <2>0, <3>2, <3>3 DEF ClockInv, Counted, Viewed, ChangesArrive
    <3> QED BY <3>3, <3>4, <3>5, <3>6, <3>7 DEF ClockInv
  <2> QED BY <2>1, <2>2
<1>12. CASE UNCHANGED clockVars
  <2>1. Counted'
    BY <1>12, <1>f DEF clockVars, Counted
  <2> QED BY <1>12, <2>1 DEF clockVars, ClockInv, ClockTypes, Timing, Awake, Waiting, Viewed,
                             RealMatches, ChangesArrive, Running
<1> QED BY <1>1, <1>2, <1>3, <1>4, <1>5, <1>6, <1>7, <1>8, <1>9, <1>10, <1>11, <1>12
        DEF ClockNext, ClientStep

LEMMA Invariance == ClockSpec => []ClockInv
<1>1. ClockInv /\ [ClockNext]_clockVars => ClockInv'
  BY ClockSteps
<1> QED BY ClockStarts, <1>1, PTL DEF ClockSpec

(* The real flag of the project's clock is right: while it is set, the     *)
(* clock runs and agrees with the system's (esp_clock_get_real).           *)
THEOREM RealIsReal == ClockSpec => []RealMatches
BY Invariance, PTL DEF ClockInv

(* A call that changed the clock has waited long enough when it returns:   *)
(* all components go by the change, whatever the maximum sleep time and    *)
(* however many changes others make meanwhile (esp_clock_get_max_sleep).   *)
THEOREM ChangesHaveArrived == ClockSpec => []ChangesArrive
BY Invariance, PTL DEF ClockInv

(* What a client has paused stays paused, for every component and in the   *)
(* client's copy, until it resumes or the clock is reset, unless a client  *)
(* resumes what it has not paused (esp_clock_pause, esp_clock_resume).     *)
THEOREM PausesHold == ClockSpec => []PauseHolds
<1>1. ClockInv => PauseHolds
  BY DEF ClockInv, Viewed, ChangesArrive, PauseHolds
<1> QED BY <1>1, Invariance, PTL

-----------------------------------------------------------------------------
(* Connections: the events that are chosen of others.                      *)

(* Only, a step for each event. *)
Picks(A, W, s) ==
    \E f \in [0 .. Len(s) -> Seq(A)] :
        /\ Only(s, W) = f[Len(s)] /\ f[0] = <<>>
        /\ \A i \in 1 .. Len(s) :
              f[i] = IF s[i] \in W THEN Append(f[i - 1], s[i]) ELSE f[i - 1]

LEMMA OnlySteps ==
    ASSUME NEW A, NEW W, NEW s \in Seq(A)
    PROVE  Picks(A, W, s)
<1>. DEFINE n == Len(s)
            V == Seq(A)
            G == [p \in V \X Nat |-> IF p[2] + 1 \in 1 .. n /\ s[p[2] + 1] \in W
                                       THEN Append(p[1], s[p[2] + 1]) ELSE p[1]]
            Is(f) == f = [i \in 0 .. n |->
                            IF i = 0 THEN <<>>
                            ELSE IF s[i] \in W THEN Append(f[i - 1], s[i]) ELSE f[i - 1]]
<1>1. n \in Nat /\ \A i \in 1 .. n : s[i] \in A BY ElementOfSeq
<1>2. <<>> \in V BY EmptySeq
<1>. HIDE DEF n
<1>3. G \in [V \X Nat -> V]
  <2>1. ASSUME NEW p \in V \X Nat, p[2] + 1 \in 1 .. n
        PROVE Append(p[1], s[p[2] + 1]) \in V
    <3>1. p[1] \in V /\ s[p[2] + 1] \in A BY <1>1, <2>1
    <3>. QED BY <3>1, AppendProperties
  <2>. QED BY <2>1
<1>a. ASSUME NEW v \in V, NEW k \in Nat, k + 1 \in 1 .. n
      PROVE  G[<<v, k>>] = IF s[k + 1] \in W THEN Append(v, s[k + 1]) ELSE v
  <2>. HIDE DEF V
  <2>. QED BY <1>a
<1>4. PICK g \in [Nat -> V] : g[0] = <<>> /\ \A k \in Nat : g[k + 1] = G[<<g[k], k>>]
  <2>. DEFINE v0 == <<>>
  <2>1. v0 \in V BY <1>2
  <2>. HIDE DEF G, V, v0
  <2>2. Recurs(V, v0, G) BY <1>3, <2>1, Recursion
  <2>. QED BY <2>2 DEF v0, Recurs
<1>5. ASSUME NEW i \in 1 .. n
      PROVE  g[i] = IF s[i] \in W THEN Append(g[i - 1], s[i]) ELSE g[i - 1]
  <2>1. i - 1 \in Nat /\ (i - 1) + 1 = i BY <1>1
  <2>2. PICK v \in V, k \in Nat : v = g[i - 1] /\ k = i - 1 BY <2>1
  <2>. HIDE DEF G, V
  <2>3. g[k + 1] = G[<<v, k>>] BY <1>4, <2>2
  <2>4. k + 1 = i BY <2>1, <2>2
  <2>5. G[<<v, k>>] = IF s[k + 1] \in W THEN Append(v, s[k + 1]) ELSE v BY <1>a, <2>4
  <2>. QED BY ONLY <2>2, <2>3, <2>4, <2>5
<1>. HIDE DEF G
<1>. DEFINE h == [i \in 0 .. n |-> g[i]]
<1>6. Is(h)
  <2>1. ASSUME NEW i \in 0 .. n
        PROVE  h[i] = IF i = 0 THEN <<>>
                      ELSE IF s[i] \in W THEN Append(h[i - 1], s[i]) ELSE h[i - 1]
    <3>1. CASE i = 0 BY <1>4, <3>1
    <3>2. CASE i # 0
      <4>1. i \in 1 .. n /\ i - 1 \in 0 .. n BY <1>1, <3>2
      <4>2. h[i] = g[i] /\ h[i - 1] = g[i - 1] BY <4>1
      <4>. QED BY <1>5, <3>2, <4>1, <4>2
    <3>. QED BY <3>1, <3>2
  <2>2. h = [i \in 0 .. n |-> h[i]] OBVIOUS
  <2>. HIDE DEF h
  <2>. QED BY <2>1, <2>2
<1>. DEFINE f == CHOOSE f : Is(f)
<1>7. Is(f)
  <2>. HIDE DEF h, Is
  <2>. QED BY <1>6
<1>8. Only(s, W) = f[n] BY DEF Only, n
<1>. HIDE DEF f
<1>9. /\ f[0] = <<>>
      /\ \A i \in 1 .. n : f[i] = IF s[i] \in W THEN Append(f[i - 1], s[i]) ELSE f[i - 1]
      /\ f = [i \in 0 .. n |-> f[i]]
  <2>1. f[0] = <<>> BY <1>1, <1>7
  <2>2. f = [i \in 0 .. n |-> f[i]] BY <1>7
  <2>3. ASSUME NEW i \in 1 .. n
        PROVE  f[i] = IF s[i] \in W THEN Append(f[i - 1], s[i]) ELSE f[i - 1]
    <3>1. i \in 0 .. n /\ i # 0 BY <1>1
    <3>. QED BY <1>7, <3>1
  <2>. HIDE DEF Is
  <2>. QED BY <2>1, <2>2, <2>3
<1>. HIDE DEF Is
<1>10. \A i \in 0 .. n : f[i] \in V
  <2>. DEFINE Typed == {k \in Nat : k \in 0 .. n => f[k] \in V}
  <2>1. 0 \in Typed BY <1>2, <1>9
  <2>2. ASSUME NEW k \in Nat, k \in Typed PROVE k + 1 \in Typed
    <3>1. CASE k + 1 \in 0 .. n
      <4>1. k + 1 \in 1 .. n /\ k \in 0 .. n /\ (k + 1) - 1 = k BY <1>1, <3>1
      <4>2. f[k] \in V /\ s[k + 1] \in A BY <1>1, <2>2, <4>1
      <4>3. Append(f[k], s[k + 1]) \in V BY <4>2, AppendProperties
      <4>4. f[k + 1] = IF s[k + 1] \in W THEN Append(f[k], s[k + 1]) ELSE f[k]
            BY <1>9, <4>1
      <4>. HIDE DEF V
      <4>. QED BY <4>2, <4>3, <4>4
    <3>2. CASE k + 1 \notin 0 .. n BY <3>2
    <3>. QED BY <3>1, <3>2
  <2>3. Nat \subseteq Typed
    <3>. HIDE DEF Typed
    <3>. QED BY <2>1, <2>2, SetInduction
  <2>. QED BY <1>1, <2>3
<1>11. f \in [0 .. n -> Seq(A)] BY <1>9, <1>10
<1>. QED BY <1>8, <1>9, <1>11 DEF n, Picks

LEMMA OnlyEmpty == ASSUME NEW W PROVE Only(<<>>, W) = <<>>
<1>1. <<>> \in Seq({}) /\ Len(<<>>) = 0 BY EmptySeq
<1>2. Picks({}, W, <<>>) BY <1>1, OnlySteps
<1>. QED BY <1>1, <1>2 DEF Picks

LEMMA OnlyType ==
    ASSUME NEW A, NEW W, NEW s \in Seq(A)
    PROVE  Only(s, W) \in Seq(A)
<1>1. Picks(A, W, s) BY OnlySteps
<1>2. Len(s) \in Nat BY LenProperties
<1>. QED BY <1>1, <1>2 DEF Picks

LEMMA OnlyAppend ==
    ASSUME NEW A, NEW W, NEW s \in Seq(A), NEW x \in A
    PROVE  Only(Append(s, x), W) = IF x \in W THEN Append(Only(s, W), x) ELSE Only(s, W)
<1>. DEFINE n == Len(s)
            t == Append(s, x)
<1>1. /\ t \in Seq(A) /\ Len(t) = n + 1 /\ n \in Nat /\ t[n + 1] = x
      /\ \A i \in 1 .. n : t[i] = s[i]
      BY AppendProperties, LenProperties
<1>. HIDE DEF n, t
<1>2. PICK f \in [0 .. n -> Seq(A)] :
         /\ Only(s, W) = f[n] /\ f[0] = <<>>
         /\ \A i \in 1 .. n : f[i] = IF s[i] \in W THEN Append(f[i - 1], s[i]) ELSE f[i - 1]
  <2>1. Picks(A, W, s) BY OnlySteps
  <2>. QED BY <2>1 DEF Picks, n
<1>3. PICK g \in [0 .. n + 1 -> Seq(A)] :
         /\ Only(t, W) = g[n + 1] /\ g[0] = <<>>
         /\ \A i \in 1 .. n + 1 : g[i] = IF t[i] \in W THEN Append(g[i - 1], t[i]) ELSE g[i - 1]
  <2>1. Picks(A, W, t) BY <1>1, OnlySteps
  <2>. QED BY <1>1, <2>1 DEF Picks
<1>4. f[n] = g[n]
  <2>. DEFINE Same == {k \in Nat : k \in 0 .. n => f[k] = g[k]}
  <2>1. 0 \in Same BY <1>2, <1>3
  <2>2. ASSUME NEW k \in Nat, k \in Same PROVE k + 1 \in Same
    <3>1. CASE k + 1 \in 0 .. n
      <4>1. k + 1 \in 1 .. n /\ k + 1 \in 1 .. n + 1 /\ k \in 0 .. n /\ (k + 1) - 1 = k
            BY <1>1, <3>1
      <4>2. f[k] = g[k] /\ s[k + 1] = t[k + 1] BY <1>1, <2>2, <4>1
      <4>3. f[k + 1] = IF s[k + 1] \in W THEN Append(f[k], s[k + 1]) ELSE f[k] BY <1>2, <4>1
      <4>4. g[k + 1] = IF t[k + 1] \in W THEN Append(g[k], t[k + 1]) ELSE g[k] BY <1>3, <4>1
      <4>. QED BY <4>2, <4>3, <4>4
    <3>2. CASE k + 1 \notin 0 .. n BY <3>2
    <3>. QED BY <3>1, <3>2
  <2>3. Nat \subseteq Same
    <3>. HIDE DEF Same
    <3>. QED BY <2>1, <2>2, SetInduction
  <2>. QED BY <1>1, <2>3
<1>5. n + 1 \in 1 .. n + 1 /\ (n + 1) - 1 = n BY <1>1
<1>6. g[n + 1] = IF x \in W THEN Append(g[n], x) ELSE g[n] BY <1>1, <1>3, <1>5
<1>. QED BY <1>2, <1>3, <1>4, <1>6 DEF t

LEMMA OnlyConcat ==
    ASSUME NEW A, NEW W, NEW s \in Seq(A), NEW t \in Seq(A)
    PROVE  Only(s \o t, W) = Only(s, W) \o Only(t, W)
<1>. DEFINE P == {u \in Seq(A) : Only(s \o u, W) = Only(s, W) \o Only(u, W)}
<1>0. \A u \in Seq(A) : Only(u, W) \in Seq(A) BY OnlyType
<1>1. <<>> \in P
  <2>1. s \o <<>> = s /\ Only(s, W) \o <<>> = Only(s, W) BY <1>0, ConcatEmptySeq
  <2>. QED BY <2>1, OnlyEmpty, EmptySeq
<1>2. ASSUME NEW u \in Seq(A), NEW x \in A, u \in P PROVE Append(u, x) \in P
  <2>1. s \o u \in Seq(A) /\ Append(u, x) \in Seq(A) BY ConcatProperties, AppendProperties
  <2>2. s \o Append(u, x) = Append(s \o u, x) BY AppendOfConcat
  <2>3. PICK w \in Seq(A) : w = s \o u BY <2>1
  <2>4. Only(Append(w, x), W) = IF x \in W THEN Append(Only(w, W), x) ELSE Only(w, W)
        BY OnlyAppend
  <2>5. Only(Append(u, x), W) = IF x \in W THEN Append(Only(u, W), x) ELSE Only(u, W)
        BY OnlyAppend
  <2>6. Only(w, W) = Only(s, W) \o Only(u, W) BY <1>2, <2>3
  <2>7. PICK a \in Seq(A), b \in Seq(A) : a = Only(s, W) /\ b = Only(u, W) BY <1>0
  <2>8. a \o Append(b, x) = Append(a \o b, x) BY AppendOfConcat
  <2>9. Only(Append(w, x), W) = Only(s, W) \o Only(Append(u, x), W)
    <3>1. CASE x \in W BY ONLY <3>1, <2>4, <2>5, <2>6, <2>7, <2>8
    <3>2. CASE x \notin W BY ONLY <3>2, <2>4, <2>5, <2>6, <2>7
    <3>. QED BY ONLY <3>1, <3>2
  <2>. QED BY <2>1, <2>2, <2>3, <2>9
<1>3. Seq(A) \subseteq P
  <2>. HIDE DEF P
  <2>. QED BY <1>1, <1>2, SeqInduction
<1>. QED BY <1>3

LEMMA OnlyOne ==
    ASSUME NEW W, NEW x
    PROVE  Only(<<x>>, W) = IF x \in W THEN <<x>> ELSE <<>>
<1>1. <<>> \in Seq({x}) /\ x \in {x} /\ Append(<<>>, x) = <<x>> BY EmptySeq
<1>2. Only(Append(<<>>, x), W) = IF x \in W THEN Append(Only(<<>>, W), x) ELSE Only(<<>>, W)
      BY <1>1, OnlyAppend
<1>. QED BY <1>1, <1>2, OnlyEmpty

(* What is chosen of what has been chosen already. *)
LEMMA OnlyTwice ==
    ASSUME NEW A, NEW W, NEW R, R \subseteq W, NEW s \in Seq(A)
    PROVE  Only(Only(s, W), R) = Only(s, R)
<1>. DEFINE P == {u \in Seq(A) : Only(Only(u, W), R) = Only(u, R)}
<1>1. <<>> \in P BY OnlyEmpty, EmptySeq
<1>2. ASSUME NEW u \in Seq(A), NEW x \in A, u \in P PROVE Append(u, x) \in P
  <2>1. Append(u, x) \in Seq(A) BY AppendProperties
  <2>2. PICK v \in Seq(A) : v = Only(u, W) BY OnlyType
  <2>3. Only(Append(u, x), W) = IF x \in W THEN Append(v, x) ELSE v BY <2>2, OnlyAppend
  <2>4. Only(Append(u, x), R) = IF x \in R THEN Append(Only(u, R), x) ELSE Only(u, R)
        BY OnlyAppend
  <2>5. Only(Append(v, x), R) = IF x \in R THEN Append(Only(v, R), x) ELSE Only(v, R)
        BY OnlyAppend
  <2>6. Only(v, R) = Only(u, R) BY <1>2, <2>2
  <2>7. Only(Only(Append(u, x), W), R) = Only(Append(u, x), R)
    <3>1. CASE x \in W BY ONLY <3>1, <2>3, <2>4, <2>5, <2>6
    <3>2. CASE x \notin W
      <4>1. x \notin R BY <3>2
      <4>. QED BY ONLY <4>1, <3>2, <2>3, <2>4, <2>6
    <3>. QED BY <3>1, <3>2
  <2>. QED BY <2>1, <2>7
<1>3. Seq(A) \subseteq P
  <2>. HIDE DEF P
  <2>. QED BY <1>1, <1>2, SeqInduction
<1>. QED BY <1>3

LEMMA OnlyAll ==
    ASSUME NEW W, NEW s \in Seq(W)
    PROVE  Only(s, W) = s
<1>. DEFINE P == {u \in Seq(W) : Only(u, W) = u}
<1>1. <<>> \in P BY OnlyEmpty, EmptySeq
<1>2. ASSUME NEW u \in Seq(W), NEW x \in W, u \in P PROVE Append(u, x) \in P
  <2>1. Append(u, x) \in Seq(W) BY AppendProperties
  <2>2. Only(Append(u, x), W) = Append(Only(u, W), x) BY OnlyAppend
  <2>. QED BY <1>2, <2>1, <2>2
<1>3. Seq(W) \subseteq P
  <2>. HIDE DEF P
  <2>. QED BY <1>1, <1>2, SeqInduction
<1>. QED BY <1>3

LEMMA OnlyIn ==
    ASSUME NEW A, NEW W, NEW s \in Seq(A)
    PROVE  Only(s, W) \in Seq(W)
<1>. DEFINE P == {u \in Seq(A) : Only(u, W) \in Seq(W)}
<1>1. <<>> \in P BY OnlyEmpty, EmptySeq
<1>2. ASSUME NEW u \in Seq(A), NEW x \in A, u \in P PROVE Append(u, x) \in P
  <2>1. Append(u, x) \in Seq(A) BY AppendProperties
  <2>2. Only(Append(u, x), W) = IF x \in W THEN Append(Only(u, W), x) ELSE Only(u, W)
        BY OnlyAppend
  <2>3. PICK v \in Seq(W) : v = Only(u, W) BY <1>2
  <2>4. x \in W => Append(v, x) \in Seq(W) BY AppendProperties
  <2>5. Only(Append(u, x), W) \in Seq(W) BY ONLY <2>2, <2>3, <2>4
  <2>. QED BY <2>1, <2>5
<1>3. Seq(A) \subseteq P
  <2>. HIDE DEF P
  <2>. QED BY <1>1, <1>2, SeqInduction
<1>. QED BY <1>3

-----------------------------------------------------------------------------
(* What sequences contain, and how often. *)
LEMMA ContainsConcat ==
    ASSUME NEW A, NEW s \in Seq(A), NEW t \in Seq(A), NEW x
    PROVE  Contains(s \o t, x) <=> Contains(s, x) \/ Contains(t, x)
<1>1. /\ Len(s) \in Nat /\ Len(t) \in Nat /\ Len(s \o t) = Len(s) + Len(t)
      /\ \A i \in 1 .. Len(s) + Len(t) :
            (s \o t)[i] = IF i <= Len(s) THEN s[i] ELSE t[i - Len(s)]
      BY ConcatProperties, LenProperties
<1>2. ASSUME Contains(s \o t, x) PROVE Contains(s, x) \/ Contains(t, x)
  <2>1. PICK i \in 1 .. Len(s) + Len(t) : (s \o t)[i] = x BY <1>1, <1>2 DEF Contains
  <2>2. CASE i <= Len(s)
    <3>1. i \in 1 .. Len(s) /\ s[i] = x BY <1>1, <2>1, <2>2
    <3>. QED BY <3>1 DEF Contains
  <2>3. CASE i > Len(s)
    <3>1. i - Len(s) \in 1 .. Len(t) /\ t[i - Len(s)] = x BY <1>1, <2>1, <2>3
    <3>. QED BY <3>1 DEF Contains
  <2>. QED BY <1>1, <2>2, <2>3
<1>3. ASSUME Contains(s, x) PROVE Contains(s \o t, x)
  <2>1. PICK i \in 1 .. Len(s) : s[i] = x BY <1>3 DEF Contains
  <2>2. i \in 1 .. Len(s) + Len(t) /\ (s \o t)[i] = x BY <1>1, <2>1
  <2>. QED BY <1>1, <2>2 DEF Contains
<1>4. ASSUME Contains(t, x) PROVE Contains(s \o t, x)
  <2>1. PICK i \in 1 .. Len(t) : t[i] = x BY <1>4 DEF Contains
  <2>2. i + Len(s) \in 1 .. Len(s) + Len(t) /\ (s \o t)[i + Len(s)] = x
    <3>1. i + Len(s) \in 1 .. Len(s) + Len(t) /\ ~(i + Len(s) <= Len(s))
          /\ (i + Len(s)) - Len(s) = i BY <1>1
    <3>. QED BY <1>1, <2>1, <3>1
  <2>. QED BY <1>1, <2>2 DEF Contains
<1>. QED BY <1>2, <1>3, <1>4

LEMMA ContainsOne ==
    ASSUME NEW x, NEW y
    PROVE  ~Contains(<<>>, x) /\ (Contains(<<y>>, x) <=> y = x)
<1>1. Len(<<>>) = 0 /\ Len(<<y>>) = 1 /\ <<y>>[1] = y OBVIOUS
<1>. QED BY <1>1 DEF Contains

Once(s, x) == \A i, j \in DOMAIN s : s[i] = x /\ s[j] = x => i = j

LEMMA OnceOne ==
    ASSUME NEW x, NEW y
    PROVE  Once(<<>>, x) /\ Once(<<y>>, x)
<1>1. DOMAIN <<>> = {} /\ DOMAIN <<y>> = {1}
  <2>1. <<>> \in Seq({y}) /\ <<y>> \in Seq({y}) /\ Len(<<>>) = 0 /\ Len(<<y>>) = 1 OBVIOUS
  <2>. QED BY <2>1, LenProperties
<1>. QED BY <1>1 DEF Once

LEMMA OnceConcat ==
    ASSUME NEW A, NEW s \in Seq(A), NEW t \in Seq(A), NEW x,
           Once(s, x), Once(t, x), ~(Contains(s, x) /\ Contains(t, x))
    PROVE  Once(s \o t, x)
<1>1. /\ Len(s) \in Nat /\ Len(t) \in Nat /\ Len(s \o t) = Len(s) + Len(t)
      /\ s \o t \in Seq(A)
      /\ \A i \in 1 .. Len(s) + Len(t) :
            (s \o t)[i] = IF i <= Len(s) THEN s[i] ELSE t[i - Len(s)]
      BY ConcatProperties, LenProperties
<1>2. /\ DOMAIN s = 1 .. Len(s) /\ DOMAIN t = 1 .. Len(t)
      /\ DOMAIN (s \o t) = 1 .. Len(s) + Len(t)
      BY <1>1, LenProperties
<1>3. ASSUME NEW i \in 1 .. Len(s) + Len(t), (s \o t)[i] = x
      PROVE  \/ i \in DOMAIN s /\ s[i] = x /\ Contains(s, x)
             \/ /\ i > Len(s) /\ i - Len(s) \in DOMAIN t /\ t[i - Len(s)] = x
                /\ Contains(t, x)
  <2>1. CASE i <= Len(s)
    <3>1. i \in 1 .. Len(s) /\ s[i] = x BY <1>1, <1>3, <2>1
    <3>. QED BY <1>2, <3>1 DEF Contains
  <2>2. CASE i > Len(s)
    <3>1. i - Len(s) \in 1 .. Len(t) /\ t[i - Len(s)] = x BY <1>1, <1>3, <2>2
    <3>. QED BY <1>2, <2>2, <3>1 DEF Contains
  <2>. QED BY <1>1, <2>1, <2>2
<1>4. ASSUME NEW i \in 1 .. Len(s) + Len(t), NEW j \in 1 .. Len(s) + Len(t),
             (s \o t)[i] = x, (s \o t)[j] = x
      PROVE  i = j
  <2>1. CASE Contains(s, x)
    <3>1. i \in DOMAIN s /\ s[i] = x /\ j \in DOMAIN s /\ s[j] = x BY <1>3, <1>4, <2>1
    <3>. QED BY <3>1 DEF Once
  <2>2. CASE ~Contains(s, x)
    <3>1. /\ i - Len(s) \in DOMAIN t /\ t[i - Len(s)] = x
          /\ j - Len(s) \in DOMAIN t /\ t[j - Len(s)] = x BY <1>3, <1>4, <2>2
    <3>2. i - Len(s) = j - Len(s) BY <3>1 DEF Once
    <3>. QED BY <1>1, <3>2
  <2>. QED BY <2>1, <2>2
<1>. QED BY <1>2, <1>4 DEF Once

(* The first of a sequence goes. *)
LEMMA ContainsTail ==
    ASSUME NEW A, NEW s \in Seq(A), s # <<>>, NEW x
    PROVE  /\ Contains(s, x) <=> Head(s) = x \/ Contains(Tail(s), x)
           /\ Once(s, x) => Once(Tail(s), x) /\ ~(Head(s) = x /\ Contains(Tail(s), x))
<1>1. /\ Head(s) \in A /\ Tail(s) \in Seq(A) /\ Len(Tail(s)) = Len(s) - 1 /\ Head(s) = s[1]
      /\ \A i \in 1 .. Len(Tail(s)) : Tail(s)[i] = s[i + 1]
      BY HeadTailProperties, EmptySeq
<1>2. Len(s) \in Nat /\ Len(s) > 0 BY EmptySeq, LenProperties
<1>3. DOMAIN s = 1 .. Len(s) /\ DOMAIN Tail(s) = 1 .. Len(s) - 1 BY <1>1, LenProperties
<1>4. \A i \in 1 .. Len(s) - 1 : i + 1 \in 1 .. Len(s) /\ i + 1 # 1 /\ Tail(s)[i] = s[i + 1]
      BY <1>1, <1>2
<1>5. \A i \in 1 .. Len(s) : i # 1 => i - 1 \in 1 .. Len(s) - 1 /\ (i - 1) + 1 = i BY <1>2
<1>6. 1 \in 1 .. Len(s) BY <1>2
<1>7. Contains(s, x) => Head(s) = x \/ Contains(Tail(s), x)
  <2>1. SUFFICES ASSUME NEW i \in 1 .. Len(s), s[i] = x, i # 1
                 PROVE  Contains(Tail(s), x)
        BY <1>1 DEF Contains
  <2>2. i - 1 \in 1 .. Len(s) - 1 /\ Tail(s)[i - 1] = x BY <1>4, <1>5, <2>1
  <2>. QED BY <1>1, <2>2 DEF Contains
<1>8. Head(s) = x \/ Contains(Tail(s), x) => Contains(s, x)
      BY <1>1, <1>4, <1>6 DEF Contains
<1>9. ASSUME Once(s, x) PROVE Once(Tail(s), x)
  <2>1. SUFFICES ASSUME NEW i \in 1 .. Len(s) - 1, NEW j \in 1 .. Len(s) - 1,
                        Tail(s)[i] = x, Tail(s)[j] = x
                 PROVE  i = j
        BY <1>3 DEF Once
  <2>2. i + 1 = j + 1 BY <1>3, <1>4, <1>9, <2>1 DEF Once
  <2>. QED BY <1>2, <2>2
<1>10. ASSUME Once(s, x), Head(s) = x, Contains(Tail(s), x) PROVE FALSE
  <2>1. PICK i \in 1 .. Len(s) - 1 : Tail(s)[i] = x BY <1>1, <1>10 DEF Contains
  <2>. QED BY <1>1, <1>3, <1>4, <1>6, <1>10, <2>1 DEF Once
<1>. QED BY <1>7, <1>8, <1>9, <1>10

(* Counting, and not. *)
LEMMA CountOnce ==
    ASSUME NEW A, NEW s \in Seq(A), NEW x
    PROVE  /\ Count(s, x) \in Nat
           /\ Count(s, x) = 0 <=> ~Contains(s, x)
           /\ Once(s, x) => Count(s, x) <= 1
<1>. DEFINE C == {i \in DOMAIN s : s[i] = x}
<1>1. DOMAIN s = 1 .. Len(s) /\ Len(s) \in Nat BY LenProperties
<1>2. IsFiniteSet(1 .. Len(s)) BY <1>1, FS_Interval
<1>3. IsFiniteSet(C) BY <1>1, <1>2, FS_Subset
<1>4. Cardinality(C) \in Nat /\ (Cardinality(C) = 0 <=> C = {})
      BY <1>3, FS_CardinalityType, FS_EmptySet
<1>5. C = {} <=> ~Contains(s, x) BY <1>1 DEF Contains
<1>6. ASSUME Once(s, x) PROVE Cardinality(C) <= 1
  <2>1. CASE C = {} BY <1>4, <2>1
  <2>2. CASE C # {}
    <3>1. PICK i \in C : TRUE BY <2>2
    <3>2. C = {i} BY <1>6, <3>1 DEF Once
    <3>3. Cardinality({i}) = 1 BY FS_Singleton
    <3>4. Cardinality(C) = Cardinality({i}) BY <3>2
    <3>. HIDE DEF C
    <3>. QED BY <3>3, <3>4
  <2>. QED BY <2>1, <2>2
<1>7. Count(s, x) = Cardinality(C) BY DEF Count
<1>. HIDE DEF C
<1>. HIDE DEF Count
<1>8. PICK n \in Nat : n = Count(s, x) /\ n = Cardinality(C) BY <1>4, <1>7
<1>9. n = 0 <=> ~Contains(s, x) BY <1>4, <1>5, <1>8
<1>10. Once(s, x) => n <= 1 BY <1>6, <1>8
<1>. QED BY <1>8, <1>9, <1>10

States    == {"new", "connected", "stale", "disconnected", "closed"}
CallNames == {"connect", "disconnect", "close", "publish", "subscribe", "unsubscribe"}

(* The state c of the connection is what the events s tell, which follow   *)
(* the protocol; only the last of all may be CLOSED.                       *)
Telling(c, s) ==
    LET told == StateEvents(s)
    IN  /\ c = IF told = <<>> THEN "new" ELSE Tells[Last(told)]
        /\ told # <<>> => told[1] \in {"CONNECTED", "CLOSED"}
        /\ \A i \in 1 .. Len(told) - 1 : told[i + 1] \in Follows[told[i]]
        /\ \A i \in 1 .. Len(s) - 1 : s[i] # "CLOSED"
        /\ c # "closed" => ~Contains(s, "CLOSED")


(* The calls q: the last may be to close. *)
CallsOf(k, c, q) ==
    /\ c = "closed" => q = <<>>
    /\ \A i \in 1 .. Len(q) - 1 : q[i] # "close"
    /\ Contains(q, "publish") => k = "publisher"
    /\ Contains(q, "subscribe") \/ Contains(q, "unsubscribe") => k = "subscriber"

(* There is one READY pending or one publish called, and before the entity *)
(* has connected neither.                                                  *)
OneTurn(c, p, q) ==
    /\ Once(p, "READY") /\ Once(q, "publish")
    /\ Contains(p, "READY") => ~Contains(q, "publish")
    /\ c = "new" => ~Contains(p, "READY") /\ ~Contains(q, "publish")

(* An entity of kind k that is told of events T, in state c, with events s *)
(* raised, p pending and g delivered, and calls q.                         *)
Sound(k, T, c, s, p, g, q) ==
    /\ c \in States /\ q \in Seq(CallNames)
    /\ s \in Seq(EventsOf(k)) /\ p \in Seq(EventsOf(k)) /\ g \in Seq(EventsOf(k))
    /\ g \o p = Only(s, T)
    /\ c = "stale" => k \in {"server", "project"}
    /\ Telling(c, s) /\ CallsOf(k, c, q) /\ OneTurn(c, p, q)

ConnInv ==
    /\ setup \in Setups /\ test \in Tests
    /\ DOMAIN conn = Entities /\ DOMAIN calls = Entities /\ DOMAIN owed = Entities
    /\ DOMAIN raised = Entities /\ DOMAIN pending = Entities /\ DOMAIN got = Entities
    /\ \A e \in Entities :
          /\ owed[e] \subseteq IF Kind(e) = "server" THEN Lists ELSE {}
          /\ Sound(Kind(e), Chosen(e), conn[e], raised[e], pending[e], got[e], calls[e])

-----------------------------------------------------------------------------
(* The kinds of entities, and events they have. *)
LEMMA KindsOfEvents ==
    /\ DOMAIN Codes = {"server", "project", "publisher", "subscriber"}
    /\ \A k \in DOMAIN Codes :
          /\ {"CONNECTED", "DISCONNECTED", "CLOSED", "ERROR"} \subseteq EventsOf(k)
          /\ k \in {"server", "project"} => {"STALE", "UPTODATE"} \subseteq EventsOf(k)
          /\ "READY" \in EventsOf(k) <=> k = "publisher"
          /\ k = "subscriber" => {"SUBSCRIBED", "UNSUBSCRIBED"} \subseteq EventsOf(k)
          /\ k = "server" => Lists \subseteq EventsOf(k)
<1>1. DOMAIN Codes = {"server", "project", "publisher", "subscriber"} BY DEF Codes
<1>2. EventsOf("server") = {"CONNECTED", "MANAGER_LIST_CHANGE", "CONTROLLER_LIST_CHANGE",
         "WORKSPACE_LIST_CHANGE", "APPLICATION_LIST_CHANGE", "DISCONNECTED", "CLOSED",
         "ERROR", "STALE", "UPTODATE"}
      BY DEF EventsOf, Codes, ServerCodes
<1>3. EventsOf("project") =
         {"CONNECTED", "DISCONNECTED", "CLOSED", "ERROR", "STALE", "UPTODATE"}
      BY DEF EventsOf, Codes, ProjectCodes
<1>4. EventsOf("publisher") = {"CONNECTED", "DISCONNECTED", "CLOSED", "READY", "ERROR"}
      BY DEF EventsOf, Codes, PublisherCodes
<1>5. EventsOf("subscriber") = {"CONNECTED", "SUBSCRIBED", "UNSUBSCRIBED", "DISCONNECTED",
         "CLOSED", "DATA", "SYNC_START", "SYNC_END", "DATA_INVALID", "STREAM_EXIT",
         "DATA_LOST", "ERROR"}
      BY DEF EventsOf, Codes, SubscriberCodes
<1>. QED BY <1>1, <1>2, <1>3, <1>4, <1>5 DEF Lists

(* No code is zero. *)
LEMMA CodesHaveBits ==
    ASSUME NEW k \in DOMAIN Codes, NEW x \in EventsOf(k)
    PROVE  Codes[k][x] # {}
<1>1. k \in {"server", "project", "publisher", "subscriber"} BY KindsOfEvents
<1>2. CASE k = "server" BY <1>2 DEF EventsOf, Codes, ServerCodes
<1>3. CASE k = "project" BY <1>3 DEF EventsOf, Codes, ProjectCodes
<1>4. CASE k = "publisher" BY <1>4 DEF EventsOf, Codes, PublisherCodes
<1>5. CASE k = "subscriber" BY <1>5 DEF EventsOf, Codes, SubscriberCodes
<1>. QED BY <1>1, <1>2, <1>3, <1>4, <1>5

(* Who registers for an event is told of it, and is told of no other one   *)
(* unless codes share bits.                                                *)
LEMMA ChosenRight ==
    ASSUME setup \in Setups, test \in Tests, NEW e \in Entities
    PROVE  /\ Kind(e) \in DOMAIN Codes
           /\ Chosen(e) \subseteq EventsOf(Kind(e))
           /\ setup[e].events \subseteq Chosen(e)
           /\ Distinct(Kind(e)) => Chosen(e) = setup[e].events
<1>. DEFINE k == Kind(e)
            R == setup[e].events
            M == Mask(k, R)
<1>1. k \in DOMAIN Codes /\ R \subseteq EventsOf(k) BY SetupsAssumption DEF Kind
<1>2. Chosen(e) \subseteq EventsOf(k) BY DEF Chosen
<1>3. \A x \in R : Codes[k][x] \subseteq M /\ Codes[k][x] # {}
      BY <1>1, CodesHaveBits DEF Mask
<1>4. \A x : Selected(k, test, R, x) <=>
                IF test = "any" THEN Codes[k][x] \cap M # {} ELSE Codes[k][x] \subseteq M
      BY DEF Selected
<1>5. Chosen(e) = {x \in EventsOf(k) : Selected(k, test, R, x)} BY DEF Chosen
<1>. HIDE DEF k, R
<1>6. R \subseteq Chosen(e)
  <2>. HIDE DEF M
  <2>. QED BY ONLY <1>1, <1>3, <1>4, <1>5
<1>7. ASSUME Distinct(k), NEW x \in Chosen(e) PROVE x \in R
  <2>1. x \in EventsOf(k) /\ Selected(k, test, R, x) BY <1>5
  <2>2. Codes[k][x] # {} BY <1>1, <2>1, CodesHaveBits
  <2>3. Codes[k][x] \cap M # {} BY <1>4, <2>1, <2>2
  <2>4. PICK y \in R : Codes[k][x] \cap Codes[k][y] # {} BY <2>3 DEF Mask
  <2>5. x = y BY <1>1, <1>7, <2>1, <2>4 DEF Distinct
  <2>. QED BY <2>4, <2>5
<1>. QED BY <1>1, <1>2, <1>6, <1>7 DEF k, R

LEMMA TellsWhat ==
    /\ DOMAIN Tells = {"CONNECTED", "UPTODATE", "STALE", "DISCONNECTED", "CLOSED"}
    /\ Tells["CONNECTED"] = "connected" /\ Tells["UPTODATE"] = "connected"
    /\ Tells["STALE"] = "stale" /\ Tells["DISCONNECTED"] = "disconnected"
    /\ Tells["CLOSED"] = "closed"
    /\ DOMAIN Follows = DOMAIN Tells
    /\ Follows["CONNECTED"] = {"STALE", "DISCONNECTED"}
    /\ Follows["UPTODATE"] = {"STALE", "DISCONNECTED"}
    /\ Follows["STALE"] = {"UPTODATE", "DISCONNECTED"}
    /\ Follows["DISCONNECTED"] = {"CLOSED"} /\ Follows["CLOSED"] = {}
BY DEF Tells, Follows

(* The event x takes the connection from state c to state d. *)
Goes(c, x, d) ==
    /\ c # "closed"
    /\ \/ x \notin DOMAIN Tells /\ d = c
       \/ x = "CONNECTED" /\ c = "new" /\ d = "connected"
       \/ x = "UPTODATE" /\ c = "stale" /\ d = "connected"
       \/ x = "STALE" /\ c = "connected" /\ d = "stale"
       \/ x = "DISCONNECTED" /\ c \in {"connected", "stale"} /\ d = "disconnected"
       \/ x = "CLOSED" /\ c \in {"new", "disconnected"} /\ d = "closed"

(* One more event keeps what they tell, and the protocol. *)
LEMMA TellingNext ==
    ASSUME NEW A, NEW s \in Seq(A), NEW x \in A, NEW c, NEW d,
           Telling(c, s), Goes(c, x, d)
    PROVE  Telling(d, Append(s, x))
<1>. DEFINE D == DOMAIN Tells
            st == Only(s, D)
            tt == Only(Append(s, x), D)
            n == Len(st)
<1>1. tt = IF x \in D THEN Append(st, x) ELSE st
  <2>. HIDE DEF D
  <2>. QED BY OnlyAppend
<1>2. st \in Seq(D) BY OnlyIn
<1>3. n \in Nat /\ (st = <<>> <=> n = 0) /\ \A i \in 1 .. n : st[i] \in D
      BY <1>2, EmptySeq, ElementOfSeq, LenProperties
<1>4. Last(st) = st[n] BY DEF Last
<1>5. /\ c = IF st = <<>> THEN "new" ELSE Tells[st[n]]
      /\ st # <<>> => st[1] \in {"CONNECTED", "CLOSED"}
      /\ \A i \in 1 .. n - 1 : st[i + 1] \in Follows[st[i]]
      /\ \A i \in 1 .. Len(s) - 1 : s[i] # "CLOSED"
      /\ ~Contains(s, "CLOSED")
      BY <1>4 DEF Telling, StateEvents, Goes
<1>6. /\ Len(s) \in Nat /\ Append(s, x) \in Seq(A) /\ Len(Append(s, x)) = Len(s) + 1
      /\ \A i \in 1 .. Len(s) : Append(s, x)[i] = s[i]
      /\ Append(s, x)[Len(s) + 1] = x
      BY AppendProperties, LenProperties
<1>7. \A i \in 1 .. Len(Append(s, x)) - 1 : Append(s, x)[i] # "CLOSED"
      BY <1>5, <1>6 DEF Contains
<1>8. d # "closed" => ~Contains(Append(s, x), "CLOSED")
  <2>1. d # "closed" => x # "CLOSED" BY TellsWhat DEF Goes
  <2>. QED BY <1>5, <1>6, <2>1 DEF Contains
<1>. DEFINE Rest == /\ d = IF tt = <<>> THEN "new" ELSE Tells[Last(tt)]
                    /\ tt # <<>> => tt[1] \in {"CONNECTED", "CLOSED"}
                    /\ \A i \in 1 .. Len(tt) - 1 : tt[i + 1] \in Follows[tt[i]]
<1>9. CASE x \notin D
  <2>1. tt = st /\ d = c BY <1>1, <1>9, TellsWhat DEF Goes
  <2>2. Rest BY <1>4, <1>5, <2>1
  <2>. QED BY <1>7, <1>8, <2>2 DEF Telling, StateEvents
<1>10. CASE x \in D
  <2>1. tt = Append(st, x) BY <1>1, <1>10
  <2>2. /\ tt \in Seq(D) /\ Len(tt) = n + 1 /\ tt[n + 1] = x
        /\ \A i \in 1 .. n : tt[i] = st[i]
    <3>. HIDE DEF D, st, tt
    <3>. QED BY <1>2, <1>10, <2>1, AppendProperties
  <2>3. tt # <<>> /\ Last(tt) = x
    <3>. HIDE DEF tt, n
    <3>. QED BY <1>3, <2>2, EmptySeq DEF Last
  <2>. HIDE DEF st, tt, n
  <2>4. d = Tells[x] BY <1>10, TellsWhat DEF Goes
  <2>5. tt[1] \in {"CONNECTED", "CLOSED"}
    <3>1. CASE n = 0
      <4>1. c = "new" BY <1>3, <1>5, <3>1
      <4>2. x \in {"CONNECTED", "CLOSED"} BY <1>10, <4>1 DEF Goes
      <4>. QED BY <2>2, <3>1, <4>2
    <3>2. CASE n # 0
      <4>1. 1 \in 1 .. n BY <1>3, <3>2
      <4>. QED BY <1>3, <1>5, <2>2, <3>2, <4>1
    <3>. QED BY <3>1, <3>2
  <2>6. n # 0 => x \in Follows[st[n]]
    <3>1. SUFFICES ASSUME n # 0 PROVE x \in Follows[st[n]] OBVIOUS
    <3>2. n \in 1 .. n /\ st # <<>> BY <1>3, <3>1
    <3>3. PICK y \in D : y = st[n] BY <1>3, <3>2
    <3>4. c = Tells[y] BY <1>5, <3>2, <3>3
    <3>5. c # "new" BY <3>4, TellsWhat
    <3>6. x \in Follows[y] BY <1>10, <3>4, <3>5, TellsWhat DEF Goes
    <3>. QED BY <3>3, <3>6
  <2>7. ASSUME NEW i \in 1 .. Len(tt) - 1 PROVE tt[i + 1] \in Follows[tt[i]]
    <3>1. CASE i = n
      <4>1. n # 0 /\ i \in 1 .. n BY <1>3, <2>2, <3>1
      <4>. QED BY <2>2, <2>6, <3>1, <4>1
    <3>2. CASE i # n
      <4>1. i \in 1 .. n - 1 /\ i \in 1 .. n /\ i + 1 \in 1 .. n BY <1>3, <2>2, <3>2
      <4>2. tt[i + 1] = st[i + 1] /\ tt[i] = st[i] BY <2>2, <4>1
      <4>. QED BY <1>5, <4>1, <4>2
    <3>. QED BY <3>1, <3>2
  <2>8. Rest BY <2>3, <2>4, <2>5, <2>7
  <2>. QED BY <1>7, <1>8, <2>8 DEF Telling, StateEvents, tt
<1>. QED BY <1>9, <1>10

-----------------------------------------------------------------------------
(* The entity raises x, and may be told of it. *)
Turn(k, p, q, d, x) ==
    x = "READY" => ~Contains(p, "READY") /\ ~Contains(q, "publish") /\ d # "new"

LEMMA RaiseOne ==
    ASSUME NEW k \in DOMAIN Codes, NEW T, NEW c, NEW s, NEW p, NEW g, NEW q,
           Sound(k, T, c, s, p, g, q),
           NEW x \in EventsOf(k), NEW d, Goes(c, x, d), Turn(k, p, q, d, x),
           d = "closed" => q = <<>>, d = "stale" => k \in {"server", "project"}
    PROVE  Sound(k, T, d, s \o <<x>>, p \o Only(<<x>>, T), g, q)
<1>. DEFINE E == EventsOf(k)
            o == Only(<<x>>, T)
<1>1. /\ q \in Seq(CallNames) /\ s \in Seq(E) /\ p \in Seq(E) /\ g \in Seq(E)
      /\ g \o p = Only(s, T) /\ Telling(c, s) /\ CallsOf(k, c, q) /\ OneTurn(c, p, q)
      BY DEF Sound
<1>2. x \in E /\ <<x>> \in Seq(E) /\ s \o <<x>> = Append(s, x)
  <2>. HIDE DEF E
  <2>1. x \in E BY DEF E
  <2>. QED BY <1>1, <2>1, AppendIsConcat
<1>. HIDE DEF E, o
<1>3. o = IF x \in T THEN <<x>> ELSE <<>> BY OnlyOne DEF o
<1>4. o \in Seq(E) BY <1>2, <1>3, EmptySeq
<1>5. s \o <<x>> \in Seq(E) /\ p \o o \in Seq(E) BY <1>1, <1>2, <1>4, ConcatProperties
<1>6. g \o (p \o o) = Only(s \o <<x>>, T)
  <2>0. g \in Seq(E) /\ p \in Seq(E) /\ o \in Seq(E) BY <1>1, <1>4
  <2>1. g \o (p \o o) = (g \o p) \o o BY ONLY <2>0, ConcatAssociative
  <2>2. PICK z \in Seq(E) : z = <<x>> BY <1>2
  <2>3. Only(s \o z, T) = Only(s, T) \o Only(z, T) BY <1>1, <2>2, OnlyConcat
  <2>. QED BY <1>1, <2>1, <2>2, <2>3 DEF o
<1>7. Telling(d, s \o <<x>>)
  <2>1. Telling(d, Append(s, x)) BY <1>1, <1>2, TellingNext
  <2>. QED BY <1>2, <2>1
<1>8. d \in States /\ (d = "new" => c = "new")
  <2>1. c \in States BY DEF Sound
  <2>. QED BY <2>1 DEF Goes, States
<1>9. CallsOf(k, d, q) BY <1>1 DEF CallsOf
<1>10. OneTurn(d, p \o o, q)
  <2>1. Contains(o, "READY") => x = "READY" BY <1>3, ContainsOne
  <2>2. Once(o, "READY") BY <1>3, OnceOne
  <2>3. /\ Once(p, "READY") /\ Once(q, "publish")
        /\ Contains(p, "READY") => ~Contains(q, "publish")
        /\ c = "new" => ~Contains(p, "READY") /\ ~Contains(q, "publish")
        BY <1>1 DEF OneTurn
  <2>4. Contains(p \o o, "READY") <=> Contains(p, "READY") \/ Contains(o, "READY")
        BY <1>1, <1>4, ContainsConcat
  <2>5. Once(p \o o, "READY") BY <1>1, <1>4, <2>1, <2>2, <2>3, OnceConcat DEF Turn
  <2>. QED BY <1>8, <2>1, <2>3, <2>4, <2>5 DEF OneTurn, Turn
<1>. QED BY <1>1, <1>4, <1>5, <1>6, <1>7, <1>8, <1>9, <1>10 DEF Sound, E, o

LEMMA RaiseNone ==
    ASSUME NEW k, NEW T, NEW c, NEW s, NEW p, NEW g, NEW q, Sound(k, T, c, s, p, g, q)
    PROVE  Sound(k, T, c, s \o <<>>, p \o Only(<<>>, T), g, q)
<1>1. s \in Seq(EventsOf(k)) /\ p \in Seq(EventsOf(k)) BY DEF Sound
<1>2. s \o <<>> = s /\ p \o <<>> = p BY <1>1, ConcatEmptySeq
<1>. QED BY <1>2, OnlyEmpty

(* Two events, one after the other. *)
LEMMA RaiseTwo ==
    ASSUME NEW k \in DOMAIN Codes, NEW T, NEW c, NEW s, NEW p, NEW g, NEW q,
           Sound(k, T, c, s, p, g, q),
           NEW x \in EventsOf(k), NEW b, Goes(c, x, b), x # "READY",
           b \notin {"new", "closed", "stale"},
           NEW y \in EventsOf(k), NEW d, Goes(b, y, d),
           Turn(k, p, q, d, y),
           d = "closed" => q = <<>>, d = "stale" => k \in {"server", "project"}
    PROVE  Sound(k, T, d, s \o <<x, y>>, p \o Only(<<x, y>>, T), g, q)
<1>. DEFINE E == EventsOf(k)
            o == Only(<<x>>, T)
<1>1. Sound(k, T, b, s \o <<x>>, p \o o, g, q) BY RaiseOne DEF Turn
<1>2. s \in Seq(E) /\ p \in Seq(E) BY DEF Sound
<1>3. x \in E /\ y \in E OBVIOUS
<1>. HIDE DEF E, o
<1>4. o = IF x \in T THEN <<x>> ELSE <<>> BY OnlyOne DEF o
<1>5. <<x>> \in Seq(E) /\ <<y>> \in Seq(E) /\ <<x, y>> \in Seq(E) BY <1>3
<1>6. PICK u \in Seq(E), v \in Seq(E), w \in Seq(E) : u = <<x>> /\ v = <<y>> /\ w = <<x, y>>
      BY <1>5
<1>7. w = u \o v BY <1>6
<1>8. o \in Seq(E) BY <1>4, <1>5, EmptySeq
<1>9. ~Contains(o, "READY") BY <1>4, ContainsOne
<1>10. Contains(p \o o, "READY") <=> Contains(p, "READY") \/ Contains(o, "READY")
       BY <1>2, <1>8, ContainsConcat
<1>11. Turn(k, p \o o, q, d, y) BY <1>9, <1>10 DEF Turn
<1>12. PICK s1, p1 : s1 = s \o <<x>> /\ p1 = p \o o OBVIOUS
<1>13. Sound(k, T, d, s1 \o <<y>>, p1 \o Only(<<y>>, T), g, q)
  <2>1. Sound(k, T, b, s1, p1, g, q) /\ Turn(k, p1, q, d, y) BY <1>1, <1>11, <1>12
  <2>. QED BY <2>1, RaiseOne
<1>14. s1 \o v = s \o w
  <2>1. (s \o u) \o v = s \o (u \o v) BY <1>2, <1>6, ConcatAssociative
  <2>. QED BY <1>6, <1>7, <1>12, <2>1
<1>15. p1 \o Only(v, T) = p \o Only(w, T)
  <2>1. Only(u \o v, T) = Only(u, T) \o Only(v, T) BY <1>6, OnlyConcat
  <2>2. PICK z \in Seq(E) : z = Only(v, T) BY <1>6, OnlyType
  <2>0. p \in Seq(E) /\ o \in Seq(E) /\ z \in Seq(E) BY <1>2, <1>8, <2>2
  <2>3. (p \o o) \o z = p \o (o \o z) BY ONLY <2>0, ConcatAssociative
  <2>4. Only(u, T) = o BY <1>6 DEF o
  <2>. QED BY <1>7, <1>12, <2>1, <2>2, <2>3, <2>4
<1>. QED BY <1>6, <1>13, <1>14, <1>15

-----------------------------------------------------------------------------
(* Calls are made and carried out. *)
LEMMA CallMade ==
    ASSUME NEW k, NEW T, NEW c, NEW s, NEW p, NEW g, NEW q, Sound(k, T, c, s, p, g, q),
           NEW a \in CallNames, c # "closed", ~Contains(q, "close"),
           a \in {"subscribe", "unsubscribe"} => k = "subscriber",
           a = "publish" => /\ k = "publisher" /\ c # "new"
                            /\ ~Contains(p, "READY") /\ ~Contains(q, "publish")
    PROVE  Sound(k, T, c, s, p, g, Append(q, a))
<1>1. q \in Seq(CallNames) /\ CallsOf(k, c, q) /\ OneTurn(c, p, q) BY DEF Sound
<1>2. /\ Append(q, a) \in Seq(CallNames) /\ Append(q, a) = q \o <<a>>
      /\ <<a>> \in Seq(CallNames)
      /\ Len(Append(q, a)) = Len(q) + 1 /\ Len(q) \in Nat
      /\ \A i \in 1 .. Len(q) : Append(q, a)[i] = q[i]
      BY <1>1, AppendProperties, AppendIsConcat, LenProperties
<1>3. \A x : Contains(Append(q, a), x) <=> Contains(q, x) \/ a = x
  <2>1. SUFFICES ASSUME NEW x PROVE Contains(q \o <<a>>, x) <=> Contains(q, x) \/ a = x
        BY <1>2
  <2>2. PICK r \in Seq(CallNames) : r = <<a>> BY <1>2
  <2>3. Contains(q \o r, x) <=> Contains(q, x) \/ Contains(r, x) BY <1>1, <2>2, ContainsConcat
  <2>4. Contains(r, x) <=> a = x BY <2>2, ContainsOne
  <2>. QED BY <2>2, <2>3, <2>4
<1>4. CallsOf(k, c, Append(q, a))
  <2>1. \A i \in 1 .. Len(Append(q, a)) - 1 : Append(q, a)[i] # "close"
        BY <1>2 DEF Contains
  <2>. QED BY <1>1, <1>3, <2>1 DEF CallsOf
<1>5. OneTurn(c, p, Append(q, a))
  <2>1. Once(Append(q, a), "publish")
    <3>1. PICK r \in Seq(CallNames) : r = <<a>> BY <1>2
    <3>2. Once(q, "publish") BY <1>1 DEF OneTurn
    <3>3. Once(r, "publish") /\ (Contains(r, "publish") <=> a = "publish")
          BY <3>1, ContainsOne, OnceOne
    <3>4. Once(q \o r, "publish") BY <1>1, <3>1, <3>2, <3>3, OnceConcat
    <3>. QED BY <1>2, <3>1, <3>4
  <2>. QED BY <1>1, <1>3, <2>1 DEF OneTurn
<1>. QED BY <1>2, <1>4, <1>5 DEF Sound

LEMMA CallTaken ==
    ASSUME NEW k, NEW T, NEW c, NEW s, NEW p, NEW g, NEW q, Sound(k, T, c, s, p, g, q),
           q # <<>>
    PROVE  /\ Sound(k, T, c, s, p, g, Tail(q))
           /\ c # "closed" /\ Head(q) \in CallNames
           /\ Head(q) = "close" => Tail(q) = <<>>
           /\ Head(q) = "publish" => /\ k = "publisher" /\ c # "new"
                                     /\ ~Contains(p, "READY") /\ ~Contains(Tail(q), "publish")
           /\ Head(q) \in {"subscribe", "unsubscribe"} => k = "subscriber"
           /\ c = "new" => ~Contains(p, "READY") /\ ~Contains(Tail(q), "publish")
<1>1. q \in Seq(CallNames) /\ CallsOf(k, c, q) /\ OneTurn(c, p, q) BY DEF Sound
<1>2. /\ Head(q) \in CallNames /\ Tail(q) \in Seq(CallNames) /\ Head(q) = q[1]
      /\ Len(Tail(q)) = Len(q) - 1 /\ \A i \in 1 .. Len(Tail(q)) : Tail(q)[i] = q[i + 1]
      /\ Len(q) \in Nat /\ Len(q) > 0
      BY <1>1, HeadTailProperties, EmptySeq, LenProperties
<1>3. \A x : /\ Contains(q, x) <=> Head(q) = x \/ Contains(Tail(q), x)
             /\ Once(q, x) => Once(Tail(q), x) /\ ~(Head(q) = x /\ Contains(Tail(q), x))
      BY <1>1, ContainsTail
<1>4. c # "closed" BY <1>1 DEF CallsOf
<1>5. Head(q) = "close" => Tail(q) = <<>>
  <2>1. SUFFICES ASSUME Head(q) = "close", Len(q) # 1 PROVE FALSE
        BY <1>2, EmptySeq
  <2>2. 1 \in 1 .. Len(q) - 1 BY <1>2, <2>1
  <2>. QED BY <1>1, <1>2, <2>1, <2>2 DEF CallsOf
<1>6. CallsOf(k, c, Tail(q))
  <2>1. ASSUME NEW i \in 1 .. Len(Tail(q)) - 1 PROVE Tail(q)[i] # "close"
    <3>1. i \in 1 .. Len(Tail(q)) /\ i + 1 \in 1 .. Len(q) - 1 BY <1>2
    <3>. QED BY <1>1, <1>2, <3>1 DEF CallsOf
  <2>. QED BY <1>1, <1>3, <1>4, <2>1 DEF CallsOf
<1>7. OneTurn(c, p, Tail(q)) BY <1>1, <1>3 DEF OneTurn
<1>8. Sound(k, T, c, s, p, g, Tail(q)) BY <1>2, <1>6, <1>7 DEF Sound
<1>. QED BY <1>1, <1>2, <1>3, <1>4, <1>5, <1>8 DEF CallsOf, OneTurn

(* Events are delivered: the first t of those that were pending.           *)
LEMMA Delivered ==
    ASSUME NEW k \in DOMAIN Codes, NEW T, NEW c, NEW s, NEW p, NEW g, NEW q,
           Sound(k, T, c, s, p, g, q),
           NEW t \in Seq(EventsOf(k)), NEW r \in Seq(EventsOf(k)), p = t \o r,
           Once(r, "READY"), ~(Contains(t, "READY") /\ Contains(r, "READY"))
    PROVE  /\ Sound(k, T, c, s, r, g \o t, q)
           /\ Contains(t, "READY") => /\ k = "publisher" /\ c # "new"
                                      /\ ~Contains(r, "READY") /\ ~Contains(q, "publish")
<1>. DEFINE E == EventsOf(k)
<1>1. /\ g \in Seq(E) /\ p \in Seq(E) /\ g \o p = Only(s, T) /\ OneTurn(c, p, q)
      /\ t \in Seq(E) /\ r \in Seq(E)
      BY DEF Sound
<1>2. Contains(t, "READY") => "READY" \in E
  <2>1. \A i \in 1 .. Len(t) : t[i] \in E
    <3>. HIDE DEF E
    <3>. QED BY <1>1, ElementOfSeq
  <2>. QED BY <2>1 DEF Contains
<1>3. "READY" \in E => k = "publisher" BY KindsOfEvents
<1>. HIDE DEF E
<1>4. g \o t \in Seq(E) /\ (g \o t) \o r = Only(s, T)
  <2>0. g \in Seq(E) /\ t \in Seq(E) /\ r \in Seq(E) BY <1>1
  <2>1. (g \o t) \o r = g \o (t \o r) BY ONLY <2>0, ConcatAssociative
  <2>. QED BY <1>1, <2>1, ConcatProperties
<1>5. Contains(p, "READY") <=> Contains(t, "READY") \/ Contains(r, "READY")
      BY <1>1, ContainsConcat
<1>6. OneTurn(c, r, q) BY <1>1, <1>5 DEF OneTurn
<1>7. Sound(k, T, c, s, r, g \o t, q) BY <1>1, <1>4, <1>6 DEF Sound, E
<1>. QED BY <1>1, <1>2, <1>3, <1>5, <1>7 DEF OneTurn

-----------------------------------------------------------------------------
SoundNow(e) == Sound(Kind(e), Chosen(e), conn[e], raised[e], pending[e], got[e], calls[e])

LEMMA ConnInit == Init => ConnInv
<1> SUFFICES ASSUME Init PROVE ConnInv
  OBVIOUS
<1>1. /\ setup \in Setups /\ test \in Tests
      /\ DOMAIN conn = Entities /\ DOMAIN calls = Entities /\ DOMAIN owed = Entities
      /\ DOMAIN raised = Entities /\ DOMAIN pending = Entities /\ DOMAIN got = Entities
      /\ \A e \in Entities :
            /\ owed[e] = IF Kind(e) = "server" THEN Lists ELSE {}
            /\ conn[e] = "new" /\ raised[e] = <<>> /\ pending[e] = <<>> /\ got[e] = <<>>
            /\ calls[e] = <<>>
      BY DEF Init
<1>2. ASSUME NEW e \in Entities
      PROVE  Sound(Kind(e), Chosen(e), "new", <<>>, <<>>, <<>>, <<>>)
  <2>1. <<>> \in Seq(CallNames) /\ <<>> \in Seq(EventsOf(Kind(e))) /\ Len(<<>>) = 0
        BY EmptySeq
  <2>2. \A W : Only(<<>>, W) = <<>> BY OnlyEmpty
  <2>3. \A x : ~Contains(<<>>, x) BY <2>1 DEF Contains
  <2>4. \A x : Once(<<>>, x) BY OnceOne
  <2>5. <<>> \o <<>> = <<>> OBVIOUS
  <2>6. Telling("new", <<>>) BY <2>1, <2>2, <2>3 DEF Telling, StateEvents
  <2>7. CallsOf(Kind(e), "new", <<>>) BY <2>1, <2>3 DEF CallsOf
  <2>8. OneTurn("new", <<>>, <<>>) BY <2>3, <2>4 DEF OneTurn
  <2>. QED BY <2>1, <2>2, <2>5, <2>6, <2>7, <2>8 DEF Sound, States
<1>. QED BY <1>1, <1>2 DEF ConnInv

(* A step keeps the invariant if every entity is sound after it. *)
LEMMA KeepsInv ==
    ASSUME ConnInv, UNCHANGED <<setup, test>>,
           DOMAIN conn' = Entities, DOMAIN calls' = Entities, DOMAIN owed' = Entities,
           DOMAIN raised' = Entities, DOMAIN pending' = Entities, DOMAIN got' = Entities,
           \A e \in Entities : owed'[e] \subseteq owed[e],
           \A e \in Entities : Sound(Kind(e), Chosen(e), conn'[e], raised'[e], pending'[e],
                                     got'[e], calls'[e])
    PROVE  ConnInv'
<1>1. \A e \in Entities : Kind(e)' = Kind(e) /\ Chosen(e)' = Chosen(e)
      BY DEF Kind, Chosen
<1>2. setup' \in Setups /\ test' \in Tests BY DEF ConnInv
<1>3. \A e \in Entities : owed'[e] \subseteq IF Kind(e) = "server" THEN Lists ELSE {}
      BY DEF ConnInv
<1>. QED BY <1>1, <1>2, <1>3 DEF ConnInv

(* What the invariant says of one entity. *)
LEMMA OfEntity ==
    ASSUME ConnInv, NEW e \in Entities
    PROVE  /\ SoundNow(e) /\ Kind(e) \in DOMAIN Codes
           /\ calls[e] \in Seq(CallNames)
           /\ raised[e] \in Seq(EventsOf(Kind(e))) /\ pending[e] \in Seq(EventsOf(Kind(e)))
           /\ \A a : Asked(e, a) <=> Contains(calls[e], a)
<1>1. SoundNow(e) BY DEF ConnInv, SoundNow
<1>2. Kind(e) \in DOMAIN Codes BY ChosenRight DEF ConnInv
<1>3. /\ calls[e] \in Seq(CallNames)
      /\ raised[e] \in Seq(EventsOf(Kind(e))) /\ pending[e] \in Seq(EventsOf(Kind(e)))
      BY <1>1 DEF SoundNow, Sound
<1>4. DOMAIN calls[e] = 1 .. Len(calls[e]) BY <1>3, LenProperties
<1>. QED BY <1>1, <1>2, <1>3, <1>4 DEF Asked, Contains

(* The user calls. *)
LEMMA CallKeeps ==
    ASSUME ConnInv, NEW e \in Entities, NEW a \in CallNames \ {"publish"}, Call(e, a),
           conn[e] # "closed", ~Contains(calls[e], "close"),
           a \in {"subscribe", "unsubscribe"} => Kind(e) = "subscriber"
    PROVE  ConnInv'
<1>1. \A d \in Entities : SoundNow(d) BY OfEntity
<1>2. Sound(Kind(e), Chosen(e), conn[e], raised[e], pending[e], got[e], Append(calls[e], a))
      BY <1>1, CallMade DEF SoundNow
<1>3. /\ UNCHANGED <<setup, test, conn, owed, raised, pending, got>>
      /\ DOMAIN calls' = Entities
      /\ \A d \in Entities : calls'[d] = IF d = e THEN Append(calls[e], a) ELSE calls[d]
      BY DEF Call, ConnInv
<1>4. /\ DOMAIN conn = Entities /\ DOMAIN owed = Entities /\ DOMAIN raised = Entities
      /\ DOMAIN pending = Entities /\ DOMAIN got = Entities
      BY DEF ConnInv
<1>5. \A d \in Entities : Sound(Kind(d), Chosen(d), conn'[d], raised'[d], pending'[d],
                                got'[d], calls'[d])
      BY <1>1, <1>2, <1>3 DEF SoundNow
<1>. QED BY <1>3, <1>4, <1>5, KeepsInv

(* An entity raises events, and is in state d then. *)
Becomes(e, d, events) ==
    /\ DOMAIN conn' = Entities /\ Raise(e, events)
    /\ \A f \in Entities : conn'[f] = IF f = e THEN d ELSE conn[f]

LEMMA BecomeSo ==
    ASSUME ConnInv, NEW e \in Entities, NEW d, NEW events, Become(e, d, events)
    PROVE  Becomes(e, d, events)
BY DEF Become, Becomes, ConnInv

LEMMA RaiseKeeps ==
    ASSUME ConnInv, NEW e \in Entities, NEW d, NEW events, Becomes(e, d, events),
           UNCHANGED <<setup, test, got>>, DOMAIN owed' = Entities,
           \A f \in Entities : owed'[f] \subseteq owed[f],
           NEW q, DOMAIN calls' = Entities,
           \A f \in Entities : calls'[f] = IF f = e THEN q ELSE calls[f],
           Sound(Kind(e), Chosen(e), d, raised[e] \o events,
                 pending[e] \o Only(events, Chosen(e)), got[e], q)
    PROVE  ConnInv'
<1>1. \A f \in Entities : SoundNow(f) BY OfEntity
<1>2. /\ DOMAIN conn' = Entities /\ DOMAIN raised' = Entities /\ DOMAIN pending' = Entities
      /\ DOMAIN got' = Entities
      /\ \A f \in Entities :
            /\ conn'[f] = IF f = e THEN d ELSE conn[f]
            /\ raised'[f] = IF f = e THEN raised[e] \o events ELSE raised[f]
            /\ pending'[f] = IF f = e THEN pending[e] \o Only(events, Chosen(e))
                             ELSE pending[f]
            /\ got'[f] = got[f]
      BY DEF Becomes, Raise, ConnInv
<1>3. ASSUME NEW f \in Entities
      PROVE  Sound(Kind(f), Chosen(f), conn'[f], raised'[f], pending'[f], got'[f], calls'[f])
  <2>1. CASE f = e BY <1>2, <2>1
  <2>2. CASE f # e
    <3>1. /\ conn'[f] = conn[f] /\ raised'[f] = raised[f] /\ pending'[f] = pending[f]
          /\ got'[f] = got[f] /\ calls'[f] = calls[f]
          BY <1>2, <2>2
    <3>2. SoundNow(f) BY <1>1
    <3>. QED BY <3>1, <3>2 DEF SoundNow
  <2>. QED BY <2>1, <2>2
<1>. QED BY <1>2, <1>3, KeepsInv

(* Events are delivered, and READY is answered. *)
LEMMA DeliverKeeps ==
    ASSUME ConnInv, NEW served, Deliver(served), DOMAIN pending' = Entities,
           \A e \in Entities :
              /\ served[e] \in Seq(EventsOf(Kind(e)))
              /\ pending'[e] \in Seq(EventsOf(Kind(e)))
              /\ pending[e] = served[e] \o pending'[e]
              /\ Once(pending'[e], "READY")
              /\ ~(Contains(served[e], "READY") /\ Contains(pending'[e], "READY"))
    PROVE  ConnInv'
<1>1. /\ UNCHANGED <<setup, test, conn, owed, raised>>
      /\ DOMAIN got' = Entities /\ DOMAIN calls' = Entities
      /\ \A e \in Entities : /\ got'[e] = got[e] \o served[e]
                             /\ calls'[e] = calls[e] \o Answers(e, served[e])
      BY DEF Deliver
<1>2. DOMAIN conn = Entities /\ DOMAIN owed = Entities /\ DOMAIN raised = Entities
      BY DEF ConnInv
<1>3. ASSUME NEW e \in Entities
      PROVE  Sound(Kind(e), Chosen(e), conn[e], raised[e], pending'[e], got'[e], calls'[e])
  <2>1. /\ SoundNow(e) /\ Kind(e) \in DOMAIN Codes /\ calls[e] \in Seq(CallNames)
        /\ \A a : Asked(e, a) <=> Contains(calls[e], a)
        BY OfEntity
  <2>2. PICK t \in Seq(EventsOf(Kind(e))), r \in Seq(EventsOf(Kind(e))) :
           /\ t = served[e] /\ r = pending'[e] /\ pending[e] = t \o r /\ Once(r, "READY")
           /\ ~(Contains(t, "READY") /\ Contains(r, "READY"))
        OBVIOUS
  <2>3. /\ Sound(Kind(e), Chosen(e), conn[e], raised[e], r, got[e] \o t, calls[e])
        /\ Contains(t, "READY") =>
              /\ Kind(e) = "publisher" /\ conn[e] # "new"
              /\ ~Contains(r, "READY") /\ ~Contains(calls[e], "publish")
        BY <2>1, <2>2, Delivered DEF SoundNow
  <2>4. Count(t, "READY") \in Nat /\ (Count(t, "READY") = 0 <=> ~Contains(t, "READY"))
        BY <2>2, CountOnce
  <2>5. CASE Answers(e, t) = <<>>
    <3>1. calls'[e] = calls[e] BY <1>1, <2>1, <2>2, <2>5, ConcatEmptySeq
    <3>. QED BY <1>1, <2>2, <2>3, <3>1
  <2>6. CASE Answers(e, t) # <<>>
    <3>1. /\ Answers(e, t) = <<"publish">> /\ Count(t, "READY") > 0 /\ conn[e] # "closed"
          /\ ~Asked(e, "close")
          BY <2>6 DEF Answers
    <3>2. Contains(t, "READY") BY <2>4, <3>1
    <3>3. "publish" \in CallNames BY DEF CallNames
    <3>4. calls'[e] = Append(calls[e], "publish")
      <4>1. calls'[e] = calls[e] \o <<"publish">> BY <1>1, <2>2, <3>1
      <4>. QED BY <2>1, <3>3, <4>1, AppendIsConcat
    <3>5. Sound(Kind(e), Chosen(e), conn[e], raised[e], r, got[e] \o t,
                Append(calls[e], "publish"))
          BY <2>1, <2>3, <3>1, <3>2, <3>3, CallMade
    <3>. QED BY <1>1, <2>2, <3>4, <3>5
  <2>. QED BY <2>5, <2>6
<1>4. \A e \in Entities : Sound(Kind(e), Chosen(e), conn'[e], raised'[e], pending'[e],
                                got'[e], calls'[e])
      BY <1>1, <1>3
<1>. QED BY <1>1, <1>2, <1>4, KeepsInv

-----------------------------------------------------------------------------
(* The updater carries out a call. *)
LEMMA UpdateKeeps == ASSUME ConnInv, NEW e \in Entities, Update(e) PROVE ConnInv'
<1>. DEFINE k == Kind(e)
            q == Tail(calls[e])
            Raises(d, events) ==
                Sound(k, Chosen(e), d, raised[e] \o events,
                      pending[e] \o Only(events, Chosen(e)), got[e], q)
<1>1. /\ UNCHANGED <<setup, test, owed, got>> /\ calls[e] # <<>>
      /\ DOMAIN owed = Entities /\ DOMAIN calls' = Entities
      /\ \A f \in Entities : calls'[f] = IF f = e THEN q ELSE calls[f]
      BY DEF Update, ConnInv
<1>2. k \in DOMAIN Codes /\ SoundNow(e) BY OfEntity
<1>3. /\ Sound(k, Chosen(e), conn[e], raised[e], pending[e], got[e], q)
      /\ conn[e] # "closed" /\ Head(calls[e]) \in CallNames
      /\ Head(calls[e]) = "close" => q = <<>>
      /\ Head(calls[e]) = "publish" =>
            /\ k = "publisher" /\ conn[e] # "new"
            /\ ~Contains(pending[e], "READY") /\ ~Contains(q, "publish")
      /\ Head(calls[e]) \in {"subscribe", "unsubscribe"} => k = "subscriber"
      /\ conn[e] = "new" => ~Contains(pending[e], "READY") /\ ~Contains(q, "publish")
      BY <1>1, <1>2, CallTaken DEF SoundNow
<1>4. conn[e] \in {"new", "connected", "stale", "disconnected"}
      /\ (conn[e] = "stale" => k \in {"server", "project"})
      BY <1>3 DEF Sound, States
<1>5. /\ {"CONNECTED", "DISCONNECTED", "CLOSED", "ERROR"} \subseteq EventsOf(k)
      /\ k = "publisher" => "READY" \in EventsOf(k)
      /\ k = "subscriber" => {"SUBSCRIBED", "UNSUBSCRIBED"} \subseteq EventsOf(k)
      BY <1>2, KindsOfEvents
<1>6. ASSUME NEW d, NEW events, Become(e, d, events), Raises(d, events) PROVE ConnInv'
  <2>1. \A f \in Entities : owed'[f] \subseteq owed[f] BY <1>1
  <2>2. Becomes(e, d, events) BY <1>6, BecomeSo
  <2>. QED BY <1>1, <1>6, <2>1, <2>2, RaiseKeeps
<1>. HIDE DEF k, q
<1>7. ASSUME NEW x \in EventsOf(k), NEW d, Goes(conn[e], x, d),
             Turn(k, pending[e], q, d, x), d = "closed" => q = <<>>, d # "stale" \/ d = conn[e]
      PROVE  Raises(d, <<x>>)
  <2>1. d = "stale" => k \in {"server", "project"} BY <1>4, <1>7
  <2>. QED BY <1>2, <1>3, <1>7, <2>1, RaiseOne
<1>8. Raises(conn[e], <<"ERROR">>)
  <2>1. Goes(conn[e], "ERROR", conn[e]) BY <1>3, TellsWhat DEF Goes
  <2>. QED BY <1>3, <1>5, <1>7, <2>1 DEF Turn
<1>9. CASE Head(calls[e]) = "connect"
  <2>1. Connecting(e) BY <1>9 DEF Update
  <2>2. CASE Become(e, conn[e], <<"ERROR">>) BY <1>6, <1>8, <2>2
  <2>3. CASE conn[e] = "new" /\ k = "publisher"
             /\ Become(e, "connected", <<"CONNECTED", "READY">>)
    <3>1. Goes("new", "CONNECTED", "connected") /\ Goes("connected", "READY", "connected")
          BY TellsWhat DEF Goes
    <3>2. Turn(k, pending[e], q, "connected", "READY") BY <1>3, <2>3 DEF Turn
    <3>3. Raises("connected", <<"CONNECTED", "READY">>)
          BY <1>2, <1>3, <1>5, <2>3, <3>1, <3>2, RaiseTwo
    <3>. QED BY <1>6, <2>3, <3>3
  <2>4. CASE conn[e] = "new" /\ Become(e, "connected", <<"CONNECTED">>)
    <3>1. Goes("new", "CONNECTED", "connected") BY DEF Goes
    <3>2. Raises("connected", <<"CONNECTED">>) BY <1>5, <1>7, <2>4, <3>1 DEF Turn
    <3>. QED BY <1>6, <2>4, <3>2
  <2>. QED BY <2>1, <2>2, <2>3, <2>4 DEF Connecting, k
<1>10. CASE Head(calls[e]) = "disconnect"
  <2>1. Disconnecting(e) BY <1>10 DEF Update
  <2>2. CASE Become(e, conn[e], <<"ERROR">>) BY <1>6, <1>8, <2>2
  <2>3. CASE conn[e] \in {"connected", "stale"}
             /\ Become(e, "disconnected", <<"DISCONNECTED">>)
    <3>1. Goes(conn[e], "DISCONNECTED", "disconnected") BY <2>3 DEF Goes
    <3>2. Raises("disconnected", <<"DISCONNECTED">>) BY <1>5, <1>7, <3>1 DEF Turn
    <3>. QED BY <1>6, <2>3, <3>2
  <2>. QED BY <2>1, <2>2, <2>3 DEF Disconnecting
<1>11. CASE Head(calls[e]) = "close"
  <2>1. Closing(e) /\ q = <<>> BY <1>3, <1>11 DEF Update
  <2>2. CASE conn[e] \in {"connected", "stale"}
    <3>1. Become(e, "closed", <<"DISCONNECTED", "CLOSED">>) BY <2>1, <2>2 DEF Closing
    <3>2. /\ Goes(conn[e], "DISCONNECTED", "disconnected")
          /\ Goes("disconnected", "CLOSED", "closed") BY <2>2 DEF Goes
    <3>3. Turn(k, pending[e], q, "closed", "CLOSED") BY DEF Turn
    <3>4. Raises("closed", <<"DISCONNECTED", "CLOSED">>)
          BY <1>2, <1>3, <1>5, <2>1, <3>2, <3>3, RaiseTwo
    <3>. QED BY <1>6, <3>1, <3>4
  <2>3. CASE conn[e] \notin {"connected", "stale"}
    <3>1. Become(e, "closed", <<"CLOSED">>) BY <2>1, <2>3 DEF Closing
    <3>2. Goes(conn[e], "CLOSED", "closed") BY <1>4, <2>3 DEF Goes
    <3>3. Raises("closed", <<"CLOSED">>) BY <1>5, <1>7, <2>1, <3>2 DEF Turn
    <3>. QED BY <1>6, <3>1, <3>3
  <2>. QED BY <2>2, <2>3
<1>12. CASE Head(calls[e]) = "publish"
  <2>1. Publishing(e) BY <1>12 DEF Update
  <2>2. CASE Become(e, conn[e], <<"ERROR">>) BY <1>6, <1>8, <2>2
  <2>3. CASE Become(e, conn[e], <<"READY">>)
    <3>1. Goes(conn[e], "READY", conn[e]) BY <1>3, TellsWhat DEF Goes
    <3>2. Turn(k, pending[e], q, conn[e], "READY") BY <1>3, <1>12 DEF Turn
    <3>3. Raises(conn[e], <<"READY">>) BY <1>3, <1>5, <1>7, <1>12, <3>1, <3>2
    <3>. QED BY <1>6, <2>3, <3>3
  <2>. QED BY <2>1, <2>2, <2>3 DEF Publishing
<1>13. ASSUME NEW x \in {"SUBSCRIBED", "UNSUBSCRIBED"}, Subscribing(e, x),
              Head(calls[e]) \in {"subscribe", "unsubscribe"}
       PROVE  ConnInv'
  <2>2. CASE Become(e, conn[e], <<"ERROR">>) BY <1>6, <1>8, <2>2
  <2>3. CASE Become(e, conn[e], <<x>>)
    <3>1. Goes(conn[e], x, conn[e]) BY <1>3, TellsWhat DEF Goes
    <3>2. Turn(k, pending[e], q, conn[e], x) BY DEF Turn
    <3>3. x \in EventsOf(k) BY <1>3, <1>5, <1>13
    <3>4. Raises(conn[e], <<x>>) BY <1>3, <1>7, <3>1, <3>2, <3>3
    <3>. QED BY <1>6, <2>3, <3>4
  <2>. QED BY <1>13, <2>2, <2>3 DEF Subscribing
<1>14. CASE Head(calls[e]) = "subscribe"
  <2>1. Subscribing(e, "SUBSCRIBED") BY <1>14 DEF Update
  <2>. QED BY <1>13, <1>14, <2>1
<1>15. CASE Head(calls[e]) = "unsubscribe"
  <2>1. Subscribing(e, "UNSUBSCRIBED") BY <1>15 DEF Update
  <2>. QED BY <1>13, <1>15, <2>1
<1>. QED BY <1>3, <1>9, <1>10, <1>11, <1>12, <1>14, <1>15 DEF CallNames

(* The connection tells an event of its own accord. *)
LEMMA TellKeeps ==
    ASSUME ConnInv, NEW e \in Entities, NEW d, NEW x \in EventsOf(Kind(e)),
           Becomes(e, d, <<x>>), Goes(conn[e], x, d), x # "READY", d # "closed",
           d = "stale" => Kind(e) \in {"server", "project"},
           UNCHANGED <<setup, test, got, calls>>, DOMAIN owed' = Entities,
           \A f \in Entities : owed'[f] \subseteq owed[f]
    PROVE  ConnInv'
<1>1. SoundNow(e) /\ Kind(e) \in DOMAIN Codes BY OfEntity
<1>2. Sound(Kind(e), Chosen(e), d, raised[e] \o <<x>>,
            pending[e] \o Only(<<x>>, Chosen(e)), got[e], calls[e])
      BY <1>1, RaiseOne DEF SoundNow, Turn
<1>3. /\ DOMAIN calls' = Entities
      /\ \A f \in Entities : calls'[f] = IF f = e THEN calls[e] ELSE calls[f]
      BY DEF ConnInv
<1>. QED BY <1>2, <1>3, RaiseKeeps

LEMMA SendListKeeps == ASSUME ConnInv, NEW e \in Entities, SendList(e) PROVE ConnInv'
<1>1. PICK list \in owed[e] :
         owed' = [owed EXCEPT ![e] = @ \ {list}] /\ Raise(e, <<list>>)
      BY DEF SendList
<1>2. /\ DOMAIN owed' = Entities /\ \A f \in Entities : owed'[f] \subseteq owed[f]
      /\ UNCHANGED <<setup, test, conn, got, calls>>
      BY <1>1 DEF SendList, ConnInv
<1>3. Kind(e) = "server" /\ list \in Lists BY <1>1 DEF ConnInv
<1>4. Kind(e) \in DOMAIN Codes BY OfEntity
<1>5. list \in EventsOf(Kind(e)) BY <1>3, <1>4, KindsOfEvents
<1>6. conn[e] = "connected" BY DEF SendList
<1>7. list # "READY" /\ Goes(conn[e], list, conn[e])
      BY <1>3, <1>6, TellsWhat DEF Lists, Goes
<1>8. Becomes(e, conn[e], <<list>>) BY <1>1, <1>2 DEF Becomes, ConnInv
<1>. QED BY <1>2, <1>5, <1>6, <1>7, <1>8, TellKeeps

(* Only servers and projects reconnect. *)
LEMMA ReconnectingKind ==
    ASSUME ConnInv, NEW e \in Entities, setup[e].retries > 0
    PROVE  Kind(e) \in {"server", "project"}
<1>1. setup \in Setups BY DEF ConnInv
<1>2. Kind(e) \in DOMAIN Codes BY OfEntity
<1>3. Kind(e) \in {"publisher", "subscriber"} => setup[e].retries = 0
      BY <1>1, SetupsAssumption DEF Kind
<1>. QED BY <1>2, <1>3, KindsOfEvents

LEMMA LoseKeeps == ASSUME ConnInv, NEW e \in Entities, Lose(e) PROVE ConnInv'
<1>1. /\ conn[e] = "connected" /\ UNCHANGED <<setup, test, owed, calls, got>>
      /\ IF setup[e].retries > 0 THEN Become(e, "stale", <<"STALE">>)
         ELSE Become(e, "disconnected", <<"DISCONNECTED">>)
      BY DEF Lose
<1>2. DOMAIN owed' = Entities /\ \A f \in Entities : owed'[f] \subseteq owed[f]
      BY <1>1 DEF ConnInv
<1>3. Kind(e) \in DOMAIN Codes BY OfEntity
<1>4. CASE setup[e].retries > 0
  <2>1. Kind(e) \in {"server", "project"} BY <1>4, ReconnectingKind
  <2>2. "STALE" \in EventsOf(Kind(e)) BY <1>3, <2>1, KindsOfEvents
  <2>3. Goes(conn[e], "STALE", "stale") BY <1>1 DEF Goes
  <2>. QED BY <1>1, <1>2, <1>4, <2>1, <2>2, <2>3, BecomeSo, TellKeeps
<1>5. CASE ~(setup[e].retries > 0)
  <2>1. "DISCONNECTED" \in EventsOf(Kind(e)) BY <1>3, KindsOfEvents
  <2>2. Goes(conn[e], "DISCONNECTED", "disconnected") BY <1>1 DEF Goes
  <2>. QED BY <1>1, <1>2, <1>5, <2>1, <2>2, BecomeSo, TellKeeps
<1>. QED BY <1>4, <1>5

LEMMA RetryKeeps == ASSUME ConnInv, NEW e \in Entities, Retry(e) PROVE ConnInv'
<1>1. conn[e] = "stale" /\ UNCHANGED <<setup, test, owed, calls, got>> BY DEF Retry
<1>2. DOMAIN owed' = Entities /\ \A f \in Entities : owed'[f] \subseteq owed[f]
      BY <1>1 DEF ConnInv
<1>3. Kind(e) \in DOMAIN Codes /\ SoundNow(e) BY OfEntity
<1>4. Kind(e) \in {"server", "project"} BY <1>1, <1>3 DEF SoundNow, Sound
<1>5. CASE Become(e, "connected", <<"UPTODATE">>)
  <2>1. "UPTODATE" \in EventsOf(Kind(e)) BY <1>3, <1>4, KindsOfEvents
  <2>2. Goes(conn[e], "UPTODATE", "connected") BY <1>1 DEF Goes
  <2>. QED BY <1>1, <1>2, <1>5, <2>1, <2>2, BecomeSo, TellKeeps
<1>6. CASE Become(e, "disconnected", <<"DISCONNECTED">>)
  <2>1. "DISCONNECTED" \in EventsOf(Kind(e)) BY <1>3, KindsOfEvents
  <2>2. Goes(conn[e], "DISCONNECTED", "disconnected") BY <1>1 DEF Goes
  <2>. QED BY <1>1, <1>2, <1>6, <2>1, <2>2, BecomeSo, TellKeeps
<1>7. CASE UNCHANGED <<conn, raised, pending>>
  <2>1. \A f \in Entities : SoundNow(f) BY OfEntity
  <2>. QED BY <1>1, <1>7, <2>1 DEF ConnInv, SoundNow, Kind, Chosen
<1>. QED BY <1>5, <1>6, <1>7 DEF Retry

LEMMA UserCallKeeps == ASSUME ConnInv, NEW e \in Entities, UserCall(e) PROVE ConnInv'
<1>1. \A a : Asked(e, a) <=> Contains(calls[e], a) BY OfEntity
<1>2. calls[e] = <<>> => ~Contains(calls[e], "close") BY ContainsOne
<1>3. CASE Connect(e)
  <2>1. Call(e, "connect") /\ conn[e] # "closed" /\ calls[e] = <<>> BY <1>3 DEF Connect
  <2>. QED BY <1>2, <2>1, CallKeeps DEF CallNames
<1>4. CASE Disconnect(e)
  <2>1. Call(e, "disconnect") /\ conn[e] # "closed" /\ ~Asked(e, "close")
        BY <1>4 DEF Disconnect
  <2>. QED BY <1>1, <2>1, CallKeeps DEF CallNames
<1>5. CASE Close(e)
  <2>1. Call(e, "close") /\ conn[e] # "closed" /\ ~Asked(e, "close") BY <1>5 DEF Close
  <2>. QED BY <1>1, <2>1, CallKeeps DEF CallNames
<1>6. CASE Subscribe(e)
  <2>1. /\ Kind(e) = "subscriber" /\ conn[e] # "closed" /\ calls[e] = <<>>
        /\ Call(e, "subscribe") \/ Call(e, "unsubscribe")
        BY <1>6 DEF Subscribe
  <2>. QED BY <1>2, <2>1, CallKeeps DEF CallNames
<1>. QED BY <1>3, <1>4, <1>5, <1>6 DEF UserCall

(* One READY pending at most. *)
LEMMA Ready ==
    ASSUME ConnInv, NEW e \in Entities
    PROVE  Once(pending[e], "READY")
BY OfEntity DEF SoundNow, Sound, OneTurn

LEMMA DispatchKeeps == ASSUME ConnInv, NEW e \in Entities, Dispatch(e) PROVE ConnInv'
<1>. DEFINE served == [d \in Entities |-> IF d = e THEN <<Head(pending[e])>> ELSE <<>>]
<1>1. /\ pending[e] # <<>> /\ pending' = [pending EXCEPT ![e] = Tail(@)] /\ Deliver(served)
      BY DEF Dispatch
<1>2. /\ DOMAIN pending' = Entities
      /\ \A d \in Entities : pending'[d] = IF d = e THEN Tail(pending[e]) ELSE pending[d]
      BY <1>1 DEF ConnInv
<1>3. \A d \in Entities : served[d] = IF d = e THEN <<Head(pending[e])>> ELSE <<>>
      OBVIOUS
<1>. HIDE DEF served
<1>4. ASSUME NEW d \in Entities
      PROVE  /\ served[d] \in Seq(EventsOf(Kind(d))) /\ pending'[d] \in Seq(EventsOf(Kind(d)))
             /\ pending[d] = served[d] \o pending'[d]
             /\ Once(pending'[d], "READY")
             /\ ~(Contains(served[d], "READY") /\ Contains(pending'[d], "READY"))
  <2>1. PICK p \in Seq(EventsOf(Kind(d))) : p = pending[d] BY OfEntity
  <2>2. Once(p, "READY") BY <2>1, Ready
  <2>3. CASE d = e
    <3>1. p # <<>> BY <1>1, <2>1, <2>3
    <3>2. /\ Tail(p) \in Seq(EventsOf(Kind(d))) /\ <<Head(p)>> \in Seq(EventsOf(Kind(d)))
          /\ p = <<Head(p)>> \o Tail(p)
          BY <3>1, HeadAndTail
    <3>3. Once(Tail(p), "READY") /\ ~(Head(p) = "READY" /\ Contains(Tail(p), "READY"))
          BY <2>2, <3>1, ContainsTail
    <3>4. Contains(<<Head(p)>>, "READY") <=> Head(p) = "READY" BY ContainsOne
    <3>5. served[d] = <<Head(p)>> /\ pending'[d] = Tail(p) BY <1>2, <1>3, <2>1, <2>3
    <3>. QED BY ONLY <2>1, <3>2, <3>3, <3>4, <3>5
  <2>4. CASE d # e
    <3>1. served[d] = <<>> /\ pending'[d] = p BY <1>2, <1>3, <2>1, <2>4
    <3>2. <<>> \in Seq(EventsOf(Kind(d))) /\ <<>> \o p = p BY EmptySeq, ConcatEmptySeq
    <3>3. ~Contains(<<>>, "READY") BY ContainsOne
    <3>. QED BY ONLY <2>1, <2>2, <3>1, <3>2, <3>3
  <2>. QED BY <2>3, <2>4
<1>. QED BY <1>1, <1>2, <1>4, DeliverKeeps

LEMMA SelectKeeps == ASSUME ConnInv, Select PROVE ConnInv'
<1>. DEFINE served == [e \in Entities |-> IF e \in Selecting THEN pending[e] ELSE <<>>]
<1>1. /\ pending' = [e \in Entities |-> IF e \in Selecting THEN <<>> ELSE pending[e]]
      /\ Deliver(served)
      BY DEF Select
<1>2. /\ DOMAIN pending' = Entities
      /\ \A d \in Entities : /\ pending'[d] = IF d \in Selecting THEN <<>> ELSE pending[d]
                             /\ served[d] = IF d \in Selecting THEN pending[d] ELSE <<>>
      BY <1>1
<1>. HIDE DEF served
<1>3. ASSUME NEW d \in Entities
      PROVE  /\ served[d] \in Seq(EventsOf(Kind(d))) /\ pending'[d] \in Seq(EventsOf(Kind(d)))
             /\ pending[d] = served[d] \o pending'[d]
             /\ Once(pending'[d], "READY")
             /\ ~(Contains(served[d], "READY") /\ Contains(pending'[d], "READY"))
  <2>1. PICK p \in Seq(EventsOf(Kind(d))) : p = pending[d] BY OfEntity
  <2>2. Once(p, "READY") BY <2>1, Ready
  <2>3. <<>> \in Seq(EventsOf(Kind(d))) /\ <<>> \o p = p /\ p \o <<>> = p
        BY EmptySeq, ConcatEmptySeq
  <2>4. ~Contains(<<>>, "READY") /\ Once(<<>>, "READY") BY ContainsOne, OnceOne
  <2>5. \/ served[d] = p /\ pending'[d] = <<>>
        \/ served[d] = <<>> /\ pending'[d] = p
        BY <1>2, <2>1
  <2>. QED BY ONLY <2>1, <2>2, <2>3, <2>4, <2>5
<1>. QED BY <1>1, <1>2, <1>3, DeliverKeeps

LEMMA ConnStep == ConnInv /\ [Next]_vars => ConnInv'
<1> SUFFICES ASSUME ConnInv, [Next]_vars PROVE ConnInv'
  OBVIOUS
<1>1. CASE UNCHANGED vars
  <2>1. \A f \in Entities : SoundNow(f) BY OfEntity
  <2>. QED BY <1>1, <2>1 DEF ConnInv, SoundNow, Kind, Chosen, vars
<1>2. ASSUME NEW e \in Entities, UserCall(e) PROVE ConnInv' BY <1>2, UserCallKeeps
<1>3. ASSUME NEW e \in Entities, Update(e) PROVE ConnInv' BY <1>3, UpdateKeeps
<1>4. ASSUME NEW e \in Entities, SendList(e) PROVE ConnInv' BY <1>4, SendListKeeps
<1>5. ASSUME NEW e \in Entities, Lose(e) PROVE ConnInv' BY <1>5, LoseKeeps
<1>6. ASSUME NEW e \in Entities, Retry(e) PROVE ConnInv' BY <1>6, RetryKeeps
<1>7. ASSUME NEW e \in Entities, Dispatch(e) PROVE ConnInv' BY <1>7, DispatchKeeps
<1>8. CASE Select BY <1>8, SelectKeeps
<1>. QED BY <1>1, <1>2, <1>3, <1>4, <1>5, <1>6, <1>7, <1>8 DEF Next

(* The invariant has all that the events tell. *)
LEMMA InvTells == ConnInv => EventsTell
<1> SUFFICES ASSUME ConnInv PROVE EventsTell
  OBVIOUS
<1>0. setup \in Setups /\ test \in Tests BY DEF ConnInv
<1>1. ASSUME NEW e \in Entities
      PROVE  /\ SoundNow(e) /\ Kind(e) \in DOMAIN Codes
             /\ Chosen(e) \subseteq EventsOf(Kind(e)) /\ setup[e].events \subseteq Chosen(e)
             /\ Distinct(Kind(e)) => Chosen(e) = setup[e].events
             /\ got[e] \o pending[e] = Only(raised[e], Chosen(e))
             /\ raised[e] \in Seq(EventsOf(Kind(e))) /\ got[e] \in Seq(EventsOf(Kind(e)))
             /\ Telling(conn[e], raised[e])
  <2>1. SoundNow(e) BY OfEntity
  <2>2. /\ got[e] \o pending[e] = Only(raised[e], Chosen(e)) /\ Telling(conn[e], raised[e])
        /\ raised[e] \in Seq(EventsOf(Kind(e))) /\ got[e] \in Seq(EventsOf(Kind(e)))
        BY <2>1 DEF SoundNow, Sound
  <2>. QED BY <1>0, <2>1, <2>2, ChosenRight
<1>2. NoneMissed
  <2>1. SUFFICES ASSUME NEW e \in Entities
                 PROVE  LET registered == setup[e].events
                            told == got[e] \o pending[e]
                        IN  /\ Only(told, registered) = Only(raised[e], registered)
                            /\ Distinct(Kind(e)) => \A i \in DOMAIN told : told[i] \in registered
        BY DEF NoneMissed
  <2>. DEFINE R == setup[e].events
              told == Only(raised[e], Chosen(e))
  <2>2. Only(told, R) = Only(raised[e], R)
    <3>1. PICK s \in Seq(EventsOf(Kind(e))) : s = raised[e] BY <1>1
    <3>2. R \subseteq Chosen(e) BY <1>1
    <3>3. Only(Only(s, Chosen(e)), R) = Only(s, R) BY <3>2, OnlyTwice
    <3>. QED BY <3>1, <3>3
  <2>3. told \in Seq(Chosen(e)) BY <1>1, OnlyIn
  <2>4. \A i \in DOMAIN told : told[i] \in Chosen(e)
    <3>. HIDE DEF told
    <3>. QED BY <2>3, ElementOfSeq, LenProperties
  <2>5. Distinct(Kind(e)) => \A i \in DOMAIN told : told[i] \in R
    <3>1. Distinct(Kind(e)) => Chosen(e) = R BY <1>1
    <3>. HIDE DEF told, R
    <3>. QED BY <2>4, <3>1
  <2>6. got[e] \o pending[e] = told BY <1>1
  <2>. HIDE DEF told
  <2>. QED BY <2>2, <2>5, <2>6
<1>3. ViewRight
  <2>1. SUFFICES ASSUME NEW e \in Entities, pending[e] = <<>>,
                        setup[e].events = EventsOf(Kind(e))
                 PROVE  LET told == StateEvents(got[e])
                        IN  conn[e] = IF told = <<>> THEN "new" ELSE Tells[Last(told)]
        BY DEF ViewRight
  <2>2. Chosen(e) = EventsOf(Kind(e)) BY <1>1, <2>1
  <2>3. Only(raised[e], Chosen(e)) = raised[e] BY <1>1, <2>2, OnlyAll
  <2>4. got[e] \o <<>> = got[e] BY <1>1, ConcatEmptySeq
  <2>5. got[e] = raised[e] BY <1>1, <2>1, <2>3, <2>4
  <2>. QED BY <1>1, <2>5 DEF Telling
<1>4. Protocol BY <1>1 DEF Protocol, Telling
<1>5. OneCallPerReady
  <2>1. SUFFICES ASSUME NEW e \in Entities
                 PROVE  Count(pending[e], "READY") + Count(calls[e], "publish") <= 1
        BY DEF OneCallPerReady
  <2>2. PICK p \in Seq(EventsOf(Kind(e))), q \in Seq(CallNames) : p = pending[e] /\ q = calls[e]
        BY OfEntity
  <2>3. /\ Once(p, "READY") /\ Once(q, "publish")
        /\ Contains(p, "READY") => ~Contains(q, "publish")
        BY <1>1, <2>2 DEF SoundNow, Sound, OneTurn
  <2>4. PICK m \in Nat : /\ m = Count(p, "READY") /\ (m = 0 <=> ~Contains(p, "READY"))
                         /\ m <= 1
        BY <2>3, CountOnce
  <2>5. PICK n \in Nat : /\ n = Count(q, "publish") /\ (n = 0 <=> ~Contains(q, "publish"))
                         /\ n <= 1
        BY <2>3, CountOnce
  <2>6. m + n <= 1 BY <2>3, <2>4, <2>5
  <2>. QED BY <2>2, <2>4, <2>5, <2>6
<1>. QED BY <1>2, <1>3, <1>4, <1>5 DEF EventsTell

(* Whatever the setups, and however calls, losses, retries and deliveries   *)
(* interleave: no event registered for is missed, the events tell the      *)
(* state, follow the protocol and ask for one call at a time.              *)
THEOREM EventsTellTheState == Spec => []EventsTell
<1>1. Spec => []ConnInv BY ConnInit, ConnStep, PTL DEF Spec
<1>. QED BY <1>1, InvTells, PTL
=============================================================================

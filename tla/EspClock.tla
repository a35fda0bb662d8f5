------------------------------ MODULE EspClock ------------------------------
(***************************************************************************)
(* The clock interface of esp_project.h: the logical clock of a project,   *)
(* the components of the project that go by it, and clients that control   *)
(* it through an EspClock each, which is a copy of the clock's state as of *)
(* its last update.  Each component discovers a change on its own, within  *)
(* the maximum sleep time; the call that made the change knows nothing of  *)
(* the components and only waits for as long.                              *)
(***************************************************************************)
EXTENDS Integers, Sequences, FiniteSets, Functions

CONSTANTS Clients, Components,
          Rates,          \* of the clock; 2 is that of the system clock
          MaxSleep,       \* the maximum sleep time, in half ticks
          MaxChanges, MaxTime   \* bounds of the model: changes, and until when

ASSUME RatesAssumption == Rates \subseteq Nat \ {0}
ASSUME ClientsAssumption == IsFiniteSet(Clients)
ASSUME SleepAssumption == MaxSleep \in Nat \ {0}

VARIABLES clock,      \* the project's clock
          sys,        \* the system's, in half ticks
          debug,      \* the project is in debug mode
          made,       \* when each change was made
          seen,       \* of each component: the changes it has discovered
          runs,       \* ... and whether it takes the clock to run
          snap,       \* of each client: the pause count in its EspClock
          call,       \* of each client: the change its call waits for, or 0
          done,       \* of each client: the last change it made
          owes,       \* of each client: its pauses without a resume
          orderly     \* no client has resumed what it had not paused

clockVars == <<clock, sys, debug, made, seen, runs, snap, call, done, owes, orderly>>

(* A clock that goes with the system's. *)
RealClock(time, onDebug) == [rate |-> 2, time |-> time, real |-> TRUE, pauses |-> 0,
                             onDebug |-> onDebug, halted |-> FALSE]

Start == RealClock(0, FALSE)

ClockInit == /\ clock = Start
             /\ sys = 0 /\ debug = FALSE
             /\ made = <<>>
             /\ seen = [k \in Components |-> 0]
             /\ runs = [k \in Components |-> TRUE]
             /\ snap = [c \in Clients |-> 0]
             /\ call = [c \in Clients |-> 0]
             /\ done = [c \in Clients |-> 0]
             /\ owes = [c \in Clients |-> 0]
             /\ orderly = TRUE

Running == clock.pauses = 0 /\ ~clock.halted

-----------------------------------------------------------------------------
(* A change of the state that the components go by. *)
Alter(new) == /\ Len(made) < MaxChanges /\ sys <= MaxTime
              /\ clock' = new
              /\ made' = Append(made, sys)

(* ... by the call of a client. *)
Change(c, new) ==
    /\ call[c] = 0
    /\ Alter(new)
    /\ call' = [call EXCEPT ![c] = Len(made')]
    /\ done' = [done EXCEPT ![c] = Len(made')]
    /\ UNCHANGED <<sys, debug, seen, runs, snap>>

Owe(c) == owes' = [owes EXCEPT ![c] = @ + 1] /\ UNCHANGED orderly

(* Slip (RealMatches): a clock that is paused still counts as real. *)
PauseReal(c) == Change(c, [clock EXCEPT !.pauses = @ + 1]) /\ Owe(c)

Pause(c) == Change(c, [clock EXCEPT !.pauses = @ + 1, !.real = FALSE]) /\ Owe(c)

(* There is one count: a client may resume what others have paused.  What   *)
(* it does to a clock that is not paused is not said.                       *)
Resume(c) == /\ clock.pauses > 0
             /\ Change(c, [clock EXCEPT !.pauses = @ - 1])
             /\ owes' = [owes EXCEPT ![c] = IF @ > 0 THEN @ - 1 ELSE 0]
             /\ orderly' = (orderly /\ owes[c] > 0)

Set_Rate(c) == /\ \E rate \in Rates : Change(c, [clock EXCEPT !.rate = rate, !.real = FALSE])
               /\ UNCHANGED <<owes, orderly>>

(* To a time that is not the system's. *)
Set_Time(c) == /\ Change(c, [clock EXCEPT !.time = sys + 2, !.real = FALSE])
               /\ UNCHANGED <<owes, orderly>>

Set_Rate_Time(c) ==
    /\ \E rate \in Rates :
          Change(c, [clock EXCEPT !.rate = rate, !.time = sys + 2, !.real = FALSE])
    /\ UNCHANGED <<owes, orderly>>

(* The clock matches the system's again: pauses of any client have ended.  *)
Reset_To_Real(c) ==
    /\ Change(c, RealClock(sys, clock.onDebug))
    /\ owes' = [d \in Clients |-> 0]
    /\ UNCHANGED orderly

(* The caller's copy is left as it is. *)
Set_Pause_On_Debug(c) ==
    /\ call[c] = 0
    /\ clock' = [clock EXCEPT !.onDebug = ~@]
    /\ UNCHANGED <<sys, debug, made, seen, runs, snap, call, done, owes, orderly>>

(* The maximum sleep time is over: the call returns, and with it the latest *)
(* state of the clock.                                                      *)
Refresh(c) == snap' = [snap EXCEPT ![c] = clock.pauses]

(* Slip (ChangesArrive): the wait is a tick too short. *)
ReturnsEarly(c) == /\ call[c] > 0
                   /\ sys + 2 >= made[call[c]] + MaxSleep
                   /\ call' = [call EXCEPT ![c] = 0]
                   /\ Refresh(c)
                   /\ UNCHANGED <<clock, sys, debug, made, seen, runs, done, owes, orderly>>

Returns(c) == /\ call[c] > 0
              /\ sys >= made[call[c]] + MaxSleep
              /\ call' = [call EXCEPT ![c] = 0]
              /\ Refresh(c)
              /\ UNCHANGED <<clock, sys, debug, made, seen, runs, done, owes, orderly>>

UpdateClock(c) == /\ call[c] = 0 /\ Refresh(c)
                  /\ UNCHANGED <<clock, sys, debug, made, seen, runs, call, done, owes, orderly>>

-----------------------------------------------------------------------------
(* The project. *)

Discover(k) == /\ seen[k] < Len(made)
               /\ seen' = [seen EXCEPT ![k] = Len(made)]
               /\ runs' = [runs EXCEPT ![k] = Running]
               /\ UNCHANGED <<clock, sys, debug, made, snap, call, done, owes, orderly>>

(* No component sleeps through a change for the maximum sleep time. *)
Awake(k, now) == seen[k] < Len(made) => now < made[seen[k] + 1] + MaxSleep

Tick == /\ sys < MaxTime + MaxSleep
        /\ \A k \in Components : Awake(k, sys + 2)
        /\ sys' = sys + 2
        /\ clock' = IF Running THEN [clock EXCEPT !.time = @ + clock.rate] ELSE clock
        /\ UNCHANGED <<debug, made, seen, runs, snap, call, done, owes, orderly>>

(* The project is switched to debug mode and back. *)
Halts == ~debug /\ clock.onDebug

(* Slip (PauseHolds): the end of debug mode restarts the clock. *)
DebugRestarts ==
    /\ debug' = ~debug
    /\ IF clock.halted = Halts
         THEN UNCHANGED <<clock, made>>
         ELSE Alter([clock EXCEPT !.halted = Halts, !.real = @ /\ ~Halts,
                                  !.pauses = IF Halts THEN @ ELSE 0])
    /\ UNCHANGED <<sys, seen, runs, snap, call, done, owes, orderly>>

Debug == /\ debug' = ~debug
         /\ IF clock.halted = Halts
              THEN UNCHANGED <<clock, made>>
              ELSE Alter([clock EXCEPT !.halted = Halts, !.real = @ /\ ~Halts])
         /\ UNCHANGED <<sys, seen, runs, snap, call, done, owes, orderly>>

ClientStep(c) == \/ Pause(c) \/ Resume(c) \/ Set_Rate(c) \/ Set_Time(c) \/ Set_Rate_Time(c)
                 \/ Reset_To_Real(c) \/ Set_Pause_On_Debug(c) \/ Returns(c) \/ UpdateClock(c)

ClockNext == \/ \E c \in Clients : ClientStep(c)
             \/ \E k \in Components : Discover(k)
             \/ Tick \/ Debug

ClockSpec == ClockInit /\ [][ClockNext]_clockVars

-----------------------------------------------------------------------------
(* A clock that says it is real goes with the system's clock.               *)
RealMatches == clock.real => clock.time = sys /\ clock.rate = 2 /\ Running

(* When a client's call has returned, every component goes by its change,   *)
(* or by a later one, though the call asks no component: it has waited for  *)
(* as long as any of them may sleep.                                        *)
ChangesArrive == \A c \in Clients, k \in Components :
                     call[c] = 0 => seen[k] >= done[c]

(* A client that has paused the clock finds it paused, in every component   *)
(* and in its own copy, from the return of the call until it resumes or     *)
(* somebody resets the clock: whatever is paused, resumed, set and debugged *)
(* meanwhile, unless a client resumes more than it has paused.              *)
PauseHolds == orderly => \A c \in Clients :
                  owes[c] > 0 /\ call[c] = 0 =>
                      snap[c] > 0 /\ \A k \in Components : ~runs[k]
=============================================================================

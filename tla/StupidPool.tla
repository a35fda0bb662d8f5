----------------------------- MODULE StupidPool -----------------------------
(***************************************************************************)
(* EventReceiver.StupidPool: byte arrays in the slots of an                *)
(* AtomicReferenceArray, taken out and put back by compareAndSet after a   *)
(* scan from slot 0, by any number of threads without a lock.  A slot that *)
(* changes between the read and the compareAndSet is skipped, not retried. *)
(* The two statistics are plain static ints: an increment is a read and a  *)
(* write, and two of them may be one.                                      *)
(*                                                                         *)
(* MaxCalls bounds the calls of getBA(), and with them the statistics.      *)
(***************************************************************************)
EXTENDS Naturals, FiniteSets

CONSTANTS Thread, Buffer, NoBuffer,
          Size,        \* new StupidPool(2048)
          MaxCalls     \* bound on the calls of getBA()

ASSUME PoolAssumption == NoBuffer \notin Buffer /\ Size \in Nat /\ MaxCalls \in Nat

VARIABLES pool,          \* the slots
          pc, slot, ba,     \* of a call: where it is, its loop index and array
          held,          \* held[t]: the arrays the code of thread t works on
          success, fail, \* the statistics
          read,          \* the value an increment has read
          calls          \* the calls of getBA() so far (history)

callVars == <<pc, slot, ba, read>>
statVars == <<success, fail>>
poolVars == <<pool, pc, slot, ba, held, success, fail, read, calls>>

Slot == 0 .. Size - 1

PoolInit == /\ pool = [s \in Slot |-> NoBuffer]
            /\ pc = [t \in Thread |-> "idle"]
            /\ slot = [t \in Thread |-> 0]
            /\ ba = [t \in Thread |-> NoBuffer]
            /\ held = [t \in Thread |-> {}]
            /\ success = 0 /\ fail = 0 /\ calls = 0
            /\ read = [t \in Thread |-> 0]

At(t, l)  == pc[t] = l
GoTo(t, l) == pc' = [pc EXCEPT ![t] = l]

(* A loop's next iteration. *)
NextSlot(t) == slot' = [slot EXCEPT ![t] = @ + 1]

(* An array nobody refers to: what "new byte[1500]" may answer. *)
Fresh(b) == /\ \A s \in Slot : pool[s] # b
            /\ \A t \in Thread : ba[t] # b /\ b \notin held[t]

-----------------------------------------------------------------------------
GetStart(t) == /\ At(t, "idle") /\ calls < MaxCalls
               /\ GoTo(t, "get") /\ slot' = [slot EXCEPT ![t] = 0]
               /\ calls' = calls + 1
               /\ UNCHANGED <<pool, ba, held, read, statVars>>

(* ba = pool.get(i) *)
GetRead(t) == /\ At(t, "get") /\ slot[t] < Size
              /\ IF pool[slot[t]] = NoBuffer
                   THEN NextSlot(t) /\ UNCHANGED <<pc, ba>>
                   ELSE /\ ba' = [ba EXCEPT ![t] = pool[slot[t]]]
                        /\ GoTo(t, "take") /\ UNCHANGED slot
              /\ UNCHANGED <<pool, held, read, statVars, calls>>

(* Slips: the slot is emptied without a compareAndSet (Exclusive); a lost  *)
(* race counts as a failure (NeverOvercounted); it is retried (BoundedCall). *)
GetSet(t) == /\ At(t, "take")
             /\ pool' = [pool EXCEPT ![slot[t]] = NoBuffer]
             /\ GoTo(t, "taken")
             /\ UNCHANGED <<slot, ba, held, read, statVars, calls>>

GetCasCounted(t) ==
    /\ At(t, "take")
    /\ IF pool[slot[t]] = ba[t]
         THEN /\ pool' = [pool EXCEPT ![slot[t]] = NoBuffer]
              /\ GoTo(t, "taken") /\ UNCHANGED <<slot, ba, fail>>
         ELSE /\ ba' = [ba EXCEPT ![t] = NoBuffer] /\ fail' = fail + 1
              /\ NextSlot(t) /\ GoTo(t, "get") /\ UNCHANGED pool
    /\ UNCHANGED <<held, read, success, calls>>

GetCasRetried(t) ==
    /\ At(t, "take")
    /\ IF pool[slot[t]] = ba[t]
         THEN /\ pool' = [pool EXCEPT ![slot[t]] = NoBuffer]
              /\ GoTo(t, "taken") /\ UNCHANGED ba
         ELSE /\ ba' = [ba EXCEPT ![t] = NoBuffer]
              /\ GoTo(t, "get") /\ UNCHANGED pool
    /\ UNCHANGED <<slot, held, read, statVars, calls>>

(* pool.compareAndSet(i, ba, null) *)
GetCas(t) == /\ At(t, "take")
             /\ IF pool[slot[t]] = ba[t]
                  THEN /\ pool' = [pool EXCEPT ![slot[t]] = NoBuffer]
                       /\ GoTo(t, "taken") /\ UNCHANGED <<slot, ba>>
                  ELSE /\ ba' = [ba EXCEPT ![t] = NoBuffer]
                       /\ NextSlot(t) /\ GoTo(t, "get") /\ UNCHANGED pool
             /\ UNCHANGED <<held, read, statVars, calls>>

(* success++; return ba *)
ReadSuccess(t) == /\ At(t, "taken")
                  /\ read' = [read EXCEPT ![t] = success] /\ GoTo(t, "hit")
                  /\ UNCHANGED <<pool, slot, ba, held, statVars, calls>>
GetHit(t) == /\ At(t, "hit")
             /\ success' = read[t] + 1
             /\ held' = [held EXCEPT ![t] = @ \cup {ba[t]}]
             /\ ba' = [ba EXCEPT ![t] = NoBuffer] /\ GoTo(t, "idle")
             /\ UNCHANGED <<pool, slot, read, fail, calls>>

(* No slot had an array for us: fail++; return new byte[1500] *)
ReadFail(t) == /\ At(t, "get") /\ slot[t] = Size
               /\ read' = [read EXCEPT ![t] = fail] /\ GoTo(t, "miss")
               /\ UNCHANGED <<pool, slot, ba, held, statVars, calls>>
(* Slip (PoolTypeOK): null is answered. *)
GetNull(t) == /\ At(t, "miss")
              /\ fail' = read[t] + 1
              /\ held' = [held EXCEPT ![t] = @ \cup {NoBuffer}] /\ GoTo(t, "idle")
              /\ UNCHANGED <<pool, slot, ba, read, success, calls>>
GetMiss(t) == /\ At(t, "miss")
              /\ fail' = read[t] + 1
              /\ \E b \in Buffer : Fresh(b) /\ held' = [held EXCEPT ![t] = @ \cup {b}]
              /\ GoTo(t, "idle")
              /\ UNCHANGED <<pool, slot, ba, read, success, calls>>

-----------------------------------------------------------------------------
ReturnStart(t, b) == /\ At(t, "idle") /\ b \in held[t]
                     /\ held' = [held EXCEPT ![t] = @ \ {b}]
                     /\ ba' = [ba EXCEPT ![t] = b] /\ slot' = [slot EXCEPT ![t] = 0]
                     /\ GoTo(t, "return")
                     /\ UNCHANGED <<pool, read, statVars, calls>>

(* pool.get(i) == null *)
ReturnRead(t) == /\ At(t, "return") /\ slot[t] < Size
                 /\ IF pool[slot[t]] = NoBuffer
                      THEN GoTo(t, "put") /\ UNCHANGED slot
                      ELSE NextSlot(t) /\ UNCHANGED pc
                 /\ UNCHANGED <<pool, ba, held, read, statVars, calls>>

(* Slip (ImplementsPool): the slot is set without a compareAndSet. *)
ReturnSet(t) == /\ At(t, "put")
                /\ pool' = [pool EXCEPT ![slot[t]] = ba[t]]
                /\ ba' = [ba EXCEPT ![t] = NoBuffer] /\ GoTo(t, "idle")
                /\ UNCHANGED <<slot, held, read, statVars, calls>>

(* pool.compareAndSet(i, null, ba) *)
ReturnCas(t) == /\ At(t, "put")
                /\ IF pool[slot[t]] = NoBuffer
                     THEN /\ pool' = [pool EXCEPT ![slot[t]] = ba[t]]
                          /\ ba' = [ba EXCEPT ![t] = NoBuffer]
                          /\ GoTo(t, "idle") /\ UNCHANGED slot
                     ELSE NextSlot(t) /\ GoTo(t, "return") /\ UNCHANGED <<pool, ba>>
                /\ UNCHANGED <<held, read, statVars, calls>>

(* No slot was free: the array is garbage. *)
ReturnFull(t) == /\ At(t, "return") /\ slot[t] = Size
                 /\ ba' = [ba EXCEPT ![t] = NoBuffer] /\ GoTo(t, "idle")
                 /\ UNCHANGED <<pool, slot, held, read, statVars, calls>>

-----------------------------------------------------------------------------
Get(t)    == \/ GetRead(t) \/ GetCas(t)
             \/ ReadSuccess(t) \/ GetHit(t) \/ ReadFail(t) \/ GetMiss(t)
Return(t) == ReturnRead(t) \/ ReturnCas(t) \/ ReturnFull(t)

(* The bound is used up and every array has been returned. *)
PoolQuiescent == /\ calls = MaxCalls
                 /\ \A t \in Thread : At(t, "idle") /\ held[t] = {}
                 /\ UNCHANGED poolVars

PoolNext == \/ \E t \in Thread : \/ GetStart(t) \/ Get(t) \/ Return(t)
                                 \/ \E b \in held[t] : ReturnStart(t, b)
            \/ PoolQuiescent

PoolSpec == PoolInit /\ [][PoolNext]_poolVars

-----------------------------------------------------------------------------
Labels == {"idle", "get", "take", "taken", "hit", "miss", "return", "put"}

PoolTypeOK == /\ pool \in [Slot -> Buffer \cup {NoBuffer}]
              /\ pc \in [Thread -> Labels] /\ slot \in [Thread -> 0 .. Size]
              /\ \A t \in Thread : pc[t] \in {"take", "put"} => slot[t] < Size
              /\ ba \in [Thread -> Buffer \cup {NoBuffer}]
              /\ \A t \in Thread : ba[t] = NoBuffer <=> pc[t] \in {"idle", "get", "miss"}
              /\ held \in [Thread -> SUBSET Buffer]
              /\ success \in Nat /\ fail \in Nat /\ read \in [Thread -> Nat]
              /\ calls \in 0 .. MaxCalls

(* The array a call has taken out and not yet handed to its caller, or has *)
(* got from its caller and not yet put back.                               *)
InCall(t) == IF pc[t] \in {"taken", "hit", "return", "put"} THEN {ba[t]} ELSE {}

Lent == [t \in Thread |-> held[t] \cup InCall(t)]

Pooled == { pool[s] : s \in Slot } \ {NoBuffer}

(* No two threads work on one array, none works on a pooled one, and no    *)
(* array is in two slots, although a compareAndSet may succeed on an array *)
(* that has been away in between (EventReceiver.java:190-211).             *)
Exclusive ==
    /\ \A t, u \in Thread : t # u => Lent[t] \cap Lent[u] = {}
    /\ \A t \in Thread : Lent[t] \cap Pooled = {} /\ InCall(t) \cap held[t] = {}
    /\ \A s, r \in Slot : s # r /\ pool[s] # NoBuffer => pool[s] # pool[r]

(* The unsynchronised statistics may lose calls but never invent one:      *)
(* "SUCC ... fail ..." is a lower bound (EventReceiver.java:200-214).      *)
NeverOvercounted == success + fail <= calls

(* The lock-free pool implements the pool that lends one thread at a time. *)
Lending == INSTANCE BufferPool WITH pooled <- Pooled, lent <- Lent
ImplementsPool == Lending!Spec

(* How many steps of its own thread a call still needs, at most. *)
StepsLeft(t) ==
    CASE pc[t] \in {"get", "return"} -> 2 * (Size - slot[t]) + 3
      [] pc[t] \in {"take", "put"}   -> 2 * (Size - slot[t]) + 2
      [] pc[t] = "taken"             -> 2
      [] pc[t] \in {"hit", "miss"}   -> 1
      [] OTHER                       -> 0

(* Wait-freedom: every step of a call brings its end nearer and no step of *)
(* another thread puts it off, however often the slots change meanwhile.   *)
BoundedCall ==
    [][\A t \in Thread :
          ~At(t, "idle") => \/ StepsLeft(t)' < StepsLeft(t)
                            \/ UNCHANGED <<pc[t], slot[t]>>]_poolVars
=============================================================================

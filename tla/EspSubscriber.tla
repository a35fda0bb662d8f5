---------------------------- MODULE EspSubscriber ----------------------------
(***************************************************************************)
(* EspSubscriber (esp_subscriber.h) in DIRECT access mode, subscribed to a *)
(* window that somebody publishes to, with a user that rebuilds the window *)
(* from the events it takes.                                               *)
(*                                                                         *)
(*   project: window --> queue of the subscription --> get_next_event()    *)
(*                                         user: row by row --> replica    *)
(*                                                                         *)
(* opt: flags are the subscription flags, size the subscription's queue    *)
(* size in the project, pulsed whether changes are consolidated.           *)
(***************************************************************************)
EXTENDS EspWindow, FiniteSets

CONSTANTS Messages,      \* what is published: units of rows
          Options, MaxMessages   \* a bound of the model

Flags == {"LOSSY", "NOBASE", "DROPPABLE", "PRESERVE_BLOCKS", "SHINETHROUGH"}

(* The rows of the schema; of those to delete the key is enough. *)
Rows == {row \in [op : Ops, cells : Seq(Keys \cup Values \cup {Null, Shine})] :
            /\ row.cells # <<>> /\ Key(row) \in Keys
            /\ row.op \in {"DELETE", "SAFEDELETE"} \/ Len(row.cells) = NumColumns}

ASSUME MessagesAssumption == \A u \in Messages : u.rows \in Seq(Rows)

ASSUME SubscriberAssumption ==
    \A o \in Options : o.flags \subseteq Flags /\ o.size \in Nat \ {0} /\ o.pulsed \in BOOLEAN

VARIABLES opt,
          window,    \* of the project
          published, \* messages so far
          changed,   \* keys changed since the last pulse
          sub,       \* "created", "connected", "on", "ended" or "closed"
          queue,     \* events for the subscriber
          held,      \* the event the user has taken and not freed
          rows,      \* its rows not yet read
          replica,   \* what the user has made of the rows
          warned,    \* the user has taken a DATA_LOST event
          base, past \* history: the window subscribed to; since then, after each message

userVars == <<held, rows, replica, warned>>
vars == <<opt, window, published, changed, sub, queue, userVars, base, past>>

NoEvent  == [type |-> "none", rows |-> <<>>]
Data(s)  == [type |-> "DATA", rows |-> s]
Other(t) == [type |-> t, rows |-> <<>>]

Has_Flag(f) == f \in opt.flags

Init == /\ opt \in Options
        /\ window = <<>> /\ published = 0 /\ changed = {}
        /\ sub = "created" /\ queue = <<>>
        /\ held = NoEvent /\ rows = <<>> /\ replica = <<>> /\ warned = FALSE
        /\ base = <<>> /\ past = {}

-----------------------------------------------------------------------------
(* The project. *)

(* What a row that passed has done to w, as the subscriber gets to see it:  *)
(* with SHINETHROUGH, cells without new data are shinethrough.             *)
Delta(w, row) ==
    LET new == Merged(w, row)
    IN  IF row.op \in {"DELETE", "SAFEDELETE"} THEN [op |-> "DELETE", cells |-> row.cells]
        ELSE IF ~Has(w, row) THEN [op |-> "INSERT", cells |-> new]
        ELSE [op |-> "UPDATE",
              cells |-> [j \in DOMAIN new |->
                           IF j > 1 /\ Has_Flag("SHINETHROUGH") /\ new[j] = w[Key(row)][j]
                             THEN Shine ELSE new[j]]]

Effective(w, row) == row.op # "NOOP" /\ (row.op = "SAFEDELETE" => Has(w, row))

Deltas(u) ==
    LET before(i) == After(window, u.rows)[i - 1]
        all == [i \in DOMAIN u.rows |->
                  IF i \in Passing(window, u) /\ Effective(before(i), u.rows[i])
                    THEN <<Delta(before(i), u.rows[i])>> ELSE <<>>]
    IN  FlattenSeq(all)

(* Slip (BlocksKept): a row is an event, whatever the flags. *)
DataEventsSingle(deltas) == [i \in DOMAIN deltas |-> Data(<<deltas[i]>>)]

(* One event for a message if blocks are preserved, else one for each row. *)
DataEvents(deltas) ==
    IF deltas = <<>> THEN <<>>
    ELSE IF Has_Flag("PRESERVE_BLOCKS") THEN <<Data(deltas)>>
    ELSE [i \in DOMAIN deltas |-> Data(<<deltas[i]>>)]

(* The data of the subscription beyond the base, in the queue q. *)
Live(q) == LET ends == {i \in DOMAIN q : q[i].type = "SYNC_END"}
           IN  {i \in DOMAIN q : q[i].type = "DATA" /\ \A e \in ends : e < i}

(* The n oldest data give way to a warning, if there is none before them.  *)
Shed(q, n) ==
    LET nth(k) == CHOOSE i \in Live(q) : Cardinality({j \in Live(q) : j <= i}) = k
        before == SubSeq(q, 1, nth(1) - 1)
        rest == SubSeq(q, nth(n) + 1, Len(q))
        warning == Other("DATA_LOST")
    IN  IF before # <<>> /\ Last(before) = warning THEN before \o rest
        ELSE Append(before, warning) \o rest

Full(q) == Cardinality(Live(q)) > opt.size

(* The queue with more events, by the subscription's flags; when neither    *)
(* flag is set the project waits.                                          *)
Queued(new) ==
    LET q == queue \o new
        n == Cardinality(Live(q)) - opt.size
    IN  IF ~Full(q) THEN q
        ELSE IF Has_Flag("LOSSY") THEN Shed(q, n)
        ELSE <<Other("DISCONNECTED")>>

MayQueue(new) == Full(queue \o new) => Has_Flag("LOSSY") \/ Has_Flag("DROPPABLE")
Drops(new)    == Full(queue \o new) /\ ~Has_Flag("LOSSY")

Deliver(new) == /\ MayQueue(new)
                /\ queue' = Queued(new)
                /\ sub' = IF Drops(new) THEN "ended" ELSE sub

(* A message is processed. *)
Publish(u) ==
    /\ published < MaxMessages /\ published' = published + 1
    /\ window' = Processed(window, u)
    /\ IF sub = "on"
         THEN /\ past' = past \cup {window'}
              /\ IF opt.pulsed
                   THEN /\ changed' = changed \cup {Key(d) : d \in ToSet(Deltas(u))}
                        /\ UNCHANGED <<queue, sub>>
                   ELSE Deliver(DataEvents(Deltas(u))) /\ UNCHANGED changed
         ELSE UNCHANGED <<past, changed, queue, sub>>
    /\ UNCHANGED <<opt, userVars, base>>

(* The latest state of a key. *)
State(k) == IF k \in DOMAIN window THEN [op |-> "UPSERT", cells |-> window[k]]
                                   ELSE [op |-> "SAFEDELETE", cells |-> <<k>>]

(* Slip (Converges): keys that are gone are not consolidated. *)
ConsolidatedKept(keys) ==
    LET ks == SetToSeq(keys \cap DOMAIN window) IN [i \in DOMAIN ks |-> State(ks[i])]

Consolidated(keys) == LET ks == SetToSeq(keys) IN [i \in DOMAIN ks |-> State(ks[i])]

(* Slip (CatchesUp): the changes are forgotten. *)
PulseLost == /\ sub = "on" /\ changed # {}
             /\ changed' = {}
             /\ UNCHANGED <<opt, window, published, sub, queue, userVars, base, past>>

(* The pulse interval is over. *)
Pulse == /\ sub = "on" /\ changed # {}
         /\ Deliver(<<Data(Consolidated(changed))>>)
         /\ changed' = {}
         /\ UNCHANGED <<opt, window, published, userVars, base, past>>

(* The subscription ends with an event; some of the queue may be gone.      *)
EndWith(type, q) == /\ sub = "on" /\ sub' = "ended"
                    /\ queue' = Append(q, Other(type))
                    /\ UNCHANGED <<opt, window, published, changed, userVars, base, past>>

(* The base has not been read in time. *)
BaseTimeout == Contains(queue, Other("SYNC_END")) /\ EndWith("DISCONNECTED", <<>>)

Disconnect == \E q \in Prefixes(queue) : EndWith("DISCONNECTED", q)

StreamExit == EndWith("STREAM_EXIT", queue)

-----------------------------------------------------------------------------
(* The user. *)
Connect == /\ sub = "created" /\ sub' = "connected"
           /\ UNCHANGED <<opt, window, published, changed, queue, userVars, base, past>>

(* The base data is a group of inserts between SYNC_START and SYNC_END. *)
BaseEvents == LET ks == SetToSeq(DOMAIN window)
                  inserts == [i \in DOMAIN ks |-> [op |-> "INSERT", cells |-> window[ks[i]]]]
              IN  <<Other("SYNC_START")>>
                     \o (IF inserts = <<>> THEN <<>> ELSE <<Data(inserts)>>)
                     \o <<Other("SYNC_END")>>

(* The request reaches the project.  One that the user makes before connect *)
(* is sent when the connection is there, which is this step too.           *)
Subscribe == /\ sub = "connected" /\ sub' = "on"
             /\ queue' = IF Has_Flag("NOBASE") THEN <<>> ELSE BaseEvents
             /\ base' = window /\ past' = {window}
             /\ UNCHANGED <<opt, window, published, changed, userVars>>

NextEvent == /\ sub \in {"on", "ended"} /\ held = NoEvent /\ queue # <<>>
             /\ held' = Head(queue) /\ queue' = Tail(queue)
             /\ rows' = Head(queue).rows
             /\ warned' = (warned \/ Head(queue).type = "DATA_LOST")
             /\ UNCHANGED <<opt, window, published, changed, sub, replica, base, past>>

(* A row is read column by column: null, shinethrough or a value.           *)
Taken(row) ==
    [row EXCEPT !.op = IF @ \in {"DELETE", "SAFEDELETE"} THEN "SAFEDELETE" ELSE "UPSERT"]

Take(w, row) == Apply(w, Taken(row))

NextRow == /\ held # NoEvent /\ rows # <<>>
           /\ replica' = Take(replica, Head(rows)) /\ rows' = Tail(rows)
           /\ UNCHANGED <<opt, window, published, changed, sub, queue, held, warned, base, past>>

FreeEvent == /\ held # NoEvent /\ rows = <<>>
             /\ held' = NoEvent
             /\ UNCHANGED <<opt, window, published, changed, sub, queue, rows, replica,
                            warned, base, past>>

Close == /\ sub \in {"connected", "on", "ended"} /\ held = NoEvent
         /\ sub' = "closed" /\ queue' = <<>> /\ changed' = {}
         /\ UNCHANGED <<opt, window, published, userVars, base, past>>

ProjectStep == \/ \E u \in Messages : Publish(u)
               \/ Pulse \/ BaseTimeout \/ Disconnect \/ StreamExit

UserStep == NextEvent \/ NextRow \/ FreeEvent

Next == ProjectStep \/ UserStep \/ Connect \/ Subscribe \/ Close

Spec == Init /\ [][Next]_vars

(* The user reads on and pulses come. *)
FairSpec == Spec /\ WF_vars(UserStep) /\ WF_vars(Pulse)

-----------------------------------------------------------------------------
(* The window the user will have when it has read all that is queued. *)
RowsIn(q) == FlattenSeq([i \in DOMAIN q |-> q[i].rows])
Read(w, s) == ApplyEach(w, [i \in DOMAIN s |-> Taken(s[i])])
Expected == Read(replica, rows \o RowsIn(queue))

Warning == warned \/ Contains(queue, Other("DATA_LOST"))

(* A copy c of w is right but for the keys K; without a base it has what    *)
(* the user could know.                                                    *)
Agree(c, w, K) ==
    IF Has_Flag("NOBASE")
      THEN \A k \in DOMAIN c \ K :
              k \in DOMAIN w /\ \A j \in DOMAIN w[k] : c[k][j] \in {w[k][j], Null}
      ELSE \A k \in (DOMAIN c \cup DOMAIN w) \ K :
              k \in DOMAIN c /\ k \in DOMAIN w /\ c[k] = w[k]

(* Unless the user is told of lost data, the events that are on their way   *)
(* make its copy the project's window, but for keys a pulse will bring up   *)
(* to date: whatever the operations, transactions, flags and packaging.    *)
Converges == sub = "on" /\ ~Warning => Agree(Expected, window, changed)

(* With PRESERVE_BLOCKS the user's copy is, from SYNC_END on and after      *)
(* every event, a window the project has had: it never shows a part of the *)
(* base or of a transaction.                                               *)
BlocksKept ==
    /\ Has_Flag("PRESERVE_BLOCKS") /\ ~opt.pulsed /\ ~Has_Flag("NOBASE")
    /\ sub = "on" /\ ~warned /\ rows = <<>> /\ ~Contains(queue, Other("SYNC_END"))
    => replica \in past

(* A subscriber that reads gets up to date once the window rests, unless it *)
(* has been told of lost data or is not subscribed any more; and it never   *)
(* stops the project for good: its queue, once filled, is empty again.     *)
CatchesUp ==
    /\ (sub = "on" /\ published = MaxMessages /\ ~Has_Flag("NOBASE"))
            ~> (replica = window \/ warned \/ sub # "on")
    /\ (sub = "on" /\ Live(queue) # {}) ~> (Live(queue) = {} \/ sub # "on")
=============================================================================

--------------------------- MODULE EspConnection ----------------------------
(***************************************************************************)
(* The life of the SDK's entities in CALLBACK and SELECTION access mode: a *)
(* server, the projects in it, their publishers and subscribers.  Calls    *)
(* return at once; the SDK's updater thread carries them out, in order for *)
(* each entity, and raises events; a dispatcher thread hands those the     *)
(* user registered for to the callback handler, or esp_selector_select()   *)
(* returns them.                                                           *)
(*                                                                         *)
(*   user --calls--> updater --pending--> dispatcher or selector --> user  *)
(***************************************************************************)
EXTENDS EspEvents, SequencesExt, FiniteSetsExt, Naturals

CONSTANTS Entities,
          Setups,     \* what the entities are, their options and registered events
          MaxLosses, MaxErrors, MaxCalls   \* bounds: losses, failed calls, publishes

ASSUME SetupsAssumption ==
    \A s \in Setups, e \in Entities :
        /\ s[e].kind \in DOMAIN Codes
        /\ s[e].mode \in {"callback", "select"}
        /\ s[e].retries \in Nat   \* only servers and projects reconnect
        /\ s[e].kind \in {"publisher", "subscriber"} => s[e].retries = 0
        /\ s[e].parent \in Entities   \* the entity itself, if it was got by URI
        /\ s[e].events \subseteq EventsOf(s[e].kind)

VARIABLES setup, test,
          conn,       \* "new", "connected", "stale", "disconnected" or "closed"
          tries,      \* attempts to reconnect since the entity is stale
          owed,       \* list events a server has still to send
          calls,      \* calls the updater has to carry out
          raised,     \* all events raised, for the properties
          pending,    \* events the dispatcher or the selector has to deliver
          got,        \* events delivered
          losses, publishes

vars == <<setup, test, conn, tries, owed, calls, raised, pending, got, losses, publishes>>

Lists == {"MANAGER_LIST_CHANGE", "CONTROLLER_LIST_CHANGE",
          "WORKSPACE_LIST_CHANGE", "APPLICATION_LIST_CHANGE"}

Kind(e)   == setup[e].kind
Parent(e) == setup[e].parent

(* The events a handler or selector is told of. *)
Chosen(e) == {x \in EventsOf(Kind(e)) : Selected(Kind(e), test, setup[e].events, x)}

Count(seq, x) == Cardinality({i \in DOMAIN seq : seq[i] = x})

Only(seq, wanted) ==
    LET kept[i \in 0 .. Len(seq)] ==
            IF i = 0 THEN <<>>
            ELSE IF seq[i] \in wanted THEN Append(kept[i - 1], seq[i]) ELSE kept[i - 1]
    IN  kept[Len(seq)]

Init == /\ setup \in Setups /\ test \in Tests
        /\ conn = [e \in Entities |-> "new"]
        /\ tries = [e \in Entities |-> 0]
        /\ owed = [e \in Entities |-> IF Kind(e) = "server" THEN Lists ELSE {}]
        /\ calls = [e \in Entities |-> <<>>]
        /\ raised = [e \in Entities |-> <<>>]
        /\ pending = [e \in Entities |-> <<>>]
        /\ got = [e \in Entities |-> <<>>]
        /\ losses = 0
        /\ publishes = [e \in Entities |-> 0]

-----------------------------------------------------------------------------
(* Calls of the user. *)
Call(e, call) == /\ calls' = [calls EXCEPT ![e] = Append(@, call)]
                 /\ UNCHANGED <<setup, test, conn, tries, owed, raised, pending, got,
                                losses, publishes>>

Asked(e, call) == \E i \in DOMAIN calls[e] : calls[e][i] = call

(* A project of a server can be got once the list of applications has come, *)
(* and a publisher or subscriber once its project has connected.            *)
Available(e) ==
    \/ Parent(e) = e
    \/ LET last == IF Kind(Parent(e)) = "server" THEN "APPLICATION_LIST_CHANGE"
                   ELSE "CONNECTED"
       IN  \E i \in DOMAIN got[Parent(e)] : got[Parent(e)][i] = last

Connect(e) == /\ Available(e) /\ conn[e] = "new" /\ calls[e] = <<>>
              /\ Count(raised[e], "ERROR") < MaxErrors
              /\ Call(e, "connect")

Disconnect(e) == /\ conn[e] \in {"connected", "stale"}
                 /\ ~Asked(e, "disconnect") /\ ~Asked(e, "close")
                 /\ Call(e, "disconnect")

(* Closed entities accept no commands. *)
Close(e) == /\ Available(e) /\ conn[e] # "closed" /\ ~Asked(e, "close")
            /\ Call(e, "close")

Subscribe(e) == /\ Kind(e) = "subscriber" /\ conn[e] = "connected" /\ calls[e] = <<>>
                /\ \/ /\ Count(raised[e], "SUBSCRIBED") = Count(raised[e], "UNSUBSCRIBED")
                      /\ Count(raised[e], "SUBSCRIBED") < MaxCalls
                      /\ Call(e, "subscribe")
                   \/ /\ Count(raised[e], "SUBSCRIBED") > Count(raised[e], "UNSUBSCRIBED")
                      /\ Call(e, "unsubscribe")

-----------------------------------------------------------------------------
(* The updater. *)
(* Slip (EventsTell): the latest event is delivered first. *)
RaiseFirst(e, events) ==
    /\ raised' = [raised EXCEPT ![e] = @ \o events]
    /\ pending' = [pending EXCEPT ![e] = Only(events, Chosen(e)) \o @]

Raise(e, events) ==
    /\ raised' = [raised EXCEPT ![e] = @ \o events]
    /\ pending' = [pending EXCEPT ![e] = @ \o Only(events, Chosen(e))]

Become(e, state, events) == conn' = [conn EXCEPT ![e] = state] /\ Raise(e, events)

Connecting(e) == IF conn[e] # "new" THEN Become(e, conn[e], <<"ERROR">>)
                 ELSE \/ Become(e, "new", <<"ERROR">>)
                      \/ Become(e, "connected", IF Kind(e) = "publisher"
                                                  THEN <<"CONNECTED", "READY">>
                                                  ELSE <<"CONNECTED">>)

Disconnecting(e) == IF conn[e] \in {"connected", "stale"}
                      THEN Become(e, "disconnected", <<"DISCONNECTED">>)
                      ELSE Become(e, conn[e], <<"ERROR">>)

(* Closing a connected entity disconnects it first. *)
Closing(e) == Become(e, "closed", IF conn[e] \in {"connected", "stale"}
                                    THEN <<"DISCONNECTED", "CLOSED">>
                                    ELSE <<"CLOSED">>)

(* Slip (NobodyStuck): a publisher that has published is not ready again. *)
PublishingOnce(e) == IF conn[e] = "connected" THEN Become(e, conn[e], <<>>)
                     ELSE Become(e, conn[e], <<"ERROR">>)

(* A publisher is ready again when it has published. *)
Publishing(e) == IF conn[e] = "connected" THEN Become(e, conn[e], <<"READY">>)
                 ELSE Become(e, conn[e], <<"ERROR">>)

Subscribing(e, done) == IF conn[e] = "connected" THEN Become(e, conn[e], <<done>>)
                        ELSE Become(e, conn[e], <<"ERROR">>)

Update(e) ==
    /\ calls[e] # <<>>
    /\ calls' = [calls EXCEPT ![e] = Tail(@)]
    /\ CASE Head(calls[e]) = "connect"     -> Connecting(e)
         [] Head(calls[e]) = "disconnect"  -> Disconnecting(e)
         [] Head(calls[e]) = "close"       -> Closing(e)
         [] Head(calls[e]) = "publish"     -> Publishing(e)
         [] Head(calls[e]) = "subscribe"   -> Subscribing(e, "SUBSCRIBED")
         [] Head(calls[e]) = "unsubscribe" -> Subscribing(e, "UNSUBSCRIBED")
    /\ UNCHANGED <<setup, test, tries, owed, got, losses, publishes>>

(* Lists of the server are sent at least once. *)
SendList(e) == /\ conn[e] = "connected"
               /\ \E list \in owed[e] :
                     owed' = [owed EXCEPT ![e] = @ \ {list}] /\ Raise(e, <<list>>)
               /\ UNCHANGED <<setup, test, conn, tries, calls, got, losses, publishes>>

(* The connection is lost. *)
Lose(e) == /\ conn[e] = "connected" /\ losses < MaxLosses
           /\ losses' = losses + 1
           /\ tries' = [tries EXCEPT ![e] = 0]
           /\ IF setup[e].retries > 0 THEN Become(e, "stale", <<"STALE">>)
              ELSE Become(e, "disconnected", <<"DISCONNECTED">>)
           /\ UNCHANGED <<setup, test, owed, calls, got, publishes>>

(* An attempt to reconnect, at the update interval. *)
Retry(e) ==
    /\ conn[e] = "stale"
    /\ tries' = [tries EXCEPT ![e] = @ + 1]
    /\ \/ Become(e, "connected", <<"UPTODATE">>)
       \/ /\ tries'[e] = setup[e].retries
          /\ Become(e, "disconnected", <<"DISCONNECTED">>)
       \/ tries'[e] < setup[e].retries /\ UNCHANGED <<conn, raised, pending>>
    /\ UNCHANGED <<setup, test, owed, calls, got, losses, publishes>>

-----------------------------------------------------------------------------
(* Delivery.  The user's handler answers READY with one publish or commit, *)
(* as long as it has something to publish.                                 *)
Answers(e, events) ==
    IF /\ Count(events, "READY") > 0 /\ publishes[e] < MaxCalls
       /\ conn[e] # "closed" /\ ~Asked(e, "close")
      THEN <<"publish">> ELSE <<>>

Deliver(served) ==
    /\ got' = [e \in Entities |-> got[e] \o served[e]]
    /\ calls' = [e \in Entities |-> calls[e] \o Answers(e, served[e])]
    /\ publishes' = [e \in Entities |-> publishes[e] + Len(Answers(e, served[e]))]
    /\ UNCHANGED <<setup, test, conn, tries, owed, raised, losses>>

(* The dispatcher calls the callback handler. *)
Dispatch(e) == /\ setup[e].mode = "callback" /\ pending[e] # <<>>
               /\ pending' = [pending EXCEPT ![e] = Tail(@)]
               /\ Deliver([d \in Entities |-> IF d = e THEN <<Head(pending[e])>> ELSE <<>>])

Selecting == {e \in Entities : setup[e].mode = "select"}

(* esp_selector_select() blocks until there are events and returns them,   *)
(* of all entities registered with it.                                     *)
Select == /\ \E e \in Selecting : pending[e] # <<>>
          /\ pending' = [e \in Entities |-> IF e \in Selecting THEN <<>> ELSE pending[e]]
          /\ Deliver([e \in Entities |-> IF e \in Selecting THEN pending[e] ELSE <<>>])

UserCall(e) == Connect(e) \/ Disconnect(e) \/ Close(e) \/ Subscribe(e)

Next == \/ \E e \in Entities : \/ UserCall(e) \/ Update(e) \/ SendList(e) \/ Lose(e)
                               \/ Retry(e) \/ Dispatch(e)
        \/ Select

Spec == Init /\ [][Next]_vars

(* The SDK's threads go on, and the user goes on selecting. *)
Fairness == /\ \A e \in Entities : /\ WF_vars(Update(e)) /\ WF_vars(SendList(e))
                                   /\ WF_vars(Retry(e)) /\ WF_vars(Dispatch(e))
            /\ WF_vars(Select)

FairSpec == Spec /\ Fairness

-----------------------------------------------------------------------------
(* The state of the connection that an event tells. *)
Tells == [CONNECTED |-> "connected", UPTODATE |-> "connected", STALE |-> "stale",
          DISCONNECTED |-> "disconnected", CLOSED |-> "closed"]

StateEvents(seq) == Only(seq, DOMAIN Tells)

(* A user is told every event registered for, each once and in the order   *)
(* they happened; and, unless codes share bits, no other.                  *)
NoneMissed ==
    \A e \in Entities :
        LET registered == setup[e].events
            told == got[e] \o pending[e]
        IN  /\ Only(told, registered) = Only(raised[e], registered)
            /\ Distinct(Kind(e)) => \A i \in DOMAIN told : told[i] \in registered

(* A user who registered for all events, and has been told all, knows the  *)
(* state of the connection.                                                *)
ViewRight ==
    \A e \in Entities :
        LET told == StateEvents(got[e])
        IN  (pending[e] = <<>> /\ setup[e].events = EventsOf(Kind(e))) =>
                conn[e] = IF told = <<>> THEN "new" ELSE Tells[Last(told)]

Follows == [CONNECTED |-> {"STALE", "DISCONNECTED"}, UPTODATE |-> {"STALE", "DISCONNECTED"},
            STALE |-> {"UPTODATE", "DISCONNECTED"}, DISCONNECTED |-> {"CLOSED"}, CLOSED |-> {}]

(* An entity connects first, tells that it is stale once for each loss and *)
(* how that ended, is disconnected before it is closed, and raises nothing *)
(* once it is closed.                                                      *)
Protocol ==
    \A e \in Entities :
        LET told == StateEvents(raised[e])
        IN  /\ told # <<>> => told[1] \in {"CONNECTED", "CLOSED"}
            /\ \A i \in 1 .. Len(told) - 1 : told[i + 1] \in Follows[told[i]]
            /\ \A i \in 1 .. Len(raised[e]) - 1 : raised[e][i] # "CLOSED"

(* A publisher is given a READY for each call it may make, one at a time.  *)
OneCallPerReady ==
    \A e \in Entities :
        Count(pending[e], "READY") + Count(calls[e], "publish") <= 1

(* A handler can rely on the events, though calls and losses of the         *)
(* connection have raced and the user has seen only their events: none is  *)
(* missed, they tell the state, follow each other by the protocol, and ask  *)
(* for one call at a time.                                                 *)
EventsTell == NoneMissed /\ ViewRight /\ Protocol /\ OneCallPerReady

(* An entity does not stay stale for good. *)
StaleEnds == \A e \in Entities : []<>(conn[e] # "stale")

(* A publisher that is connected gets to publish all it has. *)
PublisherGoesOn ==
    \A e \in Entities :
        []<>(Kind(e) = "publisher" /\ "READY" \in setup[e].events
                => conn[e] # "connected" \/ publishes[e] = MaxCalls)

(* Nobody is left in a state the SDK promises to end: a stale connection is *)
(* restored or given up, and a publisher has its next READY.               *)
NobodyStuck == StaleEnds /\ PublisherGoesOn
=============================================================================

----------------------------- MODULE EspEvents ------------------------------
(***************************************************************************)
(* The events of the SDK's entities and how a handler or selector selects  *)
(* them.  An event's code is written as the set of its bits: 0x0A is       *)
(* {1, 3}, and the bitwise OR of codes is their union.  The bits of the    *)
(* top byte tell kinds of entity apart and are left out.                   *)
(***************************************************************************)

ServerCodes ==
    [CONNECTED |-> {0}, MANAGER_LIST_CHANGE |-> {1}, CONTROLLER_LIST_CHANGE |-> {2},
     WORKSPACE_LIST_CHANGE |-> {3}, APPLICATION_LIST_CHANGE |-> {4},
     DISCONNECTED |-> {5}, CLOSED |-> {6}, ERROR |-> {7}, STALE |-> {8}, UPTODATE |-> {9}]

ProjectCodes ==
    [CONNECTED |-> {0}, DISCONNECTED |-> {1}, CLOSED |-> {2}, ERROR |-> {3},
     STALE |-> {4}, UPTODATE |-> {5}]

PublisherCodes ==
    [CONNECTED |-> {1}, DISCONNECTED |-> {2}, CLOSED |-> {3}, READY |-> {1, 3},
     ERROR |-> {4}]

SubscriberCodes ==
    [CONNECTED |-> {0}, SUBSCRIBED |-> {1}, UNSUBSCRIBED |-> {2}, DISCONNECTED |-> {3},
     CLOSED |-> {1, 3}, DATA |-> {4}, SYNC_START |-> {5}, SYNC_END |-> {6},
     DATA_INVALID |-> {7}, STREAM_EXIT |-> {5, 7}, DATA_LOST |-> {8}, ERROR |-> {9}]

Codes == [server |-> ServerCodes, project |-> ProjectCodes,
          publisher |-> PublisherCodes, subscriber |-> SubscriberCodes]

EventsOf(kind) == DOMAIN Codes[kind]

(* The bitwise OR of the codes of some events. *)
Mask(kind, events) == UNION {Codes[kind][e] : e \in events}

(* The two ways to test a code against a mask of registered events: that   *)
(* they share a bit (code & mask), or that the mask has all of the code.   *)
Tests == {"any", "all"}

Selected(kind, test, events, event) ==
    LET code == Codes[kind][event]
    IN  IF test = "any" THEN code \cap Mask(kind, events) # {}
        ELSE code \subseteq Mask(kind, events)

(* No two events share a bit. *)
Distinct(kind) == \A e, f \in EventsOf(kind) :
                      e # f => Codes[kind][e] \cap Codes[kind][f] = {}
=============================================================================

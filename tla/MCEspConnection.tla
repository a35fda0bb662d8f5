-------------------------- MODULE MCEspConnection ---------------------------
EXTENDS EspConnection

CONSTANTS a, b

S(kind, parent, mode, retries, events) ==
    [kind |-> kind, parent |-> parent, mode |-> mode, retries |-> retries, events |-> events]

Pair(x, y) == [e \in {a, b} |-> IF e = a THEN x ELSE y]

(* A server and a project of it. *)
InServer ==
    {Pair(S("server", a, "select", 0, {"APPLICATION_LIST_CHANGE"}),
          S("project", a, "callback", 2, EventsOf("project")))}

(* A publisher and a subscriber got by URI. *)
Clients ==
    {Pair(S("publisher", a, "select", 0, {"READY", "CLOSED"}),
          S("subscriber", b, "callback", 0, {"SUBSCRIBED", "DISCONNECTED", "CLOSED"}))}

(* A project and a publisher of it, with one selector. *)
InProject ==
    {Pair(S("project", a, "select", 1, {"CONNECTED", "STALE"}),
          S("publisher", a, "select", 0, EventsOf("publisher")))}

MCSetups == InServer \cup Clients \cup InProject
=============================================================================

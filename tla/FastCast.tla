------------------------------ MODULE FastCast ------------------------------
(***************************************************************************)
(* The FastCast 3.08 topic, as src/main/java/.../netfeed uses it: a        *)
(* reliable, ordered multicast from one publisher to one subscriber over   *)
(* UDP.  The library is not part of the repository; this module is the     *)
(* contract its two callers rely on.                                       *)
(*                                                                         *)
(*  - offer() appends in order.  The publisher is never held back by the   *)
(*    subscriber: offer() only answers FALSE while its own packet rate     *)
(*    ("pps" in fc.kson) is used up, and both callers spin on it, so a     *)
(*    failing offer() is a stuttering step here.                           *)
(*  - Losses on the wire are repaired from the publisher's history, so the *)
(*    subscriber sees every message once and in order, up to the moment it *)
(*    lags by more than the history ("numPacketHistory").  From then on it *)
(*    has a gap: it can still take what it holds, and is then dropped.     *)
(***************************************************************************)
EXTENDS Naturals, Sequences

CONSTANT History   \* numPacketHistory / receiveBufferPackets of fc.kson

ASSUME HistoryAssumption == History \in Nat \ {0}

Topics(Payload) == [open : BOOLEAN, queue : Seq(Payload), gap : BOOLEAN]

Unsubscribed == [open |-> FALSE, queue |-> <<>>, gap |-> FALSE]
Subscribed   == [open |-> TRUE,  queue |-> <<>>, gap |-> FALSE]

(* The subscriber can still follow the publisher. *)
Follows(t) == t.open /\ ~t.gap /\ Len(t.queue) < History

(* A successful offer() of m.  Nobody listening: the message is gone.  A   *)
(* subscriber that lags by the whole history loses m and all that follows. *)
Offered(t, m) == IF Follows(t) THEN [t EXCEPT !.queue = Append(@, m)]
                               ELSE [t EXCEPT !.gap = t.open]

(* The receiving thread hands the next message to messageReceived().       *)
Deliverable(t) == t.open /\ t.queue # <<>>
Taken(t)       == [t EXCEPT !.queue = Tail(@)]

(* The publishing process died: of what it had not delivered only the      *)
(* first k messages may arrive, and a gap may be forgotten with it.        *)
Orphaned(t, k, gap) == [t EXCEPT !.queue = SubSeq(@, 1, k), !.gap = gap /\ @]
=============================================================================

----------------------------- MODULE FeedLinks -----------------------------
(***************************************************************************)
(* What EventPublisher (node "PUB") and EventReceiver (node "SUB") share:  *)
(* the topic "stream" from PUB to SUB, the topic "back" from SUB to PUB    *)
(* (fc.kson), and the two kinds of message on them: a MarketEventStruct    *)
(* and the StructString "END" that closes a round.                         *)
(*                                                                         *)
(* Prices and quantities play no role and the send timestamp only as the   *)
(* identity of the event it stamps: an event is its round (which call of   *)
(* EventPublisher.run) and its index n in it.  The END of a round is the   *)
(* message with n = NumEvents.                                             *)
(***************************************************************************)
EXTENDS FastCast

CONSTANTS NumEvents,   \* events per round: 4_000_000 in EventPublisher.main
          MaxRounds    \* bound on the rounds; the code loops forever

ASSUME FeedAssumption == /\ NumEvents \in Nat \ {0}
                         /\ MaxRounds \in Nat \ {0}

VARIABLES stream,      \* PUB -> SUB
          back         \* SUB -> PUB

Round == Nat \ {0}
Msg   == [round : Round, n : 0 .. NumEvents]
Event == { m \in Msg : m.n < NumEvents }

(* A message bounced by the inc-th SUB process carries inc: FastCast tells *)
(* the incarnations of a sending node apart.                               *)
BackMsg == [round : Round, n : 0 .. NumEvents, inc : Nat]

IsEnd(m) == m.n = NumEvents

(* The order in which PUB sends. *)
Before(a, b) == \/ a.round < b.round
                \/ a.round = b.round /\ a.n < b.n
=============================================================================

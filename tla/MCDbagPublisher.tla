-------------------------- MODULE MCDbagPublisher --------------------------
(* DbagPublisher with small block and buffer sizes, of both kinds of mode. *)
EXTENDS DbagPublisher

MCArgs == {<<0, 0>>, <<1, 0>>, <<2, 0>>, <<3, 0>>, <<5, 0>>, <<0, 2>>, <<3, 2>>}
=============================================================================

--------------------------- MODULE MCCppPublisher ---------------------------
EXTENDS CppPublisher

(* A block size, without a buffer, and with one that makes the publisher    *)
(* ignore it.                                                              *)
MCOptions == {<<2, 0>>, <<2, 1>>}
=============================================================================

---------------------------- MODULE MCStupidPool ----------------------------
(* The pool with interchangeable threads and interchangeable arrays. *)
EXTENDS StupidPool, TLC

Symmetry == Permutations(Thread) \cup Permutations(Buffer)
=============================================================================

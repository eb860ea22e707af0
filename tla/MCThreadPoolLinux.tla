--------------------------- MODULE MCThreadPoolLinux ---------------------------
(***************************************************************************)
(* ThreadPoolLinux for TLC: with two slots, the pool that is asked for one *)
(* thread grows to two, and may shrink and grow again (a third thread); two*)
(* submitters can meet at each slot and at the limit; three jobs fill the  *)
(* pool and one is dropped.  The pool that is asked for three threads has  *)
(* no slot for the third.                                                  *)
(***************************************************************************)
EXTENDS ThreadPoolLinux, TLC

Symmetry == Permutations(Submitters) \cup Permutations(Workers)
              \cup Permutations(Jobs)
=============================================================================

------------------------------ MODULE MCWorkQueue ------------------------------
(***************************************************************************)
(* WorkQueue for TLC: three items, so that two workers can hold one each   *)
(* while a third waits or is submitted by one of them.  Create is asked for*)
(* two workers, of which one can be woken by the item of the other, or for *)
(* three; one wait takes two handles, so that Destroy waits for the workers*)
(* of the first pool, and its wait fails at once when there are three.     *)
(***************************************************************************)
EXTENDS WorkQueue
=============================================================================

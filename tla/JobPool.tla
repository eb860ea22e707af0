-------------------------------- MODULE JobPool --------------------------------
(***************************************************************************)
(* What a pool of worker threads promises, whatever it is built from: work *)
(* items are started in the order in which they were submitted, each at    *)
(* most once, and what is left over in the end is dropped in the same      *)
(* order.  A pool that is closed waits for what runs, and starts nothing   *)
(* afterwards; a pool that cannot wait is abandoned, and items are still   *)
(* submitted, started and finished while others are dropped.               *)
(***************************************************************************)
EXTENDS Sequences

CONSTANT Items

VARIABLES
  pending,   \* submitted, neither started nor dropped, in order
  running,   \* started, not finished
  finished,
  dropped,
  state      \* open, closed or abandoned

vars == <<pending, running, finished, dropped, state>>

Init ==
  /\ pending = <<>>
  /\ running = {}
  /\ finished = {}
  /\ dropped = {}
  /\ state = "open"

Submit ==
  /\ state # "closed"
  /\ \E i \in Items : pending' = Append(pending, i)
  /\ UNCHANGED <<running, finished, dropped, state>>

Start ==
  /\ state # "closed"
  /\ pending # <<>>
  /\ running' = running \cup {Head(pending)}
  /\ pending' = Tail(pending)
  /\ UNCHANGED <<finished, dropped, state>>

Finish ==
  \E i \in running :
    /\ running' = running \ {i}
    /\ finished' = finished \cup {i}
    /\ UNCHANGED <<pending, dropped, state>>

Close ==
  /\ state = "open"
  /\ running = {}
  /\ state' = "closed"
  /\ UNCHANGED <<pending, running, finished, dropped>>

Abandon ==
  /\ state = "open"
  /\ state' = "abandoned"
  /\ UNCHANGED <<pending, running, finished, dropped>>

Drop ==
  /\ state # "open"
  /\ pending # <<>>
  /\ dropped' = dropped \cup {Head(pending)}
  /\ pending' = Tail(pending)
  /\ UNCHANGED <<running, finished, state>>

Next == Submit \/ Start \/ Finish \/ Close \/ Abandon \/ Drop

Spec == Init /\ [][Next]_vars
=============================================================================

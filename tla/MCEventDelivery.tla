-------------------------- MODULE MCEventDelivery --------------------------
(***************************************************************************)
(* EventDelivery for TLC: two streams over two runs, threads and turns and *)
(* two connections, with more notifications than a queue holds and than    *)
(* the budget of a run allows.  Runs, threads and turns are                *)
(* interchangeable: no definition tells two of them apart except by        *)
(* equality.                                                               *)
(***************************************************************************)
EXTENDS EventDelivery, TLC

Symmetry == Permutations(Runs) \cup Permutations(Threads) \cup Permutations(Turns)
=============================================================================

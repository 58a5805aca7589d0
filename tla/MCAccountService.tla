-------------------------- MODULE MCAccountService --------------------------
(***************************************************************************)
(* AccountService for TLC: as in the user interface, one thread reads the  *)
(* status while another executes the actions of the user.                  *)
(***************************************************************************)
EXTENDS AccountService, TLC

CONSTANTS c1, c2

MCDoes == (c1 :> {"getStatus"}) @@ (c2 :> Command)

Interchangeable == Permutations(Background)
=============================================================================

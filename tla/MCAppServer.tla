---------------------------- MODULE MCAppServer ----------------------------
(***************************************************************************)
(* AppServer for TLC: one connection replaced by another while requests    *)
(* are sent, answered and time out.                                        *)
(***************************************************************************)
EXTENDS AppServer
=============================================================================

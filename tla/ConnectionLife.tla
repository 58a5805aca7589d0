--------------------------- MODULE ConnectionLife ---------------------------
(***************************************************************************)
(* What the supervisor of the App Server promises to an observer of its    *)
(* connection, such as the account service and the event router: the       *)
(* observer is handed one connection at a time, is told of its loss before *)
(* it is handed another, and never sees the same connection twice.         *)
(*                                                                         *)
(* on_disconnected names no connection.  An observer may apply it to       *)
(* whatever connection it holds only because of this promise.              *)
(***************************************************************************)
CONSTANTS
    Connections,    \* the identities connections can have
    None            \* no connection

VARIABLES
    current,        \* the connection the observer holds, or None
    seen            \* the connections it has been handed so far

Init ==
    /\ current = None
    /\ seen = {}

\* on_connected
Up ==
    /\ current = None
    /\ \E c \in Connections \ seen :
          /\ current' = c
          /\ seen' = seen \cup {c}

\* on_disconnected
Down ==
    /\ current # None
    /\ current' = None
    /\ UNCHANGED seen

Next == Up \/ Down

Spec == Init /\ [][Next]_<<current, seen>>
=============================================================================

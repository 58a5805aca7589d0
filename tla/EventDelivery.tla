--------------------------- MODULE EventDelivery ---------------------------
(***************************************************************************)
(* The event router between an App Server that notifies freely and the     *)
(* runs that read their streams: what a run may conclude from the events   *)
(* it has read.  History variables record, per stream, what the router     *)
(* accepted for it and what its reader took.                               *)
(***************************************************************************)
EXTENDS EventRouter, FiniteSetsExt

CONSTANTS MaxSent       \* bound on the notifications the router accepts

\* Connections are numbered from 1.
ASSUME DeliveryAssumption == Connections \subseteq Nat /\ 1 \in Connections /\ MaxSent \in Nat

VARIABLES
    connection,     \* the live connection; connections are numbered as they open
    sent,           \* stream -> the notifications accepted for it, in order
    got,            \* stream -> the events its reader took, in order
    turnOf,         \* stream -> the turns of those notifications
    bound,          \* stream -> the turn bind_turn confirmed, or NoTurn
    cut             \* streams whose route was drained by a disconnect

deliveryVars == <<routes, queue, nextRoute, connection, sent, got, turnOf, bound, cut>>

history == <<sent, got, turnOf, bound, cut>>

Init ==
    /\ RouterInit
    /\ connection = 1
    /\ sent = [s \in Streams |-> <<>>]
    /\ got = [s \in Streams |-> <<>>]
    /\ turnOf = [s \in Streams |-> {}]
    /\ bound = [s \in Streams |-> NoTurn]
    /\ cut = {}

-----------------------------------------------------------------------------

\* A run may still hold the handle of an earlier connection.
Prepare(c, run, thread) ==
    /\ c <= connection
    /\ PrepareRun(c, run, thread)
    /\ UNCHANGED <<connection, history>>

Bind(s, turn) ==
    /\ queue[s].held
    /\ bound[s] = NoTurn
    /\ BindTurn(s, turn)
    /\ bound' = [bound EXCEPT ![s] = turn]
    /\ UNCHANGED <<connection, sent, got, turnOf, cut>>

Notify(thread, turn, kind) ==
    /\ RouteEvent(connection, thread, turn, kind)
    /\ LET r == CHOOSE r \in routes : Accepts(r, connection, thread, turn, kind)
       IN  /\ MapThenSumSet(LAMBDA s : Len(sent[s]), Streams) < MaxSent
           /\ sent' = [sent EXCEPT ![r.id] = Append(@, kind)]
           /\ turnOf' = [turnOf EXCEPT ![r.id] = @ \cup {turn}]
    /\ UNCHANGED <<connection, got, bound, cut>>

Receive(s) ==
    /\ queue[s].held
    /\ TryRecv(s)
    /\ got' = [got EXCEPT ![s] = Append(@, queue[s].events[1])]
    /\ UNCHANGED <<connection, sent, turnOf, bound, cut>>

\* The process of the App Server is replaced; the supervisor joins the old
\* reader before it starts the next, so the old connection is silent.
Disconnect ==
    /\ connection + 1 \in Connections
    /\ DeactivateAll
    /\ cut' = cut \cup {r.id : r \in routes}
    /\ connection' = connection + 1
    /\ UNCHANGED <<sent, got, turnOf, bound>>

Drop(s) ==
    /\ queue[s].held
    /\ DropStream(s)
    /\ UNCHANGED <<connection, history>>

Next ==
    \/ \E c \in Connections, run \in Runs, thread \in Threads : Prepare(c, run, thread)
    \/ \E s \in Streams, turn \in Turns : Bind(s, turn)
    \/ \E thread \in Threads, turn \in Turns, kind \in Notification :
          Notify(thread, turn, kind)
    \/ \E s \in Streams : Receive(s)
    \/ Disconnect
    \/ \E s \in Streams : Drop(s)

Spec == Init /\ [][Next]_deliveryVars

-----------------------------------------------------------------------------

\* The router's state and the histories are well formed.
TypeOK ==
    /\ RouterTypeOK
    /\ connection \in Connections
    /\ sent \in [Streams -> Seq(Notification)]
    /\ got \in [Streams -> Seq(RunEvent)]
    /\ turnOf \in [Streams -> SUBSET Turns]
    /\ bound \in [Streams -> Turns \cup {NoTurn}]
    /\ cut \subseteq Streams

\* Everything the reader of a stream has taken or will still find queued.
Delivered(s) == got[s] \o queue[s].events

GapFree(events) == \A i \in DOMAIN events : events[i] # "gap"

(***************************************************************************)
(* A gap is never silent.  What a stream delivers is exactly what the App  *)
(* Server sent, in order; once a notification was lost to a full queue or  *)
(* to the event budget, a gap stands before everything that followed it.   *)
(* So a reader that stops at the first gap, as poll does, never acts on a  *)
(* history with a hole in it.                                              *)
(***************************************************************************)
DeliveryFaithful ==
    \A s \in Streams :
        queue[s].held =>
            \A i \in DOMAIN Delivered(s) :
                GapFree(SubSeq(Delivered(s), 1, i)) =>
                    i <= Len(sent[s]) /\ Delivered(s)[i] = sent[s][i]

\* A stream that shows no gap delivers everything the App Server sent for it.
NoSilentLoss ==
    \A s \in Streams :
        queue[s].held /\ GapFree(Delivered(s)) => Delivered(s) = sent[s]

(***************************************************************************)
(* A stream that went inactive without a disconnect has its end to read:   *)
(* its last event is terminal or it holds a gap.  poll relies on this when *)
(* it takes an inactive, empty stream for a lost connection.               *)
(***************************************************************************)
InactiveIsExplained ==
    \A s \in Streams :
        queue[s].held /\ ~queue[s].active /\ s \notin cut =>
            LET d == Delivered(s)
            IN  d # <<>> /\ (d[Len(d)] \in TerminalEvent \/ ~GapFree(d))

(***************************************************************************)
(* A stream carries the events of one turn, and of the turn bind_turn      *)
(* confirmed: a thread's other turns never reach the run.                  *)
(***************************************************************************)
OneTurnPerStream ==
    \A s \in Streams :
        /\ Cardinality(turnOf[s]) <= 1
        /\ bound[s] # NoTurn => turnOf[s] \subseteq {bound[s]}

(***************************************************************************)
(* What a reader may take its stream for: the state is well formed, what   *)
(* it delivers is what was sent, and no loss in the router is silent.      *)
(***************************************************************************)
DeliveryInv == TypeOK /\ DeliveryFaithful /\ NoSilentLoss
=============================================================================

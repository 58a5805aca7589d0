---------------------------- MODULE EventRouter ----------------------------
(***************************************************************************)
(* The router of App Server notifications to the runs that wait for them   *)
(* (app_server/event_router.rs).  A run prepares a route for its           *)
(* connection and thread before it sends turn/start, binds the route to    *)
(* the turn the response names, and reads normalized events from a bounded *)
(* queue.  The reader thread of the connection pushes into the queues; a   *)
(* worker thread drains its own.                                           *)
(*                                                                         *)
(* Streams are numbered by next_route_id.  The list of routes is a set:    *)
(* prepare_run keeps connection and thread unique among them, so at most   *)
(* one route matches a notification.  A route whose stream was dropped is  *)
(* removed with the stream; the code keeps the dead entry until the next   *)
(* prepare_run or notification, which both discard it before they look.    *)
(***************************************************************************)
EXTENDS Integers, Sequences, FiniteSets

CONSTANTS
    Runs,               \* run ids
    Threads,            \* App Server thread ids
    Turns,              \* App Server turn ids
    Connections,        \* connection identities
    MaxStreams,         \* bound on prepared streams (next_route_id is unbounded)
    MaxActiveRoutes,    \* MAX_ACTIVE_ROUTES
    QueueCapacity,      \* EVENT_QUEUE_CAPACITY
    MaxRunEvents,       \* MAX_RUN_EVENTS; stands for the byte budget too
    NoTurn              \* turn_id: None

ASSUME RouterAssumption ==
    /\ {MaxStreams, MaxActiveRoutes, QueueCapacity, MaxRunEvents} \subseteq Nat \ {0}
    /\ NoTurn \notin Turns

VARIABLES
    routes,         \* the routes of streams that are still held
    queue,          \* stream -> its EventQueue
    nextRoute       \* next_route_id

routerVars == <<routes, queue, nextRoute>>

Streams == 1..MaxStreams

TerminalEvent == {"completed", "failed", "interrupted"}

\* What normalize_event makes of a notification or of a server request.
Notification == {"running", "waitingApproval"} \cup TerminalEvent

RunEvent == Notification \cup {"gap"}

Route ==
    [id : Streams, connection : Connections, run : Runs, thread : Threads,
     turn : Turns \cup {NoTurn}, next : 1..MaxRunEvents, saturated : BOOLEAN]

\* EventQueue, and whether its RunEventStream still exists.
EventQueue == [events : Seq(RunEvent), active : BOOLEAN, held : BOOLEAN]

NoQueue == [events |-> <<>>, active |-> FALSE, held |-> FALSE]

RouterInit ==
    /\ routes = {}
    /\ queue = [s \in Streams |-> NoQueue]
    /\ nextRoute = 1

RouterTypeOK ==
    /\ routes \subseteq Route
    /\ queue \in [Streams -> EventQueue]
    /\ nextRoute \in 1..MaxStreams + 1

-----------------------------------------------------------------------------

CanPrepareRun(connection, run, thread) ==
    /\ Cardinality(routes) < MaxActiveRoutes
    /\ ~\E r \in routes :
          r.connection = connection /\ (r.run = run \/ r.thread = thread)

PrepareRun(connection, run, thread) ==
    /\ nextRoute \in Streams
    /\ CanPrepareRun(connection, run, thread)
    /\ routes' = routes \cup
          {[id |-> nextRoute, connection |-> connection, run |-> run,
            thread |-> thread, turn |-> NoTurn, next |-> 1, saturated |-> FALSE]}
    /\ queue' = [queue EXCEPT ![nextRoute] =
                    [events |-> <<>>, active |-> TRUE, held |-> TRUE]]
    /\ nextRoute' = nextRoute + 1

\* Fails when the route is gone (UnknownRoute) or bound to another turn.
CanBindTurn(s, turn) == \E r \in routes : r.id = s /\ r.turn \in {NoTurn, turn}

BindTurn(s, turn) ==
    /\ CanBindTurn(s, turn)
    /\ routes' = {IF r.id = s THEN [r EXCEPT !.turn = turn] ELSE r : r \in routes}
    /\ UNCHANGED <<queue, nextRoute>>

\* Mutants of QueuePush: a full queue overwrites its last event, or drops the new one.
QueuePushOverwrites(events, kind) ==
    IF Len(events) < QueueCapacity THEN Append(events, kind)
    ELSE [events EXCEPT ![Len(events)] = kind]

QueuePushDrops(events, kind) ==
    IF Len(events) < QueueCapacity THEN Append(events, kind) ELSE events

\* EventQueue::push: a full queue ends in a gap instead of the lost event.
QueuePush(events, kind) ==
    IF Len(events) < QueueCapacity THEN Append(events, kind)
    ELSE IF events[Len(events)] = "gap" THEN events
    ELSE [events EXCEPT ![Len(events)] = "gap"]

(***************************************************************************)
(* Route::push: the event that would exhaust the budget of the run is      *)
(* replaced by a gap, and nothing is pushed after it.                      *)
(***************************************************************************)
Exhausted(r) == r.next >= MaxRunEvents

\* Mutant of Pushed: the budget is never found exhausted.
PushedForever(r) == [r EXCEPT !.next = @ + 1]

Pushed(r) == IF Exhausted(r) THEN [r EXCEPT !.saturated = TRUE]
                             ELSE [r EXCEPT !.next = @ + 1]

\* Mutant of QueueAfter: the event over the budget is dropped without a gap.
QueueAfterNoGap(r, kind) ==
    IF r.saturated \/ Exhausted(r) THEN queue[r.id].events
    ELSE QueuePush(queue[r.id].events, kind)

QueueAfter(r, kind) ==
    IF r.saturated THEN queue[r.id].events
    ELSE QueuePush(queue[r.id].events, IF Exhausted(r) THEN "gap" ELSE kind)

\* Mutant of Accepts: a bound route accepts the start of another turn.
AcceptsAnyStart(r, connection, thread, turn, kind) ==
    /\ r.connection = connection
    /\ r.thread = thread
    /\ r.turn = turn \/ kind = "running"

\* The route a notification belongs to accepts it: an unbound route only a start.
Accepts(r, connection, thread, turn, kind) ==
    /\ r.connection = connection
    /\ r.thread = thread
    /\ r.turn = turn \/ (r.turn = NoTurn /\ kind = "running")

RouteEvent(connection, thread, turn, kind) ==
    \E r \in routes :
        /\ Accepts(r, connection, thread, turn, kind)
        /\ queue' = [queue EXCEPT ![r.id] =
                        [@ EXCEPT !.events = QueueAfter(r, kind),
                                  !.active = kind \notin TerminalEvent]]
        /\ routes' = (routes \ {r}) \cup
                        (IF kind \in TerminalEvent THEN {}
                         ELSE {[Pushed(r) EXCEPT !.turn = turn]})
        /\ UNCHANGED nextRoute

\* A notification that no route accepts changes nothing.
Unrouted(connection, thread, turn, kind) ==
    ~\E r \in routes : Accepts(r, connection, thread, turn, kind)

\* on_disconnected: every route is drained, whatever its connection.
DeactivateAll ==
    /\ routes' = {}
    /\ queue' = [s \in Streams |->
                    IF \E r \in routes : r.id = s
                    THEN [queue[s] EXCEPT !.active = FALSE] ELSE queue[s]]
    /\ UNCHANGED nextRoute

\* RunEventStream::try_recv when an event is queued.
TryRecv(s) ==
    /\ queue[s].events # <<>>
    /\ queue' = [queue EXCEPT ![s].events = Tail(@)]
    /\ UNCHANGED <<routes, nextRoute>>

\* The stream is dropped, and with it the only strong reference to its queue.
DropStream(s) ==
    /\ queue' = [queue EXCEPT ![s] = NoQueue]
    /\ routes' = {r \in routes : r.id # s}
    /\ UNCHANGED nextRoute
=============================================================================

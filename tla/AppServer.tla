----------------------------- MODULE AppServer -----------------------------
(***************************************************************************)
(* AppServerSupervisor with its connections: start, retry and shutdown     *)
(* under the mutex of AppServerState, the reader thread of each connection *)
(* and the processes they control.  Two threads can tear a connection down *)
(* at the same time, the reader that lost it and the call that shuts it    *)
(* down; whoever takes it out of the lifecycle state under its lock does.  *)
(*                                                                         *)
(* A generation is the number of the process: the generations of the code  *)
(* skip the processes that never initialize.                               *)
(***************************************************************************)
EXTENDS Connection

CONSTANTS
    MaxTraffic,         \* bound on requests, notifications and server requests
    MaxShutdowns,       \* the exit events that call shutdown
    Faults              \* the failures that can happen

FaultKinds == {"launch", "initialize", "spawn", "write", "exit", "invalid", "terminate"}

ASSUME AppServerAssumption ==
    /\ MaxTraffic \in Nat
    /\ MaxShutdowns \in Nat
    /\ Faults \subseteq FaultKinds

VARIABLES
    status,         \* LifecycleState::status
    active,         \* the connection in LifecycleState::active, or 0
    published,      \* RuntimeStatusStore::current
    observed,       \* observer -> the connection it was handed, or 0
    launched,       \* the number of processes launched
    activated,      \* the connections that were made active
    process,        \* connection -> its process
    stop,           \* connection -> the stop flag of its reader
    handle,         \* the reader the supervisor has to join, or 0
    pc,             \* thread -> where it is
    op,             \* what thread 0 does: start or shutdown, and to which connection
    started,        \* the startup thread has called start
    shutdowns,      \* the calls of shutdown so far
    traffic         \* the requests, notifications and server requests so far

supervisorVars ==
    <<status, active, published, observed, launched, activated, process, stop, handle,
      pc, op, started, shutdowns, traffic>>

vars == <<connectionVars, supervisorVars>>

Threads == 0..MaxConnections

Observers == {"account", "events"}

Status == {"stopped", "starting", "connected", "error"}

\* Where a thread is while it tears a connection down, in this order.
TeardownPc == {"disconnect", "downAccount", "downEvents", "terminate"}

StartPc == {"launch", "initialize", "abandon", "activate", "upAccount", "upEvents",
            "publish", "spawn"}

ReaderPc == {"reading", "closing", "closed"}

Pc == {"idle", "join"} \cup StartPc \cup TeardownPc \cup ReaderPc

Init ==
    /\ ConnectionInit
    /\ status = "stopped"
    /\ active = 0
    /\ published = "stopped"
    /\ observed = [o \in Observers |-> 0]
    /\ launched = 0
    /\ activated = {}
    /\ process = [c \in Connections |-> "none"]
    /\ stop = [c \in Connections |-> FALSE]
    /\ handle = 0
    /\ pc = [t \in Threads |-> "idle"]
    /\ op = [name |-> "none", connection |-> 0]
    /\ started = FALSE
    /\ shutdowns = 0
    /\ traffic = 0

-----------------------------------------------------------------------------
(* start, retry and shutdown: thread 0 *)

At(t, where) == pc[t] = where

Goto(t, where) == pc' = [pc EXCEPT ![t] = where]

\* The connection thread t works on.
Target(t) == IF t = 0 THEN op.connection ELSE t

\* transition: the status and what the observer publishes of it.
Transition(new) ==
    /\ status' = new
    /\ published' = new

BeginStart ==
    /\ op' = [name |-> "start", connection |-> 0]
    /\ Goto(0, "join")
    /\ UNCHANGED <<connectionVars, status, active, published, observed, launched,
                   activated, process, stop, handle, shutdowns, traffic>>

\* The startup thread of run: a status other than stopped or error ends start at once.
Start ==
    /\ At(0, "idle")
    /\ ~started
    /\ status \in {"stopped", "error"}
    /\ started' = TRUE
    /\ BeginStart

Retry ==
    /\ At(0, "idle")
    /\ status = "error"
    /\ BeginStart
    /\ UNCHANGED started

\* The exit events of run; cleanup_active takes the active connection.
Shutdown ==
    /\ At(0, "idle")
    /\ shutdowns < MaxShutdowns
    /\ shutdowns' = shutdowns + 1
    /\ IF status = "stopped"
       THEN UNCHANGED <<op, pc, active>>
       ELSE /\ op' = [name |-> "shutdown", connection |-> active]
            /\ Goto(0, IF active = 0 THEN "join" ELSE "disconnect")
            /\ active' = 0
    /\ UNCHANGED <<connectionVars, status, published, observed, launched, activated,
                   process, stop, handle, started, traffic>>

\* What follows the join: start goes on to launch, shutdown is over.
AfterJoin ==
    IF op.name = "start"
    THEN Transition("starting") /\ Goto(0, "launch")
    ELSE Transition("stopped") /\ Goto(0, "idle")

\* Mutant of JoinReader: the reader is told to stop and not waited for.
JoinReaderDetached ==
    /\ At(0, "join")
    /\ stop' = [c \in Connections |-> stop[c] \/ c = handle]
    /\ handle' = 0
    /\ AfterJoin
    /\ UNCHANGED <<connectionVars, active, observed, launched, activated, process, op,
                   started, shutdowns, traffic>>

\* join_reader: the flag is set, then the thread is waited for.
JoinReader ==
    /\ At(0, "join")
    /\ \/ /\ handle # 0
          /\ ~stop[handle]
          /\ stop' = [stop EXCEPT ![handle] = TRUE]
          /\ UNCHANGED <<status, published, handle, pc>>
       \/ /\ handle # 0 => stop[handle] /\ At(handle, "closed")
          /\ handle' = 0
          /\ AfterJoin
          /\ UNCHANGED stop
    /\ UNCHANGED <<connectionVars, active, observed, launched, activated, process, op,
                   started, shutdowns, traffic>>

\* Mutant of Launch: the generation is not advanced.
LaunchSameGeneration ==
    /\ At(0, "launch")
    /\ op' = [op EXCEPT !.connection = launched + 1]
    /\ process' = [process EXCEPT ![launched + 1] = "running"]
    /\ Goto(0, "initialize")
    /\ UNCHANGED <<connectionVars, status, published, launched, active, observed,
                   activated, stop, handle, started, shutdowns, traffic>>

Launch ==
    /\ At(0, "launch")
    /\ \/ /\ launched < MaxConnections
          /\ launched' = launched + 1
          /\ process' = [process EXCEPT ![launched + 1] = "running"]
          /\ op' = [op EXCEPT !.connection = launched + 1]
          /\ Goto(0, "initialize")
          /\ UNCHANGED <<status, published>>
       \/ /\ "launch" \in Faults \/ launched = MaxConnections
          /\ Transition("error")
          /\ Goto(0, "idle")
          /\ UNCHANGED <<launched, process, op>>
    /\ UNCHANGED <<connectionVars, active, observed, activated, stop, handle, started,
                   shutdowns, traffic>>

\* The handshake fails when the process ends, times out or answers nonsense.
Initialize ==
    /\ At(0, "initialize")
    /\ \/ process[op.connection] = "running" /\ Goto(0, "activate")
       \/ /\ "initialize" \in Faults \/ process[op.connection] # "running"
          /\ Goto(0, "abandon")
    /\ UNCHANGED <<connectionVars, status, active, published, observed, launched,
                   activated, process, stop, handle, op, started, shutdowns, traffic>>

\* Mutant of Terminated: the process is left to notice that its input closed.
TerminatedLater(c) == UNCHANGED process

\* ProcessControl::terminate gives up the handle of the process first: a kill that
\* fails is logged and not repeated.
Terminated(c) ==
    \/ process' = [process EXCEPT ![c] = "gone"]
    \/ /\ "terminate" \in Faults
       /\ process[c] = "running"
       /\ process' = [process EXCEPT ![c] = "unkilled"]

Abandon ==
    /\ At(0, "abandon")
    /\ Terminated(op.connection)
    /\ Transition("error")
    /\ Goto(0, "idle")
    /\ UNCHANGED <<connectionVars, active, observed, launched, activated, stop, handle,
                   op, started, shutdowns, traffic>>

\* Mutant of Activate: the status is published with the transition.
ActivateAndPublish ==
    /\ At(0, "activate")
    /\ connected' = [connected EXCEPT ![op.connection] = TRUE]
    /\ active' = op.connection
    /\ Transition("connected")
    /\ activated' = activated \cup {op.connection}
    /\ Goto(0, "upAccount")
    /\ UNCHANGED <<pending, nextId, call, box, sending, asked, inbound, observed,
                   launched, process, stop, handle, op, started, shutdowns,
                   traffic>>

Activate ==
    /\ At(0, "activate")
    /\ connected' = [connected EXCEPT ![op.connection] = TRUE]
    /\ active' = op.connection
    /\ status' = "connected"
    /\ activated' = activated \cup {op.connection}
    /\ Goto(0, "upAccount")
    /\ UNCHANGED <<pending, nextId, call, box, sending, asked, inbound, published,
                   observed, launched, process, stop, handle, op, started, shutdowns,
                   traffic>>

\* AppServerObserver::on_connected: the account service first, then the event router.
OnConnected ==
    /\ \/ /\ At(0, "upAccount")
          /\ observed' = [observed EXCEPT !["account"] = op.connection]
          /\ Goto(0, "upEvents")
       \/ /\ At(0, "upEvents")
          /\ observed' = [observed EXCEPT !["events"] = op.connection]
          /\ Goto(0, "publish")
    /\ UNCHANGED <<connectionVars, status, active, published, launched, activated,
                   process, stop, handle, op, started, shutdowns, traffic>>

Publish ==
    /\ At(0, "publish")
    /\ published' = "connected"
    /\ Goto(0, "spawn")
    /\ UNCHANGED <<connectionVars, status, active, observed, launched, activated,
                   process, stop, handle, op, started, shutdowns, traffic>>

\* fail_active_connection, the step under the lock, by thread t for connection c.
TakeActive(t, c) ==
    IF active = c
    THEN /\ active' = 0
         /\ status' = "error"
         /\ Goto(t, "disconnect")
    ELSE /\ Goto(t, IF t = 0 THEN "idle" ELSE "closed")
         /\ UNCHANGED <<active, status>>

SpawnReader ==
    /\ At(0, "spawn")
    /\ \/ /\ handle' = op.connection
          /\ pc' = [pc EXCEPT ![0] = "idle", ![op.connection] = "reading"]
          /\ UNCHANGED <<active, status>>
       \/ /\ "spawn" \in Faults
          /\ TakeActive(0, op.connection)
          /\ UNCHANGED handle
    /\ UNCHANGED <<connectionVars, published, observed, launched, activated, process,
                   stop, op, started, shutdowns, traffic>>

-----------------------------------------------------------------------------
(* Tearing a connection down: thread 0 in shutdown or after the reader could
   not be spawned, thread c when its reader lost the connection. *)

DisconnectStep(t) ==
    /\ At(t, "disconnect")
    /\ stop' = [stop EXCEPT ![Target(t)] = TRUE]
    /\ Disconnect(t, Target(t))
    /\ Goto(t, "downAccount")
    /\ UNCHANGED <<status, active, published, observed, launched, activated, process,
                   handle, op, started, shutdowns, traffic>>

\* on_disconnected, after the waiters have been told.
OnDisconnected(t) ==
    /\ Sent(t)
    /\ \/ /\ At(t, "downAccount")
          /\ observed' = [observed EXCEPT !["account"] = 0]
          /\ Goto(t, "downEvents")
       \/ /\ At(t, "downEvents")
          /\ observed' = [observed EXCEPT !["events"] = 0]
          /\ Goto(t, "terminate")
    /\ UNCHANGED <<connectionVars, status, active, published, launched, activated,
                   process, stop, handle, op, started, shutdowns, traffic>>

\* Mutant of AfterTeardown: the error is published by the supervisor's next call.
AfterTeardownSilent(t) ==
    IF t = 0 /\ op.name = "shutdown"
    THEN Goto(0, "join") /\ UNCHANGED published
    ELSE Goto(t, IF t = 0 THEN "idle" ELSE "closed") /\ UNCHANGED published

\* shutdown goes on to join the reader; a failure publishes the error.
AfterTeardown(t) ==
    IF t = 0 /\ op.name = "shutdown"
    THEN Goto(0, "join") /\ UNCHANGED published
    ELSE Goto(t, IF t = 0 THEN "idle" ELSE "closed") /\ published' = "error"

TerminateStep(t) ==
    /\ At(t, "terminate")
    /\ Terminated(Target(t))
    /\ AfterTeardown(t)
    /\ UNCHANGED <<connectionVars, status, active, observed, launched, activated, stop,
                   handle, op, started, shutdowns, traffic>>

Teardown(t) == DisconnectStep(t) \/ OnDisconnected(t) \/ TerminateStep(t)

-----------------------------------------------------------------------------
(* read_messages: thread c *)

\* A line can be handled after stop was set: the loop looks at stop before it waits.
\* A server request is answered on the spot, and the reader fails with the write.
ReadLine(c) ==
    /\ At(c, "reading")
    /\ Sent(c)
    /\ inbound[c] # <<>>
    /\ inbound' = [inbound EXCEPT ![c] = Tail(@)]
    /\ LET line == Head(inbound[c])
       IN  \/ /\ line.line = "response"
              /\ Complete(c, line.id)
              /\ UNCHANGED <<active, status, pc>>
           \/ /\ line.line \in {"notification", "request"}
              /\ UNCHANGED <<pending, sending, active, status, pc>>
           \/ /\ \/ line.line = "invalid"
                 \/ line.line = "request" /\ ("write" \in Faults \/ process[c] # "running")
              /\ TakeActive(c, c)
              /\ UNCHANGED <<pending, sending>>
    /\ UNCHANGED <<connected, nextId, call, box, asked, published, observed, launched,
                   activated, process, stop, handle, op, started, shutdowns, traffic>>

\* The process has ended and everything it wrote was read.
ReadEnd(c) ==
    /\ At(c, "reading")
    /\ Sent(c)
    /\ inbound[c] = <<>>
    /\ process[c] = "gone"
    /\ TakeActive(c, c)
    /\ UNCHANGED <<connectionVars, published, observed, launched, activated, process,
                   stop, handle, op, started, shutdowns, traffic>>

\* Mutant of ReadStop: the loop ends with the process only.
ReadStopNever(c) == FALSE /\ UNCHANGED vars

ReadStop(c) ==
    /\ At(c, "reading")
    /\ Sent(c)
    /\ stop[c]
    /\ Goto(c, "closing")
    /\ UNCHANGED <<connectionVars, status, active, published, observed, launched,
                   activated, process, stop, handle, op, started, shutdowns, traffic>>

\* The disconnect at the end of read_messages.
Close(c) ==
    /\ At(c, "closing")
    /\ IF connected[c]
       THEN Disconnect(c, c) /\ UNCHANGED pc
       ELSE Sent(c) /\ Goto(c, "closed") /\ UNCHANGED connectionVars
    /\ UNCHANGED <<status, active, published, observed, launched, activated, process,
                   stop, handle, op, started, shutdowns, traffic>>

SupervisorStep ==
    \/ JoinReader \/ Launch \/ Initialize \/ Abandon \/ Activate
    \/ OnConnected \/ Publish \/ SpawnReader \/ Teardown(0)

ReaderStep(c) == ReadLine(c) \/ ReadEnd(c) \/ ReadStop(c) \/ Close(c) \/ Teardown(c)

-----------------------------------------------------------------------------
(* The App Server and the threads that use the connection *)

\* What the App Server writes after its reader has gone is lost.
Alive(c) == process[c] \in {"running", "unkilled"}

Heard(c) == Alive(c) /\ ~At(c, "closed")

ProcessExit(c) ==
    /\ "exit" \in Faults
    /\ Alive(c)
    /\ process' = [process EXCEPT ![c] = "gone"]
    /\ UNCHANGED <<connectionVars, status, active, published, observed, launched,
                   activated, stop, handle, pc, op, started, shutdowns, traffic>>

Respond(c, id) ==
    /\ Heard(c)
    /\ id \in asked[c]
    /\ asked' = [asked EXCEPT ![c] = @ \ {id}]
    /\ Emit(c, "response", id)
    /\ UNCHANGED supervisorVars

Notify(c, line) ==
    /\ Heard(c)
    /\ c \in activated
    /\ traffic < MaxTraffic
    /\ line = "invalid" => "invalid" \in Faults
    /\ traffic' = traffic + 1
    /\ Emit(c, line, 0)
    /\ UNCHANGED <<asked, status, active, published, observed, launched, activated,
                   process, stop, handle, pc, op, started, shutdowns>>

\* A caller may keep the handle of a connection that is long closed.
CallerRequest(k, c) ==
    /\ c \in activated
    /\ traffic < MaxTraffic
    /\ traffic' = traffic + 1
    /\ Request(k, c)
    /\ UNCHANGED <<status, active, published, observed, launched, activated, process,
                   stop, handle, pc, op, started, shutdowns>>

CallerWrite(k) ==
    /\ \/ process[call[k].connection] = "running" /\ Write(k)
       \/ ("write" \in Faults \/ process[call[k].connection] # "running") /\ WriteFails(k)
    /\ UNCHANGED supervisorVars

CallerWait(k) == (Receive(k) \/ TimeOut(k)) /\ UNCHANGED supervisorVars

SendStep(t) == (\E s \in sending : s.by = t /\ Send(s)) /\ UNCHANGED supervisorVars

CallerStep(k) == (call[k].pc = "registered" /\ CallerWrite(k)) \/ CallerWait(k)

Next ==
    \/ Start \/ Retry \/ Shutdown
    \/ SupervisorStep
    \/ \E t \in Threads : SendStep(t)
    \/ \E c \in Connections : ReaderStep(c) \/ ProcessExit(c)
    \/ \E c \in Connections, id \in Ids : Respond(c, id)
    \/ \E c \in Connections, line \in {"notification", "request", "invalid"} :
          Notify(c, line)
    \/ \E k \in Callers : CallerStep(k) \/ \E c \in Connections : CallerRequest(k, c)

Spec == Init /\ [][Next]_vars

(***************************************************************************)
(* Every thread goes on with what it does.  Nothing is assumed of the App  *)
(* Server, of the user, or of when a process ends.                         *)
(***************************************************************************)
Fairness ==
    /\ WF_vars(SupervisorStep)
    /\ \A t \in Threads : WF_vars(SendStep(t))
    /\ \A c \in Connections : WF_vars(ReaderStep(c))
    /\ \A k \in Callers : WF_vars(CallerStep(k))

FairSpec == Spec /\ Fairness

-----------------------------------------------------------------------------

\* The lifecycle state, the threads and the requests are well formed.
TypeOK ==
    /\ ConnectionTypeOK
    /\ status \in Status
    /\ active \in 0..MaxConnections
    /\ published \in Status
    /\ observed \in [Observers -> 0..MaxConnections]
    /\ launched \in 0..MaxConnections
    /\ activated \subseteq 1..launched
    /\ process \in [Connections -> {"none", "running", "gone", "unkilled"}]
    /\ stop \in [Connections -> BOOLEAN]
    /\ handle \in 0..MaxConnections
    /\ pc \in [Threads -> Pc]
    /\ op \in [name : {"none", "start", "shutdown"}, connection : 0..MaxConnections]
    /\ started \in BOOLEAN
    /\ shutdowns \in 0..MaxShutdowns
    /\ traffic \in 0..MaxTraffic

(***************************************************************************)
(* A request that returns a value returns the response to itself, whatever *)
(* order the App Server answers in and however late: the answer to a       *)
(* request that timed out never reaches a later one.                       *)
(***************************************************************************)
AnswerIsOwn ==
    \A k \in Callers :
        call[k].result.kind = "answer" =>
            call[k].result = Answer(call[k].connection, call[k].id)

\* The ways in which the request of k can still be completed.
Completions(k) ==
    Cardinality({c \in Connections : \E w \in pending[c] : w.caller = k})
    + Cardinality({s \in sending : IsFor(s, k)})
    + (IF Waiting(k) /\ box[k] # Nothing THEN 1 ELSE 0)

(***************************************************************************)
(* A request that waits is completed exactly once: it is pending on an     *)
(* open connection, or its result is on the way, or has arrived.  A close  *)
(* that races with a request misses none, and leaves none to run into its  *)
(* timeout; nobody completes a request that has already returned.          *)
(***************************************************************************)
CompletedOnce ==
    /\ \A k \in Callers : Completions(k) = IF Waiting(k) THEN 1 ELSE 0
    /\ \A c \in Connections : pending[c] # {} => connected[c]

\* Requests and threads are well formed, and each request is completed once, by its own
\* answer.
RequestInv == TypeOK /\ AnswerIsOwn /\ CompletedOnce

TearingDown(t, c) == Target(t) = c /\ pc[t] \in TeardownPc

Starting(c) == op.connection = c /\ pc[0] \in StartPc

(***************************************************************************)
(* A failing reader and a call of start or shutdown never leave the        *)
(* observers behind: whenever no call is under way and a connection is     *)
(* active, it is open, every observer holds it and it is reported.  The    *)
(* end of an earlier connection never takes the next one away from them.   *)
(***************************************************************************)
ActiveIsAnnounced ==
    active # 0 /\ At(0, "idle") =>
        /\ \A o \in Observers : observed[o] = active
        /\ connected[active]
        /\ published = "connected"
        /\ handle = active

(***************************************************************************)
(* No process is forgotten.  One that runs is the active one, or some      *)
(* thread still has to start it or to terminate it, unless the kill        *)
(* itself failed.                                                          *)
(***************************************************************************)
NoOrphanProcess ==
    \A c \in Connections :
        process[c] = "running" =>
            \/ c = active
            \/ Starting(c)
            \/ \E t \in Threads : TearingDown(t, c)

(***************************************************************************)
(* process.rs: observers "receive a connected handle before the connected  *)
(* runtime status is published, and are disconnected before the            *)
(* corresponding stopped or error status is published".                    *)
(***************************************************************************)
StatusFollowsObservers ==
    [][published' # published =>
          \A o \in Observers :
              IF published' = "connected" THEN observed[o] = active /\ active # 0
              ELSE observed[o] = 0]_vars

AccountLife == INSTANCE ConnectionLife
    WITH None <- 0, current <- observed["account"],
         seen <- IF At(0, "upAccount") THEN activated \ {op.connection} ELSE activated

EventsLife == INSTANCE ConnectionLife
    WITH None <- 0, current <- observed["events"],
         seen <- IF pc[0] \in {"upAccount", "upEvents"} THEN activated \ {op.connection}
                 ELSE activated

(***************************************************************************)
(* The account service and the event router each see one connection after  *)
(* the other, the loss of one before the next and each of them once, as    *)
(* ConnectionLife says.  Their on_disconnected, which names no connection, *)
(* relies on it.                                                           *)
(***************************************************************************)
ObserversSeeLife == AccountLife!Spec /\ EventsLife!Spec

\* start, retry and shutdown return: joining the reader cannot wait forever.
SupervisorReturns == [](~At(0, "idle") => <>At(0, "idle"))

\* Every request returns, even one that timed out while it was being completed.
RequestReturns == \A k \in Callers : [](Waiting(k) => <>~Waiting(k))

\* Nobody waits for ever, neither in the supervisor nor in a request.
CallsReturn == SupervisorReturns /\ RequestReturns

\* The end of the active process is noticed and reported.
LossReported ==
    \A c \in Connections :
        [](active = c /\ process[c] = "gone" => <>(active # c /\ published # "connected"))
=============================================================================

----------------------------- MODULE Connection -----------------------------
(***************************************************************************)
(* AppServerConnection: requests that wait for their response while the    *)
(* reader completes them, they time out, or the connection is closed.      *)
(* Each step is what one thread does under the lock of the connection, or  *)
(* one send outside of it: a waiter is taken out of the pending map first  *)
(* and sent its result after the lock is released, so a request can find   *)
(* that it is no longer pending and has no result yet.                     *)
(*                                                                         *)
(* Connections are numbered in the order the supervisor activates them.    *)
(* Thread 0 is the call that holds the supervisor, thread c the reader of  *)
(* connection c.                                                           *)
(***************************************************************************)
EXTENDS Integers, Sequences, FiniteSets

CONSTANTS
    MaxConnections,     \* bound on the processes that are launched
    MaxCallers,         \* bound on the requests that run at the same time
    MaxRequests,        \* bound on the requests of a connection
    MaxPending          \* MAX_PENDING_REQUESTS

ASSUME ConnectionAssumption ==
    /\ MaxConnections \in Nat \ {0}
    /\ MaxCallers \in Nat
    /\ MaxRequests \in Nat
    /\ MaxPending \in Nat \ {0}

VARIABLES
    connected,      \* connection -> ConnectionState::connected
    pending,        \* connection -> the waiters, as records of id and caller
    nextId,         \* connection -> next_request_id
    call,           \* caller -> its latest request
    box,            \* caller -> what was sent on the channel of that request
    sending,        \* results taken to their waiter and not yet sent
    asked,          \* connection -> the requests that reached the App Server
    inbound         \* connection -> the lines its reader has not handled yet

connectionVars == <<connected, pending, nextId, call, box, sending, asked, inbound>>

Connections == 1..MaxConnections

\* Threads that send requests; they are alike, and the first that is free sends.
Callers == 1..MaxCallers

Ids == 1..MaxRequests

\* The value of a response stands for the request it answers.
Answer(c, id) == [kind |-> "answer", connection |-> c, id |-> id]

Failure(error) == [kind |-> error, connection |-> 0, id |-> 0]

Result ==
    {Answer(c, id) : c \in Connections, id \in Ids} \cup
    {Failure(e) : e \in {"disconnected", "tooManyPending", "writeFailed", "timeout"}}

\* overdue: timed out after its waiter was taken; it waits for the send.
CallPc == {"returned", "registered", "waiting", "overdue"}

Nothing == [kind |-> "nothing", connection |-> 0, id |-> 0]

NoCall == [pc |-> "returned", connection |-> 0, id |-> 0, result |-> Nothing]

Line == {"response", "notification", "request", "invalid"}

ConnectionInit ==
    /\ connected = [c \in Connections |-> FALSE]
    /\ pending = [c \in Connections |-> {}]
    /\ nextId = [c \in Connections |-> 1]
    /\ call = [k \in Callers |-> NoCall]
    /\ box = [k \in Callers |-> Nothing]
    /\ sending = {}
    /\ asked = [c \in Connections |-> {}]
    /\ inbound = [c \in Connections |-> <<>>]

ConnectionTypeOK ==
    /\ connected \in [Connections -> BOOLEAN]
    /\ pending \in [Connections -> SUBSET [id : Ids, caller : Callers]]
    /\ nextId \in [Connections -> 1..MaxRequests + 1]
    /\ call \in [Callers -> [pc : CallPc, connection : 0..MaxConnections,
                             id : 0..MaxRequests, result : Result \cup {Nothing}]]
    /\ box \in [Callers -> Result \cup {Nothing}]
    /\ sending \subseteq [by : 0..MaxConnections, connection : Connections, id : Ids,
                           caller : Callers, result : Result]
    /\ asked \in [Connections -> SUBSET Ids]
    /\ inbound \in [Connections -> Seq([line : Line, id : 0..MaxRequests])]

-----------------------------------------------------------------------------
(* request_inner *)

Waiter(k) == [id |-> call[k].id, caller |-> k]

Waiting(k) == call[k].pc # "returned"

\* The request of k returns to its caller; its channel is gone.
Returns(k, result) ==
    /\ call' = [call EXCEPT ![k].pc = "returned", ![k].result = result]
    /\ box' = [box EXCEPT ![k] = Nothing]

\* Mutant of Refused: connected is read before the lock is taken, and may have changed.
RefusedLate(c) == Cardinality(pending[c]) >= MaxPending

Refused(c) == ~connected[c] \/ Cardinality(pending[c]) >= MaxPending

Refuse(k, c) ==
    /\ Refused(c)
    /\ call' = [call EXCEPT ![k] =
          [pc |-> "returned", connection |-> c, id |-> 0,
           result |-> Failure(IF connected[c] THEN "tooManyPending" ELSE "disconnected")]]
    /\ UNCHANGED <<connected, pending, nextId, box, sending, asked, inbound>>

Register(k, c) ==
    /\ ~Refused(c)
    /\ nextId[c] \in Ids
    /\ pending' = [pending EXCEPT ![c] = @ \cup {[id |-> nextId[c], caller |-> k]}]
    /\ nextId' = [nextId EXCEPT ![c] = @ + 1]
    /\ call' = [call EXCEPT ![k] = [pc |-> "registered", connection |-> c,
                                    id |-> nextId[c], result |-> Nothing]]
    /\ UNCHANGED <<connected, box, sending, asked, inbound>>

Request(k, c) ==
    /\ call[k].pc = "returned"
    /\ \A j \in 1..(k - 1) : Waiting(j)
    /\ Refuse(k, c) \/ Register(k, c)

\* The line reaches the standard input of the App Server.
Write(k) ==
    /\ call[k].pc = "registered"
    /\ asked' = [asked EXCEPT ![call[k].connection] = @ \cup {call[k].id}]
    /\ call' = [call EXCEPT ![k].pc = "waiting"]
    /\ UNCHANGED <<connected, pending, nextId, box, sending, inbound>>

\* The write reports a failure, which does not tell whether the line arrived.
WriteFails(k) ==
    /\ call[k].pc = "registered"
    /\ asked' \in {asked, [asked EXCEPT ![call[k].connection] = @ \cup {call[k].id}]}
    /\ pending' = [pending EXCEPT ![call[k].connection] = @ \ {Waiter(k)}]
    /\ Returns(k, Failure("writeFailed"))
    /\ UNCHANGED <<connected, nextId, sending, inbound>>

Receive(k) ==
    /\ call[k].pc \in {"waiting", "overdue"}
    /\ box[k] # Nothing
    /\ Returns(k, box[k])
    /\ UNCHANGED <<connected, pending, nextId, sending, asked, inbound>>

\* Mutant of TimeOut: the request returns without taking its waiter back.
TimeOutKeeps(k) ==
    /\ call[k].pc = "waiting"
    /\ box[k] = Nothing
    /\ Returns(k, Failure("timeout"))
    /\ UNCHANGED <<connected, pending, nextId, sending, asked, inbound>>

TimeOut(k) ==
    /\ call[k].pc = "waiting"
    /\ box[k] = Nothing
    /\ IF Waiter(k) \in pending[call[k].connection]
       THEN /\ pending' = [pending EXCEPT ![call[k].connection] = @ \ {Waiter(k)}]
            /\ Returns(k, Failure("timeout"))
       ELSE /\ call' = [call EXCEPT ![k].pc = "overdue"]
            /\ UNCHANGED <<pending, box>>
    /\ UNCHANGED <<connected, nextId, sending, asked, inbound>>

-----------------------------------------------------------------------------
(* handle_inbound and disconnect, called by thread t *)

\* Thread t has sent every result it took.
Sent(t) == ~\E s \in sending : s.by = t

\* The result r of the waiter w of connection c, on its way by thread t.
Outgoing(t, c, w, r) ==
    [by |-> t, connection |-> c, id |-> w.id, caller |-> w.caller, result |-> r]

\* s is on the channel of the request k waits for.
IsFor(s, k) ==
    /\ Waiting(k)
    /\ s.caller = k
    /\ s.connection = call[k].connection
    /\ s.id = call[k].id

\* A request that returned has dropped its channel: the send is lost.
Send(s) ==
    /\ box' = [box EXCEPT ![s.caller] = IF IsFor(s, s.caller) THEN s.result ELSE @]
    /\ sending' = sending \ {s}
    /\ UNCHANGED <<connected, pending, nextId, call, asked, inbound>>

\* Mutant of Complete: responses are taken to come in the order of the requests.
CompleteOldest(c, id) ==
    LET taken == {w \in pending[c] : \A v \in pending[c] : w.id <= v.id}
    IN  /\ pending' = [pending EXCEPT ![c] = @ \ taken]
        /\ sending' = sending \cup
              {Outgoing(c, c, w, Answer(c, id)) : w \in taken}

\* complete: a response nobody waits for is ignored.
Complete(c, id) ==
    LET taken == {w \in pending[c] : w.id = id}
    IN  /\ pending' = [pending EXCEPT ![c] = @ \ taken]
        /\ sending' = sending \cup
              {Outgoing(c, c, w, Answer(c, id)) : w \in taken}

Disconnect(t, c) ==
    /\ connected' = [connected EXCEPT ![c] = FALSE]
    /\ pending' = [pending EXCEPT ![c] = IF connected[c] THEN {} ELSE @]
    /\ sending' = sending \cup
          {Outgoing(t, c, w, Failure("disconnected")) : w \in {v \in pending[c] : connected[c]}}
    /\ UNCHANGED <<nextId, call, box, asked, inbound>>

\* What the App Server puts on its standard output.
Emit(c, line, id) ==
    /\ inbound' = [inbound EXCEPT ![c] = Append(@, [line |-> line, id |-> id])]
    /\ UNCHANGED <<connected, pending, nextId, call, box, sending>>
=============================================================================

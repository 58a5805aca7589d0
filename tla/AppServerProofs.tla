-------------------------- MODULE AppServerProofs --------------------------
(***************************************************************************)
(* Proofs about the App Server connection, for any number of connections,  *)
(* callers, requests and failures: a request is completed exactly once, by *)
(* its own answer; the observers of a connection see it come and go in     *)
(* order, before its status is published; no process is forgotten.         *)
(*                                                                         *)
(* The argument has two halves.  RequestsGood says where the completion of *)
(* a waiting request is; it speaks of the variables of Connection only.    *)
(* LifeGood says who owns the connection: the active slot of the lifecycle  *)
(* state, or the one thread that took it out of that slot.                 *)
(***************************************************************************)
EXTENDS AppServer, FiniteSetTheorems, TLAPS

-----------------------------------------------------------------------------
(***************************************************************************)
(* Where the completion of a request is.                                   *)
(***************************************************************************)

\* The request of k was registered, and its number has not been given again.
CallsGood ==
    \A k \in Callers :
        Waiting(k) =>
            /\ call[k].connection \in Connections
            /\ call[k].id \in Ids
            /\ call[k].id < nextId[call[k].connection]

\* A waiter in the pending map of an open connection is that of a request that waits.
PendingGood ==
    \A c \in Connections : \A w \in pending[c] :
        /\ connected[c]
        /\ Waiting(w.caller)
        /\ call[w.caller].connection = c
        /\ call[w.caller].id = w.id
        /\ box[w.caller] = Nothing
        /\ \A v \in pending[c] : v.id = w.id => v = w

\* A request has at most one result on its way, and none while it is pending.
SendingGood ==
    /\ \A s \in sending :
          /\ s.id < nextId[s.connection]
          /\ IsFor(s, s.caller) => box[s.caller] = Nothing
          /\ \A w \in pending[s.connection] : w.id # s.id
    /\ \A s, r \in sending : s.connection = r.connection /\ s.id = r.id => s = r

\* A request that waits is pending, or its result is on the way or has arrived.
WaitingGood ==
    \A k \in Callers :
        IF Waiting(k)
        THEN \/ Waiter(k) \in pending[call[k].connection]
             \/ \E s \in sending : IsFor(s, k)
             \/ box[k] # Nothing
        ELSE box[k] = Nothing

\* An answer belongs to the request it is sent to, has reached, or was returned by.
AnswersGood ==
    /\ \A s \in sending :
          s.result.kind = "answer" => s.result = Answer(s.connection, s.id)
    /\ \A k \in Callers :
          box[k].kind = "answer" => box[k] = Answer(call[k].connection, call[k].id)
    /\ AnswerIsOwn

RequestsGood ==
    /\ ConnectionTypeOK
    /\ CallsGood
    /\ PendingGood
    /\ SendingGood
    /\ WaitingGood
    /\ AnswersGood

-----------------------------------------------------------------------------
(***************************************************************************)
(* Who owns a connection.                                                  *)
(***************************************************************************)
UpPc == {"upAccount", "upEvents", "publish", "spawn"}

\* Thread 0 runs start, retry or shutdown; the others are readers.
ThreadsGood ==
    /\ pc[0] \in {"idle", "join"} \cup StartPc \cup TeardownPc
    /\ \A c \in Connections : pc[c] \in {"idle"} \cup ReaderPc \cup TeardownPc
    /\ pc[0] = "launch" => op.connection = 0
    /\ pc[0] = "join" /\ op.name = "start" => op.connection = 0
    /\ pc[0] \in StartPc \ {"launch"} => op.connection = launched /\ launched # 0
    /\ pc[0] \in {"initialize", "abandon", "activate"} => op.connection \notin activated
    /\ pc[0] \in TeardownPc => op.connection \in activated

\* The only reader that has not ended is the one whose handle the supervisor keeps.
ReadersGood ==
    /\ \A c \in Connections : pc[c] \notin {"idle", "closed"} => handle = c
    /\ handle # 0 => handle \in activated
    /\ pc[0] \in StartPc => handle = 0

\* A connection is in the active slot, or one thread tears it down, never both.
ActiveGood ==
    /\ active # 0 =>
          /\ active \in activated
          /\ connected[active]
          /\ ~stop[active]
          /\ status = "connected"
          /\ pc[0] \in {"idle"} \cup UpPc
          /\ \A t \in Threads : pc[t] \notin TeardownPc
          /\ pc[0] = "idle" => handle = active
          /\ pc[0] \in {"idle", "spawn"} => published = "connected"
    /\ pc[0] \in UpPc => active = op.connection
    /\ \A t, u \in Threads : pc[t] \in TeardownPc /\ pc[u] \in TeardownPc => t = u

\* A reader that is told to stop is not that of the active connection.
StopGood ==
    /\ \A c \in Connections : stop[c] => c \in activated
    /\ \A c \in Connections : pc[c] = "closing" => stop[c]

\* What each observer holds, by who owns the connection and how far that thread is.
ObservedGood ==
    /\ active # 0 =>
          /\ observed["account"] = IF pc[0] = "upAccount" THEN 0 ELSE active
          /\ observed["events"] = IF pc[0] \in {"upAccount", "upEvents"} THEN 0 ELSE active
    /\ \A t \in Threads : pc[t] \in TeardownPc =>
          /\ observed["account"] = IF pc[t] \in {"disconnect", "downAccount"} THEN Target(t)
                                   ELSE 0
          /\ observed["events"] = IF pc[t] # "terminate" THEN Target(t) ELSE 0
    /\ active = 0 /\ (\A t \in Threads : pc[t] \notin TeardownPc) =>
          \A o \in Observers : observed[o] = 0

-----------------------------------------------------------------------------
(***************************************************************************)
(* Results.                                                                *)
(***************************************************************************)

\* Answers, failures and the empty box are well formed and told apart by their kind.
LEMMA ResultFacts ==
    /\ \A c \in Connections, id \in Ids : Answer(c, id) \in Result
    /\ \A e \in {"disconnected", "tooManyPending", "writeFailed", "timeout"} :
          Failure(e) \in Result /\ Failure(e).kind # "answer"
    /\ Nothing \notin Result
    /\ Nothing.kind # "answer"
    /\ Nothing.kind = "nothing"
<1>1. \A c \in Connections, id \in Ids : Answer(c, id) \in Result
  BY DEF Result
<1>2. \A e \in {"disconnected", "tooManyPending", "writeFailed", "timeout"} :
          Failure(e) \in Result /\ Failure(e).kind = e
  BY DEF Result, Failure
<1>3. Nothing.kind = "nothing"
  BY DEF Nothing
<1>4. \A c \in Connections, id \in Ids : Answer(c, id).kind = "answer"
  BY DEF Answer
<1>5. \A r \in Result :
          r.kind \in {"answer", "disconnected", "tooManyPending", "writeFailed", "timeout"}
  BY <1>2, <1>4 DEF Result
<1>6. Nothing \notin Result
  BY <1>3, <1>5
<1>7. QED
  BY <1>1, <1>2, <1>3, <1>6

\* The fields of a result on its way.
LEMMA SendTyped ==
    ASSUME ConnectionTypeOK, NEW s \in sending
    PROVE  /\ s.by \in Threads /\ s.connection \in Connections /\ s.id \in Ids
           /\ s.caller \in Callers /\ s.result \in Result
           /\ s.id \in Int /\ nextId[s.connection] \in Int
BY ConnectionAssumption DEF ConnectionTypeOK, Ids, Threads

\* The fields of a waiter.
LEMMA WaiterTyped ==
    ASSUME ConnectionTypeOK, NEW c \in Connections, NEW w \in pending[c]
    PROVE  /\ w \in [id : Ids, caller : Callers]
           /\ w.id \in Ids /\ w.id \in Int /\ w.caller \in Callers
           /\ w = [id |-> w.id, caller |-> w.caller]
           /\ nextId[c] \in Int
BY ConnectionAssumption DEF ConnectionTypeOK, Ids

\* Lines that are asked, written or read, and a connection that opens, leave the requests
\* as they are.
LEMMA FrameGood ==
    ASSUME RequestsGood,
           UNCHANGED <<pending, nextId, call, box, sending>>,
           connected' \in [Connections -> BOOLEAN],
           \A c \in Connections : connected[c] => connected'[c],
           asked' \in [Connections -> SUBSET Ids],
           inbound' \in [Connections -> Seq([line : Line, id : 0..MaxRequests])]
    PROVE  RequestsGood'
<1> USE DEF RequestsGood
<1>1. ConnectionTypeOK'
  BY DEF ConnectionTypeOK
<1>2. CallsGood'
  BY DEF CallsGood, Waiting
<1>3. PendingGood'
  BY DEF PendingGood, Waiting
<1>4. SendingGood'
  BY DEF SendingGood, IsFor, Waiting
<1>5. WaitingGood'
  BY DEF WaitingGood, IsFor, Waiting, Waiter
<1>6. AnswersGood'
  BY DEF AnswersGood, AnswerIsOwn
<1>7. QED
  BY <1>1, <1>2, <1>3, <1>4, <1>5, <1>6

\* Nothing about the requests changes when their variables do not.
LEMMA RequestsSame ==
    ASSUME RequestsGood, UNCHANGED connectionVars
    PROVE  RequestsGood'
BY FrameGood DEF connectionVars, RequestsGood, ConnectionTypeOK

\* A request that is refused was not waiting and does not wait.
LEMMA RefuseGood ==
    ASSUME RequestsGood, NEW k \in Callers, NEW c \in Connections,
           call[k].pc = "returned", Refuse(k, c)
    PROVE  RequestsGood'
<1> DEFINE r == [pc |-> "returned", connection |-> c, id |-> 0,
                 result |-> Failure(IF connected[c] THEN "tooManyPending"
                                    ELSE "disconnected")]
<1>1. call' = [call EXCEPT ![k] = r]
  BY DEF Refuse
<1>2. r \in [pc : CallPc, connection : 0..MaxConnections, id : 0..MaxRequests,
             result : Result \cup {Nothing}]
  BY ResultFacts, ConnectionAssumption DEF CallPc, Connections
<1>3. r.pc = "returned" /\ r.result.kind # "answer"
  BY ResultFacts
<1> HIDE DEF r
<1> USE DEF RequestsGood
<1>4. UNCHANGED <<connected, pending, nextId, box, sending, asked, inbound>>
  BY DEF Refuse
<1>5. ConnectionTypeOK'
  BY <1>1, <1>2, <1>4 DEF ConnectionTypeOK
<1>6. CallsGood'
  BY <1>1, <1>3, <1>4 DEF ConnectionTypeOK, CallsGood, Waiting
<1>7. PendingGood'
  BY <1>1, <1>3, <1>4 DEF ConnectionTypeOK, PendingGood, Waiting
<1>8. SendingGood'
  BY <1>1, <1>3, <1>4 DEF ConnectionTypeOK, SendingGood, IsFor, Waiting
<1>9. WaitingGood'
  BY <1>1, <1>3, <1>4 DEF ConnectionTypeOK, WaitingGood, IsFor, Waiting, Waiter
<1>10. AnswersGood'
  BY <1>1, <1>3, <1>4, ResultFacts
  DEF ConnectionTypeOK, AnswersGood, AnswerIsOwn, WaitingGood, Waiting
<1>11. QED
  BY <1>5, <1>6, <1>7, <1>8, <1>9, <1>10

\* A request is registered under a number that no waiter and no result bears.
LEMMA RegisterGood ==
    ASSUME RequestsGood, NEW k \in Callers, NEW c \in Connections,
           call[k].pc = "returned", Register(k, c)
    PROVE  RequestsGood'
<1> DEFINE r == [pc |-> "registered", connection |-> c, id |-> nextId[c],
                 result |-> Nothing]
           w == [id |-> nextId[c], caller |-> k]
<1>1. /\ call' = [call EXCEPT ![k] = r]
      /\ pending' = [pending EXCEPT ![c] = @ \cup {w}]
      /\ nextId' = [nextId EXCEPT ![c] = @ + 1]
      /\ UNCHANGED <<connected, box, sending, asked, inbound>>
  BY DEF Register
<1>2. connected[c] /\ nextId[c] \in Ids
  BY DEF Register, Refused
<1>3. r \in [pc : CallPc, connection : 0..MaxConnections, id : 0..MaxRequests,
             result : Result \cup {Nothing}]
  BY <1>2, ConnectionAssumption DEF CallPc, Connections, Ids
<1>4. r.pc = "registered" /\ r.connection = c /\ r.id = nextId[c] /\ r.result = Nothing
  OBVIOUS
<1>5. w \in [id : Ids, caller : Callers] /\ w.id = nextId[c] /\ w.caller = k
  BY <1>2
<1>w. w = [id |-> nextId[c], caller |-> k]
  OBVIOUS
<1> HIDE DEF r, w
<1> USE DEF RequestsGood
<1>n. nextId' \in [Connections -> 1..MaxRequests + 1]
  BY <1>1, <1>2, ConnectionAssumption DEF ConnectionTypeOK, Ids
<1>6. ConnectionTypeOK'
  BY <1>1, <1>3, <1>5, <1>n, ZenonT(40) DEF ConnectionTypeOK
<1>7. /\ nextId \in [Connections -> Int]
      /\ \A d \in Connections : \A v \in pending[d] : v.caller # k /\ v.id < nextId[d]
      /\ box[k] = Nothing
  BY ConnectionAssumption DEF ConnectionTypeOK, PendingGood, WaitingGood, CallsGood, Waiting
<1>8. CallsGood'
  BY <1>1, <1>2, <1>4, <1>7 DEF ConnectionTypeOK, CallsGood, Waiting
<1>9. PendingGood'
  BY <1>1, <1>2, <1>4, <1>5, <1>7 DEF ConnectionTypeOK, PendingGood, Waiting
<1>10. SendingGood'
  <2>1. ASSUME NEW s \in sending
        PROVE  /\ s.id < nextId'[s.connection]
               /\ IsFor(s, s.caller)' => box'[s.caller] = Nothing
               /\ \A v \in pending'[s.connection] : v.id # s.id
    <3>1. s.id < nextId[s.connection]
      BY DEF SendingGood
    <3>2. s.connection \in Connections /\ s.caller \in Callers /\ s.id \in Int
          /\ nextId[s.connection] \in Int
      BY SendTyped
    <3>3. s.id < nextId'[s.connection]
      BY <1>1, <3>1, <3>2 DEF ConnectionTypeOK
    <3>4. IsFor(s, s.caller)' => box'[s.caller] = Nothing
      BY <1>1, <1>4, <1>7, <3>1, <3>2 DEF ConnectionTypeOK, SendingGood, IsFor, Waiting
    <3>5. \A v \in pending'[s.connection] : v.id # s.id
      BY <1>1, <1>5, <3>1, <3>2 DEF ConnectionTypeOK, SendingGood
    <3>6. QED
      BY <3>3, <3>4, <3>5
  <2>2. QED
    BY <1>1, <2>1 DEF SendingGood
<1>11. WaitingGood'
  <2>1. ASSUME NEW j \in Callers, j # k
        PROVE  /\ call'[j] = call[j] /\ box'[j] = box[j]
               /\ Waiting(j) <=> Waiting(j)'
               /\ Waiter(j)' = Waiter(j)
               /\ \A s \in sending : IsFor(s, j) => IsFor(s, j)'
    BY <1>1, <2>1 DEF ConnectionTypeOK, IsFor, Waiting, Waiter
  <2>2. \A d \in Connections : pending[d] \subseteq pending'[d]
    BY <1>1 DEF ConnectionTypeOK
  <2>3. ASSUME NEW j \in Callers, j # k
        PROVE  IF Waiting(j)'
               THEN \/ Waiter(j)' \in pending'[call'[j].connection]
                    \/ \E s \in sending' : IsFor(s, j)'
                    \/ box'[j] # Nothing
               ELSE box'[j] = Nothing
    BY <1>1, <2>1, <2>2, <2>3 DEF WaitingGood, CallsGood
  <2>4. Waiting(k)' /\ Waiter(k)' \in pending'[call'[k].connection]
    BY <1>1, <1>4, <1>w DEF ConnectionTypeOK, Waiting, Waiter
  <2>5. QED
    BY <2>3, <2>4 DEF WaitingGood
<1>12. AnswersGood'
  BY <1>1, <1>4, <1>7, ResultFacts DEF ConnectionTypeOK, AnswersGood, AnswerIsOwn
<1>13. QED
  BY <1>6, <1>8, <1>9, <1>10, <1>11, <1>12

\* The fields of the request of a caller that waits.
LEMMA CallTyped ==
    ASSUME RequestsGood, NEW k \in Callers, Waiting(k)
    PROVE  /\ call[k].connection \in Connections
           /\ call[k].id \in Ids
           /\ Waiter(k) \in [id : Ids, caller : Callers]
           /\ Waiter(k).id = call[k].id /\ Waiter(k).caller = k
           /\ \A w \in pending[call[k].connection] : w.caller = k => w = Waiter(k)
<1>1. call[k].connection \in Connections /\ call[k].id \in Ids
  BY DEF RequestsGood, CallsGood
<1>2. QED
  BY <1>1, WaiterTyped DEF RequestsGood, PendingGood, Waiter

\* A step that changes the request of k leaves the other requests as they are.
LEMMA OthersKept ==
    ASSUME ConnectionTypeOK, NEW k \in Callers, NEW r, call' = [call EXCEPT ![k] = r]
    PROVE  \A j \in Callers \ {k} :
              /\ call'[j] = call[j]
              /\ Waiting(j) <=> Waiting(j)'
              /\ Waiter(j)' = Waiter(j)
              /\ \A s : IsFor(s, j) <=> IsFor(s, j)'
BY DEF ConnectionTypeOK, IsFor, Waiting, Waiter

\* A request that goes on waiting, its line written or its time over.
LEMMA StaysGood ==
    ASSUME RequestsGood, NEW k \in Callers, Waiting(k),
           NEW where \in CallPc \ {"returned"},
           call' = [call EXCEPT ![k].pc = where],
           UNCHANGED <<connected, pending, nextId, box, sending, inbound>>,
           asked' \in [Connections -> SUBSET Ids]
    PROVE  RequestsGood'
<1> DEFINE r == [call[k] EXCEPT !.pc = where]
<1> USE DEF RequestsGood
<1>1. call' = [call EXCEPT ![k] = r]
  OBVIOUS
<1>2. /\ r \in [pc : CallPc, connection : 0..MaxConnections, id : 0..MaxRequests,
                 result : Result \cup {Nothing}]
      /\ r.pc # "returned" /\ r.connection = call[k].connection /\ r.id = call[k].id
      /\ r.result = call[k].result
  BY DEF ConnectionTypeOK
<1> HIDE DEF r
<1>3. /\ \A j \in Callers :
            /\ Waiting(j) <=> Waiting(j)'
            /\ Waiter(j)' = Waiter(j)
            /\ call'[j].connection = call[j].connection
            /\ call'[j].id = call[j].id
            /\ call'[j].result = call[j].result
            /\ \A s : IsFor(s, j) <=> IsFor(s, j)'
  BY <1>1, <1>2 DEF ConnectionTypeOK, Waiting, Waiter, IsFor
<1>4. ConnectionTypeOK'
  BY <1>1, <1>2 DEF ConnectionTypeOK
<1>5. CallsGood'
  BY <1>3 DEF CallsGood
<1>6. PendingGood'
  BY <1>3, WaiterTyped DEF PendingGood
<1>7. SendingGood'
  BY <1>3, SendTyped DEF SendingGood
<1>8. WaitingGood'
  BY <1>3 DEF WaitingGood
<1>9. AnswersGood'
  BY <1>3 DEF AnswersGood, AnswerIsOwn
<1>10. QED
  BY <1>4, <1>5, <1>6, <1>7, <1>8, <1>9

\* A request that returns takes its waiter back, if that is still there.
LEMMA ReturnsGood ==
    ASSUME RequestsGood, NEW k \in Callers, Waiting(k), NEW result \in Result,
           result.kind = "answer" => result = Answer(call[k].connection, call[k].id),
           Returns(k, result),
           pending' = [pending EXCEPT ![call[k].connection] = @ \ {Waiter(k)}],
           UNCHANGED <<connected, nextId, sending, inbound>>,
           asked' \in [Connections -> SUBSET Ids]
    PROVE  RequestsGood'
<1> DEFINE r == [call[k] EXCEPT !.pc = "returned", !.result = result]
<1> USE DEF RequestsGood
<1>1. call' = [call EXCEPT ![k] = r] /\ box' = [box EXCEPT ![k] = Nothing]
  BY DEF Returns
<1>2. /\ r \in [pc : CallPc, connection : 0..MaxConnections, id : 0..MaxRequests,
                 result : Result \cup {Nothing}]
      /\ r.pc = "returned" /\ r.connection = call[k].connection /\ r.id = call[k].id
      /\ r.result = result
  BY DEF ConnectionTypeOK, CallPc
<1> HIDE DEF r
<1>3. \A j \in Callers \ {k} :
          /\ call'[j] = call[j] /\ box'[j] = box[j]
          /\ Waiting(j) <=> Waiting(j)'
          /\ Waiter(j)' = Waiter(j)
          /\ \A s : IsFor(s, j) <=> IsFor(s, j)'
  BY <1>1, OthersKept DEF ConnectionTypeOK
<1>4. call'[k] = r /\ box'[k] = Nothing /\ ~Waiting(k)'
  BY <1>1, <1>2 DEF ConnectionTypeOK, Waiting
<1>5. /\ call[k].connection \in Connections
      /\ \A w \in pending[call[k].connection] : w.caller = k => w = Waiter(k)
      /\ Waiter(k).caller = k
  BY CallTyped
<1>6. \A d \in Connections : \A w \in pending'[d] : w \in pending[d] /\ w.caller # k
  BY <1>5 DEF ConnectionTypeOK, PendingGood
<1>7. ConnectionTypeOK'
  BY <1>1, <1>2, <1>5 DEF ConnectionTypeOK
<1>8. CallsGood'
  BY <1>3, <1>4 DEF CallsGood
<1>9. PendingGood'
  BY <1>3, <1>6, WaiterTyped DEF PendingGood
<1>10. SendingGood'
  <2>1. ASSUME NEW s \in sending
        PROVE  /\ s.id < nextId[s.connection]
               /\ IsFor(s, s.caller)' => box'[s.caller] = Nothing
               /\ \A v \in pending'[s.connection] : v.id # s.id
    BY <1>3, <1>4, <1>6, SendTyped DEF SendingGood
  <2>2. QED
    BY <2>1 DEF SendingGood
<1>11. WaitingGood'
  <2>1. ASSUME NEW j \in Callers \ {k}, Waiting(j), Waiter(j) \in pending[call[j].connection]
        PROVE  Waiter(j) \in pending'[call[j].connection]
    BY <2>1, <1>5, CallTyped DEF ConnectionTypeOK
  <2>2. QED
    BY <1>3, <1>4, <2>1 DEF WaitingGood
<1>12. AnswersGood'
  <2>1. AnswerIsOwn'
    BY <1>2, <1>3, <1>4 DEF AnswersGood, AnswerIsOwn
  <2>2. QED
    BY <1>3, <1>4, <2>1, ResultFacts DEF AnswersGood
<1>13. QED
  BY <1>7, <1>8, <1>9, <1>10, <1>11, <1>12

\* A result that is sent reaches the box of the request it is for, or is lost.
LEMMA SendGood ==
    ASSUME RequestsGood, NEW s \in sending, Send(s)
    PROVE  RequestsGood'
<1> USE DEF RequestsGood
<1> DEFINE k == s.caller
<1>1. /\ box' = [box EXCEPT ![k] = IF IsFor(s, k) THEN s.result ELSE @]
      /\ sending' = sending \ {s}
      /\ UNCHANGED <<connected, pending, nextId, call, asked, inbound>>
  BY DEF Send
<1>2. k \in Callers /\ s.connection \in Connections /\ s.result \in Result
  BY SendTyped
<1>3. /\ \A j \in Callers \ {k} : box'[j] = box[j]
      /\ box'[k] = IF IsFor(s, k) THEN s.result ELSE box[k]
  BY <1>1, <1>2 DEF ConnectionTypeOK
<1>4. /\ \A j : Waiting(j) <=> Waiting(j)'
      /\ \A j : Waiter(j)' = Waiter(j)
      /\ \A j : \A r : IsFor(r, j) <=> IsFor(r, j)'
  BY <1>1 DEF Waiting, Waiter, IsFor
<1>5. IsFor(s, k) =>
          /\ Waiting(k) /\ s.connection = call[k].connection /\ s.id = call[k].id
  BY DEF IsFor
<1> HIDE DEF k
<1>6. IsFor(s, k) => \A d \in Connections : \A w \in pending[d] : w.caller # k
  BY <1>2, <1>5 DEF PendingGood, SendingGood
<1>7. ConnectionTypeOK'
  BY <1>1, <1>2 DEF ConnectionTypeOK
<1>8. CallsGood'
  BY <1>1, <1>4 DEF CallsGood
<1>9. PendingGood'
  BY <1>1, <1>3, <1>4, <1>6, WaiterTyped DEF PendingGood
<1>10. SendingGood'
  <2>1. ASSUME NEW r \in sending, r # s, IsFor(r, r.caller)
        PROVE  box'[r.caller] = Nothing
    <3>1. box[r.caller] = Nothing /\ r.caller \in Callers
      BY <2>1, SendTyped DEF SendingGood
    <3>2. CASE r.caller = k
      <4>1. ~IsFor(s, k)
        BY <2>1, <3>2, <1>5 DEF IsFor, SendingGood
      <4>2. QED
        BY <1>3, <3>1, <3>2, <4>1
    <3>3. CASE r.caller # k
      BY <1>3, <3>1, <3>3
    <3>4. QED
      BY <3>2, <3>3
  <2>2. QED
    BY <1>1, <1>4, <2>1 DEF SendingGood
<1>11. WaitingGood'
  <2>1. ASSUME NEW j \in Callers
        PROVE  IF Waiting(j)'
               THEN \/ Waiter(j)' \in pending'[call'[j].connection]
                    \/ \E r \in sending' : IsFor(r, j)'
                    \/ box'[j] # Nothing
               ELSE box'[j] = Nothing
    <3>1. CASE IsFor(s, j)
      <4>1. j = k
        BY <3>1 DEF IsFor, k
      <4>2. Waiting(j)' /\ box'[j] # Nothing
        BY <3>1, <4>1, <1>2, <1>3, <1>4, ResultFacts DEF IsFor
      <4>3. QED
        BY <4>2
    <3>2. CASE ~IsFor(s, j)
      <4>1. box'[j] = box[j]
        BY <3>2, <1>2, <1>3
      <4>2. \A r \in sending : IsFor(r, j) => r \in sending'
        BY <3>2, <1>1
      <4>3. QED
        BY <1>1, <1>4, <4>1, <4>2 DEF WaitingGood
    <3>3. QED
      BY <3>1, <3>2
  <2>2. QED
    BY <2>1 DEF WaitingGood
<1>12. AnswersGood'
  <2>1. ASSUME NEW j \in Callers, box'[j].kind = "answer"
        PROVE  box'[j] = Answer(call[j].connection, call[j].id)
    BY <2>1, <1>2, <1>3, <1>5 DEF AnswersGood
  <2>2. QED
    BY <1>1, <2>1 DEF AnswersGood, AnswerIsOwn
<1>13. QED
  BY <1>7, <1>8, <1>9, <1>10, <1>11, <1>12

\* The results new of the waiters that were taken out of the pending map of c, one each.
ResultsOf(c, taken, new) ==
    /\ taken \subseteq pending[c]
    /\ new \subseteq [by : 0..MaxConnections, connection : Connections, id : Ids,
                      caller : Callers, result : Result]
    /\ \A s \in new :
          /\ s.connection = c
          /\ s.result.kind = "answer" => s.result = Answer(s.connection, s.id)
          /\ \E w \in taken : s.id = w.id /\ s.caller = w.caller
    /\ \A w \in taken : \E s \in new : s.id = w.id /\ s.caller = w.caller
    /\ \A s, r \in new : s.id = r.id => s = r

\* c stays as it is, or is closed with no waiter left in its map.
ClosedEmpty(c) ==
    /\ connected' \in [Connections -> BOOLEAN]
    /\ \A d \in Connections : d # c \/ pending'[c] # {} => connected'[d] = connected[d]

\* Waiters leave the map with their results on the way: no request loses its completion.
LEMMA TakeGood ==
    ASSUME RequestsGood, NEW c \in Connections, NEW taken, NEW new,
           ResultsOf(c, taken, new),
           ClosedEmpty(c),
           pending' = [pending EXCEPT ![c] = @ \ taken],
           sending' = sending \cup new,
           UNCHANGED <<nextId, call, box, asked>>,
           inbound' \in [Connections -> Seq([line : Line, id : 0..MaxRequests])]
    PROVE  RequestsGood'
<1> USE DEF RequestsGood, ResultsOf, ClosedEmpty
<1>1. /\ \A j : Waiting(j) <=> Waiting(j)'
      /\ \A j : Waiter(j)' = Waiter(j)
      /\ \A j : \A r : IsFor(r, j) <=> IsFor(r, j)'
  BY DEF Waiting, Waiter, IsFor
<1>2. /\ \A d \in Connections \ {c} : pending'[d] = pending[d]
      /\ pending'[c] = pending[c] \ taken
  BY DEF ConnectionTypeOK
<1>3. ConnectionTypeOK'
  BY DEF ConnectionTypeOK
<1>4. CallsGood'
  BY <1>1 DEF CallsGood
<1>5. PendingGood'
  <2>1. ASSUME NEW d \in Connections, NEW w \in pending'[d]
        PROVE  w \in pending[d] /\ (connected[d] => connected'[d])
    BY <1>2
  <2>2. QED
    BY <1>1, <2>1 DEF PendingGood
<1>6. SendingGood'
  <2>1. ASSUME NEW s \in new
        PROVE  /\ s.id < nextId[s.connection]
               /\ IsFor(s, s.caller) => box[s.caller] = Nothing
               /\ \A w \in pending'[s.connection] : w.id # s.id
               /\ \A r \in sending : r.connection # s.connection \/ r.id # s.id
    <3>1. PICK w \in taken : s.id = w.id /\ s.caller = w.caller
      OBVIOUS
    <3>2. /\ w \in pending[c] /\ s.connection = c
          /\ w.caller \in Callers
      BY WaiterTyped
    <3>p. /\ Waiting(w.caller) /\ call[w.caller].connection = c
          /\ call[w.caller].id = w.id
      BY <3>2 DEF PendingGood
    <3>3. s.id < nextId[s.connection]
      BY <3>1, <3>2, <3>p DEF CallsGood
    <3>4. IsFor(s, s.caller) => box[s.caller] = Nothing
      BY <3>1, <3>2 DEF PendingGood
    <3>5. \A v \in pending'[s.connection] : v.id # s.id
      BY <3>1, <3>2, <1>2 DEF PendingGood
    <3>6. \A r \in sending : r.connection # s.connection \/ r.id # s.id
      BY <3>1, <3>2 DEF SendingGood
    <3>7. QED
      BY <3>3, <3>4, <3>5, <3>6
  <2>2. ASSUME NEW s \in sending
        PROVE  /\ s.id < nextId[s.connection]
               /\ IsFor(s, s.caller) => box[s.caller] = Nothing
               /\ \A w \in pending'[s.connection] : w.id # s.id
    BY <1>2, SendTyped DEF SendingGood
  <2>3. \A s, r \in sending \cup new : s.connection = r.connection /\ s.id = r.id => s = r
    BY <2>1 DEF SendingGood
  <2>4. QED
    BY <1>1, <2>1, <2>2, <2>3 DEF SendingGood
<1>7. WaitingGood'
  <2>1. ASSUME NEW j \in Callers, Waiting(j), Waiter(j) \in pending[call[j].connection]
        PROVE  \/ Waiter(j) \in pending'[call[j].connection]
               \/ \E s \in sending' : IsFor(s, j)
    <3>1. call[j].connection \in Connections /\ Waiter(j).id = call[j].id
          /\ Waiter(j).caller = j
      BY <2>1, CallTyped
    <3>2. CASE call[j].connection # c \/ Waiter(j) \notin taken
      BY <2>1, <3>1, <3>2, <1>2
    <3>3. CASE call[j].connection = c /\ Waiter(j) \in taken
      <4>1. PICK s \in new : s.id = call[j].id /\ s.caller = j
        BY <3>1, <3>3
      <4>2. IsFor(s, j)
        BY <2>1, <3>3, <4>1 DEF IsFor
      <4>3. QED
        BY <4>2
    <3>4. QED
      BY <3>2, <3>3
  <2>2. QED
    BY <1>1, <2>1 DEF WaitingGood
<1>8. AnswersGood'
  BY DEF AnswersGood, AnswerIsOwn
<1>9. QED
  BY <1>3, <1>4, <1>5, <1>6, <1>7, <1>8

-----------------------------------------------------------------------------
(***************************************************************************)
(* The operations of AppServerConnection.                                  *)
(***************************************************************************)
\* A new request is refused or registered.
LEMMA RequestGood ==
    ASSUME RequestsGood, NEW k \in Callers, NEW c \in Connections, Request(k, c)
    PROVE  RequestsGood'
BY RefuseGood, RegisterGood DEF Request

\* The line of a request is written, or the request fails with the write.
LEMMA WriteGood ==
    ASSUME RequestsGood, NEW k \in Callers, Write(k) \/ WriteFails(k)
    PROVE  RequestsGood'
<1>1. Waiting(k) /\ call[k].pc = "registered"
  BY DEF Write, WriteFails, Waiting
<1>c. call[k].connection \in Connections /\ call[k].id \in Ids
  BY <1>1, CallTyped
<1>d. asked' \in {asked, [asked EXCEPT ![call[k].connection] = @ \cup {call[k].id}]}
  BY DEF Write, WriteFails
<1>e. asked \in [Connections -> SUBSET Ids]
  BY DEF RequestsGood, ConnectionTypeOK
<1>2. asked' \in [Connections -> SUBSET Ids]
  BY <1>c, <1>d, <1>e
<1>3. CASE Write(k)
  BY <1>1, <1>2, <1>3, StaysGood DEF Write, CallPc
<1>4. CASE WriteFails(k)
  BY <1>1, <1>2, <1>4, ReturnsGood, ResultFacts DEF WriteFails
<1>5. QED
  BY <1>3, <1>4

\* A request returns what arrived in its box.
LEMMA ReceiveGood ==
    ASSUME RequestsGood, NEW k \in Callers, Receive(k)
    PROVE  RequestsGood'
<1>1. /\ Waiting(k)
      /\ box[k] # Nothing
      /\ Returns(k, box[k])
      /\ UNCHANGED <<connected, pending, nextId, sending, asked, inbound>>
  BY DEF Receive, Waiting
<1>2. box[k] \in Result /\ asked' \in [Connections -> SUBSET Ids]
  BY <1>1 DEF RequestsGood, ConnectionTypeOK
<1>3. box[k].kind = "answer" => box[k] = Answer(call[k].connection, call[k].id)
  BY DEF RequestsGood, AnswersGood
<1>4. call[k].connection \in Connections /\ Waiter(k).caller = k
  BY <1>1, CallTyped
<1>5. Waiter(k) \notin pending[call[k].connection]
  BY <1>1, <1>4 DEF RequestsGood, PendingGood
<1>6. pending' = [pending EXCEPT ![call[k].connection] = @ \ {Waiter(k)}]
  BY <1>1, <1>4, <1>5 DEF RequestsGood, ConnectionTypeOK
<1>7. QED
  BY <1>1, <1>2, <1>3, <1>6, ReturnsGood

\* A request that times out takes its waiter back, or waits for the result on its way.
LEMMA TimeOutGood ==
    ASSUME RequestsGood, NEW k \in Callers, TimeOut(k)
    PROVE  RequestsGood'
<1>1. Waiting(k) /\ asked' \in [Connections -> SUBSET Ids]
  BY DEF TimeOut, Waiting, RequestsGood, ConnectionTypeOK
<1>2. CASE Waiter(k) \in pending[call[k].connection]
  BY <1>1, <1>2, ReturnsGood, ResultFacts DEF TimeOut
<1>3. CASE Waiter(k) \notin pending[call[k].connection]
  BY <1>1, <1>3, StaysGood DEF TimeOut, CallPc
<1>4. QED
  BY <1>2, <1>3

\* The reader takes the waiter that a response names and no other.
LEMMA CompleteGood ==
    ASSUME RequestsGood, NEW c \in Connections, NEW id, Complete(c, id),
           UNCHANGED <<connected, nextId, call, box, asked>>,
           inbound' \in [Connections -> Seq([line : Line, id : 0..MaxRequests])]
    PROVE  RequestsGood'
<1> DEFINE taken == {w \in pending[c] : w.id = id}
           new == {Outgoing(c, c, w, Answer(c, id)) : w \in taken}
<1>1. pending' = [pending EXCEPT ![c] = @ \ taken] /\ sending' = sending \cup new
  BY DEF Complete
<1>2. ASSUME NEW w \in taken
      PROVE  /\ w.id = id /\ id \in Ids /\ w.caller \in Callers
             /\ Answer(c, id) \in Result
             /\ Outgoing(c, c, w, Answer(c, id)) \in
                  [by : 0..MaxConnections, connection : Connections, id : Ids,
                   caller : Callers, result : Result]
  <2>1. w.id = id /\ w.id \in Ids /\ w.caller \in Callers
    BY WaiterTyped DEF RequestsGood
  <2>2. Answer(c, id) \in Result
    BY <2>1, ResultFacts
  <2>3. QED
    BY <2>1, <2>2, ConnectionAssumption DEF Outgoing, Connections
<1>3. \A s \in new :
          /\ s.connection = c
          /\ s.result.kind = "answer" => s.result = Answer(s.connection, s.id)
          /\ \E w \in taken : s.id = w.id /\ s.caller = w.caller
  BY DEF Outgoing
<1>4. \A w \in taken : \E s \in new : s.id = w.id /\ s.caller = w.caller
  <2>1. TAKE w \in taken
  <2>2. Outgoing(c, c, w, Answer(c, id)) \in new
    OBVIOUS
  <2>3. /\ Outgoing(c, c, w, Answer(c, id)).id = w.id
        /\ Outgoing(c, c, w, Answer(c, id)).caller = w.caller
    BY DEF Outgoing
  <2>4. QED
    BY <2>2, <2>3
<1>5. \A v, w \in taken : v = w
  BY DEF RequestsGood, PendingGood
<1>6. \A s, r \in new : s.id = r.id => s = r
  BY <1>5
<1>7. new \in SUBSET [by : 0..MaxConnections, connection : Connections, id : Ids,
                      caller : Callers, result : Result]
  BY <1>2
<1>8. /\ taken \in SUBSET pending[c]
      /\ connected' \in [Connections -> BOOLEAN]
      /\ \A d \in Connections : d # c \/ pending'[c] # {} => connected'[d] = connected[d]
  BY DEF RequestsGood, ConnectionTypeOK
<1> HIDE DEF taken, new
<1>9. QED
  <2>1. ResultsOf(c, taken, new) /\ ClosedEmpty(c)
    BY <1>3, <1>4, <1>6, <1>7, <1>8 DEF ResultsOf, ClosedEmpty
  <2>2. QED
    BY <1>1, <2>1, TakeGood

\* A close takes every waiter of the connection and leaves none behind.
LEMMA DisconnectGood ==
    ASSUME RequestsGood, NEW t \in Threads, NEW c \in Connections, Disconnect(t, c)
    PROVE  RequestsGood'
<1> DEFINE taken == {v \in pending[c] : connected[c]}
           new == {Outgoing(t, c, w, Failure("disconnected")) : w \in taken}
<1>1. /\ connected' = [connected EXCEPT ![c] = FALSE]
      /\ pending' = [pending EXCEPT ![c] = IF connected[c] THEN {} ELSE @]
      /\ sending' = sending \cup new
      /\ UNCHANGED <<nextId, call, box, asked, inbound>>
  BY DEF Disconnect
<1>2. pending \in [Connections -> SUBSET [id : Ids, caller : Callers]]
  BY DEF RequestsGood, ConnectionTypeOK
<1>3. pending' = [pending EXCEPT ![c] = @ \ taken]
  BY <1>1, <1>2
<1>4. pending'[c] = {}
  BY <1>1, <1>2 DEF RequestsGood, PendingGood
<1>5. Failure("disconnected") \in Result /\ Failure("disconnected").kind # "answer"
  BY ResultFacts
<1>6. ASSUME NEW w \in taken
      PROVE  Outgoing(t, c, w, Failure("disconnected")) \in
                  [by : 0..MaxConnections, connection : Connections, id : Ids,
                   caller : Callers, result : Result]
  <2>1. w.id \in Ids /\ w.caller \in Callers
    BY WaiterTyped DEF RequestsGood
  <2>2. QED
    BY <1>5, <2>1 DEF Outgoing, Threads
<1>7. \A s \in new :
          /\ s.connection = c
          /\ s.result.kind = "answer" => s.result = Answer(s.connection, s.id)
          /\ \E w \in taken : s.id = w.id /\ s.caller = w.caller
  BY <1>5 DEF Outgoing
<1>8. \A w \in taken : \E s \in new : s.id = w.id /\ s.caller = w.caller
  <2>1. TAKE w \in taken
  <2>2. Outgoing(t, c, w, Failure("disconnected")) \in new
    OBVIOUS
  <2>3. /\ Outgoing(t, c, w, Failure("disconnected")).id = w.id
        /\ Outgoing(t, c, w, Failure("disconnected")).caller = w.caller
    BY DEF Outgoing
  <2>4. QED
    BY <2>2, <2>3
<1>9. \A v, w \in taken : v.id = w.id => v = w
  BY DEF RequestsGood, PendingGood
<1>10. \A w \in taken : Outgoing(t, c, w, Failure("disconnected")).id = w.id
  BY DEF Outgoing
<1>11. \A s, r \in new : s.id = r.id => s = r
  BY <1>9, <1>10
<1>12. new \in SUBSET [by : 0..MaxConnections, connection : Connections, id : Ids,
                       caller : Callers, result : Result]
  BY <1>6
<1>13. /\ taken \in SUBSET pending[c]
       /\ connected' \in [Connections -> BOOLEAN]
       /\ \A d \in Connections : d # c \/ pending'[c] # {} => connected'[d] = connected[d]
       /\ inbound' \in [Connections -> Seq([line : Line, id : 0..MaxRequests])]
  BY <1>1, <1>4 DEF RequestsGood, ConnectionTypeOK
<1> HIDE DEF taken, new
<1>14. QED
  <2>1. ResultsOf(c, taken, new) /\ ClosedEmpty(c)
    BY <1>7, <1>8, <1>11, <1>12, <1>13 DEF ResultsOf, ClosedEmpty
  <2>2. QED
    BY <1>1, <1>3, <1>13, <2>1, TakeGood

-----------------------------------------------------------------------------
(***************************************************************************)
(* Who owns a connection: one lemma per step of the supervisor and of the  *)
(* readers.  The variables of the requests are those of the first half;    *)
(* LifeGood takes their types from there.                                   *)
(***************************************************************************)

\* Thread 0 is the supervisor, the other threads are the readers of the connections.
LEMMA ThreadFacts ==
    /\ 0 \in Threads
    /\ 0 \notin Connections
    /\ \A c \in Connections : c \in Threads /\ c # 0 /\ c \in Int
    /\ \A t \in Threads : t = 0 \/ t \in Connections
    /\ 0..MaxConnections = {0} \cup Connections
BY ConnectionAssumption DEF Threads, Connections

\* The part of TypeOK that the steps below use, without the requests.
LifeTyped ==
    /\ connected \in [Connections -> BOOLEAN]
    /\ status \in Status
    /\ active \in {0} \cup Connections
    /\ published \in Status
    /\ observed \in [Observers -> {0} \cup Connections]
    /\ launched \in {0} \cup Connections
    /\ activated \subseteq Connections
    /\ \A c \in activated : c <= launched
    /\ process \in [Connections -> {"none", "running", "gone", "unkilled"}]
    /\ stop \in [Connections -> BOOLEAN]
    /\ handle \in {0} \cup Connections
    /\ pc \in [Threads -> Pc]
    /\ op \in [name : {"none", "start", "shutdown"}, connection : {0} \cup Connections]

LifeGood ==
    /\ LifeTyped
    /\ ThreadsGood
    /\ ReadersGood
    /\ ActiveGood
    /\ StopGood
    /\ ObservedGood
    /\ NoOrphanProcess

\* start and retry begin only when no connection is active: the status says so.
LEMMA StartLife ==
    ASSUME LifeGood, Start \/ Retry
    PROVE  LifeGood'
<1> USE ThreadFacts
    DEF LifeGood, Start, Retry, BeginStart, At, Goto, Target, connectionVars, Pc,
        StartPc, TeardownPc, ReaderPc, UpPc, LifeTyped
<1>1. LifeTyped'
  BY DEF Status
<1>2. ThreadsGood'
  BY DEF ThreadsGood
<1>3. ReadersGood'
  BY DEF ReadersGood, ThreadsGood
<1>4. ActiveGood'
  BY DEF ActiveGood, ThreadsGood, ReadersGood, StopGood
<1>5. StopGood'
  BY DEF StopGood, ThreadsGood, ReadersGood, ActiveGood
<1>6. ObservedGood'
  BY DEF ObservedGood, Observers, ActiveGood, ThreadsGood, ReadersGood
<1>7. NoOrphanProcess'
  BY DEF NoOrphanProcess, Starting, TearingDown, ActiveGood, ThreadsGood, ReadersGood
<1>8. QED
  BY <1>1, <1>2, <1>3, <1>4, <1>5, <1>6, <1>7

\* shutdown takes the active connection, and is then the one thread that tears it down.
LEMMA ShutdownLife ==
    ASSUME LifeGood, Shutdown
    PROVE  LifeGood'
<1> USE ThreadFacts
    DEF LifeGood, Shutdown, At, Goto, Target, connectionVars, Pc, StartPc, TeardownPc,
        ReaderPc, UpPc, LifeTyped
<1>1. LifeTyped'
  BY DEF Status
<1>2. ThreadsGood'
  BY DEF ThreadsGood, ActiveGood
<1>3. ReadersGood'
  BY DEF ReadersGood, ThreadsGood
<1>4. ActiveGood'
  BY DEF ActiveGood, ThreadsGood, ReadersGood, StopGood
<1>5. StopGood'
  BY DEF StopGood, ThreadsGood, ReadersGood, ActiveGood
<1>6. ObservedGood'
  BY DEF ObservedGood, Observers, ActiveGood, ThreadsGood, ReadersGood
<1>7. NoOrphanProcess'
  BY DEF NoOrphanProcess, Starting, TearingDown, ActiveGood, ThreadsGood, ReadersGood
<1>8. QED
  BY <1>1, <1>2, <1>3, <1>4, <1>5, <1>6, <1>7

\* The supervisor goes on when no reader is left.
LEMMA JoinLife ==
    ASSUME LifeGood, JoinReader
    PROVE  LifeGood'
<1> USE ThreadFacts
    DEF LifeGood, JoinReader, AfterJoin, Transition, At, Goto, Target, connectionVars,
        Pc, StartPc, TeardownPc, ReaderPc, UpPc, LifeTyped
<1>1. LifeTyped'
  BY ZenonT(40) DEF Status
<1>2. ThreadsGood'
  BY DEF ThreadsGood
<1>3. ReadersGood'
  BY DEF ReadersGood, ThreadsGood
<1>4. ActiveGood'
  BY DEF ActiveGood, ThreadsGood, ReadersGood, StopGood
<1>5. StopGood'
  BY DEF StopGood, ThreadsGood, ReadersGood, ActiveGood
<1>6. ObservedGood'
  BY DEF ObservedGood, Observers, ActiveGood, ThreadsGood, ReadersGood
<1>7. NoOrphanProcess'
  BY DEF NoOrphanProcess, Starting, TearingDown, ActiveGood, ThreadsGood, ReadersGood
<1>8. QED
  BY <1>1, <1>2, <1>3, <1>4, <1>5, <1>6, <1>7

\* A process is launched when none runs, nothing is active and no reader is left.
LEMMA LaunchLife ==
    ASSUME LifeGood, Launch
    PROVE  LifeGood'
<1> USE ThreadFacts
    DEF LifeGood, Launch, Transition, At, Goto, Target, connectionVars, Pc, StartPc,
        TeardownPc, ReaderPc, UpPc, LifeTyped
<1>0. launched < MaxConnections => launched + 1 \in Connections /\ launched <= launched + 1
  BY ConnectionAssumption DEF Connections
<1>1. LifeTyped'
  BY <1>0 DEF Status
<1>2. ThreadsGood'
  BY DEF ThreadsGood
<1>3. ReadersGood'
  BY DEF ReadersGood, ThreadsGood
<1>4. ActiveGood'
  BY DEF ActiveGood, ThreadsGood, ReadersGood, StopGood
<1>5. StopGood'
  BY DEF StopGood, ThreadsGood, ReadersGood, ActiveGood
<1>6. ObservedGood'
  BY DEF ObservedGood, Observers, ActiveGood, ThreadsGood, ReadersGood
<1>7. NoOrphanProcess'
  <2>0. active = 0 /\ op.connection = 0 /\ \A t \in Threads : pc[t] \notin TeardownPc
    BY DEF ActiveGood, ThreadsGood, ReadersGood
  <2>1. \A c \in Connections : process[c] # "running"
    BY <2>0 DEF NoOrphanProcess, Starting, TearingDown
  <2>2. ASSUME NEW c \in Connections, process'[c] = "running"
        PROVE  Starting(c)'
    BY <1>0, <2>1, <2>2 DEF Starting
  <2>3. QED
    BY <2>2 DEF NoOrphanProcess
<1>8. QED
  BY <1>1, <1>2, <1>3, <1>4, <1>5, <1>6, <1>7

\* The handshake changes nothing but where the supervisor is.
LEMMA InitializeLife ==
    ASSUME LifeGood, Initialize
    PROVE  LifeGood'
<1> USE ThreadFacts
    DEF LifeGood, Initialize, At, Goto, Target, connectionVars, Pc, StartPc, TeardownPc,
        ReaderPc, UpPc, LifeTyped
<1>1. LifeTyped'
  BY DEF Status
<1>2. ThreadsGood'
  BY DEF ThreadsGood
<1>3. ReadersGood'
  BY DEF ReadersGood, ThreadsGood
<1>4. ActiveGood'
  BY DEF ActiveGood, ThreadsGood, ReadersGood, StopGood
<1>5. StopGood'
  BY DEF StopGood, ThreadsGood, ReadersGood, ActiveGood
<1>6. ObservedGood'
  BY DEF ObservedGood, Observers, ActiveGood, ThreadsGood, ReadersGood
<1>7. NoOrphanProcess'
  BY DEF NoOrphanProcess, Starting, TearingDown, ActiveGood, ThreadsGood, ReadersGood
<1>8. QED
  BY <1>1, <1>2, <1>3, <1>4, <1>5, <1>6, <1>7

\* A process that did not initialize is terminated before start returns.
LEMMA AbandonLife ==
    ASSUME LifeGood, Abandon
    PROVE  LifeGood'
<1> USE ThreadFacts
    DEF LifeGood, Abandon, Transition, Terminated, At, Goto, Target, connectionVars, Pc,
        StartPc, TeardownPc, ReaderPc, UpPc, LifeTyped
<1>1. LifeTyped'
  BY DEF Status
<1>2. ThreadsGood'
  BY DEF ThreadsGood
<1>3. ReadersGood'
  BY DEF ReadersGood, ThreadsGood
<1>4. ActiveGood'
  BY DEF ActiveGood, ThreadsGood, ReadersGood, StopGood
<1>5. StopGood'
  BY DEF StopGood, ThreadsGood, ReadersGood, ActiveGood
<1>6. ObservedGood'
  BY DEF ObservedGood, Observers, ActiveGood, ThreadsGood, ReadersGood
<1>7. NoOrphanProcess'
  BY DEF NoOrphanProcess, Starting, TearingDown, ActiveGood, ThreadsGood, ReadersGood
<1>8. QED
  BY <1>1, <1>2, <1>3, <1>4, <1>5, <1>6, <1>7

\* A connection that was never active before fills the empty slot.
LEMMA ActivateLife ==
    ASSUME LifeGood, Activate
    PROVE  LifeGood'
<1> USE ThreadFacts
    DEF LifeGood, Activate, At, Goto, Target, connectionVars, Pc, StartPc, TeardownPc,
        ReaderPc, UpPc, LifeTyped
<1>1. LifeTyped'
  BY DEF Status, ThreadsGood
<1>2. ThreadsGood'
  BY DEF ThreadsGood
<1>3. ReadersGood'
  BY DEF ReadersGood, ThreadsGood
<1>4. ActiveGood'
  BY DEF ActiveGood, ThreadsGood, ReadersGood, StopGood
<1>5. StopGood'
  BY DEF StopGood, ThreadsGood, ReadersGood, ActiveGood
<1>0. \A t \in Threads : pc[t] \notin TeardownPc /\ pc'[t] \notin TeardownPc
  BY DEF ThreadsGood, ReadersGood
<1>6. ObservedGood'
  BY <1>0 DEF ObservedGood, Observers, ActiveGood, ThreadsGood, ReadersGood
<1>7. NoOrphanProcess'
  BY DEF NoOrphanProcess, Starting, TearingDown, ActiveGood, ThreadsGood, ReadersGood
<1>8. QED
  BY <1>1, <1>2, <1>3, <1>4, <1>5, <1>6, <1>7

\* Each observer is handed the connection in its turn.
LEMMA OnConnectedLife ==
    ASSUME LifeGood, OnConnected
    PROVE  LifeGood'
<1> USE ThreadFacts
    DEF LifeGood, OnConnected, At, Goto, Target, connectionVars, Pc, StartPc,
        TeardownPc, ReaderPc, UpPc, LifeTyped
<1>1. LifeTyped'
  BY DEF Status
<1>2. ThreadsGood'
  BY DEF ThreadsGood
<1>3. ReadersGood'
  BY DEF ReadersGood, ThreadsGood
<1>4. ActiveGood'
  BY DEF ActiveGood, ThreadsGood, ReadersGood, StopGood
<1>5. StopGood'
  BY DEF StopGood, ThreadsGood, ReadersGood, ActiveGood
<1>0. \A t \in Threads : pc[t] \notin TeardownPc /\ pc'[t] \notin TeardownPc
  BY DEF ThreadsGood, ReadersGood
<1>6. ObservedGood'
  BY <1>0 DEF ObservedGood, Observers, ActiveGood, ThreadsGood, ReadersGood
<1>7. NoOrphanProcess'
  BY DEF NoOrphanProcess, Starting, TearingDown, ActiveGood, ThreadsGood, ReadersGood
<1>8. QED
  BY <1>1, <1>2, <1>3, <1>4, <1>5, <1>6, <1>7

\* The connected status is published when both observers hold the connection.
LEMMA PublishLife ==
    ASSUME LifeGood, Publish
    PROVE  LifeGood'
<1> USE ThreadFacts
    DEF LifeGood, Publish, At, Goto, Target, connectionVars, Pc, StartPc, TeardownPc,
        ReaderPc, UpPc, LifeTyped
<1>1. LifeTyped'
  BY DEF Status
<1>2. ThreadsGood'
  BY DEF ThreadsGood
<1>3. ReadersGood'
  BY DEF ReadersGood, ThreadsGood
<1>4. ActiveGood'
  BY DEF ActiveGood, ThreadsGood, ReadersGood, StopGood
<1>5. StopGood'
  BY DEF StopGood, ThreadsGood, ReadersGood, ActiveGood
<1>6. ObservedGood'
  BY DEF ObservedGood, Observers, ActiveGood, ThreadsGood, ReadersGood
<1>7. NoOrphanProcess'
  BY DEF NoOrphanProcess, Starting, TearingDown, ActiveGood, ThreadsGood, ReadersGood
<1>8. QED
  BY <1>1, <1>2, <1>3, <1>4, <1>5, <1>6, <1>7

\* The reader becomes the one with a handle, or the supervisor takes the connection back.
LEMMA SpawnLife ==
    ASSUME LifeGood, SpawnReader
    PROVE  LifeGood'
<1> USE ThreadFacts
    DEF LifeGood, SpawnReader, TakeActive, At, Goto, Target, connectionVars, Pc,
        StartPc, TeardownPc, ReaderPc, UpPc, LifeTyped
<1>1. LifeTyped'
  BY DEF Status
<1>2. ThreadsGood'
  BY DEF ThreadsGood, ActiveGood
<1>3. ReadersGood'
  BY DEF ReadersGood, ThreadsGood, ActiveGood
<1>4. ActiveGood'
  BY DEF ActiveGood, ThreadsGood, ReadersGood, StopGood
<1>5. StopGood'
  BY DEF StopGood, ThreadsGood, ReadersGood, ActiveGood
<1>6. ObservedGood'
  BY DEF ObservedGood, Observers, ActiveGood, ThreadsGood, ReadersGood
<1>7. NoOrphanProcess'
  BY DEF NoOrphanProcess, Starting, TearingDown, ActiveGood, ThreadsGood, ReadersGood
<1>8. QED
  BY <1>1, <1>2, <1>3, <1>4, <1>5, <1>6, <1>7

\* The thread that owns the connection closes it.
LEMMA DisconnectLife ==
    ASSUME LifeGood, NEW t \in Threads, DisconnectStep(t)
    PROVE  LifeGood'
<1> USE ThreadFacts
    DEF LifeGood, DisconnectStep, Disconnect, At, Goto, Target, connectionVars, Pc,
        StartPc, TeardownPc, ReaderPc, UpPc, LifeTyped
<1>1. LifeTyped'
  BY DEF Status
<1>2. ThreadsGood'
  BY DEF ThreadsGood
<1>3. ReadersGood'
  BY DEF ReadersGood, ThreadsGood
<1>4. ActiveGood'
  BY DEF ActiveGood, ThreadsGood, ReadersGood, StopGood
<1>5. StopGood'
  BY DEF StopGood, ThreadsGood, ReadersGood, ActiveGood
<1>6. ObservedGood'
  BY DEF ObservedGood, Observers, ActiveGood, ThreadsGood, ReadersGood
<1>7. NoOrphanProcess'
  BY DEF NoOrphanProcess, Starting, TearingDown, ActiveGood, ThreadsGood, ReadersGood
<1>8. QED
  BY <1>1, <1>2, <1>3, <1>4, <1>5, <1>6, <1>7

\* The thread that owns the connection tells each observer of its loss.
LEMMA OnDisconnectedLife ==
    ASSUME LifeGood, NEW t \in Threads, OnDisconnected(t)
    PROVE  LifeGood'
<1> USE ThreadFacts
    DEF LifeGood, OnDisconnected, At, Goto, Target, connectionVars, Pc, StartPc,
        TeardownPc, ReaderPc, UpPc, LifeTyped
<1>1. LifeTyped'
  BY DEF Status
<1>2. ThreadsGood'
  BY DEF ThreadsGood
<1>3. ReadersGood'
  BY DEF ReadersGood, ThreadsGood
<1>4. ActiveGood'
  BY DEF ActiveGood, ThreadsGood, ReadersGood, StopGood
<1>5. StopGood'
  BY DEF StopGood, ThreadsGood, ReadersGood, ActiveGood
<1>0. /\ active = 0
      /\ \A u \in Threads : u # t => pc[u] \notin TeardownPc /\ pc'[u] \notin TeardownPc
  BY DEF ActiveGood
<1>6. ObservedGood'
  BY <1>0 DEF ObservedGood, Observers, ActiveGood, ThreadsGood, ReadersGood
<1>7. NoOrphanProcess'
  BY DEF NoOrphanProcess, Starting, TearingDown, ActiveGood, ThreadsGood, ReadersGood
<1>8. QED
  BY <1>1, <1>2, <1>3, <1>4, <1>5, <1>6, <1>7

\* The thread that owns the connection ends its process, and owns nothing then.
LEMMA TerminateLife ==
    ASSUME LifeGood, NEW t \in Threads, TerminateStep(t)
    PROVE  LifeGood'
<1> USE ThreadFacts
    DEF LifeGood, TerminateStep, AfterTeardown, Terminated, At, Goto, Target,
        connectionVars, Pc, StartPc, TeardownPc, ReaderPc, UpPc, LifeTyped
<1>1. LifeTyped'
  BY DEF Status
<1>2. ThreadsGood'
  BY DEF ThreadsGood
<1>3. ReadersGood'
  BY DEF ReadersGood, ThreadsGood
<1>4. ActiveGood'
  BY DEF ActiveGood, ThreadsGood, ReadersGood, StopGood
<1>5. StopGood'
  BY DEF StopGood, ThreadsGood, ReadersGood, ActiveGood
<1>0. /\ active = 0
      /\ \A u \in Threads : u # t => pc[u] \notin TeardownPc /\ pc'[u] \notin TeardownPc
  BY DEF ActiveGood
<1>6. ObservedGood'
  BY <1>0 DEF ObservedGood, Observers, ActiveGood, ThreadsGood, ReadersGood
<1>7. NoOrphanProcess'
  BY DEF NoOrphanProcess, Starting, TearingDown, ActiveGood, ThreadsGood, ReadersGood
<1>8. QED
  BY <1>1, <1>2, <1>3, <1>4, <1>5, <1>6, <1>7

\* Steps that leave the lifecycle, the threads and the processes alone.
LEMMA LifeSame ==
    ASSUME LifeGood,
           UNCHANGED <<connected, status, active, published, observed, launched, activated,
                       process, stop, handle, pc, op>>
    PROVE  LifeGood'
<1> USE DEF LifeGood
<1>1. LifeTyped'
  BY DEF LifeTyped
<1>2. ThreadsGood' /\ ReadersGood' /\ StopGood'
  BY DEF ThreadsGood, ReadersGood, StopGood
<1>3. ActiveGood'
  BY DEF ActiveGood
<1>4. ObservedGood' /\ NoOrphanProcess'
  BY DEF ObservedGood, NoOrphanProcess, Target, Starting, TearingDown
<1>5. QED
  BY <1>1, <1>2, <1>3, <1>4

\* A reader that fails owns the connection if that was still in the slot.
LEMMA TakeActiveLife ==
    ASSUME LifeGood, NEW c \in Connections, pc[c] = "reading", TakeActive(c, c),
           UNCHANGED <<connected, published, observed, launched, activated, process, stop,
                       handle, op>>
    PROVE  LifeGood'
<1> USE ThreadFacts
    DEF LifeGood, TakeActive, Goto, Target, Pc, StartPc, TeardownPc, ReaderPc, UpPc,
        LifeTyped
<1>1. LifeTyped'
  BY DEF Status
<1>2. ThreadsGood'
  BY DEF ThreadsGood
<1>3. ReadersGood'
  BY DEF ReadersGood, ThreadsGood
<1>4. ActiveGood'
  BY DEF ActiveGood, ThreadsGood, ReadersGood, StopGood
<1>5. StopGood'
  BY DEF StopGood, ThreadsGood, ReadersGood, ActiveGood
<1>6. ObservedGood'
  BY DEF ObservedGood, Observers, ActiveGood, ThreadsGood, ReadersGood
<1>7. NoOrphanProcess'
  BY DEF NoOrphanProcess, Starting, TearingDown, ActiveGood, ThreadsGood, ReadersGood
<1>8. QED
  BY <1>1, <1>2, <1>3, <1>4, <1>5, <1>6, <1>7

\* A line that is read, or the end of the output, may make the reader fail.
LEMMA ReadLife ==
    ASSUME LifeGood, NEW c \in Connections, ReadLine(c) \/ ReadEnd(c)
    PROVE  LifeGood'
<1>1. /\ pc[c] = "reading"
      /\ TakeActive(c, c) \/ UNCHANGED <<active, status, pc>>
      /\ UNCHANGED <<connected, published, observed, launched, activated, process, stop,
                     handle, op>>
  BY DEF ReadLine, ReadEnd, At, connectionVars
<1>2. QED
  BY <1>1, TakeActiveLife, LifeSame

\* A reader that is told to stop leaves its loop.
LEMMA ReadStopLife ==
    ASSUME LifeGood, NEW c \in Connections, ReadStop(c)
    PROVE  LifeGood'
<1> USE ThreadFacts
    DEF LifeGood, ReadStop, At, Goto, Target, connectionVars, Pc, StartPc, TeardownPc,
        ReaderPc, UpPc, LifeTyped
<1>1. LifeTyped'
  BY DEF Status
<1>2. ThreadsGood'
  BY DEF ThreadsGood
<1>3. ReadersGood'
  BY DEF ReadersGood, ThreadsGood
<1>4. ActiveGood'
  BY DEF ActiveGood, ThreadsGood, ReadersGood, StopGood
<1>5. StopGood'
  BY DEF StopGood, ThreadsGood, ReadersGood, ActiveGood
<1>6. ObservedGood'
  BY DEF ObservedGood, Observers, ActiveGood, ThreadsGood, ReadersGood
<1>7. NoOrphanProcess'
  BY DEF NoOrphanProcess, Starting, TearingDown, ActiveGood, ThreadsGood, ReadersGood
<1>8. QED
  BY <1>1, <1>2, <1>3, <1>4, <1>5, <1>6, <1>7

\* The reader of a connection that is no longer active closes it and ends.
LEMMA CloseLife ==
    ASSUME LifeGood, NEW c \in Connections, Close(c)
    PROVE  LifeGood'
<1> USE ThreadFacts
    DEF LifeGood, Close, Disconnect, At, Goto, Target, connectionVars, Pc, StartPc,
        TeardownPc, ReaderPc, UpPc, LifeTyped
<1>1. LifeTyped'
  BY ZenonT(40) DEF Status
<1>2. ThreadsGood'
  BY DEF ThreadsGood
<1>3. ReadersGood'
  BY DEF ReadersGood, ThreadsGood
<1>4. ActiveGood'
  BY DEF ActiveGood, ThreadsGood, ReadersGood, StopGood
<1>5. StopGood'
  BY DEF StopGood, ThreadsGood, ReadersGood, ActiveGood
<1>6. ObservedGood'
  BY DEF ObservedGood, Observers, ActiveGood, ThreadsGood, ReadersGood
<1>7. NoOrphanProcess'
  BY DEF NoOrphanProcess, Starting, TearingDown, ActiveGood, ThreadsGood, ReadersGood
<1>8. QED
  BY <1>1, <1>2, <1>3, <1>4, <1>5, <1>6, <1>7

\* A process may end at any time.
LEMMA ExitLife ==
    ASSUME LifeGood, NEW c \in Connections, ProcessExit(c)
    PROVE  LifeGood'
<1> USE ThreadFacts
    DEF LifeGood, ProcessExit, Alive, At, Goto, Target, connectionVars, Pc, StartPc,
        TeardownPc, ReaderPc, UpPc, LifeTyped
<1>1. LifeTyped'
  BY DEF Status
<1>2. ThreadsGood'
  BY DEF ThreadsGood
<1>3. ReadersGood'
  BY DEF ReadersGood, ThreadsGood
<1>4. ActiveGood'
  BY DEF ActiveGood, ThreadsGood, ReadersGood, StopGood
<1>5. StopGood'
  BY DEF StopGood, ThreadsGood, ReadersGood, ActiveGood
<1>6. ObservedGood'
  BY DEF ObservedGood, Observers, ActiveGood, ThreadsGood, ReadersGood
<1>7. NoOrphanProcess'
  BY DEF NoOrphanProcess, Starting, TearingDown, ActiveGood, ThreadsGood, ReadersGood
<1>8. QED
  BY <1>1, <1>2, <1>3, <1>4, <1>5, <1>6, <1>7

-----------------------------------------------------------------------------
(***************************************************************************)
(* Both halves hold in every reachable state.                              *)
(***************************************************************************)

\* The bounds of the model are kept.
BoundsGood ==
    /\ started \in BOOLEAN
    /\ shutdowns \in 0..MaxShutdowns
    /\ traffic \in 0..MaxTraffic

\* The inductive invariant.
AppServerInv == RequestsGood /\ LifeGood /\ BoundsGood

\* The invariant holds when nothing was launched yet.
LEMMA AppServerInit == Init => AppServerInv
<1> SUFFICES ASSUME Init PROVE AppServerInv
  OBVIOUS
<1>1. RequestsGood
  <2> USE DEF Init, ConnectionInit
  <2>1. ConnectionTypeOK
    <3>1. NoCall \in [pc : CallPc, connection : 0..MaxConnections, id : 0..MaxRequests,
                      result : Result \cup {Nothing}]
      BY ConnectionAssumption DEF NoCall, CallPc
    <3>2. 1 \in 1..MaxRequests + 1
      BY ConnectionAssumption
    <3>3. QED
      BY <3>1, <3>2 DEF ConnectionTypeOK
  <2>2. \A k \in Callers : ~Waiting(k) /\ box[k] = Nothing /\ call[k].result = Nothing
    BY DEF Waiting, NoCall
  <2>3. CallsGood /\ PendingGood /\ SendingGood /\ WaitingGood
    BY <2>2 DEF CallsGood, PendingGood, SendingGood, WaitingGood
  <2>4. AnswersGood
    BY <2>2, ResultFacts DEF AnswersGood, AnswerIsOwn
  <2>5. QED
    BY <2>1, <2>3, <2>4 DEF RequestsGood
<1>2. LifeGood
  <2> USE ThreadFacts DEF Init, ConnectionInit, StartPc, TeardownPc, ReaderPc, UpPc, Pc
  <2>1. LifeTyped
    BY DEF LifeTyped, Status
  <2>2. ThreadsGood /\ ReadersGood
    BY DEF ThreadsGood, ReadersGood
  <2>3. ActiveGood /\ StopGood
    BY DEF ActiveGood, StopGood
  <2>4. ObservedGood /\ NoOrphanProcess
    BY DEF ObservedGood, NoOrphanProcess
  <2>5. QED
    BY <2>1, <2>2, <2>3, <2>4 DEF LifeGood
<1>3. BoundsGood
  <2>1. 0 \in 0..MaxShutdowns /\ 0 \in 0..MaxTraffic
    BY AppServerAssumption
  <2>2. QED
    BY <2>1 DEF Init, BoundsGood
<1>4. QED
  BY <1>1, <1>2, <1>3 DEF AppServerInv

\* The lines of a connection stay well formed when one is read or written.
LEMMA InboundTyped ==
    ASSUME ConnectionTypeOK, NEW c \in Connections
    PROVE  /\ inbound[c] # <<>> =>
                 [inbound EXCEPT ![c] = Tail(@)] \in
                    [Connections -> Seq([line : Line, id : 0..MaxRequests])]
           /\ \A line \in Line, id \in 0..MaxRequests :
                 [inbound EXCEPT ![c] = Append(@, [line |-> line, id |-> id])] \in
                    [Connections -> Seq([line : Line, id : 0..MaxRequests])]
<1>1. inbound[c] \in Seq([line : Line, id : 0..MaxRequests])
  BY DEF ConnectionTypeOK
<1>2. inbound[c] # <<>> => Tail(inbound[c]) \in Seq([line : Line, id : 0..MaxRequests])
  BY <1>1
<1>3. \A line \in Line, id \in 0..MaxRequests :
          Append(inbound[c], [line |-> line, id |-> id])
             \in Seq([line : Line, id : 0..MaxRequests])
  BY <1>1
<1>4. QED
  BY <1>2, <1>3 DEF ConnectionTypeOK

\* The requests stay good in every step of the supervisor, the readers and the callers.
LEMMA RequestsNext ==
    ASSUME RequestsGood, LifeGood, Next
    PROVE  RequestsGood'
<1> USE ThreadFacts
<1>0. ConnectionTypeOK /\ LifeTyped
  BY DEF RequestsGood, LifeGood
<1>1. CASE Start \/ Retry \/ Shutdown
  BY <1>1, RequestsSame DEF Start, Retry, BeginStart, Shutdown
<1>2. CASE JoinReader \/ Launch \/ Initialize \/ Abandon \/ OnConnected \/ Publish
  BY <1>2, RequestsSame
  DEF JoinReader, Launch, Initialize, Abandon, OnConnected, Publish
<1>3. CASE Activate
  <2>1. op.connection \in Connections
    BY <1>0, <1>3 DEF Activate, At, LifeGood, LifeTyped, ThreadsGood, StartPc
  <2>2. QED
    BY <1>0, <1>3, <2>1, FrameGood DEF Activate, ConnectionTypeOK
<1>4. CASE SpawnReader
  BY <1>4, RequestsSame DEF SpawnReader
<1>5. ASSUME NEW t \in Threads, Teardown(t)
      PROVE  RequestsGood'
  <2>1. CASE DisconnectStep(t)
    <3>1. Target(t) \in Connections
      BY <1>0, <2>1 DEF DisconnectStep, At, Target, LifeGood, LifeTyped, ThreadsGood, TeardownPc
    <3>2. QED
      BY <2>1, <3>1, DisconnectGood DEF DisconnectStep
  <2>2. CASE OnDisconnected(t) \/ TerminateStep(t)
    BY <2>2, RequestsSame DEF OnDisconnected, TerminateStep
  <2>3. QED
    BY <1>5, <2>1, <2>2 DEF Teardown
<1>6. ASSUME NEW c \in Connections, ReadLine(c)
      PROVE  RequestsGood'
  <2>1. inbound' \in [Connections -> Seq([line : Line, id : 0..MaxRequests])]
    BY <1>0, <1>6, InboundTyped DEF ReadLine
  <2>2. CASE Complete(c, Head(inbound[c]).id)
    BY <1>6, <2>1, <2>2, CompleteGood DEF ReadLine
  <2>3. CASE UNCHANGED <<pending, sending>>
    BY <1>0, <1>6, <2>1, <2>3, FrameGood DEF ReadLine, ConnectionTypeOK
  <2>4. QED
    BY <1>6, <2>2, <2>3 DEF ReadLine
<1>7. ASSUME NEW c \in Connections, ReadEnd(c) \/ ReadStop(c) \/ ProcessExit(c)
      PROVE  RequestsGood'
  BY <1>7, RequestsSame DEF ReadEnd, ReadStop, ProcessExit
<1>8. ASSUME NEW c \in Connections, Close(c)
      PROVE  RequestsGood'
  BY <1>8, RequestsSame, DisconnectGood DEF Close
<1>9. ASSUME NEW c \in Connections, NEW id \in Ids, Respond(c, id)
      PROVE  RequestsGood'
  <2>1. "response" \in Line /\ id \in 0..MaxRequests
    BY ConnectionAssumption DEF Line, Ids
  <2>2. inbound' \in [Connections -> Seq([line : Line, id : 0..MaxRequests])]
    BY <1>0, <1>9, <2>1, InboundTyped DEF Respond, Emit
  <2>3. asked' \in [Connections -> SUBSET Ids]
    BY <1>0, <1>9 DEF Respond, ConnectionTypeOK
  <2>4. QED
    BY <1>0, <1>9, <2>2, <2>3, FrameGood DEF Respond, Emit, ConnectionTypeOK
<1>10. ASSUME NEW c \in Connections, NEW line \in {"notification", "request", "invalid"},
              Notify(c, line)
       PROVE  RequestsGood'
  <2>1. line \in Line /\ 0 \in 0..MaxRequests
    BY ConnectionAssumption DEF Line
  <2>2. inbound' \in [Connections -> Seq([line : Line, id : 0..MaxRequests])]
    BY <1>0, <1>10, <2>1, InboundTyped DEF Notify, Emit
  <2>3. QED
    BY <1>0, <1>10, <2>2, FrameGood DEF Notify, Emit, ConnectionTypeOK
<1>11. ASSUME NEW k \in Callers, CallerStep(k)
       PROVE  RequestsGood'
  BY <1>11, WriteGood, ReceiveGood, TimeOutGood DEF CallerStep, CallerWrite, CallerWait
<1>12. ASSUME NEW k \in Callers, NEW c \in Connections, CallerRequest(k, c)
       PROVE  RequestsGood'
  BY <1>12, RequestGood DEF CallerRequest
<1>13. ASSUME NEW t \in Threads, SendStep(t)
       PROVE  RequestsGood'
  BY <1>13, SendGood DEF SendStep
<1>14. QED
  BY <1>1, <1>2, <1>3, <1>4, <1>5, <1>6, <1>7, <1>8, <1>9, <1>10, <1>11, <1>12, <1>13
  DEF Next, SupervisorStep, ReaderStep

\* Ownership stays as LifeGood says in every step.
LEMMA LifeNext ==
    ASSUME LifeGood, Next
    PROVE  LifeGood'
<1> USE ThreadFacts
<1>1. CASE Start \/ Retry \/ Shutdown
  BY <1>1, StartLife, ShutdownLife
<1>2. CASE SupervisorStep
  BY <1>2, JoinLife, LaunchLife, InitializeLife, AbandonLife, ActivateLife, OnConnectedLife,
     PublishLife, SpawnLife, DisconnectLife, OnDisconnectedLife, TerminateLife
  DEF SupervisorStep, Teardown
<1>3. ASSUME NEW c \in Connections, ReaderStep(c) \/ ProcessExit(c)
      PROVE  LifeGood'
  BY <1>3, ReadLife, ReadStopLife, CloseLife, ExitLife, DisconnectLife, OnDisconnectedLife,
     TerminateLife
  DEF ReaderStep, Teardown
<1>4. ASSUME NEW c \in Connections, NEW id \in Ids, Respond(c, id)
      PROVE  LifeGood'
  BY <1>4, LifeSame DEF Respond, Emit, supervisorVars
<1>5. ASSUME NEW c \in Connections, NEW line \in {"notification", "request", "invalid"},
             Notify(c, line)
      PROVE  LifeGood'
  BY <1>5, LifeSame DEF Notify, Emit
<1>6. ASSUME NEW k \in Callers, CallerStep(k)
      PROVE  LifeGood'
  BY <1>6, LifeSame
  DEF CallerStep, CallerWrite, CallerWait, Write, WriteFails, Receive, TimeOut, supervisorVars
<1>7. ASSUME NEW k \in Callers, NEW c \in Connections, CallerRequest(k, c)
      PROVE  LifeGood'
  BY <1>7, LifeSame DEF CallerRequest, Request, Refuse, Register
<1>8. ASSUME NEW t \in Threads, SendStep(t)
      PROVE  LifeGood'
  BY <1>8, LifeSame DEF SendStep, Send, supervisorVars
<1>9. QED
  BY <1>1, <1>2, <1>3, <1>4, <1>5, <1>6, <1>7, <1>8 DEF Next

\* Only the calls of start and shutdown, and traffic below its bound, count.
LEMMA BoundsNext ==
    ASSUME BoundsGood, Next
    PROVE  BoundsGood'
<1> USE AppServerAssumption
<1>1. CASE Start \/ Retry
  BY <1>1 DEF Start, Retry, BeginStart, BoundsGood
<1>2. CASE Shutdown
  BY <1>2 DEF Shutdown, BoundsGood
<1>3. CASE SupervisorStep \/ \E c \in Connections : ReaderStep(c) \/ ProcessExit(c)
  <2>1. UNCHANGED <<started, shutdowns, traffic>>
    BY <1>3
    DEF SupervisorStep, ReaderStep, JoinReader, Launch, Initialize, Abandon, Activate,
        OnConnected, Publish, SpawnReader, Teardown, DisconnectStep, OnDisconnected,
        TerminateStep, ReadLine, ReadEnd, ReadStop, Close, ProcessExit
  <2>2. QED
    BY <2>1 DEF BoundsGood
<1>4. CASE \/ \E t \in Threads : SendStep(t)
           \/ \E c \in Connections, id \in Ids : Respond(c, id)
           \/ \E k \in Callers : CallerStep(k)
  BY <1>4 DEF SendStep, Respond, CallerStep, CallerWrite, CallerWait, supervisorVars, BoundsGood
<1>5. CASE \/ \E c \in Connections, line \in {"notification", "request", "invalid"} :
                 Notify(c, line)
           \/ \E k \in Callers, c \in Connections : CallerRequest(k, c)
  <2>1. traffic < MaxTraffic /\ traffic' = traffic + 1 /\ UNCHANGED <<started, shutdowns>>
    BY <1>5 DEF Notify, CallerRequest
  <2>2. QED
    BY <2>1 DEF BoundsGood
<1>6. QED
  BY <1>1, <1>2, <1>3, <1>4, <1>5 DEF Next

\* The invariant is inductive.
LEMMA AppServerStep == AppServerInv /\ [Next]_vars => AppServerInv'
<1> SUFFICES ASSUME AppServerInv, [Next]_vars PROVE AppServerInv'
  OBVIOUS
<1>1. CASE Next
  BY <1>1, RequestsNext, LifeNext, BoundsNext DEF AppServerInv
<1>2. CASE UNCHANGED vars
  <2>1. UNCHANGED connectionVars /\ UNCHANGED supervisorVars
    BY <1>2 DEF vars
  <2>2. RequestsGood' /\ LifeGood'
    BY <2>1, RequestsSame, LifeSame DEF AppServerInv, connectionVars, supervisorVars
  <2>3. BoundsGood'
    BY <2>1 DEF AppServerInv, BoundsGood, supervisorVars
  <2>4. QED
    BY <2>2, <2>3 DEF AppServerInv
<1>3. QED
  BY <1>1, <1>2

\* The invariant holds in every reachable state.
LEMMA AppServerInvariant == Spec => []AppServerInv
BY AppServerInit, AppServerStep, PTL DEF Spec

-----------------------------------------------------------------------------
(***************************************************************************)
(* What the invariant gives.                                               *)
(***************************************************************************)

\* Exactly one of the three places holds the completion of a request that waits.
LEMMA CompletedOnceHolds == AppServerInv => CompletedOnce
<1> SUFFICES ASSUME AppServerInv PROVE CompletedOnce
  OBVIOUS
<1> USE DEF AppServerInv, RequestsGood
<1>1. ASSUME NEW k \in Callers
      PROVE  Completions(k) = IF Waiting(k) THEN 1 ELSE 0
  <2> DEFINE P == {c \in Connections : \E w \in pending[c] : w.caller = k}
             S == {s \in sending : IsFor(s, k)}
             B == IF Waiting(k) /\ box[k] # Nothing THEN 1 ELSE 0
  <2>1. Completions(k) = Cardinality(P) + Cardinality(S) + B
    BY DEF Completions
  <2>2. CASE ~Waiting(k)
    <3>1. P = {} /\ S = {}
      BY <2>2 DEF PendingGood, IsFor
    <3>2. QED
      BY <2>1, <2>2, <3>1, FS_EmptySet
  <2>3. CASE Waiting(k)
    <3>0. /\ call[k].connection \in Connections /\ Waiter(k).caller = k
          /\ Waiter(k).id = call[k].id
      BY <2>3, CallTyped
    <3>1. CASE Waiter(k) \in pending[call[k].connection]
      <4>1. P = {call[k].connection}
        BY <3>0, <3>1 DEF PendingGood
      <4>2. S = {}
        BY <3>0, <3>1 DEF SendingGood, IsFor
      <4>3. B = 0
        BY <3>0, <3>1 DEF PendingGood
      <4>4. Cardinality(P) = 1 /\ Cardinality(S) = 0
        BY <4>1, <4>2, FS_EmptySet, FS_Singleton, Zenon
      <4>5. QED
        BY <2>1, <2>3, <4>3, <4>4
    <3>2. CASE \E s \in sending : IsFor(s, k)
      <4>1. PICK s \in sending : IsFor(s, k)
        BY <3>2
      <4>2. S = {s}
        BY <4>1 DEF SendingGood, IsFor
      <4>3. P = {}
        <5>1. ASSUME NEW c \in Connections, NEW w \in pending[c], w.caller = k
              PROVE  FALSE
          BY <4>1, <5>1 DEF PendingGood, SendingGood, IsFor
        <5>2. QED
          BY <5>1
      <4>4. B = 0
        BY <4>1 DEF SendingGood, IsFor
      <4>5. Cardinality(P) = 0 /\ Cardinality(S) = 1
        BY <4>2, <4>3, FS_EmptySet, FS_Singleton, Zenon
      <4>6. QED
        BY <2>1, <2>3, <4>4, <4>5
    <3>3. CASE box[k] # Nothing
      <4>1. P = {}
        BY <3>3 DEF PendingGood
      <4>2. S = {}
        BY <3>3 DEF SendingGood, IsFor
      <4>3. QED
        BY <2>1, <2>3, <3>3, <4>1, <4>2, FS_EmptySet
    <3>4. QED
      BY <2>3, <3>1, <3>2, <3>3 DEF WaitingGood
  <2>4. QED
    BY <2>2, <2>3
<1>2. \A c \in Connections : pending[c] # {} => connected[c]
  BY DEF PendingGood
<1>3. QED
  BY <1>1, <1>2 DEF CompletedOnce

\* The invariant implies the type invariant that TLC checks.
LEMMA TypesHold == AppServerInv => TypeOK
<1> SUFFICES ASSUME AppServerInv PROVE TypeOK
  OBVIOUS
<1>1. LifeTyped /\ ConnectionTypeOK /\ BoundsGood
  BY DEF AppServerInv, LifeGood, RequestsGood
<1>2. activated \subseteq 1..launched
  BY <1>1, ThreadFacts DEF LifeTyped, Connections
<1>3. QED
  BY <1>1, <1>2, ThreadFacts DEF TypeOK, LifeTyped, BoundsGood

(***************************************************************************)
(* A request that waits is completed exactly once, by the response to      *)
(* itself or by the error that ended it, in every interleaving of the      *)
(* callers, the reader that completes them, their timeouts and a close.    *)
(***************************************************************************)
THEOREM RequestsCompletedOnce == Spec => []RequestInv
<1>1. AppServerInv => RequestInv
  BY CompletedOnceHolds, TypesHold DEF RequestInv, AppServerInv, RequestsGood, AnswersGood
<1>2. QED
  BY <1>1, AppServerInvariant, PTL

(***************************************************************************)
(* Whenever no call of start or shutdown is under way and a connection is  *)
(* active, it is open, every observer holds it and it is the reported one. *)
(***************************************************************************)
THEOREM ActiveConnectionAnnounced == Spec => []ActiveIsAnnounced
<1>1. AppServerInv => ActiveIsAnnounced
  BY DEF AppServerInv, LifeGood, ActiveGood, ObservedGood, ActiveIsAnnounced, At, Observers
<1>2. QED
  BY <1>1, AppServerInvariant, PTL

(***************************************************************************)
(* A process that runs is the active one, or some thread has yet to start  *)
(* or to terminate it: none is forgotten, whoever fails and when.          *)
(***************************************************************************)
THEOREM NoProcessForgotten == Spec => []NoOrphanProcess
<1>1. AppServerInv => NoOrphanProcess
  BY DEF AppServerInv, LifeGood
<1>2. QED
  BY <1>1, AppServerInvariant, PTL

-----------------------------------------------------------------------------
(***************************************************************************)
(* The observers.                                                          *)
(***************************************************************************)

\* Which steps publish a status, and where the observers are when they do.
LEMMA PublishedStep ==
    ASSUME LifeGood, Next, published' # published
    PROVE  \A o \in Observers :
              IF published' = "connected" THEN observed[o] = active /\ active # 0
              ELSE observed[o] = 0
<1> USE ThreadFacts DEF At, StartPc, TeardownPc, ReaderPc, UpPc, Observers
<1>0. LifeTyped /\ ThreadsGood /\ ReadersGood /\ ActiveGood /\ ObservedGood
  BY DEF LifeGood
<1>1. CASE Publish
  <2>1. pc[0] = "publish" /\ published' = "connected" /\ active = op.connection
        /\ op.connection # 0
    BY <1>0, <1>1 DEF Publish, ActiveGood, ThreadsGood
  <2>2. QED
    BY <1>0, <2>1 DEF ObservedGood
<1>2. ASSUME JoinReader \/ Launch \/ Abandon
      PROVE  published' # "connected" /\ \A o \in Observers : observed[o] = 0
  <2>1. published' # "connected"
    BY <1>2 DEF JoinReader, AfterJoin, Launch, Abandon, Transition
  <2>2. pc[0] \in {"join", "launch", "abandon"} /\ active = 0
    BY <1>0, <1>2 DEF JoinReader, Launch, Abandon, ActiveGood
  <2>3. handle = 0 \/ pc[handle] = "closed"
    BY <1>0, <1>2 DEF JoinReader, Launch, Abandon, ReadersGood
  <2>4. \A t \in Threads : pc[t] \notin TeardownPc
    BY <1>0, <2>2, <2>3 DEF ReadersGood
  <2>5. QED
    BY <1>0, <2>1, <2>2, <2>4 DEF ObservedGood
<1>3. ASSUME NEW t \in Threads, TerminateStep(t)
      PROVE  published' # "connected" /\ \A o \in Observers : observed[o] = 0
  BY <1>0, <1>3 DEF TerminateStep, AfterTeardown, ObservedGood
<1>4. \/ Publish \/ JoinReader \/ Launch \/ Abandon
      \/ \E t \in Threads : TerminateStep(t)
  <2> SUFFICES ASSUME ~(\/ Publish \/ JoinReader \/ Launch \/ Abandon
                        \/ \E t \in Threads : TerminateStep(t))
               PROVE  UNCHANGED published
    OBVIOUS
  <2>1. CASE Start \/ Retry \/ Shutdown
    BY <2>1 DEF Start, Retry, BeginStart, Shutdown
  <2>2. CASE SupervisorStep \/ \E c \in Connections : ReaderStep(c) \/ ProcessExit(c)
    BY <2>2
    DEF SupervisorStep, ReaderStep, Initialize, Activate, OnConnected, SpawnReader, Teardown,
        DisconnectStep, OnDisconnected, ReadLine, ReadEnd, ReadStop, Close, ProcessExit
  <2>3. CASE \/ \E t \in Threads : SendStep(t)
             \/ \E c \in Connections, id \in Ids : Respond(c, id)
             \/ \E c \in Connections, line \in {"notification", "request", "invalid"} :
                   Notify(c, line)
             \/ \E k \in Callers : CallerStep(k) \/ \E c \in Connections : CallerRequest(k, c)
    BY <2>3
    DEF SendStep, Respond, Notify, CallerStep, CallerWrite, CallerWait, CallerRequest,
        supervisorVars
  <2>4. QED
    BY <2>1, <2>2, <2>3 DEF Next
<1>5. QED
  BY <1>1, <1>2, <1>3, <1>4

(***************************************************************************)
(* The observers are handed a connection before its status is published,   *)
(* and told of its loss before the stopped or error status is, in every    *)
(* interleaving of start, shutdown and a reader that fails.                *)
(***************************************************************************)
THEOREM ObserversBeforeStatus == Spec => StatusFollowsObservers
<1>1. AppServerInv /\ [Next]_vars =>
        [published' # published =>
          \A o \in Observers :
              IF published' = "connected" THEN observed[o] = active /\ active # 0
              ELSE observed[o] = 0]_vars
  BY PublishedStep DEF AppServerInv
<1>2. QED
  BY <1>1, AppServerInvariant, PTL DEF Spec, StatusFollowsObservers

\* The steps that hand an observer a connection or its loss, and what all others leave.
LEMMA ObservedSteps ==
    ASSUME LifeGood, Next
    PROVE  \/ Activate
           \/ OnConnected
           \/ \E t \in Threads : OnDisconnected(t)
           \/ /\ UNCHANGED <<observed, activated>>
              /\ pc[0] \in {"upAccount", "upEvents"} => UNCHANGED <<pc[0], op>>
              /\ pc'[0] \in {"upAccount", "upEvents"} => pc[0] = pc'[0]
<1> USE ThreadFacts DEF At, Goto, LifeGood, LifeTyped
<1>1. CASE Start \/ Retry \/ Shutdown
  BY <1>1 DEF Start, Retry, BeginStart, Shutdown
<1>2. CASE JoinReader \/ Launch \/ Initialize \/ Abandon \/ Publish \/ SpawnReader
  BY <1>2
  DEF JoinReader, AfterJoin, Launch, Initialize, Abandon, Publish, SpawnReader, TakeActive,
      ThreadsGood, StartPc
<1>3. ASSUME NEW t \in Threads, DisconnectStep(t) \/ TerminateStep(t)
      PROVE  /\ UNCHANGED <<observed, activated, op>>
             /\ pc[0] \in {"upAccount", "upEvents"} => UNCHANGED pc[0]
             /\ pc'[0] \in {"upAccount", "upEvents"} => pc[0] = pc'[0]
  BY <1>3 DEF DisconnectStep, TerminateStep, AfterTeardown
<1>4. ASSUME NEW c \in Connections,
             ReadLine(c) \/ ReadEnd(c) \/ ReadStop(c) \/ Close(c) \/ ProcessExit(c)
      PROVE  UNCHANGED <<observed, activated, op, pc[0]>>
  BY <1>4 DEF ReadLine, ReadEnd, ReadStop, Close, ProcessExit, TakeActive
<1>5. CASE \/ \E t \in Threads : SendStep(t)
           \/ \E c \in Connections, id \in Ids : Respond(c, id)
           \/ \E c \in Connections, line \in {"notification", "request", "invalid"} :
                 Notify(c, line)
           \/ \E k \in Callers : CallerStep(k) \/ \E c \in Connections : CallerRequest(k, c)
  BY <1>5
  DEF SendStep, Respond, Notify, CallerStep, CallerWrite, CallerWait, CallerRequest,
      supervisorVars
<1>6. QED
  BY <1>1, <1>2, <1>3, <1>4, <1>5 DEF Next, SupervisorStep, ReaderStep, Teardown

\* What the account service sees: the connection is new to it until it is handed over.
LEMMA AccountStep ==
    ASSUME LifeGood, Next
    PROVE  [AccountLife!Next]_<<observed["account"],
              IF At(0, "upAccount") THEN activated \ {op.connection} ELSE activated>>
<1> USE ThreadFacts
    DEF At, Goto, Observers, StartPc, TeardownPc, UpPc, LifeTyped
<1> DEFINE seen == IF At(0, "upAccount") THEN activated \ {op.connection} ELSE activated
<1>0. LifeTyped /\ ThreadsGood /\ ReadersGood /\ ActiveGood /\ ObservedGood
  BY DEF LifeGood
<1>1. CASE Activate
  <2>1. op.connection \notin activated
    BY <1>0, <1>1 DEF Activate, ThreadsGood
  <2>2. UNCHANGED <<observed["account"], seen>>
    BY <1>0, <1>1, <2>1 DEF Activate
  <2>3. QED
    BY <2>2
<1>2. CASE OnConnected /\ At(0, "upAccount")
  <2>1. /\ observed["account"] = 0 /\ op.connection \in activated
        /\ op.connection \in Connections
    BY <1>0, <1>2 DEF ObservedGood, ActiveGood, ThreadsGood
  <2>2. observed'["account"] = op.connection /\ seen' = activated
    BY <1>0, <1>2 DEF OnConnected
  <2>3. AccountLife!Up
    BY <1>2, <2>1, <2>2 DEF AccountLife!Up
  <2>4. QED
    BY <2>3 DEF AccountLife!Next
<1>3. CASE OnConnected /\ At(0, "upEvents")
  <2>1. UNCHANGED <<observed["account"], seen>>
    BY <1>0, <1>3 DEF OnConnected
  <2>2. QED
    BY <2>1
<1>4. ASSUME NEW t \in Threads, OnDisconnected(t)
      PROVE  [AccountLife!Next]_<<observed["account"], seen>>
  <2>0. pc[0] # "upAccount" /\ pc'[0] # "upAccount" /\ UNCHANGED activated
    BY <1>0, <1>4 DEF OnDisconnected, ActiveGood, ThreadsGood
  <2>1. CASE At(t, "downAccount")
    <3>1. observed["account"] # 0 /\ observed'["account"] = 0
      BY <1>0, <1>4, <2>1 DEF OnDisconnected, ObservedGood, ThreadsGood, Target
    <3>2. AccountLife!Down
      BY <2>0, <3>1 DEF AccountLife!Down
    <3>3. QED
      BY <3>2 DEF AccountLife!Next
  <2>2. CASE At(t, "downEvents")
    BY <1>0, <1>4, <2>0, <2>2 DEF OnDisconnected
  <2>3. QED
    BY <1>4, <2>1, <2>2 DEF OnDisconnected
<1>5. CASE /\ UNCHANGED <<observed, activated>>
           /\ pc[0] \in {"upAccount", "upEvents"} => UNCHANGED <<pc[0], op>>
           /\ pc'[0] \in {"upAccount", "upEvents"} => pc[0] = pc'[0]
  <2>1. UNCHANGED <<observed["account"], seen>>
    BY <1>5
  <2>2. QED
    BY <2>1
<1>6. QED
  BY <1>1, <1>2, <1>3, <1>4, <1>5, ObservedSteps DEF OnConnected

\* What the event router sees, which comes second both times.
LEMMA EventsStep ==
    ASSUME LifeGood, Next
    PROVE  [EventsLife!Next]_<<observed["events"],
              IF pc[0] \in {"upAccount", "upEvents"} THEN activated \ {op.connection}
              ELSE activated>>
<1> USE ThreadFacts
    DEF At, Goto, Observers, StartPc, TeardownPc, UpPc, LifeTyped
<1> DEFINE seen == IF pc[0] \in {"upAccount", "upEvents"} THEN activated \ {op.connection}
                   ELSE activated
<1>0. LifeTyped /\ ThreadsGood /\ ReadersGood /\ ActiveGood /\ ObservedGood
  BY DEF LifeGood
<1>1. CASE Activate
  <2>1. op.connection \notin activated
    BY <1>0, <1>1 DEF Activate, ThreadsGood
  <2>2. UNCHANGED <<observed["events"], seen>>
    BY <1>0, <1>1, <2>1 DEF Activate
  <2>3. QED
    BY <2>2
<1>2. CASE OnConnected /\ At(0, "upEvents")
  <2>1. /\ observed["events"] = 0 /\ op.connection \in activated
        /\ op.connection \in Connections
    BY <1>0, <1>2 DEF ObservedGood, ActiveGood, ThreadsGood
  <2>2. observed'["events"] = op.connection /\ seen' = activated
    BY <1>0, <1>2 DEF OnConnected
  <2>3. EventsLife!Up
    BY <1>2, <2>1, <2>2 DEF EventsLife!Up
  <2>4. QED
    BY <2>3 DEF EventsLife!Next
<1>3. CASE OnConnected /\ At(0, "upAccount")
  <2>1. UNCHANGED <<observed["events"], seen>>
    BY <1>0, <1>3 DEF OnConnected
  <2>2. QED
    BY <2>1
<1>4. ASSUME NEW t \in Threads, OnDisconnected(t)
      PROVE  [EventsLife!Next]_<<observed["events"], seen>>
  <2>0. /\ pc[0] \notin {"upAccount", "upEvents"} /\ pc'[0] \notin {"upAccount", "upEvents"}
        /\ UNCHANGED activated
    BY <1>0, <1>4 DEF OnDisconnected, ActiveGood, ThreadsGood
  <2>1. CASE At(t, "downEvents")
    <3>1. observed["events"] # 0 /\ observed'["events"] = 0
      BY <1>0, <1>4, <2>1 DEF OnDisconnected, ObservedGood, ThreadsGood, Target
    <3>2. EventsLife!Down
      BY <2>0, <3>1 DEF EventsLife!Down
    <3>3. QED
      BY <3>2 DEF EventsLife!Next
  <2>2. CASE At(t, "downAccount")
    BY <1>0, <1>4, <2>0, <2>2 DEF OnDisconnected
  <2>3. QED
    BY <1>4, <2>1, <2>2 DEF OnDisconnected
<1>5. CASE /\ UNCHANGED <<observed, activated>>
           /\ pc[0] \in {"upAccount", "upEvents"} => UNCHANGED <<pc[0], op>>
           /\ pc'[0] \in {"upAccount", "upEvents"} => pc[0] = pc'[0]
  <2>1. UNCHANGED <<observed["events"], seen>>
    BY <1>5
  <2>2. QED
    BY <2>1
<1>6. QED
  BY <1>1, <1>2, <1>3, <1>4, <1>5, ObservedSteps DEF OnConnected

(***************************************************************************)
(* The supervisor implements the promise of ConnectionLife to each of its  *)
(* observers: one connection at a time, its loss before the next, none of  *)
(* them twice.                                                             *)
(***************************************************************************)
THEOREM ObserversImplementLife == Spec => ObserversSeeLife
<1>1. Init => AccountLife!Init /\ EventsLife!Init
  BY DEF Init, At, Observers, AccountLife!Init, EventsLife!Init
<1>2. AppServerInv /\ [Next]_vars =>
        [AccountLife!Next]_<<observed["account"],
           IF At(0, "upAccount") THEN activated \ {op.connection} ELSE activated>>
  <2>1. UNCHANGED vars =>
          UNCHANGED <<observed["account"],
             IF At(0, "upAccount") THEN activated \ {op.connection} ELSE activated>>
    BY DEF vars, supervisorVars, At
  <2>2. QED
    BY <2>1, AccountStep DEF AppServerInv
<1>3. AppServerInv /\ [Next]_vars =>
        [EventsLife!Next]_<<observed["events"],
           IF pc[0] \in {"upAccount", "upEvents"} THEN activated \ {op.connection}
           ELSE activated>>
  <2>1. UNCHANGED vars =>
          UNCHANGED <<observed["events"],
             IF pc[0] \in {"upAccount", "upEvents"} THEN activated \ {op.connection}
             ELSE activated>>
    BY DEF vars, supervisorVars
  <2>2. QED
    BY <2>1, EventsStep DEF AppServerInv
<1>4. QED
  BY <1>1, <1>2, <1>3, AppServerInvariant, PTL
  DEF Spec, ObserversSeeLife, AccountLife!Spec, EventsLife!Spec

=============================================================================

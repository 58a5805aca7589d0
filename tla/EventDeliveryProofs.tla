------------------------ MODULE EventDeliveryProofs ------------------------
(***************************************************************************)
(* Proofs about the event router, for every set of runs, threads and       *)
(* turns and for every capacity and budget: a reader never finds a hole it *)
(* was not told of, a stream carries one turn, and a stream that fell      *)
(* silent shows why.                                                       *)
(*                                                                         *)
(* The three properties speak of streams; what keeps them is what the      *)
(* router knows of its routes.  RoutesGood says that a notification finds  *)
(* at most one route and that this route belongs to a stream that is held  *)
(* and open; the other parts relate the route's turn, budget and           *)
(* saturation to what its stream has delivered.                            *)
(***************************************************************************)
EXTENDS EventDelivery, FiniteSetTheorems, SequenceTheorems, TLAPS

\* Every position of d up to its first gap is that of s, and without a gap d is s.
Follows(d, s) ==
    /\ \A i \in 1..Len(d) :
          (\A j \in 1..i : d[j] # "gap") => i <= Len(s) /\ d[i] = s[i]
    /\ (\A j \in 1..Len(d) : d[j] # "gap") => Len(d) = Len(s)

HasGap(d) == \E i \in 1..Len(d) : d[i] = "gap"

RoutesGood ==
    /\ \A r \in routes :
          /\ r.id < nextRoute
          /\ queue[r.id].held
          /\ r.saturated => HasGap(Delivered(r.id))
    /\ \A r, u \in routes :
          r.id = u.id \/ (r.connection = u.connection /\ r.thread = u.thread) => r = u

\* A stream that is not prepared yet has no history.
UnusedGood ==
    \A s \in Streams :
        s >= nextRoute => /\ sent[s] = <<>> /\ got[s] = <<>> /\ ~queue[s].held
                          /\ turnOf[s] = {} /\ bound[s] = NoTurn

StreamsFollow == \A s \in Streams : queue[s].held => Follows(Delivered(s), sent[s])

TurnsGood ==
    /\ \A r \in routes :
          /\ turnOf[r.id] \subseteq {r.turn}
          /\ bound[r.id] \in {NoTurn, r.turn}
          /\ r.turn = NoTurn => turnOf[r.id] = {}
    /\ \A s \in Streams :
          /\ \E turn \in Turns \cup {NoTurn} : turnOf[s] \subseteq {turn}
          /\ bound[s] # NoTurn => turnOf[s] \subseteq {bound[s]}

SilenceGood ==
    \A s \in Streams :
        queue[s].held /\ s \notin cut =>
            \/ queue[s].active /\ \E r \in routes : r.id = s
            \/ /\ Len(Delivered(s)) > 0
               /\ \/ Delivered(s)[Len(Delivered(s))] \in TerminalEvent
                  \/ HasGap(Delivered(s))

RouterInv ==
    TypeOK /\ RoutesGood /\ UnusedGood /\ StreamsFollow /\ TurnsGood /\ SilenceGood


-----------------------------------------------------------------------------
(***************************************************************************)
(* Sequences: what a push makes of the events a stream delivers.           *)
(***************************************************************************)
Extended(d, e, kind) ==
    /\ Len(e) = Len(d) + 1
    /\ \A i \in 1..Len(d) : e[i] = d[i]
    /\ e[Len(d) + 1] = kind

Overwritten(d, e) ==
    /\ Len(d) > 0
    /\ Len(e) = Len(d)
    /\ \A i \in 1..Len(d) - 1 : e[i] = d[i]
    /\ e[Len(d)] = "gap"

\* After a push of kind: kind follows, or the loss of it is marked or was marked before.
PushResult(d, e, kind) ==
    /\ e \in Seq(RunEvent)
    /\ Extended(d, e, kind) \/ Overwritten(d, e) \/ (e = d /\ HasGap(d))

\* EventQueue::push, seen through what the reader has taken before.
LEMMA PushExtends ==
    ASSUME NEW g \in Seq(RunEvent), NEW q \in Seq(RunEvent), NEW kind \in RunEvent
    PROVE  /\ QueuePush(q, kind) \in Seq(RunEvent)
           /\ PushResult(g \o q, g \o QueuePush(q, kind), kind)
<1> DEFINE p == QueuePush(q, kind)
<1>0. QueueCapacity \in Nat \ {0}
  BY RouterAssumption
<1>1. CASE Len(q) < QueueCapacity
  <2>1. p = Append(q, kind)
    BY <1>1 DEF QueuePush
  <2>2. p \in Seq(RunEvent) /\ Len(p) = Len(q) + 1
    BY <2>1
  <2>3. Extended(g \o q, g \o p, kind)
    BY <2>1, <2>2 DEF Extended
  <2>4. QED
    BY <2>2, <2>3 DEF PushResult
<1>2. CASE Len(q) >= QueueCapacity /\ q[Len(q)] = "gap"
  <2>1. p = q
    BY <1>0, <1>2 DEF QueuePush
  <2>2. Len(q) > 0
    BY <1>0, <1>2
  <2>3. (g \o q)[Len(g) + Len(q)] = "gap" /\ Len(g \o q) = Len(g) + Len(q)
    BY <1>2, <2>2
  <2>4. HasGap(g \o q)
    BY <2>2, <2>3 DEF HasGap
  <2>5. QED
    BY <2>1, <2>4 DEF PushResult
<1>3. CASE Len(q) >= QueueCapacity /\ q[Len(q)] # "gap"
  <2>1. p = [q EXCEPT ![Len(q)] = "gap"]
    BY <1>0, <1>3 DEF QueuePush
  <2>2. Len(q) > 0
    BY <1>0, <1>3
  <2>3. p \in Seq(RunEvent) /\ Len(p) = Len(q)
    BY <2>1, <2>2 DEF RunEvent
  <2>4. Overwritten(g \o q, g \o p)
    BY <2>1, <2>2, <2>3 DEF Overwritten
  <2>5. QED
    BY <2>3, <2>4 DEF PushResult
<1>4. QED
  BY <1>0, <1>1, <1>2, <1>3

\* Moving the first element of one sequence to the end of another one before it.
LEMMA MoveFirst ==
    ASSUME NEW g \in Seq(RunEvent), NEW q \in Seq(RunEvent), q # <<>>
    PROVE  Append(g, q[1]) \o Tail(q) = g \o q
<1> DEFINE a == Append(g, q[1])
<1> DEFINE t == Tail(q)
<1>1. /\ a \in Seq(RunEvent) /\ Len(a) = Len(g) + 1 /\ a[Len(g) + 1] = q[1]
      /\ \A i \in 1..Len(g) : a[i] = g[i]
  OBVIOUS
<1>2. /\ t \in Seq(RunEvent) /\ Len(t) = Len(q) - 1
      /\ \A i \in 1..Len(t) : t[i] = q[i + 1]
  BY HeadTailProperties
<1> HIDE DEF a, t
<1>3. /\ a \o t \in Seq(RunEvent) /\ g \o q \in Seq(RunEvent)
      /\ Len(a \o t) = Len(g \o q)
  <2>1. /\ a \o t \in Seq(RunEvent) /\ Len(a \o t) = Len(a) + Len(t)
        /\ g \o q \in Seq(RunEvent) /\ Len(g \o q) = Len(g) + Len(q)
    BY <1>1, <1>2, ConcatProperties
  <2>2. Len(g) \in Nat /\ Len(q) \in Nat
    OBVIOUS
  <2>3. QED
    BY <1>1, <1>2, <2>1, <2>2
<1>4. \A i \in 1..Len(g \o q) : (a \o t)[i] = (g \o q)[i]
  <2>1. /\ Len(g) \in Nat /\ Len(q) \in Nat /\ Len(q) > 0
        /\ Len(g \o q) = Len(g) + Len(q)
    BY EmptySeq, ConcatProperties
  <2>2. ASSUME NEW i \in 1..Len(g) + Len(q) PROVE (a \o t)[i] = (g \o q)[i]
    <3>1. /\ (g \o q)[i] = IF i <= Len(g) THEN g[i] ELSE q[i - Len(g)]
          /\ (a \o t)[i] = IF i <= Len(g) + 1 THEN a[i] ELSE t[i - (Len(g) + 1)]
      BY <1>1, <1>2, <2>1, ConcatProperties
    <3>2. CASE i <= Len(g)
      BY <1>1, <2>1, <3>1, <3>2
    <3>3. CASE i = Len(g) + 1
      BY <1>1, <2>1, <3>1, <3>3
    <3>4. CASE i > Len(g) + 1
      <4>1. i - (Len(g) + 1) \in 1..Len(t) /\ i - (Len(g) + 1) + 1 = i - Len(g)
        BY <1>2, <2>1, <3>4
      <4>2. t[i - (Len(g) + 1)] = q[i - (Len(g) + 1) + 1]
        BY <1>2, <4>1
      <4>3. ~(i <= Len(g)) /\ ~(i <= Len(g) + 1)
        BY <2>1, <3>4
      <4>4. QED
        BY <3>1, <4>1, <4>2, <4>3
    <3>5. i <= Len(g) \/ i = Len(g) + 1 \/ i > Len(g) + 1
      BY <2>1
    <3>6. QED
      BY <3>2, <3>3, <3>4, <3>5
  <2>3. QED
    BY <2>1, <2>2
<1>5. a \o t = g \o q
  BY <1>3, <1>4, SeqEqual
<1>6. QED
  BY <1>5 DEF a, t

\* A marked loss stays marked: the oldest gap of a stream is never overwritten.
LEMMA GapStays ==
    ASSUME NEW d \in Seq(RunEvent), NEW e, NEW kind \in RunEvent,
           PushResult(d, e, kind), HasGap(d)
    PROVE  HasGap(e)
<1>1. PICK i \in 1..Len(d) : d[i] = "gap"
  BY DEF HasGap
<1>2. e[i] = "gap" /\ i \in 1..Len(e)
  BY <1>1 DEF PushResult, Extended, Overwritten
<1>3. QED
  BY <1>2 DEF HasGap

\* The last event after a push is the pushed one, or the stream shows a gap.
LEMMA PushShows ==
    ASSUME NEW d \in Seq(RunEvent), NEW e, NEW kind \in RunEvent, PushResult(d, e, kind)
    PROVE  /\ Len(e) > 0
           /\ e[Len(e)] = kind \/ HasGap(e)
<1>1. CASE Extended(d, e, kind)
  BY <1>1 DEF Extended
<1>2. CASE Overwritten(d, e)
  BY <1>2 DEF Overwritten, HasGap
<1>3. CASE e = d /\ HasGap(d)
  BY <1>3 DEF HasGap
<1>4. QED
  BY <1>1, <1>2, <1>3 DEF PushResult

(***************************************************************************)
(* The stream still follows what was sent after one more notification k    *)
(* was sent and k, or a gap in its place, was pushed.                      *)
(***************************************************************************)
LEMMA PushFollows ==
    ASSUME NEW d \in Seq(RunEvent), NEW e, NEW s \in Seq(Notification),
           NEW k \in Notification, NEW kind \in {k, "gap"},
           PushResult(d, e, kind), Follows(d, s)
    PROVE  Follows(e, Append(s, k))
<1> DEFINE n == Append(s, k)
<1>0. /\ Len(n) = Len(s) + 1 /\ Len(s) \in Nat /\ Len(d) \in Nat
      /\ \A i \in 1..Len(s) : n[i] = s[i]
      /\ n[Len(s) + 1] = k
      /\ k # "gap"
  BY DEF Notification, TerminalEvent
<1> SUFFICES Follows(e, n)
  OBVIOUS
<1> HIDE DEF n
<1>1. CASE Extended(d, e, kind)
  BY <1>0, <1>1, SMTT(20) DEF Extended, Follows
<1>2. CASE Overwritten(d, e)
  <2>1. ~\A j \in 1..Len(e) : e[j] # "gap"
    BY <1>0, <1>2 DEF Overwritten
  <2>2. ASSUME NEW i \in 1..Len(e), \A j \in 1..i : e[j] # "gap"
        PROVE  i <= Len(n) /\ e[i] = n[i]
    <3>1. i \in 1..Len(d) - 1
      BY <1>0, <1>2, <2>2 DEF Overwritten
    <3>2. \A j \in 1..i : d[j] # "gap" /\ d[j] = e[j]
      BY <1>0, <1>2, <2>2, <3>1 DEF Overwritten
    <3>3. i <= Len(s) /\ d[i] = s[i]
      BY <1>0, <3>1, <3>2 DEF Follows
    <3>4. QED
      BY <1>0, <3>1, <3>2, <3>3
  <2>3. QED
    BY <2>1, <2>2 DEF Follows
<1>3. CASE e = d /\ HasGap(d)
  BY <1>0, <1>3 DEF HasGap, Follows
<1>4. QED
  BY <1>1, <1>2, <1>3 DEF PushResult

\* Nothing pushed: what was marked before covers the loss.
LEMMA LossCovered ==
    ASSUME NEW d \in Seq(RunEvent), NEW s \in Seq(Notification), NEW k \in Notification,
           HasGap(d), Follows(d, s)
    PROVE  Follows(d, Append(s, k))
<1> DEFINE n == Append(s, k)
<1>0. /\ Len(n) = Len(s) + 1 /\ Len(s) \in Nat /\ Len(d) \in Nat
      /\ \A i \in 1..Len(s) : n[i] = s[i]
  OBVIOUS
<1> HIDE DEF n
<1>1. Follows(d, n)
  BY <1>0 DEF HasGap, Follows
<1>2. QED
  BY <1>1 DEF n

-----------------------------------------------------------------------------
(***************************************************************************)
(* The steps.                                                              *)
(***************************************************************************)
LEMMA RouterInit_Inv == Init => RouterInv
<1> SUFFICES ASSUME Init PROVE RouterInv
  OBVIOUS
<1> USE RouterAssumption, DeliveryAssumption DEF Init, RouterInit
<1>1. <<>> \in Seq(RunEvent) /\ <<>> \in Seq(Notification)
  OBVIOUS
<1>2. TypeOK
  BY <1>1 DEF TypeOK, RouterTypeOK, NoQueue, EventQueue, Streams
<1>3. RoutesGood /\ UnusedGood
  BY DEF RoutesGood, UnusedGood, NoQueue
<1>4. StreamsFollow /\ SilenceGood
  BY DEF StreamsFollow, SilenceGood, NoQueue
<1>5. TurnsGood
  BY DEF TurnsGood
<1>6. QED
  BY <1>2, <1>3, <1>4, <1>5 DEF RouterInv

LEMMA DeliveredTyped ==
    ASSUME TypeOK, NEW s \in Streams
    PROVE  /\ got[s] \in Seq(RunEvent)
           /\ queue[s] \in EventQueue
           /\ queue[s].events \in Seq(RunEvent)
           /\ Delivered(s) \in Seq(RunEvent)
           /\ sent[s] \in Seq(Notification)
BY DEF TypeOK, RouterTypeOK, EventQueue, Delivered

\* A new stream starts without history, on a route no other route can be taken for.
LEMMA PrepareStep ==
    ASSUME RouterInv, NEW c \in Connections, NEW run \in Runs, NEW thread \in Threads,
           Prepare(c, run, thread)
    PROVE  RouterInv'
<1> USE DEF RouterInv, Prepare, PrepareRun, history
<1> DEFINE new == [id |-> nextRoute, connection |-> c, run |-> run, thread |-> thread,
                   turn |-> NoTurn, next |-> 1, saturated |-> FALSE]
<1>0. /\ nextRoute \in Nat /\ nextRoute \in Streams
      /\ \A s \in Streams : s \in Nat
      /\ 1 \in 1..MaxRunEvents
  BY RouterAssumption DEF TypeOK, RouterTypeOK, Streams
<1>1. TypeOK'
  <2>1. new \in Route
    BY <1>0 DEF Route
  <2>2. [events |-> <<>>, active |-> TRUE, held |-> TRUE] \in EventQueue
    BY DEF EventQueue
  <2>3. nextRoute' \in 1..MaxStreams + 1
    BY <1>0, RouterAssumption DEF Streams
  <2>4. QED
    BY <2>1, <2>2, <2>3 DEF TypeOK, RouterTypeOK
<1>2. \A r \in routes : r.id < nextRoute /\ r.id \in Streams
  BY DEF RoutesGood, TypeOK, RouterTypeOK, Route
<1>3. \A s \in Streams : s # nextRoute => queue'[s] = queue[s] /\ Delivered(s)' = Delivered(s)
  BY DEF TypeOK, RouterTypeOK, Delivered
<1>4. /\ queue'[nextRoute] = [events |-> <<>>, active |-> TRUE, held |-> TRUE]
      /\ got[nextRoute] = <<>> /\ sent[nextRoute] = <<>>
      /\ turnOf[nextRoute] = {} /\ bound[nextRoute] = NoTurn
  BY <1>0 DEF TypeOK, RouterTypeOK, UnusedGood
<1>5. RoutesGood'
  <2>1. ASSUME NEW r \in routes'
        PROVE  /\ r.id < nextRoute'
               /\ queue'[r.id].held
               /\ r.saturated => HasGap(Delivered(r.id)')
    <3>1. CASE r = new
      BY <1>0, <1>4, <3>1
    <3>2. CASE r \in routes
      <4>1. r.id \in Streams /\ r.id < nextRoute /\ r.id # nextRoute
        BY <1>0, <1>2, <3>2
      <4>2. queue'[r.id] = queue[r.id] /\ Delivered(r.id)' = Delivered(r.id)
        BY <1>3, <4>1
      <4>3. r.id < nextRoute'
        <5>1. r.id \in Nat
          BY <1>0, <4>1
        <5>2. QED
          BY <1>0, <4>1, <5>1
      <4>4. QED
        BY <3>2, <4>2, <4>3 DEF RoutesGood
    <3>3. QED
      BY <2>1, <3>1, <3>2
  <2>2. ASSUME NEW r \in routes', NEW u \in routes',
               r.id = u.id \/ (r.connection = u.connection /\ r.thread = u.thread)
        PROVE  r = u
    <3>1. CASE r \in routes /\ u \in routes
      BY <2>2, <3>1 DEF RoutesGood
    <3>2. CASE r = new /\ u = new
      BY <3>2
    <3>3. ASSUME NEW v \in routes
          PROVE  v.id # new.id /\ ~(v.connection = new.connection /\ v.thread = new.thread)
      BY <1>0, <1>2 DEF CanPrepareRun
    <3>4. QED
      BY <2>2, <3>1, <3>2, <3>3
  <2>3. QED
    BY <2>1, <2>2 DEF RoutesGood
<1>6. UnusedGood'
  <2> SUFFICES ASSUME NEW s \in Streams, s >= nextRoute'
               PROVE  /\ sent'[s] = <<>> /\ got'[s] = <<>> /\ ~queue'[s].held
                      /\ turnOf'[s] = {} /\ bound'[s] = NoTurn
    BY DEF UnusedGood
  <2>1. nextRoute' = nextRoute + 1
    OBVIOUS
  <2>2. s # nextRoute /\ s >= nextRoute
    BY <1>0, <2>1
  <2>3. queue'[s] = queue[s]
    BY <1>3, <2>2
  <2>4. /\ sent[s] = <<>> /\ got[s] = <<>> /\ ~queue[s].held
        /\ turnOf[s] = {} /\ bound[s] = NoTurn
    BY <2>2 DEF UnusedGood
  <2>5. sent' = sent /\ got' = got /\ turnOf' = turnOf /\ bound' = bound
    OBVIOUS
  <2>6. QED
    BY <2>3, <2>4, <2>5
<1>7. StreamsFollow'
  <2>1. \A s \in Streams : s = nextRoute => Delivered(s)' = <<>> \o <<>>
    BY <1>4 DEF Delivered
  <2>2. Follows(<<>> \o <<>>, <<>>)
    BY DEF Follows
  <2>3. ASSUME NEW s \in Streams, queue'[s].held PROVE Follows(Delivered(s), sent[s])'
    <3>1. CASE s = nextRoute
      BY <1>4, <2>1, <2>2, <3>1
    <3>2. CASE s # nextRoute
      BY <1>3, <2>3, <3>2 DEF StreamsFollow, Follows
    <3>3. QED
      BY <3>1, <3>2
  <2>4. QED
    BY <2>3 DEF StreamsFollow
<1>8. TurnsGood'
  BY <1>2, <1>4 DEF TurnsGood
<1>9. SilenceGood'
  <2>1. new \in routes' /\ new.id = nextRoute /\ routes \subseteq routes'
    OBVIOUS
  <2>2. QED
    <3>1. ASSUME NEW s \in Streams, queue'[s].held, s \notin cut', s # nextRoute
          PROVE  \/ queue'[s].active /\ \E r \in routes' : r.id = s
                 \/ /\ Len(Delivered(s)') > 0
                    /\ \/ Delivered(s)'[Len(Delivered(s)')] \in TerminalEvent
                       \/ HasGap(Delivered(s)')
      <4>1. queue'[s] = queue[s] /\ Delivered(s)' = Delivered(s) /\ s \notin cut
        BY <1>3, <3>1
      <4>2. QED
        BY <2>1, <3>1, <4>1 DEF SilenceGood
    <3>2. ASSUME NEW s \in Streams, s = nextRoute
          PROVE  queue'[s].active /\ \E r \in routes' : r.id = s
      <4>1. new \in routes' /\ new.id = s
        BY <2>1, <3>2
      <4>2. queue'[s].active
        BY <1>4, <3>2
      <4>3. QED
        BY <4>1, <4>2
    <3>3. QED
      BY <3>1, <3>2 DEF SilenceGood
<1>10. QED
  BY <1>1, <1>5, <1>6, <1>7, <1>8, <1>9

\* What the invariant says of a route.
LEMMA RouteFacts ==
    ASSUME RouterInv, NEW r \in routes
    PROVE  /\ r \in Route /\ r.id \in Streams /\ r.id \in Nat
           /\ r.id < nextRoute
           /\ queue[r.id].held
           /\ turnOf[r.id] \subseteq {r.turn}
           /\ bound[r.id] \in {NoTurn, r.turn}
           /\ r.turn = NoTurn => turnOf[r.id] = {}
BY DEF RouterInv, RoutesGood, TurnsGood, TypeOK, RouterTypeOK, Route, Streams

\* A route bound to the turn of turn/start's answer keeps its stream and its budget.
LEMMA BindStep ==
    ASSUME RouterInv, NEW s \in Streams, NEW turn \in Turns, Bind(s, turn)
    PROVE  RouterInv'
<1> USE DEF RouterInv, Bind, BindTurn
<1> DEFINE B(r) == IF r.id = s THEN [r EXCEPT !.turn = turn] ELSE r
<1>0. routes' = {B(r) : r \in routes}
  OBVIOUS
<1>1. ASSUME NEW r \in routes
      PROVE  /\ B(r) \in Route
             /\ B(r).id = r.id /\ B(r).connection = r.connection /\ B(r).thread = r.thread
             /\ B(r).saturated = r.saturated
             /\ B(r).turn = IF r.id = s THEN turn ELSE r.turn
  BY RouteFacts DEF Route
<1>2. \A x \in routes' : \E r \in routes : x = B(r)
  BY <1>0
<1> HIDE DEF B
<1>3. \A x : Delivered(x)' = Delivered(x)
  BY DEF Delivered
<1>4. TypeOK'
  BY <1>1, <1>2 DEF TypeOK, RouterTypeOK
<1>5. RoutesGood'
  <2>1. ASSUME NEW x \in routes'
        PROVE  /\ x.id < nextRoute'
               /\ queue'[x.id].held
               /\ x.saturated => HasGap(Delivered(x.id)')
    <3>1. PICK r \in routes : x = B(r)
      BY <1>2
    <3>2. QED
      BY <1>1, <1>3, <3>1 DEF RoutesGood
  <2>2. ASSUME NEW x \in routes', NEW y \in routes',
               x.id = y.id \/ (x.connection = y.connection /\ x.thread = y.thread)
        PROVE  x = y
    <3>1. PICK r \in routes : x = B(r)
      BY <1>2
    <3>2. PICK u \in routes : y = B(u)
      BY <1>2
    <3>3. r = u
      BY <1>1, <2>2, <3>1, <3>2 DEF RoutesGood
    <3>4. QED
      BY <3>1, <3>2, <3>3
  <2>3. QED
    BY <2>1, <2>2 DEF RoutesGood
<1>6. UnusedGood'
  <2>1. PICK r \in routes : r.id = s /\ r.turn \in {NoTurn, turn}
    BY DEF CanBindTurn
  <2>2. \A x \in Streams : x >= nextRoute => x # s
    BY <2>1, RouteFacts DEF TypeOK, RouterTypeOK
  <2>3. QED
    BY <2>2 DEF UnusedGood, TypeOK, RouterTypeOK
<1>7. StreamsFollow'
  BY <1>3 DEF StreamsFollow, Follows
<1>8. TurnsGood'
  <2>1. PICK q \in routes : q.id = s /\ q.turn \in {NoTurn, turn}
    BY DEF CanBindTurn
  <2>2. turnOf[s] \subseteq {turn}
    BY <2>1, RouteFacts
  <2>3. bound' = [bound EXCEPT ![s] = turn] /\ bound'[s] = turn
    BY DEF TypeOK
  <2>4. \A x \in Streams : x # s => bound'[x] = bound[x]
    BY <2>3 DEF TypeOK
  <2>5. ASSUME NEW x \in routes'
        PROVE  /\ turnOf'[x.id] \subseteq {x.turn}
               /\ bound'[x.id] \in {NoTurn, x.turn}
               /\ x.turn = NoTurn => turnOf'[x.id] = {}
    <3>1. PICK r \in routes : x = B(r)
      BY <1>2
    <3>2. CASE r.id = s
      BY <1>1, <2>2, <2>3, <3>1, <3>2, RouterAssumption
    <3>3. CASE r.id # s
      <4>1. r.id \in Streams
        BY RouteFacts
      <4>2. QED
        <5>1. x.id = r.id /\ x.turn = r.turn
          BY <1>1, <3>1, <3>3
        <5>2. QED
          BY <2>4, <3>3, <4>1, <5>1, RouteFacts
    <3>4. QED
      BY <3>2, <3>3
  <2>6. QED
    BY <2>2, <2>3, <2>4, <2>5 DEF TurnsGood
<1>9. SilenceGood'
  <2>1. \A x \in Streams : (\E r \in routes : r.id = x) => \E r \in routes' : r.id = x
    BY <1>0, <1>1
  <2>2. QED
    BY <1>3, <2>1 DEF SilenceGood
<1>10. QED
  BY <1>4, <1>5, <1>6, <1>7, <1>8, <1>9

\* Reading an event moves it from the queue to what was taken; their sequence stays.
LEMMA ReceiveStep ==
    ASSUME RouterInv, NEW s \in Streams, Receive(s)
    PROVE  RouterInv'
<1> USE DEF RouterInv, Receive, TryRecv
<1>0. queue[s] \in EventQueue /\ got[s] \in Seq(RunEvent)
  BY DEF TypeOK, RouterTypeOK
<1>1. PICK g \in Seq(RunEvent), q \in Seq(RunEvent) :
        g = got[s] /\ q = queue[s].events /\ q # <<>>
  BY <1>0 DEF EventQueue
<1>2. /\ Tail(q) \in Seq(RunEvent) /\ q[1] \in RunEvent
      /\ Append(g, q[1]) \in Seq(RunEvent)
      /\ Append(g, q[1]) \o Tail(q) = g \o q
  <2>1. Tail(q) \in Seq(RunEvent) /\ q[1] \in RunEvent
    BY <1>1, HeadTailProperties
  <2>2. Append(g, q[1]) \in Seq(RunEvent)
    BY <2>1, AppendProperties
  <2>3. Append(g, q[1]) \o Tail(q) = g \o q
    BY <1>1, MoveFirst
  <2>4. QED
    BY <2>1, <2>2, <2>3
<1>3. /\ queue'[s] = [queue[s] EXCEPT !.events = Tail(q)]
      /\ got'[s] = Append(g, q[1])
      /\ \A x \in Streams : x # s => queue'[x] = queue[x] /\ got'[x] = got[x]
      /\ queue'[s].events = Tail(q)
      /\ queue'[s] \in EventQueue
  BY <1>0, <1>1, <1>2 DEF TypeOK, RouterTypeOK, EventQueue
<1>4. \A x \in Streams : Delivered(x)' = Delivered(x)
  BY <1>1, <1>2, <1>3 DEF Delivered
<1>5. \A x \in Streams : queue'[x].held = queue[x].held /\ queue'[x].active = queue[x].active
  BY <1>0, <1>3 DEF EventQueue
<1>6. TypeOK'
  BY <1>2, <1>3 DEF TypeOK, RouterTypeOK
<1>7. RoutesGood'
  BY <1>4, <1>5, RouteFacts DEF RoutesGood
<1>8. UnusedGood'
  BY <1>0, <1>3 DEF UnusedGood
<1>9. StreamsFollow'
  BY <1>4, <1>5 DEF StreamsFollow, Follows
<1>10. TurnsGood'
  BY DEF TurnsGood
<1>11. SilenceGood'
  BY <1>4, <1>5 DEF SilenceGood
<1>12. QED
  BY <1>6, <1>7, <1>8, <1>9, <1>10, <1>11

\* A route is replaced by what it becomes, or removed, and its stream gets a push.
LEMMA NotifyStep ==
    ASSUME RouterInv, NEW thread \in Threads, NEW turn \in Turns, NEW k \in Notification,
           Notify(thread, turn, k)
    PROVE  RouterInv'
<1>0. TypeOK /\ RoutesGood /\ UnusedGood /\ StreamsFollow /\ TurnsGood /\ SilenceGood
  BY DEF RouterInv
<1>1. PICK r \in routes :
        /\ Accepts(r, connection, thread, turn, k)
        /\ queue' = [queue EXCEPT ![r.id] =
                        [@ EXCEPT !.events = QueueAfter(r, k),
                                  !.active = k \notin TerminalEvent]]
        /\ routes' = (routes \ {r}) \cup
                        (IF k \in TerminalEvent THEN {}
                         ELSE {[Pushed(r) EXCEPT !.turn = turn]})
        /\ UNCHANGED nextRoute
  BY DEF Notify, RouteEvent
<1>2. \A u \in routes : Accepts(u, connection, thread, turn, k) => u = r
  BY <1>0, <1>1 DEF Accepts, RoutesGood
<1>3. r = CHOOSE u \in routes : Accepts(u, connection, thread, turn, k)
  BY <1>1, <1>2
<1>4. /\ sent' = [sent EXCEPT ![r.id] = Append(@, k)]
      /\ turnOf' = [turnOf EXCEPT ![r.id] = @ \cup {turn}]
      /\ UNCHANGED <<connection, got, bound, cut>>
  BY <1>3 DEF Notify
<1> DEFINE new == [Pushed(r) EXCEPT !.turn = turn]
<1>5. /\ r \in Route /\ r.id \in Streams /\ r.id \in Nat /\ r.id < nextRoute
      /\ queue[r.id].held
      /\ turnOf[r.id] \subseteq {r.turn}
      /\ bound[r.id] \in {NoTurn, r.turn}
      /\ r.turn = NoTurn => turnOf[r.id] = {}
  BY RouteFacts
<1>6. /\ new \in Route
      /\ new.id = r.id /\ new.connection = r.connection /\ new.thread = r.thread
      /\ new.turn = turn
      /\ new.saturated => r.saturated \/ Exhausted(r)
  <2>1. r.next \in 1..MaxRunEvents /\ MaxRunEvents \in Nat
    BY <1>5, RouterAssumption DEF Route
  <2>2. ~Exhausted(r) => r.next + 1 \in 1..MaxRunEvents
    BY <2>1 DEF Exhausted
  <2>3. QED
    BY <1>5, <2>2 DEF Pushed, Route
<1> HIDE DEF new
<1>7. PICK g \in Seq(RunEvent), q \in Seq(RunEvent), s \in Seq(Notification) :
        g = got[r.id] /\ q = queue[r.id].events /\ s = sent[r.id]
  BY <1>0, <1>5, DeliveredTyped
<1> DEFINE kind == IF Exhausted(r) THEN "gap" ELSE k
<1> DEFINE d == g \o q
<1> DEFINE e == g \o QueueAfter(r, k)
<1>8. kind \in {k, "gap"} /\ kind \in RunEvent /\ d \in Seq(RunEvent)
  BY DEF RunEvent
<1>9. QueueAfter(r, k) = IF r.saturated THEN q ELSE QueuePush(q, kind)
  BY <1>7 DEF QueueAfter
<1> HIDE DEF kind
<1>10. Delivered(r.id) = d
  BY <1>7 DEF Delivered
<1>11. QueueAfter(r, k) \in Seq(RunEvent) /\ e \in Seq(RunEvent)
  BY <1>8, <1>9, PushExtends DEF PushResult
<1>12. ~r.saturated => PushResult(d, e, kind)
  BY <1>8, <1>9, PushExtends
<1>13. r.saturated => e = d /\ HasGap(d)
  BY <1>0, <1>9, <1>10 DEF RoutesGood
<1>14. /\ queue'[r.id].events = QueueAfter(r, k)
       /\ queue'[r.id].held
       /\ queue'[r.id].active = (k \notin TerminalEvent)
       /\ queue'[r.id] \in EventQueue
       /\ \A x \in Streams : x # r.id => queue'[x] = queue[x]
  BY <1>0, <1>1, <1>5, <1>11 DEF TypeOK, RouterTypeOK, EventQueue
<1>15. \A x \in Streams : x # r.id => /\ Delivered(x)' = Delivered(x)
                                      /\ sent'[x] = sent[x] /\ turnOf'[x] = turnOf[x]
  BY <1>0, <1>4, <1>14 DEF Delivered, TypeOK
<1>16. Delivered(r.id)' = e /\ sent'[r.id] = Append(s, k)
  BY <1>0, <1>4, <1>5, <1>7, <1>14 DEF Delivered, TypeOK
<1> HIDE DEF d, e
<1>17. HasGap(d) => HasGap(e)
  BY <1>8, <1>12, <1>13, GapStays
<1>18. \A x \in routes' : x = new \/ (x \in routes /\ x # r /\ x.id # r.id /\ x.id \in Streams)
  BY <1>0, <1>1, RouteFacts DEF RoutesGood, new
<1>19. TypeOK'
  <2>1. routes' \subseteq Route
    BY <1>0, <1>6, <1>18 DEF TypeOK, RouterTypeOK
  <2>2. Append(s, k) \in Seq(Notification)
    BY <1>7
  <2>3. QED
    BY <1>0, <1>1, <1>4, <1>5, <1>7, <1>14, <2>1, <2>2, ZenonT(40) DEF TypeOK, RouterTypeOK
<1>20. RoutesGood'
  <2>1. ASSUME NEW x \in routes'
        PROVE  /\ x.id < nextRoute'
               /\ queue'[x.id].held
               /\ x.saturated => HasGap(Delivered(x.id)')
    <3>1. CASE x = new
      <4>1. x.saturated => HasGap(e)
        <5>1. CASE r.saturated
          BY <1>13, <5>1
        <5>2. CASE ~r.saturated /\ x.saturated
          <6>1. kind = "gap"
            BY <1>6, <3>1, <5>2 DEF kind
          <6>2. Len(e) > 0 /\ (e[Len(e)] = "gap" \/ HasGap(e))
            BY <1>8, <1>12, <5>2, <6>1, PushShows
          <6>3. Len(e) \in 1..Len(e)
            BY <1>11, <6>2 DEF e
          <6>4. QED
            BY <6>2, <6>3 DEF HasGap
        <5>3. QED
          BY <5>1, <5>2
      <4>2. QED
        BY <1>1, <1>5, <1>6, <1>14, <1>16, <3>1, <4>1
    <3>2. CASE x \in routes /\ x # r /\ x.id # r.id /\ x.id \in Streams
      <4>1. /\ x.id < nextRoute /\ queue[x.id].held
            /\ x.saturated => HasGap(Delivered(x.id))
        BY <1>0, <3>2 DEF RoutesGood
      <4>2. QED
        BY <1>1, <1>14, <1>15, <3>2, <4>1
    <3>3. QED
      BY <1>18, <3>1, <3>2
  <2>2. ASSUME NEW x \in routes', NEW y \in routes',
               x.id = y.id \/ (x.connection = y.connection /\ x.thread = y.thread)
        PROVE  x = y
    <3>1. CASE x \in routes /\ y \in routes
      BY <1>0, <2>2, <3>1 DEF RoutesGood
    <3>2. CASE x = new /\ y = new
      BY <3>2
    <3>3. ASSUME NEW v \in routes, v # r
          PROVE  v.id # new.id /\ ~(v.connection = new.connection /\ v.thread = new.thread)
      BY <1>0, <1>6, <3>3 DEF RoutesGood
    <3>4. QED
      BY <1>18, <2>2, <3>1, <3>2, <3>3
  <2>3. QED
    BY <2>1, <2>2 DEF RoutesGood
<1>21. UnusedGood'
  <2>1. \A x \in Streams : x >= nextRoute => x # r.id
    BY <1>0, <1>5 DEF TypeOK, RouterTypeOK
  <2>2. QED
    BY <1>0, <1>1, <1>4, <1>14, <1>15, <2>1 DEF UnusedGood
<1>22. StreamsFollow'
  <2>1. Follows(d, s)
    BY <1>0, <1>5, <1>7, <1>10 DEF StreamsFollow
  <2>2. Follows(e, Append(s, k))
    <3>1. CASE r.saturated
      BY <1>8, <1>13, <2>1, <3>1, LossCovered
    <3>2. CASE ~r.saturated
      BY <1>8, <1>12, <2>1, <3>2, PushFollows
    <3>3. QED
      BY <3>1, <3>2
  <2>3. ASSUME NEW x \in Streams, queue'[x].held PROVE Follows(Delivered(x), sent[x])'
    <3>1. CASE x = r.id
      BY <1>16, <2>2, <3>1
    <3>2. CASE x # r.id
      BY <1>0, <1>14, <1>15, <2>3, <3>2 DEF StreamsFollow
    <3>3. QED
      BY <3>1, <3>2
  <2>4. QED
    BY <2>3 DEF StreamsFollow
<1>23. TurnsGood'
  <2>1. r.turn \in {NoTurn, turn}
    BY <1>1 DEF Accepts
  <2>2. turnOf'[r.id] = turnOf[r.id] \cup {turn} /\ turnOf'[r.id] \subseteq {turn}
    BY <1>0, <1>4, <1>5, <2>1 DEF TypeOK
  <2>3. bound'[r.id] \in {NoTurn, turn}
    BY <1>4, <1>5, <2>1
  <2>4. ASSUME NEW x \in routes'
        PROVE  /\ turnOf'[x.id] \subseteq {x.turn}
               /\ bound'[x.id] \in {NoTurn, x.turn}
               /\ x.turn = NoTurn => turnOf'[x.id] = {}
    <3>1. CASE x = new
      BY <1>6, <2>2, <2>3, <3>1, RouterAssumption
    <3>2. CASE x \in routes /\ x # r /\ x.id # r.id /\ x.id \in Streams
      BY <1>4, <1>15, <3>2, RouteFacts
    <3>3. QED
      BY <1>18, <3>1, <3>2
  <2>5. ASSUME NEW x \in Streams
        PROVE  /\ \E v \in Turns \cup {NoTurn} : turnOf'[x] \subseteq {v}
               /\ bound'[x] # NoTurn => turnOf'[x] \subseteq {bound'[x]}
    <3>1. CASE x = r.id
      BY <2>2, <2>3, <3>1
    <3>2. CASE x # r.id
      BY <1>0, <1>4, <1>15, <3>2 DEF TurnsGood
    <3>3. QED
      BY <3>1, <3>2
  <2>6. QED
    BY <2>4, <2>5 DEF TurnsGood
<1>24. SilenceGood'
  <2>1. ASSUME NEW x \in Streams, queue'[x].held, x \notin cut'
        PROVE  \/ queue'[x].active /\ \E u \in routes' : u.id = x
               \/ /\ Len(Delivered(x)') > 0
                  /\ \/ Delivered(x)'[Len(Delivered(x)')] \in TerminalEvent
                     \/ HasGap(Delivered(x)')
    <3>1. CASE x = r.id /\ k \notin TerminalEvent
      <4>1. new \in routes' /\ new.id = x
        BY <1>1, <1>6, <3>1 DEF new
      <4>2. QED
        BY <1>14, <3>1, <4>1
    <3>2. CASE x = r.id /\ k \in TerminalEvent
      <4>1. /\ Len(e) > 0
            /\ e[Len(e)] = k \/ HasGap(e)
        <5>1. CASE r.saturated
          BY <1>13, <5>1, <1>8 DEF HasGap
        <5>2. CASE ~r.saturated
          <6>1. Len(e) > 0 /\ (e[Len(e)] = kind \/ HasGap(e))
            BY <1>8, <1>12, <5>2, PushShows
          <6>2. Len(e) \in 1..Len(e)
            BY <1>11, <6>1 DEF e
          <6>3. QED
            BY <1>8, <6>1, <6>2 DEF HasGap
        <5>3. QED
          BY <5>1, <5>2
      <4>2. QED
        BY <1>16, <3>2, <4>1
    <3>3. CASE x # r.id
      <4>1. /\ queue'[x] = queue[x] /\ Delivered(x)' = Delivered(x)
            /\ \A u \in routes : u.id = x => u \in routes'
        BY <1>1, <1>14, <1>15, <3>3
      <4>2. QED
        BY <1>0, <1>4, <2>1, <4>1 DEF SilenceGood
    <3>4. QED
      BY <3>1, <3>2, <3>3
  <2>2. QED
    BY <2>1 DEF SilenceGood
<1>25. QED
  BY <1>19, <1>20, <1>21, <1>22, <1>23, <1>24 DEF RouterInv

\* A disconnect closes every routed stream and counts it as cut.
LEMMA DisconnectStep ==
    ASSUME RouterInv, Disconnect
    PROVE  RouterInv'
<1> USE DEF RouterInv, Disconnect, DeactivateAll
<1>1. \A x \in Streams :
        /\ queue'[x] \in EventQueue
        /\ queue'[x].events = queue[x].events
        /\ queue'[x].held = queue[x].held
        /\ (~\E r \in routes : r.id = x) => queue'[x] = queue[x]
  BY DEF TypeOK, RouterTypeOK, EventQueue
<1>2. \A x \in Streams : Delivered(x)' = Delivered(x)
  BY <1>1 DEF Delivered
<1>3. TypeOK'
  <2>1. cut' \subseteq Streams
    BY RouteFacts DEF TypeOK
  <2>2. queue' \in [Streams -> EventQueue]
    BY <1>1
  <2>3. QED
    BY <2>1, <2>2 DEF TypeOK, RouterTypeOK
<1>4. RoutesGood' /\ UnusedGood' /\ TurnsGood'
  BY <1>1 DEF RoutesGood, UnusedGood, TurnsGood
<1>5. StreamsFollow'
  BY <1>1, <1>2 DEF StreamsFollow
<1>6. SilenceGood'
  <2>1. \A x \in Streams : x \notin cut' =>
          x \notin cut /\ queue'[x] = queue[x] /\ ~\E r \in routes : r.id = x
    BY <1>1
  <2>2. QED
    BY <1>2, <2>1 DEF SilenceGood
<1>7. QED
  BY <1>3, <1>4, <1>5, <1>6

\* A dropped stream is forgotten with its route.
LEMMA DropStep ==
    ASSUME RouterInv, NEW s \in Streams, Drop(s)
    PROVE  RouterInv'
<1> USE DEF RouterInv, Drop, DropStream, history
<1>1. NoQueue \in EventQueue
  BY DEF NoQueue, EventQueue
<1>2. queue'[s] = NoQueue /\ \A x \in Streams : x # s => queue'[x] = queue[x]
  BY DEF TypeOK, RouterTypeOK
<1>3. \A x \in Streams : x # s => Delivered(x)' = Delivered(x)
  BY <1>2 DEF Delivered
<1>4. \A r \in routes' : r \in routes /\ r.id # s /\ r.id \in Streams
  BY RouteFacts
<1>5. TypeOK'
  BY <1>1, <1>4 DEF TypeOK, RouterTypeOK
<1>6. RoutesGood'
  <2>1. ASSUME NEW r \in routes'
        PROVE  /\ r.id < nextRoute'
               /\ queue'[r.id].held
               /\ r.saturated => HasGap(Delivered(r.id)')
    BY <1>2, <1>3, <1>4 DEF RoutesGood
  <2>2. QED
    BY <1>4, <2>1 DEF RoutesGood
<1>7. UnusedGood'
  BY <1>2 DEF UnusedGood, NoQueue
<1>8. StreamsFollow'
  BY <1>2, <1>3 DEF StreamsFollow, NoQueue
<1>9. TurnsGood'
  BY <1>4 DEF TurnsGood
<1>10. SilenceGood'
  <2>1. ASSUME NEW x \in Streams, queue'[x].held, x \notin cut'
        PROVE  /\ x # s /\ queue[x] = queue'[x] /\ Delivered(x)' = Delivered(x)
               /\ (\E r \in routes : r.id = x) => \E r \in routes' : r.id = x
    BY <1>2, <1>3, <2>1 DEF NoQueue
  <2>2. QED
    BY <2>1 DEF SilenceGood
<1>11. QED
  BY <1>5, <1>6, <1>7, <1>8, <1>9, <1>10

-----------------------------------------------------------------------------
(***************************************************************************)
(* The theorems.                                                           *)
(***************************************************************************)
LEMMA RouterInvariant == Spec => []RouterInv
<1>1. RouterInv /\ [Next]_deliveryVars => RouterInv'
  <2> SUFFICES ASSUME RouterInv, [Next]_deliveryVars PROVE RouterInv'
    OBVIOUS
  <2>1. CASE UNCHANGED deliveryVars
    <3>1. \A s : Delivered(s)' = Delivered(s)
      BY <2>1 DEF deliveryVars, Delivered
    <3>2. QED
      BY <2>1, <3>1
      DEF deliveryVars, RouterInv, TypeOK, RouterTypeOK, RoutesGood, UnusedGood,
          StreamsFollow, TurnsGood, SilenceGood
  <2>2. CASE Next
    BY <2>2, PrepareStep, BindStep, NotifyStep, ReceiveStep, DisconnectStep, DropStep
    DEF Next
  <2>3. QED
    BY <2>1, <2>2
<1>2. QED
  BY <1>1, RouterInit_Inv, PTL DEF Spec

(***************************************************************************)
(* What a stream delivers is what was sent, in order, up to its first gap, *)
(* and without a gap it is everything that was sent: neither a full queue  *)
(* nor an exhausted budget loses a notification silently.                  *)
(***************************************************************************)
THEOREM NoSilentGap == Spec => []DeliveryInv
<1>1. RouterInv => DeliveryInv
  <2> SUFFICES ASSUME RouterInv PROVE DeliveryInv
    OBVIOUS
  <2>1. TypeOK
    BY DEF RouterInv
  <2>2. ASSUME NEW s \in Streams, queue[s].held
        PROVE  /\ \A i \in DOMAIN Delivered(s) :
                    GapFree(SubSeq(Delivered(s), 1, i)) =>
                        i <= Len(sent[s]) /\ Delivered(s)[i] = sent[s][i]
               /\ GapFree(Delivered(s)) => Delivered(s) = sent[s]
    <3>1. PICK d \in Seq(RunEvent), n \in Seq(Notification) :
            d = Delivered(s) /\ n = sent[s]
      BY <2>1, DeliveredTyped
    <3>2. Follows(d, n)
      BY <2>2, <3>1 DEF RouterInv, StreamsFollow
    <3>3. ASSUME NEW i \in DOMAIN d, GapFree(SubSeq(d, 1, i))
          PROVE  i <= Len(n) /\ d[i] = n[i]
      <4>1. i \in 1..Len(d)
        OBVIOUS
      <4>2. /\ Len(SubSeq(d, 1, i)) = i
            /\ \A j \in 1..i : SubSeq(d, 1, i)[j] = d[j]
            /\ DOMAIN SubSeq(d, 1, i) = 1..i
        BY <4>1
      <4>3. \A j \in 1..i : d[j] # "gap"
        BY <3>3, <4>2 DEF GapFree
      <4>4. QED
        BY <3>2, <4>1, <4>3 DEF Follows
    <3>4. ASSUME GapFree(d) PROVE d = n
      <4>1. \A j \in 1..Len(d) : d[j] # "gap"
        BY <3>4 DEF GapFree
      <4>2. Len(d) = Len(n)
        BY <3>2, <4>1 DEF Follows
      <4>3. \A i \in 1..Len(d) : d[i] = n[i]
        BY <3>2, <4>1 DEF Follows
      <4>4. n \in Seq(RunEvent)
        BY DEF RunEvent
      <4>5. QED
        BY <4>2, <4>3, <4>4, SeqEqual
    <3>5. QED
      BY <3>1, <3>3, <3>4
  <2>3. QED
    BY <2>1, <2>2 DEF DeliveryInv, DeliveryFaithful, NoSilentLoss
<1>2. QED
  BY <1>1, RouterInvariant, PTL

(***************************************************************************)
(* A stream carries the events of at most one turn, and of the turn that   *)
(* bind_turn confirmed.                                                    *)
(***************************************************************************)
THEOREM StreamCarriesOneTurn == Spec => []OneTurnPerStream
<1>1. RouterInv => OneTurnPerStream
  <2> SUFFICES ASSUME RouterInv, NEW s \in Streams
               PROVE  /\ Cardinality(turnOf[s]) <= 1
                      /\ bound[s] # NoTurn => turnOf[s] \subseteq {bound[s]}
    BY DEF OneTurnPerStream
  <2>1. PICK turn \in Turns \cup {NoTurn} : turnOf[s] \subseteq {turn}
    BY DEF RouterInv, TurnsGood
  <2>2. turnOf[s] = {} \/ turnOf[s] = {turn}
    BY <2>1
  <2>3. Cardinality({}) = 0
    BY FS_EmptySet
  <2>4. Cardinality({turn}) = 1
    BY FS_Singleton
  <2>5. Cardinality(turnOf[s]) = 0 \/ Cardinality(turnOf[s]) = 1
    BY <2>2, <2>3, <2>4
  <2>6. bound[s] # NoTurn => turnOf[s] \subseteq {bound[s]}
    BY DEF RouterInv, TurnsGood
  <2>7. QED
    BY <2>5, <2>6
<1>2. QED
  BY <1>1, RouterInvariant, PTL

(***************************************************************************)
(* A stream that went inactive without a disconnect ends in a terminal     *)
(* event or holds a gap.                                                   *)
(***************************************************************************)
THEOREM SilenceIsExplained == Spec => []InactiveIsExplained
<1>1. RouterInv => InactiveIsExplained
  <2> SUFFICES ASSUME RouterInv, NEW s \in Streams,
                      queue[s].held, ~queue[s].active, s \notin cut
               PROVE  /\ Delivered(s) # <<>>
                      /\ \/ Delivered(s)[Len(Delivered(s))] \in TerminalEvent
                         \/ ~GapFree(Delivered(s))
    BY DEF InactiveIsExplained
  <2>1. PICK d \in Seq(RunEvent) : d = Delivered(s)
    BY DeliveredTyped DEF RouterInv
  <2>2. Len(d) > 0 /\ (d[Len(d)] \in TerminalEvent \/ HasGap(d))
    BY <2>1 DEF RouterInv, SilenceGood
  <2>3. HasGap(d) => ~GapFree(d)
    BY DEF HasGap, GapFree
  <2>4. QED
    BY <2>1, <2>2, <2>3
<1>2. QED
  BY <1>1, RouterInvariant, PTL

=============================================================================

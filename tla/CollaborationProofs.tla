------------------------ MODULE CollaborationProofs ------------------------
(***************************************************************************)
(* Proofs about the collaboration, for every set of members, devices,      *)
(* invitations and messages, for every limit and every choice of faults.   *)
(*                                                                         *)
(* The file is a good Brain and grows with every step; that gives the two  *)
(* action properties and shows that a save refuses nothing.  What desktops *)
(* were told is tied to the file by an invariant per device: the request   *)
(* of a connection is the one its client asks, the reply fits it, and the  *)
(* client acts for a member whose credential the device has stored.        *)
(*                                                                         *)
(* What desktops show is tied to the file by snapshots: the pages read so  *)
(* far are the beginning of one snapshot of the Brain, and the file is a   *)
(* later one.  The types of the state come last; they rest on both.        *)
(***************************************************************************)
EXTENDS Collaboration, BrainProofs

GoodRequest(q) ==
    /\ q.op \in {"auth", "join", "sync", "submit", "pulse", "invite", "cancel", "revoke"}
    /\ q.op = "auth" => q.member \in Members
    /\ q.op = "join" => q.device \in Devices
    /\ q.op = "submit" => q.msg \in Messages

GoodSession(s) ==
    /\ s = [phase |-> s.phase, who |-> s.who, request |-> s.request, reply |-> s.reply]
    /\ s.request # None => GoodRequest(s.request) /\ s.reply = None

\* Requests for a page.
Pages == [after : Nat, at : Nat \cup {None}, offset : Nat]

GoodView(v) ==
    /\ v = [rev |-> v.rev, records |-> v.records, sync |-> v.sync, ready |-> v.ready,
            uncertain |-> v.uncertain, pending |-> v.pending]
    /\ v.rev \in Nat
    /\ v.sync # None => v.sync.request \in Pages
    /\ v.pending \in [key : Keys, payload : Payloads] \cup {None}

GoodClient(c) ==
    /\ c = [member |-> c.member, view |-> c.view, stage |-> c.stage, asking |-> c.asking]
    /\ GoodView(c.view) /\ c.stage \in Stages

\* Brain b knows m as a member on device d.
Home(b, m, d) == m \in DOMAIN b.members /\ b.members[m].device = d

\* A reply fits what was asked for in the name of member m on device d.
Fits(b, d, m, q, value) ==
    /\ q.op = "join" => Home(b, value, d)
    /\ q.op = "submit" =>
          [node |-> m, key |-> q.msg.key, payload |-> q.msg.payload, rev |-> value] \in b.replays
    /\ q.op = "sync" => value.at \in Nat

\* A client c of device d and its connection s.
Linked(b, d, c, s) ==
    /\ c.asking # None \/ c.view.ready => s.phase # "none"
    /\ s.request # None => c.asking = s.request
    /\ s.phase = "active" => s.who = c.member
    /\ c.asking # None =>
          /\ c.asking.op = "auth" => c.asking.member = c.member
          /\ c.asking.op = "join" => c.asking.device = d /\ s.phase # "active"
          /\ s.reply # None /\ s.reply.err = "none" =>
                Fits(b, d, c.member, c.asking, s.reply.value)

\* The member a client acts for, given the registration r and the stored credentials v.
Acting(c, r, v) ==
    /\ (c.asking # None /\ c.asking.op = "join") \/ c.member \in v
    /\ c.asking # None /\ c.asking.op = "join" => c.stage = "joining"
    /\ c.stage \in {"connecting", "held"} => c.member = r
    /\ c.asking = None \/ c.asking.op \notin {"auth", "join", "sync"} => c.stage = "held"

\* What a device has stored.
Stored(b, d, r, v) ==
    /\ \A m \in v : Home(b, m, d)
    /\ r \in Members => r \in v

\* A device d with client c, connection s, registration r and credentials v.
Desk(b, d, c, s, r, v) ==
    /\ GoodSession(s)
    /\ Stored(b, d, r, v)
    /\ c # None => GoodClient(c) /\ Linked(b, d, c, s) /\ Acting(c, r, v)

StoreGood ==
    /\ GoodBrain(file) /\ poisoned \in BOOLEAN
    /\ memory # None /\ ~poisoned => memory = file

DesksGood ==
    /\ DOMAIN client = Devices /\ DOMAIN wire = Devices
    /\ DOMAIN reg = Devices /\ DOMAIN vault = Devices
    /\ \A d \in Devices : Desk(file, d, client[d], wire[d], reg[d], vault[d])
    /\ Owner \in vault[OwnerDevice]

StraysGood == \A s \in strays : GoodSession(s) /\ Waiting(s)

AckGood == acked \subseteq file.replays

CollaborationInv == StoreGood /\ DesksGood /\ StraysGood /\ AckGood

-----------------------------------------------------------------------------
\* A join for device d that the host may still handle.
JoinOpen(s, d) == Waiting(s) /\ s.request.op = "join" /\ s.request.device = d

Enrolled(d) == \E m \in DOMAIN file.members \ {Owner} : file.members[m].device = d

\* At most one join of a device is open, only after it was registered, and only
\* while the device is not enrolled.
JoinsGood ==
    /\ \A d, e \in Devices : JoinOpen(wire[e], d) => e = d
    /\ \A d \in Devices, s \in strays : JoinOpen(s, d) => ~JoinOpen(wire[d], d)
    /\ \A d \in Devices, s, t \in strays : JoinOpen(s, d) /\ JoinOpen(t, d) => s = t
    /\ \A d \in Devices, s \in Sessions : JoinOpen(s, d) => reg[d] # "none" /\ ~Enrolled(d)
    /\ \A d \in Devices : Enrolled(d) => reg[d] # "none"

\* Cancellations whose acknowledgement is on its way.
Cancelling == {client[d].asking.invite : d \in {e \in Devices : Got(e, "cancel")}}
Withdrawn == cancelled \cup Cancelling

AccountsGood ==
    /\ IsFiniteSet(issued)
    /\ DOMAIN file.invites \subseteq issued /\ Withdrawn \subseteq issued
    /\ Withdrawn \cap DOMAIN file.invites = {}
    /\ Cardinality(DOMAIN file.members \ {Owner}) + Cardinality(DOMAIN file.invites)
          + Cardinality(Withdrawn) <= Cardinality(issued)

EnrolmentInv == JoinsGood /\ OneEnrolmentPerDevice /\ AccountsGood

\* A task seen running when the connection ended is marked.
DoubtKept ==
    \A d \in Devices, t \in TaskIds : InDoubt(d, t) => t \in client[d].view.uncertain

-----------------------------------------------------------------------------
(***************************************************************************)
(* The store: what a request does to the file.                             *)
(***************************************************************************)

\* Who belongs and who is invited, after a request of session s took b to c.
RollAfter(b, c, s, id, value) ==
    LET q == s.request IN
    /\ q.op = "join" => JoinedWith(b, c, q.invite, value, q.device)
    /\ q.op = "invite" =>
          /\ DOMAIN c.members = DOMAIN b.members
          /\ id \in Invites \ issued /\ DOMAIN c.invites \subseteq DOMAIN b.invites \cup {id}
    /\ q.op = "cancel" =>
          /\ DOMAIN c.members = DOMAIN b.members
          /\ q.invite \in DOMAIN b.invites /\ DOMAIN c.invites = DOMAIN b.invites \ {q.invite}
    /\ q.op \notin {"join", "invite", "cancel"} => SameRoll(b, c)

\* A page of Brain c for member m, who has access to it.
TruePage(c, m, req, page) ==
    /\ page = PageAt(c, m, req) /\ PageValid(page) /\ AtRevision(c, req)
    /\ m \in DOMAIN c.members /\ ~c.members[m].revoked

\* What its answer says of the new file.
AnswerTrue(c, s, value) ==
    LET q == s.request IN
    /\ q.op = "join" => value \in DOMAIN c.members /\ c.members[value].device = q.device
    /\ q.op = "submit" =>
          [node |-> s.who, key |-> q.msg.key, payload |-> q.msg.payload, rev |-> value]
              \in c.replays
    /\ q.op = "sync" => value.at \in Nat /\ TruePage(c, s.who, q.page, value)
    /\ q.op = "invite" => value \in Invites

\* An id that may be given to a request on Brain b.
GoodId(b, q, id) ==
    /\ q.op = "join" => FreshMember(b, id)
    /\ q.op = "invite" => id \in Invites \ issued

\* Every operation that succeeds moves a good Brain to a good one.
LEMMA OperationMoves ==
    ASSUME NEW b, GoodBrain(b), NEW s, GoodRequest(s.request), NEW id,
           GoodId(b, s.request, id),
           Operation(b, s, id, b.clock).err = "none"
    PROVE  LET c == Operation(b, s, id, b.clock).brain
               v == Operation(b, s, id, b.clock).value IN
           Moved(b, c) /\ RollAfter(b, c, s, id, v) /\ AnswerTrue(c, s, v)
  <1> DEFINE q == s.request
             o == Operation(b, s, id, b.clock)
  <1>0. b \in Brains /\ b.rev \in Nat
    BY BrainTypes DEF GoodBrain
  <1>1. CASE q.op = "auth"
    <2>1. o = Connect(b, q.member, b.clock)
      BY <1>1 DEF Operation
    <2>2. o.brain = b
      BY <2>1 DEF Connect, Done, Fail
    <2>3. Moved(b, b) /\ SameRoll(b, b)
      BY Unmoved
    <2> HIDE DEF o
    <2>4. Moved(b, o.brain) /\ RollAfter(b, o.brain, s, id, o.value)
          /\ AnswerTrue(o.brain, s, o.value)
      BY <1>1, <2>2, <2>3 DEF RollAfter, AnswerTrue
    <2> QED
      BY <2>4 DEF o
  <1>2. CASE q.op = "join"
    <2>1. o = JoinBrain(b, q.invite, id, q.device, b.clock)
      BY <1>2 DEF Operation
    <2>2. q.device \in Devices
      BY <1>2 DEF GoodRequest
    <2>3. FreshMember(b, id)
      BY <1>2 DEF GoodId
    <2> HIDE DEF o, q
    <2>4. PICK i, dev, c : i = q.invite /\ dev = q.device /\ c = o.brain
      OBVIOUS
    <2>5. o = JoinBrain(b, i, id, dev, b.clock) /\ o.err = "none"
      BY <2>1, <2>4 DEF o
    <2>6. JoinBrain(b, i, id, dev, b.clock).err = "none" /\ c = JoinBrain(b, i, id, dev, b.clock).brain
      BY <2>4, <2>5
    <2>a. dev \in Devices
      BY <2>2, <2>4
    <2>7. /\ Moved(b, c) /\ JoinedWith(b, c, i, id, dev)
          /\ JoinBrain(b, i, id, dev, b.clock).value = id
      BY <2>3, <2>6, <2>a, JoinBrainMoves, ZenonT(40)
    <2>8. Moved(b, o.brain) /\ RollAfter(b, o.brain, s, id, o.value)
          /\ AnswerTrue(o.brain, s, o.value)
      BY <1>2, <2>4, <2>5, <2>7 DEF RollAfter, AnswerTrue, JoinedWith, q
    <2> QED
      BY <2>8 DEF o
  <1>3. CASE q.op = "sync"
    <2>1. o = Reconcile(b, s.who, q.page, b.clock)
      BY <1>3 DEF Operation
    <2>2. Moved(b, o.brain) /\ SameRoll(b, o.brain)
      BY <2>1, ReconcileMoves
    <2>3. o.value.at = o.brain.rev
      <3>1. \A a, m, r : PageAt(a, m, r).at = a.rev
        BY DEF PageAt
      <3>2. o.value = PageAt(o.brain, s.who, q.page)
        BY <2>1 DEF Reconcile, Done, Fail
      <3> QED
        BY <3>1, <3>2
    <2>4. o.brain.rev \in Nat
      BY <2>2, BrainTypes DEF Moved, GoodBrain
    <2>a. TruePage(o.brain, s.who, q.page, o.value)
      <3> HIDE DEF q
      <3>1. PICK m, req, c, v : m = s.who /\ req = q.page /\ c = o.brain /\ v = o.value
        OBVIOUS
      <3>2. /\ Reconcile(b, m, req, b.clock).err = "none"
            /\ c = Reconcile(b, m, req, b.clock).brain /\ v = Reconcile(b, m, req, b.clock).value
        BY <2>1, <3>1 DEF q
      <3>3. TruePage(c, m, req, v)
        BY <3>2, ReconciledPage DEF TruePage
      <3> QED
        BY <3>1, <3>3
    <2> HIDE DEF o
    <2>5. RollAfter(b, o.brain, s, id, o.value) /\ AnswerTrue(o.brain, s, o.value)
      BY <1>3, <2>2, <2>3, <2>4, <2>a DEF RollAfter, AnswerTrue
    <2> QED
      BY <2>2, <2>5 DEF o
  <1>4. CASE q.op = "submit"
    <2>1. o = Apply(b, s.who, q.msg, b.clock)
      BY <1>4 DEF Operation
    <2>2. q.msg \in Messages
      BY <1>4 DEF GoodRequest
    <2> HIDE DEF o, q
    <2>3. PICK m, msg, c : m = s.who /\ msg = q.msg /\ c = o.brain
      OBVIOUS
    <2>4. Apply(b, m, msg, b.clock).err = "none" /\ c = Apply(b, m, msg, b.clock).brain
          /\ o.value = Apply(b, m, msg, b.clock).value
      BY <2>1, <2>3 DEF o
    <2>5. /\ Moved(b, c) /\ SameRoll(b, c)
          /\ [node |-> m, key |-> msg.key, payload |-> msg.payload,
              rev |-> Apply(b, m, msg, b.clock).value] \in c.replays
      BY <2>2, <2>3, <2>4, ApplyMoves
    <2>6. Moved(b, o.brain) /\ RollAfter(b, o.brain, s, id, o.value)
          /\ AnswerTrue(o.brain, s, o.value)
      BY <1>4, <2>3, <2>4, <2>5 DEF RollAfter, AnswerTrue, q
    <2> QED
      BY <2>6 DEF o
  <1>5. CASE q.op = "pulse"
    <2>1. o = Heartbeat(b, s.who, b.rev, b.clock)
      BY <1>5 DEF Operation
    <2>2. Moved(b, o.brain) /\ SameRoll(b, o.brain)
      BY <2>1, HeartbeatMoves
    <2> HIDE DEF o
    <2>3. RollAfter(b, o.brain, s, id, o.value) /\ AnswerTrue(o.brain, s, o.value)
      BY <1>5, <2>2 DEF RollAfter, AnswerTrue
    <2> QED
      BY <2>2, <2>3 DEF o
  <1>6. CASE q.op = "invite"
    <2>1. o = ByOwner(b, s, b.clock, CreateInvitation(b, id, b.clock))
      BY <1>6 DEF Operation
    <2>2. o = CreateInvitation(b, id, b.clock)
      BY <2>1 DEF ByOwner, Fail
    <2>3. id \in Invites \ issued
      BY <1>6 DEF GoodId
    <2> HIDE DEF o
    <2>4. PICK c : c = o.brain
      OBVIOUS
    <2>5. CreateInvitation(b, id, b.clock).err = "none" /\ c = CreateInvitation(b, id, b.clock).brain
      BY <2>2, <2>4 DEF o
    <2>6. /\ Moved(b, c) /\ c.members = b.members
          /\ DOMAIN c.invites \subseteq DOMAIN b.invites \cup {id}
          /\ o.value = id
      BY <2>2, <2>3, <2>5, CreateInvitationMoves
    <2>7. Moved(b, o.brain) /\ RollAfter(b, o.brain, s, id, o.value)
          /\ AnswerTrue(o.brain, s, o.value)
      BY <1>6, <2>3, <2>4, <2>6 DEF RollAfter, AnswerTrue
    <2> QED
      BY <2>7 DEF o
  <1>7. CASE q.op = "cancel"
    <2>1. o = ByOwner(b, s, b.clock, CancelInvitation(b, q.invite))
      BY <1>7 DEF Operation
    <2>2. o = CancelInvitation(b, q.invite)
      BY <2>1 DEF ByOwner, Fail
    <2> HIDE DEF o, q
    <2>3. PICK i, c : i = q.invite /\ c = o.brain
      OBVIOUS
    <2>4. CancelInvitation(b, i).err = "none" /\ c = CancelInvitation(b, i).brain
      BY <2>2, <2>3 DEF o
    <2>5. /\ Moved(b, c) /\ c.members = b.members
          /\ i \in DOMAIN b.invites /\ DOMAIN c.invites = DOMAIN b.invites \ {i}
      BY <2>4, CancelInvitationMoves
    <2>6. Moved(b, o.brain) /\ RollAfter(b, o.brain, s, id, o.value)
          /\ AnswerTrue(o.brain, s, o.value)
      BY <1>7, <2>3, <2>5 DEF RollAfter, AnswerTrue, q
    <2> QED
      BY <2>6 DEF o
  <1>8. CASE q.op = "revoke"
    <2>1. o = ByOwner(b, s, b.clock, RevokeMember(b, q.member, q.rev))
      BY <1>8 DEF Operation
    <2>2. o = RevokeMember(b, q.member, q.rev)
      BY <2>1 DEF ByOwner, Fail
    <2>3. Moved(b, o.brain) /\ SameRoll(b, o.brain)
      BY <2>2, RevokeMemberMoves
    <2> HIDE DEF o
    <2>4. RollAfter(b, o.brain, s, id, o.value) /\ AnswerTrue(o.brain, s, o.value)
      BY <1>8, <2>3 DEF RollAfter, AnswerTrue
    <2> QED
      BY <2>3, <2>4 DEF o
  <1> QED
    BY <1>1, <1>2, <1>3, <1>4, <1>5, <1>6, <1>7, <1>8 DEF GoodRequest

\* What a request leaves in the file x.file, and answers.
Served(x, s, id) ==
    /\ Moved(file, x.file) /\ x.poisoned \in BOOLEAN
    /\ SameRoll(file, x.file) \/ \E v : RollAfter(file, x.file, s, id, v)
    /\ x.outcome.err = "none" =>
          /\ Admitted(s)
          /\ RollAfter(file, x.file, s, id, x.outcome.value)
          /\ AnswerTrue(x.file, s, x.outcome.value)

\* Who belonged and who was invited does not depend on the time.
LEMMA RollSinceObserved ==
    ASSUME NEW b, GoodBrain(b), NEW now \in Nat, CanObserve(b, now),
           NEW c, NEW s, NEW id, NEW v, RollAfter(Observed(b, now), c, s, id, v)
    PROVE  RollAfter(b, c, s, id, v)
  <1> DEFINE a == Observed(b, now)
  <1>1. a.members = b.members /\ a.invites = b.invites
    BY DEF GoodBrain, Brains, Observed
  <1> HIDE DEF a
  <1>2. RollAfter(a, c, s, id, v)
    BY DEF a
  <1> QED
    BY <1>1, <1>2 DEF RollAfter, JoinedWith, SameRoll

\* A transaction on a candidate that is good writes it, or the time only.
LEMMA TransactedMoves ==
    ASSUME StoreGood, memory # None, NEW now \in Nat, NEW result, NEW x \in Transacted(now, result),
           CanObserve(memory, now) /\ ~poisoned /\ result.err = "none" =>
               Moved(Observed(file, now), result.brain)
    PROVE  /\ Moved(file, x.file) /\ x.poisoned \in BOOLEAN
           /\ \/ x.file \in {file, Observed(file, now)} /\ SameRoll(file, x.file)
              \/ result.err = "none" /\ x.file = result.brain /\ CanObserve(file, now) /\ ~poisoned
           /\ x.outcome.err = "none" =>
                 /\ result.err = "none" /\ x.file = result.brain /\ x.outcome = result
                 /\ CanObserve(file, now) /\ ~poisoned
  <1>1. GoodBrain(file) /\ (~poisoned => memory = file) /\ poisoned \in BOOLEAN
    BY DEF StoreGood
  <1>2. CASE poisoned \/ ~CanObserve(memory, now)
    <2>1. x.file = file /\ x.poisoned = poisoned /\ x.outcome.err # "none"
      BY <1>2 DEF Transacted, Fail
    <2> QED
      BY <1>1, <2>1, Unmoved
  <1>3. CASE ~poisoned /\ CanObserve(memory, now)
    <2>1. memory = file
      BY <1>1, <1>3
    <2> DEFINE next == Staged(memory, now, result)
               out == Outcome(memory, now, result)
    <2>2. /\ x.poisoned \in BOOLEAN /\ x.file \in {file, next}
          /\ x.outcome.err = "none" => x.file = next /\ x.outcome = out
      <3> HIDE DEF next, out
      <3>1. x \in {[file |-> next, poisoned |-> FALSE, outcome |-> out]}
                  \cup {[file |-> f, poisoned |-> TRUE, outcome |-> Fail("unavailable")] :
                         f \in IF "write" \in Faults /\ next # file THEN {file, next} ELSE {}}
        BY <1>3 DEF Transacted, next, out
      <3>2. CASE x = [file |-> next, poisoned |-> FALSE, outcome |-> out]
        BY <3>2
      <3>3. CASE \E f \in {file, next} :
                   x = [file |-> f, poisoned |-> TRUE, outcome |-> Fail("unavailable")]
        BY <3>3 DEF Fail
      <3> QED
        BY <3>1, <3>2, <3>3
    <2>3. /\ Moved(file, Observed(file, now)) /\ SameRoll(file, Observed(file, now))
      BY <1>1, <1>3, <2>1, ObservedMoves
    <2>4. CASE result.err = "none" /\ Encodes(result.brain)
      <3>1. Moved(file, result.brain)
        BY <1>1, <1>3, <2>1, <2>4, GrownSinceObserved DEF Moved, GoodBrain
      <3>2. next = result.brain /\ out = result
        BY <2>4 DEF Staged, Outcome
      <3> HIDE DEF next, out
      <3>3. Moved(file, file) /\ SameRoll(file, file)
        BY <1>1, Unmoved
      <3> QED
        BY <1>3, <2>1, <2>2, <2>4, <3>1, <3>2, <3>3
    <2>5. CASE ~(result.err = "none" /\ Encodes(result.brain))
      <3>1. next \in {file, Observed(file, now)} /\ out.err # "none"
        BY <2>1, <2>5 DEF Staged, Outcome, EncodeError, Fail
      <3> HIDE DEF next, out
      <3>2. Moved(file, file) /\ SameRoll(file, file)
        BY <1>1, Unmoved
      <3> QED
        BY <2>2, <2>3, <2>5, <3>1, <3>2
    <2> QED
      BY <2>4, <2>5
  <1> QED
    BY <1>1, <1>2, <1>3

\* The times are numbers.
LEMMA TimesAreNumbers == Times \subseteq Nat
  BY CollaborationAssumption DEF CollaborationAssumption, Times

\* The ids the host draws suit the file.
LEMMA FreshIdsGood ==
    ASSUME NEW b, b.members = memory.members, NEW q, GoodRequest(q), NEW id \in FreshIds(q)
    PROVE  GoodId(b, q, id)
  <1>1. CASE q.op = "join"
    BY <1>1 DEF FreshIds, GoodId, FreshMember
  <1>2. CASE q.op = "invite"
    BY <1>2 DEF FreshIds, GoodId
  <1>3. CASE q.op \notin {"join", "invite"}
    BY <1>3 DEF GoodId
  <1> QED
    BY <1>1, <1>2, <1>3

\* A request that the host handles moves the file, and its answer is true of it.
LEMMA AnswersMove ==
    ASSUME StoreGood, memory # None, NEW s, GoodRequest(s.request),
           NEW now \in Times, NEW id \in FreshIds(s.request), NEW x \in Answers(s, now, id)
    PROVE  Served(x, s, id)
  <1>0. GoodBrain(file) /\ (~poisoned => memory = file) /\ poisoned \in BOOLEAN /\ now \in Nat
    BY TimesAreNumbers DEF StoreGood
  <1>1. CASE ~Admitted(s)
    <2>1. x.file = file /\ x.poisoned = poisoned /\ x.outcome.err # "none"
      BY <1>1 DEF Answers, Fail
    <2> QED
      BY <1>0, <2>1, Unmoved DEF Served
  <1>2. CASE Admitted(s)
    <2> DEFINE result == Operation(Observed(memory, now), s, id, now)
               b == Observed(memory, now)
    <2>1. x \in Transacted(now, result)
      BY <1>2 DEF Answers
    <2>2. ASSUME CanObserve(memory, now), ~poisoned, result.err = "none"
          PROVE  /\ Moved(Observed(file, now), result.brain)
                 /\ RollAfter(file, result.brain, s, id, result.value)
                 /\ AnswerTrue(result.brain, s, result.value)
      <3>1. memory = file
        BY <1>0, <2>2
      <3>2. b = Observed(file, now) /\ GoodBrain(b) /\ b.clock = now
        BY <1>0, <2>2, <3>1, ObservedMoves DEF Moved
      <3>3. b.members = memory.members
        BY <1>0, <3>1 DEF Observed, GoodBrain, Brains
      <3>4. GoodId(b, s.request, id)
        <4> HIDE DEF b
        <4> QED
          BY <3>3, FreshIdsGood
      <3>5. result = Operation(b, s, id, b.clock)
        BY <3>2
      <3> HIDE DEF result, b
      <3>6. /\ Moved(b, result.brain) /\ RollAfter(b, result.brain, s, id, result.value)
            /\ AnswerTrue(result.brain, s, result.value)
        BY <2>2, <3>2, <3>4, <3>5, OperationMoves
      <3>7. RollAfter(file, result.brain, s, id, result.value)
        BY <1>0, <2>2, <3>1, <3>2, <3>6, RollSinceObserved
      <3> QED
        BY <3>2, <3>6, <3>7
    <2> HIDE DEF result
    <2>3. /\ Moved(file, x.file) /\ x.poisoned \in BOOLEAN
          /\ \/ x.file \in {file, Observed(file, now)} /\ SameRoll(file, x.file)
             \/ result.err = "none" /\ x.file = result.brain /\ CanObserve(file, now) /\ ~poisoned
          /\ x.outcome.err = "none" =>
                /\ result.err = "none" /\ x.file = result.brain /\ x.outcome = result
                /\ CanObserve(file, now) /\ ~poisoned
      BY <1>0, <2>1, <2>2, TransactedMoves
    <2>4. ~poisoned /\ CanObserve(file, now) => CanObserve(memory, now)
      BY <1>0
    <2> QED
      BY <1>2, <2>2, <2>3, <2>4 DEF Served
  <1> QED
    BY <1>1, <1>2

-----------------------------------------------------------------------------
(***************************************************************************)
(* Desks: what the steps of a device and of the host make of one.          *)
(***************************************************************************)

\* What a device was told stays true as the Brain grows.
LEMMA DeskKept ==
    ASSUME NEW b, NEW g, Grows(b, g), NEW d, NEW c, NEW s, NEW r, NEW v,
           Desk(b, d, c, s, r, v)
    PROVE  Desk(g, d, c, s, r, v)
  <1>1. \A m : Home(b, m, d) => Home(g, m, d)
    BY DEF Grows, MembersGrow, MemberGrows, Home
  <1>2. b.replays \subseteq g.replays
    BY DEF Grows, LedgerGrows
  <1>3. \A m, q, value : Fits(b, d, m, q, value) => Fits(g, d, m, q, value)
    BY <1>1, <1>2 DEF Fits
  <1>4. Stored(g, d, r, v)
    BY <1>1 DEF Desk, Stored
  <1>5. Linked(b, d, c, s) => Linked(g, d, c, s)
    BY <1>3 DEF Linked
  <1> QED
    BY <1>4, <1>5 DEF Desk

\* A connection is opened with the first request of a client.
LEMMA DeskOpens ==
    ASSUME NEW b, NEW d, NEW r, NEW v, Stored(b, d, r, v),
           NEW q, GoodRequest(q), q.op \in {"auth", "join"},
           NEW c, GoodClient(c), c.asking = q, Acting(c, r, v),
           q.op = "auth" => q.member = c.member,
           q.op = "join" => q.device = d
    PROVE  Desk(b, d, c, Opened(q), r, v)
  <1> DEFINE s == Opened(q)
  <1>1. s.phase = "fresh" /\ s.who = None /\ s.request = q /\ s.reply = None
    BY DEF Opened
  <1>2. GoodSession(s)
    BY <1>1 DEF GoodSession, Opened
  <1> HIDE DEF s
  <1>3. Linked(b, d, c, s)
    BY <1>1 DEF Linked
  <1>4. Desk(b, d, c, s, r, v)
    BY <1>2, <1>3 DEF Desk
  <1> QED
    BY <1>4 DEF s

\* The next request of a client goes out on its open connection.
LEMMA DeskAsks ==
    ASSUME NEW b, NEW d, NEW r, NEW v, NEW s, GoodSession(s), Stored(b, d, r, v),
           s.phase # "none",
           NEW q, GoodRequest(q), q.op # "join",
           NEW c, GoodClient(c), c.member \in v,
           s.phase = "active" => s.who = c.member,
           c.stage \in {"connecting", "held"} => c.member = r,
           q.op \in {"auth", "sync"} \/ c.stage = "held",
           q # None,
           q.op = "auth" => q.member = c.member
    PROVE  Desk(b, d, [c EXCEPT !.asking = q], [s EXCEPT !.request = q, !.reply = None], r, v)
  <1> DEFINE c2 == [c EXCEPT !.asking = q]
             s2 == [s EXCEPT !.request = q, !.reply = None]
  <1>1. /\ c2.member = c.member /\ c2.view = c.view /\ c2.stage = c.stage /\ c2.asking = q
        /\ c2 = [member |-> c2.member, view |-> c2.view, stage |-> c2.stage, asking |-> c2.asking]
    BY DEF GoodClient
  <1>2. /\ s2.phase = s.phase /\ s2.who = s.who /\ s2.request = q /\ s2.reply = None
        /\ s2 = [phase |-> s2.phase, who |-> s2.who, request |-> s2.request, reply |-> s2.reply]
    <2> HIDE DEF s2
    <2>1. PICK t : t = s2
      OBVIOUS
    <2>2. t = [s EXCEPT !.request = q, !.reply = None]
      BY <2>1 DEF s2
    <2>3. /\ t.phase = s.phase /\ t.who = s.who /\ t.request = q /\ t.reply = None
          /\ t = [phase |-> t.phase, who |-> t.who, request |-> t.request, reply |-> t.reply]
      <3>1. s = [phase |-> s.phase, who |-> s.who, request |-> s.request, reply |-> s.reply]
        BY DEF GoodSession
      <3>2. t = [phase |-> s.phase, who |-> s.who, request |-> q, reply |-> None]
        BY <2>2, <3>1
      <3> QED
        BY <3>2
    <2> QED
      BY <2>1, <2>3
  <1> HIDE DEF c2, s2
  <1>3. GoodSession(s2)
    BY <1>2 DEF GoodSession
  <1>4. GoodClient(c2)
    BY <1>1 DEF GoodClient
  <1>5. Linked(b, d, c2, s2)
    BY <1>1, <1>2 DEF Linked
  <1>6. Acting(c2, r, v)
    BY <1>1 DEF Acting
  <1>7. Desk(b, d, c2, s2, r, v)
    BY <1>3, <1>4, <1>5, <1>6 DEF Desk
  <1> QED
    BY <1>7 DEF c2, s2

\* The host answers.
LEMMA DeskAnswered ==
    ASSUME NEW b, NEW d, NEW c, NEW s, NEW r, NEW v, Desk(b, d, c, s, r, v), Waiting(s),
           NEW o, o.err = "none" => Admitted(s) /\ AnswerTrue(b, s, o.value)
    PROVE  Desk(b, d, c, Answered(s, o), r, v)
  <1> DEFINE t == Answered(s, o)
  <1>0. GoodSession(s) /\ s.request # None /\ s.phase # "none"
    BY DEF Desk, Waiting
  <1>1. /\ t = [phase |-> t.phase, who |-> t.who, request |-> t.request, reply |-> t.reply]
        /\ t.request = None /\ t.reply = o
    <2>1. PICK p, w, q0, y : s = [phase |-> p, who |-> w, request |-> q0, reply |-> y]
      BY <1>0 DEF GoodSession
    <2>2. PICK p2, w2 : t = [s EXCEPT !.request = None, !.reply = o, !.phase = p2, !.who = w2]
      BY DEF Answered
    <2>3. t = [phase |-> p2, who |-> w2, request |-> None, reply |-> o]
      BY <2>1, <2>2
    <2> HIDE DEF t
    <2> QED
      BY <2>3
  <1>2. t.who = IF o.err = "none" /\ s.request.op = "auth" THEN s.request.member ELSE s.who
    BY <1>0 DEF Answered, GoodSession
  <1>3. t.phase = IF o.err \notin {"none", "conflict"} THEN "closed"
                  ELSE IF o.err = "conflict" THEN s.phase
                  ELSE CASE s.request.op = "auth" -> "active"
                         [] s.request.op = "join" -> "joined"
                         [] OTHER -> s.phase
    BY <1>0 DEF Answered, GoodSession
  <1>4. /\ t.phase # "none"
        /\ t.phase = "active" =>
              s.phase = "active" \/ (o.err = "none" /\ s.request.op = "auth")
    BY <1>0, <1>3
  <1> HIDE DEF t
  <1>5. GoodSession(t)
    BY <1>1 DEF GoodSession
  <1>6. ASSUME c # None PROVE Linked(b, d, c, t)
    <2>1. Linked(b, d, c, s) /\ c.asking = s.request
      BY <1>0, <1>6 DEF Desk, Linked
    <2>2. t.phase = "active" => t.who = c.member
      <3>1. s.phase = "active" => s.who = c.member
        BY <2>1 DEF Linked
      <3>2. s.request.op = "auth" => s.request.member = c.member
        BY <1>0, <2>1 DEF Linked
      <3> QED
        BY <1>2, <1>4, <3>1, <3>2
    <2>3. s.request.op = "join" => t.phase # "active"
      BY <1>0, <1>4, <2>1 DEF Linked
    <2>4. o.err = "none" => Fits(b, d, c.member, s.request, o.value)
      <3> SUFFICES ASSUME o.err = "none" PROVE Fits(b, d, c.member, s.request, o.value)
        OBVIOUS
      <3>1. Admitted(s) /\ AnswerTrue(b, s, o.value)
        OBVIOUS
      <3>2. s.request.op = "join" => Home(b, o.value, d)
        BY <1>0, <2>1, <3>1 DEF AnswerTrue, Home, Linked
      <3>3. s.request.op = "submit" => s.who = c.member
        BY <2>1, <3>1 DEF Admitted, Linked
      <3> QED
        BY <3>1, <3>2, <3>3 DEF Fits, AnswerTrue
    <2> QED
      BY <1>0, <1>1, <1>4, <2>1, <2>2, <2>3, <2>4 DEF Linked
  <1>7. Desk(b, d, c, t, r, v)
    BY <1>5, <1>6 DEF Desk
  <1> QED
    BY <1>7 DEF t

\* The host is gone: a reply that was sent may still be read.
LEMMA DeskCut ==
    ASSUME NEW b, NEW d, NEW c, NEW s, NEW r, NEW v, Desk(b, d, c, s, r, v)
    PROVE  Desk(b, d, c, Cut(s), r, v) /\ ~Waiting(Cut(s))
  <1>0. GoodSession(s)
    BY DEF Desk
  <1>1. CASE s.phase = "none"
    BY <1>1 DEF Cut, Waiting
  <1>2. CASE s.phase # "none"
    <2> DEFINE t == Cut(s)
    <2>1. /\ t = [phase |-> t.phase, who |-> t.who, request |-> t.request, reply |-> t.reply]
          /\ t.request = None /\ t.reply = s.reply /\ t.phase = "closed" /\ t.who = s.who
      BY <1>0, <1>2 DEF Cut, GoodSession
    <2> HIDE DEF t
    <2>2. GoodSession(t) /\ ~Waiting(t)
      BY <2>1 DEF GoodSession, Waiting
    <2>3. c # None => Linked(b, d, c, t)
      BY <2>1 DEF Desk, Linked
    <2>4. Desk(b, d, c, t, r, v)
      BY <2>2, <2>3 DEF Desk
    <2> QED
      BY <2>2, <2>4 DEF t
  <1> QED
    BY <1>1, <1>2

\* There is no connection and no client.
LEMMA DeskEmpty ==
    ASSUME NEW b, NEW d, NEW r, NEW v, Stored(b, d, r, v)
    PROVE  Desk(b, d, None, Unconnected, r, v)
  <1>1. GoodSession(Unconnected)
    BY DEF GoodSession, Unconnected
  <1> QED
    BY <1>1 DEF Desk

\* The view of a client that lost its connection.
LEMMA DisconnectedView ==
    ASSUME NEW w, GoodView(w)
    PROVE  /\ GoodView(Disconnected(w)) /\ Disconnected(w).ready = FALSE
           /\ Disconnected(w).records = w.records
           /\ w.uncertain \subseteq Disconnected(w).uncertain
           /\ \A t \in TaskIds : <<"task", t>> \in DOMAIN w.records
                                /\ w.records[<<"task", t>>].status = "running"
                                => t \in Disconnected(w).uncertain
  <1> DEFINE u == Disconnected(w)
  <1>1. PICK a, x, y, z, e, p : w = [rev |-> a, records |-> x, sync |-> y, ready |-> z,
                                    uncertain |-> e, pending |-> p]
    BY DEF GoodView
  <1>2. PICK e2 : /\ u = [w EXCEPT !.ready = FALSE, !.sync = None, !.uncertain = e2]
                  /\ e2 = w.uncertain \cup {t \in TaskIds :
                                              /\ <<"task", t>> \in DOMAIN w.records
                                              /\ w.records[<<"task", t>>].status = "running"}
    BY DEF Disconnected
  <1>3. u = [rev |-> a, records |-> x, sync |-> None, ready |-> FALSE,
             uncertain |-> e2, pending |-> p]
    BY <1>1, <1>2
  <1>4. w.rev = a /\ w.pending = p /\ w.records = x
    BY <1>1
  <1> HIDE DEF u
  <1>5. GoodView(u) /\ u.ready = FALSE
    BY <1>3, <1>4 DEF GoodView
  <1>6. u.records = w.records /\ u.uncertain = e2
    BY <1>3, <1>4
  <1> QED
    BY <1>2, <1>5, <1>6 DEF u

\* A client without its connection, and with no request out.
LEMMA DeskDisconnected ==
    ASSUME NEW b, NEW d, NEW c, c # None, NEW s, NEW r, NEW v, Desk(b, d, c, s, r, v),
           c.stage = "held" \/ c.asking = None,
           NEW c2, c2 = [c EXCEPT !.view = Disconnected(@), !.asking = None],
           c.member \in v
    PROVE  Desk(b, d, c2, Unconnected, r, v)
  <1>0. GoodClient(c) /\ Stored(b, d, r, v) /\ Acting(c, r, v)
    BY DEF Desk
  <1>1. /\ c2.member = c.member /\ c2.view = Disconnected(c.view) /\ c2.stage = c.stage
        /\ c2.asking = None
        /\ c2 = [member |-> c2.member, view |-> c2.view, stage |-> c2.stage, asking |-> c2.asking]
    BY <1>0 DEF GoodClient
  <1>2. GoodClient(c2) /\ c2.view.ready = FALSE
    BY <1>0, <1>1, DisconnectedView DEF GoodClient
  <1>3. GoodSession(Unconnected) /\ Unconnected.phase = "none" /\ Unconnected.request = None
    BY DEF GoodSession, Unconnected
  <1>4. Linked(b, d, c2, Unconnected)
    BY <1>1, <1>2, <1>3 DEF Linked
  <1>5. Acting(c2, r, v)
    BY <1>0, <1>1 DEF Acting
  <1> QED
    BY <1>0, <1>2, <1>3, <1>4, <1>5 DEF Desk

-----------------------------------------------------------------------------
(***************************************************************************)
(* Steps of the host.                                                      *)
(***************************************************************************)

\* All desks as they are but that of d.
Elsewhere(d) ==
    /\ DOMAIN client' = Devices /\ DOMAIN wire' = Devices
    /\ DOMAIN reg' = Devices /\ DOMAIN vault' = Devices
    /\ \A e \in Devices \ {d} :
          /\ client'[e] = client[e] /\ wire'[e] = wire[e]
          /\ reg'[e] = reg[e] /\ vault'[e] = vault[e]

\* A step of one device keeps the others.
LEMMA DeskStep ==
    ASSUME DesksGood, NEW d \in Devices, Elsewhere(d), Grows(file, file'),
           Desk(file', d, client'[d], wire'[d], reg'[d], vault'[d]), vault[d] \subseteq vault'[d]
    PROVE  DesksGood'
  <1>1. ASSUME NEW e \in Devices
        PROVE  Desk(file', e, client'[e], wire'[e], reg'[e], vault'[e])
    <2>1. CASE e = d
      BY <2>1
    <2>2. CASE e # d
      <3>1. Desk(file, e, client[e], wire[e], reg[e], vault[e])
        BY DEF DesksGood
      <3>2. Desk(file', e, client[e], wire[e], reg[e], vault[e])
        BY <3>1, DeskKept
      <3> QED
        BY <2>2, <3>2 DEF Elsewhere
    <2> QED
      BY <2>1, <2>2
  <1>2. Owner \in vault'[OwnerDevice]
    BY Limits DEF DesksGood, Elsewhere
  <1> QED
    BY <1>1, <1>2 DEF DesksGood, Elsewhere

\* A step that no desk takes part in.
LEMMA DesksKept ==
    ASSUME DesksGood, UNCHANGED <<client, wire, reg, vault>>, Grows(file, file')
    PROVE  DesksGood'
  <1>1. ASSUME NEW d \in Devices
        PROVE  Desk(file', d, client'[d], wire'[d], reg'[d], vault'[d])
    <2>1. Desk(file, d, client[d], wire[d], reg[d], vault[d])
      BY DEF DesksGood
    <2> QED
      BY <2>1, DeskKept
  <1> QED
    BY <1>1 DEF DesksGood

\* Acknowledged messages stay in the file.
LEMMA AckKept ==
    ASSUME AckGood, UNCHANGED acked, Grows(file, file')
    PROVE  AckGood'
  BY DEF AckGood, Grows, LedgerGrows

\* A good Brain that moved is installed.
LEMMA Installs ==
    ASSUME StoreGood, NEW x, Install(x), Moved(file, x.file), x.poisoned \in BOOLEAN,
           memory # None
    PROVE  StoreGood' /\ Grows(file, file') /\ file' = x.file
  BY DEF StoreGood, Install, Moved

\* The host is opened: presence is reset, and nothing else.
LEMMA StartHostStep ==
    ASSUME CollaborationInv, NEW now \in Times, StartHost(now)
    PROVE  CollaborationInv' /\ Grows(file, file') /\ SameRoll(file, file')
  <1> DEFINE b == Observed(file, now)
             next == Staged(file, now, Reopened(now))
  <1>1. GoodBrain(file) /\ now \in Nat /\ CanObserve(file, now) /\ memory = None
    BY TimesAreNumbers DEF CollaborationInv, StoreGood, StartHost
  <1>2. Moved(file, b) /\ SameRoll(file, b) /\ GoodBrain(b) /\ b.clock = now
    BY <1>1, ObservedMoves DEF Moved
  <1>3. Moved(file, next) /\ SameRoll(file, next)
    <2>1. CASE Reopened(now).err = "none" /\ next = Reopened(now).brain
      <3>1. AllOnline(file) = AllOnline(b)
        BY <1>1 DEF AllOnline, Observed, GoodBrain, Brains
      <3>2. Reopened(now) = ResetPresence(b, AllOnline(b))
        BY <3>1 DEF Reopened
      <3> HIDE DEF b
      <3>3. Moved(b, Reopened(now).brain) /\ SameRoll(b, Reopened(now).brain)
        BY <1>2, <2>1, <3>2, ResetPresenceMoves
      <3>4. Moved(file, Reopened(now).brain)
        BY <1>1, <3>3, GrownSinceObserved DEF b, Moved, GoodBrain
      <3>5. SameRoll(file, Reopened(now).brain)
        BY <1>2, <3>3 DEF SameRoll
      <3> QED
        BY <2>1, <3>4, <3>5
    <2>2. CASE next \in {file, b}
      BY <1>1, <1>2, <2>2, Unmoved
    <2> QED
      BY <2>1, <2>2 DEF Staged
  <1> HIDE DEF next
  <1>4. /\ file' = next /\ memory' \in {next, None} /\ UNCHANGED poisoned
        /\ UNCHANGED <<localVars, client, wire, strays, history>>
    BY <1>1 DEF StartHost, next
  <1>5. StoreGood' /\ Grows(file, file') /\ SameRoll(file, file')
    BY <1>3, <1>4 DEF CollaborationInv, StoreGood, Moved
  <1>6. DesksGood' /\ AckGood'
    BY <1>4, <1>5, DesksKept, AckKept DEF CollaborationInv, localVars, history
  <1>7. StraysGood'
    BY <1>4 DEF CollaborationInv, StraysGood
  <1> QED
    BY <1>5, <1>6, <1>7 DEF CollaborationInv

\* The host stops: its sockets are shut.
LEMMA StopHostStep ==
    ASSUME CollaborationInv, StopHost
    PROVE  CollaborationInv' /\ UNCHANGED file /\ Grows(file, file')
  <1>1. /\ memory' = None /\ poisoned' = FALSE /\ strays' = {} /\ file' = file
        /\ wire' = [d \in Devices |-> Cut(wire[d])]
        /\ UNCHANGED <<localVars, client, history>>
    BY DEF StopHost, HostStops
  <1>2. StoreGood' /\ Grows(file, file')
    BY <1>1, Unmoved DEF CollaborationInv, StoreGood, Moved
  <1>3. StraysGood' /\ AckGood'
    BY <1>1 DEF CollaborationInv, StraysGood, AckGood, history
  <1>4. ASSUME NEW d \in Devices
        PROVE  Desk(file', d, client'[d], wire'[d], reg'[d], vault'[d])
    <2>1. Desk(file, d, client[d], wire[d], reg[d], vault[d])
      BY DEF CollaborationInv, DesksGood
    <2>2. Desk(file, d, client[d], Cut(wire[d]), reg[d], vault[d])
      BY <2>1, DeskCut
    <2> QED
      BY <1>1, <2>2 DEF localVars
  <1>5. DesksGood'
    BY <1>1, <1>4 DEF CollaborationInv, DesksGood, localVars
  <1> QED
    BY <1>1, <1>2, <1>3, <1>5 DEF CollaborationInv

\* The coordinator sets the status of a task.
LEMMA CoordinateStep ==
    ASSUME CollaborationInv, NEW t, NEW status, NEW now \in Times, Coordinate(t, status, now)
    PROVE  /\ CollaborationInv' /\ Grows(file, file') /\ SameRoll(file, file')
           /\ issued' = issued \cup DOMAIN file'.invites
  <1> DEFINE b == Observed(memory, now)
             result == SetTaskStatus(b, t, memory.rev, status)
  <1>1. PICK x \in Transacted(now, result) : Install(x)
    BY DEF Coordinate
  <1>2. /\ StoreGood /\ memory # None /\ now \in Nat /\ (~poisoned => memory = file)
        /\ GoodBrain(file)
    BY TimesAreNumbers DEF CollaborationInv, StoreGood, Coordinate
  <1>3. ASSUME CanObserve(memory, now), ~poisoned, result.err = "none"
        PROVE  Moved(Observed(file, now), result.brain) /\ SameRoll(file, result.brain)
    <2>1. b = Observed(file, now) /\ GoodBrain(b) /\ SameRoll(file, b)
      BY <1>2, <1>3, ObservedMoves DEF Moved
    <2> HIDE DEF b
    <2>2. Moved(b, result.brain) /\ SameRoll(b, result.brain)
      BY <1>3, <2>1, SetTaskStatusMoves
    <2> QED
      BY <2>1, <2>2 DEF SameRoll
  <1> HIDE DEF result
  <1>4. /\ Moved(file, x.file) /\ x.poisoned \in BOOLEAN
        /\ \/ x.file \in {file, Observed(file, now)} /\ SameRoll(file, x.file)
           \/ result.err = "none" /\ x.file = result.brain /\ CanObserve(file, now) /\ ~poisoned
    BY <1>1, <1>2, <1>3, TransactedMoves
  <1>5. SameRoll(file, x.file)
    BY <1>2, <1>3, <1>4
  <1>6. StoreGood' /\ Grows(file, file') /\ file' = x.file
    BY <1>1, <1>2, <1>4, Installs
  <1>7. UNCHANGED <<localVars, client, wire, strays, acked>>
    BY DEF Coordinate
  <1>8. DesksGood' /\ AckGood'
    BY <1>6, <1>7, DesksKept, AckKept DEF CollaborationInv, localVars
  <1>9. StraysGood'
    BY <1>7 DEF CollaborationInv, StraysGood
  <1>10. issued' = issued \cup DOMAIN file'.invites
    BY <1>1, <1>6 DEF Install
  <1> QED
    BY <1>5, <1>6, <1>8, <1>9, <1>10 DEF CollaborationInv

\* What the host does with the request of a client.
LEMMA HandleServes ==
    ASSUME CollaborationInv, NEW d \in Devices, Handle(d)
    PROVE  /\ memory # None /\ Waiting(wire[d]) /\ GoodRequest(wire[d].request)
           /\ \E x, id : /\ Served(x, wire[d], id) /\ Install(x)
                         /\ wire' = [wire EXCEPT ![d] = Answered(@, Reply(x.outcome))]
  <1>1. memory # None /\ Waiting(wire[d])
    BY DEF Handle
  <1>2. PICK now \in Times, id \in FreshIds(wire[d].request) :
          \E x \in Answers(wire[d], now, id) :
             /\ Install(x)
             /\ wire' = [wire EXCEPT ![d] = Answered(@, Reply(x.outcome))]
    BY DEF Handle
  <1>3. PICK x \in Answers(wire[d], now, id) :
          /\ Install(x)
          /\ wire' = [wire EXCEPT ![d] = Answered(@, Reply(x.outcome))]
    BY <1>2
  <1>4. PICK s : s = wire[d]
    OBVIOUS
  <1>5. StoreGood /\ GoodRequest(s.request)
    BY <1>1, <1>4 DEF CollaborationInv, DesksGood, Desk, GoodSession, Waiting
  <1>6. id \in FreshIds(s.request) /\ x \in Answers(s, now, id)
    BY <1>2, <1>3, <1>4
  <1>7. Served(x, s, id)
    BY <1>1, <1>5, <1>6, AnswersMove
  <1> QED
    BY <1>1, <1>3, <1>4, <1>5, <1>7

\* A request of a client is handled.
LEMMA HandleStep ==
    ASSUME CollaborationInv, NEW d \in Devices, Handle(d)
    PROVE  CollaborationInv' /\ Grows(file, file')
  <1>1. /\ memory # None /\ Waiting(wire[d])
        /\ UNCHANGED <<localVars, client, strays, invited, cancelled, acked>>
    BY DEF Handle
  <1>2. PICK x, id : /\ Served(x, wire[d], id) /\ Install(x)
                     /\ wire' = [wire EXCEPT ![d] = Answered(@, Reply(x.outcome))]
    BY HandleServes
  <1>3. /\ Install(x) /\ wire' = [wire EXCEPT ![d] = Answered(@, Reply(x.outcome))]
    BY <1>2
  <1>4. PICK s : s = wire[d]
    OBVIOUS
  <1>5. StoreGood /\ DesksGood /\ Desk(file, d, client[d], s, reg[d], vault[d])
    BY <1>4 DEF CollaborationInv, DesksGood
  <1>7. Served(x, s, id)
    BY <1>2, <1>4
  <1>8. StoreGood' /\ Grows(file, file') /\ file' = x.file
    BY <1>1, <1>3, <1>5, <1>7, Installs DEF Served
  <1>9. Desk(file', d, client[d], s, reg[d], vault[d])
    BY <1>5, <1>8, DeskKept
  <1>10. PICK o : o = Reply(x.outcome)
    OBVIOUS
  <1>11. o.err = "none" => x.outcome.err = "none" /\ o.value = x.outcome.value
    BY <1>10 DEF Reply
  <1>12. o.err = "none" => Admitted(s) /\ AnswerTrue(file', s, o.value)
    BY <1>7, <1>8, <1>11 DEF Served
  <1>13. Desk(file', d, client[d], Answered(s, o), reg[d], vault[d])
    <2>1. Waiting(s)
      BY <1>1, <1>4
    <2> QED
      BY <1>9, <1>12, <2>1, DeskAnswered
  <1>14. /\ wire'[d] = Answered(s, o) /\ DOMAIN wire' = Devices
         /\ \A e \in Devices \ {d} : wire'[e] = wire[e]
    BY <1>3, <1>4, <1>5, <1>10 DEF DesksGood
  <1>15. Elsewhere(d)
    BY <1>1, <1>5, <1>14 DEF Elsewhere, DesksGood, localVars
  <1>16. DesksGood'
    BY <1>1, <1>5, <1>8, <1>13, <1>14, <1>15, DeskStep DEF localVars
  <1>17. StraysGood' /\ AckGood'
    BY <1>1, <1>8, AckKept DEF CollaborationInv, StraysGood
  <1> QED
    BY <1>8, <1>16, <1>17 DEF CollaborationInv

\* A request is handled that its client gave up.
LEMMA HandleStrayStep ==
    ASSUME CollaborationInv, NEW s \in strays, HandleStray(s)
    PROVE  CollaborationInv' /\ Grows(file, file')
  <1>1. PICK now \in Times, id \in FreshIds(s.request) : \E x \in Answers(s, now, id) : Install(x)
    BY DEF HandleStray
  <1>2. PICK x \in Answers(s, now, id) : Install(x)
    BY <1>1
  <1>3. /\ memory # None /\ strays' = strays \ {s}
        /\ UNCHANGED <<localVars, client, wire, invited, cancelled, acked>>
    BY DEF HandleStray
  <1>4. StoreGood /\ DesksGood /\ GoodRequest(s.request)
    BY DEF CollaborationInv, StraysGood, GoodSession, Waiting
  <1>5. Served(x, s, id)
    BY <1>1, <1>2, <1>3, <1>4, AnswersMove
  <1>6. StoreGood' /\ Grows(file, file')
    BY <1>2, <1>3, <1>4, <1>5, Installs DEF Served
  <1>7. DesksGood' /\ AckGood'
    BY <1>3, <1>4, <1>6, DesksKept, AckKept DEF CollaborationInv, localVars
  <1>8. StraysGood'
    BY <1>3 DEF CollaborationInv, StraysGood
  <1> QED
    BY <1>6, <1>7, <1>8 DEF CollaborationInv

\* The limiter refuses a request.
LEMMA RefuseStep ==
    ASSUME CollaborationInv, NEW d \in Devices, Refuse(d)
    PROVE  CollaborationInv' /\ UNCHANGED file /\ Grows(file, file')
  <1>1. /\ Waiting(wire[d]) /\ wire' = [wire EXCEPT ![d] = Answered(@, Fail("busy"))]
        /\ UNCHANGED <<storeVars, localVars, client, strays, history>>
    BY DEF Refuse
  <1>2. StoreGood' /\ Grows(file, file')
    BY <1>1, Unmoved DEF CollaborationInv, StoreGood, Moved, storeVars
  <1>3. PICK s, o : s = wire[d] /\ o = Fail("busy")
    OBVIOUS
  <1>4. o.err # "none"
    BY <1>3 DEF Fail
  <1>5. Desk(file, d, client[d], s, reg[d], vault[d]) /\ Waiting(s)
    BY <1>1, <1>3 DEF CollaborationInv, DesksGood
  <1>6. Desk(file, d, client[d], Answered(s, o), reg[d], vault[d])
    BY <1>4, <1>5, DeskAnswered
  <1>7. /\ wire'[d] = Answered(s, o) /\ DOMAIN wire' = Devices
        /\ \A e \in Devices \ {d} : wire'[e] = wire[e]
    BY <1>1, <1>3 DEF CollaborationInv, DesksGood
  <1>8. Elsewhere(d)
    BY <1>1, <1>7 DEF CollaborationInv, Elsewhere, DesksGood, localVars
  <1>9. DesksGood'
    BY <1>1, <1>2, <1>6, <1>7, <1>8, DeskStep DEF CollaborationInv, localVars, storeVars
  <1>10. StraysGood' /\ AckGood'
    BY <1>1, <1>2, AckKept DEF CollaborationInv, StraysGood, history
  <1> QED
    BY <1>1, <1>2, <1>9, <1>10 DEF CollaborationInv, storeVars

-----------------------------------------------------------------------------
(***************************************************************************)
(* Steps of the desktops.                                                  *)
(***************************************************************************)

\* The requests that desktops make.
LEMMA RequestsGood ==
    ASSUME NEW q \in Requests
    PROVE  GoodRequest(q) /\ q # None
  <1>1. q # None
    BY NoRequestAssumption DEF NoRequestAssumption
  <1>2. GoodRequest(q)
    <2>1. CASE q \in [op : {"auth"}, member : Members]
      BY <2>1 DEF GoodRequest
    <2>2. CASE q \in [op : {"join"}, invite : Invites, device : Devices]
      BY <2>2 DEF GoodRequest
    <2>3. CASE q \in [op : {"sync"}, page : [after : Nat, at : Nat \cup {None}, offset : Nat]]
      BY <2>3 DEF GoodRequest
    <2>4. CASE q \in [op : {"submit"}, msg : Messages]
      BY <2>4 DEF GoodRequest
    <2>5. CASE q \in [op : {"pulse", "invite"}]
      BY <2>5 DEF GoodRequest
    <2>6. CASE q \in [op : {"cancel"}, invite : Invites]
      BY <2>6 DEF GoodRequest
    <2>7. CASE q \in [op : {"revoke"}, member : Members, rev : Nat]
      BY <2>7 DEF GoodRequest
    <2> QED
      BY <2>1, <2>2, <2>3, <2>4, <2>5, <2>6, <2>7 DEF Requests
  <1> QED
    BY <1>1, <1>2

\* The page a good view asks for next.
LEMMA SyncRequest ==
    ASSUME NEW w, GoodView(w)
    PROVE  [op |-> "sync", page |-> ReconcileRequest(w)] \in Requests
  <1>1. ReconcileRequest(w) \in Pages
    BY Limits DEF ReconcileRequest, FirstRequest, GoodView, Pages
  <1>2. PICK p : p = ReconcileRequest(w)
    OBVIOUS
  <1>3. [op |-> "sync", page |-> p]
          \in [op : {"sync"}, page : [after : Nat, at : Nat \cup {None}, offset : Nat]]
    BY <1>1, <1>2 DEF Pages
  <1> QED
    BY <1>2, <1>3 DEF Requests

\* The view of a new client.
LEMMA NewViewGood == GoodView(NewView) /\ NewView.ready = FALSE
  <1> DEFINE w == NewView
  <1>1. PICK e : w = [rev |-> 0, records |-> e, sync |-> None, ready |-> FALSE,
                      uncertain |-> {}, pending |-> None]
    BY DEF NewView
  <1> HIDE DEF w
  <1>2. GoodView(w) /\ w.ready = FALSE
    BY <1>1 DEF GoodView
  <1> QED
    BY <1>2 DEF w

\* A message is queued.
LEMMA QueuedView ==
    ASSUME NEW w, GoodView(w), NEW key \in Keys, NEW payload \in Payloads
    PROVE  /\ GoodView(Queued(w, key, payload))
           /\ Queued(w, key, payload).ready = w.ready /\ Queued(w, key, payload).rev = w.rev
           /\ Queued(w, key, payload).pending = [key |-> key, payload |-> payload]
           /\ Queued(w, key, payload).records = w.records
           /\ Queued(w, key, payload).uncertain = w.uncertain
  <1> DEFINE u == Queued(w, key, payload)
  <1>1. PICK a, x, y, z, e, p : w = [rev |-> a, records |-> x, sync |-> y, ready |-> z,
                                    uncertain |-> e, pending |-> p]
    BY DEF GoodView
  <1>2. PICK p2 : p2 = [key |-> key, payload |-> payload]
    OBVIOUS
  <1>3. u = [w EXCEPT !.pending = p2]
    BY <1>2 DEF Queued
  <1>4. u = [rev |-> a, records |-> x, sync |-> y, ready |-> z,
             uncertain |-> e, pending |-> p2]
    BY <1>1, <1>3
  <1>5. w.rev = a /\ w.sync = y /\ w.ready = z /\ w.records = x /\ w.uncertain = e
    BY <1>1
  <1>6. p2 \in [key : Keys, payload : Payloads]
    BY <1>2
  <1> HIDE DEF u
  <1>7. /\ GoodView(u) /\ u.ready = w.ready /\ u.rev = w.rev
        /\ u.pending = [key |-> key, payload |-> payload]
    BY <1>2, <1>4, <1>5, <1>6 DEF GoodView
  <1>8. u.records = w.records /\ u.uncertain = w.uncertain
    BY <1>4, <1>5
  <1> QED
    BY <1>7, <1>8 DEF u

\* A message is acknowledged.
LEMMA AcknowledgedView ==
    ASSUME NEW w, GoodView(w)
    PROVE  GoodView(Acknowledged(w)) /\ Acknowledged(w).uncertain = w.uncertain
  <1> DEFINE u == Acknowledged(w)
  <1>1. PICK a, x, y, z, e, p : w = [rev |-> a, records |-> x, sync |-> y, ready |-> z,
                                    uncertain |-> e, pending |-> p]
    BY DEF GoodView
  <1>2. u = [w EXCEPT !.pending = None, !.ready = FALSE, !.sync = None]
    BY DEF Acknowledged
  <1>3. u = [rev |-> a, records |-> x, sync |-> None, ready |-> FALSE,
             uncertain |-> e, pending |-> None]
    BY <1>1, <1>2
  <1>4. w.rev = a /\ w.uncertain = e
    BY <1>1
  <1> HIDE DEF u
  <1>5. GoodView(u)
    BY <1>3, <1>4 DEF GoodView
  <1>6. u.uncertain = w.uncertain
    BY <1>3, <1>4
  <1> QED
    BY <1>5, <1>6 DEF u

\* A page is accepted.
LEMMA AcceptedView ==
    ASSUME NEW w, GoodView(w), NEW m, NEW d, NEW p, p.at \in Nat,
           NEW a, a = AcceptPage(w, m, d, p), a.ok
    PROVE  GoodView(a.view) /\ a.view.uncertain = w.uncertain
  <1> DEFINE batch == PendingSync(w)
             records == IF p.name = None THEN batch.records ELSE Put(batch.records, p.name, p.data)
             seen == IF p.name = None THEN batch.seen ELSE batch.seen \cup {p.name}
             page == [after |-> p.after, at |-> p.at, offset |-> p.next]
  <1>0. batch.request \in Pages
    BY Limits DEF PendingSync, FirstRequest, GoodView, Pages
  <1>1. PICK k, x, y, z, e, q : w = [rev |-> k, records |-> x, sync |-> y, ready |-> z,
                                    uncertain |-> e, pending |-> q]
    BY DEF GoodView
  <1>2. w.rev = k /\ w.pending = q /\ k \in Nat /\ w.uncertain = e
        /\ q \in [key : Keys, payload : Payloads] \cup {None}
    BY <1>1 DEF GoodView
  <1>3. PageFits(m, batch, p)
    BY DEF AcceptPage
  <1> HIDE DEF batch
  <1>4. CASE p.next # None
    <2>1. p.after \in Nat /\ p.offset \in Nat
      BY <1>0, <1>3 DEF PageFits, Pages
    <2>2. p.next \in Nat
      <3>1. p.next = p.offset + 1
        BY <1>3, <1>4 DEF PageFits, PageValid
      <3> QED
        BY <2>1, <3>1
    <2>3. page \in Pages
      BY <2>1, <2>2 DEF Pages
    <2>4. a.view = [w EXCEPT !.ready = FALSE,
                             !.sync = [request |-> page, records |-> records, seen |-> seen]]
      BY <1>3, <1>4 DEF AcceptPage, batch
    <2> HIDE DEF page, records, seen
    <2>5. PICK y2 : y2 = [request |-> page, records |-> records, seen |-> seen]
      OBVIOUS
    <2>6. y2.request \in Pages
      BY <2>3, <2>5
    <2>7. PICK u : u = a.view
      OBVIOUS
    <2>8. u = [w EXCEPT !.ready = FALSE, !.sync = y2]
      BY <2>4, <2>5, <2>7
    <2>9. u = [rev |-> k, records |-> x, sync |-> y2, ready |-> FALSE,
               uncertain |-> e, pending |-> q]
      BY <1>1, <2>8
    <2>10. GoodView(u)
      BY <1>2, <2>6, <2>9 DEF GoodView
    <2>11. u.uncertain = w.uncertain
      BY <1>2, <2>9
    <2> QED
      BY <2>7, <2>10, <2>11
  <1>5. CASE p.next = None
    <2>1. a.view = [w EXCEPT !.ready = TRUE, !.sync = None, !.rev = p.at, !.records = records]
      BY <1>3, <1>5 DEF AcceptPage, batch
    <2> HIDE DEF records
    <2>2. PICK u, x2, k2 : u = a.view /\ x2 = records /\ k2 = p.at
      OBVIOUS
    <2>3. u = [w EXCEPT !.ready = TRUE, !.sync = None, !.rev = k2, !.records = x2]
      BY <2>1, <2>2
    <2>4. u = [rev |-> k2, records |-> x2, sync |-> None, ready |-> TRUE,
               uncertain |-> e, pending |-> q]
      BY <1>1, <2>3
    <2>5. GoodView(u)
      BY <1>2, <2>2, <2>4 DEF GoodView
    <2>6. u.uncertain = w.uncertain
      BY <1>2, <2>4
    <2> QED
      BY <2>2, <2>5, <2>6
  <1> QED
    BY <1>4, <1>5

\* A step of one device that the store has no part in.
LEMMA LocalStep ==
    ASSUME CollaborationInv, NEW d \in Devices, Elsewhere(d), UNCHANGED storeVars,
           Desk(file, d, client'[d], wire'[d], reg'[d], vault'[d]), vault[d] \subseteq vault'[d],
           acked' \subseteq file.replays,
           \A s \in strays' \ strays : s = wire[d] /\ Waiting(s)
    PROVE  CollaborationInv' /\ UNCHANGED file /\ Grows(file, file')
  <1>1. StoreGood' /\ Grows(file, file') /\ UNCHANGED file
    BY Unmoved DEF CollaborationInv, StoreGood, Moved, storeVars
  <1>2. DesksGood'
    BY <1>1, DeskStep DEF CollaborationInv
  <1>3. AckGood'
    BY <1>1 DEF AckGood
  <1>4. StraysGood'
    BY DEF CollaborationInv, DesksGood, Desk, StraysGood
  <1> QED
    BY <1>1, <1>2, <1>3, <1>4 DEF CollaborationInv

\* The next request of a client is sent.
LEMMA AskStep ==
    ASSUME CollaborationInv, NEW d \in Devices, NEW c, NEW q, Ask(d, c, q),
           UNCHANGED <<storeVars, reg, strays>>, acked' \subseteq file.replays,
           DOMAIN vault' = Devices, \A e \in Devices \ {d} : vault'[e] = vault[e],
           vault[d] \subseteq vault'[d], \A m \in vault'[d] : Home(file, m, d),
           wire[d].phase # "none", wire[d].phase = "active" => wire[d].who = c.member,
           q \in Requests, q.op # "join", q.op = "auth" => q.member = c.member,
           q.op \in {"auth", "sync"} \/ c.stage = "held",
           GoodClient(c), c.member \in vault'[d],
           c.stage \in {"connecting", "held"} => c.member = reg[d]
    PROVE  CollaborationInv' /\ UNCHANGED file /\ Grows(file, file')
  <1>1. DesksGood /\ Desk(file, d, client[d], wire[d], reg[d], vault[d])
    BY DEF CollaborationInv, DesksGood
  <1>2. GoodRequest(q) /\ q # None
    BY RequestsGood
  <1>3. PICK s, r, v : s = wire[d] /\ r = reg[d] /\ v = vault'[d]
    OBVIOUS
  <1>4. Stored(file, d, r, v) /\ GoodSession(s)
    BY <1>1, <1>3 DEF Desk, Stored
  <1>5. Desk(file, d, [c EXCEPT !.asking = q], [s EXCEPT !.request = q, !.reply = None], r, v)
    <2>1. /\ s.phase # "none" /\ (s.phase = "active" => s.who = c.member) /\ c.member \in v
          /\ c.stage \in {"connecting", "held"} => c.member = r
      BY <1>3
    <2> QED
      BY <1>2, <1>4, <2>1, DeskAsks
  <1>6. /\ client' = [client EXCEPT ![d] = [c EXCEPT !.asking = q]]
        /\ wire' = [wire EXCEPT ![d] = [@ EXCEPT !.request = q, !.reply = None]]
    BY DEF Ask
  <1>7. /\ client'[d] = [c EXCEPT !.asking = q] /\ DOMAIN client' = Devices
        /\ \A e \in Devices \ {d} : client'[e] = client[e]
    BY <1>1, <1>6 DEF DesksGood
  <1>8. /\ wire'[d] = [s EXCEPT !.request = q, !.reply = None] /\ DOMAIN wire' = Devices
        /\ \A e \in Devices \ {d} : wire'[e] = wire[e]
    BY <1>1, <1>3, <1>6 DEF DesksGood
  <1>9. Elsewhere(d)
    BY <1>1, <1>7, <1>8 DEF Elsewhere, DesksGood
  <1>10. Desk(file, d, client'[d], wire'[d], reg'[d], vault'[d])
    BY <1>3, <1>5, <1>7, <1>8
  <1> QED
    BY <1>9, <1>10, LocalStep

\* A client that waits for nothing is held, and acts for its registration.
LEMMA IdleClient ==
    ASSUME CollaborationInv, NEW d \in Devices, Idle(d)
    PROVE  /\ GoodClient(client[d]) /\ client[d].stage = "held"
           /\ client[d].member = reg[d] /\ client[d].member \in vault[d]
           /\ wire[d].phase = "active" => wire[d].who = client[d].member
           /\ client[d].view.ready => wire[d].phase # "none"
           /\ wire[d].request = None
  BY DEF CollaborationInv, DesksGood, Desk, Linked, Acting, Idle

\* A client that waits for a reply, and a reply that came.
LEMMA BusyClient ==
    ASSUME CollaborationInv, NEW d \in Devices, Busy(d)
    PROVE  /\ GoodClient(client[d]) /\ wire[d].phase # "none"
           /\ wire[d].phase = "active" => wire[d].who = client[d].member
           /\ client[d].asking.op = "join" => wire[d].phase # "active"
           /\ client[d].asking.op = "join" \/ client[d].member \in vault[d]
           /\ client[d].stage \in {"connecting", "held"} => client[d].member = reg[d]
           /\ client[d].asking.op \notin {"auth", "join", "sync"} => client[d].stage = "held"
           /\ wire[d].reply # None => wire[d].request = None
           /\ wire[d].reply # None /\ wire[d].reply.err = "none" =>
                 Fits(file, d, client[d].member, client[d].asking, wire[d].reply.value)
  BY DEF CollaborationInv, DesksGood, Desk, Linked, Acting, Busy, GoodSession

\* What a device has stored, and what was acknowledged.
LEMMA StoredFacts ==
    ASSUME CollaborationInv, NEW d \in Devices
    PROVE  /\ DOMAIN vault = Devices /\ DOMAIN reg = Devices
           /\ DOMAIN client = Devices /\ DOMAIN wire = Devices
           /\ Stored(file, d, reg[d], vault[d]) /\ \A m \in vault[d] : Home(file, m, d)
           /\ vault[d] \subseteq Members
           /\ acked \subseteq file.replays /\ GoodSession(wire[d])
  <1>1. DOMAIN file.members \subseteq Members
    BY BrainTypes DEF CollaborationInv, StoreGood, GoodBrain
  <1> QED
    BY <1>1 DEF CollaborationInv, DesksGood, Desk, Stored, Home, AckGood

\* A command of a connected desktop.
LEMMA CommandStep ==
    ASSUME CollaborationInv, NEW d \in Devices, NEW q \in Requests, q.op \notin {"auth", "join"},
           Command(d, q)
    PROVE  CollaborationInv' /\ UNCHANGED file /\ Grows(file, file')
  <1>1. /\ Idle(d) /\ wire[d].phase # "none" /\ Ask(d, client[d], q)
        /\ UNCHANGED <<storeVars, reg, vault, strays, acked>>
    BY DEF Command, localVars, history
  <1>2. PICK c : c = client[d]
    OBVIOUS
  <1>3. Ask(d, c, q)
    BY <1>1, <1>2
  <1>4. /\ GoodClient(c) /\ c.stage = "held" /\ c.member = reg[d] /\ c.member \in vault'[d]
        /\ wire[d].phase = "active" => wire[d].who = c.member
    BY <1>1, <1>2, IdleClient
  <1>5. /\ DOMAIN vault' = Devices /\ \A e \in Devices \ {d} : vault'[e] = vault[e]
        /\ vault[d] \subseteq vault'[d] /\ \A m \in vault'[d] : Home(file, m, d)
        /\ acked' \subseteq file.replays
    BY <1>1, StoredFacts
  <1>6. UNCHANGED <<storeVars, reg, strays>>
    BY <1>1
  <1> QED
    BY <1>1, <1>3, <1>4, <1>5, <1>6, AskStep

\* A sign of life is sent.
LEMMA PulseStep ==
    ASSUME CollaborationInv, NEW d \in Devices, Pulse(d)
    PROVE  CollaborationInv' /\ UNCHANGED file /\ Grows(file, file')
  <1>1. PICK q : q = [op |-> "pulse"]
    OBVIOUS
  <1>2. q \in Requests /\ q.op \notin {"auth", "join"}
    <2>1. q \in [op : {"pulse", "invite"}]
      BY <1>1
    <2> QED
      BY <1>1, <2>1 DEF Requests
  <1>3. Command(d, q)
    BY <1>1 DEF Pulse
  <1> QED
    BY <1>2, <1>3, CommandStep

\* An invitation is asked for.
LEMMA InviteStep ==
    ASSUME CollaborationInv, NEW d \in Devices, Invite(d)
    PROVE  CollaborationInv' /\ UNCHANGED file /\ Grows(file, file')
  <1>1. PICK q : q = [op |-> "invite"]
    OBVIOUS
  <1>2. q \in Requests /\ q.op \notin {"auth", "join"}
    <2>1. q \in [op : {"pulse", "invite"}]
      BY <1>1
    <2> QED
      BY <1>1, <2>1 DEF Requests
  <1>3. Command(d, q)
    BY <1>1 DEF Invite
  <1> QED
    BY <1>2, <1>3, CommandStep

\* An invitation is withdrawn.
LEMMA CancelInviteStep ==
    ASSUME CollaborationInv, NEW d \in Devices, NEW i \in Invites, CancelInvite(d, i)
    PROVE  CollaborationInv' /\ UNCHANGED file /\ Grows(file, file')
  <1>1. PICK q : q = [op |-> "cancel", invite |-> i]
    OBVIOUS
  <1>2. q \in Requests /\ q.op \notin {"auth", "join"}
    <2>1. q \in [op : {"cancel"}, invite : Invites]
      BY <1>1
    <2> QED
      BY <1>1, <2>1 DEF Requests
  <1>3. Command(d, q)
    BY <1>1 DEF CancelInvite
  <1> QED
    BY <1>2, <1>3, CommandStep

\* A member is revoked, at the revision its owner has seen.
LEMMA RevokeStep ==
    ASSUME CollaborationInv, NEW d \in Devices, NEW m \in Members, Revoke(d, m)
    PROVE  CollaborationInv' /\ UNCHANGED file /\ Grows(file, file')
  <1>1. PICK q, k : k = client[d].view.rev /\ q = [op |-> "revoke", member |-> m, rev |-> k]
    OBVIOUS
  <1>2. k \in Nat
    BY <1>1, IdleClient DEF Revoke, GoodClient, GoodView
  <1>3. q \in Requests /\ q.op \notin {"auth", "join"}
    <2>1. q \in [op : {"revoke"}, member : Members, rev : Nat]
      BY <1>1, <1>2
    <2> QED
      BY <1>1, <2>1 DEF Requests
  <1>4. Command(d, q)
    BY <1>1 DEF Revoke
  <1> QED
    BY <1>3, <1>4, CommandStep

\* A message is queued, and sent when the view is current.
LEMMA SubmitStep ==
    ASSUME CollaborationInv, NEW d \in Devices, NEW key \in Keys, NEW payload \in Payloads,
           Submit(d, key, payload)
    PROVE  CollaborationInv' /\ UNCHANGED file /\ Grows(file, file')
  <1> DEFINE w == client[d].view
             c == [client[d] EXCEPT !.view = Queued(@, key, payload)]
  <1>1. Idle(d) /\ UNCHANGED <<storeVars, reg, vault, strays, acked>>
    BY DEF Submit, localVars, history
  <1>2. /\ GoodClient(client[d]) /\ client[d].stage = "held"
        /\ client[d].member = reg[d] /\ client[d].member \in vault[d]
        /\ wire[d].phase = "active" => wire[d].who = client[d].member
        /\ client[d].view.ready => wire[d].phase # "none"
        /\ wire[d].request = None
    BY <1>1, IdleClient
  <1>3. PICK u : u = Queued(w, key, payload)
    OBVIOUS
  <1>4. /\ GoodView(u) /\ u.ready = w.ready /\ u.rev = w.rev
        /\ u.pending = [key |-> key, payload |-> payload]
    BY <1>2, <1>3, QueuedView DEF GoodClient
  <1>5. PICK c0 : c0 = client[d]
    OBVIOUS
  <1>6. PICK c1 : c1 = c
    OBVIOUS
  <1>7. /\ c1.member = c0.member /\ c1.view = u /\ c1.stage = c0.stage /\ c1.asking = c0.asking
        /\ c1 = [member |-> c1.member, view |-> c1.view, stage |-> c1.stage, asking |-> c1.asking]
    <2>1. c1 = [c0 EXCEPT !.view = u]
      BY <1>3, <1>5, <1>6
    <2>2. c0 = [member |-> c0.member, view |-> c0.view, stage |-> c0.stage, asking |-> c0.asking]
      BY <1>2, <1>5 DEF GoodClient
    <2>3. c1 = [member |-> c0.member, view |-> u, stage |-> c0.stage, asking |-> c0.asking]
      BY <2>1, <2>2
    <2> QED
      BY <2>3
  <1>8. GoodClient(c1)
    BY <1>2, <1>4, <1>5, <1>7 DEF GoodClient
  <1>9. /\ DOMAIN vault' = Devices /\ \A e \in Devices \ {d} : vault'[e] = vault[e]
        /\ vault[d] \subseteq vault'[d] /\ \A m \in vault'[d] : Home(file, m, d)
        /\ acked' \subseteq file.replays
    BY <1>1, StoredFacts
  <1>10. CASE CanSend(c1.view)
    <2>1. PICK msg : msg = Outgoing(u)
      OBVIOUS
    <2>2. msg \in Messages
      <3>1. u.rev \in Nat
        BY <1>4 DEF GoodView
      <3> QED
        BY <1>4, <2>1, <3>1 DEF Outgoing, Messages
    <2>3. PICK q : q = [op |-> "submit", msg |-> msg]
      OBVIOUS
    <2>4. q \in Requests /\ q.op = "submit"
      <3>1. q \in [op : {"submit"}, msg : Messages]
        BY <2>2, <2>3
      <3> QED
        BY <2>3, <3>1 DEF Requests
    <2>5. Ask(d, c1, q)
      BY <1>6, <1>7, <1>10, <2>1, <2>3 DEF Submit
    <2>6. wire[d].phase # "none"
      BY <1>2, <1>4, <1>7, <1>10 DEF CanSend
    <2>7. /\ c1.stage = "held" /\ c1.member = reg[d] /\ c1.member \in vault'[d]
          /\ wire[d].phase = "active" => wire[d].who = c1.member
      BY <1>1, <1>2, <1>5, <1>7
    <2>8. UNCHANGED <<storeVars, reg, strays>>
      BY <1>1
    <2> QED
      BY <1>8, <1>9, <2>4, <2>5, <2>6, <2>7, <2>8, AskStep
  <1>11. CASE ~CanSend(c1.view)
    <2>1. client' = [client EXCEPT ![d] = c1] /\ UNCHANGED wire
      BY <1>6, <1>11 DEF Submit
    <2> HIDE DEF c, w
    <2>2. /\ client'[d] = c1 /\ DOMAIN client' = Devices
          /\ \A e \in Devices \ {d} : client'[e] = client[e]
      BY <2>1, StoredFacts
    <2>3. Elsewhere(d)
      BY <1>1, <2>1, <2>2, StoredFacts DEF Elsewhere
    <2>4. Linked(file, d, c1, wire[d])
      <3>1. c1.asking = None
        BY <1>1, <1>5, <1>7 DEF Idle
      <3> QED
        BY <1>2, <1>4, <1>5, <1>7, <3>1 DEF Linked, w
    <2>5. Acting(c1, reg[d], vault[d])
      BY <1>1, <1>2, <1>5, <1>7 DEF Acting, Idle
    <2>6. Desk(file, d, c1, wire[d], reg[d], vault[d])
      BY <1>8, <2>4, <2>5, StoredFacts DEF Desk
    <2>7. Desk(file, d, client'[d], wire'[d], reg'[d], vault'[d])
      BY <1>1, <2>1, <2>2, <2>6
    <2>8. \A s \in strays' \ strays : s = wire[d] /\ Waiting(s)
      BY <1>1
    <2>9. UNCHANGED storeVars
      BY <1>1
    <2> QED
      BY <1>9, <2>3, <2>7, <2>8, <2>9, LocalStep
  <1> QED
    BY <1>10, <1>11

\* A new client is good.
LEMMA NewClientGood ==
    ASSUME NEW m, NEW stage \in Stages, NEW q, NEW c, c = NewClient(m, stage, q)
    PROVE  /\ GoodClient(c) /\ c.member = m /\ c.stage = stage /\ c.asking = q
           /\ c.view = NewView
  <1>1. PICK w : w = NewView
    OBVIOUS
  <1>2. c = [member |-> m, view |-> w, stage |-> stage, asking |-> q]
    BY <1>1 DEF NewClient
  <1> QED
    BY <1>1, <1>2, NewViewGood DEF GoodClient

\* A connection is opened with the first request of a client.
LEMMA OpenStep ==
    ASSUME CollaborationInv, NEW d \in Devices, NEW c, NEW q,
           client' = [client EXCEPT ![d] = c], wire' = [wire EXCEPT ![d] = Opened(q)],
           DOMAIN reg' = Devices, \A e \in Devices \ {d} : reg'[e] = reg[e],
           UNCHANGED <<storeVars, vault, strays, acked>>,
           Stored(file, d, reg'[d], vault[d]),
           q \in Requests, q.op \in {"auth", "join"}, GoodClient(c), c.asking = q,
           Acting(c, reg'[d], vault[d]),
           q.op = "auth" => q.member = c.member,
           q.op = "join" => q.device = d
    PROVE  CollaborationInv' /\ UNCHANGED file /\ Grows(file, file')
  <1>1. PICK s, r, v : s = Opened(q) /\ r = reg'[d] /\ v = vault[d]
    OBVIOUS
  <1>2. Desk(file, d, c, Opened(q), r, v)
    BY <1>1, RequestsGood, DeskOpens
  <1>3. /\ client'[d] = c /\ DOMAIN client' = Devices
        /\ \A e \in Devices \ {d} : client'[e] = client[e]
    BY StoredFacts
  <1>4. /\ wire'[d] = s /\ DOMAIN wire' = Devices
        /\ \A e \in Devices \ {d} : wire'[e] = wire[e]
    BY <1>1, StoredFacts
  <1>5. Elsewhere(d)
    BY <1>3, <1>4, StoredFacts DEF Elsewhere
  <1>6. Desk(file, d, client'[d], wire'[d], reg'[d], vault'[d])
    BY <1>1, <1>2, <1>3, <1>4
  <1>7. acked' \subseteq file.replays /\ vault[d] \subseteq vault'[d] /\ UNCHANGED storeVars
    BY StoredFacts
  <1>8. \A t \in strays' \ strays : t = wire[d] /\ Waiting(t)
    OBVIOUS
  <1> QED
    BY <1>5, <1>6, <1>7, <1>8, LocalStep

\* A device registers and asks to join.
LEMMA StartJoinStep ==
    ASSUME CollaborationInv, NEW d \in Devices, NEW i \in Invites, StartJoin(d, i)
    PROVE  CollaborationInv' /\ UNCHANGED file /\ Grows(file, file')
  <1>1. PICK q : q = [op |-> "join", invite |-> i, device |-> d]
    OBVIOUS
  <1>2. q \in Requests /\ q.op = "join" /\ q.device = d
    <2>1. q \in [op : {"join"}, invite : Invites, device : Devices]
      BY <1>1
    <2> QED
      BY <1>1, <2>1 DEF Requests
  <1>3. /\ client[d] = None /\ reg' = [reg EXCEPT ![d] = "begun"]
        /\ UNCHANGED <<storeVars, vault, strays, acked>>
    BY DEF StartJoin, history
  <1>4. reg'[d] = "begun" /\ DOMAIN reg' = Devices /\ \A e \in Devices \ {d} : reg'[e] = reg[e]
    BY <1>3, StoredFacts
  <1>5. Stored(file, d, reg'[d], vault[d])
    BY <1>4, StoredFacts, CollaborationAssumption DEF CollaborationAssumption, Stored
  <1>6. CASE /\ client' = [client EXCEPT ![d] = NewClient(None, "joining", q)]
             /\ wire' = [wire EXCEPT ![d] = Opened(q)]
    <2>1. PICK c : c = NewClient(None, "joining", q)
      OBVIOUS
    <2>2. GoodClient(c) /\ c.stage = "joining" /\ c.asking = q
      BY <2>1, NewClientGood DEF Stages
    <2>3. Acting(c, reg'[d], vault[d])
      BY <1>2, <2>2, RequestsGood DEF Acting
    <2>4. client' = [client EXCEPT ![d] = c] /\ wire' = [wire EXCEPT ![d] = Opened(q)]
      BY <1>6, <2>1
    <2> QED
      BY <1>2, <1>3, <1>4, <1>5, <2>2, <2>3, <2>4, OpenStep
  <1>7. CASE UNCHANGED <<client, wire>>
    <2>1. Elsewhere(d)
      BY <1>3, <1>4, <1>7, StoredFacts DEF Elsewhere
    <2>2. Desk(file, d, client'[d], wire'[d], reg'[d], vault'[d])
      BY <1>3, <1>5, <1>7, StoredFacts DEF Desk
    <2>3. acked' \subseteq file.replays /\ vault[d] \subseteq vault'[d] /\ UNCHANGED storeVars
      BY <1>3, StoredFacts
    <2>4. \A t \in strays' \ strays : t = wire[d] /\ Waiting(t)
      BY <1>3
    <2> QED
      BY <2>1, <2>2, <2>3, <2>4, LocalStep
  <1> QED
    BY <1>1, <1>6, <1>7 DEF StartJoin

\* The owner's desktop connects to its own Brain.
LEMMA StartOwnerStep ==
    ASSUME CollaborationInv, StartOwner
    PROVE  CollaborationInv' /\ UNCHANGED file /\ Grows(file, file')
  <1>1. PICK d, q : d = OwnerDevice /\ q = [op |-> "auth", member |-> Owner]
    OBVIOUS
  <1>2. d \in Devices /\ Owner \in vault[d]
    BY <1>1, Limits DEF CollaborationInv, DesksGood
  <1>3. q \in Requests /\ q.op = "auth" /\ q.member = Owner
    <2>1. q \in [op : {"auth"}, member : Members]
      BY <1>1, Limits
    <2> QED
      BY <1>1, <2>1 DEF Requests
  <1>4. PICK c : c = NewClient(Owner, "owner", q)
    OBVIOUS
  <1>5. GoodClient(c) /\ c.stage = "owner" /\ c.asking = q /\ c.member = Owner
    BY <1>4, NewClientGood DEF Stages
  <1>6. /\ client' = [client EXCEPT ![d] = c] /\ wire' = [wire EXCEPT ![d] = Opened(q)]
        /\ UNCHANGED <<storeVars, reg, vault, strays, acked>>
    BY <1>1, <1>4 DEF StartOwner, localVars, history
  <1>7. /\ DOMAIN reg' = Devices /\ \A e \in Devices \ {d} : reg'[e] = reg[e]
        /\ Stored(file, d, reg'[d], vault[d])
    BY <1>2, <1>6, StoredFacts
  <1>8. Acting(c, reg'[d], vault[d])
    BY <1>2, <1>3, <1>5, RequestsGood DEF Acting
  <1>9. UNCHANGED <<storeVars, vault, strays, acked>>
    BY <1>6
  <1> QED
    BY <1>2, <1>3, <1>5, <1>6, <1>7, <1>8, <1>9, OpenStep

\* A client whose view changes, and what it asks for.
Changed(c, w, q) == [c EXCEPT !.view = w, !.asking = q]

\* It is still a good one.
LEMMA ClientChanges ==
    ASSUME NEW c, GoodClient(c), NEW w, GoodView(w), NEW q
    PROVE  /\ GoodClient(Changed(c, w, q)) /\ Changed(c, w, q).member = c.member
           /\ Changed(c, w, q).stage = c.stage
           /\ Changed(c, w, q).view = w /\ Changed(c, w, q).asking = q
  <1>0. PICK e : e = Changed(c, w, q)
    OBVIOUS
  <1>1. c = [member |-> c.member, view |-> c.view, stage |-> c.stage, asking |-> c.asking]
    BY DEF GoodClient
  <1>2. e = [member |-> c.member, view |-> w, stage |-> c.stage, asking |-> q]
    BY <1>0, <1>1 DEF Changed
  <1> QED
    BY <1>0, <1>2 DEF GoodClient

\* A desktop connects with the credential of its registration.
LEMMA ReconnectStep ==
    ASSUME CollaborationInv, NEW d \in Devices, Reconnect(d)
    PROVE  CollaborationInv' /\ UNCHANGED file /\ Grows(file, file')
  <1>1. PICK m, q : m = reg[d] /\ q = [op |-> "auth", member |-> m]
    OBVIOUS
  <1>2. m \in vault[d] /\ m \in Members
    BY <1>1, StoredFacts DEF Reconnect
  <1>3. q \in Requests /\ q.op = "auth" /\ q.member = m
    <2>1. q \in [op : {"auth"}, member : Members]
      BY <1>1, <1>2
    <2> QED
      BY <1>1, <2>1 DEF Requests
  <1>4. wire' = [wire EXCEPT ![d] = Opened(q)] /\ UNCHANGED <<storeVars, reg, vault, strays, acked>>
    BY <1>1 DEF Reconnect, localVars, history
  <1>5. /\ DOMAIN reg' = Devices /\ \A e \in Devices \ {d} : reg'[e] = reg[e]
        /\ Stored(file, d, reg'[d], vault[d]) /\ reg'[d] = m
    BY <1>1, <1>4, StoredFacts
  <1>6. UNCHANGED <<storeVars, vault, strays, acked>>
    BY <1>4
  <1>7. CASE client' = [client EXCEPT ![d] = NewClient(m, "connecting", q)]
    <2>1. PICK c : c = NewClient(m, "connecting", q)
      OBVIOUS
    <2>2. GoodClient(c) /\ c.stage = "connecting" /\ c.asking = q /\ c.member = m
      BY <2>1, NewClientGood DEF Stages
    <2>3. Acting(c, reg'[d], vault[d])
      BY <1>2, <1>3, <1>5, <2>2, RequestsGood DEF Acting
    <2>4. client' = [client EXCEPT ![d] = c]
      BY <1>7, <2>1
    <2> QED
      BY <1>3, <1>4, <1>5, <1>6, <2>2, <2>3, <2>4, OpenStep
  <1>8. CASE /\ Idle(d)
             /\ client' = [client EXCEPT ![d] = [client[d] EXCEPT !.view = Disconnected(@),
                                                                 !.asking = q]]
    <2>1. /\ GoodClient(client[d]) /\ client[d].stage = "held"
          /\ client[d].member = reg[d] /\ client[d].member \in vault[d]
      BY <1>8, IdleClient
    <2>2. PICK c0, w : c0 = client[d] /\ w = Disconnected(c0.view)
      OBVIOUS
    <2>a. PICK c : c = Changed(c0, w, q)
      OBVIOUS
    <2>3. GoodView(w) /\ GoodClient(c0)
      BY <2>1, <2>2, DisconnectedView DEF GoodClient
    <2>4. GoodClient(c) /\ c.member = c0.member /\ c.stage = c0.stage /\ c.asking = q
      BY <2>3, <2>a, ClientChanges
    <2>b. [client[d] EXCEPT !.view = Disconnected(@), !.asking = q] = c
      BY <2>2, <2>a DEF Changed
    <2>5. Acting(c, reg'[d], vault[d])
      BY <1>1, <1>3, <1>5, <2>1, <2>2, <2>4, RequestsGood DEF Acting
    <2>6. client' = [client EXCEPT ![d] = c]
      BY <1>8, <2>b
    <2> QED
      BY <1>1, <1>3, <1>4, <1>5, <1>6, <2>1, <2>2, <2>4, <2>5, <2>6, OpenStep, ZenonT(40)
  <1> QED
    BY <1>1, <1>7, <1>8 DEF Reconnect

\* A desktop disconnects.
LEMMA DisconnectStep ==
    ASSUME CollaborationInv, NEW d \in Devices, Disconnect(d)
    PROVE  CollaborationInv' /\ UNCHANGED file /\ Grows(file, file')
  <1>1. /\ Idle(d) /\ client' = [client EXCEPT ![d].view = Disconnected(@)]
        /\ wire' = [wire EXCEPT ![d] = Unconnected]
        /\ UNCHANGED <<storeVars, reg, vault, strays, acked>>
    BY DEF Disconnect, localVars, history
  <1>2. /\ GoodClient(client[d]) /\ client[d].stage = "held" /\ client[d].member \in vault[d]
        /\ client[d] # None /\ client[d].asking = None
    BY <1>1, IdleClient DEF Idle
  <1>3. PICK c, s, r, v : c = client[d] /\ s = wire[d] /\ r = reg[d] /\ v = vault[d]
    OBVIOUS
  <1>4. PICK c2 : c2 = [c EXCEPT !.view = Disconnected(@)]
    OBVIOUS
  <1>5. c2 = [c EXCEPT !.view = Disconnected(@), !.asking = None]
    <2>1. PICK w : w = Disconnected(c.view)
      OBVIOUS
    <2>2. PICK a, x, y : c = [member |-> a, view |-> x, stage |-> y, asking |-> None]
      BY <1>2, <1>3 DEF GoodClient
    <2>3. c2 = [member |-> a, view |-> w, stage |-> y, asking |-> None]
      <3>1. c2 = [c EXCEPT !.view = w]
        BY <1>4, <2>1
      <3> QED
        BY <2>2, <3>1
    <2>4. [c EXCEPT !.view = Disconnected(@), !.asking = None]
            = [member |-> a, view |-> w, stage |-> y, asking |-> None]
      <3>1. PICK z : z = [c EXCEPT !.view = Disconnected(@), !.asking = None]
        OBVIOUS
      <3>a. z = [c EXCEPT !.view = w, !.asking = None]
        BY <2>1, <3>1
      <3>2. z = [member |-> a, view |-> w, stage |-> y, asking |-> None]
        BY <2>2, <3>a
      <3> QED
        BY <3>1, <3>2
    <2> QED
      BY <2>3, <2>4
  <1>6. Desk(file, d, c, s, r, v)
    BY <1>3 DEF CollaborationInv, DesksGood
  <1>7. Desk(file, d, c2, Unconnected, r, v)
    BY <1>2, <1>3, <1>5, <1>6, DeskDisconnected
  <1>8. /\ client'[d] = c2 /\ DOMAIN client' = Devices
        /\ \A e \in Devices \ {d} : client'[e] = client[e]
    BY <1>1, <1>3, <1>4, StoredFacts
  <1>9. /\ wire'[d] = Unconnected /\ DOMAIN wire' = Devices
        /\ \A e \in Devices \ {d} : wire'[e] = wire[e]
    BY <1>1, StoredFacts
  <1>10. Elsewhere(d)
    BY <1>1, <1>8, <1>9, StoredFacts DEF Elsewhere
  <1>11. Desk(file, d, client'[d], wire'[d], reg'[d], vault'[d])
    BY <1>1, <1>3, <1>7, <1>8, <1>9
  <1>12. acked' \subseteq file.replays /\ vault[d] \subseteq vault'[d] /\ UNCHANGED storeVars
    BY <1>1, StoredFacts
  <1>13. \A t \in strays' \ strays : t = wire[d] /\ Waiting(t)
    BY <1>1
  <1> QED
    BY <1>10, <1>11, <1>12, <1>13, LocalStep

\* What a client knows when a reply came.
LEMMA ReplyCame ==
    ASSUME CollaborationInv, NEW d \in Devices, NEW op, Got(d, op)
    PROVE  /\ Busy(d) /\ client[d].asking.op = op
           /\ GoodClient(client[d]) /\ wire[d].phase # "none"
           /\ wire[d].phase = "active" => wire[d].who = client[d].member
           /\ op = "join" => wire[d].phase # "active"
           /\ op = "join" \/ client[d].member \in vault[d]
           /\ client[d].stage \in {"connecting", "held"} => client[d].member = reg[d]
           /\ op \notin {"auth", "join", "sync"} => client[d].stage = "held"
           /\ wire[d].request = None
           /\ Fits(file, d, client[d].member, client[d].asking, Value(d))
  BY BusyClient DEF Got, Value

\* The credential of a new member is stored, and it authenticates.
LEMMA JoinedStep ==
    ASSUME CollaborationInv, NEW d \in Devices, Joined(d)
    PROVE  CollaborationInv' /\ UNCHANGED file /\ Grows(file, file')
  <1>1. PICK m, q : m = Value(d) /\ q = [op |-> "auth", member |-> m]
    OBVIOUS
  <1>2. PICK c0 : c0 = client[d]
    OBVIOUS
  <1>3. PICK c : c = [c0 EXCEPT !.member = m]
    OBVIOUS
  <1>4. /\ Got(d, "join") /\ vault' = [vault EXCEPT ![d] = @ \cup {m}] /\ Ask(d, c, q)
        /\ UNCHANGED <<storeVars, reg, strays, acked>>
    BY <1>1, <1>2, <1>3 DEF Joined, history
  <1>5. Home(file, m, d)
    BY <1>1, <1>4, ReplyCame DEF Fits
  <1>6. m \in Members
    BY <1>5, BrainTypes DEF Home, CollaborationInv, StoreGood, GoodBrain
  <1>7. q \in Requests /\ q.op = "auth" /\ q.member = m
    <2>1. q \in [op : {"auth"}, member : Members]
      BY <1>1, <1>6
    <2> QED
      BY <1>1, <2>1 DEF Requests
  <1>8. GoodClient(c) /\ c.member = m /\ c.stage = c0.stage
    <2>1. GoodClient(c0)
      BY <1>2, <1>4, ReplyCame
    <2>2. c0 = [member |-> c0.member, view |-> c0.view, stage |-> c0.stage, asking |-> c0.asking]
      BY <2>1 DEF GoodClient
    <2>3. c = [member |-> m, view |-> c0.view, stage |-> c0.stage, asking |-> c0.asking]
      BY <1>3, <2>2
    <2> QED
      BY <2>1, <2>3 DEF GoodClient
  <1>9. c0.stage = "joining"
    BY <1>2, <1>4 DEF CollaborationInv, DesksGood, Desk, Acting, Got, Busy
  <1>10. /\ DOMAIN vault' = Devices /\ \A e \in Devices \ {d} : vault'[e] = vault[e]
         /\ vault'[d] = vault[d] \cup {m} /\ acked' \subseteq file.replays
         /\ \A n \in vault'[d] : Home(file, n, d)
    BY <1>4, <1>5, StoredFacts
  <1>11. /\ wire[d].phase # "none" /\ wire[d].phase # "active"
    BY <1>4, ReplyCame
  <1>12. vault[d] \subseteq vault'[d] /\ c.member \in vault'[d] /\ UNCHANGED <<storeVars, reg, strays>>
    BY <1>4, <1>8, <1>10
  <1> QED
    BY <1>4, <1>7, <1>8, <1>9, <1>10, <1>11, <1>12, AskStep

\* The changes are read on the open connection.
LEMMA SyncStep ==
    ASSUME CollaborationInv, NEW d \in Devices, NEW c, AskSync(d, c),
           UNCHANGED <<storeVars, reg, vault, strays>>, acked' \subseteq file.replays,
           wire[d].phase # "none", wire[d].phase = "active" => wire[d].who = c.member,
           GoodClient(c), c.member \in vault[d],
           c.stage \in {"connecting", "held"} => c.member = reg[d]
    PROVE  CollaborationInv' /\ UNCHANGED file /\ Grows(file, file')
  <1>1. PICK q : q = [op |-> "sync", page |-> ReconcileRequest(c.view)]
    OBVIOUS
  <1>2. Ask(d, c, q)
    BY <1>1 DEF AskSync
  <1>3. q \in Requests /\ q.op = "sync"
    BY <1>1, SyncRequest DEF GoodClient
  <1>4. /\ DOMAIN vault' = Devices /\ \A e \in Devices \ {d} : vault'[e] = vault[e]
        /\ vault[d] \subseteq vault'[d] /\ \A m \in vault'[d] : Home(file, m, d)
        /\ c.member \in vault'[d] /\ UNCHANGED <<storeVars, reg, strays>>
    BY StoredFacts
  <1> QED
    BY <1>2, <1>3, <1>4, AskStep

\* An answer that is followed by reading the changes.
LEMMA ThenReadsStep ==
    ASSUME CollaborationInv, NEW d \in Devices, ThenReads(d)
    PROVE  CollaborationInv' /\ UNCHANGED file /\ Grows(file, file')
  <1>1. PICK op \in {"auth", "pulse", "cancel", "revoke"} : Got(d, op)
    BY DEF ThenReads
  <1>2. AskSync(d, client[d]) /\ UNCHANGED <<storeVars, reg, vault, strays, acked>>
    BY DEF ThenReads, localVars
  <1>3. PICK c : c = client[d]
    OBVIOUS
  <1>4. /\ AskSync(d, c) /\ GoodClient(c) /\ wire[d].phase # "none"
        /\ wire[d].phase = "active" => wire[d].who = c.member
        /\ c.member \in vault[d]
        /\ c.stage \in {"connecting", "held"} => c.member = reg[d]
    BY <1>1, <1>2, <1>3, ReplyCame
  <1>5. UNCHANGED <<storeVars, reg, vault, strays>> /\ acked' \subseteq file.replays
    BY <1>2, StoredFacts
  <1> QED
    BY <1>4, <1>5, SyncStep

\* An invitation arrived.
LEMMA InviteReceivedStep ==
    ASSUME CollaborationInv, NEW d \in Devices, InviteReceived(d)
    PROVE  CollaborationInv' /\ UNCHANGED file /\ Grows(file, file')
  <1>1. /\ Got(d, "invite") /\ client' = [client EXCEPT ![d].asking = None]
        /\ UNCHANGED <<storeVars, reg, vault, wire, strays, acked>>
    BY DEF InviteReceived, localVars
  <1>2. PICK c0, w : c0 = client[d] /\ w = c0.view
    OBVIOUS
  <1>3. PICK c : c = Changed(c0, w, None)
    OBVIOUS
  <1>4. /\ GoodClient(c0) /\ GoodView(w) /\ c0.stage = "held" /\ c0.member = reg[d]
        /\ c0.member \in vault[d] /\ wire[d].request = None /\ wire[d].phase # "none"
        /\ wire[d].phase = "active" => wire[d].who = c0.member
    BY <1>1, <1>2, ReplyCame DEF GoodClient
  <1>5. GoodClient(c) /\ c.member = c0.member /\ c.stage = c0.stage /\ c.view = w /\ c.asking = None
    BY <1>3, <1>4, ClientChanges
  <1>6. [c0 EXCEPT !.asking = None] = c
    <2>1. PICK a, x, y, z : c0 = [member |-> a, view |-> x, stage |-> y, asking |-> z] /\ x = w
      BY <1>2, <1>4 DEF GoodClient
    <2>2. c = [member |-> a, view |-> x, stage |-> y, asking |-> None]
      BY <1>3, <2>1 DEF Changed
    <2>3. PICK u : u = [c0 EXCEPT !.asking = None]
      OBVIOUS
    <2>4. u = [member |-> a, view |-> x, stage |-> y, asking |-> None]
      BY <2>1, <2>3
    <2> QED
      BY <2>2, <2>3, <2>4
  <1>7. /\ client'[d] = c /\ DOMAIN client' = Devices
        /\ \A e \in Devices \ {d} : client'[e] = client[e]
    BY <1>1, <1>2, <1>6, StoredFacts
  <1>8. Elsewhere(d)
    BY <1>1, <1>7, StoredFacts DEF Elsewhere
  <1>9. Linked(file, d, c, wire[d]) /\ Acting(c, reg[d], vault[d])
    BY <1>4, <1>5 DEF Linked, Acting
  <1>10. Desk(file, d, client'[d], wire'[d], reg'[d], vault'[d])
    BY <1>1, <1>5, <1>7, <1>9, StoredFacts DEF Desk
  <1>11. acked' \subseteq file.replays /\ vault[d] \subseteq vault'[d] /\ UNCHANGED storeVars
    BY <1>1, StoredFacts
  <1>12. \A t \in strays' \ strays : t = wire[d] /\ Waiting(t)
    BY <1>1
  <1> QED
    BY <1>8, <1>10, <1>11, <1>12, LocalStep

\* A message is acknowledged: its record is in the file.
LEMMA SubmitAcknowledgedStep ==
    ASSUME CollaborationInv, NEW d \in Devices, SubmitAcknowledged(d)
    PROVE  CollaborationInv' /\ UNCHANGED file /\ Grows(file, file')
  <1>1. PICK c0, w : c0 = client[d] /\ w = Acknowledged(c0.view)
    OBVIOUS
  <1>2. PICK c : c = [c0 EXCEPT !.view = w]
    OBVIOUS
  <1>3. /\ Got(d, "submit")
        /\ acked' = acked \cup {[node |-> c0.member, key |-> c0.asking.msg.key,
                                 payload |-> c0.asking.msg.payload, rev |-> Value(d)]}
        /\ AskSync(d, [c0 EXCEPT !.view = Acknowledged(@)])
        /\ UNCHANGED <<storeVars, reg, vault, strays>>
    BY <1>1 DEF SubmitAcknowledged, localVars
  <1>4. /\ GoodClient(c0) /\ c0.stage = "held" /\ c0.member = reg[d] /\ c0.asking.op = "submit"
        /\ c0.member \in vault[d] /\ wire[d].phase # "none"
        /\ wire[d].phase = "active" => wire[d].who = c0.member
        /\ Fits(file, d, c0.member, c0.asking, Value(d))
    BY <1>1, <1>3, ReplyCame
  <1>5. acked' \subseteq file.replays
    BY <1>3, <1>4, StoredFacts DEF Fits
  <1>6. GoodView(w)
    BY <1>1, <1>4, AcknowledgedView DEF GoodClient
  <1>7. GoodClient(c) /\ c.member = c0.member /\ c.stage = c0.stage
    <2>1. PICK a, x, y, z : c0 = [member |-> a, view |-> x, stage |-> y, asking |-> z]
      BY <1>4 DEF GoodClient
    <2>2. c = [member |-> a, view |-> w, stage |-> y, asking |-> z]
      BY <1>2, <2>1
    <2> QED
      BY <1>4, <1>6, <2>1, <2>2 DEF GoodClient
  <1>8. [c0 EXCEPT !.view = Acknowledged(@)] = c
    BY <1>1, <1>2
  <1>9. AskSync(d, c)
    BY <1>3, <1>8
  <1>10. /\ c.member \in vault[d] /\ (wire[d].phase = "active" => wire[d].who = c.member)
         /\ c.stage \in {"connecting", "held"} => c.member = reg[d]
    BY <1>4, <1>7
  <1> QED
    BY <1>3, <1>4, <1>5, <1>7, <1>9, <1>10, SyncStep

\* A page that is not the last.
LEMMA NextPageStep ==
    ASSUME CollaborationInv, NEW d \in Devices, NextPage(d)
    PROVE  CollaborationInv' /\ UNCHANGED file /\ Grows(file, file')
  <1>1. PICK c0, a : c0 = client[d] /\ a = Accepted(d)
    OBVIOUS
  <1>2. PICK w, c : w = a.view /\ c = [c0 EXCEPT !.view = w]
    OBVIOUS
  <1>3. /\ Got(d, "sync") /\ a.ok /\ AskSync(d, c)
        /\ UNCHANGED <<storeVars, reg, vault, strays, acked>>
    BY <1>1, <1>2 DEF NextPage, localVars, history
  <1>4. /\ GoodClient(c0) /\ c0.asking.op = "sync"
        /\ c0.member \in vault[d] /\ wire[d].phase # "none"
        /\ wire[d].phase = "active" => wire[d].who = c0.member
        /\ c0.stage \in {"connecting", "held"} => c0.member = reg[d]
        /\ Fits(file, d, c0.member, c0.asking, Value(d))
    BY <1>1, <1>3, ReplyCame
  <1>5. GoodView(w)
    <2>1. PICK p : p = Value(d)
      OBVIOUS
    <2>2. a = AcceptPage(c0.view, c0.member, d, p) /\ p.at \in Nat
      BY <1>1, <1>4, <2>1 DEF Accepted, Fits
    <2> QED
      BY <1>2, <1>3, <1>4, <2>2, AcceptedView DEF GoodClient
  <1>6. GoodClient(c) /\ c.member = c0.member /\ c.stage = c0.stage
    <2>1. PICK m, x, y, z : c0 = [member |-> m, view |-> x, stage |-> y, asking |-> z]
      BY <1>4 DEF GoodClient
    <2>2. c = [member |-> m, view |-> w, stage |-> y, asking |-> z]
      BY <1>2, <2>1
    <2> QED
      BY <1>4, <1>5, <2>1, <2>2 DEF GoodClient
  <1>7. /\ c.member \in vault[d] /\ (wire[d].phase = "active" => wire[d].who = c.member)
        /\ c.stage \in {"connecting", "held"} => c.member = reg[d]
        /\ UNCHANGED <<storeVars, reg, vault, strays>> /\ acked' \subseteq file.replays
    BY <1>3, <1>4, <1>6, StoredFacts
  <1> QED
    BY <1>3, <1>4, <1>6, <1>7, SyncStep

\* The last page: a registration is completed.
LEMMA LastPageStep ==
    ASSUME CollaborationInv, NEW d \in Devices, LastPage(d)
    PROVE  CollaborationInv' /\ UNCHANGED file /\ Grows(file, file')
  <1>1. PICK c0, a : c0 = client[d] /\ a = Accepted(d)
    OBVIOUS
  <1>2. PICK w : w = a.view
    OBVIOUS
  <1>3. PICK c : c = [c0 EXCEPT !.view = w, !.stage = "held", !.asking = None]
    OBVIOUS
  <1>4. /\ Got(d, "sync") /\ a.ok /\ client' = [client EXCEPT ![d] = c]
        /\ reg' = IF c0.stage \in {"joining", "owner"} THEN [reg EXCEPT ![d] = c0.member] ELSE reg
        /\ UNCHANGED <<storeVars, vault, wire, strays, acked>>
    BY <1>1, <1>2, <1>3 DEF LastPage, history
  <1>5. /\ GoodClient(c0) /\ c0.asking.op = "sync"
        /\ c0.member \in vault[d] /\ wire[d].phase # "none" /\ wire[d].request = None
        /\ wire[d].phase = "active" => wire[d].who = c0.member
        /\ c0.stage \in {"connecting", "held"} => c0.member = reg[d]
        /\ Fits(file, d, c0.member, c0.asking, Value(d))
    BY <1>1, <1>4, ReplyCame
  <1>6. GoodView(w)
    <2>1. PICK p : p = Value(d)
      OBVIOUS
    <2>2. a = AcceptPage(c0.view, c0.member, d, p) /\ p.at \in Nat
      BY <1>1, <1>5, <2>1 DEF Accepted, Fits
    <2> QED
      BY <1>2, <1>4, <1>5, <2>2, AcceptedView DEF GoodClient
  <1>7. GoodClient(c) /\ c.member = c0.member /\ c.stage = "held" /\ c.asking = None
    <2>1. PICK m, x, y, z : c0 = [member |-> m, view |-> x, stage |-> y, asking |-> z]
      BY <1>5 DEF GoodClient
    <2>2. c = [member |-> m, view |-> w, stage |-> "held", asking |-> None]
      BY <1>3, <2>1
    <2> QED
      BY <1>6, <2>1, <2>2 DEF GoodClient, Stages
  <1>8. reg'[d] = c0.member /\ DOMAIN reg' = Devices /\ \A e \in Devices \ {d} : reg'[e] = reg[e]
    BY <1>4, <1>5, StoredFacts DEF GoodClient, Stages
  <1>9. Stored(file, d, reg'[d], vault[d])
    BY <1>5, <1>8, StoredFacts DEF Stored
  <1>10. Acting(c, reg'[d], vault[d])
    BY <1>5, <1>7, <1>8 DEF Acting
  <1>11. Linked(file, d, c, wire[d])
    BY <1>5, <1>7 DEF Linked
  <1>12. /\ client'[d] = c /\ DOMAIN client' = Devices
         /\ \A e \in Devices \ {d} : client'[e] = client[e]
    BY <1>4, StoredFacts
  <1>13. Elsewhere(d)
    BY <1>4, <1>8, <1>12, StoredFacts DEF Elsewhere
  <1>14. Desk(file, d, client'[d], wire'[d], reg'[d], vault'[d])
    BY <1>4, <1>7, <1>9, <1>10, <1>11, <1>12, StoredFacts DEF Desk
  <1>15. acked' \subseteq file.replays /\ vault[d] \subseteq vault'[d] /\ UNCHANGED storeVars
    BY <1>4, StoredFacts
  <1>16. \A t \in strays' \ strays : t = wire[d] /\ Waiting(t)
    BY <1>4
  <1> QED
    BY <1>13, <1>14, <1>15, <1>16, LocalStep

\* The strays after a connection was left by its client.
LEMMA AbandonedStrays ==
    ASSUME NEW s, NEW S \in Abandoned(s)
    PROVE  \A t \in S \ strays : t = s /\ Waiting(t)
  BY DEF Abandoned

\* A client gives up: it is dropped unless it is held.
LEMMA FailedStep ==
    ASSUME CollaborationInv, NEW d \in Devices, Busy(d), Failed(d),
           UNCHANGED <<storeVars, vault, acked>>,
           \/ UNCHANGED reg
           \/ reg' = [reg EXCEPT ![d] = "begun"] /\ client[d].stage # "held"
    PROVE  CollaborationInv' /\ UNCHANGED file /\ Grows(file, file')
  <1>1. PICK c, s, r, v : c = client[d] /\ s = wire[d] /\ r = reg[d] /\ v = vault[d]
    OBVIOUS
  <1>2. Desk(file, d, c, s, r, v)
    BY <1>1 DEF CollaborationInv, DesksGood
  <1>3. /\ client' = [client EXCEPT ![d] =
                        IF @.stage # "held" THEN None
                        ELSE [client[d] EXCEPT !.view = Disconnected(@), !.asking = None]]
        /\ wire' = [wire EXCEPT ![d] = Unconnected] /\ strays' \in Abandoned(wire[d])
    BY DEF Failed
  <1>4. /\ wire'[d] = Unconnected /\ DOMAIN wire' = Devices
        /\ \A e \in Devices \ {d} : wire'[e] = wire[e]
    BY <1>3, StoredFacts
  <1>5. /\ DOMAIN client' = Devices /\ \A e \in Devices \ {d} : client'[e] = client[e]
        /\ client'[d] = IF c.stage # "held" THEN None
                        ELSE [c EXCEPT !.view = Disconnected(@), !.asking = None]
    BY <1>1, <1>3, StoredFacts
  <1>6. /\ DOMAIN reg' = Devices /\ \A e \in Devices \ {d} : reg'[e] = reg[e]
        /\ reg'[d] = r \/ (reg'[d] = "begun" /\ c.stage # "held")
    BY <1>1, StoredFacts
  <1>7. Stored(file, d, reg'[d], v)
    BY <1>1, <1>6, StoredFacts, CollaborationAssumption DEF CollaborationAssumption, Stored
  <1>8. Elsewhere(d)
    BY <1>4, <1>5, <1>6, StoredFacts DEF Elsewhere
  <1>9. Desk(file, d, client'[d], Unconnected, reg'[d], v)
    <2>1. CASE c.stage # "held"
      <3>1. client'[d] = None
        BY <1>5, <2>1
      <3> QED
        BY <1>7, <3>1, DeskEmpty
    <2>2. CASE c.stage = "held"
      <3>1. PICK c2 : c2 = [c EXCEPT !.view = Disconnected(@), !.asking = None]
        OBVIOUS
      <3>2. c # None /\ c.member \in v
        BY <1>1, <1>2, <2>2 DEF Busy, Desk, Acting
      <3>3. Desk(file, d, c2, Unconnected, r, v)
        BY <1>2, <2>2, <3>1, <3>2, DeskDisconnected
      <3> QED
        BY <1>5, <1>6, <2>2, <3>1, <3>3
    <2> QED
      BY <2>1, <2>2
  <1>10. Desk(file, d, client'[d], wire'[d], reg'[d], vault'[d])
    BY <1>1, <1>4, <1>9
  <1>11. acked' \subseteq file.replays /\ vault[d] \subseteq vault'[d] /\ UNCHANGED storeVars
    BY StoredFacts
  <1>12. \A t \in strays' \ strays : t = wire[d] /\ Waiting(t)
    BY <1>3, AbandonedStrays
  <1> QED
    BY <1>8, <1>10, <1>11, <1>12, LocalStep

\* The registration or the credential cannot be stored.
LEMMA LocalFailureStep ==
    ASSUME CollaborationInv, NEW d \in Devices, LocalFailure(d)
    PROVE  CollaborationInv' /\ UNCHANGED file /\ Grows(file, file')
  <1>1. Busy(d) /\ Failed(d) /\ UNCHANGED <<storeVars, vault, acked>>
    BY DEF LocalFailure, Got, history
  <1>2. \/ UNCHANGED reg
        \/ reg' = [reg EXCEPT ![d] = "begun"] /\ client[d].stage # "held"
    BY DEF LocalFailure
  <1> QED
    BY <1>1, <1>2, FailedStep

\* An error came, or a page that does not fit.
LEMMA RefusedStep ==
    ASSUME CollaborationInv, NEW d \in Devices, Refused(d)
    PROVE  CollaborationInv' /\ UNCHANGED file /\ Grows(file, file')
  <1>1. Busy(d) /\ Failed(d) /\ UNCHANGED <<storeVars, vault, acked>> /\ UNCHANGED reg
    BY DEF Refused, localVars, history
  <1> QED
    BY <1>1, FailedStep

\* The connection is lost.
LEMMA LostStep ==
    ASSUME CollaborationInv, NEW d \in Devices, Lost(d)
    PROVE  CollaborationInv' /\ UNCHANGED file /\ Grows(file, file')
  <1>1. Busy(d) /\ Failed(d) /\ UNCHANGED <<storeVars, vault, acked>> /\ UNCHANGED reg
    BY DEF Lost, localVars, history
  <1> QED
    BY <1>1, FailedStep

\* A desktop ends; the owner's takes the host with it.
LEMMA CrashStep ==
    ASSUME CollaborationInv, NEW d \in Devices, Crash(d)
    PROVE  CollaborationInv' /\ UNCHANGED file /\ Grows(file, file')
  <1>1. client' = [client EXCEPT ![d] = None] /\ UNCHANGED <<reg, vault, acked>>
    BY DEF Crash, localVars, history
  <1>2. /\ client'[d] = None /\ DOMAIN client' = Devices
        /\ \A e \in Devices \ {d} : client'[e] = client[e]
    BY <1>1, StoredFacts
  <1>3. CASE d # OwnerDevice
    <2>1. /\ wire' = [wire EXCEPT ![d] = Unconnected] /\ strays' \in Abandoned(wire[d])
          /\ UNCHANGED storeVars
      BY <1>3 DEF Crash
    <2>2. /\ wire'[d] = Unconnected /\ DOMAIN wire' = Devices
          /\ \A e \in Devices \ {d} : wire'[e] = wire[e]
      BY <2>1, StoredFacts
    <2>3. Elsewhere(d)
      BY <1>1, <1>2, <2>2, StoredFacts DEF Elsewhere
    <2>4. Desk(file, d, client'[d], wire'[d], reg'[d], vault'[d])
      <3>1. Desk(file, d, None, Unconnected, reg[d], vault[d])
        BY StoredFacts, DeskEmpty
      <3> QED
        BY <1>1, <1>2, <2>2, <3>1
    <2>5. acked' \subseteq file.replays /\ vault[d] \subseteq vault'[d]
      BY <1>1, StoredFacts
    <2>6. \A t \in strays' \ strays : t = wire[d] /\ Waiting(t)
      BY <2>1, AbandonedStrays
    <2> QED
      BY <2>1, <2>3, <2>4, <2>5, <2>6, LocalStep
  <1>4. CASE d = OwnerDevice
    <2>1. /\ wire' = [e \in Devices |-> IF e = d THEN Unconnected ELSE Cut(wire[e])]
          /\ memory' = None /\ poisoned' = FALSE /\ strays' = {} /\ file' = file
      BY <1>4 DEF Crash, HostStops
    <2>2. StoreGood' /\ Grows(file, file')
      BY <2>1, Unmoved DEF CollaborationInv, StoreGood, Moved
    <2>3. StraysGood' /\ AckGood'
      BY <1>1, <2>1 DEF CollaborationInv, StraysGood, AckGood
    <2>4. ASSUME NEW e \in Devices
          PROVE  Desk(file', e, client'[e], wire'[e], reg'[e], vault'[e])
      <3>1. Desk(file, e, client[e], wire[e], reg[e], vault[e])
        BY DEF CollaborationInv, DesksGood
      <3>2. CASE e = d
        <4>1. Desk(file, d, None, Unconnected, reg[d], vault[d])
          BY StoredFacts, DeskEmpty
        <4> QED
          BY <1>1, <1>2, <2>1, <3>2, <4>1
      <3>3. CASE e # d
        <4>1. Desk(file, e, client[e], Cut(wire[e]), reg[e], vault[e])
          BY <3>1, DeskCut
        <4> QED
          BY <1>1, <1>2, <2>1, <3>3, <4>1
      <3> QED
        BY <3>2, <3>3
    <2>5. DesksGood'
      BY <1>1, <1>2, <2>1, <2>4 DEF CollaborationInv, DesksGood
    <2> QED
      BY <2>1, <2>2, <2>3, <2>5 DEF CollaborationInv
  <1> QED
    BY <1>3, <1>4

-----------------------------------------------------------------------------
(***************************************************************************)
(* The invariant, and how the file grows.                                  *)
(***************************************************************************)

\* The invariant holds at first.
LEMMA InvInit == Init => CollaborationInv
  <1> SUFFICES ASSUME Init PROVE CollaborationInv
    OBVIOUS
  <1>1. StoreGood
    BY BootstrapGood DEF Init, StoreGood
  <1>2. StraysGood /\ AckGood
    BY DEF Init, StraysGood, AckGood
  <1>3. Home(file, Owner, OwnerDevice)
    BY <1>1 DEF Init, StoreGood, GoodBrain, Home, Bootstrap
  <1>4. ASSUME NEW d \in Devices
        PROVE  Desk(file, d, client[d], wire[d], reg[d], vault[d])
    <2>1. Stored(file, d, reg[d], vault[d])
      BY <1>3, CollaborationAssumption DEF CollaborationAssumption, Init, Stored
    <2>2. client[d] = None /\ wire[d] = Unconnected
      BY DEF Init
    <2> QED
      BY <2>1, <2>2, DeskEmpty
  <1>5. DesksGood
    BY <1>4, Limits DEF Init, DesksGood
  <1> QED
    BY <1>1, <1>2, <1>5 DEF CollaborationInv

\* Every step keeps it, and the file grows.
LEMMA InvStep ==
    ASSUME CollaborationInv, [Next]_vars
    PROVE  CollaborationInv' /\ Grows(file, file')
  <1>1. CASE HostStep
    BY <1>1, StartHostStep, StopHostStep, CoordinateStep, HandleStep, RefuseStep,
       HandleStrayStep DEF HostStep
  <1>2. CASE StartOwner
    BY <1>2, StartOwnerStep
  <1>3. ASSUME NEW d \in Devices, UserStep(d)
        PROVE  CollaborationInv' /\ Grows(file, file')
    BY <1>3, StartJoinStep, CancelInviteStep, ReconnectStep, DisconnectStep, PulseStep,
       InviteStep, RevokeStep, SubmitStep DEF UserStep
  <1>4. ASSUME NEW d \in Devices, ReplyStep(d)
        PROVE  CollaborationInv' /\ Grows(file, file')
    BY <1>4, JoinedStep, ThenReadsStep, InviteReceivedStep, SubmitAcknowledgedStep,
       NextPageStep, LastPageStep, LocalFailureStep, RefusedStep, LostStep, CrashStep
       DEF ReplyStep
  <1>5. CASE UNCHANGED vars
    <2>1. Grows(file, file')
      BY <1>5, Unmoved DEF CollaborationInv, StoreGood, Moved, vars, storeVars
    <2>2. DesksGood'
      BY <1>5, <2>1, DesksKept DEF CollaborationInv, vars, localVars
    <2>3. StoreGood' /\ StraysGood' /\ AckGood'
      BY <1>5, <2>1, AckKept
      DEF CollaborationInv, StoreGood, StraysGood, vars, storeVars, history
    <2> QED
      BY <2>1, <2>2, <2>3 DEF CollaborationInv
  <1> QED
    BY <1>1, <1>2, <1>3, <1>4, <1>5 DEF Next

-----------------------------------------------------------------------------
(***************************************************************************)
(* What follows from it.                                                   *)
(***************************************************************************)

\* The inductive invariant: the store, the desks and the connections agree with the
\* file, whatever the faults.
THEOREM CollaborationInvariant == Spec => []CollaborationInv
  <1>1. CollaborationInv /\ [Next]_vars => CollaborationInv'
    BY InvStep
  <1> QED
    BY <1>1, InvInit, PTL DEF Spec

\* What a transaction leaves in the file was encoded.
LEMMA TransactedEncodes ==
    ASSUME StoreGood, memory # None, Encodes(file), NEW now, NEW result,
           NEW x \in Transacted(now, result)
    PROVE  Encodes(x.file)
  <1>1. CASE poisoned \/ ~CanObserve(memory, now)
    BY <1>1 DEF Transacted
  <1>2. CASE ~poisoned /\ CanObserve(memory, now)
    <2> DEFINE next == Staged(memory, now, result)
    <2>1. Encodes(next)
      BY <1>2 DEF Staged, StoreGood
    <2> HIDE DEF next
    <2>2. x \in {[file |-> next, poisoned |-> FALSE, outcome |-> Outcome(memory, now, result)]}
                \cup {[file |-> f, poisoned |-> TRUE, outcome |-> Fail("unavailable")] :
                       f \in IF "write" \in Faults /\ next # file THEN {file, next} ELSE {}}
      BY <1>2 DEF Transacted, next
    <2>3. x.file \in {file, next}
      BY <2>2
    <2> QED
      BY <2>1, <2>3
  <1> QED
    BY <1>1, <1>2

LEMMA EncodesStep ==
    ASSUME CollaborationInv, Encodes(file), [Next]_vars
    PROVE  Encodes(file)'
  <1>1. StoreGood
    BY DEF CollaborationInv
  <1>2. ASSUME NEW now \in Times, StartHost(now) PROVE Encodes(file')
    BY <1>2 DEF StartHost, Staged
  <1>3. ASSUME NEW t, NEW status, NEW now \in Times, Coordinate(t, status, now)
        PROVE  Encodes(file')
    BY <1>1, <1>3, TransactedEncodes DEF Coordinate, Install
  <1>4. ASSUME NEW s, NEW now, NEW id, NEW x \in Answers(s, now, id), memory # None
        PROVE  Encodes(x.file)
    BY <1>1, <1>4, TransactedEncodes DEF Answers
  <1>5. ASSUME NEW d \in Devices, Handle(d) PROVE Encodes(file')
    BY <1>4, <1>5 DEF Handle, Install
  <1>6. ASSUME NEW s \in strays, HandleStray(s) PROVE Encodes(file')
    BY <1>4, <1>6 DEF HandleStray, Install
  <1>7. CASE HostStep
    <2>1. CASE StopHost \/ \E d \in Devices : Refuse(d)
      BY <2>1 DEF StopHost, HostStops, Refuse, storeVars
    <2> QED
      BY <1>2, <1>3, <1>5, <1>6, <1>7, <2>1 DEF HostStep
  <1>8. CASE file' = file
    BY <1>8
  <1>9. ASSUME NEW d \in Devices, UserStep(d) \/ ReplyStep(d) PROVE file' = file
    BY <1>9
    DEF UserStep, StartJoin, CancelInvite, Reconnect, Disconnect, Pulse, Invite, Revoke, Submit,
        Command, ReplyStep, Joined, ThenReads, InviteReceived, SubmitAcknowledged, NextPage,
        LastPage, LocalFailure, Refused, Lost, Crash, HostStops, storeVars
  <1> QED
    BY <1>7, <1>8, <1>9 DEF Next, StartOwner, vars, storeVars

\* The save refuses what an operation of the Brain did for its size only: transact
\* encodes every candidate, which validates it and compares its length, and in no
\* reachable state does a candidate fail the validation.  What is stored is valid and
\* within the limit.
THEOREM SaveRefusesOnlyForSize == Spec => []RefusedOnlyForSize
  <1>1. CollaborationInv /\ Encodes(file) => RefusedOnlyForSize
    <2> SUFFICES ASSUME CollaborationInv, memory # None, ~poisoned,
                        NEW s \in Sessions, NEW now \in Times,
                        Waiting(s), Admitted(s), CanObserve(memory, now),
                        NEW id \in FreshIds(s.request), NEW result,
                        result = Operation(Observed(memory, now), s, id, now),
                        result.err = "none"
                 PROVE  IF TooLarge(result.brain) THEN Outcome(memory, now, result).err = "busy"
                        ELSE Outcome(memory, now, result) = result
      BY DEF RefusedOnlyForSize
    <2>1. GoodSession(s) /\ GoodRequest(s.request)
      BY DEF Sessions, CollaborationInv, DesksGood, Desk, StraysGood, GoodSession, Waiting
    <2>2. GoodBrain(memory) /\ now \in Nat
      BY TimesAreNumbers DEF CollaborationInv, StoreGood
    <2>3. PICK b : b = Observed(memory, now)
      OBVIOUS
    <2>4. GoodBrain(b) /\ b.clock = now
      BY <2>2, <2>3, ObservedMoves DEF Moved
    <2>5. b.members = memory.members
      BY <2>2, <2>3 DEF Observed, GoodBrain, Brains
    <2>6. GoodId(b, s.request, id)
      BY <2>1, <2>5, FreshIdsGood
    <2>7. Operation(b, s, id, b.clock).err = "none"
      BY <2>3, <2>4
    <2>8. Moved(b, Operation(b, s, id, b.clock).brain)
      BY <2>1, <2>4, <2>6, <2>7, OperationMoves
    <2>9. Valid(result.brain) /\ Valid(Observed(memory, now))
      BY <2>3, <2>4, <2>8 DEF Moved, GoodBrain
    <2> QED
      BY <2>9 DEF Outcome, Encodes, EncodeError, Fail
  <1>2. Init => Encodes(file)
    BY InvInit, BootstrapAssumption DEF Init, Encodes, CollaborationInv, StoreGood, GoodBrain
  <1>3. CollaborationInv /\ Encodes(file) /\ [Next]_vars => Encodes(file)'
    BY EncodesStep
  <1> QED
    BY <1>1, <1>2, <1>3, CollaborationInvariant, PTL DEF Spec

\* An acknowledged message is in the file with its revision, and so is its task, over
\* lost replies, retries, late requests, failed writes and restarts.
THEOREM AcknowledgementsLast == Spec => []AcknowledgedIsDurable
  <1>1. CollaborationInv => AcknowledgedIsDurable
    BY DEF CollaborationInv, AckGood, StoreGood, GoodBrain, LedgerKept, AcknowledgedIsDurable
  <1> QED
    BY <1>1, CollaborationInvariant, PTL

\* A complete registration has its credential beside it, and the Brain knows its member
\* on that device.
THEOREM RegistrationsBacked == Spec => []RegistrationBacked
  <1>1. CollaborationInv => RegistrationBacked
    BY DEF CollaborationInv, DesksGood, Desk, Stored, Home, RegistrationBacked
  <1> QED
    BY <1>1, CollaborationInvariant, PTL

\* Once a member is revoked, or its credential has expired, nothing is done in its name.
THEOREM AccessEndsForGood == Spec => AccessEnds
  <1> DEFINE Ends ==
         \A m \in DOMAIN file.members :
             LET old == file.members[m]
                 new == file'.members[m] IN
             old.revoked \/ file.clock >= old.expires =>
               /\ m \in DOMAIN file'.members
               /\ IF old.revoked THEN new = old
                  ELSE new.seen = old.seen /\ new.announced = old.announced
               /\ {r \in file'.replays : r.node = m} = {r \in file.replays : r.node = m}
  <1>1. ASSUME CollaborationInv, Grows(file, file') PROVE Ends
    <2> SUFFICES ASSUME NEW m \in DOMAIN file.members,
                        file.members[m].revoked \/ file.clock >= file.members[m].expires
                 PROVE  /\ m \in DOMAIN file'.members
                        /\ IF file.members[m].revoked THEN file'.members[m] = file.members[m]
                           ELSE /\ file'.members[m].seen = file.members[m].seen
                                /\ file'.members[m].announced = file.members[m].announced
                        /\ {r \in file'.replays : r.node = m} = {r \in file.replays : r.node = m}
      OBVIOUS
    <2>1. m \in DOMAIN file'.members /\ MemberGrows(file, file', m)
      BY <1>1 DEF Grows, MembersGrow
    <2>2. IF file.members[m].revoked THEN file'.members[m] = file.members[m]
          ELSE /\ file'.members[m].seen = file.members[m].seen
               /\ file'.members[m].announced = file.members[m].announced
      BY <2>1 DEF MemberGrows
    <2>3. ~Authorized(file, m, file.clock)
      <3>1. file.clock \in Nat /\ file.members[m].expires \in Nat
        BY <1>1, BrainTypes DEF CollaborationInv, StoreGood, GoodBrain, MemberRecords
      <3> QED
        BY <3>1 DEF Authorized
    <2>4. {r \in file'.replays : r.node = m} = {r \in file.replays : r.node = m}
      BY <1>1, <2>3 DEF Grows, LedgerGrows
    <2> QED
      BY <2>1, <2>2, <2>4
  <1>2. ASSUME CollaborationInv, [Next]_vars PROVE [Ends]_file
    BY <1>1, <1>2, InvStep
  <1>3. CollaborationInv /\ [Next]_vars => [Ends]_file
    BY <1>2
  <1> QED
    BY <1>3, CollaborationInvariant, PTL DEF Spec, AccessEnds

\* The revision of each kind of record.
LEMMA SharedRevisions ==
    ASSUME NEW b, NEW x
    PROVE  /\ SharedRecord(b, <<"member", x>>).rev = b.members[x].rev
           /\ SharedRecord(b, <<"node", x>>).rev = b.members[x].nodeRev
           /\ SharedRecord(b, <<"task", x>>).rev = b.tasks[x].rev
  BY DEF SharedRecord

\* A member is shown everything that is new since the revision it has read.
LEMMA ChangesShown ==
    ASSUME NEW b, NEW c, Grows(b, c), NEW m
    PROVE  /\ SharedNames(b, m) \subseteq SharedNames(c, m)
           /\ \A n \in SharedNames(c, m) :
                 \/ n \in SharedNames(b, m) /\ SharedRecord(c, n) = SharedRecord(b, n)
                 \/ SharedRecord(c, n).rev = c.rev /\ b.rev < c.rev
  <1>1. DOMAIN b.members \subseteq DOMAIN c.members /\ DOMAIN b.tasks \subseteq DOMAIN c.tasks
    BY DEF Grows, MembersGrow, TasksGrow
  <1>2. \A t \in DOMAIN b.tasks : c.tasks[t].creator = b.tasks[t].creator
    BY DEF Grows, TasksGrow
  <1>3. SharedNames(b, m) \subseteq SharedNames(c, m)
    BY <1>1, <1>2 DEF SharedNames
  <1>4. ASSUME NEW x \in DOMAIN c.members, NEW n, n = <<"member", x>>
        PROVE  \/ n \in SharedNames(b, m) /\ SharedRecord(c, n) = SharedRecord(b, n)
               \/ SharedRecord(c, n).rev = c.rev /\ b.rev < c.rev
    <2>1. CASE c.members[x].rev = c.rev /\ b.rev < c.rev
      BY <1>4, <2>1, SharedRevisions
    <2>2. CASE ~(c.members[x].rev = c.rev /\ b.rev < c.rev)
      <3>1. x \in DOMAIN b.members
        BY <1>4, <2>2 DEF Grows, MembersGrow
      <3>2. c.members[x].rev = b.members[x].rev /\ c.members[x].revoked = b.members[x].revoked
        BY <2>2, <3>1 DEF Grows, MembersGrow, MemberGrows
      <3>3. SharedRecord(c, n) = SharedRecord(b, n)
        BY <1>4, <3>2 DEF SharedRecord
      <3> QED
        BY <1>4, <3>1, <3>3 DEF SharedNames
    <2> QED
      BY <2>1, <2>2
  <1>5. ASSUME NEW x \in DOMAIN c.members, NEW n, n = <<"node", x>>
        PROVE  \/ n \in SharedNames(b, m) /\ SharedRecord(c, n) = SharedRecord(b, n)
               \/ SharedRecord(c, n).rev = c.rev /\ b.rev < c.rev
    <2>1. CASE c.members[x].nodeRev = c.rev /\ b.rev < c.rev
      BY <1>5, <2>1, SharedRevisions
    <2>2. CASE ~(c.members[x].nodeRev = c.rev /\ b.rev < c.rev)
      <3>1. x \in DOMAIN b.members
        BY <1>5, <2>2 DEF Grows, MembersGrow
      <3>2. SameNode(b.members[x], c.members[x]) /\ c.members[x].device = b.members[x].device
        BY <2>2, <3>1 DEF Grows, MembersGrow, MemberGrows
      <3>3. SharedRecord(c, n) = SharedRecord(b, n)
        BY <1>5, <3>2 DEF SharedRecord, SameNode
      <3> QED
        BY <1>5, <3>1, <3>3 DEF SharedNames
    <2> QED
      BY <2>1, <2>2
  <1>6. ASSUME NEW t \in DOMAIN c.tasks, c.tasks[t].creator = m, NEW n, n = <<"task", t>>
        PROVE  \/ n \in SharedNames(b, m) /\ SharedRecord(c, n) = SharedRecord(b, n)
               \/ SharedRecord(c, n).rev = c.rev /\ b.rev < c.rev
    <2>1. CASE c.tasks[t].rev = c.rev /\ b.rev < c.rev
      BY <1>6, <2>1, SharedRevisions
    <2>2. CASE ~(c.tasks[t].rev = c.rev /\ b.rev < c.rev)
      <3>1. t \in DOMAIN b.tasks /\ c.tasks[t] = b.tasks[t]
        BY <1>6, <2>2 DEF Grows, TasksGrow
      <3>2. SharedRecord(c, n) = SharedRecord(b, n)
        BY <1>6, <3>1 DEF SharedRecord
      <3>3. n \in SharedNames(b, m)
        BY <1>6, <3>1 DEF SharedNames
      <3> QED
        BY <3>2, <3>3
    <2> QED
      BY <2>1, <2>2
  <1>7. ASSUME NEW n \in SharedNames(c, m)
        PROVE  \/ n \in SharedNames(b, m) /\ SharedRecord(c, n) = SharedRecord(b, n)
               \/ SharedRecord(c, n).rev = c.rev /\ b.rev < c.rev
    <2>1. \/ \E x \in DOMAIN c.members : n = <<"member", x>>
          \/ \E x \in DOMAIN c.members : n = <<"node", x>>
          \/ \E t \in DOMAIN c.tasks : c.tasks[t].creator = m /\ n = <<"task", t>>
      BY <1>7 DEF SharedNames
    <2> QED
      BY <2>1, <1>4, <1>5, <1>6
  <1> QED
    BY <1>3, <1>7

\* A step that changes what some member is shown gives each changed record the new
\* revision, and takes nothing away.
THEOREM RevisionsCoverChanges == Spec => RevisionCoversChanges
  <1> DEFINE Covers ==
         /\ file'.rev >= file.rev
         /\ \A m \in DOMAIN file.members :
              /\ SharedNames(file, m) \subseteq SharedNames(file', m)
              /\ \A n \in SharedNames(file', m) :
                   \/ n \in SharedNames(file, m) /\ SharedRecord(file', n) = SharedRecord(file, n)
                   \/ SharedRecord(file', n).rev = file'.rev /\ file'.rev > file.rev
  <1>1. ASSUME CollaborationInv, CollaborationInv', Grows(file, file') PROVE Covers
    <2>1. file.rev \in Nat /\ file'.rev \in Nat
      BY <1>1, BrainTypes DEF CollaborationInv, StoreGood, GoodBrain
    <2>2. PICK b, c : b = file /\ c = file'
      OBVIOUS
    <2>3. Grows(b, c) /\ b.rev <= c.rev
      BY <1>1, <2>2 DEF Grows
    <2>4. \A m : /\ SharedNames(b, m) \subseteq SharedNames(c, m)
                 /\ \A n \in SharedNames(c, m) :
                      \/ n \in SharedNames(b, m) /\ SharedRecord(c, n) = SharedRecord(b, n)
                      \/ SharedRecord(c, n).rev = c.rev /\ b.rev < c.rev
      BY <2>3, ChangesShown
    <2>5. b.rev < c.rev <=> file'.rev > file.rev
      BY <2>1, <2>2
    <2>6. file'.rev >= file.rev
      BY <2>1, <2>2, <2>3
    <2> QED
      BY <2>2, <2>4, <2>5, <2>6
  <1>2. ASSUME CollaborationInv, [Next]_vars PROVE [Covers]_file
    BY <1>1, <1>2, InvStep
  <1>3. CollaborationInv /\ [Next]_vars => [Covers]_file
    BY <1>2
  <1> QED
    BY <1>3, CollaborationInvariant, PTL DEF Spec, RevisionCoversChanges

-----------------------------------------------------------------------------
(***************************************************************************)
(* Enrolment: the accounts of members and invitations.                     *)
(***************************************************************************)

\* Members M, open invitations I, withdrawn ones W, and all that were issued S.
Balanced(M, I, W, S) ==
    /\ IsFiniteSet(M) /\ IsFiniteSet(S)
    /\ I \subseteq S /\ W \subseteq S /\ W \cap I = {}
    /\ Cardinality(M) + Cardinality(I) + Cardinality(W) <= Cardinality(S)

\* The sets that are counted are finite.
LEMMA BalancedNumbers ==
    ASSUME NEW M, NEW I, NEW W, NEW S, Balanced(M, I, W, S)
    PROVE  /\ IsFiniteSet(M) /\ IsFiniteSet(I) /\ IsFiniteSet(W) /\ IsFiniteSet(S)
           /\ Cardinality(M) \in Nat /\ Cardinality(I) \in Nat
           /\ Cardinality(W) \in Nat /\ Cardinality(S) \in Nat
  <1>1. IsFiniteSet(M) /\ IsFiniteSet(S) /\ I \subseteq S /\ W \subseteq S
    BY DEF Balanced
  <1>2. IsFiniteSet(I) /\ IsFiniteSet(W)
    BY <1>1, FS_Subset
  <1> QED
    BY <1>1, <1>2, FS_CardinalityType

\* Nobody joined: invitations may lapse, and acknowledgements may get lost.
LEMMA BalanceShrinks ==
    ASSUME NEW M, NEW I, NEW W, NEW S, Balanced(M, I, W, S),
           NEW J, J \subseteq I, NEW V, V \subseteq W
    PROVE  Balanced(M, J, V, S)
  <1>1. /\ IsFiniteSet(M) /\ IsFiniteSet(I) /\ IsFiniteSet(W) /\ IsFiniteSet(S)
        /\ Cardinality(M) \in Nat /\ Cardinality(I) \in Nat
        /\ Cardinality(W) \in Nat /\ Cardinality(S) \in Nat
    BY BalancedNumbers
  <1>2. IsFiniteSet(J) /\ Cardinality(J) <= Cardinality(I)
    BY <1>1, FS_Subset
  <1>3. IsFiniteSet(V) /\ Cardinality(V) <= Cardinality(W)
    BY <1>1, FS_Subset
  <1>4. Cardinality(J) \in Nat /\ Cardinality(V) \in Nat
    BY <1>2, <1>3, FS_CardinalityType
  <1>5. Cardinality(M) + Cardinality(I) + Cardinality(W) <= Cardinality(S)
    BY DEF Balanced
  <1>6. Cardinality(M) + Cardinality(J) + Cardinality(V) <= Cardinality(S)
    BY <1>1, <1>2, <1>3, <1>4, <1>5
  <1> QED
    BY <1>6 DEF Balanced

\* An invitation is withdrawn.
LEMMA BalanceWithdraws ==
    ASSUME NEW M, NEW I, NEW W, NEW S, Balanced(M, I, W, S), NEW i \in I,
           NEW V, V \subseteq W \cup {i}
    PROVE  Balanced(M, I \ {i}, V, S)
  <1>1. /\ IsFiniteSet(M) /\ IsFiniteSet(I) /\ IsFiniteSet(W) /\ IsFiniteSet(S)
        /\ Cardinality(M) \in Nat /\ Cardinality(I) \in Nat
        /\ Cardinality(W) \in Nat /\ Cardinality(S) \in Nat
    BY BalancedNumbers
  <1>2. Cardinality(I \ {i}) = Cardinality(I) - 1
    BY <1>1, FS_RemoveElement
  <1>3. i \notin W
    BY DEF Balanced
  <1>4. IsFiniteSet(W \cup {i}) /\ Cardinality(W \cup {i}) = Cardinality(W) + 1
    BY <1>1, <1>3, FS_AddElement
  <1>5. Cardinality(M) + Cardinality(I) + Cardinality(W) <= Cardinality(S)
    BY DEF Balanced
  <1>6. Cardinality(M) + Cardinality(I \ {i}) + Cardinality(W \cup {i}) <= Cardinality(S)
    BY <1>1, <1>2, <1>4, <1>5
  <1>7. Balanced(M, I \ {i}, W \cup {i}, S)
    BY <1>6 DEF Balanced
  <1> QED
    BY <1>7, BalanceShrinks

\* A member joins with an invitation.
LEMMA BalanceJoins ==
    ASSUME NEW M, NEW I, NEW W, NEW S, Balanced(M, I, W, S), NEW i \in I, NEW m,
           NEW V, V \subseteq W
    PROVE  Balanced(M \cup {m}, I \ {i}, V, S)
  <1>1. /\ IsFiniteSet(M) /\ IsFiniteSet(I) /\ IsFiniteSet(W) /\ IsFiniteSet(S)
        /\ Cardinality(M) \in Nat /\ Cardinality(I) \in Nat
        /\ Cardinality(W) \in Nat /\ Cardinality(S) \in Nat
    BY BalancedNumbers
  <1>2. Cardinality(I \ {i}) = Cardinality(I) - 1
    BY <1>1, FS_RemoveElement
  <1>3. IsFiniteSet(M \cup {m}) /\ Cardinality(M \cup {m}) <= Cardinality(M) + 1
        /\ Cardinality(M \cup {m}) \in Nat
    <2>1. /\ IsFiniteSet(M \cup {m})
          /\ Cardinality(M \cup {m}) = IF m \in M THEN Cardinality(M) ELSE Cardinality(M) + 1
      BY <1>1, FS_AddElement
    <2> QED
      BY <1>1, <2>1
  <1>4. Cardinality(M) + Cardinality(I) + Cardinality(W) <= Cardinality(S)
    BY DEF Balanced
  <1>5. Cardinality(M \cup {m}) + Cardinality(I \ {i}) + Cardinality(W) <= Cardinality(S)
    BY <1>1, <1>2, <1>3, <1>4
  <1>6. Balanced(M \cup {m}, I \ {i}, W, S)
    BY <1>3, <1>5 DEF Balanced
  <1> QED
    BY <1>6, BalanceShrinks

\* An invitation is issued; others may lapse.
LEMMA BalanceInvites ==
    ASSUME NEW M, NEW I, NEW W, NEW S, Balanced(M, I, W, S), NEW i, i \notin S,
           NEW J, J \subseteq I \cup {i}, NEW V, V \subseteq W
    PROVE  Balanced(M, J, V, S \cup J)
  <1>1. CASE i \notin J
    <2>1. J \subseteq I /\ S \cup J = S
      BY <1>1 DEF Balanced
    <2> QED
      BY <2>1, BalanceShrinks
  <1>2. CASE i \in J
    <2>1. /\ IsFiniteSet(M) /\ IsFiniteSet(I) /\ IsFiniteSet(W) /\ IsFiniteSet(S)
          /\ Cardinality(M) \in Nat /\ Cardinality(I) \in Nat
          /\ Cardinality(W) \in Nat /\ Cardinality(S) \in Nat
      BY BalancedNumbers
    <2>2. S \cup J = S \cup {i} /\ i \notin I
      BY <1>2 DEF Balanced
    <2>3. IsFiniteSet(S \cup {i}) /\ Cardinality(S \cup {i}) = Cardinality(S) + 1
      BY <2>1, FS_AddElement
    <2>4. Cardinality(I \cup {i}) = Cardinality(I) + 1
      BY <2>1, <2>2, FS_AddElement
    <2>5. Cardinality(M) + Cardinality(I) + Cardinality(W) <= Cardinality(S)
      BY DEF Balanced
    <2>6. Cardinality(M) + Cardinality(I \cup {i}) + Cardinality(W) <= Cardinality(S \cup {i})
      BY <2>1, <2>3, <2>4, <2>5
    <2>7. Balanced(M, I \cup {i}, W, S \cup {i})
      BY <2>3, <2>6 DEF Balanced
    <2>8. Balanced(M, J, V, S \cup {i})
      BY <2>7, BalanceShrinks
    <2> QED
      BY <2>2, <2>8
  <1> QED
    BY <1>1, <1>2

\* The members that used up an invitation.
Joiners == DOMAIN file.members \ {Owner}

\* The accounts, as a balance.
LEMMA AccountsBalance ==
    ASSUME CollaborationInv
    PROVE  AccountsGood <=> Balanced(Joiners, DOMAIN file.invites, Withdrawn, issued)
  <1>1. IsFiniteSet(Joiners)
    <2>1. IsFiniteSet(DOMAIN file.members)
      BY DEF CollaborationInv, StoreGood, GoodBrain, Finite
    <2> QED
      BY <2>1, FS_RemoveElement DEF Joiners
  <1> QED
    BY <1>1 DEF AccountsGood, Balanced, Joiners

\* Joins end, or are given up by their client: no new one is opened.
LEMMA JoinsKept ==
    ASSUME JoinsGood,
           \A e \in Devices : reg'[e] = "none" => reg[e] = "none",
           \A e \in Devices : Enrolled(e)' => Enrolled(e),
           \A e, x \in Devices : JoinOpen(wire'[e], x) => JoinOpen(wire[e], x),
           \A s \in strays' \ strays : \E e \in Devices : s = wire[e] /\ ~Waiting(wire'[e])
    PROVE  JoinsGood'
  <1>1. \A d, e \in Devices : JoinOpen(wire'[e], d) => e = d
    BY DEF JoinsGood
  <1>2. \A d \in Devices : ~Waiting(wire'[d]) => ~JoinOpen(wire'[d], d)
    BY DEF JoinOpen
  <1>3. ASSUME NEW d \in Devices, NEW s \in strays' \ strays, JoinOpen(s, d)
        PROVE  s = wire[d] /\ ~JoinOpen(wire'[d], d)
    BY <1>2, <1>3 DEF JoinsGood
  <1>4. ASSUME NEW d \in Devices, NEW s \in strays', JoinOpen(s, d)
        PROVE  ~JoinOpen(wire'[d], d)
    BY <1>3, <1>4 DEF JoinsGood
  <1>5. ASSUME NEW d \in Devices, NEW s \in strays', NEW t \in strays',
               JoinOpen(s, d), JoinOpen(t, d)
        PROVE  s = t
    BY <1>3, <1>5 DEF JoinsGood
  <1>6. ASSUME NEW d \in Devices, NEW s \in Sessions', JoinOpen(s, d)
        PROVE  reg'[d] # "none" /\ ~Enrolled(d)'
    <2>1. \E t \in Sessions : JoinOpen(t, d)
      <3>1. CASE s \in strays
        BY <1>6, <3>1 DEF Sessions
      <3>2. CASE s \in strays' \ strays
        BY <1>6, <3>2, <1>3 DEF Sessions
      <3>3. CASE \E e \in Devices : s = wire'[e]
        BY <1>6, <3>3 DEF Sessions
      <3> QED
        BY <3>1, <3>2, <3>3 DEF Sessions
    <2> QED
      BY <2>1 DEF JoinsGood
  <1>7. \A d \in Devices : Enrolled(d)' => reg'[d] # "none"
    BY DEF JoinsGood
  <1> QED
    BY <1>1, <1>4, <1>5, <1>6, <1>7 DEF JoinsGood

\* A step in which nobody is enrolled and nothing is issued.
LEMMA EnrolmentKept ==
    ASSUME CollaborationInv, CollaborationInv', EnrolmentInv, UNCHANGED <<file, issued>>,
           \A e \in Devices : reg'[e] = "none" => reg[e] = "none",
           \A e, x \in Devices : JoinOpen(wire'[e], x) => JoinOpen(wire[e], x),
           \A s \in strays' \ strays : \E e \in Devices : s = wire[e] /\ ~Waiting(wire'[e]),
           Withdrawn' \subseteq Withdrawn
    PROVE  EnrolmentInv'
  <1>1. \A e \in Devices : Enrolled(e)' => Enrolled(e)
    BY DEF Enrolled
  <1>2. JoinsGood'
    BY <1>1, JoinsKept DEF EnrolmentInv
  <1>3. OneEnrolmentPerDevice'
    BY DEF EnrolmentInv, OneEnrolmentPerDevice
  <1>4. AccountsGood'
    <2>1. Balanced(Joiners, DOMAIN file.invites, Withdrawn, issued)
      BY AccountsBalance DEF EnrolmentInv
    <2>2. Balanced(Joiners, DOMAIN file.invites, Withdrawn', issued)
      BY <2>1, BalanceShrinks
    <2>3. Balanced(Joiners, DOMAIN file.invites, Withdrawn, issued)'
      BY <2>2 DEF Joiners
    <2>4. (CollaborationInv => (AccountsGood <=>
              Balanced(Joiners, DOMAIN file.invites, Withdrawn, issued)))'
      BY AccountsBalance, PTL
    <2> QED
      BY <2>3, <2>4
  <1> QED
    BY <1>2, <1>3, <1>4 DEF EnrolmentInv

\* A step of device d that opens no join and brings no cancellation.
Quiet(d) ==
    /\ UNCHANGED <<file, issued>>
    /\ \A e \in Devices \ {d} : client'[e] = client[e] /\ wire'[e] = wire[e] /\ reg'[e] = reg[e]
    /\ reg'[d] = "none" => reg[d] = "none"
    /\ wire'[d] = wire[d] \/ \A x \in Devices : ~JoinOpen(wire'[d], x)
    /\ ~Got(d, "cancel")'
    /\ cancelled' \subseteq Withdrawn
    /\ \/ strays' \subseteq strays
       \/ strays' \subseteq strays \cup {wire[d]} /\ ~Waiting(wire'[d])

\* Such a step changes nothing about who is enrolled.
LEMMA QuietStep ==
    ASSUME CollaborationInv, CollaborationInv', EnrolmentInv, NEW d \in Devices, Quiet(d)
    PROVE  EnrolmentInv'
  <1>1. \A e \in Devices : reg'[e] = "none" => reg[e] = "none"
    BY DEF Quiet
  <1>2. \A e, x \in Devices : JoinOpen(wire'[e], x) => JoinOpen(wire[e], x)
    BY DEF Quiet
  <1>3. \A s \in strays' \ strays : \E e \in Devices : s = wire[e] /\ ~Waiting(wire'[e])
    BY DEF Quiet
  <1>4. Withdrawn' \subseteq Withdrawn
    <2>1. ASSUME NEW e \in Devices, Got(e, "cancel")'
          PROVE  Got(e, "cancel") /\ client'[e].asking = client[e].asking
      <3>1. e # d
        BY <2>1 DEF Quiet
      <3>2. client'[e] = client[e] /\ wire'[e] = wire[e]
        BY <3>1 DEF Quiet
      <3> QED
        BY <2>1, <3>2 DEF Got, Busy
    <2>2. Cancelling' \subseteq Cancelling
      BY <2>1 DEF Cancelling
    <2> QED
      BY <2>2 DEF Withdrawn, Quiet
  <1>5. UNCHANGED <<file, issued>>
    BY DEF Quiet
  <1> QED
    BY <1>1, <1>2, <1>3, <1>4, <1>5, EnrolmentKept

\* A request goes out that is no join.
LEMMA AskQuiet ==
    ASSUME CollaborationInv, NEW d \in Devices, NEW c, NEW q, Ask(d, c, q), q.op # "join",
           UNCHANGED <<file, issued, reg, strays>>, cancelled' \subseteq Withdrawn
    PROVE  Quiet(d)
  <1>1. /\ client' = [client EXCEPT ![d] = [c EXCEPT !.asking = q]]
        /\ wire' = [wire EXCEPT ![d] = [@ EXCEPT !.request = q, !.reply = None]]
    BY DEF Ask
  <1>2. PICK s : s = wire[d]
    OBVIOUS
  <1>3. PICK p, w, y, z : s = [phase |-> p, who |-> w, request |-> y, reply |-> z]
    BY <1>2, StoredFacts DEF GoodSession
  <1>4. wire'[d] = [s EXCEPT !.request = q, !.reply = None]
    BY <1>1, <1>2, StoredFacts
  <1>5. PICK t : t = wire'[d]
    OBVIOUS
  <1>6. t = [s EXCEPT !.request = q, !.reply = None]
    BY <1>4, <1>5
  <1>7. t = [phase |-> p, who |-> w, request |-> q, reply |-> None]
    BY <1>3, <1>6
  <1>8. wire'[d].request = q /\ wire'[d].reply = None
    BY <1>5, <1>7
  <1>9. \A e \in Devices \ {d} : client'[e] = client[e] /\ wire'[e] = wire[e]
    BY <1>1, StoredFacts
  <1>10. ~Got(d, "cancel")'
    BY <1>8 DEF Got
  <1>11. \A x \in Devices : ~JoinOpen(wire'[d], x)
    BY <1>8 DEF JoinOpen
  <1> QED
    BY <1>9, <1>10, <1>11 DEF Quiet

\* A connection is opened to authenticate.
LEMMA OpenQuiet ==
    ASSUME CollaborationInv, NEW d \in Devices, NEW c, NEW q, q.op # "join",
           client' = [client EXCEPT ![d] = c], wire' = [wire EXCEPT ![d] = Opened(q)],
           UNCHANGED <<file, issued, reg, strays, cancelled>>
    PROVE  Quiet(d)
  <1>1. wire'[d] = Opened(q)
    BY StoredFacts
  <1>2. wire'[d].request = q /\ wire'[d].reply = None
    BY <1>1 DEF Opened
  <1>3. \A e \in Devices \ {d} : client'[e] = client[e] /\ wire'[e] = wire[e]
    BY StoredFacts
  <1>4. ~Got(d, "cancel")' /\ \A x \in Devices : ~JoinOpen(wire'[d], x)
    BY <1>2 DEF Got, JoinOpen
  <1> QED
    BY <1>3, <1>4 DEF Quiet, Withdrawn

\* A client gives up.
LEMMA FailQuiet ==
    ASSUME CollaborationInv, NEW d \in Devices, Busy(d), Failed(d),
           UNCHANGED <<file, issued, cancelled>>,
           reg' = reg \/ reg' = [reg EXCEPT ![d] = "begun"]
    PROVE  Quiet(d)
  <1>1. /\ client' = [client EXCEPT ![d] =
                        IF @.stage # "held" THEN None
                        ELSE [client[d] EXCEPT !.view = Disconnected(@), !.asking = None]]
        /\ wire' = [wire EXCEPT ![d] = Unconnected] /\ strays' \in Abandoned(wire[d])
    BY DEF Failed
  <1>2. wire'[d] = Unconnected /\ \A e \in Devices \ {d} : wire'[e] = wire[e]
    BY <1>1, StoredFacts
  <1>3. ~Waiting(wire'[d]) /\ wire'[d].reply = None
    BY <1>2 DEF Unconnected, Waiting
  <1>4. \A e \in Devices \ {d} : client'[e] = client[e]
    BY <1>1, StoredFacts
  <1>5. ~Got(d, "cancel")' /\ \A x \in Devices : ~JoinOpen(wire'[d], x)
    BY <1>3 DEF Got, JoinOpen
  <1>6. strays' \subseteq strays \cup {wire[d]}
    BY <1>1 DEF Abandoned
  <1>7. /\ \A e \in Devices \ {d} : reg'[e] = reg[e]
        /\ reg'[d] = "none" => reg[d] = "none"
    BY StoredFacts
  <1> QED
    BY <1>2, <1>3, <1>4, <1>5, <1>6, <1>7 DEF Quiet, Withdrawn

\* Commands and replies that send the next request are quiet.
LEMMA AskingIsQuiet ==
    ASSUME CollaborationInv, NEW d \in Devices,
           \/ Pulse(d) \/ Invite(d) \/ Joined(d) \/ ThenReads(d) \/ SubmitAcknowledged(d)
           \/ NextPage(d) \/ \E i \in Invites : CancelInvite(d, i)
           \/ \E m \in Members : Revoke(d, m)
    PROVE  Quiet(d)
  <1>1. ASSUME NEW q, q.op # "join", Command(d, q) PROVE Quiet(d)
    <2>1. /\ Ask(d, client[d], q) /\ UNCHANGED <<file, issued, reg, strays>>
          /\ cancelled' \subseteq Withdrawn
      BY <1>1 DEF Command, storeVars, localVars, history, Withdrawn
    <2>2. PICK c : c = client[d]
      OBVIOUS
    <2>3. Ask(d, c, q)
      BY <2>1, <2>2
    <2> QED
      BY <1>1, <2>1, <2>3, AskQuiet
  <1>2. ASSUME NEW c, AskSync(d, c), UNCHANGED <<file, issued, reg, strays>>,
               cancelled' \subseteq Withdrawn
        PROVE  Quiet(d)
    <2>1. PICK q : q = [op |-> "sync", page |-> ReconcileRequest(c.view)]
      OBVIOUS
    <2>2. Ask(d, c, q) /\ q.op # "join"
      BY <1>2, <2>1 DEF AskSync
    <2> QED
      BY <1>2, <2>2, AskQuiet
  <1>3. CASE Pulse(d)
    <2>1. PICK q : q = [op |-> "pulse"]
      OBVIOUS
    <2> QED
      BY <1>1, <1>3, <2>1 DEF Pulse
  <1>4. CASE Invite(d)
    <2>1. PICK q : q = [op |-> "invite"]
      OBVIOUS
    <2> QED
      BY <1>1, <1>4, <2>1 DEF Invite
  <1>5. ASSUME NEW i \in Invites, CancelInvite(d, i) PROVE Quiet(d)
    <2>1. PICK q : q = [op |-> "cancel", invite |-> i]
      OBVIOUS
    <2> QED
      BY <1>1, <1>5, <2>1 DEF CancelInvite
  <1>6. ASSUME NEW m \in Members, Revoke(d, m) PROVE Quiet(d)
    <2>1. PICK q, k : k = client[d].view.rev /\ q = [op |-> "revoke", member |-> m, rev |-> k]
      OBVIOUS
    <2> QED
      BY <1>1, <1>6, <2>1 DEF Revoke
  <1>7. CASE Joined(d)
    <2>1. PICK m, q, c : m = Value(d) /\ q = [op |-> "auth", member |-> m]
                         /\ c = [client[d] EXCEPT !.member = m]
      OBVIOUS
    <2>2. Ask(d, c, q) /\ q.op # "join"
      BY <1>7, <2>1 DEF Joined
    <2>3. UNCHANGED <<file, issued, reg, strays>> /\ cancelled' \subseteq Withdrawn
      BY <1>7 DEF Joined, storeVars, history, Withdrawn
    <2> QED
      BY <2>2, <2>3, AskQuiet
  <1>8. CASE ThenReads(d)
    <2>1. PICK c : c = client[d]
      OBVIOUS
    <2>2. AskSync(d, c) /\ UNCHANGED <<file, issued, reg, strays>>
      BY <1>8, <2>1 DEF ThenReads, storeVars, localVars
    <2>3. cancelled' \subseteq Withdrawn
      BY <1>8 DEF ThenReads, Withdrawn, Cancelling
    <2> QED
      BY <1>2, <2>2, <2>3
  <1>9. CASE SubmitAcknowledged(d)
    <2>1. PICK c : c = [client[d] EXCEPT !.view = Acknowledged(@)]
      OBVIOUS
    <2>2. AskSync(d, c) /\ UNCHANGED <<file, issued, reg, strays>> /\ cancelled' \subseteq Withdrawn
      BY <1>9, <2>1 DEF SubmitAcknowledged, storeVars, localVars, Withdrawn
    <2> QED
      BY <1>2, <2>2
  <1>10. CASE NextPage(d)
    <2>1. PICK c : c = [client[d] EXCEPT !.view = Accepted(d).view]
      OBVIOUS
    <2>2. AskSync(d, c) /\ UNCHANGED <<file, issued, reg, strays>> /\ cancelled' \subseteq Withdrawn
      BY <1>10, <2>1 DEF NextPage, storeVars, localVars, history, Withdrawn
    <2> QED
      BY <1>2, <2>2
  <1> QED
    BY <1>3, <1>4, <1>5, <1>6, <1>7, <1>8, <1>9, <1>10

\* A message is queued, sent or not.
LEMMA SubmitIsQuiet ==
    ASSUME CollaborationInv, NEW d \in Devices, NEW key, NEW payload, Submit(d, key, payload)
    PROVE  Quiet(d)
  <1>1. PICK u, c : u = Queued(client[d].view, key, payload) /\ c = [client[d] EXCEPT !.view = u]
    OBVIOUS
  <1>2. /\ Idle(d) /\ UNCHANGED <<file, issued, reg, strays>> /\ cancelled' \subseteq Withdrawn
    BY DEF Submit, storeVars, localVars, history, Withdrawn
  <1>3. [client[d] EXCEPT !.view = Queued(@, key, payload)] = c
    BY <1>1
  <1>4. CASE CanSend(c.view)
    <2>1. PICK q : q = [op |-> "submit", msg |-> Outgoing(c.view)]
      OBVIOUS
    <2>2. Ask(d, c, q) /\ q.op # "join"
      BY <1>3, <1>4, <2>1 DEF Submit
    <2> QED
      BY <1>2, <2>2, AskQuiet
  <1>5. CASE ~CanSend(c.view)
    <2>1. client' = [client EXCEPT ![d] = c] /\ UNCHANGED wire
      BY <1>3, <1>5 DEF Submit
    <2>2. client'[d] = c /\ \A e \in Devices \ {d} : client'[e] = client[e]
      BY <2>1, StoredFacts
    <2>3. c.asking = None
      <3>1. PICK c0 : c0 = client[d]
        OBVIOUS
      <3>2. c0 = [member |-> c0.member, view |-> c0.view, stage |-> c0.stage, asking |-> c0.asking]
        BY <1>2, <3>1, IdleClient DEF GoodClient
      <3>3. c = [c0 EXCEPT !.view = u] /\ c0.asking = None
        BY <1>1, <1>2, <3>1 DEF Idle
      <3> QED
        BY <3>2, <3>3
    <2>4. ~Got(d, "cancel")'
      BY <2>2, <2>3 DEF Got, Busy
    <2> QED
      BY <1>2, <2>1, <2>2, <2>4 DEF Quiet
  <1> QED
    BY <1>4, <1>5

\* A desktop connects or disconnects.
LEMMA ConnectingIsQuiet ==
    ASSUME CollaborationInv, NEW d \in Devices, Reconnect(d) \/ Disconnect(d)
    PROVE  Quiet(d)
  <1>1. CASE Reconnect(d)
    <2>1. PICK q : q = [op |-> "auth", member |-> reg[d]]
      OBVIOUS
    <2>2. q.op # "join"
      BY <2>1
    <2>3. /\ wire' = [wire EXCEPT ![d] = Opened(q)]
          /\ UNCHANGED <<file, issued, reg, strays, cancelled>>
      BY <1>1, <2>1 DEF Reconnect, storeVars, localVars, history
    <2>4. PICK c : client' = [client EXCEPT ![d] = c]
      BY <1>1 DEF Reconnect
    <2> QED
      BY <2>2, <2>3, <2>4, OpenQuiet
  <1>2. CASE Disconnect(d)
    <2>1. /\ client' = [client EXCEPT ![d].view = Disconnected(@)]
          /\ wire' = [wire EXCEPT ![d] = Unconnected]
          /\ UNCHANGED <<file, issued, reg, strays, cancelled>>
      BY <1>2 DEF Disconnect, storeVars, localVars, history
    <2>2. /\ wire'[d] = Unconnected
          /\ \A e \in Devices \ {d} : client'[e] = client[e] /\ wire'[e] = wire[e]
      BY <2>1, StoredFacts
    <2>3. ~Waiting(wire'[d]) /\ wire'[d].reply = None
      BY <2>2 DEF Unconnected, Waiting
    <2>4. ~Got(d, "cancel")' /\ \A x \in Devices : ~JoinOpen(wire'[d], x)
      BY <2>3 DEF Got, JoinOpen
    <2> QED
      BY <2>1, <2>2, <2>4 DEF Quiet, Withdrawn
  <1> QED
    BY <1>1, <1>2

\* The owner connects.
LEMMA OwnerIsQuiet ==
    ASSUME CollaborationInv, StartOwner
    PROVE  Quiet(OwnerDevice)
  <1>1. PICK d, q, c : /\ d = OwnerDevice /\ q = [op |-> "auth", member |-> Owner]
                       /\ c = NewClient(Owner, "owner", q)
    OBVIOUS
  <1>2. d \in Devices /\ q.op # "join"
    BY <1>1, Limits
  <1>3. /\ client' = [client EXCEPT ![d] = c] /\ wire' = [wire EXCEPT ![d] = Opened(q)]
        /\ UNCHANGED <<file, issued, reg, strays, cancelled>>
    BY <1>1 DEF StartOwner, storeVars, localVars, history
  <1>4. Quiet(d)
    BY <1>2, <1>3, OpenQuiet
  <1> QED
    BY <1>1, <1>4

\* An invitation arrives, or the last page.
LEMMA EndingIsQuiet ==
    ASSUME CollaborationInv, NEW d \in Devices, InviteReceived(d) \/ LastPage(d)
    PROVE  Quiet(d)
  <1>1. PICK c0 : c0 = client[d]
    OBVIOUS
  <1>2. \E op : Got(d, op)
    BY DEF InviteReceived, LastPage
  <1>3. GoodClient(c0)
    BY <1>1, <1>2, ReplyCame
  <1>4. c0 = [member |-> c0.member, view |-> c0.view, stage |-> c0.stage, asking |-> c0.asking]
    BY <1>3 DEF GoodClient
  <1>5. /\ UNCHANGED <<file, issued, strays, cancelled>> /\ UNCHANGED wire
    BY DEF InviteReceived, LastPage, storeVars, history
  <1>6. CASE InviteReceived(d)
    <2>1. client' = [client EXCEPT ![d].asking = None] /\ UNCHANGED reg
      BY <1>6 DEF InviteReceived, localVars
    <2>2. client'[d] = [c0 EXCEPT !.asking = None] /\ \A e \in Devices \ {d} : client'[e] = client[e]
      BY <1>1, <2>1, StoredFacts
    <2>3. client'[d].asking = None
      BY <1>4, <2>2
    <2>4. ~Got(d, "cancel")'
      BY <2>3 DEF Got, Busy
    <2> QED
      BY <1>5, <2>1, <2>2, <2>4 DEF Quiet, Withdrawn
  <1>7. CASE LastPage(d)
    <2>1. PICK w : w = Accepted(d).view
      OBVIOUS
    <2>2. /\ client' = [client EXCEPT ![d] = [c0 EXCEPT !.view = w, !.stage = "held",
                                                       !.asking = None]]
          /\ reg' = IF c0.stage \in {"joining", "owner"} THEN [reg EXCEPT ![d] = c0.member]
                    ELSE reg
      BY <1>1, <1>7, <2>1 DEF LastPage
    <2>3. /\ client'[d] = [c0 EXCEPT !.view = w, !.stage = "held", !.asking = None]
          /\ \A e \in Devices \ {d} : client'[e] = client[e]
      BY <2>2, StoredFacts
    <2>4. client'[d].asking = None
      BY <1>4, <2>3
    <2>5. ~Got(d, "cancel")'
      BY <2>4 DEF Got, Busy
    <2>6. c0.member \in Members
      BY <1>1, <1>7, ReplyCame, StoredFacts DEF LastPage
    <2>7. /\ \A e \in Devices \ {d} : reg'[e] = reg[e]
          /\ reg'[d] = "none" => reg[d] = "none"
      BY <2>2, <2>6, StoredFacts, CollaborationAssumption DEF CollaborationAssumption
    <2> QED
      BY <1>5, <2>3, <2>5, <2>7 DEF Quiet, Withdrawn
  <1> QED
    BY <1>6, <1>7

\* A client gives up, or ends.
LEMMA FailingIsQuiet ==
    ASSUME CollaborationInv, NEW d \in Devices,
           \/ LocalFailure(d) \/ Refused(d) \/ Lost(d) \/ (Crash(d) /\ d # OwnerDevice)
    PROVE  Quiet(d)
  <1>1. CASE LocalFailure(d) \/ Refused(d) \/ Lost(d)
    <2>1. Busy(d) /\ Failed(d) /\ UNCHANGED <<file, issued, cancelled>>
      BY <1>1 DEF LocalFailure, Refused, Lost, Got, storeVars, history
    <2>2. reg' = reg \/ reg' = [reg EXCEPT ![d] = "begun"]
      BY <1>1 DEF LocalFailure, Refused, Lost, localVars
    <2> QED
      BY <2>1, <2>2, FailQuiet
  <1>2. CASE Crash(d) /\ d # OwnerDevice
    <2>1. /\ client' = [client EXCEPT ![d] = None] /\ wire' = [wire EXCEPT ![d] = Unconnected]
          /\ strays' \in Abandoned(wire[d]) /\ UNCHANGED <<file, issued, reg, cancelled>>
      BY <1>2 DEF Crash, storeVars, localVars, history
    <2>2. /\ wire'[d] = Unconnected
          /\ \A e \in Devices \ {d} : client'[e] = client[e] /\ wire'[e] = wire[e]
      BY <2>1, StoredFacts
    <2>3. ~Waiting(wire'[d]) /\ wire'[d].reply = None
      BY <2>2 DEF Unconnected, Waiting
    <2>4. ~Got(d, "cancel")' /\ \A x \in Devices : ~JoinOpen(wire'[d], x)
      BY <2>3 DEF Got, JoinOpen
    <2>5. strays' \subseteq strays \cup {wire[d]}
      BY <2>1 DEF Abandoned
    <2> QED
      BY <2>1, <2>2, <2>3, <2>4, <2>5 DEF Quiet, Withdrawn
  <1> QED
    BY <1>1, <1>2

\* The host and all its sockets are gone.
LEMMA CutEnrolment ==
    ASSUME CollaborationInv, CollaborationInv', EnrolmentInv,
           UNCHANGED <<file, issued, reg, cancelled>>, strays' = {},
           \A e \in Devices : wire'[e] = Unconnected \/ wire'[e] = Cut(wire[e]),
           \A e \in Devices : client'[e] = client[e] \/ client'[e] = None
    PROVE  EnrolmentInv'
  <1>1. ASSUME NEW e \in Devices
        PROVE  /\ ~Waiting(wire'[e])
               /\ wire'[e].reply # None => wire'[e].reply = wire[e].reply
    <2>1. GoodSession(wire[e]) /\ Desk(file, e, client[e], wire[e], reg[e], vault[e])
      BY DEF CollaborationInv, DesksGood, Desk
    <2>2. CASE wire'[e] = Unconnected
      BY <2>2 DEF Unconnected, Waiting
    <2>3. CASE wire'[e] = Cut(wire[e])
      <3>1. ~Waiting(wire'[e])
        BY <2>1, <2>3, DeskCut
      <3>2. Cut(wire[e]).reply = wire[e].reply
        BY <2>1 DEF Cut, GoodSession
      <3> QED
        BY <2>3, <3>1, <3>2
    <2> QED
      BY <2>2, <2>3
  <1>2. \A e, x \in Devices : ~JoinOpen(wire'[e], x)
    BY <1>1 DEF JoinOpen
  <1>3. Withdrawn' \subseteq Withdrawn
    <2>1. ASSUME NEW e \in Devices, Got(e, "cancel")'
          PROVE  Got(e, "cancel") /\ client'[e].asking = client[e].asking
      <3>1. client'[e] # None /\ wire'[e].reply # None /\ wire'[e].reply.err = "none"
            /\ client'[e].asking # None /\ client'[e].asking.op = "cancel"
        BY <2>1 DEF Got, Busy
      <3>2. client'[e] = client[e] /\ wire'[e].reply = wire[e].reply
        BY <1>1, <3>1
      <3> QED
        BY <3>1, <3>2 DEF Got, Busy
    <2>2. Cancelling' \subseteq Cancelling
      BY <2>1 DEF Cancelling
    <2> QED
      BY <2>2 DEF Withdrawn
  <1>4. /\ \A e \in Devices : reg'[e] = "none" => reg[e] = "none"
        /\ \A s \in strays' \ strays : \E e \in Devices : s = wire[e] /\ ~Waiting(wire'[e])
        /\ UNCHANGED <<file, issued>>
    OBVIOUS
  <1> QED
    BY <1>2, <1>3, <1>4, EnrolmentKept

\* A device that registers for the first time opens its only join.
LEMMA StartJoinEnrolment ==
    ASSUME CollaborationInv, CollaborationInv', EnrolmentInv, NEW d \in Devices, NEW i,
           StartJoin(d, i)
    PROVE  EnrolmentInv'
  <1>1. PICK q : q = [op |-> "join", invite |-> i, device |-> d]
    OBVIOUS
  <1>2. /\ reg[d] = "none" /\ client[d] = None /\ reg' = [reg EXCEPT ![d] = "begun"]
        /\ UNCHANGED <<file, issued, strays, cancelled>>
    BY DEF StartJoin, storeVars, history
  <1>3. /\ reg'[d] = "begun" /\ \A e \in Devices \ {d} : reg'[e] = reg[e]
    BY <1>2, StoredFacts
  <1>4. CASE UNCHANGED <<client, wire>>
    <2>1. ~Got(d, "cancel")'
      BY <1>2, <1>4 DEF Got, Busy
    <2>2. Quiet(d)
      BY <1>2, <1>3, <1>4, <2>1 DEF Quiet, Withdrawn
    <2> QED
      BY <2>2, QuietStep
  <1>5. CASE /\ client' = [client EXCEPT ![d] = NewClient(None, "joining", q)]
             /\ wire' = [wire EXCEPT ![d] = Opened(q)]
    <2>1. /\ wire'[d] = Opened(q)
          /\ \A e \in Devices \ {d} : client'[e] = client[e] /\ wire'[e] = wire[e]
      BY <1>5, StoredFacts
    <2>2. wire'[d].reply = None /\ wire'[d].request = q
      BY <2>1 DEF Opened
    <2>3. ASSUME NEW x \in Devices, JoinOpen(wire'[d], x) PROVE x = d
      BY <1>1, <2>2, <2>3 DEF JoinOpen
    <2>4. /\ \A s \in Sessions : ~JoinOpen(s, d)
          /\ ~Enrolled(d) /\ JoinsGood
      BY <1>2 DEF EnrolmentInv, JoinsGood
    <2>5. \A e \in Devices : Enrolled(e)' <=> Enrolled(e)
      BY <1>2 DEF Enrolled
    <2>6. \A x, e \in Devices : JoinOpen(wire'[e], x) => e = x
      BY <2>1, <2>3, <2>4 DEF JoinsGood
    <2>7. \A x \in Devices, s \in strays' : JoinOpen(s, x) => ~JoinOpen(wire'[x], x)
      BY <1>2, <2>1, <2>4 DEF JoinsGood, Sessions
    <2>8. \A x \in Devices, s, t \in strays' : JoinOpen(s, x) /\ JoinOpen(t, x) => s = t
      BY <1>2, <2>4 DEF JoinsGood
    <2>9. ASSUME NEW x \in Devices, NEW s \in Sessions', JoinOpen(s, x)
          PROVE  reg'[x] # "none" /\ ~Enrolled(x)'
      <3>1. CASE x = d
        BY <1>3, <2>4, <2>5, <3>1
      <3>2. CASE x # d
        <4>1. s \in Sessions
          BY <1>2, <2>1, <2>3, <2>9, <3>2 DEF Sessions
        <4> QED
          BY <1>3, <2>4, <2>5, <2>9, <3>2, <4>1 DEF JoinsGood
      <3> QED
        BY <3>1, <3>2
    <2>10. \A x \in Devices : Enrolled(x)' => reg'[x] # "none"
      BY <1>3, <2>4, <2>5 DEF JoinsGood
    <2>11. JoinsGood'
      BY <2>6, <2>7, <2>8, <2>9, <2>10 DEF JoinsGood
    <2>12. Withdrawn' \subseteq Withdrawn
      <3>1. ASSUME NEW e \in Devices, Got(e, "cancel")'
            PROVE  Got(e, "cancel") /\ client'[e].asking = client[e].asking
        <4>1. e # d
          BY <2>2, <3>1 DEF Got
        <4> QED
          BY <2>1, <3>1, <4>1 DEF Got, Busy
      <3>2. Cancelling' \subseteq Cancelling
        BY <3>1 DEF Cancelling
      <3> QED
        BY <1>2, <3>2 DEF Withdrawn
    <2>13. OneEnrolmentPerDevice'
      BY <1>2 DEF EnrolmentInv, OneEnrolmentPerDevice
    <2>14. AccountsGood'
      <3>1. Balanced(Joiners, DOMAIN file.invites, Withdrawn, issued)
        BY AccountsBalance DEF EnrolmentInv
      <3>2. Balanced(Joiners, DOMAIN file.invites, Withdrawn', issued)
        BY <2>12, <3>1, BalanceShrinks
      <3>3. Balanced(Joiners, DOMAIN file.invites, Withdrawn, issued)'
        BY <1>2, <3>2 DEF Joiners
      <3>4. (CollaborationInv => (AccountsGood <=>
                Balanced(Joiners, DOMAIN file.invites, Withdrawn, issued)))'
        BY AccountsBalance, PTL
      <3> QED
        BY <3>3, <3>4
    <2> QED
      BY <2>11, <2>13, <2>14 DEF EnrolmentInv
  <1> QED
    BY <1>1, <1>4, <1>5 DEF StartJoin

\* Devices of members never change.
LEMMA SameMembers ==
    ASSUME Grows(file, file'), DOMAIN file'.members = DOMAIN file.members
    PROVE  /\ \A d : Enrolled(d)' <=> Enrolled(d)
           /\ OneEnrolmentPerDevice => OneEnrolmentPerDevice'
           /\ Joiners' = Joiners
  <1>1. \A m \in DOMAIN file.members : file'.members[m].device = file.members[m].device
    BY DEF Grows, MembersGrow, MemberGrows
  <1>2. \A d : Enrolled(d)' <=> Enrolled(d)
    BY <1>1 DEF Enrolled
  <1>3. OneEnrolmentPerDevice => OneEnrolmentPerDevice'
    BY <1>1 DEF OneEnrolmentPerDevice
  <1> QED
    BY <1>2, <1>3 DEF Joiners

\* The host handled s: no other join is open for its device, and a cancellation is
\* counted only if it was made.
Handled(s) ==
    /\ s \in Sessions /\ Waiting(s) /\ GoodRequest(s.request)
    /\ UNCHANGED <<reg, cancelled>> /\ strays' \subseteq strays
    /\ \A e, x \in Devices : JoinOpen(wire'[e], x) => JoinOpen(wire[e], x)
    /\ \A x \in Devices : JoinOpen(s, x) => \A t \in Sessions' : ~JoinOpen(t, x)

\* The accounts follow from a balance in the new state.
LEMMA AccountsFollow ==
    ASSUME CollaborationInv',
           Balanced(Joiners', DOMAIN file'.invites, Withdrawn', issued')
    PROVE  AccountsGood'
  <1>1. (CollaborationInv => (AccountsGood <=>
            Balanced(Joiners, DOMAIN file.invites, Withdrawn, issued)))'
    BY AccountsBalance, PTL
  <1> QED
    BY <1>1

\* A step that leaves members as they are keeps the joins.
LEMMA NoneJoined ==
    ASSUME EnrolmentInv, Grows(file, file'), DOMAIN file'.members = DOMAIN file.members,
           NEW s, Handled(s)
    PROVE  JoinsGood' /\ OneEnrolmentPerDevice' /\ Joiners' = Joiners
  <1>1. /\ \A d : Enrolled(d)' <=> Enrolled(d)
        /\ OneEnrolmentPerDevice' /\ Joiners' = Joiners
    BY SameMembers DEF EnrolmentInv
  <1>2. /\ \A e \in Devices : reg'[e] = "none" => reg[e] = "none"
        /\ \A e, x \in Devices : JoinOpen(wire'[e], x) => JoinOpen(wire[e], x)
        /\ \A t \in strays' \ strays : \E e \in Devices : t = wire[e] /\ ~Waiting(wire'[e])
    BY DEF Handled
  <1>3. JoinsGood'
    BY <1>1, <1>2, JoinsKept DEF EnrolmentInv
  <1> QED
    BY <1>1, <1>3

\* A member joined: its device was not enrolled, and no other join of it is open.
LEMMA OneJoined ==
    ASSUME CollaborationInv, EnrolmentInv, Grows(file, file'), NEW s, Handled(s),
           s.request.op = "join", NEW v,
           JoinedWith(file, file', s.request.invite, v, s.request.device)
    PROVE  JoinsGood' /\ OneEnrolmentPerDevice' /\ Joiners' = Joiners \cup {v}
  <1>1. PICK x : x = s.request.device
    OBVIOUS
  <1>2. x \in Devices /\ JoinOpen(s, x) /\ s \in Sessions
    BY <1>1 DEF Handled, GoodRequest, JoinOpen
  <1>3. reg[x] # "none" /\ ~Enrolled(x) /\ JoinsGood
    BY <1>2 DEF EnrolmentInv, JoinsGood
  <1>4. \A m \in DOMAIN file.members : file'.members[m].device = file.members[m].device
    BY DEF Grows, MembersGrow, MemberGrows
  <1>5. /\ v \notin DOMAIN file.members /\ v # Owner
        /\ DOMAIN file'.members = DOMAIN file.members \cup {v} /\ file'.members[v].device = x
    BY <1>1, GoodFacts DEF JoinedWith, CollaborationInv, StoreGood
  <1>6. ASSUME NEW e, Enrolled(e)' PROVE Enrolled(e) \/ e = x
    BY <1>4, <1>5, <1>6 DEF Enrolled
  <1>7. Joiners' = Joiners \cup {v}
    BY <1>5 DEF Joiners
  <1>8. OneEnrolmentPerDevice'
    <2>1. OneEnrolmentPerDevice
      BY DEF EnrolmentInv
    <2>2. ASSUME NEW m \in DOMAIN file'.members \ {Owner}, NEW n \in DOMAIN file'.members \ {Owner},
                 file'.members[m].device = file'.members[n].device
          PROVE  m = n
      <3>1. CASE m \in DOMAIN file.members /\ n \in DOMAIN file.members
        BY <1>4, <2>1, <2>2, <3>1 DEF OneEnrolmentPerDevice
      <3>2. CASE m = v /\ n \in DOMAIN file.members
        BY <1>3, <1>4, <1>5, <2>2, <3>2 DEF Enrolled
      <3>3. CASE n = v /\ m \in DOMAIN file.members
        BY <1>3, <1>4, <1>5, <2>2, <3>3 DEF Enrolled
      <3> QED
        BY <1>5, <3>1, <3>2, <3>3
    <2> QED
      BY <2>2 DEF OneEnrolmentPerDevice
  <1>9. /\ \A e, y \in Devices : JoinOpen(wire'[e], y) => JoinOpen(wire[e], y)
        /\ strays' \subseteq strays /\ reg' = reg
        /\ \A t \in Sessions' : ~JoinOpen(t, x)
    BY <1>2 DEF Handled
  <1>10. \A d, e \in Devices : JoinOpen(wire'[e], d) => e = d
    BY <1>3, <1>9 DEF JoinsGood
  <1>11. \A d \in Devices, t \in strays' : JoinOpen(t, d) => ~JoinOpen(wire'[d], d)
    BY <1>3, <1>9 DEF JoinsGood
  <1>12. \A d \in Devices, t, u \in strays' : JoinOpen(t, d) /\ JoinOpen(u, d) => t = u
    BY <1>3, <1>9 DEF JoinsGood
  <1>13. ASSUME NEW d \in Devices, NEW t \in Sessions', JoinOpen(t, d)
         PROVE  reg'[d] # "none" /\ ~Enrolled(d)'
    <2>1. d # x
      BY <1>9, <1>13
    <2>2. \E u \in Sessions : JoinOpen(u, d)
      BY <1>9, <1>13 DEF Sessions
    <2> QED
      BY <1>3, <1>6, <1>9, <2>1, <2>2 DEF JoinsGood
  <1>14. \A d \in Devices : Enrolled(d)' => reg'[d] # "none"
    BY <1>3, <1>6, <1>9 DEF JoinsGood
  <1>15. JoinsGood'
    BY <1>10, <1>11, <1>12, <1>13, <1>14 DEF JoinsGood
  <1> QED
    BY <1>7, <1>8, <1>15

\* What a handled request does to the accounts.
LEMMA RollStep ==
    ASSUME CollaborationInv, CollaborationInv', EnrolmentInv, Grows(file, file'),
           NEW s, Handled(s), NEW id,
           issued' = issued \cup DOMAIN file'.invites,
           \/ SameRoll(file, file') /\ Withdrawn' \subseteq Withdrawn
           \/ /\ \E v : RollAfter(file, file', s, id, v)
              /\ \/ Withdrawn' \subseteq Withdrawn
                 \/ /\ s.request.op = "cancel"
                    /\ Withdrawn' \subseteq Withdrawn \cup {s.request.invite}
    PROVE  EnrolmentInv'
  <1>1. Balanced(Joiners, DOMAIN file.invites, Withdrawn, issued)
    BY AccountsBalance DEF EnrolmentInv
  <1>2. DOMAIN file.invites \subseteq issued
    BY <1>1 DEF Balanced
  <1>3. CASE SameRoll(file, file') /\ Withdrawn' \subseteq Withdrawn
    <2>1. DOMAIN file'.members = DOMAIN file.members /\ file'.invites = file.invites
          /\ issued' = issued
      BY <1>2, <1>3 DEF SameRoll
    <2>2. JoinsGood' /\ OneEnrolmentPerDevice' /\ Joiners' = Joiners
      BY <2>1, NoneJoined
    <2>3. Balanced(Joiners', DOMAIN file'.invites, Withdrawn', issued')
      BY <1>1, <1>3, <2>1, <2>2, BalanceShrinks
    <2> QED
      BY <2>2, <2>3, AccountsFollow DEF EnrolmentInv
  <1>4. ASSUME NEW v, RollAfter(file, file', s, id, v), s.request.op = "join",
               Withdrawn' \subseteq Withdrawn
        PROVE  EnrolmentInv'
    <2>1. PICK i : i = s.request.invite
      OBVIOUS
    <2>2. JoinedWith(file, file', s.request.invite, v, s.request.device)
      BY <1>4 DEF RollAfter
    <2>3. JoinsGood' /\ OneEnrolmentPerDevice' /\ Joiners' = Joiners \cup {v}
      BY <1>4, <2>2, OneJoined
    <2>4. i \in DOMAIN file.invites /\ DOMAIN file'.invites = DOMAIN file.invites \ {i}
          /\ issued' = issued
      BY <1>2, <2>1, <2>2 DEF JoinedWith
    <2>5. Balanced(Joiners \cup {v}, DOMAIN file.invites \ {i}, Withdrawn', issued)
      BY <1>1, <1>4, <2>4, BalanceJoins
    <2>6. Balanced(Joiners', DOMAIN file'.invites, Withdrawn', issued')
      BY <2>3, <2>4, <2>5
    <2> QED
      BY <2>3, <2>6, AccountsFollow DEF EnrolmentInv
  <1>5. ASSUME NEW v, RollAfter(file, file', s, id, v), s.request.op = "invite",
               Withdrawn' \subseteq Withdrawn
        PROVE  EnrolmentInv'
    <2>1. /\ DOMAIN file'.members = DOMAIN file.members /\ id \notin issued
          /\ DOMAIN file'.invites \subseteq DOMAIN file.invites \cup {id}
      BY <1>5 DEF RollAfter
    <2>2. JoinsGood' /\ OneEnrolmentPerDevice' /\ Joiners' = Joiners
      BY <2>1, NoneJoined
    <2>3. Balanced(Joiners, DOMAIN file'.invites, Withdrawn', issued \cup DOMAIN file'.invites)
      BY <1>1, <1>5, <2>1, BalanceInvites
    <2>4. Balanced(Joiners', DOMAIN file'.invites, Withdrawn', issued')
      BY <2>2, <2>3
    <2> QED
      BY <2>2, <2>4, AccountsFollow DEF EnrolmentInv
  <1>6. ASSUME NEW v, RollAfter(file, file', s, id, v), s.request.op = "cancel",
               Withdrawn' \subseteq Withdrawn \cup {s.request.invite}
        PROVE  EnrolmentInv'
    <2>1. PICK i : i = s.request.invite
      OBVIOUS
    <2>2. /\ DOMAIN file'.members = DOMAIN file.members
          /\ i \in DOMAIN file.invites /\ DOMAIN file'.invites = DOMAIN file.invites \ {i}
          /\ issued' = issued /\ Withdrawn' \subseteq Withdrawn \cup {i}
      BY <1>2, <1>6, <2>1 DEF RollAfter
    <2>3. JoinsGood' /\ OneEnrolmentPerDevice' /\ Joiners' = Joiners
      BY <2>2, NoneJoined
    <2>4. Balanced(Joiners, DOMAIN file.invites \ {i}, Withdrawn', issued)
      BY <1>1, <2>2, BalanceWithdraws
    <2>5. Balanced(Joiners', DOMAIN file'.invites, Withdrawn', issued')
      BY <2>2, <2>3, <2>4
    <2> QED
      BY <2>3, <2>5, AccountsFollow DEF EnrolmentInv
  <1>7. ASSUME NEW v, RollAfter(file, file', s, id, v),
               s.request.op \notin {"join", "invite", "cancel"}
        PROVE  SameRoll(file, file')
    BY <1>7 DEF RollAfter
  <1> QED
    BY <1>3, <1>4, <1>5, <1>6, <1>7

\* The fields of a session that was answered.
LEMMA AnsweredFields ==
    ASSUME NEW s, GoodSession(s), NEW o
    PROVE  /\ Answered(s, o).request = None /\ Answered(s, o).reply = o
           /\ ~Waiting(Answered(s, o))
  <1>1. PICK t : t = Answered(s, o)
    OBVIOUS
  <1>2. PICK p, w, q, y : s = [phase |-> p, who |-> w, request |-> q, reply |-> y]
    BY DEF GoodSession
  <1>3. PICK p2, w2 : t = [s EXCEPT !.request = None, !.reply = o, !.phase = p2, !.who = w2]
    BY <1>1 DEF Answered
  <1>4. t = [phase |-> p2, who |-> w2, request |-> None, reply |-> o]
    BY <1>2, <1>3
  <1>5. t.request = None /\ t.reply = o
    BY <1>4
  <1> QED
    BY <1>1, <1>5 DEF Waiting

\* The session of a client was handled.
LEMMA WireHandled ==
    ASSUME CollaborationInv, EnrolmentInv, NEW d \in Devices, Waiting(wire[d]),
           GoodRequest(wire[d].request), NEW o,
           wire' = [wire EXCEPT ![d] = Answered(@, o)],
           UNCHANGED <<client, reg, cancelled, strays>>
    PROVE  /\ Handled(wire[d])
           /\ \/ Withdrawn' \subseteq Withdrawn
              \/ /\ o.err = "none" /\ wire[d].request.op = "cancel"
                 /\ Withdrawn' \subseteq Withdrawn \cup {wire[d].request.invite}
  <1>1. PICK s : s = wire[d]
    OBVIOUS
  <1>2. /\ GoodSession(s) /\ Desk(file, d, client[d], s, reg[d], vault[d])
    BY <1>1 DEF CollaborationInv, DesksGood, Desk
  <1>3. /\ wire'[d] = Answered(s, o) /\ \A e \in Devices \ {d} : wire'[e] = wire[e]
    BY <1>1, StoredFacts
  <1>4. /\ wire'[d].reply = o /\ ~Waiting(wire'[d])
    BY <1>2, <1>3, AnsweredFields
  <1>5. \A e, x \in Devices : JoinOpen(wire'[e], x) => JoinOpen(wire[e], x) /\ e # d
    BY <1>3, <1>4 DEF JoinOpen
  <1>6. ASSUME NEW x \in Devices, JoinOpen(s, x), NEW t \in Sessions', JoinOpen(t, x)
        PROVE  FALSE
    <2>1. x = d
      BY <1>1, <1>6 DEF EnrolmentInv, JoinsGood
    <2>2. CASE t \in strays
      BY <1>1, <1>6, <2>1, <2>2 DEF EnrolmentInv, JoinsGood
    <2>3. ASSUME NEW e \in Devices, t = wire'[e] PROVE FALSE
      BY <1>5, <1>6, <2>1, <2>3 DEF EnrolmentInv, JoinsGood
    <2> QED
      BY <1>6, <2>2, <2>3 DEF Sessions
  <1>7. Handled(s)
    <2>1. s \in Sessions /\ Waiting(s) /\ GoodRequest(s.request)
      BY <1>1 DEF Sessions
    <2> QED
      BY <1>5, <1>6, <2>1 DEF Handled
  <1>8. ASSUME NEW e \in Devices, Got(e, "cancel")'
        PROVE  \/ Got(e, "cancel") /\ client'[e].asking = client[e].asking
               \/ /\ o.err = "none" /\ s.request.op = "cancel"
                  /\ client'[e].asking.invite = s.request.invite
    <2>1. CASE e # d
      <3>1. client'[e] = client[e] /\ wire'[e] = wire[e]
        BY <1>3, <2>1
      <3> QED
        BY <1>8, <3>1 DEF Got, Busy
    <2>2. CASE e = d
      <3>1. /\ client[d] # None /\ client[d].asking.op = "cancel" /\ o.err = "none"
        BY <1>4, <1>8, <2>2 DEF Got, Busy
      <3>2. client[d].asking = s.request
        BY <1>1, <1>2, <3>1 DEF Desk, Linked, Waiting
      <3> QED
        BY <2>2, <3>1, <3>2
    <2> QED
      BY <2>1, <2>2
  <1>9. CASE o.err = "none" /\ s.request.op = "cancel"
    <2>1. Cancelling' \subseteq Cancelling \cup {s.request.invite}
      BY <1>8 DEF Cancelling
    <2> QED
      BY <1>1, <1>7, <1>9, <2>1 DEF Withdrawn
  <1>10. CASE ~(o.err = "none" /\ s.request.op = "cancel")
    <2>1. Cancelling' \subseteq Cancelling
      BY <1>8, <1>10 DEF Cancelling
    <2> QED
      BY <1>1, <1>7, <2>1 DEF Withdrawn
  <1> QED
    BY <1>9, <1>10

\* A request is handled.
LEMMA HandleEnrolment ==
    ASSUME CollaborationInv, EnrolmentInv, NEW d \in Devices, Handle(d)
    PROVE  EnrolmentInv'
  <1>1. CollaborationInv' /\ Grows(file, file')
    BY HandleStep
  <1>2. Waiting(wire[d]) /\ GoodRequest(wire[d].request)
    BY HandleServes
  <1>3. PICK x, id : /\ Served(x, wire[d], id) /\ Install(x)
                     /\ wire' = [wire EXCEPT ![d] = Answered(@, Reply(x.outcome))]
    BY HandleServes
  <1>4. PICK s, o : s = wire[d] /\ o = Reply(x.outcome)
    OBVIOUS
  <1>5. UNCHANGED <<client, reg, cancelled, strays>>
    BY DEF Handle, localVars
  <1>6. wire' = [wire EXCEPT ![d] = Answered(@, o)]
    BY <1>3, <1>4
  <1>7. /\ Handled(s)
        /\ \/ Withdrawn' \subseteq Withdrawn
           \/ /\ o.err = "none" /\ s.request.op = "cancel"
              /\ Withdrawn' \subseteq Withdrawn \cup {s.request.invite}
    BY <1>2, <1>4, <1>5, <1>6, WireHandled
  <1>8. file' = x.file /\ issued' = issued \cup DOMAIN file'.invites
    BY <1>3 DEF Install
  <1>9. /\ SameRoll(file, file') \/ \E v : RollAfter(file, file', s, id, v)
        /\ x.outcome.err = "none" => \E v : RollAfter(file, file', s, id, v)
    BY <1>3, <1>4, <1>8 DEF Served
  <1>10. o.err = "none" => x.outcome.err = "none"
    BY <1>4 DEF Reply
  <1> QED
    BY <1>1, <1>7, <1>8, <1>9, <1>10, RollStep

\* A request that was given up is handled.
LEMMA HandleStrayEnrolment ==
    ASSUME CollaborationInv, EnrolmentInv, NEW s \in strays, HandleStray(s)
    PROVE  EnrolmentInv'
  <1>1. CollaborationInv' /\ Grows(file, file')
    BY HandleStrayStep
  <1>2. PICK now \in Times, id \in FreshIds(s.request) : \E x \in Answers(s, now, id) : Install(x)
    BY DEF HandleStray
  <1>3. PICK x \in Answers(s, now, id) : Install(x)
    BY <1>2
  <1>4. /\ memory # None /\ strays' = strays \ {s}
        /\ UNCHANGED <<reg, client, wire, cancelled>>
    BY DEF HandleStray, localVars
  <1>5. StoreGood /\ GoodRequest(s.request) /\ Waiting(s)
    BY DEF CollaborationInv, StraysGood, GoodSession, Waiting
  <1>6. Served(x, s, id)
    BY <1>2, <1>3, <1>4, <1>5, AnswersMove
  <1>7. ASSUME NEW y \in Devices, JoinOpen(s, y), NEW t \in Sessions', JoinOpen(t, y)
        PROVE  FALSE
    <2>1. CASE t \in strays \ {s}
      BY <1>7, <2>1 DEF EnrolmentInv, JoinsGood
    <2>2. ASSUME NEW e \in Devices, t = wire[e] PROVE FALSE
      BY <1>7, <2>2 DEF EnrolmentInv, JoinsGood
    <2> QED
      BY <1>4, <1>7, <2>1, <2>2 DEF Sessions
  <1>8. Handled(s)
    <2>1. s \in Sessions
      BY DEF Sessions
    <2> QED
      BY <1>4, <1>5, <1>7, <2>1 DEF Handled
  <1>9. Withdrawn' \subseteq Withdrawn
    BY <1>4 DEF Withdrawn, Cancelling, Got, Busy
  <1>10. file' = x.file /\ issued' = issued \cup DOMAIN file'.invites
    BY <1>3 DEF Install
  <1>11. SameRoll(file, file') \/ \E v : RollAfter(file, file', s, id, v)
    BY <1>6, <1>10 DEF Served
  <1> QED
    BY <1>1, <1>8, <1>9, <1>10, <1>11, RollStep

\* The limiter refuses a request.
LEMMA RefuseEnrolment ==
    ASSUME CollaborationInv, EnrolmentInv, NEW d \in Devices, Refuse(d)
    PROVE  EnrolmentInv'
  <1>1. CollaborationInv' /\ UNCHANGED <<file, issued>>
    BY RefuseStep DEF Refuse, history
  <1>2. PICK o : o = Fail("busy")
    OBVIOUS
  <1>3. /\ Waiting(wire[d]) /\ wire' = [wire EXCEPT ![d] = Answered(@, o)]
        /\ UNCHANGED <<client, reg, cancelled, strays>>
    BY <1>2 DEF Refuse, localVars, history
  <1>4. GoodRequest(wire[d].request)
    BY <1>3, StoredFacts DEF GoodSession, Waiting
  <1>5. o.err # "none"
    BY <1>2 DEF Fail
  <1>6. Handled(wire[d]) /\ Withdrawn' \subseteq Withdrawn
    BY <1>3, <1>4, <1>5, WireHandled
  <1>7. /\ \A e \in Devices : reg'[e] = "none" => reg[e] = "none"
        /\ \A e, x \in Devices : JoinOpen(wire'[e], x) => JoinOpen(wire[e], x)
        /\ \A t \in strays' \ strays : \E e \in Devices : t = wire[e] /\ ~Waiting(wire'[e])
    BY <1>3, <1>6 DEF Handled
  <1> QED
    BY <1>1, <1>6, <1>7, EnrolmentKept

\* The host starts, or its coordinator moves a task.
LEMMA StoreEnrolment ==
    ASSUME CollaborationInv, CollaborationInv', EnrolmentInv, Grows(file, file'),
           SameRoll(file, file'), issued' \in {issued, issued \cup DOMAIN file'.invites},
           UNCHANGED <<reg, client, wire, strays, cancelled>>
    PROVE  EnrolmentInv'
  <1>1. DOMAIN file'.members = DOMAIN file.members /\ file'.invites = file.invites
    BY DEF SameRoll
  <1>2. /\ \A d : Enrolled(d)' <=> Enrolled(d)
        /\ OneEnrolmentPerDevice' /\ Joiners' = Joiners
    BY <1>1, SameMembers DEF EnrolmentInv
  <1>3. JoinsGood'
    BY <1>2, JoinsKept DEF EnrolmentInv
  <1>4. Balanced(Joiners, DOMAIN file.invites, Withdrawn, issued)
    BY AccountsBalance DEF EnrolmentInv
  <1>5. issued' = issued
    BY <1>1, <1>4 DEF Balanced
  <1>6. Withdrawn' = Withdrawn
    BY DEF Withdrawn, Cancelling, Got, Busy
  <1>7. Balanced(Joiners', DOMAIN file'.invites, Withdrawn', issued')
    BY <1>1, <1>2, <1>4, <1>5, <1>6
  <1> QED
    BY <1>2, <1>3, <1>7, AccountsFollow DEF EnrolmentInv

\* Nobody is enrolled at first but the owner.
LEMMA EnrolmentInit == Init => EnrolmentInv
  <1> SUFFICES ASSUME Init PROVE EnrolmentInv
    OBVIOUS
  <1>1. DOMAIN file.members = {Owner} /\ DOMAIN file.invites = {}
    BY DEF Init, Bootstrap
  <1>2. \A d \in Devices : client[d] = None /\ wire[d] = Unconnected
    BY DEF Init
  <1>3. \A d \in Devices : ~Waiting(wire[d]) /\ ~Got(d, "cancel")
    BY <1>2 DEF Unconnected, Waiting, Got, Busy
  <1>4. JoinsGood
    BY <1>1, <1>3 DEF Init, JoinsGood, JoinOpen, Sessions, Enrolled
  <1>5. OneEnrolmentPerDevice
    BY <1>1 DEF OneEnrolmentPerDevice
  <1>6. Withdrawn = {} /\ issued = {}
    BY <1>3 DEF Init, Withdrawn, Cancelling
  <1>7. AccountsGood
    BY <1>1, <1>6, FS_EmptySet DEF AccountsGood
  <1> QED
    BY <1>4, <1>5, <1>7 DEF EnrolmentInv

\* Every step keeps the accounts and the joins.
LEMMA EnrolmentStep ==
    ASSUME CollaborationInv, EnrolmentInv, [Next]_vars
    PROVE  EnrolmentInv'
  <1>0. CollaborationInv' /\ Grows(file, file')
    BY InvStep
  <1>1. CASE HostStep
    <2>1. ASSUME NEW now \in Times, StartHost(now) PROVE EnrolmentInv'
      <3>1. SameRoll(file, file')
        BY <2>1, StartHostStep
      <3>2. UNCHANGED <<reg, client, wire, strays, cancelled>> /\ issued' = issued
        BY <2>1 DEF StartHost, localVars, history
      <3> QED
        BY <1>0, <3>1, <3>2, StoreEnrolment
    <2>2. CASE StopHost
      <3>1. /\ UNCHANGED <<file, issued, reg, cancelled>> /\ strays' = {} /\ UNCHANGED client
            /\ wire' = [d \in Devices |-> Cut(wire[d])]
        BY <2>2 DEF StopHost, HostStops, localVars, history
      <3>2. \A e \in Devices : wire'[e] = Cut(wire[e])
        BY <3>1
      <3> QED
        BY <1>0, <3>1, <3>2, CutEnrolment
    <2>3. ASSUME NEW t \in TaskIds, NEW status \in Coordinated, NEW now \in Times,
                 Coordinate(t, status, now)
          PROVE  EnrolmentInv'
      <3>1. SameRoll(file, file') /\ issued' = issued \cup DOMAIN file'.invites
        BY <2>3, CoordinateStep
      <3>2. UNCHANGED <<reg, client, wire, strays, cancelled>>
        BY <2>3 DEF Coordinate, localVars
      <3> QED
        BY <1>0, <3>1, <3>2, StoreEnrolment
    <2> QED
      BY <1>1, <2>1, <2>2, <2>3, HandleEnrolment, RefuseEnrolment, HandleStrayEnrolment
      DEF HostStep
  <1>2. CASE StartOwner
    BY <1>0, <1>2, OwnerIsQuiet, QuietStep, Limits
  <1>3. ASSUME NEW d \in Devices, UserStep(d) PROVE EnrolmentInv'
    <2>1. \/ Quiet(d) \/ \E i \in Invites : StartJoin(d, i)
      BY <1>3, AskingIsQuiet, ConnectingIsQuiet, SubmitIsQuiet DEF UserStep
    <2> QED
      BY <1>0, <2>1, QuietStep, StartJoinEnrolment
  <1>4. ASSUME NEW d \in Devices, ReplyStep(d) PROVE EnrolmentInv'
    <2>1. Quiet(d) \/ (Crash(d) /\ d = OwnerDevice)
      BY <1>4, AskingIsQuiet, EndingIsQuiet, FailingIsQuiet DEF ReplyStep
    <2>2. CASE Crash(d) /\ d = OwnerDevice
      <3>1. /\ UNCHANGED <<file, issued, reg, cancelled>> /\ strays' = {}
            /\ client' = [client EXCEPT ![d] = None]
            /\ wire' = [e \in Devices |-> IF e = d THEN Unconnected ELSE Cut(wire[e])]
        BY <2>2 DEF Crash, HostStops, localVars, history
      <3>2. /\ \A e \in Devices : wire'[e] = Unconnected \/ wire'[e] = Cut(wire[e])
            /\ \A e \in Devices : client'[e] = client[e] \/ client'[e] = None
        BY <3>1, StoredFacts
      <3> QED
        BY <1>0, <3>1, <3>2, CutEnrolment
    <2> QED
      BY <1>0, <2>1, <2>2, QuietStep
  <1>5. CASE UNCHANGED vars
    <2>1. SameRoll(file, file') /\ issued' = issued
          /\ UNCHANGED <<reg, client, wire, strays, cancelled>>
      BY <1>5 DEF SameRoll, vars, storeVars, localVars, history
    <2> QED
      BY <1>0, <2>1, StoreEnrolment
  <1> QED
    BY <1>1, <1>2, <1>3, <1>4, <1>5 DEF Next

\* No invitation and no device makes two members, however joins ended: replies that
\* were lost, requests handled late, failed writes and restarts included.
THEOREM NobodyEnrolledTwice == Spec => []EnrolledOnce
  <1>1. CollaborationInv /\ EnrolmentInv /\ [Next]_vars => EnrolmentInv'
    BY EnrolmentStep
  <1>2. CollaborationInv /\ EnrolmentInv => EnrolledOnce
    <2> SUFFICES ASSUME CollaborationInv, EnrolmentInv PROVE MembershipAccounted
      BY DEF EnrolledOnce, EnrolmentInv
    <2>1. Balanced(Joiners, DOMAIN file.invites, Withdrawn, issued)
      BY AccountsBalance DEF EnrolmentInv
    <2>2. cancelled \subseteq Withdrawn
      BY DEF Withdrawn
    <2>3. Balanced(Joiners, DOMAIN file.invites, cancelled, issued)
      BY <2>1, <2>2, BalanceShrinks
    <2> QED
      BY <2>3 DEF Balanced, Joiners, MembershipAccounted
  <1> QED
    BY <1>1, <1>2, EnrolmentInit, CollaborationInvariant, PTL DEF Spec

-----------------------------------------------------------------------------
(***************************************************************************)
(* Tasks that a desktop lost sight of.                                     *)
(***************************************************************************)

\* None is no client.
NoneIsNoClient ==
    \A m, w, stage, q :
        [member |-> m, view |-> w, stage |-> stage, asking |-> q] # None

\* A client c with its connection s becomes c2 with s2: one that is held stays, with
\* its marks, and one without a connection shows what it showed, or marks it.
Evolves(c, s, c2, s2) ==
    /\ c # None /\ c.stage = "held" =>
          c2 # None /\ c2.stage = "held" /\ c.view.uncertain \subseteq c2.view.uncertain
    /\ c2 # None /\ s2.phase = "none" =>
          /\ c # None /\ c2.view.records = c.view.records
          /\ c.view.uncertain \subseteq c2.view.uncertain
          /\ \/ s.phase = "none"
             \/ GoodView(c.view) /\ c2.view = Disconnected(c.view)

\* A client that keeps task t in doubt.
Marked(d, t) ==
    /\ client[d] # None /\ client[d].stage = "held" /\ t \in client[d].view.uncertain

\* Marks are made and kept.
LEMMA DoubtStays ==
    ASSUME DoubtKept, \A d \in Devices : Evolves(client[d], wire[d], client'[d], wire'[d])
    PROVE  /\ DoubtKept'
           /\ \A d \in Devices, t \in TaskIds : Marked(d, t) => Marked(d, t)'
  <1>1. ASSUME NEW d \in Devices, NEW t \in TaskIds, InDoubt(d, t)'
        PROVE  t \in client'[d].view.uncertain
    <2>1. /\ client'[d] # None /\ wire'[d].phase = "none"
          /\ <<"task", t>> \in DOMAIN client'[d].view.records
          /\ client'[d].view.records[<<"task", t>>].status = "running"
      BY <1>1 DEF InDoubt
    <2>2. /\ client[d] # None /\ client'[d].view.records = client[d].view.records
          /\ client[d].view.uncertain \subseteq client'[d].view.uncertain
          /\ \/ wire[d].phase = "none"
             \/ GoodView(client[d].view) /\ client'[d].view = Disconnected(client[d].view)
      BY <2>1 DEF Evolves
    <2>3. CASE wire[d].phase = "none"
      <3>1. InDoubt(d, t)
        BY <2>1, <2>2, <2>3 DEF InDoubt
      <3> QED
        BY <2>2, <3>1 DEF DoubtKept
    <2>4. CASE GoodView(client[d].view) /\ client'[d].view = Disconnected(client[d].view)
      BY <2>1, <2>2, <2>4, DisconnectedView
    <2> QED
      BY <2>2, <2>3, <2>4
  <1>2. \A d \in Devices, t \in TaskIds : Marked(d, t) => Marked(d, t)'
    BY DEF Marked, Evolves
  <1> QED
    BY <1>1, <1>2 DEF DoubtKept

\* A client that does not move, and a connection that ends or is answered.
LEMMA Still ==
    ASSUME NEW c, NEW s, NEW s2, s2.phase = "none" => s.phase = "none"
    PROVE  Evolves(c, s, c, s2)
  BY DEF Evolves

\* A step of one device.
LEMMA OneEvolves ==
    ASSUME NEW d \in Devices,
           \A e \in Devices \ {d} : client'[e] = client[e] /\ wire'[e] = wire[e],
           Evolves(client[d], wire[d], client'[d], wire'[d])
    PROVE  \A e \in Devices : Evolves(client[e], wire[e], client'[e], wire'[e])
  BY Still

\* A good client is not None.
LEMMA ClientExists ==
    ASSUME NoneIsNoClient, NEW c, GoodClient(c)
    PROVE  c # None
  BY DEF NoneIsNoClient, GoodClient

\* A request goes out for a client that kept its stage and its marks.
LEMMA AskEvolves ==
    ASSUME CollaborationInv, NoneIsNoClient, NEW d \in Devices, NEW c, NEW q, Ask(d, c, q),
           GoodClient(c), wire[d].phase # "none",
           c.stage = client[d].stage, c.view.uncertain = client[d].view.uncertain
    PROVE  \A e \in Devices : Evolves(client[e], wire[e], client'[e], wire'[e])
  <1>1. /\ client' = [client EXCEPT ![d] = [c EXCEPT !.asking = q]]
        /\ wire' = [wire EXCEPT ![d] = [@ EXCEPT !.request = q, !.reply = None]]
    BY DEF Ask
  <1>2. PICK c2, s : c2 = [c EXCEPT !.asking = q] /\ s = wire[d]
    OBVIOUS
  <1>3. /\ client'[d] = c2 /\ wire'[d] = [s EXCEPT !.request = q, !.reply = None]
        /\ \A e \in Devices \ {d} : client'[e] = client[e] /\ wire'[e] = wire[e]
    BY <1>1, <1>2, StoredFacts
  <1>4. wire'[d].phase # "none"
    <2>1. PICK p, w, y, z : s = [phase |-> p, who |-> w, request |-> y, reply |-> z]
      BY <1>2, StoredFacts, ZenonT(40) DEF GoodSession
    <2>2. PICK s2 : s2 = [s EXCEPT !.request = q, !.reply = None]
      OBVIOUS
    <2>3. s2 = [phase |-> p, who |-> w, request |-> q, reply |-> None]
      BY <2>1, <2>2
    <2> QED
      BY <1>2, <1>3, <2>1, <2>2, <2>3
  <1>5. c2 # None /\ c2.stage = c.stage /\ c2.view = c.view
    <2>1. PICK m, w, y, z : c = [member |-> m, view |-> w, stage |-> y, asking |-> z]
      BY DEF GoodClient
    <2>2. c2 = [member |-> m, view |-> w, stage |-> y, asking |-> q]
      BY <1>2, <2>1
    <2> QED
      BY <2>1, <2>2 DEF NoneIsNoClient
  <1>6. Evolves(client[d], wire[d], client'[d], wire'[d])
    BY <1>3, <1>4, <1>5 DEF Evolves
  <1> QED
    BY <1>3, <1>6, OneEvolves

\* A connection is opened: one that is held keeps its marks.
LEMMA OpenEvolves ==
    ASSUME CollaborationInv, NoneIsNoClient, NEW d \in Devices, NEW c, NEW q,
           client' = [client EXCEPT ![d] = c], wire' = [wire EXCEPT ![d] = Opened(q)],
           \/ client[d] = None
           \/ /\ GoodClient(c) /\ c.stage = client[d].stage
              /\ client[d].view.uncertain \subseteq c.view.uncertain
    PROVE  \A e \in Devices : Evolves(client[e], wire[e], client'[e], wire'[e])
  <1>1. /\ client'[d] = c /\ wire'[d] = Opened(q)
        /\ \A e \in Devices \ {d} : client'[e] = client[e] /\ wire'[e] = wire[e]
    BY StoredFacts
  <1>2. wire'[d].phase # "none"
    BY <1>1 DEF Opened
  <1>3. Evolves(client[d], wire[d], client'[d], wire'[d])
    BY <1>1, <1>2, ClientExists DEF Evolves
  <1> QED
    BY <1>1, <1>3, OneEvolves

\* A client gives up.
LEMMA FailEvolves ==
    ASSUME CollaborationInv, NoneIsNoClient, NEW d \in Devices, Busy(d), Failed(d)
    PROVE  \A e \in Devices : Evolves(client[e], wire[e], client'[e], wire'[e])
  <1>1. PICK c, w : c = client[d] /\ w = Disconnected(c.view)
    OBVIOUS
  <1>2. GoodClient(c) /\ c # None
    BY <1>1, BusyClient DEF Busy
  <1>3. /\ client' = [client EXCEPT ![d] =
                        IF @.stage # "held" THEN None
                        ELSE [client[d] EXCEPT !.view = Disconnected(@), !.asking = None]]
        /\ wire' = [wire EXCEPT ![d] = Unconnected]
    BY DEF Failed
  <1>4. /\ wire'[d] = Unconnected
        /\ \A e \in Devices \ {d} : client'[e] = client[e] /\ wire'[e] = wire[e]
        /\ client'[d] = IF c.stage # "held" THEN None
                        ELSE [c EXCEPT !.view = Disconnected(@), !.asking = None]
    BY <1>1, <1>3, StoredFacts
  <1>5. CASE c.stage # "held"
    <2>1. client'[d] = None
      BY <1>4, <1>5
    <2>2. Evolves(client[d], wire[d], client'[d], wire'[d])
      BY <1>1, <1>5, <2>1 DEF Evolves
    <2> QED
      BY <1>4, <2>2, OneEvolves
  <1>6. CASE c.stage = "held"
    <2>1. [c EXCEPT !.view = Disconnected(@), !.asking = None] = Changed(c, w, None)
      BY <1>1 DEF Changed
    <2>2. client'[d] = Changed(c, w, None)
      BY <1>4, <1>6, <2>1
    <2>3. /\ GoodView(w) /\ w.records = c.view.records /\ c.view.uncertain \subseteq w.uncertain
          /\ GoodView(c.view)
      BY <1>1, <1>2, DisconnectedView DEF GoodClient
    <2>4. PICK c2 : c2 = client'[d]
      OBVIOUS
    <2>5. GoodClient(c2) /\ c2.stage = c.stage /\ c2.view = w
      BY <1>2, <2>2, <2>3, <2>4, ClientChanges
    <2>6. Evolves(c, wire[d], c2, wire'[d])
      BY <1>1, <1>2, <1>6, <2>3, <2>5, ClientExists DEF Evolves
    <2> QED
      BY <1>1, <1>4, <2>4, <2>6, OneEvolves
  <1> QED
    BY <1>5, <1>6

\* The desktop sends its next request.
LEMMA AskingEvolves ==
    ASSUME CollaborationInv, NoneIsNoClient, NEW d \in Devices,
           \/ \E q : Command(d, q)
           \/ Joined(d) \/ ThenReads(d) \/ SubmitAcknowledged(d) \/ NextPage(d)
    PROVE  \A e \in Devices : Evolves(client[e], wire[e], client'[e], wire'[e])
  <1>0. PICK c0 : c0 = client[d]
    OBVIOUS
  <1>1. ASSUME NEW q, Command(d, q)
        PROVE  \A e \in Devices : Evolves(client[e], wire[e], client'[e], wire'[e])
    <2>1. Idle(d) /\ wire[d].phase # "none" /\ Ask(d, c0, q)
      BY <1>0, <1>1 DEF Command
    <2>2. GoodClient(c0)
      BY <1>0, <2>1, IdleClient
    <2> QED
      BY <1>0, <2>1, <2>2, AskEvolves
  <1>2. ASSUME NEW op, Got(d, op), NEW c, AskSync(d, c), GoodClient(c), c.stage = c0.stage,
               c.view.uncertain = c0.view.uncertain
        PROVE  \A e \in Devices : Evolves(client[e], wire[e], client'[e], wire'[e])
    <2>1. PICK q : Ask(d, c, q)
      BY <1>2 DEF AskSync
    <2>2. wire[d].phase # "none"
      BY <1>2, ReplyCame
    <2> QED
      BY <1>0, <1>2, <2>1, <2>2, AskEvolves
  <1>3. ASSUME NEW op, Got(d, op) PROVE GoodClient(c0) /\ wire[d].phase # "none"
    BY <1>0, <1>3, ReplyCame
  <1>4. CASE Joined(d)
    <2>1. PICK m, q : m = Value(d) /\ q = [op |-> "auth", member |-> m]
      OBVIOUS
    <2>2. PICK c : c = [c0 EXCEPT !.member = m]
      OBVIOUS
    <2>3. Got(d, "join") /\ Ask(d, c, q)
      BY <1>0, <1>4, <2>1, <2>2 DEF Joined
    <2>4. GoodClient(c0) /\ wire[d].phase # "none"
      BY <1>3, <2>3
    <2>5. GoodClient(c) /\ c.stage = c0.stage /\ c.view = c0.view
      <3>1. PICK a, x, y, z : c0 = [member |-> a, view |-> x, stage |-> y, asking |-> z]
        BY <2>4 DEF GoodClient
      <3>2. c = [member |-> m, view |-> x, stage |-> y, asking |-> z]
        BY <2>2, <3>1
      <3> QED
        BY <2>4, <3>1, <3>2 DEF GoodClient
    <2> QED
      BY <1>0, <2>3, <2>4, <2>5, AskEvolves
  <1>5. CASE ThenReads(d)
    <2>1. PICK op : Got(d, op)
      BY <1>5 DEF ThenReads
    <2>2. AskSync(d, c0)
      BY <1>0, <1>5 DEF ThenReads
    <2> QED
      BY <1>2, <1>3, <2>1, <2>2
  <1>6. CASE SubmitAcknowledged(d)
    <2>1. PICK w : w = Acknowledged(c0.view)
      OBVIOUS
    <2>2. PICK c : c = [c0 EXCEPT !.view = w]
      OBVIOUS
    <2>3. [c0 EXCEPT !.view = Acknowledged(@)] = c
      BY <2>1, <2>2
    <2>4. Got(d, "submit") /\ AskSync(d, c)
      BY <1>0, <1>6, <2>3 DEF SubmitAcknowledged
    <2>5. GoodClient(c0)
      BY <1>3, <2>4
    <2>6. GoodView(w) /\ w.uncertain = c0.view.uncertain
      BY <2>1, <2>5, AcknowledgedView DEF GoodClient
    <2>7. GoodClient(c) /\ c.stage = c0.stage /\ c.view = w
      <3>1. PICK a, x, y, z : c0 = [member |-> a, view |-> x, stage |-> y, asking |-> z]
        BY <2>5 DEF GoodClient
      <3>2. c = [member |-> a, view |-> w, stage |-> y, asking |-> z]
        BY <2>2, <3>1
      <3> QED
        BY <2>5, <2>6, <3>1, <3>2 DEF GoodClient
    <2> QED
      BY <1>2, <2>4, <2>6, <2>7
  <1>7. CASE NextPage(d)
    <2>1. PICK a : a = Accepted(d)
      OBVIOUS
    <2>2. PICK w, c : w = a.view /\ c = [c0 EXCEPT !.view = w]
      OBVIOUS
    <2>3. Got(d, "sync") /\ a.ok /\ AskSync(d, c)
      BY <1>0, <1>7, <2>1, <2>2 DEF NextPage
    <2>4. GoodClient(c0)
      BY <1>3, <2>3
    <2>5. GoodView(w) /\ w.uncertain = c0.view.uncertain
      <3>1. PICK p : p = Value(d)
        OBVIOUS
      <3>2. a = AcceptPage(c0.view, c0.member, d, p) /\ p.at \in Nat
        BY <1>0, <2>1, <2>3, <3>1, ReplyCame DEF Accepted, Fits
      <3> QED
        BY <2>2, <2>3, <2>4, <3>2, AcceptedView DEF GoodClient
    <2>6. GoodClient(c) /\ c.stage = c0.stage /\ c.view = w
      <3>1. PICK m, x, y, z : c0 = [member |-> m, view |-> x, stage |-> y, asking |-> z]
        BY <2>4 DEF GoodClient
      <3>2. c = [member |-> m, view |-> w, stage |-> y, asking |-> z]
        BY <2>2, <3>1
      <3> QED
        BY <2>4, <2>5, <3>1, <3>2 DEF GoodClient
    <2> QED
      BY <1>2, <2>3, <2>5, <2>6
  <1> QED
    BY <1>1, <1>4, <1>5, <1>6, <1>7

\* A message is queued, sent or not.
LEMMA SubmitEvolves ==
    ASSUME CollaborationInv, NoneIsNoClient, NEW d \in Devices, NEW key \in Keys,
           NEW payload \in Payloads, Submit(d, key, payload)
    PROVE  \A e \in Devices : Evolves(client[e], wire[e], client'[e], wire'[e])
  <1>1. PICK c0 : c0 = client[d]
    OBVIOUS
  <1>2. PICK u, c : u = Queued(c0.view, key, payload) /\ c = [c0 EXCEPT !.view = u]
    OBVIOUS
  <1>3. Idle(d)
    BY DEF Submit
  <1>4. GoodClient(c0) /\ c0 # None /\ (c0.view.ready => wire[d].phase # "none")
    BY <1>1, <1>3, IdleClient DEF Idle
  <1>5. /\ GoodView(u) /\ u.ready = c0.view.ready /\ u.records = c0.view.records
        /\ u.uncertain = c0.view.uncertain
    BY <1>2, <1>4, QueuedView, ZenonT(40) DEF GoodClient
  <1>6. [client[d] EXCEPT !.view = Queued(@, key, payload)] = c
    BY <1>1, <1>2
  <1>7. GoodClient(c) /\ c.stage = c0.stage /\ c.view = u
    <2>1. PICK m, x, y, z : c0 = [member |-> m, view |-> x, stage |-> y, asking |-> z]
      BY <1>4 DEF GoodClient
    <2>2. c = [member |-> m, view |-> u, stage |-> y, asking |-> z]
      BY <1>2, <2>1
    <2> QED
      BY <1>4, <1>5, <2>1, <2>2 DEF GoodClient
  <1>8. CASE CanSend(c.view)
    <2>1. PICK q : Ask(d, c, q)
      BY <1>6, <1>8 DEF Submit
    <2>2. wire[d].phase # "none"
      BY <1>4, <1>5, <1>7, <1>8 DEF CanSend
    <2> QED
      BY <1>1, <1>5, <1>7, <2>1, <2>2, AskEvolves
  <1>9. CASE ~CanSend(c.view)
    <2>1. client' = [client EXCEPT ![d] = c] /\ UNCHANGED wire
      BY <1>6, <1>9 DEF Submit
    <2>2. client'[d] = c /\ \A e \in Devices \ {d} : client'[e] = client[e]
      BY <2>1, StoredFacts
    <2>3. c # None
      BY <1>7, ClientExists
    <2>4. Evolves(client[d], wire[d], client'[d], wire'[d])
      BY <1>1, <1>4, <1>5, <1>7, <2>1, <2>2, <2>3 DEF Evolves
    <2> QED
      BY <2>1, <2>2, <2>4, OneEvolves
  <1> QED
    BY <1>8, <1>9

\* A desktop connects or disconnects.
LEMMA ConnectingEvolves ==
    ASSUME CollaborationInv, NoneIsNoClient, NEW d \in Devices, Reconnect(d) \/ Disconnect(d)
    PROVE  \A e \in Devices : Evolves(client[e], wire[e], client'[e], wire'[e])
  <1>1. PICK c0, w, q : /\ c0 = client[d] /\ w = Disconnected(c0.view)
                        /\ q = [op |-> "auth", member |-> reg[d]]
    OBVIOUS
  <1>2. ASSUME Idle(d)
        PROVE  /\ GoodClient(c0) /\ GoodView(c0.view) /\ c0 # None /\ c0.asking = None
               /\ GoodView(w) /\ w.records = c0.view.records
               /\ c0.view.uncertain \subseteq w.uncertain
    BY <1>1, <1>2, IdleClient, DisconnectedView DEF GoodClient, Idle
  <1>3. CASE Reconnect(d)
    <2>1. wire' = [wire EXCEPT ![d] = Opened(q)]
      BY <1>1, <1>3 DEF Reconnect
    <2>2. CASE client[d] = None
      <3>1. PICK c : client' = [client EXCEPT ![d] = c]
        BY <1>3 DEF Reconnect
      <3> QED
        BY <2>1, <2>2, <3>1, OpenEvolves
    <2>3. CASE Idle(d) /\ client' = [client EXCEPT ![d] =
                                       [client[d] EXCEPT !.view = Disconnected(@), !.asking = q]]
      <3>1. PICK c : c = Changed(c0, w, q)
        OBVIOUS
      <3>2. [client[d] EXCEPT !.view = Disconnected(@), !.asking = q] = c
        BY <1>1, <3>1 DEF Changed
      <3>3. client' = [client EXCEPT ![d] = c]
        BY <2>3, <3>2
      <3>4. /\ GoodClient(c) /\ c.stage = client[d].stage
            /\ client[d].view.uncertain \subseteq c.view.uncertain
        BY <1>1, <1>2, <2>3, <3>1, ClientChanges
      <3> QED
        BY <2>1, <3>3, <3>4, OpenEvolves
    <2> QED
      BY <1>1, <1>3, <2>2, <2>3 DEF Reconnect
  <1>4. CASE Disconnect(d)
    <2>1. /\ Idle(d) /\ client' = [client EXCEPT ![d].view = Disconnected(@)]
          /\ wire' = [wire EXCEPT ![d] = Unconnected]
      BY <1>4 DEF Disconnect
    <2>2. PICK c : c = [c0 EXCEPT !.view = w]
      OBVIOUS
    <2>3. [c0 EXCEPT !.view = Disconnected(@)] = c
      BY <1>1, <2>2
    <2>4. /\ client'[d] = c
          /\ \A e \in Devices \ {d} : client'[e] = client[e] /\ wire'[e] = wire[e]
      BY <1>1, <2>1, <2>3, StoredFacts
    <2>5. c # None /\ c.stage = c0.stage /\ c.view = w
      <3>1. PICK m, x, y, z : c0 = [member |-> m, view |-> x, stage |-> y, asking |-> z]
        BY <1>2, <2>1 DEF GoodClient
      <3>2. c = [member |-> m, view |-> w, stage |-> y, asking |-> z]
        BY <2>2, <3>1
      <3> QED
        BY <3>1, <3>2 DEF NoneIsNoClient
    <2>6. Evolves(client[d], wire[d], client'[d], wire'[d])
      BY <1>1, <1>2, <2>1, <2>4, <2>5 DEF Evolves
    <2> QED
      BY <2>4, <2>6, OneEvolves
  <1> QED
    BY <1>3, <1>4

\* An invitation arrives, or the last page.
LEMMA EndingEvolves ==
    ASSUME CollaborationInv, NoneIsNoClient, NEW d \in Devices, InviteReceived(d) \/ LastPage(d)
    PROVE  \A e \in Devices : Evolves(client[e], wire[e], client'[e], wire'[e])
  <1>1. PICK c0 : c0 = client[d]
    OBVIOUS
  <1>2. \E op : Got(d, op)
    BY DEF InviteReceived, LastPage
  <1>3. GoodClient(c0) /\ wire[d].phase # "none"
    BY <1>1, <1>2, ReplyCame
  <1>4. UNCHANGED wire
    BY DEF InviteReceived, LastPage
  <1>5. PICK m, x, y, z : c0 = [member |-> m, view |-> x, stage |-> y, asking |-> z]
    BY <1>3 DEF GoodClient
  <1>6. CASE InviteReceived(d)
    <2>1. client' = [client EXCEPT ![d].asking = None]
      BY <1>6 DEF InviteReceived
    <2>2. PICK c : c = [c0 EXCEPT !.asking = None]
      OBVIOUS
    <2>3. client'[d] = c /\ \A e \in Devices \ {d} : client'[e] = client[e]
      BY <1>1, <2>1, <2>2, StoredFacts
    <2>4. c = [member |-> m, view |-> x, stage |-> y, asking |-> None]
      BY <1>5, <2>2
    <2>5. c # None /\ c.stage = c0.stage /\ c.view = c0.view
      BY <1>5, <2>4 DEF NoneIsNoClient
    <2>6. Evolves(client[d], wire[d], client'[d], wire'[d])
      BY <1>1, <1>3, <1>4, <2>3, <2>5 DEF Evolves
    <2> QED
      BY <1>4, <2>3, <2>6, OneEvolves
  <1>7. CASE LastPage(d)
    <2>1. PICK a : a = Accepted(d)
      OBVIOUS
    <2>2. PICK w, c : w = a.view /\ c = [c0 EXCEPT !.view = w, !.stage = "held", !.asking = None]
      OBVIOUS
    <2>3. Got(d, "sync") /\ a.ok /\ client' = [client EXCEPT ![d] = c]
      BY <1>1, <1>7, <2>1, <2>2 DEF LastPage
    <2>4. w.uncertain = c0.view.uncertain
      <3>1. PICK p : p = Value(d)
        OBVIOUS
      <3>2. a = AcceptPage(c0.view, c0.member, d, p) /\ p.at \in Nat
        BY <1>1, <2>1, <2>3, <3>1, ReplyCame DEF Accepted, Fits
      <3> QED
        BY <1>3, <2>2, <2>3, <3>2, AcceptedView DEF GoodClient
    <2>5. client'[d] = c /\ \A e \in Devices \ {d} : client'[e] = client[e]
      BY <2>3, StoredFacts
    <2>6. c = [member |-> m, view |-> w, stage |-> "held", asking |-> None]
      BY <1>5, <2>2
    <2>7. c # None /\ c.stage = "held" /\ c.view = w
      BY <2>6 DEF NoneIsNoClient
    <2>8. Evolves(client[d], wire[d], client'[d], wire'[d])
      BY <1>1, <1>3, <1>4, <2>4, <2>5, <2>7 DEF Evolves
    <2> QED
      BY <1>4, <2>5, <2>8, OneEvolves
  <1> QED
    BY <1>6, <1>7

\* Only closing changes the phase of a session to one without a host.
LEMMA AnsweredPhase ==
    ASSUME NEW s, GoodSession(s), s.phase # "none", NEW o
    PROVE  Answered(s, o).phase # "none"
  BY DEF Answered, GoodSession

\* The host does not touch clients, and opens no connection.
LEMMA HostEvolves ==
    ASSUME CollaborationInv, HostStep
    PROVE  \A e \in Devices : Evolves(client[e], wire[e], client'[e], wire'[e])
  <1>1. UNCHANGED client
    BY DEF HostStep, StartHost, StopHost, Coordinate, Handle, Refuse, HandleStray
  <1>2. ASSUME NEW e \in Devices
        PROVE  wire'[e].phase = "none" => wire[e].phase = "none"
    <2>1. CASE UNCHANGED wire
      BY <2>1
    <2>2. CASE StopHost
      <3>1. wire'[e] = Cut(wire[e]) /\ GoodSession(wire[e])
        BY <2>2, StoredFacts DEF StopHost
      <3> QED
        BY <3>1 DEF Cut, GoodSession
    <2>3. ASSUME NEW d \in Devices, NEW o, Waiting(wire[d]),
                 wire' = [wire EXCEPT ![d] = Answered(@, o)]
          PROVE  wire'[e].phase = "none" => wire[e].phase = "none"
      <3>1. PICK s : s = wire[d]
        OBVIOUS
      <3>2. GoodSession(s) /\ s.phase # "none"
        BY <2>3, <3>1, StoredFacts DEF Waiting
      <3>3. Answered(s, o).phase # "none"
        BY <3>2, AnsweredPhase
      <3>4. wire'[e] = IF e = d THEN Answered(s, o) ELSE wire[e]
        BY <2>3, <3>1, StoredFacts
      <3> QED
        BY <3>3, <3>4
    <2>4. \/ UNCHANGED wire \/ StopHost
          \/ \E d \in Devices : \E o : /\ Waiting(wire[d])
                                        /\ wire' = [wire EXCEPT ![d] = Answered(@, o)]
      BY DEF HostStep, StartHost, Coordinate, Handle, Refuse, HandleStray
    <2> QED
      BY <2>1, <2>2, <2>3, <2>4
  <1> QED
    BY <1>1, <1>2, Still

\* Every step but the end of a desktop makes and keeps marks.
LEMMA EvolvesStep ==
    ASSUME CollaborationInv, NoneIsNoClient, "crash" \notin Faults, [Next]_vars
    PROVE  \A e \in Devices : Evolves(client[e], wire[e], client'[e], wire'[e])
  <1>1. CASE HostStep
    BY <1>1, HostEvolves
  <1>2. CASE StartOwner
    <2>1. PICK d, q, c : /\ d = OwnerDevice /\ q = [op |-> "auth", member |-> Owner]
                         /\ c = NewClient(Owner, "owner", q)
      OBVIOUS
    <2>2. /\ d \in Devices /\ client[d] = None
          /\ client' = [client EXCEPT ![d] = c] /\ wire' = [wire EXCEPT ![d] = Opened(q)]
      BY <1>2, <2>1, Limits DEF StartOwner
    <2> QED
      BY <2>2, OpenEvolves
  <1>3. ASSUME NEW d \in Devices, NEW i \in Invites, StartJoin(d, i)
        PROVE  \A e \in Devices : Evolves(client[e], wire[e], client'[e], wire'[e])
    <2>1. CASE UNCHANGED <<client, wire>>
      BY <2>1, Still
    <2>2. ASSUME NEW c, NEW q, client' = [client EXCEPT ![d] = c],
                 wire' = [wire EXCEPT ![d] = Opened(q)]
          PROVE  \A e \in Devices : Evolves(client[e], wire[e], client'[e], wire'[e])
      BY <1>3, <2>2, OpenEvolves DEF StartJoin
    <2> QED
      BY <1>3, <2>1, <2>2 DEF StartJoin
  <1>4. ASSUME NEW d \in Devices, UserStep(d)
        PROVE  \A e \in Devices : Evolves(client[e], wire[e], client'[e], wire'[e])
    <2>1. \/ \E q : Command(d, q)
          \/ \E i \in Invites : StartJoin(d, i)
          \/ Reconnect(d) \/ Disconnect(d)
          \/ \E key \in Keys, payload \in Payloads : Submit(d, key, payload)
      BY <1>4 DEF UserStep, Pulse, Invite, CancelInvite, Revoke
    <2> QED
      BY <1>3, <2>1, AskingEvolves, ConnectingEvolves, SubmitEvolves
  <1>5. ASSUME NEW d \in Devices, ReplyStep(d)
        PROVE  \A e \in Devices : Evolves(client[e], wire[e], client'[e], wire'[e])
    <2>1. CASE LocalFailure(d) \/ Refused(d) \/ Lost(d)
      <3>1. Busy(d) /\ Failed(d)
        BY <2>1 DEF LocalFailure, Refused, Lost, Got
      <3> QED
        BY <3>1, FailEvolves
    <2>2. ~Crash(d)
      BY DEF Crash
    <2> QED
      BY <1>5, <2>1, <2>2, AskingEvolves, EndingEvolves DEF ReplyStep
  <1>6. CASE UNCHANGED vars
    BY <1>6, Still DEF vars
  <1> QED
    BY <1>1, <1>2, <1>4, <1>5, <1>6 DEF Next

\* A task in doubt is marked in a client that is held.
LEMMA DoubtIsMarked ==
    ASSUME CollaborationInv, DoubtKept, NEW d \in Devices, NEW t \in TaskIds, InDoubt(d, t)
    PROVE  Marked(d, t)
  <1>1. client[d] # None /\ wire[d].phase = "none" /\ t \in client[d].view.uncertain
    BY DEF InDoubt, DoubtKept
  <1>2. /\ Linked(file, d, client[d], wire[d])
        /\ Acting(client[d], reg[d], vault[d])
    BY <1>1 DEF CollaborationInv, DesksGood, Desk
  <1>3. client[d].asking = None
    BY <1>1, <1>2 DEF Linked
  <1> QED
    BY <1>1, <1>2, <1>3 DEF Acting, Marked

\* A marked task is not shown as running.
LEMMA MarkedNotRunning ==
    ASSUME NEW d \in Devices, NEW t \in TaskIds, Marked(d, t)
    PROVE  ~ShowsRunning(d, t)
  <1>1. t \in client[d].view.uncertain
    BY DEF Marked
  <1>2. ShownStatus(client[d].view, t) # "running"
    BY <1>1 DEF ShownStatus
  <1> QED
    BY <1>2 DEF ShowsRunning

\* While desktops do not end, what one of them lost sight of as running it never shows
\* as running again (collaboration/node.rs marks the task when the connection is lost and
\* nothing but the end of the process clears the mark).
THEOREM DoubtNeverForgotten ==
    ASSUME NoneIsNoClient, "crash" \notin Faults
    PROVE  Spec => NeverRunningAgain
  <1>1. Init => DoubtKept
    BY DEF Init, DoubtKept, InDoubt
  <1>2. CollaborationInv /\ DoubtKept /\ [Next]_vars => DoubtKept'
    <2> SUFFICES ASSUME CollaborationInv, DoubtKept, [Next]_vars PROVE DoubtKept'
      OBVIOUS
    <2>1. \A d \in Devices : Evolves(client[d], wire[d], client'[d], wire'[d])
      BY EvolvesStep
    <2> QED
      BY <2>1, DoubtStays
  <1>3. ASSUME NEW d \in Devices, NEW t \in TaskIds
        PROVE  Spec => [](InDoubt(d, t) => []~ShowsRunning(d, t))
    <2>1. CollaborationInv /\ DoubtKept /\ [Next]_vars => (Marked(d, t) => Marked(d, t)')
      <3> SUFFICES ASSUME CollaborationInv, DoubtKept, [Next]_vars
                   PROVE  Marked(d, t) => Marked(d, t)'
        OBVIOUS
      <3>1. \A e \in Devices : Evolves(client[e], wire[e], client'[e], wire'[e])
        BY EvolvesStep
      <3> QED
        BY <3>1, DoubtStays
    <2>2. CollaborationInv /\ DoubtKept => (InDoubt(d, t) => Marked(d, t))
      BY DoubtIsMarked
    <2>3. Marked(d, t) => ~ShowsRunning(d, t)
      BY MarkedNotRunning
    <2> QED
      BY <1>1, <1>2, <2>1, <2>2, <2>3, CollaborationInvariant, PTL DEF Spec
  <1> QED
    BY <1>3 DEF NeverRunningAgain

-----------------------------------------------------------------------------
(***************************************************************************)
(* Reading.  What a member is shown at one revision is a snapshot.         *)
(***************************************************************************)

\* What Brain b shares with member m.
Snapshot(b, m) ==
    [rev |-> b.rev, records |-> [n \in SharedNames(b, m) |-> SharedRecord(b, n)]]

\* Records under names, none newer than the whole.
IsSnapshot(e) ==
    /\ e = [rev |-> e.rev, records |-> e.records] /\ e.rev \in Nat
    /\ e.records = [n \in DOMAIN e.records |-> e.records[n]]
    /\ DOMAIN e.records \subseteq Names /\ IsFiniteSet(DOMAIN e.records)
    /\ \A n \in DOMAIN e.records : e.records[n].rev \in Nat /\ e.records[n].rev <= e.rev

\* Snapshot e is the later one: nothing is gone, and what is new or changed since s
\* has a later revision.
Follows(s, e) ==
    /\ s.rev <= e.rev /\ DOMAIN s.records \subseteq DOMAIN e.records
    /\ \A n \in DOMAIN e.records :
          \/ n \in DOMAIN s.records /\ e.records[n] = s.records[n]
          \/ s.rev < e.records[n].rev

\* What a desktop has read completely.
Base(v) == [rev |-> v.rev, records |-> v.records]

\* What changed since a revision.
Newer(e, after) == {n \in DOMAIN e.records : e.records[n].rev > after}

\* Following is transitive.
LEMMA FollowsOn ==
    ASSUME NEW s, IsSnapshot(s), NEW e, IsSnapshot(e), NEW g, IsSnapshot(g),
           Follows(s, e), Follows(e, g)
    PROVE  Follows(s, g)
  <1>1. s.rev \in Nat /\ e.rev \in Nat /\ g.rev \in Nat /\ s.rev <= e.rev /\ e.rev <= g.rev
    BY DEF IsSnapshot, Follows
  <1>2. ASSUME NEW n \in DOMAIN g.records
        PROVE  \/ n \in DOMAIN s.records /\ g.records[n] = s.records[n]
               \/ s.rev < g.records[n].rev
    <2>1. CASE n \in DOMAIN e.records /\ g.records[n] = e.records[n]
      BY <2>1 DEF Follows
    <2>2. CASE e.rev < g.records[n].rev
      BY <1>1, <2>2 DEF IsSnapshot
    <2> QED
      BY <2>1, <2>2 DEF Follows
  <1> QED
    BY <1>1, <1>2 DEF Follows

\* Two snapshots at one revision are the same.
LEMMA SameRevision ==
    ASSUME NEW e, IsSnapshot(e), NEW g, IsSnapshot(g), Follows(e, g), e.rev = g.rev
    PROVE  g = e
  <1>1. \A n \in DOMAIN g.records : n \in DOMAIN e.records /\ g.records[n] = e.records[n]
    BY DEF Follows, IsSnapshot
  <1>2. DOMAIN g.records = DOMAIN e.records
    BY <1>1 DEF Follows
  <1>3. g.records = e.records
    <2>1. g.records = [n \in DOMAIN g.records |-> g.records[n]]
          /\ e.records = [n \in DOMAIN e.records |-> e.records[n]]
      BY DEF IsSnapshot
    <2> QED
      BY <1>1, <1>2, <2>1, Zenon
  <1> QED
    BY <1>3, Zenon DEF IsSnapshot

-----------------------------------------------------------------------------
\* What PageAt makes of a snapshot.
PageOf(e, m, req) ==
    LET changed == Newer(e, req.after)
        name == IF changed = {} THEN None ELSE NameAt(changed, req.offset)
    IN  [member |-> m, after |-> req.after, at |-> e.rev, offset |-> req.offset,
         next |-> IF req.offset + 1 < Cardinality(changed) THEN req.offset + 1 ELSE None,
         name |-> name, data |-> IF name = None THEN None ELSE e.records[name]]

\* The names among S that come first.
Lower(S, k) == {n \in S : Rank(S, n) < k}

\* A function f with the entries of g for S.
Overlaid(f, g, S) == [n \in DOMAIN f \cup S |-> IF n \in S THEN g[n] ELSE f[n]]

\* What was read so far is the beginning of the changes of snapshot e.
Batch(v, e) ==
    LET p == PendingSync(v)
        changed == Newer(e, v.rev) IN
    /\ p.request.after = v.rev /\ p.request.at \in {None, e.rev}
    /\ v.sync # None => p.request.at = e.rev
    /\ p.request.offset \in Nat
    /\ p.request.offset = 0 \/ p.request.offset < Cardinality(changed)
    /\ p.seen = Lower(changed, p.request.offset)
    /\ p.records = Overlaid(v.records, e.records, p.seen)

\* The changes since a revision are finitely many names.
LEMMA NewerIsFinite ==
    ASSUME NEW e, IsSnapshot(e), NEW after
    PROVE  /\ IsFiniteSet(Newer(e, after)) /\ Newer(e, after) \subseteq Names
           /\ Newer(e, after) \subseteq DOMAIN e.records /\ Cardinality(Newer(e, after)) \in Nat
  <1>1. Newer(e, after) \subseteq DOMAIN e.records
    BY DEF Newer
  <1>2. IsFiniteSet(DOMAIN e.records) /\ DOMAIN e.records \subseteq Names
    BY DEF IsSnapshot
  <1>3. IsFiniteSet(Newer(e, after))
    BY <1>1, <1>2, FS_Subset
  <1> QED
    BY <1>1, <1>2, <1>3, FS_CardinalityType

\* Before the first page nothing was read.
LEMMA FirstBatch ==
    ASSUME NEW v, IsSnapshot(Base(v)), NEW e, IsSnapshot(e), v.sync = None
    PROVE  Batch(v, e)
  <1>1. PendingSync(v) = [request |-> FirstRequest(v.rev), records |-> v.records, seen |-> {}]
    BY DEF PendingSync
  <1>2. Lower(Newer(e, v.rev), 0) = {}
    <2>1. \A n \in Newer(e, v.rev) : Rank(Newer(e, v.rev), n) \in Nat
      BY NewerIsFinite, RankBounds
    <2> QED
      BY <2>1 DEF Lower
  <1>3. Overlaid(v.records, e.records, {}) = v.records
    <2>1. v.records = [n \in DOMAIN v.records |-> v.records[n]]
      BY DEF IsSnapshot, Base
    <2>2. Overlaid(v.records, e.records, {}) = [n \in DOMAIN v.records |-> v.records[n]]
      BY DEF Overlaid
    <2> QED
      BY <2>1, <2>2, Zenon
  <1> QED
    BY <1>1, <1>2, <1>3 DEF Batch, FirstRequest

\* When all changes are read, the view is the snapshot.
LEMMA AllRead ==
    ASSUME NEW v, IsSnapshot(Base(v)), NEW e, IsSnapshot(e), Follows(Base(v), e)
    PROVE  Overlaid(v.records, e.records, Newer(e, v.rev)) = e.records
  <1> DEFINE S == Newer(e, v.rev)
  <1>1. /\ DOMAIN v.records \subseteq DOMAIN e.records /\ v.rev \in Nat
        /\ \A n \in DOMAIN e.records :
              (n \in DOMAIN v.records /\ e.records[n] = v.records[n]) \/ v.rev < e.records[n].rev
    BY DEF Follows, Base, IsSnapshot
  <1>2. \A n \in DOMAIN e.records : e.records[n].rev \in Nat
    BY DEF IsSnapshot
  <1>3. /\ S \subseteq DOMAIN e.records
        /\ \A n \in DOMAIN e.records \ S : n \in DOMAIN v.records /\ e.records[n] = v.records[n]
    BY <1>1, <1>2 DEF Newer
  <1>4. DOMAIN v.records \cup S = DOMAIN e.records
    BY <1>1, <1>3
  <1>5. e.records = [n \in DOMAIN e.records |-> e.records[n]]
    BY DEF IsSnapshot
  <1> HIDE DEF S
  <1>6. Overlaid(v.records, e.records, S)
            = [n \in DOMAIN e.records |-> IF n \in S THEN e.records[n] ELSE v.records[n]]
    BY <1>4 DEF Overlaid
  <1>7. \A n \in DOMAIN e.records : (IF n \in S THEN e.records[n] ELSE v.records[n]) = e.records[n]
    BY <1>3
  <1> QED
    BY <1>5, <1>6, <1>7 DEF S

\* The next page brings the next name.
LEMMA NextName ==
    ASSUME NEW S, IsFiniteSet(S), S \subseteq Names, NEW k \in Nat, k < Cardinality(S),
           NEW name, name = NameAt(S, k)
    PROVE  /\ name \in S /\ name # None /\ name \notin Lower(S, k)
           /\ Lower(S, k) \cup {name} = Lower(S, k + 1)
           /\ k + 1 >= Cardinality(S) => Lower(S, k + 1) = S
  <1>1. \E n \in S : Rank(S, n) = k
    BY RankHasName
  <1>2. name \in S /\ Rank(S, name) = k
    BY <1>1 DEF NameAt
  <1>3. \A n \in S : Rank(S, n) \in Nat /\ Rank(S, n) < Cardinality(S)
    BY RankBounds
  <1>4. name # None
    BY <1>2, BrainAssumption DEF Names
  <1>5. \A n \in S : Rank(S, n) = k => n = name
    BY <1>2, RankHasName
  <1>6. name \notin Lower(S, k)
    BY <1>2 DEF Lower
  <1>7. Lower(S, k) \cup {name} = Lower(S, k + 1)
    <2>1. \A n \in S : Rank(S, n) < k + 1 <=> Rank(S, n) < k \/ Rank(S, n) = k
      BY <1>3
    <2> QED
      BY <1>2, <1>5, <2>1 DEF Lower
  <1>8. Cardinality(S) \in Nat
    BY FS_CardinalityType
  <1>9. k + 1 >= Cardinality(S) => Lower(S, k + 1) = S
    BY <1>3, <1>8 DEF Lower
  <1> QED
    BY <1>2, <1>4, <1>6, <1>7, <1>9

\* A snapshot that the desktop of device d takes for its member m.
Complete(e, m, d) ==
    Coherent(m, d, e.records) /\ Cardinality(DOMAIN e.records) <= MaxSharedRecords

\* None is no batch of pages.
NoneIsNoBatch ==
    \A q, r, seen : [request |-> q, records |-> r, seen |-> seen] # None

\* The name, the records and the seen names that a page leaves.
LEMMA PageAdds ==
    ASSUME NEW v, IsSnapshot(Base(v)), NEW e, IsSnapshot(e), Follows(Base(v), e), Batch(v, e),
           NEW m, NEW p, p = PageOf(e, m, ReconcileRequest(v)),
           NEW q, q = PendingSync(v), NEW S, S = Newer(e, v.rev),
           NEW records,
           records = IF p.name = None THEN q.records ELSE Put(q.records, p.name, p.data),
           NEW seen, seen = IF p.name = None THEN q.seen ELSE q.seen \cup {p.name}
    PROVE  /\ p.member = m /\ p.after = v.rev /\ p.at = e.rev /\ p.offset = q.request.offset
           /\ p.name = None \/ p.name \notin q.seen
           /\ seen \subseteq S /\ records = Overlaid(v.records, e.records, seen)
           /\ p.next # None => /\ p.next \in Nat /\ p.next < Cardinality(S)
                               /\ seen = Lower(S, p.next)
           /\ p.next = None => seen = S
  <1> DEFINE k == q.request.offset
  <1>1. /\ q.request.after = v.rev /\ k \in Nat /\ (k = 0 \/ k < Cardinality(S))
        /\ q.seen = Lower(S, k) /\ q.records = Overlaid(v.records, e.records, q.seen)
    BY DEF Batch
  <1>2. ReconcileRequest(v) = q.request
    BY DEF ReconcileRequest, PendingSync
  <1>3. /\ IsFiniteSet(S) /\ S \subseteq Names /\ Cardinality(S) \in Nat
    BY NewerIsFinite
  <1>4. /\ p.member = m /\ p.after = v.rev /\ p.at = e.rev /\ p.offset = k
        /\ p.next = IF k + 1 < Cardinality(S) THEN k + 1 ELSE None
        /\ p.name = IF S = {} THEN None ELSE NameAt(S, k)
        /\ p.data = IF p.name = None THEN None ELSE e.records[p.name]
    <2>1. PICK req : req = q.request
      OBVIOUS
    <2>2. p = PageOf(e, m, req) /\ Newer(e, req.after) = S
      BY <1>1, <1>2, <2>1
    <2>3. PICK name : name = IF S = {} THEN None ELSE NameAt(S, req.offset)
      OBVIOUS
    <2>4. p = [member |-> m, after |-> req.after, at |-> e.rev, offset |-> req.offset,
               next |-> IF req.offset + 1 < Cardinality(S) THEN req.offset + 1 ELSE None,
               name |-> name, data |-> IF name = None THEN None ELSE e.records[name]]
      BY <2>2, <2>3 DEF PageOf
    <2>5. /\ p.member = m /\ p.after = req.after /\ p.at = e.rev /\ p.offset = req.offset
          /\ p.next = (IF req.offset + 1 < Cardinality(S) THEN req.offset + 1 ELSE None)
          /\ p.name = name /\ p.data = (IF name = None THEN None ELSE e.records[name])
      <3> HIDE <2>2, <2>3
      <3> QED
        BY <2>4
    <2> QED
      BY <1>1, <2>1, <2>3, <2>5
  <1> HIDE DEF k
  <1>5. None \notin Nat
    BY BrainAssumption
  <1>6. CASE S = {}
    <2>1. Cardinality(S) = 0
      BY <1>6, FS_EmptySet
    <2>2. k = 0 /\ p.name = None /\ p.next = None
      BY <1>1, <1>3, <1>4, <1>6, <2>1
    <2>3. seen = Lower(S, k) /\ Lower(S, k) = {}
      BY <1>1, <1>6, <2>2 DEF Lower
    <2> QED
      BY <1>1, <1>4, <1>6, <2>2, <2>3 DEF k
  <1>7. CASE S # {}
    <2>1. k < Cardinality(S)
      BY <1>1, <1>3, <1>7, FS_EmptySet
    <2>2. /\ p.name \in S /\ p.name # None /\ p.name \notin Lower(S, k)
          /\ Lower(S, k) \cup {p.name} = Lower(S, k + 1)
          /\ k + 1 >= Cardinality(S) => Lower(S, k + 1) = S
      <3>1. PICK name : name = NameAt(S, k)
        OBVIOUS
      <3>2. p.name = name
        BY <1>4, <1>7, <3>1
      <3>3. k \in Nat
        BY <1>1 DEF k
      <3> QED
        BY <1>3, <2>1, <3>1, <3>2, <3>3, NextName
    <2>3. seen = Lower(S, k + 1) /\ seen = q.seen \cup {p.name}
      BY <1>1, <2>2
    <2>4. records = Overlaid(v.records, e.records, seen)
      <3>1. PICK f, g, n, T : f = v.records /\ g = e.records /\ n = p.name /\ T = q.seen
        OBVIOUS
      <3>2. q.records = Overlaid(f, g, T) /\ seen = T \cup {n} /\ p.data = g[n] /\ n # None
        BY <1>1, <1>4, <2>2, <2>3, <3>1
      <3>3. Put(Overlaid(f, g, T), n, g[n]) = Overlaid(f, g, T \cup {n})
        <4>1. DOMAIN Overlaid(f, g, T) = DOMAIN f \cup T
          BY DEF Overlaid
        <4>2. \A x \in DOMAIN f \cup T : Overlaid(f, g, T)[x] = IF x \in T THEN g[x] ELSE f[x]
          BY DEF Overlaid
        <4>3. Put(Overlaid(f, g, T), n, g[n])
                = [x \in DOMAIN f \cup (T \cup {n}) |-> IF x = n THEN g[n] ELSE Overlaid(f, g, T)[x]]
          BY <4>1 DEF Put
        <4>4. \A x \in DOMAIN f \cup (T \cup {n}) :
                (IF x = n THEN g[n] ELSE Overlaid(f, g, T)[x])
                  = (IF x \in T \cup {n} THEN g[x] ELSE f[x])
          BY <4>2
        <4> QED
          BY <4>3, <4>4 DEF Overlaid
      <3> QED
        BY <3>1, <3>2, <3>3
    <2>5. k \in Nat
      BY <1>1 DEF k
    <2>6. p.next # None => p.next = k + 1 /\ k + 1 < Cardinality(S)
      BY <1>4
    <2>7. p.next = None => k + 1 >= Cardinality(S)
      BY <1>3, <1>4, <1>5, <2>5
    <2>8. Lower(S, k + 1) \subseteq S
      BY DEF Lower
    <2> QED
      BY <1>1, <1>3, <1>4, <2>2, <2>3, <2>4, <2>5, <2>6, <2>7, <2>8 DEF k
  <1> QED
    BY <1>6, <1>7

\* Views that differ in some fields.
LEMMA ViewFields ==
    ASSUME NEW v, GoodView(v), NEW ready, NEW sync, NEW rev, NEW records
    PROVE  /\ LET w == [v EXCEPT !.ready = ready, !.sync = sync] IN
              w.ready = ready /\ w.sync = sync /\ w.rev = v.rev /\ w.records = v.records
           /\ LET w == [v EXCEPT !.ready = ready, !.sync = sync, !.rev = rev, !.records = records] IN
              w.ready = ready /\ w.sync = sync /\ w.rev = rev /\ w.records = records
  <1>1. PICK r, f, y, z, u, p : v = [rev |-> r, records |-> f, sync |-> y, ready |-> z,
                                     uncertain |-> u, pending |-> p]
    BY DEF GoodView
  <1> QED
    BY <1>1

\* A page of the snapshot being read is accepted, and brings the view on.
LEMMA PageAccepted ==
    ASSUME NoneIsNoBatch, NEW v, GoodView(v), IsSnapshot(Base(v)), NEW e, IsSnapshot(e),
           Follows(Base(v), e), Batch(v, e), NEW m, NEW d, Complete(e, m, d),
           NEW p, p = PageOf(e, m, ReconcileRequest(v)), PageValid(p),
           NEW w, w = AcceptPage(v, m, d, p).view
    PROVE  /\ AcceptPage(v, m, d, p).ok
           /\ \/ w.ready = FALSE /\ Base(w) = Base(v) /\ w.sync # None /\ Batch(w, e)
              \/ w.ready = TRUE /\ Base(w) = e /\ w.sync = None
  <1>1. PICK q, S : q = PendingSync(v) /\ S = Newer(e, v.rev)
    OBVIOUS
  <1>2. PICK records : records = IF p.name = None THEN q.records ELSE Put(q.records, p.name, p.data)
    OBVIOUS
  <1>3. PICK seen : seen = IF p.name = None THEN q.seen ELSE q.seen \cup {p.name}
    OBVIOUS
  <1>4. /\ p.member = m /\ p.after = v.rev /\ p.at = e.rev /\ p.offset = q.request.offset
        /\ p.name = None \/ p.name \notin q.seen
        /\ seen \subseteq S /\ records = Overlaid(v.records, e.records, seen)
        /\ p.next # None => /\ p.next \in Nat /\ p.next < Cardinality(S)
                            /\ seen = Lower(S, p.next)
        /\ p.next = None => seen = S
    BY <1>1, <1>2, <1>3, PageAdds
  <1>5. q.request.after = v.rev /\ q.request.at \in {None, e.rev} /\ q.seen \subseteq S
    BY <1>1 DEF Batch, Lower
  <1>6. p.name \notin q.seen
    <2>1. S \subseteq Names /\ None \notin Names
      BY <1>1, NewerIsFinite, BrainAssumption DEF Names
    <2> QED
      BY <1>4, <1>5, <2>1
  <1>7. PageFits(m, q, p)
    BY <1>4, <1>5, <1>6 DEF PageFits
  <1>8. DOMAIN records \subseteq DOMAIN e.records
    <2>1. DOMAIN records = DOMAIN v.records \cup seen
      BY <1>4 DEF Overlaid
    <2>2. DOMAIN v.records \subseteq DOMAIN e.records
      BY DEF Follows, Base
    <2>3. S \subseteq DOMAIN e.records
      BY <1>1 DEF Newer
    <2> QED
      BY <1>4, <2>1, <2>2, <2>3
  <1>9. ~(Cardinality(DOMAIN records) > MaxSharedRecords)
    <2>1. IsFiniteSet(DOMAIN e.records) /\ IsFiniteSet(DOMAIN records)
          /\ Cardinality(DOMAIN records) <= Cardinality(DOMAIN e.records)
      BY <1>8, FS_Subset DEF IsSnapshot
    <2>2. Cardinality(DOMAIN records) \in Nat /\ Cardinality(DOMAIN e.records) \in Nat
      BY <2>1, FS_CardinalityType
    <2>3. MaxSharedRecords \in Nat
      BY Limits DEF MaxSharedRecords
    <2> QED
      BY <2>1, <2>2, <2>3 DEF Complete
  <1>10. p.next = None => records = e.records /\ Coherent(m, d, records)
    BY <1>1, <1>4, AllRead DEF Complete
  <1>11. PICK a : a = AcceptPage(v, m, d, p)
    OBVIOUS
  <1>12. CASE p.next # None
    <2>1. PICK z : z = [request |-> [after |-> p.after, at |-> p.at, offset |-> p.next],
                        records |-> records, seen |-> seen]
      OBVIOUS
    <2>2. a = [ok |-> TRUE, view |-> [v EXCEPT !.ready = FALSE, !.sync = z]]
      BY <1>1, <1>2, <1>3, <1>7, <1>9, <1>11, <1>12, <2>1 DEF AcceptPage
    <2>3. z # None
      BY <2>1 DEF NoneIsNoBatch
    <2>4. /\ w.ready = FALSE /\ w.sync = z /\ w.rev = v.rev /\ w.records = v.records
          /\ a.ok
      <3>1. w = [v EXCEPT !.ready = FALSE, !.sync = z] /\ a.ok
        BY <1>11, <2>2
      <3> QED
        BY <3>1, ViewFields
    <2>5. PendingSync(w) = z
      BY <2>3, <2>4 DEF PendingSync
    <2>6. /\ z.request.after = v.rev /\ z.request.at = e.rev /\ z.request.offset = p.next
          /\ z.seen = seen /\ z.records = records
      BY <1>4, <2>1
    <2>7. Batch(w, e)
      BY <1>1, <1>4, <1>12, <2>4, <2>5, <2>6 DEF Batch
    <2> QED
      BY <1>11, <2>3, <2>4, <2>7 DEF Base
  <1>13. CASE p.next = None
    <2>2. a = [ok |-> TRUE, view |-> [v EXCEPT !.ready = TRUE, !.sync = None,
                                               !.rev = p.at, !.records = records]]
      BY <1>1, <1>2, <1>7, <1>9, <1>10, <1>11, <1>13 DEF AcceptPage
    <2>4. /\ w.ready = TRUE /\ w.sync = None /\ w.rev = p.at /\ w.records = records /\ a.ok
      <3>1. w = [v EXCEPT !.ready = TRUE, !.sync = None, !.rev = p.at, !.records = records] /\ a.ok
        BY <1>11, <2>2
      <3> QED
        BY <3>1, ViewFields
    <2>5. Base(w) = e
      BY <1>4, <1>10, <1>13, <2>4 DEF Base, IsSnapshot
    <2> QED
      BY <1>11, <2>4, <2>5
  <1> QED
    BY <1>12, <1>13

-----------------------------------------------------------------------------
(***************************************************************************)
(* Snapshots of a good Brain.                                              *)
(***************************************************************************)

\* Names of one kind are as many as what they name.
LEMMA TaggedSet ==
    ASSUME NEW k, NEW D, IsFiniteSet(D), NEW T, T = {<<k, x>> : x \in D}
    PROVE  IsFiniteSet(T) /\ Cardinality(T) = Cardinality(D) /\ Cardinality(T) \in Nat
  <1> DEFINE f == [x \in D |-> <<k, x>>]
  <1>1. f \in Bijection(D, T)
    BY DEF Bijection, Injection, IsInjective, Surjection
  <1>2. ExistsBijection(D, T)
    BY <1>1 DEF ExistsBijection
  <1>3. IsFiniteSet(T) /\ Cardinality(T) = Cardinality(D)
    BY <1>2, FS_Bijection
  <1> QED
    BY <1>3, FS_CardinalityType

\* The names of what Brain b shares, by kind.
MemberNames(b) == {<<"member", x>> : x \in DOMAIN b.members}
NodeNames(b) == {<<"node", x>> : x \in DOMAIN b.members}
OwnTasks(b, m) == {u \in DOMAIN b.tasks : b.tasks[u].creator = m}
TaskNames(b, m) == {<<"task", t>> : t \in OwnTasks(b, m)}

\* The limits of the Brain bound the names of each kind.
LEMMA NameCounts ==
    ASSUME NEW b, GoodBrain(b), NEW m
    PROVE  /\ SharedNames(b, m) = MemberNames(b) \cup NodeNames(b) \cup TaskNames(b, m)
           /\ SharedNames(b, m) \subseteq Names /\ IsFiniteSet(SharedNames(b, m))
           /\ Cardinality(MemberNames(b)) <= MaxMembers
           /\ Cardinality(NodeNames(b)) <= MaxMembers
           /\ Cardinality(TaskNames(b, m)) <= MaxTasks
           /\ Cardinality(SharedNames(b, m)) <= MaxSharedRecords
  <1>1. /\ DOMAIN b.members \subseteq Members /\ DOMAIN b.tasks \subseteq TaskIds
        /\ IsFiniteSet(DOMAIN b.members) /\ IsFiniteSet(DOMAIN b.tasks)
        /\ Cardinality(DOMAIN b.members) <= MaxMembers /\ Cardinality(DOMAIN b.tasks) <= MaxTasks
    BY GoodFacts, BrainTypes DEF Finite
  <1>2. SharedNames(b, m) = MemberNames(b) \cup NodeNames(b) \cup TaskNames(b, m)
    BY DEF SharedNames, MemberNames, NodeNames, TaskNames, OwnTasks
  <1>3. SharedNames(b, m) \subseteq Names
    BY <1>1, <1>2 DEF MemberNames, NodeNames, TaskNames, OwnTasks, Names
  <1>4. /\ IsFiniteSet(MemberNames(b)) /\ Cardinality(MemberNames(b)) <= MaxMembers
        /\ Cardinality(MemberNames(b)) \in Nat
    <2>1. /\ IsFiniteSet(MemberNames(b)) /\ Cardinality(MemberNames(b)) = Cardinality(DOMAIN b.members)
          /\ Cardinality(MemberNames(b)) \in Nat
      BY <1>1, TaggedSet, Zenon DEF MemberNames
    <2> QED
      BY <1>1, <2>1
  <1>5. /\ IsFiniteSet(NodeNames(b)) /\ Cardinality(NodeNames(b)) <= MaxMembers
        /\ Cardinality(NodeNames(b)) \in Nat
    <2>1. /\ IsFiniteSet(NodeNames(b)) /\ Cardinality(NodeNames(b)) = Cardinality(DOMAIN b.members)
          /\ Cardinality(NodeNames(b)) \in Nat
      BY <1>1, TaggedSet, Zenon DEF NodeNames
    <2> QED
      BY <1>1, <2>1
  <1>6. /\ IsFiniteSet(TaskNames(b, m)) /\ Cardinality(TaskNames(b, m)) <= MaxTasks
        /\ Cardinality(TaskNames(b, m)) \in Nat
    <2>1. /\ IsFiniteSet(OwnTasks(b, m)) /\ Cardinality(OwnTasks(b, m)) <= Cardinality(DOMAIN b.tasks)
      BY <1>1, FS_Subset DEF OwnTasks
    <2>2. /\ IsFiniteSet(TaskNames(b, m)) /\ Cardinality(TaskNames(b, m)) = Cardinality(OwnTasks(b, m))
          /\ Cardinality(TaskNames(b, m)) \in Nat
      BY <2>1, TaggedSet DEF TaskNames
    <2>3. Cardinality(DOMAIN b.tasks) \in Nat /\ MaxTasks \in Nat
      BY <1>1, FS_CardinalityType, Limits
    <2> QED
      BY <1>1, <2>1, <2>2, <2>3
  <1>7. PICK A, B, C : A = MemberNames(b) /\ B = NodeNames(b) /\ C = TaskNames(b, m)
    OBVIOUS
  <1>8. /\ IsFiniteSet(A \cup B) /\ Cardinality(A \cup B) <= Cardinality(A) + Cardinality(B)
        /\ Cardinality(A \cup B) \in Nat
    <2>1. IsFiniteSet(A) /\ IsFiniteSet(B)
      BY <1>4, <1>5, <1>7
    <2>2. IsFiniteSet(A \cup B) /\ IsFiniteSet(A \cap B)
          /\ Cardinality(A \cup B) = Cardinality(A) + Cardinality(B) - Cardinality(A \cap B)
      BY <2>1, FS_Union, FS_Intersection
    <2>3. Cardinality(A) \in Nat /\ Cardinality(B) \in Nat /\ Cardinality(A \cap B) \in Nat
          /\ Cardinality(A \cup B) \in Nat
      BY <2>1, <2>2, FS_CardinalityType
    <2> QED
      BY <2>2, <2>3
  <1>9. /\ IsFiniteSet(A \cup B \cup C)
        /\ Cardinality(A \cup B \cup C) <= Cardinality(A \cup B) + Cardinality(C)
        /\ Cardinality(A \cup B \cup C) \in Nat
    <2>0. PICK D : D = A \cup B
      OBVIOUS
    <2>1. IsFiniteSet(D) /\ IsFiniteSet(C)
      BY <1>6, <1>7, <1>8, <2>0
    <2>2. IsFiniteSet(D \cup C) /\ IsFiniteSet(D \cap C)
          /\ Cardinality(D \cup C) = Cardinality(D) + Cardinality(C) - Cardinality(D \cap C)
      BY <2>1, FS_Union, FS_Intersection
    <2>3. Cardinality(D) \in Nat /\ Cardinality(C) \in Nat /\ Cardinality(D \cap C) \in Nat
          /\ Cardinality(D \cup C) \in Nat
      BY <2>1, <2>2, FS_CardinalityType
    <2> QED
      BY <2>0, <2>2, <2>3
  <1>10. Cardinality(A \cup B \cup C) <= MaxSharedRecords
    BY <1>4, <1>5, <1>6, <1>7, <1>8, <1>9, Limits DEF MaxSharedRecords
  <1> QED
    BY <1>2, <1>3, <1>4, <1>5, <1>6, <1>7, <1>9, <1>10

\* The revisions of a good Brain's records.
LEMMA RecordRevisions ==
    ASSUME NEW b, GoodBrain(b), NEW m, NEW n \in SharedNames(b, m)
    PROVE  /\ SharedRecord(b, n).rev \in Nat /\ 0 < SharedRecord(b, n).rev
           /\ SharedRecord(b, n).rev <= b.rev
  <1>1. b.rev \in Nat /\ b.members \in [DOMAIN b.members -> MemberRecords]
        /\ b.tasks \in [DOMAIN b.tasks -> TaskRecords]
    BY GoodFacts, BrainTypes
  <1>2. ASSUME NEW x \in DOMAIN b.members
        PROVE  /\ b.members[x].rev \in Nat /\ 0 < b.members[x].rev /\ b.members[x].rev <= b.rev
               /\ b.members[x].nodeRev \in Nat /\ 0 < b.members[x].nodeRev
               /\ b.members[x].nodeRev <= b.rev
    <2>1. b.members[x] \in MemberRecords /\ MemberValid(b, x)
      BY <1>1, GoodFacts
    <2> QED
      BY <2>1 DEF MemberRecords, MemberValid
  <1>3. ASSUME NEW t \in DOMAIN b.tasks
        PROVE  b.tasks[t].rev \in Nat /\ 0 < b.tasks[t].rev /\ b.tasks[t].rev <= b.rev
    <2>1. b.tasks[t] \in TaskRecords /\ TaskValid(b, t)
      BY <1>1, GoodFacts
    <2> QED
      BY <2>1 DEF TaskRecords, TaskValid
  <1>4. \/ \E x \in DOMAIN b.members : n = <<"member", x>>
        \/ \E x \in DOMAIN b.members : n = <<"node", x>>
        \/ \E t \in DOMAIN b.tasks : n = <<"task", t>>
    BY DEF SharedNames
  <1>5. CASE \E x \in DOMAIN b.members : n = <<"member", x>>
    BY <1>2, <1>5, SharedRevisions
  <1>6. CASE \E x \in DOMAIN b.members : n = <<"node", x>>
    BY <1>2, <1>6, SharedRevisions
  <1>7. CASE \E t \in DOMAIN b.tasks : n = <<"task", t>>
    BY <1>3, <1>7, SharedRevisions
  <1> QED
    BY <1>4, <1>5, <1>6, <1>7

\* A good Brain makes snapshots.
LEMMA SnapshotGood ==
    ASSUME NEW b, GoodBrain(b), NEW m
    PROVE  /\ IsSnapshot(Snapshot(b, m)) /\ Snapshot(b, m).rev = b.rev
           /\ DOMAIN Snapshot(b, m).records = SharedNames(b, m)
           /\ \A n \in SharedNames(b, m) : Snapshot(b, m).records[n] = SharedRecord(b, n)
  <1> DEFINE e == Snapshot(b, m)
  <1>1. /\ e = [rev |-> e.rev, records |-> e.records] /\ e.rev = b.rev
        /\ DOMAIN e.records = SharedNames(b, m)
        /\ \A n \in SharedNames(b, m) : e.records[n] = SharedRecord(b, n)
        /\ e.records = [n \in DOMAIN e.records |-> e.records[n]]
    BY DEF Snapshot
  <1>2. b.rev \in Nat
    BY GoodFacts, BrainTypes
  <1> HIDE DEF e
  <1>3. IsSnapshot(e)
    BY <1>1, <1>2, NameCounts, RecordRevisions DEF IsSnapshot
  <1> QED
    BY <1>1, <1>3 DEF e

\* As the Brain grows, each snapshot follows the one before.
LEMMA SnapshotGrows ==
    ASSUME NEW b, GoodBrain(b), NEW c, GoodBrain(c), Grows(b, c), NEW m
    PROVE  Follows(Snapshot(b, m), Snapshot(c, m))
  <1>1. b.rev \in Nat /\ c.rev \in Nat /\ b.rev <= c.rev
    BY GoodFacts, BrainTypes DEF Grows
  <1>2. /\ SharedNames(b, m) \subseteq SharedNames(c, m)
        /\ \A n \in SharedNames(c, m) :
              \/ n \in SharedNames(b, m) /\ SharedRecord(c, n) = SharedRecord(b, n)
              \/ SharedRecord(c, n).rev = c.rev /\ b.rev < c.rev
    BY ChangesShown
  <1>3. PICK s, e : s = Snapshot(b, m) /\ e = Snapshot(c, m)
    OBVIOUS
  <1>4. /\ s.rev = b.rev /\ DOMAIN s.records = SharedNames(b, m)
        /\ \A n \in SharedNames(b, m) : s.records[n] = SharedRecord(b, n)
        /\ e.rev = c.rev /\ DOMAIN e.records = SharedNames(c, m)
        /\ \A n \in SharedNames(c, m) : e.records[n] = SharedRecord(c, n)
    BY <1>3, SnapshotGood
  <1> QED
    BY <1>1, <1>2, <1>3, <1>4 DEF Follows

\* Every snapshot follows the empty view.
LEMMA SnapshotFollowsNothing ==
    ASSUME NEW b, GoodBrain(b), NEW m, NEW v, v.rev = 0, v.records = [n \in {} |-> None]
    PROVE  IsSnapshot(Base(v)) /\ Follows(Base(v), Snapshot(b, m))
  <1>1. PICK s, e : s = Base(v) /\ e = Snapshot(b, m)
    OBVIOUS
  <1>2. s = [rev |-> 0, records |-> [n \in {} |-> None]]
    BY <1>1 DEF Base
  <1>3. /\ s.rev = 0 /\ DOMAIN s.records = {} /\ s = [rev |-> s.rev, records |-> s.records]
        /\ s.records = [n \in DOMAIN s.records |-> s.records[n]]
    BY <1>2
  <1>4. IsSnapshot(s)
    BY <1>3, FS_EmptySet DEF IsSnapshot
  <1>5. /\ e.rev = b.rev /\ b.rev \in Nat
        /\ \A n \in DOMAIN e.records : e.records[n].rev \in Nat /\ 0 < e.records[n].rev
    BY <1>1, SnapshotGood, RecordRevisions, GoodFacts, BrainTypes
  <1> QED
    BY <1>1, <1>3, <1>4, <1>5 DEF Follows

\* What a good Brain shows a member with access is what its desktop accepts.
LEMMA SnapshotComplete ==
    ASSUME NEW b, GoodBrain(b), NEW m \in DOMAIN b.members, ~b.members[m].revoked,
           NEW d, b.members[m].device = d
    PROVE  Complete(Snapshot(b, m), m, d)
  <1>1. PICK e : e = Snapshot(b, m)
    OBVIOUS
  <1>2. PICK R : R = e.records
    OBVIOUS
  <1>3. /\ DOMAIN R = SharedNames(b, m)
        /\ \A n \in SharedNames(b, m) : R[n] = SharedRecord(b, n)
    BY <1>1, <1>2, SnapshotGood
  <1>4. /\ SharedNames(b, m) = MemberNames(b) \cup NodeNames(b) \cup TaskNames(b, m)
        /\ Cardinality(MemberNames(b)) <= MaxMembers
        /\ Cardinality(NodeNames(b)) <= MaxMembers
        /\ Cardinality(TaskNames(b, m)) <= MaxTasks
        /\ Cardinality(DOMAIN R) <= MaxSharedRecords
    BY <1>3, NameCounts
  <1> DEFINE kind(k) == {n \in DOMAIN R : n[1] = k}
  <1>5. /\ \A n \in MemberNames(b) : n[1] = "member"
        /\ \A n \in NodeNames(b) : n[1] = "node"
        /\ \A n \in TaskNames(b, m) : n[1] = "task"
    BY DEF MemberNames, NodeNames, TaskNames
  <1>6. /\ kind("member") = MemberNames(b) /\ kind("node") = NodeNames(b)
        /\ kind("task") = TaskNames(b, m)
    BY <1>3, <1>4, <1>5
  <1>7. ASSUME NEW x \in DOMAIN b.members
        PROVE  /\ <<"member", x>> \in DOMAIN R /\ <<"node", x>> \in DOMAIN R
               /\ R[<<"member", x>>].owner = (x = Owner)
               /\ R[<<"member", x>>].revoked = b.members[x].revoked
               /\ R[<<"node", x>>].member = x /\ R[<<"node", x>>].device = b.members[x].device
               /\ R[<<"node", x>>].online = b.members[x].online
    <2>1. <<"member", x>> \in SharedNames(b, m) /\ <<"node", x>> \in SharedNames(b, m)
      BY DEF SharedNames
    <2>2. R[<<"member", x>>] = SharedRecord(b, <<"member", x>>)
          /\ R[<<"node", x>>] = SharedRecord(b, <<"node", x>>)
      BY <1>3, <2>1
    <2>3. SharedRecord(b, <<"member", x>>)
            = [rev |-> b.members[x].rev, owner |-> x = Owner, revoked |-> b.members[x].revoked]
      BY DEF SharedRecord
    <2>4. SharedRecord(b, <<"node", x>>)
            = [rev |-> b.members[x].nodeRev, member |-> x, device |-> b.members[x].device,
               online |-> b.members[x].online, seen |-> b.members[x].seen,
               announced |-> b.members[x].announced]
      BY DEF SharedRecord
    <2> QED
      BY <1>3, <2>1, <2>2, <2>3, <2>4
  <1>8. ASSUME NEW n \in NodeNames(b)
        PROVE  /\ <<"member", R[n].member>> \in DOMAIN R
               /\ R[n].online => ~R[<<"member", R[n].member>>].revoked
    <2>1. PICK x \in DOMAIN b.members : n = <<"node", x>>
      BY DEF NodeNames
    <2>2. b.members[x].online => ~b.members[x].revoked
      BY GoodFacts DEF MemberValid
    <2> QED
      BY <1>7, <2>1, <2>2
  <1>9. ASSUME NEW n \in TaskNames(b, m)
        PROVE  <<"node", R[n].sender>> \in DOMAIN R /\ R[<<"node", R[n].sender>>].member = m
    <2>1. PICK t \in DOMAIN b.tasks : n = <<"task", t>> /\ b.tasks[t].creator = m
      BY DEF TaskNames, OwnTasks
    <2>2. R[n] = SharedRecord(b, n)
      BY <1>3, <1>4
    <2>3. SharedRecord(b, n).sender = m
      BY <2>1 DEF SharedRecord
    <2> QED
      BY <1>7, <2>2, <2>3
  <1>10. {n \in MemberNames(b) : R[n].owner /\ ~R[n].revoked} = {<<"member", Owner>>}
    <2>1. Owner \in DOMAIN b.members /\ ~b.members[Owner].revoked
      BY GoodFacts
    <2>2. <<"member", Owner>> \in MemberNames(b)
      BY <2>1 DEF MemberNames
    <2>3. R[<<"member", Owner>>].owner /\ ~R[<<"member", Owner>>].revoked
      BY <1>7, <2>1
    <2>4. ASSUME NEW n \in MemberNames(b), R[n].owner PROVE n = <<"member", Owner>>
      <3>1. PICK x \in DOMAIN b.members : n = <<"member", x>>
        BY DEF MemberNames
      <3>2. x = Owner
        BY <1>7, <2>4, <3>1
      <3> QED
        BY <3>1, <3>2
    <2> QED
      BY <2>2, <2>3, <2>4
  <1>11. Cardinality({n \in MemberNames(b) : R[n].owner /\ ~R[n].revoked}) = 1
    BY <1>10, FS_Singleton
  <1>12. /\ <<"member", m>> \in DOMAIN R /\ ~R[<<"member", m>>].revoked
         /\ <<"node", m>> \in DOMAIN R /\ R[<<"node", m>>].member = m
         /\ R[<<"node", m>>].device = d
    BY <1>7
  <1>13. Coherent(m, d, R)
    <2>1. \A n \in kind("node") :
            LET owner == <<"member", R[n].member>> IN
            /\ owner \in DOMAIN R
            /\ R[n].online => ~R[owner].revoked
      BY <1>6, <1>8
    <2>2. \A n \in kind("task") :
            LET sender == <<"node", R[n].sender>> IN
            sender \in DOMAIN R /\ R[sender].member = m
      BY <1>6, <1>9
    <2>3. Cardinality({n \in kind("member") : R[n].owner /\ ~R[n].revoked}) = 1
      BY <1>6, <1>11
    <2>4. /\ Cardinality(kind("member")) <= MaxMembers /\ Cardinality(kind("node")) <= MaxMembers
          /\ Cardinality(kind("task")) <= MaxTasks
      BY <1>4, <1>6
    <2> QED
      BY <1>12, <2>1, <2>2, <2>3, <2>4 DEF Coherent
  <1> QED
    BY <1>1, <1>2, <1>4, <1>13 DEF Complete

\* A page of the Brain is a page of what it shows.
LEMMA PageOfSnapshot ==
    ASSUME NEW b, GoodBrain(b), NEW m, NEW e, e = Snapshot(b, m), NEW req, req.offset \in Nat,
           req.offset = 0 \/ req.offset < Cardinality(Newer(e, req.after))
    PROVE  PageAt(b, m, req) = PageOf(e, m, req)
  <1>1. /\ IsSnapshot(e) /\ e.rev = b.rev /\ DOMAIN e.records = SharedNames(b, m)
        /\ \A n \in SharedNames(b, m) : e.records[n] = SharedRecord(b, n)
    BY SnapshotGood
  <1>2. PICK S : S = Newer(e, req.after)
    OBVIOUS
  <1>3. S = {n \in SharedNames(b, m) : SharedRecord(b, n).rev > req.after}
    BY <1>1, <1>2 DEF Newer
  <1>4. PICK name : name = IF S = {} THEN None ELSE NameAt(S, req.offset)
    OBVIOUS
  <1>5. PICK next : next = IF req.offset + 1 < Cardinality(S) THEN req.offset + 1 ELSE None
    OBVIOUS
  <1>6. S # {} => name \in S
    <2> SUFFICES ASSUME S # {} PROVE name \in S
      OBVIOUS
    <2>1. IsFiniteSet(S) /\ S \subseteq Names /\ Cardinality(S) \in Nat
      BY <1>1, <1>2, NewerIsFinite
    <2>2. req.offset < Cardinality(S)
      BY <1>2, <2>1, FS_EmptySet
    <2> QED
      BY <1>4, <2>1, <2>2, NextName
  <1>7. (IF name = None THEN None ELSE SharedRecord(b, name))
          = (IF name = None THEN None ELSE e.records[name])
    BY <1>1, <1>3, <1>4, <1>6
  <1>8. PageAt(b, m, req)
          = [member |-> m, after |-> req.after, at |-> b.rev, offset |-> req.offset, next |-> next,
             name |-> name, data |-> IF name = None THEN None ELSE SharedRecord(b, name)]
    BY <1>3, <1>4, <1>5 DEF PageAt
  <1>9. PageOf(e, m, req)
          = [member |-> m, after |-> req.after, at |-> e.rev, offset |-> req.offset, next |-> next,
             name |-> name, data |-> IF name = None THEN None ELSE e.records[name]]
    BY <1>2, <1>4, <1>5 DEF PageOf
  <1> QED
    BY <1>1, <1>7, <1>8, <1>9

-----------------------------------------------------------------------------
(***************************************************************************)
(* What a desktop has read, and the page that is on its way to it.         *)
(***************************************************************************)

AsksFor(c, op) == c.asking # None /\ c.asking.op = op

\* A page has come.
IsPage(c, s) == AsksFor(c, "sync") /\ s.reply # None /\ s.reply.err = "none"

\* Nothing was read yet.
Fresh(v) == v.rev = 0 /\ v.records = [n \in {} |-> None] /\ v.sync = None

\* The snapshot that the pages come from: later than what was read completely, not
\* later than Brain f, and what was read of it is its beginning.
Source(f, d, c, e) ==
    /\ IsSnapshot(e) /\ Follows(Base(c.view), e) /\ Follows(e, Snapshot(f, c.member))
    /\ Complete(e, c.member, d) /\ Batch(c.view, e)

\* The page of it that was asked for.
PageFrom(e, c, p) == p = PageOf(e, c.member, ReconcileRequest(c.view)) /\ PageValid(p)

\* What client c has read is a snapshot that Brain f follows; its batch and the page on its
\* connection s come from one snapshot between the two.
Reads(f, d, c, s) ==
    /\ IsSnapshot(Base(c.view)) /\ Follows(Base(c.view), Snapshot(f, c.member))
    /\ AsksFor(c, "join") => Fresh(c.view)
    /\ AsksFor(c, "sync") => c.asking.page = ReconcileRequest(c.view)
    /\ c.view.sync # None \/ IsPage(c, s) =>
          \E e : Source(f, d, c, e) /\ (IsPage(c, s) => PageFrom(e, c, s.reply.value))

\* Every client reads so.
ReadInv == \A d \in Devices : client[d] # None => Reads(file, d, client[d], wire[d])

\* A client that starts anew, that stays with what it has read, or gives up a batch.
Undisturbed(c, s, c2, s2) ==
    c2 # None =>
        \/ Fresh(c2.view) /\ ~AsksFor(c2, "sync")
        \/ /\ c # None /\ c2.member = c.member /\ Base(c2.view) = Base(c.view)
           /\ c2.view.sync \in {c.view.sync, None} /\ ~AsksFor(c2, "join")
           /\ AsksFor(c2, "sync") => c2.asking.page = ReconcileRequest(c2.view)
           /\ ~IsPage(c2, s2)
        \/ c2 = c /\ (IsPage(c, s2) => IsPage(c, s) /\ s2.reply = s.reply)

\* Sources stay as the Brain grows.
LEMMA SourceKept ==
    ASSUME NEW f, GoodBrain(f), NEW g, GoodBrain(g), Grows(f, g), NEW d, NEW c, NEW e,
           Source(f, d, c, e)
    PROVE  Source(g, d, c, e)
  <1>1. IsSnapshot(Snapshot(f, c.member)) /\ IsSnapshot(Snapshot(g, c.member))
    BY SnapshotGood
  <1>2. Follows(Snapshot(f, c.member), Snapshot(g, c.member))
    BY SnapshotGrows
  <1> QED
    BY <1>1, <1>2, FollowsOn DEF Source

\* Undisturbed reading.
LEMMA ReadsOn ==
    ASSUME NEW f, GoodBrain(f), NEW g, GoodBrain(g), Grows(f, g), NEW d,
           NEW c, NEW s, c # None => Reads(f, d, c, s),
           NEW c2, c2 # None, NEW s2, Undisturbed(c, s, c2, s2)
    PROVE  Reads(g, d, c2, s2)
  <1>1. CASE Fresh(c2.view) /\ ~AsksFor(c2, "sync")
    <2>1. IsSnapshot(Base(c2.view)) /\ Follows(Base(c2.view), Snapshot(g, c2.member))
      BY <1>1, SnapshotFollowsNothing DEF Fresh
    <2>2. c2.view.sync = None /\ ~IsPage(c2, s2)
      BY <1>1 DEF Fresh, IsPage
    <2> QED
      BY <1>1, <2>1, <2>2 DEF Reads
  <1>2. ASSUME c # None
        PROVE  /\ IsSnapshot(Base(c.view)) /\ Follows(Base(c.view), Snapshot(g, c.member))
               /\ \A e : Source(f, d, c, e) => Source(g, d, c, e)
    <2>1. /\ IsSnapshot(Snapshot(f, c.member)) /\ IsSnapshot(Snapshot(g, c.member))
          /\ Follows(Snapshot(f, c.member), Snapshot(g, c.member))
      BY SnapshotGood, SnapshotGrows
    <2>2. IsSnapshot(Base(c.view)) /\ Follows(Base(c.view), Snapshot(f, c.member))
      BY <1>2 DEF Reads
    <2>3. Follows(Base(c.view), Snapshot(g, c.member))
      BY <2>1, <2>2, FollowsOn
    <2>4. \A e : Source(f, d, c, e) => Source(g, d, c, e)
      BY SourceKept
    <2> QED
      BY <2>2, <2>3, <2>4
  <1>3. CASE /\ c # None /\ c2.member = c.member /\ Base(c2.view) = Base(c.view)
             /\ c2.view.sync \in {c.view.sync, None} /\ ~AsksFor(c2, "join")
             /\ AsksFor(c2, "sync") => c2.asking.page = ReconcileRequest(c2.view)
             /\ ~IsPage(c2, s2)
    <2>1. IsSnapshot(Base(c2.view)) /\ Follows(Base(c2.view), Snapshot(g, c2.member))
      BY <1>2, <1>3
    <2>2. ASSUME c2.view.sync # None
          PROVE  \E e : Source(g, d, c2, e)
      <3>1. c2.view.sync = c.view.sync /\ c.view.sync # None
        BY <1>3, <2>2
      <3>2. PICK e : Source(f, d, c, e)
        BY <1>3, <3>1 DEF Reads
      <3>3. Source(g, d, c, e)
        BY <1>2, <1>3, <3>2
      <3>4. c2.view.rev = c.view.rev /\ c2.view.records = c.view.records
        <4>1. PICK r, x, r2, x2 : r = c.view.rev /\ x = c.view.records
                                  /\ r2 = c2.view.rev /\ x2 = c2.view.records
          OBVIOUS
        <4>2. [rev |-> r, records |-> x] = [rev |-> r2, records |-> x2]
          BY <1>3, <4>1 DEF Base
        <4>3. r = r2 /\ x = x2
          BY <4>2
        <4> QED
          BY <4>1, <4>3
      <3>5. PendingSync(c2.view) = PendingSync(c.view)
        BY <3>1, <3>4 DEF PendingSync
      <3>6. Batch(c2.view, e)
        BY <3>1, <3>3, <3>4, <3>5 DEF Source, Batch
      <3>7. Source(g, d, c2, e)
        BY <1>3, <3>3, <3>6 DEF Source
      <3> QED
        BY <3>7
    <2> QED
      BY <1>3, <2>1, <2>2 DEF Reads
  <1>4. CASE c2 = c /\ (IsPage(c, s2) => IsPage(c, s) /\ s2.reply = s.reply)
    <2>1. c # None /\ Reads(f, d, c, s)
      BY <1>4
    <2>2. ASSUME c.view.sync # None \/ IsPage(c, s2)
          PROVE  \E e : Source(g, d, c, e) /\ (IsPage(c, s2) => PageFrom(e, c, s2.reply.value))
      <3>1. PICK e : Source(f, d, c, e) /\ (IsPage(c, s) => PageFrom(e, c, s.reply.value))
        BY <1>4, <2>1, <2>2 DEF Reads
      <3>2. Source(g, d, c, e) /\ (IsPage(c, s2) => PageFrom(e, c, s2.reply.value))
        BY <1>2, <1>4, <2>1, <3>1
      <3> QED
        BY <3>2
    <2>3. Reads(g, d, c, s2)
      BY <1>2, <2>1, <2>2 DEF Reads
    <2> QED
      BY <1>4, <2>3
  <1> QED
    BY <1>1, <1>3, <1>4 DEF Undisturbed

\* Every desktop reads on, or has a new page.
LEMMA ReadInvKept ==
    ASSUME CollaborationInv, CollaborationInv', Grows(file, file'), ReadInv,
           \A e \in Devices : \/ Undisturbed(client[e], wire[e], client'[e], wire'[e])
                              \/ client'[e] # None => Reads(file', e, client'[e], wire'[e])
    PROVE  ReadInv'
  <1>1. GoodBrain(file) /\ GoodBrain(file')
    BY DEF CollaborationInv, StoreGood
  <1>2. ASSUME NEW e \in Devices, client'[e] # None
        PROVE  Reads(file', e, client'[e], wire'[e])
    <2>1. PICK c, s, c2, s2 : c = client[e] /\ s = wire[e] /\ c2 = client'[e] /\ s2 = wire'[e]
      OBVIOUS
    <2>2. c # None => Reads(file, e, c, s)
      BY <2>1 DEF ReadInv
    <2>3. CASE Undisturbed(c, s, c2, s2)
      <3>1. Reads(file', e, c2, s2)
        BY <1>1, <1>2, <2>1, <2>2, <2>3, ReadsOn
      <3> QED
        BY <2>1, <3>1
    <2> QED
      BY <1>2, <2>1, <2>3
  <1> QED
    BY <1>2 DEF ReadInv

\* The host answers with a page: of the snapshot that was being read, or of the
\* newest one.
LEMMA PageComes ==
    ASSUME NEW f, GoodBrain(f), NEW d, NEW c, NEW s, NEW t,
           IsSnapshot(Base(c.view)), Follows(Base(c.view), Snapshot(f, c.member)),
           c.view.sync # None => \E e : Source(f, d, c, e),
           NEW p, TruePage(f, c.member, ReconcileRequest(c.view), p), Home(f, c.member, d)
    PROVE  \E e : Source(f, d, c, e) /\ PageFrom(e, c, p)
  <1>1. PICK v, m, q : v = c.view /\ m = c.member /\ q = ReconcileRequest(v)
    OBVIOUS
  <1>2. PICK g : g = Snapshot(f, m)
    OBVIOUS
  <1>3. /\ p = PageAt(f, m, q) /\ PageValid(p) /\ AtRevision(f, q)
        /\ m \in DOMAIN f.members /\ ~f.members[m].revoked
    BY <1>1 DEF TruePage
  <1>4. IsSnapshot(g) /\ g.rev = f.rev
    BY <1>2, SnapshotGood
  <1>5. PICK e : Source(f, d, c, e) /\ e = g
    <2>1. CASE v.sync = None
      <3>1. Batch(v, g)
        BY <1>1, <1>4, <2>1, FirstBatch
      <3>2. Complete(g, m, d)
        BY <1>1, <1>2, <1>3, SnapshotComplete DEF Home
      <3>3. Follows(g, g)
        BY <1>4 DEF Follows, IsSnapshot
      <3> QED
        BY <1>1, <1>2, <1>4, <3>1, <3>2, <3>3 DEF Source
    <2>2. CASE v.sync # None
      <3>1. PICK e : Source(f, d, c, e)
        BY <1>1, <2>2
      <3>2. Batch(v, e) /\ IsSnapshot(e) /\ Follows(e, g)
        BY <1>1, <1>2, <3>1 DEF Source
      <3>3. q = PendingSync(v).request
        BY <1>1, <2>2 DEF PendingSync, ReconcileRequest
      <3>4. q.at = e.rev /\ e.rev \in Nat
        BY <2>2, <3>2, <3>3 DEF Batch, IsSnapshot
      <3>5. e.rev = g.rev
        BY <1>3, <1>4, <3>4, BrainAssumption DEF AtRevision
      <3>6. g = e
        BY <1>4, <3>2, <3>5, SameRevision
      <3> QED
        BY <3>1, <3>6
    <2> QED
      BY <2>1, <2>2
  <1>6. Batch(v, e)
    BY <1>1, <1>5 DEF Source
  <1>7. q = PendingSync(v).request
    BY <1>1 DEF PendingSync, ReconcileRequest
  <1>8. /\ q.after = v.rev /\ q.offset \in Nat
        /\ q.offset = 0 \/ q.offset < Cardinality(Newer(e, v.rev))
    BY <1>6, <1>7 DEF Batch
  <1>9. PageAt(f, m, q) = PageOf(e, m, q)
    BY <1>2, <1>5, <1>8, PageOfSnapshot
  <1>10. PageFrom(e, c, p)
    BY <1>1, <1>3, <1>9 DEF PageFrom
  <1> QED
    BY <1>5, <1>10

\* The host handles a request.
LEMMA HandleReads ==
    ASSUME CollaborationInv, ReadInv, NEW d \in Devices, Handle(d)
    PROVE  ReadInv'
  <1>1. CollaborationInv' /\ Grows(file, file')
    BY HandleStep
  <1>2. Waiting(wire[d]) /\ UNCHANGED <<client, localVars>>
    BY DEF Handle
  <1>3. PICK x, id : /\ Served(x, wire[d], id) /\ Install(x)
                     /\ wire' = [wire EXCEPT ![d] = Answered(@, Reply(x.outcome))]
    BY HandleServes
  <1>4. PICK c, s, o, f, g : /\ c = client[d] /\ s = wire[d] /\ o = Reply(x.outcome)
                             /\ f = file /\ g = file'
    OBVIOUS
  <1>5. /\ wire'[d] = Answered(s, o) /\ client'[d] = c /\ GoodSession(s)
        /\ \A e \in Devices \ {d} : client'[e] = client[e] /\ wire'[e] = wire[e]
    BY <1>2, <1>3, <1>4, StoredFacts
  <1>6. \A e \in Devices \ {d} : Undisturbed(client[e], wire[e], client'[e], wire'[e])
    BY <1>5 DEF Undisturbed
  <1>7. PICK t : t = Answered(s, o)
    OBVIOUS
  <1>8. t.reply = o /\ g = x.file
    BY <1>3, <1>4, <1>5, <1>7, AnsweredFields DEF Install
  <1>9. GoodBrain(f) /\ GoodBrain(g) /\ Grows(f, g)
    BY <1>1, <1>4 DEF CollaborationInv, StoreGood
  <1>10. ASSUME c # None PROVE Reads(g, d, c, t)
    <2>1. Reads(f, d, c, s)
      BY <1>4, <1>10 DEF ReadInv
    <2>2. Linked(f, d, c, s) /\ Acting(c, reg[d], vault[d]) /\ Stored(f, d, reg[d], vault[d])
      BY <1>4, <1>10 DEF CollaborationInv, DesksGood, Desk
    <2>3. CASE ~IsPage(c, t)
      <3>1. Undisturbed(c, s, c, t)
        BY <2>3 DEF Undisturbed
      <3> QED
        BY <1>9, <1>10, <2>1, <3>1, ReadsOn
    <2>4. CASE IsPage(c, t)
      <3>1. c.asking = s.request /\ s.request.op = "sync" /\ o.err = "none"
        BY <1>2, <1>4, <1>8, <2>2, <2>4 DEF IsPage, AsksFor, Waiting, Linked
      <3>2. x.outcome.err = "none" /\ o.value = x.outcome.value
        BY <1>4, <3>1 DEF Reply
      <3>3. Admitted(s) /\ TruePage(g, s.who, s.request.page, o.value)
        BY <1>3, <1>4, <1>8, <3>1, <3>2 DEF Served, AnswerTrue
      <3>4. s.who = c.member
        BY <2>2, <3>1, <3>3 DEF Admitted, Linked
      <3>5. s.request.page = ReconcileRequest(c.view)
        BY <2>1, <2>4, <3>1 DEF Reads, IsPage
      <3>6. Home(f, c.member, d)
        BY <2>2, <3>1 DEF Acting, Stored
      <3>7. Home(g, c.member, d)
        BY <1>9, <3>6 DEF Grows, MembersGrow, MemberGrows, Home
      <3>8. Undisturbed(c, s, c, Unconnected)
        BY DEF Undisturbed, IsPage, Unconnected
      <3>9. Reads(g, d, c, Unconnected) /\ ~IsPage(c, Unconnected)
        BY <1>9, <1>10, <2>1, <3>8, ReadsOn DEF IsPage, Unconnected
      <3>10. /\ IsSnapshot(Base(c.view)) /\ Follows(Base(c.view), Snapshot(g, c.member))
             /\ c.view.sync # None => \E e : Source(g, d, c, e)
        BY <3>9 DEF Reads
      <3>11. PICK p : p = o.value
        OBVIOUS
      <3>12. \E e : Source(g, d, c, e) /\ PageFrom(e, c, p)
        BY <1>9, <3>3, <3>4, <3>5, <3>7, <3>10, <3>11, PageComes
      <3> QED
        BY <1>8, <3>9, <3>11, <3>12 DEF Reads
    <2> QED
      BY <2>3, <2>4
  <1>11. client'[d] # None => Reads(file', d, client'[d], wire'[d])
    BY <1>4, <1>5, <1>7, <1>10
  <1> QED
    BY <1>1, <1>6, <1>11, ReadInvKept

\* What a client knows of a page that came.
LEMMA PageCame ==
    ASSUME NoneIsNoBatch, CollaborationInv, ReadInv, NEW d \in Devices, Got(d, "sync"),
           NEW c, c = client[d], NEW w, w = Accepted(d).view
    PROVE  /\ Accepted(d).ok /\ GoodClient(c) /\ Reads(file, d, c, wire[d]) /\ GoodBrain(file)
           /\ \E e : /\ Source(file, d, c, e)
                     /\ \/ w.ready = FALSE /\ Base(w) = Base(c.view) /\ w.sync # None /\ Batch(w, e)
                        \/ w.ready = TRUE /\ Base(w) = e /\ w.sync = None
  <1>1. GoodClient(c) /\ c # None /\ c.asking # None
    BY ReplyCame DEF Got, Busy
  <1>2. PICK s, p : s = wire[d] /\ p = Value(d)
    OBVIOUS
  <1>3. Reads(file, d, c, s) /\ IsPage(c, s) /\ p = s.reply.value
    BY <1>1, <1>2 DEF ReadInv, Got, IsPage, AsksFor, Value
  <1>4. PICK e : Source(file, d, c, e) /\ PageFrom(e, c, p)
    BY <1>3 DEF Reads
  <1>5. PICK v, m : v = c.view /\ m = c.member
    OBVIOUS
  <1>6. /\ IsSnapshot(e) /\ Follows(Base(v), e) /\ Complete(e, m, d) /\ Batch(v, e)
        /\ p = PageOf(e, m, ReconcileRequest(v)) /\ PageValid(p)
    BY <1>4, <1>5 DEF Source, PageFrom
  <1>7. GoodView(v) /\ IsSnapshot(Base(v))
    BY <1>1, <1>3, <1>5 DEF GoodClient, Reads
  <1>8. Accepted(d) = AcceptPage(v, m, d, p)
    BY <1>2, <1>5 DEF Accepted
  <1>9. w = AcceptPage(v, m, d, p).view
    BY <1>8
  <1>10. /\ AcceptPage(v, m, d, p).ok
         /\ \/ w.ready = FALSE /\ Base(w) = Base(v) /\ w.sync # None /\ Batch(w, e)
            \/ w.ready = TRUE /\ Base(w) = e /\ w.sync = None
    BY <1>6, <1>7, <1>9, PageAccepted
  <1>11. GoodBrain(file)
    BY DEF CollaborationInv, StoreGood
  <1> QED
    BY <1>1, <1>2, <1>3, <1>4, <1>5, <1>8, <1>10, <1>11

\* A page is accepted and the next one asked for, or it was the last.
LEMMA PageReads ==
    ASSUME NoneIsNoBatch, CollaborationInv, ReadInv, NEW d \in Devices, NextPage(d) \/ LastPage(d)
    PROVE  ReadInv'
  <1>1. CollaborationInv' /\ Grows(file, file')
    BY NextPageStep, LastPageStep
  <1>2. PICK a, c, w, s : a = Accepted(d) /\ c = client[d] /\ w = a.view /\ s = wire[d]
    OBVIOUS
  <1>3. Got(d, "sync") /\ file' = file
    BY DEF NextPage, LastPage, storeVars
  <1>4. PICK e : /\ Source(file, d, c, e)
                 /\ \/ w.ready = FALSE /\ Base(w) = Base(c.view) /\ w.sync # None /\ Batch(w, e)
                    \/ w.ready = TRUE /\ Base(w) = e /\ w.sync = None
    BY <1>2, <1>3, PageCame
  <1>5. /\ GoodClient(c) /\ Reads(file, d, c, s)
    BY <1>2, <1>3, PageCame
  <1>6. PICK m, x, y, z : c = [member |-> m, view |-> x, stage |-> y, asking |-> z]
    BY <1>5 DEF GoodClient
  <1>7. CASE NextPage(d)
    <2>1. PICK c1 : c1 = [c EXCEPT !.view = w]
      OBVIOUS
    <2>2. c1 = [member |-> m, view |-> w, stage |-> y, asking |-> z]
      BY <1>6, <2>1
    <2>3. PICK q : q = [op |-> "sync", page |-> ReconcileRequest(w)]
      OBVIOUS
    <2>4. ~w.ready /\ AskSync(d, c1)
      BY <1>2, <1>7, <2>1 DEF NextPage
    <2>5. Ask(d, c1, q)
      BY <2>2, <2>3, <2>4 DEF AskSync
    <2>6. PICK c2 : c2 = [c1 EXCEPT !.asking = q]
      OBVIOUS
    <2>7. c2 = [member |-> m, view |-> w, stage |-> y, asking |-> q]
      BY <2>2, <2>6
    <2>8. /\ client'[d] = c2 /\ wire'[d] = [s EXCEPT !.request = q, !.reply = None]
          /\ \A b \in Devices \ {d} : client'[b] = client[b] /\ wire'[b] = wire[b]
      BY <1>2, <2>5, <2>6, StoredFacts DEF Ask
    <2>9. wire'[d].reply = None
      BY <1>2, <2>8, StoredFacts DEF GoodSession
    <2>10. c2.member = c.member /\ c2.view = w /\ c2.asking = q /\ q.op = "sync"
           /\ q.page = ReconcileRequest(w)
      BY <1>6, <2>3, <2>7
    <2>11. Base(w) = Base(c.view) /\ Batch(w, e) /\ ~IsPage(c2, wire'[d])
      BY <1>4, <2>4, <2>9 DEF IsPage
    <2>12. Source(file, d, c2, e)
      BY <1>4, <2>10, <2>11 DEF Source
    <2>13. Reads(file, d, c2, wire'[d])
      BY <1>5, <2>10, <2>11, <2>12 DEF Reads, AsksFor
    <2>14. \A b \in Devices \ {d} : Undisturbed(client[b], wire[b], client'[b], wire'[b])
      BY <2>8 DEF Undisturbed
    <2>15. client'[d] # None => Reads(file', d, client'[d], wire'[d])
      BY <1>3, <2>8, <2>13
    <2> QED
      BY <1>1, <2>14, <2>15, ReadInvKept
  <1>8. CASE LastPage(d)
    <2>1. PICK c2 : c2 = [c EXCEPT !.view = w, !.stage = "held", !.asking = None]
      OBVIOUS
    <2>2. c2 = [member |-> m, view |-> w, stage |-> "held", asking |-> None]
      BY <1>6, <2>1
    <2>3. w.ready /\ client' = [client EXCEPT ![d] = c2] /\ UNCHANGED wire
      BY <1>2, <1>8, <2>1 DEF LastPage
    <2>4. client'[d] = c2 /\ \A b \in Devices \ {d} : client'[b] = client[b]
      BY <2>3, StoredFacts
    <2>5. c2.member = c.member /\ c2.view = w /\ c2.asking = None
      BY <1>6, <2>2
    <2>6. Base(w) = e /\ w.sync = None
      BY <1>4, <2>3
    <2>7. IsSnapshot(e) /\ Follows(e, Snapshot(file, c.member))
      BY <1>4 DEF Source
    <2>8. Reads(file, d, c2, wire'[d])
      BY <2>5, <2>6, <2>7 DEF Reads, AsksFor, IsPage
    <2>9. \A b \in Devices \ {d} : Undisturbed(client[b], wire[b], client'[b], wire'[b])
      BY <2>3, <2>4 DEF Undisturbed
    <2>10. client'[d] # None => Reads(file', d, client'[d], wire'[d])
      BY <1>3, <2>4, <2>8
    <2> QED
      BY <1>1, <2>9, <2>10, ReadInvKept
  <1> QED
    BY <1>7, <1>8

\* What a view keeps when its connection is lost, a message is queued or acknowledged.
LEMMA ViewsKept ==
    ASSUME NEW v, GoodView(v)
    PROVE  /\ Base(Disconnected(v)) = Base(v) /\ Disconnected(v).sync = None
           /\ Base(Acknowledged(v)) = Base(v) /\ Acknowledged(v).sync = None
           /\ \A key, payload : /\ Base(Queued(v, key, payload)) = Base(v)
                                /\ Queued(v, key, payload).sync = v.sync
  <1>1. PICK a, x, y, z, e, p : v = [rev |-> a, records |-> x, sync |-> y, ready |-> z,
                                    uncertain |-> e, pending |-> p]
    BY DEF GoodView
  <1>2. v.rev = a /\ v.records = x /\ v.sync = y
    BY <1>1
  <1>3. Base(Disconnected(v)) = Base(v) /\ Disconnected(v).sync = None
    <2>1. PICK u, e2 : /\ u = Disconnected(v)
                       /\ u = [v EXCEPT !.ready = FALSE, !.sync = None, !.uncertain = e2]
      BY DEF Disconnected
    <2>2. u = [rev |-> a, records |-> x, sync |-> None, ready |-> FALSE,
               uncertain |-> e2, pending |-> p]
      BY <1>1, <2>1
    <2>3. u.rev = a /\ u.records = x /\ u.sync = None
      BY <2>2
    <2> QED
      BY <1>2, <2>1, <2>3 DEF Base
  <1>4. Base(Acknowledged(v)) = Base(v) /\ Acknowledged(v).sync = None
    <2>1. PICK u : /\ u = Acknowledged(v)
                   /\ u = [v EXCEPT !.pending = None, !.ready = FALSE, !.sync = None]
      BY DEF Acknowledged
    <2>2. u = [rev |-> a, records |-> x, sync |-> None, ready |-> FALSE,
               uncertain |-> e, pending |-> None]
      BY <1>1, <2>1
    <2>3. u.rev = a /\ u.records = x /\ u.sync = None
      BY <2>2
    <2> QED
      BY <1>2, <2>1, <2>3 DEF Base
  <1>5. ASSUME NEW key, NEW payload
        PROVE  /\ Base(Queued(v, key, payload)) = Base(v)
               /\ Queued(v, key, payload).sync = v.sync
    <2>1. PICK u, p2 : /\ u = Queued(v, key, payload) /\ u = [v EXCEPT !.pending = p2]
      BY DEF Queued
    <2>2. u = [rev |-> a, records |-> x, sync |-> y, ready |-> z, uncertain |-> e, pending |-> p2]
      BY <1>1, <2>1
    <2>3. u.rev = a /\ u.records = x /\ u.sync = y
      BY <2>2
    <2> QED
      BY <1>2, <2>1, <2>3 DEF Base
  <1> QED
    BY <1>3, <1>4, <1>5

\* One device moves.
LEMMA OneUndisturbed ==
    ASSUME NEW d \in Devices,
           \A e \in Devices \ {d} : client'[e] = client[e] /\ wire'[e] = wire[e],
           Undisturbed(client[d], wire[d], client'[d], wire'[d])
    PROVE  \A e \in Devices : Undisturbed(client[e], wire[e], client'[e], wire'[e])
  BY DEF Undisturbed

\* A request goes out for a client that kept what it has read.
LEMMA AskUndisturbed ==
    ASSUME CollaborationInv, NEW d \in Devices, NEW c, NEW q, Ask(d, c, q), GoodClient(c),
           client[d] # None, q.op # "join",
           q.op = "sync" => q.page = ReconcileRequest(c.view),
           \/ Fresh(c.view) /\ q.op # "sync"
           \/ /\ c.member = client[d].member /\ Base(c.view) = Base(client[d].view)
              /\ c.view.sync \in {client[d].view.sync, None}
    PROVE  \A e \in Devices : Undisturbed(client[e], wire[e], client'[e], wire'[e])
  <1>1. PICK c2, s : c2 = [c EXCEPT !.asking = q] /\ s = wire[d]
    OBVIOUS
  <1>2. /\ client'[d] = c2 /\ wire'[d] = [s EXCEPT !.request = q, !.reply = None]
        /\ \A e \in Devices \ {d} : client'[e] = client[e] /\ wire'[e] = wire[e]
    BY <1>1, StoredFacts DEF Ask
  <1>3. wire'[d].reply = None
    BY <1>1, <1>2, StoredFacts DEF GoodSession
  <1>4. c2.member = c.member /\ c2.view = c.view /\ c2.asking = q
    <2>1. PICK m, w, y, z : c = [member |-> m, view |-> w, stage |-> y, asking |-> z]
      BY DEF GoodClient
    <2>2. c2 = [member |-> m, view |-> w, stage |-> y, asking |-> q]
      BY <1>1, <2>1
    <2> QED
      BY <2>1, <2>2
  <1>5. ~IsPage(c2, wire'[d])
    BY <1>3 DEF IsPage
  <1>6. Undisturbed(client[d], wire[d], c2, wire'[d])
    BY <1>4, <1>5 DEF Undisturbed, AsksFor
  <1> QED
    BY <1>2, <1>6, OneUndisturbed

\* A client asks for nothing any more, or opens a connection, and kept what it has read.
LEMMA RestUndisturbed ==
    ASSUME CollaborationInv, NEW d \in Devices, client[d] # None, NEW c, client'[d] = c,
           \A e \in Devices \ {d} : client'[e] = client[e] /\ wire'[e] = wire[e],
           c = None \/ ( /\ c.member = client[d].member /\ Base(c.view) = Base(client[d].view)
                         /\ c.view.sync \in {client[d].view.sync, None}
                         /\ c.asking = None \/ c.asking.op = "auth")
    PROVE  \A e \in Devices : Undisturbed(client[e], wire[e], client'[e], wire'[e])
  <1>1. Undisturbed(client[d], wire[d], c, wire'[d])
    BY DEF Undisturbed, AsksFor, IsPage
  <1> QED
    BY <1>1, OneUndisturbed

\* A new client.
LEMMA NewUndisturbed ==
    ASSUME CollaborationInv, NEW d \in Devices, NEW m, NEW stage, NEW q, q.op # "sync",
           client' = [client EXCEPT ![d] = NewClient(m, stage, q)],
           wire' = [wire EXCEPT ![d] = Opened(q)]
    PROVE  \A e \in Devices : Undisturbed(client[e], wire[e], client'[e], wire'[e])
  <1>1. PICK c : c = NewClient(m, stage, q)
    OBVIOUS
  <1>2. client'[d] = c /\ \A e \in Devices \ {d} : client'[e] = client[e] /\ wire'[e] = wire[e]
    BY <1>1, StoredFacts
  <1>3. c.view = NewView /\ c.asking = q
    BY <1>1 DEF NewClient
  <1>4. Fresh(NewView)
    BY DEF Fresh, NewView
  <1>5. Undisturbed(client[d], wire[d], c, wire'[d])
    BY <1>3, <1>4 DEF Undisturbed, AsksFor
  <1> QED
    BY <1>2, <1>5, OneUndisturbed

\* A client gives up.
LEMMA FailUndisturbed ==
    ASSUME CollaborationInv, NEW d \in Devices, Busy(d), Failed(d)
    PROVE  \A e \in Devices : Undisturbed(client[e], wire[e], client'[e], wire'[e])
  <1>1. PICK c, w : c = client[d] /\ w = Disconnected(c.view)
    OBVIOUS
  <1>2. GoodClient(c) /\ c # None /\ GoodView(c.view)
    BY <1>1, BusyClient DEF Busy, GoodClient
  <1>3. PICK c2 : c2 = client'[d]
    OBVIOUS
  <1>4. /\ \A e \in Devices \ {d} : client'[e] = client[e] /\ wire'[e] = wire[e]
        /\ c2 = IF c.stage # "held" THEN None
                ELSE [c EXCEPT !.view = Disconnected(@), !.asking = None]
    BY <1>1, <1>3, StoredFacts DEF Failed
  <1>5. c.stage = "held" => c2 = Changed(c, w, None)
    BY <1>1, <1>4 DEF Changed
  <1>6. /\ Base(w) = Base(c.view) /\ w.sync = None /\ GoodView(w)
    BY <1>1, <1>2, ViewsKept, DisconnectedView
  <1>7. c2 = None \/ (c2.member = c.member /\ c2.view = w /\ c2.asking = None)
    <2>1. CASE c.stage # "held"
      BY <1>4, <2>1
    <2>2. CASE c.stage = "held"
      BY <1>2, <1>5, <1>6, <2>2, ClientChanges
    <2> QED
      BY <2>1, <2>2
  <1>8. c2 = None \/ ( /\ c2.member = client[d].member /\ Base(c2.view) = Base(client[d].view)
                       /\ c2.view.sync \in {client[d].view.sync, None}
                       /\ c2.asking = None \/ c2.asking.op = "auth")
    BY <1>1, <1>6, <1>7
  <1> QED
    BY <1>1, <1>2, <1>3, <1>4, <1>8, RestUndisturbed

\* The desktop sends its next request.
LEMMA AskingUndisturbed ==
    ASSUME CollaborationInv, ReadInv, NEW d \in Devices,
           \/ \E q : Command(d, q) /\ q.op \notin {"join", "sync"}
           \/ Joined(d) \/ ThenReads(d) \/ SubmitAcknowledged(d)
    PROVE  \A e \in Devices : Undisturbed(client[e], wire[e], client'[e], wire'[e])
  <1>0. PICK c0 : c0 = client[d]
    OBVIOUS
  <1>1. ASSUME NEW q, Command(d, q), q.op \notin {"join", "sync"}
        PROVE  \A e \in Devices : Undisturbed(client[e], wire[e], client'[e], wire'[e])
    <2>1. Idle(d) /\ Ask(d, c0, q)
      BY <1>0, <1>1 DEF Command
    <2>2. GoodClient(c0) /\ c0 # None
      BY <1>0, <2>1, IdleClient DEF Idle
    <2> QED
      BY <1>0, <1>1, <2>1, <2>2, AskUndisturbed
  <1>2. ASSUME NEW c, AskSync(d, c), GoodClient(c), c0 # None, c.member = c0.member,
               Base(c.view) = Base(c0.view), c.view.sync \in {c0.view.sync, None}
        PROVE  \A e \in Devices : Undisturbed(client[e], wire[e], client'[e], wire'[e])
    <2>1. PICK q : q = [op |-> "sync", page |-> ReconcileRequest(c.view)]
      OBVIOUS
    <2>2. Ask(d, c, q) /\ q.op = "sync" /\ q.page = ReconcileRequest(c.view)
      BY <1>2, <2>1 DEF AskSync
    <2> QED
      BY <1>0, <1>2, <2>2, AskUndisturbed
  <1>3. ASSUME NEW op, Got(d, op)
        PROVE  GoodClient(c0) /\ c0 # None /\ c0.asking # None /\ c0.asking.op = op /\ GoodView(c0.view)
    BY <1>0, <1>3, ReplyCame DEF Got, Busy, GoodClient
  <1>4. CASE Joined(d)
    <2>1. PICK m : m = Value(d)
      OBVIOUS
    <2>2. PICK c, q : c = [c0 EXCEPT !.member = m] /\ q = [op |-> "auth", member |-> m]
      OBVIOUS
    <2>3. Got(d, "join") /\ Ask(d, c, q)
      BY <1>0, <1>4, <2>1, <2>2 DEF Joined
    <2>4. GoodClient(c0) /\ c0 # None /\ Fresh(c0.view)
      BY <1>0, <1>3, <2>3 DEF ReadInv, Reads, AsksFor
    <2>5. GoodClient(c) /\ c.view = c0.view
      <3>1. PICK a, x, y, z : c0 = [member |-> a, view |-> x, stage |-> y, asking |-> z]
        BY <2>4 DEF GoodClient
      <3>2. c = [member |-> m, view |-> x, stage |-> y, asking |-> z]
        BY <2>2, <3>1
      <3> QED
        BY <2>4, <3>1, <3>2 DEF GoodClient
    <2>6. q.op = "auth"
      BY <2>2
    <2> QED
      BY <1>0, <2>3, <2>4, <2>5, <2>6, AskUndisturbed
  <1>5. CASE ThenReads(d)
    <2>1. AskSync(d, c0) /\ \E op : Got(d, op)
      BY <1>0, <1>5 DEF ThenReads
    <2> QED
      BY <1>2, <1>3, <2>1
  <1>6. CASE SubmitAcknowledged(d)
    <2>1. PICK w : w = Acknowledged(c0.view)
      OBVIOUS
    <2>2. PICK c : c = [c0 EXCEPT !.view = w]
      OBVIOUS
    <2>3. [c0 EXCEPT !.view = Acknowledged(@)] = c
      BY <2>1, <2>2
    <2>4. Got(d, "submit") /\ AskSync(d, c)
      BY <1>0, <1>6, <2>3 DEF SubmitAcknowledged
    <2>5. GoodClient(c0) /\ c0 # None /\ GoodView(c0.view)
      BY <1>3, <2>4
    <2>6. GoodView(w) /\ Base(w) = Base(c0.view) /\ w.sync = None
      BY <2>1, <2>5, AcknowledgedView, ViewsKept
    <2>7. GoodClient(c) /\ c.member = c0.member /\ c.view = w
      <3>1. PICK a, x, y, z : c0 = [member |-> a, view |-> x, stage |-> y, asking |-> z]
        BY <2>5 DEF GoodClient
      <3>2. c = [member |-> a, view |-> w, stage |-> y, asking |-> z]
        BY <2>2, <3>1
      <3> QED
        BY <2>5, <2>6, <3>1, <3>2 DEF GoodClient
    <2> QED
      BY <1>2, <2>4, <2>5, <2>6, <2>7
  <1> QED
    BY <1>1, <1>4, <1>5, <1>6

\* A message is queued, sent or not.
LEMMA SubmitUndisturbed ==
    ASSUME CollaborationInv, NEW d \in Devices, NEW key \in Keys, NEW payload \in Payloads,
           Submit(d, key, payload)
    PROVE  \A e \in Devices : Undisturbed(client[e], wire[e], client'[e], wire'[e])
  <1>1. PICK c0 : c0 = client[d]
    OBVIOUS
  <1>2. PICK u, c : u = Queued(c0.view, key, payload) /\ c = [c0 EXCEPT !.view = u]
    OBVIOUS
  <1>3. Idle(d)
    BY DEF Submit
  <1>4. GoodClient(c0) /\ c0 # None /\ c0.asking = None /\ GoodView(c0.view)
    BY <1>1, <1>3, IdleClient DEF Idle, GoodClient
  <1>5. GoodView(u) /\ Base(u) = Base(c0.view) /\ u.sync = c0.view.sync
    <2>1. GoodView(u)
      BY <1>2, <1>4, QueuedView
    <2>2. Base(u) = Base(c0.view) /\ u.sync = c0.view.sync
      BY <1>2, <1>4, ViewsKept
    <2> QED
      BY <2>1, <2>2
  <1>6. [client[d] EXCEPT !.view = Queued(@, key, payload)] = c
    BY <1>1, <1>2
  <1>7. GoodClient(c) /\ c.member = c0.member /\ c.view = u /\ c.asking = None
    <2>1. PICK m, x, y, z : c0 = [member |-> m, view |-> x, stage |-> y, asking |-> z]
      BY <1>4 DEF GoodClient
    <2>2. c = [member |-> m, view |-> u, stage |-> y, asking |-> z]
      BY <1>2, <2>1
    <2> QED
      BY <1>4, <1>5, <2>1, <2>2 DEF GoodClient
  <1>8. CASE CanSend(c.view)
    <2>1. PICK q : q = [op |-> "submit", msg |-> Outgoing(c.view)]
      OBVIOUS
    <2>2. Ask(d, c, q) /\ q.op = "submit"
      BY <1>6, <1>8, <2>1 DEF Submit
    <2> QED
      BY <1>1, <1>4, <1>5, <1>7, <2>2, AskUndisturbed
  <1>9. CASE ~CanSend(c.view)
    <2>1. client' = [client EXCEPT ![d] = c] /\ UNCHANGED wire
      BY <1>6, <1>9 DEF Submit
    <2>2. client'[d] = c /\ \A e \in Devices \ {d} : client'[e] = client[e] /\ wire'[e] = wire[e]
      BY <2>1, StoredFacts
    <2> QED
      BY <1>1, <1>4, <1>5, <1>7, <2>2, RestUndisturbed
  <1> QED
    BY <1>8, <1>9

\* A desktop connects or disconnects, or an invitation arrives.
LEMMA ConnectingUndisturbed ==
    ASSUME CollaborationInv, NEW d \in Devices, Reconnect(d) \/ Disconnect(d) \/ InviteReceived(d)
    PROVE  \A e \in Devices : Undisturbed(client[e], wire[e], client'[e], wire'[e])
  <1>1. PICK c0, w, q : /\ c0 = client[d] /\ w = Disconnected(c0.view)
                        /\ q = [op |-> "auth", member |-> reg[d]]
    OBVIOUS
  <1>2. ASSUME Idle(d)
        PROVE  /\ GoodClient(c0) /\ GoodView(c0.view) /\ c0 # None /\ c0.asking = None
               /\ GoodView(w) /\ Base(w) = Base(c0.view) /\ w.sync = None
    BY <1>1, <1>2, IdleClient, DisconnectedView, ViewsKept DEF GoodClient, Idle
  <1>3. CASE Reconnect(d)
    <2>1. wire' = [wire EXCEPT ![d] = Opened(q)] /\ q.op = "auth"
      BY <1>1, <1>3 DEF Reconnect
    <2>2. CASE client' = [client EXCEPT ![d] = NewClient(reg[d], "connecting", q)]
      BY <2>1, <2>2, NewUndisturbed
    <2>3. CASE Idle(d) /\ client' = [client EXCEPT ![d] =
                                       [client[d] EXCEPT !.view = Disconnected(@), !.asking = q]]
      <3>1. PICK c : c = Changed(c0, w, q)
        OBVIOUS
      <3>2. [client[d] EXCEPT !.view = Disconnected(@), !.asking = q] = c
        BY <1>1, <3>1 DEF Changed
      <3>3. client'[d] = c /\ \A e \in Devices \ {d} : client'[e] = client[e] /\ wire'[e] = wire[e]
        BY <2>1, <2>3, <3>2, StoredFacts
      <3>4. c.member = c0.member /\ c.view = w /\ c.asking = q
        BY <1>2, <2>3, <3>1, ClientChanges
      <3>5. /\ client[d] # None /\ c.member = client[d].member /\ Base(c.view) = Base(client[d].view)
            /\ c.view.sync \in {client[d].view.sync, None} /\ c.asking.op = "auth"
        BY <1>1, <1>2, <2>1, <2>3, <3>4
      <3> QED
        BY <3>3, <3>5, RestUndisturbed
    <2> QED
      BY <1>1, <1>3, <2>2, <2>3 DEF Reconnect
  <1>4. CASE Disconnect(d)
    <2>1. /\ Idle(d) /\ client' = [client EXCEPT ![d].view = Disconnected(@)]
          /\ wire' = [wire EXCEPT ![d] = Unconnected]
      BY <1>4 DEF Disconnect
    <2>2. PICK c : c = [c0 EXCEPT !.view = w]
      OBVIOUS
    <2>3. [c0 EXCEPT !.view = Disconnected(@)] = c
      BY <1>1, <2>2
    <2>4. client'[d] = c /\ \A e \in Devices \ {d} : client'[e] = client[e] /\ wire'[e] = wire[e]
      BY <1>1, <2>1, <2>3, StoredFacts
    <2>5. c.member = c0.member /\ c.view = w /\ c.asking = None
      <3>1. PICK m, x, y, z : c0 = [member |-> m, view |-> x, stage |-> y, asking |-> z]
        BY <1>2, <2>1 DEF GoodClient
      <3>2. c = [member |-> m, view |-> w, stage |-> y, asking |-> z]
        BY <2>2, <3>1
      <3> QED
        BY <1>2, <2>1, <3>1, <3>2
    <2> QED
      BY <1>1, <1>2, <2>1, <2>4, <2>5, RestUndisturbed
  <1>5. CASE InviteReceived(d)
    <2>1. Got(d, "invite") /\ client' = [client EXCEPT ![d].asking = None] /\ UNCHANGED wire
      BY <1>5 DEF InviteReceived
    <2>2. GoodClient(c0) /\ c0 # None
      BY <1>1, <2>1, ReplyCame DEF Got, Busy
    <2>3. PICK c : c = [c0 EXCEPT !.asking = None]
      OBVIOUS
    <2>4. client'[d] = c /\ \A e \in Devices \ {d} : client'[e] = client[e] /\ wire'[e] = wire[e]
      BY <1>1, <2>1, <2>3, StoredFacts
    <2>5. c.member = c0.member /\ c.view = c0.view /\ c.asking = None
      <3>1. PICK m, x, y, z : c0 = [member |-> m, view |-> x, stage |-> y, asking |-> z]
        BY <2>2 DEF GoodClient
      <3>2. c = [member |-> m, view |-> x, stage |-> y, asking |-> None]
        BY <2>3, <3>1
      <3> QED
        BY <3>1, <3>2
    <2> QED
      BY <1>1, <2>2, <2>4, <2>5, RestUndisturbed
  <1> QED
    BY <1>3, <1>4, <1>5

\* A connection ends with its host: a page that was sent is still read.
LEMMA CutUndisturbed ==
    ASSUME NEW c, NEW s, GoodSession(s)
    PROVE  Undisturbed(c, s, c, Cut(s))
  <1>1. Cut(s).reply = s.reply
    BY DEF Cut, GoodSession
  <1> QED
    BY <1>1 DEF Undisturbed, IsPage

\* The host's other steps, and the end of a desktop.
LEMMA HostUndisturbed ==
    ASSUME CollaborationInv,
           \/ UNCHANGED <<client, wire>> \/ StopHost
           \/ \E d \in Devices : Refuse(d) \/ Crash(d)
    PROVE  \A e \in Devices : Undisturbed(client[e], wire[e], client'[e], wire'[e])
  <1>1. CASE UNCHANGED <<client, wire>>
    BY <1>1 DEF Undisturbed
  <1>2. CASE StopHost
    BY <1>2, StoredFacts, CutUndisturbed DEF StopHost
  <1>3. ASSUME NEW d \in Devices, Refuse(d)
        PROVE  \A e \in Devices : Undisturbed(client[e], wire[e], client'[e], wire'[e])
    <2>1. PICK s, o : s = wire[d] /\ o = Fail("busy")
      OBVIOUS
    <2>2. /\ UNCHANGED client /\ wire'[d] = Answered(s, o) /\ GoodSession(s)
          /\ \A e \in Devices \ {d} : wire'[e] = wire[e]
      BY <1>3, <2>1, StoredFacts DEF Refuse
    <2>3. wire'[d].reply.err # "none"
      <3>1. wire'[d].reply = o
        BY <2>2, AnsweredFields
      <3> QED
        BY <2>1, <3>1 DEF Fail
    <2>4. Undisturbed(client[d], wire[d], client'[d], wire'[d])
      BY <2>2, <2>3 DEF Undisturbed, IsPage
    <2> QED
      BY <2>2, <2>4, OneUndisturbed
  <1>4. ASSUME NEW d \in Devices, Crash(d)
        PROVE  \A e \in Devices : Undisturbed(client[e], wire[e], client'[e], wire'[e])
    <2>1. client'[d] = None /\ \A e \in Devices \ {d} : client'[e] = client[e]
      BY <1>4, StoredFacts DEF Crash
    <2>2. \A e \in Devices \ {d} : wire'[e] \in {wire[e], Cut(wire[e])}
      BY <1>4, StoredFacts DEF Crash
    <2>3. ASSUME NEW e \in Devices
          PROVE  Undisturbed(client[e], wire[e], client'[e], wire'[e])
      <3>1. CASE e = d
        BY <2>1, <3>1 DEF Undisturbed
      <3>2. CASE e # d /\ wire'[e] = wire[e]
        BY <2>1, <3>2 DEF Undisturbed
      <3>3. CASE e # d /\ wire'[e] = Cut(wire[e])
        BY <2>1, <3>3, StoredFacts, CutUndisturbed
      <3> QED
        BY <2>2, <3>1, <3>2, <3>3
    <2> QED
      BY <2>3
  <1> QED
    BY <1>1, <1>2, <1>3, <1>4

\* Every step keeps what is being read explained.
LEMMA ReadInvStep ==
    ASSUME NoneIsNoBatch, CollaborationInv, ReadInv, [Next]_vars
    PROVE  ReadInv'
  <1>0. CollaborationInv' /\ Grows(file, file')
    BY InvStep
  <1>1. ASSUME \A e \in Devices : Undisturbed(client[e], wire[e], client'[e], wire'[e])
        PROVE  ReadInv'
    BY <1>0, <1>1, ReadInvKept
  <1>2. CASE HostStep
    <2>1. CASE \E d \in Devices : Handle(d)
      BY <2>1, HandleReads
    <2>2. CASE ~ \E d \in Devices : Handle(d)
      <3>1. UNCHANGED <<client, wire>> \/ StopHost \/ \E d \in Devices : Refuse(d)
        BY <1>2, <2>2 DEF HostStep, StartHost, Coordinate, HandleStray
      <3> QED
        BY <1>1, <3>1, HostUndisturbed
    <2> QED
      BY <2>1, <2>2
  <1>3. CASE StartOwner
    <2>1. PICK d, q : d = OwnerDevice /\ q = [op |-> "auth", member |-> Owner]
      OBVIOUS
    <2>2. /\ d \in Devices /\ q.op = "auth" /\ client' = [client EXCEPT ![d] = NewClient(Owner, "owner", q)]
          /\ wire' = [wire EXCEPT ![d] = Opened(q)]
      BY <1>3, <2>1, Limits DEF StartOwner
    <2> QED
      BY <1>1, <2>2, NewUndisturbed
  <1>4. ASSUME NEW d \in Devices, NEW i \in Invites, StartJoin(d, i)
        PROVE  ReadInv'
    <2>1. CASE UNCHANGED <<client, wire>>
      BY <1>1, <2>1, HostUndisturbed
    <2>2. PICK q : q = [op |-> "join", invite |-> i, device |-> d]
      OBVIOUS
    <2>3. CASE /\ client' = [client EXCEPT ![d] = NewClient(None, "joining", q)]
               /\ wire' = [wire EXCEPT ![d] = Opened(q)]
      <3>1. q.op # "sync"
        BY <2>2
      <3> QED
        BY <1>1, <2>3, <3>1, NewUndisturbed
    <2> QED
      BY <1>4, <2>1, <2>2, <2>3 DEF StartJoin
  <1>5. ASSUME NEW d \in Devices, UserStep(d)
        PROVE  ReadInv'
    <2>1. \/ \E q : Command(d, q) /\ q.op \notin {"join", "sync"}
          \/ \E i \in Invites : StartJoin(d, i)
          \/ Reconnect(d) \/ Disconnect(d)
          \/ \E key \in Keys, payload \in Payloads : Submit(d, key, payload)
      <3>1. ASSUME NEW i, CancelInvite(d, i)
            PROVE  \E q : Command(d, q) /\ q.op \notin {"join", "sync"}
        BY <3>1 DEF CancelInvite
      <3>2. ASSUME NEW m, Revoke(d, m)
            PROVE  \E q : Command(d, q) /\ q.op \notin {"join", "sync"}
        BY <3>2 DEF Revoke
      <3>3. Pulse(d) \/ Invite(d) => \E q : Command(d, q) /\ q.op \notin {"join", "sync"}
        BY DEF Pulse, Invite
      <3> QED
        BY <1>5, <3>1, <3>2, <3>3 DEF UserStep
    <2> QED
      BY <1>1, <1>4, <2>1, AskingUndisturbed, ConnectingUndisturbed, SubmitUndisturbed
  <1>6. ASSUME NEW d \in Devices, ReplyStep(d)
        PROVE  ReadInv'
    <2>1. CASE LocalFailure(d) \/ Refused(d) \/ Lost(d)
      <3>1. Busy(d) /\ Failed(d)
        BY <2>1 DEF LocalFailure, Refused, Lost, Got
      <3> QED
        BY <1>1, <3>1, FailUndisturbed
    <2>2. CASE Crash(d)
      BY <1>1, <2>2, HostUndisturbed
    <2>3. CASE NextPage(d) \/ LastPage(d)
      BY <2>3, PageReads
    <2>4. CASE Joined(d) \/ ThenReads(d) \/ SubmitAcknowledged(d)
      BY <1>1, <2>4, AskingUndisturbed
    <2>5. CASE InviteReceived(d)
      BY <1>1, <2>5, ConnectingUndisturbed
    <2> QED
      BY <1>6, <2>1, <2>2, <2>3, <2>4, <2>5 DEF ReplyStep
  <1>7. CASE UNCHANGED vars
    BY <1>1, <1>7, HostUndisturbed DEF vars
  <1> QED
    BY <1>2, <1>3, <1>5, <1>6, <1>7 DEF Next

\* What a desktop has read is what the Brain has.
LEMMA ReadsAgree ==
    ASSUME CollaborationInv, ReadInv
    PROVE  ViewAgrees
  <1> SUFFICES ASSUME NEW d \in Devices, client[d] # None
               PROVE  LET v == client[d].view
                          names == SharedNames(file, client[d].member) IN
                      /\ v.rev <= file.rev
                      /\ DOMAIN v.records \subseteq names
                      /\ \A n \in names : SharedRecord(file, n).rev <= v.rev =>
                           n \in DOMAIN v.records /\ v.records[n] = SharedRecord(file, n)
    BY DEF ViewAgrees
  <1>1. PICK v, m, g : v = client[d].view /\ m = client[d].member /\ g = Snapshot(file, m)
    OBVIOUS
  <1>2. IsSnapshot(Base(v)) /\ Follows(Base(v), g)
    BY <1>1 DEF ReadInv, Reads
  <1>3. /\ IsSnapshot(g) /\ g.rev = file.rev /\ DOMAIN g.records = SharedNames(file, m)
        /\ \A n \in SharedNames(file, m) : g.records[n] = SharedRecord(file, n)
    BY <1>1, SnapshotGood DEF CollaborationInv, StoreGood
  <1>4. /\ v.rev <= g.rev /\ DOMAIN v.records \subseteq DOMAIN g.records /\ v.rev \in Nat
        /\ \A n \in DOMAIN g.records :
              (n \in DOMAIN v.records /\ g.records[n] = v.records[n]) \/ v.rev < g.records[n].rev
    BY <1>2 DEF Follows, Base, IsSnapshot
  <1>5. \A n \in DOMAIN g.records : g.records[n].rev \in Nat
    BY <1>3 DEF IsSnapshot
  <1> QED
    BY <1>1, <1>3, <1>4, <1>5

\* At first there is no client.
LEMMA ReadInvInit == Init => ReadInv
  BY DEF Init, ReadInv

\* Whatever reads, changes, losses and restarts overlap, a desktop shows nothing the Brain
\* does not have, and every record that has not changed since it read, exactly as it is
\* (collaboration/reconcile.rs, node.rs accept_page).
THEOREM ViewsAgree ==
    ASSUME NoneIsNoBatch
    PROVE  Spec => []ViewAgrees
  <1>1. CollaborationInv /\ ReadInv /\ [Next]_vars => ReadInv'
    BY ReadInvStep
  <1>2. CollaborationInv /\ ReadInv => ViewAgrees
    BY ReadsAgree
  <1> QED
    BY <1>1, <1>2, ReadInvInit, CollaborationInvariant, PTL DEF Spec

\* No page an honest host sends is refused (node.rs accept_page validates every page).
THEOREM PagesAccepted ==
    ASSUME NoneIsNoBatch
    PROVE  Spec => []PagesFit
  <1>1. CollaborationInv /\ ReadInv /\ [Next]_vars => ReadInv'
    BY ReadInvStep
  <1>2. CollaborationInv /\ ReadInv => PagesFit
    BY PageCame DEF PagesFit
  <1> QED
    BY <1>1, <1>2, ReadInvInit, CollaborationInvariant, PTL DEF Spec

-----------------------------------------------------------------------------
(***************************************************************************)
(* The types of the state, and which parts of it exist together.           *)
(***************************************************************************)

\* None is no Brain.
NoneIsNoBrain == None \notin Brains

\* A connection whose host is gone, or that there is none.
Shut(s) == s.phase \in {"none", "closed"}

\* A client c and its connection s.
DeskTyped(c, s) ==
    /\ IsSession(s)
    /\ c = None => s.phase = "none"
    /\ c # None =>
          /\ IsClient(c)
          /\ AsksFor(c, "invite") /\ s.reply # None /\ s.reply.err = "none" =>
                s.reply.value \in Invites

\* Memory is a Brain, and only a running host has live connections.
HostTyped ==
    /\ memory # None => GoodBrain(memory)
    /\ memory = None => ~poisoned /\ strays = {} /\ \A d \in Devices : Shut(wire[d])

\* What a device stores.
LocalTyped ==
    /\ reg \in [Devices -> {"none", "begun"} \cup Members]
    /\ vault \in [Devices -> SUBSET Members]

\* Connections and clients.
SessionsTyped ==
    /\ \A d \in Devices : DeskTyped(client[d], wire[d])
    /\ \A s \in strays : IsSession(s)

\* Invitations.
InvitesTyped == UNION {issued, invited, cancelled} \subseteq Invites

\* All of the state.
TypedInv == HostTyped /\ LocalTyped /\ SessionsTyped /\ InvitesTyped

\* A step of device d that the host has no part in.
DeskMoves(d) ==
    /\ UNCHANGED storeVars
    /\ \A e \in Devices \ {d} : client'[e] = client[e] /\ wire'[e] = wire[e]
    /\ DeskTyped(client'[d], wire'[d])
    /\ memory # None \/ Shut(wire'[d]) \/ wire'[d].phase = wire[d].phase
    /\ strays' \in Abandoned(wire[d])

\* Such a step keeps the host and the connections well formed.
LEMMA DeskMovesTyped ==
    ASSUME HostTyped, SessionsTyped, NEW d \in Devices, DeskMoves(d)
    PROVE  HostTyped' /\ SessionsTyped'
  <1>1. memory' = memory /\ poisoned' = poisoned
    BY DEF DeskMoves, storeVars
  <1>2. \A t \in strays' : t \in strays \/ t = wire[d]
    BY AbandonedStrays DEF DeskMoves
  <1>3. SessionsTyped'
    BY <1>2 DEF SessionsTyped, DeskMoves, DeskTyped
  <1>4. ASSUME memory = None
        PROVE  strays' = {} /\ \A e \in Devices : Shut(wire'[e])
    <2>1. strays = {} /\ \A e \in Devices : Shut(wire[e])
      BY <1>4 DEF HostTyped
    <2>2. ~Waiting(wire[d])
      BY <2>1 DEF Shut, Waiting
    <2>3. strays' = {}
      BY <2>1, <2>2 DEF DeskMoves, Abandoned
    <2>4. \A e \in Devices : Shut(wire'[e])
      BY <1>4, <2>1 DEF DeskMoves, Shut
    <2> QED
      BY <2>3, <2>4
  <1>5. HostTyped'
    BY <1>1, <1>4 DEF HostTyped
  <1> QED
    BY <1>3, <1>5

\* A connection that is opened.
LEMMA OpenedTyped ==
    ASSUME NEW q \in Requests
    PROVE  IsSession(Opened(q)) /\ Opened(q).reply = None /\ Opened(q).phase = "fresh"
  BY DEF IsSession, Opened, Phases

\* No connection.
LEMMA UnconnectedTyped ==
    /\ IsSession(Unconnected)
    /\ Unconnected.phase = "none" /\ Unconnected.reply = None
  BY DEF IsSession, Unconnected, Phases

\* A client that is good.
LEMMA ClientTyped ==
    ASSUME NEW c, GoodClient(c), c.member \in Members \cup {None},
           c.asking \in Requests \cup {None}, c.view.ready \in BOOLEAN,
           c.view.uncertain \subseteq TaskIds
    PROVE  IsClient(c)
  BY DEF IsClient, GoodClient, GoodView

\* A request goes out.
LEMMA AskMoves ==
    ASSUME CollaborationInv, SessionsTyped, NoneIsNoClient, NEW d \in Devices, NEW c,
           NEW q \in Requests, Ask(d, c, q), UNCHANGED <<storeVars, strays>>, GoodClient(c),
           c.member \in Members \cup {None}, c.view.ready \in BOOLEAN,
           c.view.uncertain \subseteq TaskIds
    PROVE  DeskMoves(d)
  <1>1. PICK c2, s, s2 : /\ c2 = [c EXCEPT !.asking = q] /\ s = wire[d]
                         /\ s2 = [s EXCEPT !.request = q, !.reply = None]
    OBVIOUS
  <1>2. /\ client'[d] = c2 /\ wire'[d] = s2
        /\ \A e \in Devices \ {d} : client'[e] = client[e] /\ wire'[e] = wire[e]
    BY <1>1, StoredFacts DEF Ask
  <1>3. GoodSession(s) /\ IsSession(s)
    BY <1>1, StoredFacts DEF SessionsTyped, DeskTyped
  <1>4. s2.phase = s.phase /\ s2.who = s.who /\ s2.request = q /\ s2.reply = None
    <2>1. PICK p, w, y, z : s = [phase |-> p, who |-> w, request |-> y, reply |-> z]
      BY <1>3 DEF GoodSession
    <2>2. s2 = [s EXCEPT !.request = q, !.reply = None]
      BY <1>1
    <2>3. s2 = [phase |-> p, who |-> w, request |-> q, reply |-> None]
      BY <2>1, <2>2
    <2> QED
      BY <2>1, <2>3
  <1>5. IsSession(s2)
    BY <1>3, <1>4 DEF IsSession
  <1>6. /\ GoodClient(c2) /\ c2.member = c.member /\ c2.view = c.view /\ c2.asking = q
    <2>1. PICK m, w, y, z : c = [member |-> m, view |-> w, stage |-> y, asking |-> z]
      BY DEF GoodClient
    <2>2. c2 = [member |-> m, view |-> w, stage |-> y, asking |-> q]
      BY <1>1, <2>1
    <2> QED
      BY <2>1, <2>2 DEF GoodClient
  <1>7. IsClient(c2) /\ c2 # None
    BY <1>6, ClientTyped, ClientExists
  <1>8. DeskTyped(c2, s2)
    BY <1>4, <1>5, <1>7 DEF DeskTyped
  <1>9. strays' \in Abandoned(wire[d])
    BY DEF Abandoned
  <1> QED
    BY <1>1, <1>2, <1>4, <1>8, <1>9 DEF DeskMoves

\* A connection is opened.
LEMMA OpenMoves ==
    ASSUME CollaborationInv, NoneIsNoClient, NEW d \in Devices, NEW c, NEW q \in Requests,
           client' = [client EXCEPT ![d] = c], wire' = [wire EXCEPT ![d] = Opened(q)],
           UNCHANGED <<storeVars, strays>>, memory # None, GoodClient(c), IsClient(c)
    PROVE  DeskMoves(d)
  <1>1. /\ client'[d] = c /\ wire'[d] = Opened(q)
        /\ \A e \in Devices \ {d} : client'[e] = client[e] /\ wire'[e] = wire[e]
    BY StoredFacts
  <1>2. DeskTyped(c, Opened(q))
    BY OpenedTyped, ClientExists DEF DeskTyped
  <1>3. strays' \in Abandoned(wire[d])
    BY DEF Abandoned
  <1> QED
    BY <1>1, <1>2, <1>3 DEF DeskMoves

\* A client asks for nothing any more, on its connection or without one.
LEMMA RestMoves ==
    ASSUME CollaborationInv, SessionsTyped, NoneIsNoClient, NEW d \in Devices,
           UNCHANGED storeVars, strays' \in Abandoned(wire[d]),
           \A e \in Devices \ {d} : client'[e] = client[e] /\ wire'[e] = wire[e],
           NEW c, client'[d] = c, wire'[d] \in {wire[d], Unconnected},
           c = None => wire'[d] = Unconnected,
           c # None => IsClient(c) /\ c.asking = None
    PROVE  DeskMoves(d)
  <1>1. IsSession(wire'[d])
    BY UnconnectedTyped DEF SessionsTyped, DeskTyped
  <1>2. DeskTyped(c, wire'[d])
    BY <1>1, UnconnectedTyped DEF DeskTyped, AsksFor
  <1>3. Shut(wire'[d]) \/ wire'[d].phase = wire[d].phase
    BY UnconnectedTyped DEF Shut
  <1> QED
    BY <1>2, <1>3 DEF DeskMoves

\* The views of typed clients.
LEMMA ViewsTyped ==
    ASSUME NEW v, GoodView(v), v.uncertain \subseteq TaskIds
    PROVE  /\ GoodView(Disconnected(v)) /\ Disconnected(v).ready = FALSE
           /\ Disconnected(v).uncertain \subseteq TaskIds
           /\ GoodView(Acknowledged(v)) /\ Acknowledged(v).ready = FALSE
           /\ Acknowledged(v).uncertain \subseteq TaskIds
  <1>1. PICK a, x, y, z, e, p : v = [rev |-> a, records |-> x, sync |-> y, ready |-> z,
                                    uncertain |-> e, pending |-> p]
    BY DEF GoodView
  <1>2. v.uncertain = e
    BY <1>1
  <1>3. Disconnected(v).uncertain \subseteq TaskIds
    <2>1. PICK u, e2 : /\ u = Disconnected(v) /\ e2 \subseteq TaskIds
                       /\ u = [v EXCEPT !.ready = FALSE, !.sync = None, !.uncertain = e2]
      BY DEF Disconnected
    <2>2. u = [rev |-> a, records |-> x, sync |-> None, ready |-> FALSE,
               uncertain |-> e2, pending |-> p]
      BY <1>1, <2>1
    <2>3. u.uncertain = e2
      BY <2>2
    <2> QED
      BY <2>1, <2>3
  <1>4. Acknowledged(v).ready = FALSE
    <2>1. PICK u : u = Acknowledged(v)
      OBVIOUS
    <2>2. u = [v EXCEPT !.pending = None, !.ready = FALSE, !.sync = None]
      BY <2>1 DEF Acknowledged
    <2>3. u = [rev |-> a, records |-> x, sync |-> None, ready |-> FALSE,
               uncertain |-> e, pending |-> None]
      BY <1>1, <2>2
    <2> QED
      BY <2>1, <2>3
  <1> QED
    BY <1>3, <1>4, DisconnectedView, AcknowledgedView

\* What is known of a client that exists.
LEMMA ClientFacts ==
    ASSUME CollaborationInv, SessionsTyped, NEW d \in Devices, client[d] # None,
           NEW c, c = client[d]
    PROVE  /\ GoodClient(c) /\ GoodView(c.view) /\ IsClient(c)
           /\ c.member \in Members \cup {None} /\ c.view.ready \in BOOLEAN
           /\ c.view.uncertain \subseteq TaskIds /\ c.asking \in Requests \cup {None}
  BY DEF CollaborationInv, DesksGood, Desk, GoodClient, SessionsTyped, DeskTyped, IsClient

\* A client with another view.
LEMMA ViewChanged ==
    ASSUME NEW c0, GoodClient(c0), IsClient(c0), NEW w, GoodView(w), w.ready \in BOOLEAN,
           w.uncertain \subseteq TaskIds, NEW c, c = [c0 EXCEPT !.view = w]
    PROVE  /\ GoodClient(c) /\ IsClient(c) /\ c.member = c0.member /\ c.view = w
           /\ c.asking = c0.asking
  <1>1. PICK m, x, y, z : c0 = [member |-> m, view |-> x, stage |-> y, asking |-> z]
    BY DEF GoodClient
  <1>2. c = [member |-> m, view |-> w, stage |-> y, asking |-> z]
    BY <1>1
  <1>3. /\ c0.member = m /\ c0.stage = y /\ c0.asking = z
        /\ c.member = m /\ c.view = w /\ c.stage = y /\ c.asking = z
    BY <1>1, <1>2
  <1>4. GoodClient(c)
    BY <1>2, <1>3 DEF GoodClient
  <1>5. IsClient(c)
    BY <1>3, <1>4, ClientTyped DEF IsClient
  <1> QED
    BY <1>3, <1>4, <1>5

\* A client gives up.
LEMMA FailMoves ==
    ASSUME CollaborationInv, SessionsTyped, NoneIsNoClient, NEW d \in Devices, Busy(d), Failed(d),
           UNCHANGED storeVars
    PROVE  DeskMoves(d)
  <1>1. PICK c, w, c2 : c = client[d] /\ w = Disconnected(c.view) /\ c2 = client'[d]
    OBVIOUS
  <1>2. GoodClient(c) /\ c # None /\ GoodView(c.view) /\ IsClient(c) /\ c.view.uncertain \subseteq TaskIds
    BY <1>1, ClientFacts DEF Busy
  <1>3. /\ wire'[d] = Unconnected /\ strays' \in Abandoned(wire[d])
        /\ \A e \in Devices \ {d} : client'[e] = client[e] /\ wire'[e] = wire[e]
        /\ c2 = IF c.stage # "held" THEN None
                ELSE [c EXCEPT !.view = Disconnected(@), !.asking = None]
    BY <1>1, StoredFacts DEF Failed
  <1>4. GoodView(w) /\ w.ready = FALSE /\ w.uncertain \subseteq TaskIds
    BY <1>1, <1>2, ViewsTyped
  <1>5. c2 # None => IsClient(c2) /\ c2.asking = None
    <2> SUFFICES ASSUME c2 # None PROVE IsClient(c2) /\ c2.asking = None
      OBVIOUS
    <2>1. c2 = Changed(c, w, None)
      BY <1>1, <1>3 DEF Changed
    <2>2. GoodClient(c2) /\ c2.member = c.member /\ c2.view = w /\ c2.asking = None
      BY <1>2, <1>4, <2>1, ClientChanges
    <2> QED
      BY <1>2, <1>4, <2>2, ClientTyped DEF IsClient
  <1> QED
    BY <1>1, <1>3, <1>5, RestMoves

\* A command of a connected desktop.
LEMMA CommandMoves ==
    ASSUME CollaborationInv, SessionsTyped, NoneIsNoClient, NEW d \in Devices, NEW q \in Requests,
           Command(d, q)
    PROVE  DeskMoves(d) /\ UNCHANGED <<reg, vault, history>>
  <1>1. PICK c : c = client[d]
    OBVIOUS
  <1>2. Idle(d) /\ Ask(d, c, q) /\ UNCHANGED <<storeVars, reg, vault, strays, history>>
    BY <1>1 DEF Command, localVars
  <1>3. /\ GoodClient(c) /\ c.member \in Members \cup {None} /\ c.view.ready \in BOOLEAN
        /\ c.view.uncertain \subseteq TaskIds
    BY <1>1, <1>2, ClientFacts DEF Idle
  <1>4. UNCHANGED <<storeVars, strays>>
    BY <1>2
  <1>5. DeskMoves(d)
    BY <1>2, <1>3, <1>4, AskMoves
  <1> QED
    BY <1>2, <1>5

\* The commands are requests.
LEMMA CommandsTyped ==
    ASSUME CollaborationInv, NEW d \in Devices,
           \/ Pulse(d) \/ Invite(d)
           \/ \E i \in Invites : CancelInvite(d, i)
           \/ \E m \in Members : Revoke(d, m)
    PROVE  \E q \in Requests : Command(d, q)
  <1>1. CASE Pulse(d) \/ Invite(d)
    <2>1. PICK q \in [op : {"pulse", "invite"}] : Command(d, q)
      BY <1>1 DEF Pulse, Invite
    <2> QED
      BY <2>1 DEF Requests
  <1>2. ASSUME NEW i \in Invites, CancelInvite(d, i)
        PROVE  \E q \in Requests : Command(d, q)
    <2>1. PICK q \in [op : {"cancel"}, invite : Invites] : Command(d, q)
      BY <1>2 DEF CancelInvite
    <2> QED
      BY <2>1 DEF Requests
  <1>3. ASSUME NEW m \in Members, Revoke(d, m)
        PROVE  \E q \in Requests : Command(d, q)
    <2>1. client[d].view.rev \in Nat
      BY <1>3, IdleClient DEF Revoke, GoodClient, GoodView
    <2>2. PICK q \in [op : {"revoke"}, member : Members, rev : Nat] : Command(d, q)
      BY <1>3, <2>1 DEF Revoke
    <2> QED
      BY <2>2 DEF Requests
  <1> QED
    BY <1>1, <1>2, <1>3

\* A message is queued, sent or not.
LEMMA SubmitMoves ==
    ASSUME CollaborationInv, SessionsTyped, NoneIsNoClient, NEW d \in Devices, NEW key \in Keys,
           NEW payload \in Payloads, Submit(d, key, payload)
    PROVE  DeskMoves(d) /\ UNCHANGED <<reg, vault, history>>
  <1>1. PICK c0 : c0 = client[d]
    OBVIOUS
  <1>2. PICK u, c : u = Queued(c0.view, key, payload) /\ c = [c0 EXCEPT !.view = u]
    OBVIOUS
  <1>3. Idle(d) /\ UNCHANGED <<storeVars, reg, vault, strays, history>>
    BY DEF Submit, localVars
  <1>4. /\ GoodClient(c0) /\ GoodView(c0.view) /\ IsClient(c0) /\ c0.asking = None
        /\ c0.view.ready \in BOOLEAN /\ c0.view.uncertain \subseteq TaskIds
    BY <1>1, <1>3, ClientFacts DEF Idle
  <1>5. /\ GoodView(u) /\ u.ready = c0.view.ready /\ u.uncertain = c0.view.uncertain
        /\ u.pending = [key |-> key, payload |-> payload]
    BY <1>2, <1>4, QueuedView
  <1>6. [client[d] EXCEPT !.view = Queued(@, key, payload)] = c
    BY <1>1, <1>2
  <1>7. GoodClient(c) /\ IsClient(c) /\ c.member = c0.member /\ c.view = u /\ c.asking = None
    BY <1>2, <1>4, <1>5, ViewChanged
  <1>8. UNCHANGED <<storeVars, strays>> /\ UNCHANGED storeVars /\ strays' \in Abandoned(wire[d])
    BY <1>3 DEF Abandoned
  <1>9. CASE CanSend(c.view)
    <2>1. PICK q : q = [op |-> "submit", msg |-> Outgoing(u)]
      OBVIOUS
    <2>2. Ask(d, c, q)
      BY <1>6, <1>7, <1>9, <2>1 DEF Submit
    <2>3. q \in Requests
      <3>1. u.rev \in Nat
        BY <1>5 DEF GoodView
      <3>2. PICK msg : msg = Outgoing(u)
        OBVIOUS
      <3>3. msg \in Messages
        BY <1>5, <3>1, <3>2 DEF Outgoing, Messages
      <3>4. q \in [op : {"submit"}, msg : Messages]
        BY <2>1, <3>2, <3>3
      <3> QED
        BY <3>4 DEF Requests
    <2>4. c.member \in Members \cup {None} /\ c.view.ready \in BOOLEAN /\ c.view.uncertain \subseteq TaskIds
      BY <1>7 DEF IsClient
    <2>5. DeskMoves(d)
      BY <1>7, <1>8, <2>2, <2>3, <2>4, AskMoves
    <2> QED
      BY <1>3, <2>5
  <1>10. CASE ~CanSend(c.view)
    <2>1. client' = [client EXCEPT ![d] = c] /\ UNCHANGED wire
      BY <1>6, <1>10 DEF Submit
    <2>2. /\ client'[d] = c /\ wire'[d] = wire[d]
          /\ \A e \in Devices \ {d} : client'[e] = client[e] /\ wire'[e] = wire[e]
      BY <2>1, StoredFacts
    <2>3. c # None
      BY <1>7, ClientExists
    <2>4. DeskMoves(d)
      BY <1>7, <1>8, <2>2, <2>3, RestMoves
    <2> QED
      BY <1>3, <2>4
  <1> QED
    BY <1>9, <1>10

\* A new client.
LEMMA NewClientMoves ==
    ASSUME CollaborationInv, NoneIsNoClient, NEW d \in Devices, NEW m \in Members \cup {None},
           NEW stage \in Stages, NEW q \in Requests,
           client' = [client EXCEPT ![d] = NewClient(m, stage, q)],
           wire' = [wire EXCEPT ![d] = Opened(q)],
           UNCHANGED <<storeVars, strays>>, memory # None
    PROVE  DeskMoves(d)
  <1>1. PICK c : c = NewClient(m, stage, q)
    OBVIOUS
  <1>2. GoodClient(c) /\ c.member = m /\ c.asking = q /\ c.view = NewView
    BY <1>1, NewClientGood
  <1>3. c.view.ready = FALSE /\ c.view.uncertain = {}
    BY <1>2 DEF NewView
  <1>4. IsClient(c)
    BY <1>2, <1>3, ClientTyped
  <1>5. client' = [client EXCEPT ![d] = c]
    BY <1>1
  <1> QED
    BY <1>2, <1>4, <1>5, OpenMoves

\* Authentications are requests.
LEMMA AuthTyped ==
    ASSUME NEW m \in Members
    PROVE  [op |-> "auth", member |-> m] \in Requests
  <1>1. [op |-> "auth", member |-> m] \in [op : {"auth"}, member : Members]
    OBVIOUS
  <1> QED
    BY <1>1 DEF Requests

\* A desktop connects or disconnects.
LEMMA ConnectingMoves ==
    ASSUME CollaborationInv, SessionsTyped, NoneIsNoClient, NEW d \in Devices,
           Reconnect(d) \/ Disconnect(d)
    PROVE  DeskMoves(d) /\ UNCHANGED <<reg, vault, history>>
  <1>1. PICK c0, w, q : /\ c0 = client[d] /\ w = Disconnected(c0.view)
                        /\ q = [op |-> "auth", member |-> reg[d]]
    OBVIOUS
  <1>2. ASSUME Idle(d)
        PROVE  /\ GoodClient(c0) /\ IsClient(c0) /\ c0 # None /\ c0.asking = None
               /\ c0.member \in Members \cup {None}
               /\ GoodView(w) /\ w.ready = FALSE /\ w.uncertain \subseteq TaskIds
    BY <1>1, <1>2, ClientFacts, ViewsTyped DEF Idle
  <1>3. /\ UNCHANGED <<storeVars, strays>> /\ UNCHANGED <<reg, vault, history>>
        /\ UNCHANGED storeVars /\ strays' \in Abandoned(wire[d])
    BY DEF Reconnect, Disconnect, localVars, Abandoned
  <1>4. CASE Reconnect(d)
    <2>1. wire' = [wire EXCEPT ![d] = Opened(q)] /\ memory # None /\ reg[d] \in vault[d]
      BY <1>1, <1>4 DEF Reconnect
    <2>2. reg[d] \in Members /\ q \in Requests
      BY <1>1, <2>1, StoredFacts, AuthTyped
    <2>3. CASE client' = [client EXCEPT ![d] = NewClient(reg[d], "connecting", q)]
      <3>1. "connecting" \in Stages
        BY DEF Stages
      <3>2. DeskMoves(d)
        BY <1>3, <2>1, <2>2, <2>3, <3>1, NewClientMoves
      <3> QED
        BY <1>3, <3>2
    <2>4. CASE Idle(d) /\ client' = [client EXCEPT ![d] =
                                       [client[d] EXCEPT !.view = Disconnected(@), !.asking = q]]
      <3>1. PICK c : c = Changed(c0, w, q)
        OBVIOUS
      <3>2. [client[d] EXCEPT !.view = Disconnected(@), !.asking = q] = c
        BY <1>1, <3>1 DEF Changed
      <3>3. client' = [client EXCEPT ![d] = c]
        BY <2>4, <3>2
      <3>4. GoodClient(c) /\ c.member = c0.member /\ c.view = w /\ c.asking = q
        BY <1>2, <2>4, <3>1, ClientChanges
      <3>5. IsClient(c)
        BY <1>2, <2>2, <2>4, <3>4, ClientTyped
      <3>6. DeskMoves(d)
        BY <1>3, <2>1, <2>2, <3>3, <3>4, <3>5, OpenMoves
      <3> QED
        BY <1>3, <3>6
    <2> QED
      BY <1>1, <1>4, <2>3, <2>4 DEF Reconnect
  <1>5. CASE Disconnect(d)
    <2>1. /\ Idle(d) /\ client' = [client EXCEPT ![d].view = Disconnected(@)]
          /\ wire' = [wire EXCEPT ![d] = Unconnected]
      BY <1>5 DEF Disconnect
    <2>2. PICK c : c = [c0 EXCEPT !.view = w]
      OBVIOUS
    <2>3. [c0 EXCEPT !.view = Disconnected(@)] = c
      BY <1>1, <2>2
    <2>4. /\ client'[d] = c /\ wire'[d] = Unconnected
          /\ \A e \in Devices \ {d} : client'[e] = client[e] /\ wire'[e] = wire[e]
      BY <1>1, <2>1, <2>3, StoredFacts
    <2>5. IsClient(c) /\ c.asking = None
      <3>1. w.ready \in BOOLEAN
        BY <1>2, <2>1
      <3> QED
        BY <1>2, <2>1, <2>2, <3>1, ViewChanged
    <2>6. DeskMoves(d)
      BY <1>3, <2>4, <2>5, RestMoves
    <2> QED
      BY <1>3, <2>6
  <1> QED
    BY <1>4, <1>5

\* A desktop asks for the next page.
LEMMA SyncMoves ==
    ASSUME CollaborationInv, SessionsTyped, NoneIsNoClient, NEW d \in Devices, NEW c,
           AskSync(d, c), UNCHANGED <<storeVars, strays>>, GoodClient(c), IsClient(c)
    PROVE  DeskMoves(d)
  <1>1. PICK q : q = [op |-> "sync", page |-> ReconcileRequest(c.view)]
    OBVIOUS
  <1>2. Ask(d, c, q) /\ q \in Requests
    BY <1>1, SyncRequest DEF AskSync, GoodClient
  <1>3. c.member \in Members \cup {None} /\ c.view.ready \in BOOLEAN /\ c.view.uncertain \subseteq TaskIds
    BY DEF IsClient
  <1> QED
    BY <1>2, <1>3, AskMoves

\* What is known of a client that a reply came for.
LEMMA ReplyFacts ==
    ASSUME CollaborationInv, SessionsTyped, NEW d \in Devices, NEW op, Got(d, op),
           NEW c, c = client[d]
    PROVE  /\ GoodClient(c) /\ GoodView(c.view) /\ IsClient(c) /\ c # None
           /\ c.asking \in Requests /\ c.asking.op = op
           /\ c.view.uncertain \subseteq TaskIds /\ c.view.ready \in BOOLEAN
           /\ Fits(file, d, c.member, c.asking, Value(d)) /\ (op = "join" \/ c.member \in Members)
  <1>1. client[d] # None /\ c.asking # None /\ c.asking.op = op
    BY DEF Got, Busy
  <1>2. /\ Fits(file, d, c.member, c.asking, Value(d)) /\ (op = "join" \/ c.member \in vault[d])
    BY ReplyCame
  <1>3. vault[d] \subseteq Members
    BY StoredFacts
  <1> QED
    BY <1>1, <1>2, <1>3, ClientFacts

\* A new member is told who it is.
LEMMA JoinedTyped ==
    ASSUME CollaborationInv, TypedInv, NoneIsNoClient, NEW d \in Devices, Joined(d)
    PROVE  TypedInv'
  <1>1. PICK c0, m : c0 = client[d] /\ m = Value(d)
    OBVIOUS
  <1>2. PICK c, q : c = [c0 EXCEPT !.member = m] /\ q = [op |-> "auth", member |-> m]
    OBVIOUS
  <1>3. /\ Got(d, "join") /\ Ask(d, c, q) /\ vault' = [vault EXCEPT ![d] = @ \cup {m}]
        /\ UNCHANGED <<storeVars, reg, strays, history>>
    BY <1>1, <1>2 DEF Joined
  <1>4. /\ GoodClient(c0) /\ IsClient(c0) /\ c0.asking.op = "join"
        /\ Fits(file, d, c0.member, c0.asking, m)
    BY <1>1, <1>3, ReplyFacts DEF TypedInv
  <1>5. m \in Members
    <2>1. Home(file, m, d)
      BY <1>4 DEF Fits
    <2> QED
      BY <2>1, BrainTypes DEF Home, CollaborationInv, StoreGood, GoodBrain
  <1>6. GoodClient(c) /\ c.member = m /\ c.view = c0.view
    <2>1. PICK a, x, y, z : c0 = [member |-> a, view |-> x, stage |-> y, asking |-> z]
      BY <1>4 DEF GoodClient
    <2>2. c = [member |-> m, view |-> x, stage |-> y, asking |-> z]
      BY <1>2, <2>1
    <2> QED
      BY <1>4, <2>1, <2>2 DEF GoodClient
  <1>7. /\ c.member \in Members \cup {None} /\ c.view.ready \in BOOLEAN
        /\ c.view.uncertain \subseteq TaskIds
    BY <1>4, <1>5, <1>6 DEF IsClient
  <1>8. q \in Requests /\ UNCHANGED <<storeVars, strays>>
    BY <1>2, <1>3, <1>5, AuthTyped
  <1>9. DeskMoves(d)
    BY <1>3, <1>6, <1>7, <1>8, AskMoves DEF TypedInv
  <1>10. LocalTyped'
    BY <1>3, <1>5 DEF TypedInv, LocalTyped
  <1>11. InvitesTyped'
    BY <1>3 DEF TypedInv, InvitesTyped, history
  <1> QED
    BY <1>9, <1>10, <1>11, DeskMovesTyped DEF TypedInv

\* Requests that name an invitation.
LEMMA CancelTyped ==
    ASSUME NEW q \in Requests, q.op = "cancel"
    PROVE  q.invite \in Invites
  BY DEF Requests

\* A client reads on, after a request was done.
LEMMA ReadingTyped ==
    ASSUME CollaborationInv, TypedInv, NoneIsNoClient, NEW d \in Devices,
           ThenReads(d) \/ SubmitAcknowledged(d)
    PROVE  TypedInv'
  <1>1. PICK c0 : c0 = client[d]
    OBVIOUS
  <1>2. /\ UNCHANGED <<storeVars, strays>> /\ UNCHANGED <<reg, vault, issued, invited>>
    BY DEF ThenReads, SubmitAcknowledged, localVars
  <1>3. SessionsTyped /\ LocalTyped' /\ HostTyped
    BY <1>2 DEF TypedInv, LocalTyped
  <1>4. CASE ThenReads(d)
    <2>1. PICK op : Got(d, op)
      BY <1>4 DEF ThenReads
    <2>2. AskSync(d, c0) /\ cancelled' = IF Got(d, "cancel") THEN cancelled \cup {c0.asking.invite}
                                         ELSE cancelled
      BY <1>1, <1>4 DEF ThenReads
    <2>3. GoodClient(c0) /\ IsClient(c0)
      BY <1>1, <1>3, <2>1, ReplyFacts
    <2>4. DeskMoves(d)
      BY <1>2, <1>3, <2>2, <2>3, SyncMoves
    <2>5. Got(d, "cancel") => c0.asking.invite \in Invites
      <3> SUFFICES ASSUME Got(d, "cancel") PROVE c0.asking.invite \in Invites
        OBVIOUS
      <3>1. PICK q : q = c0.asking
        OBVIOUS
      <3>2. q \in Requests /\ q.op = "cancel"
        BY <1>1, <1>3, <3>1, ReplyFacts
      <3> QED
        BY <3>1, <3>2, CancelTyped
    <2>6. InvitesTyped'
      BY <1>2, <2>2, <2>5 DEF TypedInv, InvitesTyped
    <2> QED
      BY <1>3, <2>4, <2>6, DeskMovesTyped DEF TypedInv
  <1>5. CASE SubmitAcknowledged(d)
    <2>1. PICK w : w = Acknowledged(c0.view)
      OBVIOUS
    <2>2. PICK c : c = [c0 EXCEPT !.view = w]
      OBVIOUS
    <2>3. [c0 EXCEPT !.view = Acknowledged(@)] = c
      BY <2>1, <2>2
    <2>4. Got(d, "submit") /\ AskSync(d, c) /\ UNCHANGED cancelled
      BY <1>1, <1>5, <2>3 DEF SubmitAcknowledged
    <2>5. GoodClient(c0) /\ IsClient(c0) /\ GoodView(c0.view) /\ c0.view.uncertain \subseteq TaskIds
      BY <1>1, <1>3, <2>4, ReplyFacts
    <2>6. GoodView(w) /\ w.ready \in BOOLEAN /\ w.uncertain \subseteq TaskIds
      BY <2>1, <2>5, ViewsTyped
    <2>7. GoodClient(c) /\ IsClient(c)
      BY <2>2, <2>5, <2>6, ViewChanged
    <2>8. DeskMoves(d)
      BY <1>2, <1>3, <2>4, <2>7, SyncMoves
    <2>9. InvitesTyped'
      BY <1>2, <2>4 DEF TypedInv, InvitesTyped
    <2> QED
      BY <1>3, <2>8, <2>9, DeskMovesTyped DEF TypedInv
  <1> QED
    BY <1>4, <1>5

\* An invitation arrives.
LEMMA InviteTyped ==
    ASSUME CollaborationInv, TypedInv, NoneIsNoClient, NEW d \in Devices, InviteReceived(d)
    PROVE  TypedInv'
  <1>1. PICK c0, c : c0 = client[d] /\ c = [c0 EXCEPT !.asking = None]
    OBVIOUS
  <1>2. /\ Got(d, "invite") /\ invited' = invited \cup {Value(d)}
        /\ client' = [client EXCEPT ![d].asking = None]
        /\ UNCHANGED <<storeVars, reg, vault, wire, strays, issued, cancelled>>
    BY DEF InviteReceived, localVars
  <1>3. GoodClient(c0) /\ IsClient(c0) /\ c0 # None /\ c0.asking \in Requests /\ c0.asking.op = "invite"
    BY <1>1, <1>2, ReplyFacts DEF TypedInv
  <1>4. c.member = c0.member /\ c.view = c0.view /\ c.asking = None /\ GoodClient(c)
    <2>1. PICK a, x, y, z : c0 = [member |-> a, view |-> x, stage |-> y, asking |-> z]
      BY <1>3 DEF GoodClient
    <2>2. c = [member |-> a, view |-> x, stage |-> y, asking |-> None]
      BY <1>1, <2>1
    <2> QED
      BY <1>3, <2>1, <2>2 DEF GoodClient
  <1>5. IsClient(c) /\ c # None
    BY <1>3, <1>4, ClientTyped, ClientExists DEF IsClient
  <1>6. /\ client'[d] = c /\ wire'[d] = wire[d]
        /\ \A e \in Devices \ {d} : client'[e] = client[e] /\ wire'[e] = wire[e]
    BY <1>1, <1>2, StoredFacts
  <1>7. UNCHANGED storeVars /\ strays' \in Abandoned(wire[d]) /\ SessionsTyped
    BY <1>2 DEF Abandoned, TypedInv
  <1>8. DeskMoves(d)
    BY <1>4, <1>5, <1>6, <1>7, RestMoves
  <1>9. Value(d) \in Invites
    <2>1. DeskTyped(c0, wire[d]) /\ c0.asking # None
      BY <1>1, <1>3, NoRequestAssumption DEF TypedInv, SessionsTyped
    <2> QED
      BY <1>2, <1>3, <2>1 DEF DeskTyped, AsksFor, Got, Value
  <1>10. InvitesTyped' /\ LocalTyped'
    BY <1>2, <1>9 DEF TypedInv, InvitesTyped, LocalTyped
  <1> QED
    BY <1>8, <1>10, DeskMovesTyped DEF TypedInv

\* A page arrives.
LEMMA PageTyped ==
    ASSUME CollaborationInv, ReadInv, TypedInv, NoneIsNoClient, NoneIsNoBatch, NEW d \in Devices,
           NextPage(d) \/ LastPage(d)
    PROVE  TypedInv'
  <1>1. PICK a, c0, w : a = Accepted(d) /\ c0 = client[d] /\ w = a.view
    OBVIOUS
  <1>2. Got(d, "sync") /\ a.ok /\ UNCHANGED <<storeVars, vault, strays, history>>
    BY <1>1 DEF NextPage, LastPage, localVars
  <1>3. /\ GoodClient(c0) /\ IsClient(c0) /\ GoodView(c0.view) /\ c0.view.uncertain \subseteq TaskIds
        /\ c0.member \in Members /\ c0.asking.op = "sync"
        /\ Fits(file, d, c0.member, c0.asking, Value(d))
    BY <1>1, <1>2, ReplyFacts DEF TypedInv
  <1>4. w.ready \in BOOLEAN
    BY <1>1, <1>2, PageCame
  <1>5. GoodView(w) /\ w.uncertain \subseteq TaskIds
    <2>1. PICK p : p = Value(d)
      OBVIOUS
    <2>2. a = AcceptPage(c0.view, c0.member, d, p) /\ p.at \in Nat
      BY <1>1, <1>3, <2>1 DEF Accepted, Fits
    <2> QED
      BY <1>1, <1>2, <1>3, <2>2, AcceptedView
  <1>6. PICK c1 : c1 = [c0 EXCEPT !.view = w]
    OBVIOUS
  <1>7. GoodClient(c1) /\ IsClient(c1) /\ c1.member = c0.member
    BY <1>3, <1>4, <1>5, <1>6, ViewChanged
  <1>8. InvitesTyped'
    BY <1>2 DEF TypedInv, InvitesTyped, history
  <1>9. UNCHANGED <<storeVars, strays>> /\ UNCHANGED storeVars
        /\ strays' \in Abandoned(wire[d]) /\ SessionsTyped
    BY <1>2 DEF Abandoned, TypedInv
  <1>10. CASE NextPage(d)
    <2>1. AskSync(d, c1) /\ UNCHANGED reg
      BY <1>1, <1>6, <1>10 DEF NextPage, localVars
    <2>2. DeskMoves(d)
      BY <1>7, <1>9, <2>1, SyncMoves
    <2>3. LocalTyped'
      BY <1>2, <2>1 DEF TypedInv, LocalTyped
    <2> QED
      BY <1>8, <2>2, <2>3, DeskMovesTyped DEF TypedInv
  <1>11. CASE LastPage(d)
    <2>1. PICK c : c = [c0 EXCEPT !.view = w, !.stage = "held", !.asking = None]
      OBVIOUS
    <2>2. /\ client' = [client EXCEPT ![d] = c] /\ UNCHANGED wire
          /\ reg' = IF c0.stage \in {"joining", "owner"} THEN [reg EXCEPT ![d] = c0.member] ELSE reg
      BY <1>1, <1>11, <2>1 DEF LastPage
    <2>3. GoodClient(c) /\ c.member = c0.member /\ c.view = w /\ c.asking = None
      <3>1. PICK m, x, y, z : c0 = [member |-> m, view |-> x, stage |-> y, asking |-> z]
        BY <1>3 DEF GoodClient
      <3>2. c = [member |-> m, view |-> w, stage |-> "held", asking |-> None]
        BY <2>1, <3>1
      <3> QED
        BY <1>5, <3>1, <3>2 DEF GoodClient, Stages
    <2>4. IsClient(c) /\ c # None
      BY <1>3, <1>4, <1>5, <2>3, ClientTyped, ClientExists
    <2>5. /\ client'[d] = c /\ wire'[d] = wire[d]
          /\ \A e \in Devices \ {d} : client'[e] = client[e] /\ wire'[e] = wire[e]
      BY <2>2, StoredFacts
    <2>6. DeskMoves(d)
      BY <1>9, <2>3, <2>4, <2>5, RestMoves
    <2>7. LocalTyped'
      BY <1>2, <1>3, <2>2 DEF TypedInv, LocalTyped
    <2> QED
      BY <1>8, <2>6, <2>7, DeskMovesTyped DEF TypedInv
  <1> QED
    BY <1>10, <1>11

\* A client gives up.
LEMMA FailTyped ==
    ASSUME CollaborationInv, TypedInv, NoneIsNoClient, NEW d \in Devices,
           LocalFailure(d) \/ Refused(d) \/ Lost(d)
    PROVE  TypedInv'
  <1>1. /\ Busy(d) /\ Failed(d) /\ UNCHANGED storeVars /\ UNCHANGED <<vault, history>>
        /\ reg' \in {reg, [reg EXCEPT ![d] = "begun"]}
    BY DEF LocalFailure, Refused, Lost, Got, localVars
  <1>2. DeskMoves(d)
    BY <1>1, FailMoves DEF TypedInv
  <1>3. LocalTyped' /\ InvitesTyped'
    BY <1>1 DEF TypedInv, LocalTyped, InvitesTyped, history
  <1> QED
    BY <1>2, <1>3, DeskMovesTyped DEF TypedInv

\* The phase and the member of a session that was answered.
LEMMA AnsweredTyped ==
    ASSUME NEW s, GoodSession(s), IsSession(s), s.request # None, NEW o
    PROVE  IsSession(Answered(s, o)) /\ Answered(s, o).reply = o
  <1>1. PICK t : t = Answered(s, o)
    OBVIOUS
  <1>2. PICK p, w, q, y : s = [phase |-> p, who |-> w, request |-> q, reply |-> y]
    BY DEF GoodSession
  <1>3. PICK p2 : p2 = IF o.err \notin {"none", "conflict"} THEN "closed"
                       ELSE IF o.err = "conflict" THEN p
                       ELSE CASE q.op = "auth" -> "active" [] q.op = "join" -> "joined" [] OTHER -> p
    OBVIOUS
  <1>4. PICK w2 : w2 = IF o.err = "none" /\ q.op = "auth" THEN q.member ELSE w
    OBVIOUS
  <1>5. t = [s EXCEPT !.request = None, !.reply = o, !.phase = p2, !.who = w2]
    BY <1>1, <1>2, <1>3, <1>4 DEF Answered
  <1>6. t = [phase |-> p2, who |-> w2, request |-> None, reply |-> o]
    BY <1>2, <1>5
  <1>7. t.phase = p2 /\ t.who = w2 /\ t.request = None /\ t.reply = o
    BY <1>6
  <1>8. s.phase = p /\ s.who = w /\ s.request = q
    BY <1>2
  <1>9. p \in Phases /\ w \in Members \cup {None} /\ (p = "active" => w # None) /\ q # None
    BY <1>8 DEF IsSession
  <1>10. q.op = "auth" => q.member \in Members
    BY <1>8 DEF GoodSession, GoodRequest
  <1>11. p2 \in Phases /\ w2 \in Members \cup {None}
    BY <1>3, <1>4, <1>9, <1>10 DEF Phases
  <1>12. p2 = "active" => w2 # None
    <2>1. None \notin Members
      BY BrainAssumption
    <2>2. p2 = "active" => p = "active" \/ (o.err = "none" /\ q.op = "auth")
      BY <1>3
    <2> QED
      BY <1>4, <1>9, <1>10, <2>1, <2>2
  <1>13. IsSession(t)
    BY <1>7, <1>11, <1>12 DEF IsSession
  <1> QED
    BY <1>1, <1>7, <1>13

\* The store is written: the host runs on.
LEMMA InstallTyped ==
    ASSUME CollaborationInv, CollaborationInv', TypedInv, NoneIsNoBrain, memory # None,
           NEW x, Install(x)
    PROVE  HostTyped' /\ issued' \subseteq Invites
  <1>1. memory' \in {memory, file'} /\ issued' = issued \cup DOMAIN file'.invites
    BY DEF Install
  <1>2. GoodBrain(memory) /\ GoodBrain(file')
    BY DEF TypedInv, HostTyped, CollaborationInv, StoreGood
  <1>3. GoodBrain(memory')
    BY <1>1, <1>2
  <1>4. memory' # None
    BY <1>3 DEF GoodBrain, NoneIsNoBrain
  <1>5. DOMAIN file'.invites \subseteq Invites
    BY <1>2, BrainTypes DEF GoodBrain
  <1> QED
    BY <1>1, <1>3, <1>4, <1>5 DEF HostTyped, TypedInv, InvitesTyped

\* A session of a client is answered.
LEMMA WireAnswered ==
    ASSUME CollaborationInv, TypedInv, NEW d \in Devices, Waiting(wire[d]), NEW o,
           wire' = [wire EXCEPT ![d] = Answered(@, o)], UNCHANGED <<client, strays>>,
           wire[d].request.op = "invite" /\ o.err = "none" => o.value \in Invites
    PROVE  SessionsTyped'
  <1>1. PICK c, s, t : c = client[d] /\ s = wire[d] /\ t = Answered(s, o)
    OBVIOUS
  <1>2. /\ wire'[d] = t /\ client'[d] = c
        /\ \A e \in Devices \ {d} : client'[e] = client[e] /\ wire'[e] = wire[e]
    BY <1>1, StoredFacts
  <1>3. GoodSession(s) /\ DeskTyped(c, s) /\ s.request # None /\ s.phase # "none"
    BY <1>1, StoredFacts DEF TypedInv, SessionsTyped, Waiting
  <1>4. IsSession(t) /\ t.reply = o
    BY <1>1, <1>3, AnsweredTyped DEF DeskTyped
  <1>5. c # None => c.asking = s.request
    BY <1>1, <1>3 DEF CollaborationInv, DesksGood, Desk, Linked
  <1>6. DeskTyped(c, t)
    BY <1>1, <1>3, <1>4, <1>5 DEF DeskTyped, AsksFor
  <1> QED
    BY <1>2, <1>6 DEF TypedInv, SessionsTyped

\* The host handles a request of a client, or refuses it.
LEMMA HandleTyped ==
    ASSUME CollaborationInv, TypedInv, NoneIsNoBrain, NEW d \in Devices, Handle(d) \/ Refuse(d)
    PROVE  TypedInv'
  <1>1. memory # None /\ Waiting(wire[d]) /\ UNCHANGED <<localVars, client, strays, invited, cancelled>>
    BY DEF Handle, Refuse, history
  <1>2. LocalTyped'
    BY <1>1 DEF TypedInv, LocalTyped, localVars
  <1>3. CASE Handle(d)
    <2>1. PICK x, id : /\ Served(x, wire[d], id) /\ Install(x)
                       /\ wire' = [wire EXCEPT ![d] = Answered(@, Reply(x.outcome))]
      BY <1>3, HandleServes
    <2>2. CollaborationInv'
      BY <1>3, HandleStep
    <2>3. HostTyped' /\ issued' \subseteq Invites
      BY <1>1, <2>1, <2>2, InstallTyped
    <2>4. PICK o : o = Reply(x.outcome)
      OBVIOUS
    <2>5. wire[d].request.op = "invite" /\ o.err = "none" => o.value \in Invites
      BY <2>1, <2>4 DEF Reply, Served, AnswerTrue
    <2>6. SessionsTyped'
      <3>1. wire' = [wire EXCEPT ![d] = Answered(@, o)] /\ UNCHANGED <<client, strays>>
        BY <1>1, <2>1, <2>4
      <3> QED
        BY <1>1, <2>5, <3>1, WireAnswered
    <2>7. InvitesTyped'
      BY <1>1, <2>3 DEF TypedInv, InvitesTyped
    <2> QED
      BY <1>2, <2>3, <2>6, <2>7 DEF TypedInv
  <1>4. CASE Refuse(d)
    <2>1. PICK o : o = Fail("busy")
      OBVIOUS
    <2>2. wire' = [wire EXCEPT ![d] = Answered(@, o)] /\ UNCHANGED <<client, strays>>
          /\ UNCHANGED <<storeVars, issued>>
      BY <1>4, <2>1 DEF Refuse, history
    <2>3. o.err # "none"
      BY <2>1 DEF Fail
    <2>4. SessionsTyped'
      BY <1>1, <2>2, <2>3, WireAnswered
    <2>5. HostTyped' /\ InvitesTyped'
      BY <1>1, <2>2 DEF TypedInv, HostTyped, InvitesTyped, storeVars
    <2> QED
      BY <1>2, <2>4, <2>5 DEF TypedInv
  <1> QED
    BY <1>3, <1>4

\* The coordinator moves a task, or a request is handled that its client gave up.
LEMMA StoreTyped ==
    ASSUME CollaborationInv, TypedInv, NoneIsNoBrain,
           \/ \E t \in TaskIds, status \in Coordinated, now \in Times : Coordinate(t, status, now)
           \/ \E s \in strays : HandleStray(s)
    PROVE  TypedInv'
  <1>1. CollaborationInv'
    BY CoordinateStep, HandleStrayStep
  <1>2. PICK x : Install(x)
    BY DEF Coordinate, HandleStray
  <1>3. /\ memory # None /\ UNCHANGED <<localVars, client, wire, invited, cancelled>>
        /\ strays' \subseteq strays
    BY DEF Coordinate, HandleStray
  <1>4. HostTyped' /\ issued' \subseteq Invites
    BY <1>1, <1>2, <1>3, InstallTyped
  <1>5. LocalTyped' /\ SessionsTyped' /\ InvitesTyped'
    BY <1>3, <1>4 DEF TypedInv, LocalTyped, SessionsTyped, InvitesTyped, localVars
  <1> QED
    BY <1>4, <1>5 DEF TypedInv

\* The host is opened.
LEMMA StartHostTyped ==
    ASSUME CollaborationInv, TypedInv, NEW now \in Times, StartHost(now)
    PROVE  TypedInv'
  <1>1. CollaborationInv'
    BY StartHostStep
  <1>2. /\ memory = None /\ memory' \in {None, file'}
        /\ UNCHANGED <<poisoned, localVars, client, wire, strays, history>>
    BY DEF StartHost
  <1>3. HostTyped'
    BY <1>1, <1>2 DEF TypedInv, HostTyped, CollaborationInv, StoreGood
  <1>4. LocalTyped' /\ SessionsTyped' /\ InvitesTyped'
    BY <1>2 DEF TypedInv, LocalTyped, SessionsTyped, InvitesTyped, localVars, history
  <1> QED
    BY <1>3, <1>4 DEF TypedInv

\* A connection that is cut.
LEMMA CutTyped ==
    ASSUME NEW c, NEW s, GoodSession(s), DeskTyped(c, s)
    PROVE  DeskTyped(c, Cut(s)) /\ Shut(Cut(s))
  <1>1. CASE s.phase = "none"
    BY <1>1 DEF Cut, Shut
  <1>2. CASE s.phase # "none"
    <2>1. PICK p, w, q, y : s = [phase |-> p, who |-> w, request |-> q, reply |-> y]
      BY DEF GoodSession
    <2>2. PICK t : t = Cut(s)
      OBVIOUS
    <2>3. t = [s EXCEPT !.phase = "closed", !.request = None]
      BY <1>2, <2>2 DEF Cut
    <2>4. t = [phase |-> "closed", who |-> w, request |-> None, reply |-> y]
      BY <2>1, <2>3
    <2>5. t.phase = "closed" /\ t.who = s.who /\ t.request = None /\ t.reply = s.reply
      BY <2>1, <2>4
    <2>6. IsSession(t)
      BY <2>5 DEF IsSession, DeskTyped, Phases
    <2>7. c # None
      BY <1>2 DEF DeskTyped
    <2> QED
      BY <2>2, <2>5, <2>6, <2>7 DEF DeskTyped, Shut
  <1> QED
    BY <1>1, <1>2

\* The host ends.
LEMMA StopHostTyped ==
    ASSUME CollaborationInv, TypedInv, StopHost
    PROVE  TypedInv'
  <1>1. /\ memory' = None /\ poisoned' = FALSE /\ strays' = {}
        /\ wire' = [d \in Devices |-> Cut(wire[d])] /\ UNCHANGED <<localVars, client, history>>
    BY DEF StopHost, HostStops
  <1>2. ASSUME NEW d \in Devices
        PROVE  DeskTyped(client'[d], wire'[d]) /\ Shut(wire'[d])
    <2>1. GoodSession(wire[d]) /\ DeskTyped(client[d], wire[d])
      BY StoredFacts DEF TypedInv, SessionsTyped
    <2>2. DeskTyped(client[d], Cut(wire[d])) /\ Shut(Cut(wire[d]))
      BY <2>1, CutTyped
    <2> QED
      BY <1>1, <2>2
  <1>3. HostTyped' /\ SessionsTyped'
    BY <1>1, <1>2 DEF HostTyped, SessionsTyped
  <1>4. LocalTyped' /\ InvitesTyped'
    BY <1>1 DEF TypedInv, LocalTyped, InvitesTyped, localVars, history
  <1> QED
    BY <1>3, <1>4 DEF TypedInv

\* A desktop ends.
LEMMA CrashTyped ==
    ASSUME CollaborationInv, TypedInv, NoneIsNoClient, NEW d \in Devices, Crash(d)
    PROVE  TypedInv'
  <1>1. /\ client' = [client EXCEPT ![d] = None] /\ UNCHANGED <<localVars, history>>
    BY DEF Crash
  <1>2. client'[d] = None /\ \A e \in Devices \ {d} : client'[e] = client[e]
    BY <1>1, StoredFacts
  <1>3. LocalTyped' /\ InvitesTyped'
    BY <1>1 DEF TypedInv, LocalTyped, InvitesTyped, localVars, history
  <1>4. CASE d = OwnerDevice
    <2>1. /\ memory' = None /\ poisoned' = FALSE /\ strays' = {}
          /\ wire' = [e \in Devices |-> IF e = d THEN Unconnected ELSE Cut(wire[e])]
      BY <1>4 DEF Crash, HostStops
    <2>2. ASSUME NEW e \in Devices
          PROVE  DeskTyped(client'[e], wire'[e]) /\ Shut(wire'[e])
      <3>1. CASE e = d
        <4>1. client'[e] = None /\ wire'[e] = Unconnected
          BY <1>2, <2>1, <3>1
        <4> QED
          BY <4>1, UnconnectedTyped DEF DeskTyped, Shut
      <3>2. CASE e # d
        <4>1. GoodSession(wire[e]) /\ DeskTyped(client[e], wire[e])
          BY StoredFacts DEF TypedInv, SessionsTyped
        <4>2. DeskTyped(client[e], Cut(wire[e])) /\ Shut(Cut(wire[e]))
          BY <4>1, CutTyped
        <4>3. client'[e] = client[e] /\ wire'[e] = Cut(wire[e])
          BY <1>2, <2>1, <3>2
        <4> QED
          BY <4>2, <4>3
      <3> QED
        BY <3>1, <3>2
    <2>3. HostTyped' /\ SessionsTyped'
      BY <2>1, <2>2 DEF HostTyped, SessionsTyped
    <2> QED
      BY <1>3, <2>3 DEF TypedInv
  <1>5. CASE d # OwnerDevice
    <2>1. /\ wire' = [wire EXCEPT ![d] = Unconnected] /\ strays' \in Abandoned(wire[d])
          /\ UNCHANGED storeVars
      BY <1>5 DEF Crash
    <2>2. wire'[d] = Unconnected /\ \A e \in Devices \ {d} : wire'[e] = wire[e]
      BY <2>1, StoredFacts
    <2>3. DeskMoves(d)
      BY <1>2, <2>1, <2>2, RestMoves DEF TypedInv
    <2> QED
      BY <1>3, <2>3, DeskMovesTyped DEF TypedInv
  <1> QED
    BY <1>4, <1>5

\* What users do.
LEMMA UserTyped ==
    ASSUME CollaborationInv, TypedInv, NoneIsNoClient, NEW d \in Devices, UserStep(d)
    PROVE  TypedInv'
  <1>1. ASSUME DeskMoves(d), UNCHANGED <<vault, history>>,
               reg' \in {reg, [reg EXCEPT ![d] = "begun"]}
        PROVE  TypedInv'
    <2>1. LocalTyped' /\ InvitesTyped'
      BY <1>1 DEF TypedInv, LocalTyped, InvitesTyped, history
    <2> QED
      BY <1>1, <2>1, DeskMovesTyped DEF TypedInv
  <1>2. ASSUME NEW i \in Invites, StartJoin(d, i)
        PROVE  TypedInv'
    <2>1. PICK q : q = [op |-> "join", invite |-> i, device |-> d]
      OBVIOUS
    <2>2. /\ reg' = [reg EXCEPT ![d] = "begun"] /\ UNCHANGED <<storeVars, strays>>
          /\ UNCHANGED <<vault, history>>
      BY <1>2 DEF StartJoin
    <2>3. CASE /\ memory # None
               /\ client' = [client EXCEPT ![d] = NewClient(None, "joining", q)]
               /\ wire' = [wire EXCEPT ![d] = Opened(q)]
      <3>1. q \in Requests
        <4>1. q \in [op : {"join"}, invite : Invites, device : Devices]
          BY <2>1
        <4> QED
          BY <4>1 DEF Requests
      <3>2. "joining" \in Stages /\ None \in Members \cup {None}
        BY DEF Stages
      <3>3. DeskMoves(d)
        BY <2>2, <2>3, <3>1, <3>2, NewClientMoves
      <3> QED
        BY <1>1, <2>2, <3>3
    <2>4. CASE UNCHANGED <<client, wire>>
      <3>1. DeskMoves(d)
        BY <2>2, <2>4 DEF DeskMoves, TypedInv, SessionsTyped, Abandoned
      <3> QED
        BY <1>1, <2>2, <3>1
    <2> QED
      BY <1>2, <2>1, <2>3, <2>4 DEF StartJoin
  <1>3. SessionsTyped
    BY DEF TypedInv
  <1>4. CASE \/ Pulse(d) \/ Invite(d)
             \/ \E i \in Invites : CancelInvite(d, i)
             \/ \E m \in Members : Revoke(d, m)
    <2>1. PICK q \in Requests : Command(d, q)
      BY <1>4, CommandsTyped
    <2>2. DeskMoves(d) /\ UNCHANGED <<reg, vault, history>>
      BY <1>3, <2>1, CommandMoves
    <2> QED
      BY <1>1, <2>2
  <1>5. CASE Reconnect(d) \/ Disconnect(d)
    <2>1. DeskMoves(d) /\ UNCHANGED <<reg, vault, history>>
      BY <1>3, <1>5, ConnectingMoves
    <2> QED
      BY <1>1, <2>1
  <1>6. ASSUME NEW key \in Keys, NEW payload \in Payloads, Submit(d, key, payload)
        PROVE  TypedInv'
    <2>1. DeskMoves(d) /\ UNCHANGED <<reg, vault, history>>
      BY <1>3, <1>6, SubmitMoves
    <2> QED
      BY <1>1, <2>1
  <1> QED
    BY <1>2, <1>4, <1>5, <1>6 DEF UserStep

\* The owner's desktop connects to its own host.
LEMMA OwnerTyped ==
    ASSUME CollaborationInv, TypedInv, NoneIsNoClient, StartOwner
    PROVE  TypedInv'
  <1>1. PICK d, q : d = OwnerDevice /\ q = [op |-> "auth", member |-> Owner]
    OBVIOUS
  <1>2. /\ d \in Devices /\ memory # None
        /\ client' = [client EXCEPT ![d] = NewClient(Owner, "owner", q)]
        /\ wire' = [wire EXCEPT ![d] = Opened(q)]
        /\ UNCHANGED <<storeVars, strays>> /\ UNCHANGED <<reg, vault, history>>
    BY <1>1, Limits DEF StartOwner, localVars
  <1>3. Owner \in Members \cup {None} /\ "owner" \in Stages /\ q \in Requests
    BY <1>1, BrainAssumption, AuthTyped DEF Stages
  <1>4. DeskMoves(d)
    BY <1>2, <1>3, NewClientMoves
  <1>5. LocalTyped' /\ InvitesTyped'
    BY <1>2 DEF TypedInv, LocalTyped, InvitesTyped, history
  <1> QED
    BY <1>2, <1>4, <1>5, DeskMovesTyped DEF TypedInv

\* Every step keeps the state well formed.
LEMMA TypedStep ==
    ASSUME CollaborationInv, ReadInv, TypedInv, NoneIsNoBatch, NoneIsNoClient, NoneIsNoBrain,
           [Next]_vars
    PROVE  TypedInv'
  <1>1. CASE HostStep
    BY <1>1, StartHostTyped, StopHostTyped, StoreTyped, HandleTyped DEF HostStep
  <1>2. CASE StartOwner
    BY <1>2, OwnerTyped
  <1>3. ASSUME NEW d \in Devices, ReplyStep(d)
        PROVE  TypedInv'
    BY <1>3, JoinedTyped, ReadingTyped, InviteTyped, PageTyped, FailTyped, CrashTyped DEF ReplyStep
  <1>4. CASE UNCHANGED vars
    BY <1>4 DEF vars, storeVars, localVars, history, TypedInv, HostTyped, LocalTyped, SessionsTyped,
       InvitesTyped
  <1> QED
    BY <1>1, <1>2, <1>3, <1>4, UserTyped DEF Next

\* The initial state is well formed.
LEMMA TypedInit == Init => TypedInv
  <1> SUFFICES ASSUME Init PROVE TypedInv
    OBVIOUS
  <1>1. HostTyped
    BY UnconnectedTyped DEF Init, HostTyped, Shut
  <1>2. LocalTyped
    BY BrainAssumption DEF Init, LocalTyped
  <1>3. SessionsTyped
    BY UnconnectedTyped DEF Init, SessionsTyped, DeskTyped
  <1>4. InvitesTyped
    BY DEF Init, InvitesTyped
  <1> QED
    BY <1>1, <1>2, <1>3, <1>4 DEF TypedInv

\* A good Brain has its type.
LEMMA GoodIsBrain ==
    ASSUME NEW b, GoodBrain(b)
    PROVE  IsBrain(b)
  <1>1. DOMAIN b = {"rev", "clock", "members", "invites", "tasks", "replays"}
    BY DEF GoodBrain, Brains
  <1> QED
    BY <1>1, BrainTypes DEF GoodBrain, IsBrain

\* A well-formed state has the types that the runs check.
LEMMA TypedIsTypeOK ==
    ASSUME CollaborationInv, TypedInv
    PROVE  TypeOK
  <1>1. /\ GoodBrain(file) /\ poisoned \in BOOLEAN /\ (memory # None /\ ~poisoned => memory = file)
    BY DEF CollaborationInv, StoreGood
  <1>2. IsBrain(file) /\ (memory # None => IsBrain(memory))
    BY <1>1, GoodIsBrain DEF TypedInv, HostTyped
  <1>3. memory = None => ~poisoned /\ strays = {}
    BY DEF TypedInv, HostTyped
  <1>4. \A d \in Devices : client[d] # None => IsClient(client[d])
    BY DEF TypedInv, SessionsTyped, DeskTyped
  <1>5. \A s \in Sessions : IsSession(s)
    BY DEF TypedInv, SessionsTyped, DeskTyped, Sessions
  <1>6. \A d \in Devices : Busy(d) => wire[d].phase # "none"
    BY BusyClient
  <1>7. \A d \in Devices : client[d] = None => wire[d].phase = "none"
    BY DEF TypedInv, SessionsTyped, DeskTyped
  <1>8. acked \subseteq ReplayRecords
    <2>1. file.replays \subseteq ReplayRecords
      BY <1>2 DEF IsBrain
    <2> QED
      BY <2>1 DEF CollaborationInv, AckGood
  <1> QED
    BY <1>1, <1>2, <1>3, <1>4, <1>5, <1>6, <1>7, <1>8
    DEF TypeOK, TypedInv, LocalTyped, InvitesTyped

\* Reading works however reads, changes, losses and restarts overlap: the state stays well
\* formed, every page a host sends is accepted, and the view they make up is the Brain's
\* (host.rs, client.rs, node.rs accept_page, reconcile.rs).
THEOREM ReadingWorks ==
    ASSUME NoneIsNoBatch, NoneIsNoClient, NoneIsNoBrain
    PROVE  Spec => []ReadingInv
  <1>1. CollaborationInv /\ ReadInv /\ [Next]_vars => ReadInv'
    BY ReadInvStep
  <1>2. CollaborationInv /\ ReadInv /\ TypedInv /\ [Next]_vars => TypedInv'
    BY TypedStep
  <1>3. CollaborationInv /\ ReadInv /\ TypedInv => ReadingInv
    BY ReadsAgree, PageCame, TypedIsTypeOK DEF ReadingInv, PagesFit
  <1> QED
    BY <1>1, <1>2, <1>3, ReadInvInit, TypedInit, CollaborationInvariant, PTL DEF Spec

=============================================================================

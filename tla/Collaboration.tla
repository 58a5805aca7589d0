--------------------------- MODULE Collaboration ---------------------------
(***************************************************************************)
(* One Brain and the desktops that share it: the Brain's store and its     *)
(* file (storage.rs), the host and its sessions (host.rs, server.rs,       *)
(* hosting.rs), the clients (client.rs) and the life of a desktop's        *)
(* membership (node_session.rs, node_registration.rs, node_membership.rs). *)
(*                                                                         *)
(* A connection carries one request and then its reply.  A client that     *)
(* gives up leaves its connection behind; a request that was on its way    *)
(* may still be handled, long after.  The operations of one desktop are    *)
(* sequential: they hold the lock of its NodeSession, and any other is     *)
(* refused as busy.                                                        *)
(***************************************************************************)
EXTENDS Node

CONSTANTS
    Commands,       \* what users do: subset of {"pulse", "invite", "cancel", "revoke", "submit"}
    Coordinated,    \* statuses the Brain's trusted coordinator may set
    Faults,         \* subset of {"write", "stop", "crash", "lose", "local", "limit"}
    BrainSize(_),   \* the size of an encoded Brain: its texts are not modelled
    MaxBrainSize,   \* MAX_BRAIN_BYTES
    MaxTime,        \* bound on the clock
    MaxStrays       \* bound on abandoned connections with a request under way

ASSUME CollaborationAssumption ==
    /\ MaxTime \in Nat /\ MaxStrays \in Nat
    /\ {"none", "begun"} \cap Members = {}

VARIABLES
    file,       \* the stored Brain
    memory,     \* the Brain the running host serves from, or None
    poisoned,   \* the store refuses everything after a failed write
    reg,        \* per device: its registration, "none", "begun" or its member
    vault,      \* per device: the members whose credentials it has stored
    client,     \* per device: its client, or None
    wire,       \* per device: the connection of its client
    strays,     \* abandoned connections with a request under way
    issued,     \* history: invitations that were ever created
    invited,    \* invitations that were handed to users
    cancelled,  \* history: invitations whose cancellation was acknowledged
    acked       \* history: messages that were acknowledged, as replay records

storeVars == <<file, memory, poisoned>>
localVars == <<reg, vault>>
history == <<issued, invited, cancelled, acked>>
vars == <<storeVars, localVars, client, wire, strays, history>>

Times == 0..MaxTime

Requests ==
    [op : {"auth"}, member : Members]
    \cup [op : {"join"}, invite : Invites, device : Devices]
    \cup [op : {"sync"}, page : [after : Nat, at : Nat \cup {None}, offset : Nat]]
    \cup [op : {"submit"}, msg : Messages]
    \cup [op : {"pulse", "invite"}]
    \cup [op : {"cancel"}, invite : Invites]
    \cup [op : {"revoke"}, member : Members, rev : Nat]

ASSUME NoRequestAssumption == None \notin Requests

TooLarge(b) == BrainSize(b) > MaxBrainSize

\* BrainStore::create wrote the Brain that is there first.
ASSUME BootstrapAssumption == ~TooLarge(Bootstrap(0))

\* How a client came about: until it is "held" by the NodeSession, a failure drops it.
Stages == {"joining", "owner", "connecting", "held"}
Phases == {"none", "fresh", "joined", "active", "closed"}

\* A connection is in phase "none" while there is none.
Unconnected == [phase |-> "none", who |-> None, request |-> None, reply |-> None]
Opened(request) == [phase |-> "fresh", who |-> None, request |-> request, reply |-> None]

Init ==
    /\ file = Bootstrap(0) /\ memory = None /\ poisoned = FALSE
    /\ reg = [d \in Devices |-> "none"]
    /\ vault = [d \in Devices |-> IF d = OwnerDevice THEN {Owner} ELSE {}]
    /\ client = [d \in Devices |-> None]
    /\ wire = [d \in Devices |-> Unconnected]
    /\ strays = {}
    /\ issued = {} /\ invited = {} /\ cancelled = {} /\ acked = {}

----------------------------------------------------------------------------
(* The store. *)

\* Mutant of Encodes: the size is not looked at.
EncodesAnySize(b) == Valid(b)

\* Brain::encode: what is written was validated and is within the limit.
Encodes(b) == Valid(b) /\ ~TooLarge(b)

\* The error of a Brain that does not encode.
EncodeError(b) == Fail(IF Valid(b) THEN "busy" ELSE "rejected")

\* What transact writes: the candidate, or the old state with the time observed, or,
\* if that has become too large as well, nothing.
Staged(base, now, result) ==
    IF result.err = "none" /\ Encodes(result.brain) THEN result.brain
    ELSE IF Encodes(Observed(base, now)) THEN Observed(base, now) ELSE base

\* What it returns: a candidate that does not encode is an error too.
Outcome(base, now, result) ==
    IF result.err = "none" /\ Encodes(result.brain) THEN result
    ELSE IF ~Encodes(Observed(base, now)) THEN EncodeError(Observed(base, now))
    ELSE IF result.err = "none" THEN EncodeError(result.brain) ELSE result

\* Mutant of Transacted: the outcome is returned although the write failed.
TransactedEarly(now, result) ==
    IF poisoned \/ ~CanObserve(memory, now)
    THEN {[file |-> file, poisoned |-> poisoned, outcome |-> Fail("unavailable")]}
    ELSE LET next == Staged(memory, now, result) IN
         {[file |-> next, poisoned |-> FALSE, outcome |-> Outcome(memory, now, result)]}
         \cup {[file |-> f, poisoned |-> TRUE, outcome |-> Outcome(memory, now, result)] :
                f \in IF "write" \in Faults /\ next # file THEN {file, next} ELSE {}}

(***************************************************************************)
(* What transact may leave and return.  The file is replaced, then memory, *)
(* and only then is the outcome returned.  A failed write may have         *)
(* replaced the file; the store is poisoned and serves nothing any more.   *)
(***************************************************************************)
Transacted(now, result) ==
    IF poisoned \/ ~CanObserve(memory, now)
    THEN {[file |-> file, poisoned |-> poisoned,
           outcome |-> Fail(IF poisoned THEN "unavailable" ELSE "rejected")]}
    ELSE LET next == Staged(memory, now, result) IN
         {[file |-> next, poisoned |-> FALSE, outcome |-> Outcome(memory, now, result)]}
         \cup {[file |-> f, poisoned |-> TRUE, outcome |-> Fail("unavailable")] :
                f \in IF "write" \in Faults /\ next # file THEN {file, next} ELSE {}}

\* Mutant of Install: memory is left as it was.
InstallFileOnly(t) ==
    /\ file' = t.file /\ poisoned' = t.poisoned /\ UNCHANGED memory
    /\ issued' = issued \cup DOMAIN t.file.invites

Install(t) ==
    /\ file' = t.file /\ poisoned' = t.poisoned
    /\ memory' = IF t.poisoned THEN memory ELSE t.file
    /\ issued' = issued \cup DOMAIN t.file.invites

\* BrainStore::open takes all nodes off line in its first transaction.
Reopened(now) == ResetPresence(Observed(file, now), AllOnline(file))

\* BrainService::start: open the store, then check the owner's credential.
StartHost(now) ==
    LET next == Staged(file, now, Reopened(now))
        opens == /\ Outcome(file, now, Reopened(now)).err = "none"
                 /\ Connect(next, Owner, now).err = "none"
    IN  /\ memory = None /\ CanObserve(file, now)
        /\ \/ file' = next /\ memory' = IF opens THEN next ELSE None
           \/ "write" \in Faults /\ next # file /\ file' = next /\ UNCHANGED memory
        /\ UNCHANGED <<poisoned, localVars, client, wire, strays, history>>

\* The sockets are shut and the workers joined; a reply that was sent may still arrive.
HostStops ==
    /\ memory' = None /\ poisoned' = FALSE /\ strays' = {}
    /\ UNCHANGED file

Cut(s) == IF s.phase = "none" THEN s ELSE [s EXCEPT !.phase = "closed", !.request = None]

StopHost ==
    /\ "stop" \in Faults /\ memory # None
    /\ HostStops
    /\ wire' = [d \in Devices |-> Cut(wire[d])]
    /\ UNCHANGED <<localVars, client, history>>

\* The coordinator on the Brain's machine moves a task along.
Coordinate(t, status, now) ==
    /\ memory # None /\ t \in DOMAIN memory.tasks
    /\ \E x \in Transacted(now, SetTaskStatus(Observed(memory, now), t, memory.rev, status)) :
         Install(x)
    /\ UNCHANGED <<localVars, client, wire, strays, invited, cancelled, acked>>

----------------------------------------------------------------------------
(* The host's side of a connection. *)

\* The phase of the session admits the request.
Admitted(s) ==
    CASE s.request.op = "auth" -> s.phase \in {"fresh", "joined"}
      [] s.request.op = "join" -> s.phase = "fresh"
      [] OTHER -> s.phase = "active"

ByOwner(b, s, now, result) ==
    IF Authorized(b, s.who, now) /\ s.who = Owner THEN result ELSE Fail("rejected")

\* The operation inside the transaction; id is the random id it may need.
Operation(b, s, id, now) ==
    LET q == s.request IN
    CASE q.op = "auth" -> Connect(b, q.member, now)
      [] q.op = "join" -> JoinBrain(b, q.invite, id, q.device, now)
      [] q.op = "sync" -> Reconcile(b, s.who, q.page, now)
      [] q.op = "submit" -> Apply(b, s.who, q.msg, now)
      [] q.op = "pulse" -> Heartbeat(b, s.who, b.rev, now)
      [] q.op = "invite" -> ByOwner(b, s, now, CreateInvitation(b, id, now))
      [] q.op = "cancel" -> ByOwner(b, s, now, CancelInvitation(b, q.invite))
      [] q.op = "revoke" -> ByOwner(b, s, now, RevokeMember(b, q.member, q.rev))

\* Ids a request may be given: unused ones, None if it needs none or all are used.
FreshIds(q) ==
    LET unused == CASE q.op = "join" -> Members \ DOMAIN memory.members
                    [] q.op = "invite" -> Invites \ issued
                    [] OTHER -> {}
    IN  IF unused = {} /\ q.op # "invite" THEN {None} ELSE unused

\* The session after its request: any error but a conflict closes it.
Answered(s, outcome) ==
    [s EXCEPT
       !.request = None, !.reply = outcome,
       !.phase = IF outcome.err \notin {"none", "conflict"} THEN "closed"
                 ELSE IF outcome.err = "conflict" THEN @
                 ELSE CASE s.request.op = "auth" -> "active"
                        [] s.request.op = "join" -> "joined"
                        [] OTHER -> @,
       !.who = IF outcome.err = "none" /\ s.request.op = "auth" THEN s.request.member ELSE @]

\* The reply alone, without the Brain it came from.
Reply(outcome) ==
    IF outcome.err = "none" THEN [err |-> "none", value |-> outcome.value] ELSE outcome

\* A request waits at the host.
Waiting(s) == s.request # None /\ s.phase \notin {"none", "closed"}

\* HostSession::handle: a request out of phase never reaches the store.
Answers(s, now, id) ==
    IF Admitted(s) THEN Transacted(now, Operation(Observed(memory, now), s, id, now))
    ELSE {[file |-> file, poisoned |-> poisoned, outcome |-> Fail("rejected")]}

Handle(d) ==
    /\ memory # None /\ Waiting(wire[d])
    /\ \E now \in Times, id \in FreshIds(wire[d].request) :
         \E x \in Answers(wire[d], now, id) :
           /\ Install(x)
           /\ wire' = [wire EXCEPT ![d] = Answered(@, Reply(x.outcome))]
    /\ UNCHANGED <<localVars, client, strays, invited, cancelled, acked>>

\* The request of a connection its client gave up; the reply goes nowhere.
HandleStray(s) ==
    /\ memory # None
    /\ \E now \in Times, id \in FreshIds(s.request) :
         \E x \in Answers(s, now, id) : Install(x)
    /\ strays' = strays \ {s}
    /\ UNCHANGED <<localVars, client, wire, invited, cancelled, acked>>

\* The limiter of the host refuses before the store is touched.
Refuse(d) ==
    /\ "limit" \in Faults /\ memory # None /\ Waiting(wire[d])
    /\ wire' = [wire EXCEPT ![d] = Answered(@, Fail("busy"))]
    /\ UNCHANGED <<storeVars, localVars, client, strays, history>>

----------------------------------------------------------------------------
(* The desktop's side. *)

NewClient(m, stage, request) ==
    [member |-> m, view |-> NewView, stage |-> stage, asking |-> request]

Idle(d) == client[d] # None /\ client[d].asking = None
Busy(d) == client[d] # None /\ client[d].asking # None

\* What becomes of a connection left by its client: its request may still be handled.
Abandoned(s) ==
    IF Waiting(s) /\ Cardinality(strays) < MaxStrays
    THEN {strays, strays \cup {s}} ELSE {strays}

\* Client::fail: disconnect; a client nobody holds yet is dropped.
Failed(d) ==
    /\ client' = [client EXCEPT ![d] =
                    IF @.stage # "held" THEN None
                    ELSE [client[d] EXCEPT !.view = Disconnected(@), !.asking = None]]
    /\ wire' = [wire EXCEPT ![d] = Unconnected]
    /\ strays' \in Abandoned(wire[d])

\* Send the next request on the open connection.
Ask(d, c, request) ==
    /\ client' = [client EXCEPT ![d] = [c EXCEPT !.asking = request]]
    /\ wire' = [wire EXCEPT ![d] = [@ EXCEPT !.request = request, !.reply = None]]

AskSync(d, c) == Ask(d, c, [op |-> "sync", page |-> ReconcileRequest(c.view)])

\* Mutant of StartJoin: an attempt that did not complete may be repeated.
StartJoinAgain(d, i) ==
    LET request == [op |-> "join", invite |-> i, device |-> d] IN
    /\ client[d] = None /\ reg[d] \in {"none", "begun"} /\ i \in invited
    /\ reg' = [reg EXCEPT ![d] = "begun"]
    /\ memory # None
    /\ client' = [client EXCEPT ![d] = NewClient(None, "joining", request)]
    /\ wire' = [wire EXCEPT ![d] = Opened(request)]
    /\ UNCHANGED <<storeVars, vault, strays, history>>

(***************************************************************************)
(* NodeSession::join.  The registration is stored before the first         *)
(* message, and never a second time.  Without a connection that is all.    *)
(***************************************************************************)
StartJoin(d, i) ==
    LET request == [op |-> "join", invite |-> i, device |-> d] IN
    /\ client[d] = None /\ reg[d] = "none" /\ i \in invited
    /\ reg' = [reg EXCEPT ![d] = "begun"]
    /\ \/ /\ memory # None
          /\ client' = [client EXCEPT ![d] = NewClient(None, "joining", request)]
          /\ wire' = [wire EXCEPT ![d] = Opened(request)]
       \/ "local" \in Faults /\ UNCHANGED <<client, wire>>
    /\ UNCHANGED <<storeVars, vault, strays, history>>

\* NodeSession::connect_owner, up to the request for authentication.
StartOwner ==
    LET d == OwnerDevice
        request == [op |-> "auth", member |-> Owner] IN
    /\ client[d] = None /\ reg[d] = "none" /\ memory # None
    /\ client' = [client EXCEPT ![d] = NewClient(Owner, "owner", request)]
    /\ wire' = [wire EXCEPT ![d] = Opened(request)]
    /\ UNCHANGED <<storeVars, localVars, strays, history>>

\* NodeSession::connect: a client that is held keeps its view and its message.
Reconnect(d) ==
    LET request == [op |-> "auth", member |-> reg[d]] IN
    /\ reg[d] \in vault[d] /\ memory # None
    /\ \/ /\ client[d] = None
          /\ client' = [client EXCEPT ![d] = NewClient(reg[d], "connecting", request)]
       \/ /\ Idle(d)
          /\ client' = [client EXCEPT ![d] = [client[d] EXCEPT !.view = Disconnected(@),
                                                              !.asking = request]]
    /\ wire' = [wire EXCEPT ![d] = Opened(request)]
    /\ UNCHANGED <<storeVars, localVars, strays, history>>

\* NodeSession::disconnect, or a reconnect that finds no host.
Disconnect(d) ==
    /\ Idle(d) /\ wire[d].phase # "none"
    /\ client' = [client EXCEPT ![d].view = Disconnected(@)]
    /\ wire' = [wire EXCEPT ![d] = Unconnected]
    /\ UNCHANGED <<storeVars, localVars, strays, history>>

\* The operations of a connected desktop, up to their first request.
Command(d, request) ==
    /\ Idle(d) /\ wire[d].phase # "none" /\ request.op \in Commands
    /\ Ask(d, client[d], request)
    /\ UNCHANGED <<storeVars, localVars, strays, history>>

Pulse(d) == Command(d, [op |-> "pulse"])
Invite(d) == Command(d, [op |-> "invite"])
CancelInvite(d, i) == i \in invited /\ Command(d, [op |-> "cancel", invite |-> i])
Revoke(d, m) ==
    /\ Idle(d) /\ client[d].view.ready
    /\ Command(d, [op |-> "revoke", member |-> m, rev |-> client[d].view.rev])

\* submit_confirmed: the message is queued, and sent if the view is current.
\* With the waiting message it is publish_pending.
Submit(d, key, payload) ==
    LET c == [client[d] EXCEPT !.view = Queued(@, key, payload)] IN
    /\ "submit" \in Commands
    /\ Idle(d) /\ CanQueue(client[d].view, key, payload)
    /\ IF CanSend(c.view) THEN Ask(d, c, [op |-> "submit", msg |-> Outgoing(c.view)])
       ELSE client' = [client EXCEPT ![d] = c] /\ UNCHANGED wire
    /\ UNCHANGED <<storeVars, localVars, strays, history>>

----------------------------------------------------------------------------
(* The reply arrives, or does not. *)

Got(d, op) ==
    /\ Busy(d) /\ client[d].asking.op = op
    /\ wire[d].reply # None /\ wire[d].reply.err = "none"

Value(d) == wire[d].reply.value

\* Mutant of Joined: the credential is used and not stored.
JoinedUnsaved(d) ==
    /\ Got(d, "join")
    /\ Ask(d, [client[d] EXCEPT !.member = Value(d)], [op |-> "auth", member |-> Value(d)])
    /\ UNCHANGED <<storeVars, reg, vault, strays, history>>

\* Client::join stores the credential, then authenticates on the same connection.
Joined(d) ==
    LET m == Value(d) IN
    /\ Got(d, "join")
    /\ vault' = [vault EXCEPT ![d] = @ \cup {m}]
    /\ Ask(d, [client[d] EXCEPT !.member = m], [op |-> "auth", member |-> m])
    /\ UNCHANGED <<storeVars, reg, strays, history>>

\* Authentication, a pulse or an administration is followed by reading the changes.
ThenReads(d) ==
    /\ Got(d, "auth") \/ Got(d, "pulse") \/ Got(d, "cancel") \/ Got(d, "revoke")
    /\ cancelled' = IF Got(d, "cancel") THEN cancelled \cup {client[d].asking.invite}
                    ELSE cancelled
    /\ AskSync(d, client[d])
    /\ UNCHANGED <<storeVars, localVars, strays, issued, invited, acked>>

InviteReceived(d) ==
    /\ Got(d, "invite")
    /\ invited' = invited \cup {Value(d)}
    /\ client' = [client EXCEPT ![d].asking = None]
    /\ UNCHANGED <<storeVars, localVars, wire, strays, issued, cancelled, acked>>

\* publish_pending: the message is done with, and the changes are read.
SubmitAcknowledged(d) ==
    LET c == client[d]
        msg == c.asking.msg IN
    /\ Got(d, "submit") /\ CanAcknowledge(c.view, msg.key, Value(d))
    /\ acked' = acked \cup {[node |-> c.member, key |-> msg.key,
                             payload |-> msg.payload, rev |-> Value(d)]}
    /\ AskSync(d, [c EXCEPT !.view = Acknowledged(@)])
    /\ UNCHANGED <<storeVars, localVars, strays, issued, invited, cancelled>>

Accepted(d) == AcceptPage(client[d].view, client[d].member, d, Value(d))

\* A page that is not the last: ask for the next one.
NextPage(d) ==
    /\ Got(d, "sync") /\ Accepted(d).ok /\ ~Accepted(d).view.ready
    /\ AskSync(d, [client[d] EXCEPT !.view = Accepted(d).view])
    /\ UNCHANGED <<storeVars, localVars, strays, history>>

\* The last page.  A new member, or the owner, completes its registration now.
LastPage(d) ==
    LET c == client[d] IN
    /\ Got(d, "sync") /\ Accepted(d).ok /\ Accepted(d).view.ready
    /\ client' = [client EXCEPT ![d] = [c EXCEPT !.view = Accepted(d).view,
                                                !.stage = "held", !.asking = None]]
    /\ reg' = IF c.stage \in {"joining", "owner"} THEN [reg EXCEPT ![d] = c.member] ELSE reg
    /\ UNCHANGED <<storeVars, vault, wire, strays, history>>

\* The registration or the credential cannot be stored: the client is dropped.
LocalFailure(d) ==
    /\ "local" \in Faults
    /\ \/ Got(d, "join") /\ UNCHANGED reg
       \/ /\ Got(d, "sync") /\ Accepted(d).ok /\ Accepted(d).view.ready
          /\ client[d].stage \in {"joining", "owner"}
          /\ reg' \in {reg, [reg EXCEPT ![d] = "begun"]}
    /\ Failed(d)
    /\ UNCHANGED <<storeVars, vault, history>>

\* An error reply, or a page that does not fit.
Refused(d) ==
    /\ Busy(d) /\ wire[d].reply # None
    /\ \/ wire[d].reply.err # "none"
       \/ Got(d, "sync") /\ ~Accepted(d).ok
    /\ Failed(d)
    /\ UNCHANGED <<storeVars, localVars, history>>

\* The connection is lost while a request is out.
Lost(d) ==
    /\ Busy(d) /\ ("lose" \in Faults \/ (wire[d].phase = "closed" /\ wire[d].reply = None))
    /\ Failed(d)
    /\ UNCHANGED <<storeVars, localVars, history>>

\* The desktop ends at any point; the owner's takes the host with it.
Crash(d) ==
    /\ "crash" \in Faults /\ (client[d] # None \/ (d = OwnerDevice /\ memory # None))
    /\ client' = [client EXCEPT ![d] = None]
    /\ IF d = OwnerDevice
       THEN HostStops /\ wire' = [e \in Devices |-> IF e = d THEN Unconnected ELSE Cut(wire[e])]
       ELSE /\ wire' = [wire EXCEPT ![d] = Unconnected]
            /\ strays' \in Abandoned(wire[d])
            /\ UNCHANGED storeVars
    /\ UNCHANGED <<localVars, history>>

----------------------------------------------------------------------------
HostStep ==
    \/ \E now \in Times : StartHost(now)
    \/ StopHost
    \/ \E t \in TaskIds, status \in Coordinated, now \in Times : Coordinate(t, status, now)
    \/ \E d \in Devices : Handle(d) \/ Refuse(d)
    \/ \E s \in strays : HandleStray(s)

UserStep(d) ==
    \/ \E i \in Invites : StartJoin(d, i) \/ CancelInvite(d, i)
    \/ Reconnect(d) \/ Disconnect(d) \/ Pulse(d) \/ Invite(d)
    \/ \E m \in Members : Revoke(d, m)
    \/ \E key \in Keys, payload \in Payloads : Submit(d, key, payload)

ReplyStep(d) ==
    \/ Joined(d) \/ ThenReads(d) \/ InviteReceived(d) \/ SubmitAcknowledged(d)
    \/ NextPage(d) \/ LastPage(d)
    \/ LocalFailure(d) \/ Refused(d) \/ Lost(d) \/ Crash(d)

Next == HostStep \/ StartOwner \/ \E d \in Devices : UserStep(d) \/ ReplyStep(d)

Spec == Init /\ [][Next]_vars

----------------------------------------------------------------------------
Sessions == {wire[d] : d \in Devices} \cup strays

IsSession(s) ==
    /\ s.phase \in Phases /\ s.who \in Members \cup {None}
    /\ s.request \in Requests \cup {None}
    /\ s.request # None => s.reply = None
    /\ s.phase = "active" => s.who # None

IsClient(c) ==
    /\ c.member \in Members \cup {None} /\ c.stage \in Stages
    /\ c.asking \in Requests \cup {None}
    /\ c.view.rev \in Nat /\ c.view.ready \in BOOLEAN
    /\ c.view.uncertain \subseteq TaskIds
    /\ c.view.pending \in [key : Keys, payload : Payloads] \cup {None}

\* The types, and which parts exist together: memory is the file unless poisoned,
\* and a client that waits for a reply has a connection.
TypeOK ==
    /\ IsBrain(file) /\ poisoned \in BOOLEAN
    /\ memory # None => IsBrain(memory) /\ (~poisoned => memory = file)
    /\ memory = None => ~poisoned /\ strays = {}
    /\ reg \in [Devices -> {"none", "begun"} \cup Members]
    /\ vault \in [Devices -> SUBSET Members]
    /\ \A d \in Devices : client[d] # None => IsClient(client[d])
    /\ \A s \in Sessions : IsSession(s)
    /\ \A d \in Devices : Busy(d) => wire[d].phase # "none"
    /\ \A d \in Devices : client[d] = None => wire[d].phase = "none"
    /\ UNION {issued, invited, cancelled} \subseteq Invites /\ acked \subseteq ReplayRecords

(***************************************************************************)
(* The save refuses what an operation did for its size only: whatever      *)
(* request waits, at whatever time, an operation that succeeds leaves a    *)
(* Brain that validate accepts, and its success is turned into an error    *)
(* just when the Brain would exceed the limit.  What is stored can always  *)
(* be read again: it is valid and within the limit.                        *)
(***************************************************************************)
RefusedOnlyForSize ==
    /\ Encodes(file)
    /\ memory # None /\ ~poisoned =>
        \A s \in Sessions, now \in Times :
            Waiting(s) /\ Admitted(s) /\ CanObserve(memory, now) =>
                \A id \in FreshIds(s.request) :
                    LET result == Operation(Observed(memory, now), s, id, now) IN
                    result.err = "none" =>
                        IF TooLarge(result.brain) THEN Outcome(memory, now, result).err = "busy"
                        ELSE Outcome(memory, now, result) = result

(***************************************************************************)
(* A message that was acknowledged to a desktop is in the file with the    *)
(* revision the desktop was told, and so is its task: over lost replies,   *)
(* retries, requests handled late, failed writes and restarts.             *)
(***************************************************************************)
AcknowledgedIsDurable ==
    /\ acked \subseteq file.replays
    /\ \A a \in acked : a.payload \in TaskIds =>
         a.payload \in DOMAIN file.tasks /\ file.tasks[a.payload].creator = a.node

(***************************************************************************)
(* Every member but the owner has used up an invitation of its own, and a  *)
(* cancelled one makes no member: members, open invitations and            *)
(* acknowledged cancellations are never more than invitations created.     *)
(***************************************************************************)
MembershipAccounted ==
    Cardinality(DOMAIN file.members \ {Owner}) + Cardinality(DOMAIN file.invites)
        + Cardinality(cancelled) <= Cardinality(issued)

\* No device is enrolled twice, however its attempts ended: a join whose reply was
\* lost, or whose request is handled after its desktop has restarted, included.
OneEnrolmentPerDevice ==
    \A m, n \in DOMAIN file.members \ {Owner} :
        file.members[m].device = file.members[n].device => m = n

\* No invitation and no device makes two members.
EnrolledOnce == MembershipAccounted /\ OneEnrolmentPerDevice

\* A desktop that holds a complete registration holds the credential for it, and
\* the Brain knows it as a member on that device.
RegistrationBacked ==
    \A d \in Devices : reg[d] \in Members =>
        /\ reg[d] \in vault[d]
        /\ reg[d] \in DOMAIN file.members /\ file.members[reg[d]].device = d

(***************************************************************************)
(* What a desktop read is what the Brain has: a view at revision r shows   *)
(* nothing the Brain does not have, and every record the Brain has not     *)
(* changed since r, exactly as it is.  Pages read at different revisions   *)
(* are never mixed, and nothing is skipped by reading only the changes.    *)
(***************************************************************************)
ViewAgrees ==
    \A d \in Devices : client[d] # None /\ client[d].view.rev > 0 =>
        LET v == client[d].view
            names == SharedNames(file, client[d].member) IN
        /\ v.rev <= file.rev
        /\ DOMAIN v.records \subseteq names
        /\ \A n \in names : SharedRecord(file, n).rev <= v.rev =>
             n \in DOMAIN v.records /\ v.records[n] = SharedRecord(file, n)

\* An honest host never sends a page its client refuses.
PagesFit ==
    \A d \in Devices : Got(d, "sync") => Accepted(d).ok

(***************************************************************************)
(* Reading works however reads, changes and losses overlap: the state is   *)
(* well formed, every honest page is accepted, and the view they make up   *)
(* is the Brain's.                                                         *)
(***************************************************************************)
ReadingInv == TypeOK /\ ViewAgrees /\ PagesFit

(***************************************************************************)
(* Access ends for good: once a member is revoked, or the Brain has seen   *)
(* the time at which its credential expires, nothing is done in its name,  *)
(* by a session that was open, by a request under way, or by a new         *)
(* connection.  A revoked member is not touched again at all.              *)
(***************************************************************************)
AccessEnds ==
    [][\A m \in DOMAIN file.members :
         LET old == file.members[m]
             new == file'.members[m] IN
         old.revoked \/ file.clock >= old.expires =>
           /\ m \in DOMAIN file'.members
           /\ IF old.revoked THEN new = old
              ELSE new.seen = old.seen /\ new.announced = old.announced
           /\ {r \in file'.replays : r.node = m} = {r \in file.replays : r.node = m}]_file

(***************************************************************************)
(* The revision covers every change: a step that changes what some member  *)
(* is shown gives each changed record the new revision, and takes nothing  *)
(* away.  That is what lets a Node ask only for what came after.           *)
(***************************************************************************)
RevisionCoversChanges ==
    [][/\ file'.rev >= file.rev
       /\ \A m \in DOMAIN file.members :
            /\ SharedNames(file, m) \subseteq SharedNames(file', m)
            /\ \A n \in SharedNames(file', m) :
                 \/ n \in SharedNames(file, m) /\ SharedRecord(file', n) = SharedRecord(file, n)
                 \/ SharedRecord(file', n).rev = file'.rev /\ file'.rev > file.rev]_file

\* A task that was shown as running when its desktop lost the connection.
InDoubt(d, t) ==
    /\ client[d] # None /\ wire[d].phase = "none"
    /\ <<"task", t>> \in DOMAIN client[d].view.records
    /\ client[d].view.records[<<"task", t>>].status = "running"

ShowsRunning(d, t) ==
    /\ client[d] # None
    /\ <<"task", t>> \in DOMAIN client[d].view.records
    /\ ShownStatus(client[d].view, t) = "running"

\* A desktop that lost sight of a running task never shows it as running again while
\* its process lives: a new connection alone proves nothing about the task.
NeverRunningAgain ==
    \A d \in Devices, t \in TaskIds : [](InDoubt(d, t) => []~ShowsRunning(d, t))
=============================================================================

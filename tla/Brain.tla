------------------------------- MODULE Brain -------------------------------
(***************************************************************************)
(* The Brain: the authority that several desktops share (brain.rs,         *)
(* brain_tasks.rs, reconcile.rs, credential.rs, invitation.rs).            *)
(*                                                                         *)
(* Its state is one record.  A join creates a member, its Node and its     *)
(* credential together and nothing ever adds a second Node or credential,  *)
(* so the three maps of the code are one function here, and a member's id  *)
(* stands for all three.  Secrets are not values: who may present a        *)
(* credential is the business of the module that holds the clients.        *)
(*                                                                         *)
(* The operators are the operations on a candidate copy.  They yield       *)
(* Done(brain, value), or Fail(error) where the code returns Err; the      *)
(* store then drops the copy, so what it had changed does not matter.      *)
(* Errors are told apart as the wire tells them: "conflict" leaves a       *)
(* session open, "rejected" and "busy" close it.                           *)
(***************************************************************************)
EXTENDS Integers, Sequences, FiniteSets

CONSTANTS
    Members,        \* ids of members, drawn at random in the code
    Owner,          \* the member that bootstrap creates
    OwnerDevice,    \* its device
    Devices,        \* ids of devices
    Invites,        \* ids of invitations, drawn at random in the code
    TaskIds,        \* ids of shared tasks
    Keys,           \* idempotency keys of messages
    None,           \* absence of a value
    MemberOrder,    \* the order of the maps' keys: a sequence over Members
    TaskOrder,      \* likewise over TaskIds
    MaxRevision,    \* MAX_REVISION
    MaxMembers,     \* MAX_CREDENTIALS
    MaxInvites,     \* MAX_PENDING_INVITATIONS
    MaxTasks,       \* MAX_TASKS
    MaxReplays,     \* MAX_REPLAYS
    CredentialTtl,  \* CREDENTIAL_TTL_SECONDS
    InviteTtl,      \* INVITATION_TTL_SECONDS
    PresenceTtl     \* PRESENCE_TTL_SECONDS

ASSUME BrainAssumption ==
    /\ Owner \in Members /\ OwnerDevice \in Devices
    /\ MemberOrder \in Seq(Members) /\ TaskOrder \in Seq(TaskIds)
    /\ {MemberOrder[k] : k \in DOMAIN MemberOrder} = Members
    /\ {TaskOrder[k] : k \in DOMAIN TaskOrder} = TaskIds
    /\ None \notin Nat /\ None \notin Members /\ "node" \notin TaskIds
    /\ None \notin ({"member", "node"} \X Members) \cup ({"task"} \X TaskIds)
    /\ {MaxRevision, MaxMembers} \subseteq Nat \ {0}
    /\ {MaxInvites, MaxTasks, MaxReplays} \subseteq Nat
    /\ {CredentialTtl, InviteTtl, PresenceTtl} \subseteq Nat \ {0}
    /\ MaxMembers <= Cardinality(Members)   \* an id is always left for a member that may join

TaskStatuses ==
    {"draft", "offered", "accepted", "running", "awaitingReview", "approved",
     "rejected", "cancelled", "failed", "outcomeUnknown"}

\* A message: its key, what it announces (the Node itself, or a new task) and
\* the revision its sender had seen.
Payloads == {"node"} \cup TaskIds
Messages == [key : Keys, payload : Payloads, rev : Nat]

MemberRecords ==
    [device : Devices, revoked : BOOLEAN, rev : Nat, expires : Nat,
     online : BOOLEAN, seen : Nat \cup {None}, nodeRev : Nat,
     announced : Nat \cup {None}]
TaskRecords ==
    [creator : Members, key : Keys, source : Nat, status : TaskStatuses, rev : Nat]
ReplayRecords ==
    [node : Members, key : Keys, payload : Payloads, rev : Nat]

IsBrain(b) ==
    /\ DOMAIN b = {"rev", "clock", "members", "invites", "tasks", "replays"}
    /\ b.rev \in Nat /\ b.clock \in Nat
    /\ DOMAIN b.members \subseteq Members
    /\ \A m \in DOMAIN b.members : b.members[m] \in MemberRecords
    /\ DOMAIN b.invites \subseteq Invites
    /\ \A i \in DOMAIN b.invites : b.invites[i] \in Nat
    /\ DOMAIN b.tasks \subseteq TaskIds
    /\ \A t \in DOMAIN b.tasks : b.tasks[t] \in TaskRecords
    /\ b.replays \subseteq ReplayRecords

----------------------------------------------------------------------------
Fail(e) == [err |-> e]
Done(b, v) == [err |-> "none", brain |-> b, value |-> v]

\* A function with one more, or one other, entry; and with fewer.
Put(f, k, v) == [x \in DOMAIN f \cup {k} |-> IF x = k THEN v ELSE f[x]]
Only(f, S) == [x \in DOMAIN f \cap S |-> f[x]]

NewMember(device, rev, now) ==
    [device |-> device, revoked |-> FALSE, rev |-> rev, expires |-> now + CredentialTtl,
     online |-> FALSE, seen |-> None, nodeRev |-> rev, announced |-> None]

Bootstrap(now) ==
    [rev |-> 1, clock |-> now,
     members |-> [m \in {Owner} |-> NewMember(OwnerDevice, 1, now)],
     invites |-> [i \in {} |-> 0], tasks |-> [t \in {} |-> None], replays |-> {}]

\* The clock never goes back: an operation at an earlier time is refused.
CanObserve(b, now) == now >= b.clock
Observed(b, now) == [b EXCEPT !.clock = now]

\* Mutant of Authorized: expiry is off by one.
AuthorizedToTheEnd(b, m, now) ==
    m \in DOMAIN b.members /\ ~b.members[m].revoked /\ now <= b.members[m].expires

\* A credential counts while its member is not revoked and it has not expired.
Authorized(b, m, now) ==
    m \in DOMAIN b.members /\ ~b.members[m].revoked /\ now < b.members[m].expires

HasNextRevision(b) == b.rev + 1 <= MaxRevision
NextRevision(b) == b.rev + 1

Connect(b, m, now) ==
    IF Authorized(b, m, now) THEN Done(b, "authenticated") ELSE Fail("rejected")

\* Expired invitations are dropped when one is created, and bar a join before that.
LiveInvites(b, now) == {i \in DOMAIN b.invites : now < b.invites[i]}

CreateInvitation(b, i, now) ==
    IF ~HasNextRevision(b) \/ Cardinality(LiveInvites(b, now)) >= MaxInvites
    THEN Fail("busy")
    ELSE Done([b EXCEPT !.rev = NextRevision(b),
                        !.invites = Put(Only(@, LiveInvites(b, now)), i, now + InviteTtl)], i)

CancelInvitation(b, i) ==
    IF ~HasNextRevision(b) THEN Fail("busy")
    ELSE IF i \notin DOMAIN b.invites THEN Fail("rejected")
    ELSE LET left == DOMAIN b.invites \ {i} IN
         Done([b EXCEPT !.rev = NextRevision(b), !.invites = Only(@, left)], "administered")

\* Mutant of JoinBrain: the invitation is not consumed.
JoinBrainKeepsInvitation(b, i, m, device, now) ==
    IF ~HasNextRevision(b) THEN Fail("busy")
    ELSE IF i \notin LiveInvites(b, now) THEN Fail("rejected")
    ELSE IF Cardinality(DOMAIN b.members) >= MaxMembers THEN Fail("busy")
    ELSE Done([b EXCEPT !.rev = NextRevision(b),
                        !.members = Put(@, m, NewMember(device, NextRevision(b), now))], m)

(***************************************************************************)
(* Redeem invitation i for a device: consume it, and create member m.  The *)
(* code draws m at random after the checks; m = None when all are taken,   *)
(* which only happens above the limit.                                     *)
(***************************************************************************)
JoinBrain(b, i, m, device, now) ==
    IF ~HasNextRevision(b) THEN Fail("busy")
    ELSE IF i \notin LiveInvites(b, now) THEN Fail("rejected")
    ELSE IF Cardinality(DOMAIN b.members) >= MaxMembers THEN Fail("busy")
    ELSE LET left == DOMAIN b.invites \ {i} IN
         Done([b EXCEPT !.rev = NextRevision(b), !.invites = Only(@, left),
                        !.members = Put(@, m, NewMember(device, NextRevision(b), now))], m)

RevokeMember(b, m, expected) ==
    IF expected # b.rev THEN Fail("conflict")
    ELSE IF m \notin DOMAIN b.members \/ m = Owner THEN Fail("rejected")
    ELSE IF b.members[m].revoked THEN Done(b, "administered")
    ELSE IF ~HasNextRevision(b) THEN Fail("busy")
    ELSE Done([b EXCEPT !.rev = NextRevision(b),
                        !.members[m] = [@ EXCEPT !.revoked = TRUE, !.online = FALSE,
                                                 !.rev = NextRevision(b),
                                                 !.nodeRev = NextRevision(b)]],
              "administered")

\* Mutant of Heartbeat: the record of the node keeps its revision.
HeartbeatQuiet(b, m, expected, now) ==
    IF ~Authorized(b, m, now) THEN Fail("rejected")
    ELSE IF expected # b.rev THEN Fail("conflict")
    ELSE IF ~HasNextRevision(b) THEN Fail("busy")
    ELSE Done([b EXCEPT !.rev = NextRevision(b),
                        !.members[m] = [@ EXCEPT !.seen = now, !.online = TRUE]], "pulsed")

Heartbeat(b, m, expected, now) ==
    IF ~Authorized(b, m, now) THEN Fail("rejected")
    ELSE IF expected # b.rev THEN Fail("conflict")
    ELSE IF ~HasNextRevision(b) THEN Fail("busy")
    ELSE Done([b EXCEPT !.rev = NextRevision(b),
                        !.members[m] = [@ EXCEPT !.seen = now, !.online = TRUE,
                                                 !.nodeRev = NextRevision(b)]],
              "pulsed")

\* Which nodes are taken off line: all of them, or those not heard of lately.
AllOnline(b) == {m \in DOMAIN b.members : b.members[m].online}
ExpiredOnline(b, now) ==
    {m \in AllOnline(b) : b.members[m].seen = None \/ now - b.members[m].seen >= PresenceTtl}

\* Mutant of ResetPresence: the records of the nodes keep their revisions.
ResetPresenceQuiet(b, gone) ==
    IF gone = {} THEN Done(b, "reset")
    ELSE IF ~HasNextRevision(b) THEN Fail("busy")
    ELSE Done([b EXCEPT !.rev = NextRevision(b),
                        !.members = [m \in DOMAIN b.members |->
                                       [b.members[m] EXCEPT !.online = @ /\ m \notin gone]]],
              "reset")

ResetPresence(b, gone) ==
    IF gone = {} THEN Done(b, "reset")
    ELSE IF ~HasNextRevision(b) THEN Fail("busy")
    ELSE Done([b EXCEPT
                 !.rev = NextRevision(b),
                 !.members = [m \in DOMAIN b.members |->
                                IF m \in gone
                                THEN [b.members[m] EXCEPT !.online = FALSE,
                                                          !.nodeRev = NextRevision(b)]
                                ELSE b.members[m]]],
              "reset")

----------------------------------------------------------------------------
(* Messages of a member: an announcement of its Node, or a new task. *)

Replayed(b, m, key) == {r \in b.replays : r.node = m /\ r.key = key}

Announce(b, m, msg, now) ==
    LET beat == Heartbeat(b, m, msg.rev, now) IN
    IF beat.err # "none" THEN beat
    ELSE Done([beat.brain EXCEPT !.members[m].announced = msg.rev], NextRevision(b))

AddTask(b, m, msg) ==
    IF msg.payload \in DOMAIN b.tasks THEN Fail("conflict")
    ELSE IF Cardinality(DOMAIN b.tasks) >= MaxTasks THEN Fail("busy")
    ELSE Done([b EXCEPT
                 !.rev = NextRevision(b),
                 !.tasks = Put(@, msg.payload,
                               [creator |-> m, key |-> msg.key, source |-> msg.rev,
                                status |-> "draft", rev |-> NextRevision(b)])],
              NextRevision(b))

\* Mutant of Apply: the message is not entered in the ledger.
ApplyUnrecorded(b, m, msg, now) ==
    IF ~Authorized(b, m, now) THEN Fail("rejected")
    ELSE IF msg.rev # b.rev THEN Fail("conflict")
    ELSE IF ~HasNextRevision(b) THEN Fail("busy")
    ELSE IF msg.payload = "node" THEN Announce(b, m, msg, now) ELSE AddTask(b, m, msg)

\* A message whose key was seen is answered as before, or refused if it changed.
Apply(b, m, msg, now) ==
    LET effect == IF msg.payload = "node" THEN Announce(b, m, msg, now) ELSE AddTask(b, m, msg)
        entry == [node |-> m, key |-> msg.key, payload |-> msg.payload, rev |-> NextRevision(b)]
    IN  IF ~Authorized(b, m, now) THEN Fail("rejected")
        ELSE IF Replayed(b, m, msg.key) # {}
        THEN LET previous == CHOOSE r \in Replayed(b, m, msg.key) : TRUE IN
             IF previous.payload = msg.payload THEN Done(b, previous.rev) ELSE Fail("conflict")
        ELSE IF msg.rev # b.rev THEN Fail("conflict")
        ELSE IF Cardinality(b.replays) >= MaxReplays \/ ~HasNextRevision(b) THEN Fail("busy")
        ELSE IF effect.err # "none" THEN effect
        ELSE Done([effect.brain EXCEPT !.replays = @ \cup {entry}], effect.value)

StatusMoves ==
    {<<"draft", "offered">>, <<"draft", "cancelled">>,
     <<"offered", "accepted">>, <<"offered", "rejected">>, <<"offered", "cancelled">>,
     <<"accepted", "running">>, <<"accepted", "cancelled">>, <<"accepted", "outcomeUnknown">>,
     <<"running", "awaitingReview">>, <<"running", "failed">>, <<"running", "cancelled">>,
     <<"running", "outcomeUnknown">>,
     <<"awaitingReview", "approved">>, <<"awaitingReview", "rejected">>,
     <<"outcomeUnknown", "awaitingReview">>, <<"outcomeUnknown", "failed">>,
     <<"outcomeUnknown", "cancelled">>}

\* Mutant of SetTaskStatus: the record of the task keeps its revision.
SetTaskStatusQuiet(b, t, expected, next) ==
    IF expected # b.rev THEN Fail("conflict")
    ELSE IF t \notin DOMAIN b.tasks THEN Fail("rejected")
    ELSE IF b.tasks[t].status = next THEN Done(b, b.rev)
    ELSE IF <<b.tasks[t].status, next>> \notin StatusMoves THEN Fail("rejected")
    ELSE IF ~HasNextRevision(b) THEN Fail("busy")
    ELSE Done([b EXCEPT !.rev = NextRevision(b), !.tasks[t].status = next], NextRevision(b))

\* For the trusted coordinator on the Brain's own machine, never for a peer.
SetTaskStatus(b, t, expected, next) ==
    IF expected # b.rev THEN Fail("conflict")
    ELSE IF t \notin DOMAIN b.tasks THEN Fail("rejected")
    ELSE IF b.tasks[t].status = next THEN Done(b, b.rev)
    ELSE IF <<b.tasks[t].status, next>> \notin StatusMoves THEN Fail("rejected")
    ELSE IF ~HasNextRevision(b) THEN Fail("busy")
    ELSE Done([b EXCEPT !.rev = NextRevision(b),
                        !.tasks[t] = [@ EXCEPT !.status = next, !.rev = NextRevision(b)]],
              NextRevision(b))

----------------------------------------------------------------------------
(* What a member is shown, and the pages it is sent in. *)

MaxSharedRecords == 2 * MaxMembers + MaxTasks

\* The names of all records, in the order in which they are paged.
NameOrder ==
    [k \in 1..Len(MemberOrder) |-> <<"member", MemberOrder[k]>>]
    \o [k \in 1..Len(MemberOrder) |-> <<"node", MemberOrder[k]>>]
    \o [k \in 1..Len(TaskOrder) |-> <<"task", TaskOrder[k]>>]

\* The place of a name in that order, how many names of a set come before it, and
\* the name with a number of others before it.
Place(name) == CHOOSE k \in DOMAIN NameOrder : NameOrder[k] = name
Rank(S, name) == Cardinality({n \in S : Place(n) < Place(name)})
NameAt(S, offset) == CHOOSE n \in S : Rank(S, n) = offset

SharedNames(b, m) ==
    {<<"member", x>> : x \in DOMAIN b.members}
    \cup {<<"node", x>> : x \in DOMAIN b.members}
    \cup {<<"task", t>> : t \in {u \in DOMAIN b.tasks : b.tasks[u].creator = m}}

SharedRecord(b, name) ==
    CASE name[1] = "member" ->
            LET r == b.members[name[2]] IN
            [rev |-> r.rev, owner |-> name[2] = Owner, revoked |-> r.revoked]
      [] name[1] = "node" ->
            LET r == b.members[name[2]] IN
            [rev |-> r.nodeRev, member |-> name[2], device |-> r.device, online |-> r.online,
             seen |-> r.seen, announced |-> r.announced]
      [] name[1] = "task" ->
            LET r == b.tasks[name[2]] IN
            [rev |-> r.rev, sender |-> r.creator, source |-> r.source, status |-> r.status]

\* Page.validate, for a page that carries the record of a name.
PageValid(p) ==
    /\ p.at > 0 /\ p.after <= p.at /\ p.offset < MaxSharedRecords
    /\ p.next # None => p.next = p.offset + 1 /\ p.next < MaxSharedRecords
    /\ p.name = None => p.offset = 0 /\ p.next = None
    /\ p.name # None =>
         LET r == p.data IN
         /\ p.after < r.rev /\ r.rev <= p.at
         /\ p.name[1] = "node" => /\ r.online => r.seen # None
                                  /\ r.announced # None => r.announced < r.rev
         /\ p.name[1] = "task" => r.source < r.rev /\ r.sender = p.member

\* The page at an offset of the changes after a revision.
PageAt(b, m, req) ==
    LET changed == {n \in SharedNames(b, m) : SharedRecord(b, n).rev > req.after}
        name == IF changed = {} THEN None ELSE NameAt(changed, req.offset)
    IN  [member |-> m, after |-> req.after, at |-> b.rev, offset |-> req.offset,
         next |-> IF req.offset + 1 < Cardinality(changed) THEN req.offset + 1 ELSE None,
         name |-> name, data |-> IF name = None THEN None ELSE SharedRecord(b, name)]

\* Mutant of AtRevision: a later page is served at whatever revision.
AtAnyRevision(b, req) == TRUE

\* A request for a later page names the revision of the first, which still holds.
AtRevision(b, req) == req.at # None => req.at = b.rev

\* One record per page; presence is brought up to date first.
Reconcile(b0, m, req, now) ==
    LET reset == ResetPresence(b0, ExpiredOnline(b0, now)) IN
    IF ~Authorized(b0, m, now) THEN Fail("rejected")
    ELSE IF reset.err # "none" THEN reset
    ELSE LET b == reset.brain
             size == Cardinality({n \in SharedNames(b, m) : SharedRecord(b, n).rev > req.after})
         IN  IF req.after > b.rev \/ req.offset >= MaxSharedRecords
                 \/ (req.at = None /\ req.offset # 0)
             THEN Fail("rejected")
             ELSE IF ~AtRevision(b, req) THEN Fail("conflict")
             ELSE IF req.offset # 0 /\ req.offset >= size THEN Fail("rejected")
             ELSE IF ~PageValid(PageAt(b, m, req)) THEN Fail("rejected")
             ELSE Done(b, PageAt(b, m, req))

----------------------------------------------------------------------------
(* validate and validate_tasks_and_replays, which every save and load runs. *)

MemberValid(b, m) ==
    LET r == b.members[m] IN
    /\ 0 < r.rev /\ r.rev <= b.rev
    /\ 0 < r.nodeRev /\ r.nodeRev <= b.rev
    /\ r.online => ~r.revoked /\ r.seen # None
    /\ r.seen # None => r.seen <= b.clock
    /\ r.announced # None => r.announced < r.nodeRev

\* No credential and no invitation was issued after the time the clock has seen.
IssuedBefore(b) ==
    /\ \A m \in DOMAIN b.members : b.members[m].expires - CredentialTtl <= b.clock
    /\ \A i \in DOMAIN b.invites : b.invites[i] - InviteTtl <= b.clock

ReplayValid(b, r) ==
    /\ r.node \in DOMAIN b.members
    /\ 0 < r.rev /\ r.rev <= b.rev
    /\ \A q \in b.replays \ {r} :
         q.rev # r.rev /\ <<q.node, q.key>> # <<r.node, r.key>>

TaskValid(b, t) ==
    LET r == b.tasks[t] IN
    /\ r.source < r.rev /\ r.rev <= b.rev
    /\ r.creator \in DOMAIN b.members
    /\ [node |-> r.creator, key |-> r.key, payload |-> t, rev |-> r.source + 1] \in b.replays

Valid(b) ==
    /\ 0 < b.rev /\ b.rev <= MaxRevision
    /\ Cardinality(DOMAIN b.members) <= MaxMembers
    /\ Cardinality(DOMAIN b.invites) <= MaxInvites
    /\ Cardinality(DOMAIN b.tasks) <= MaxTasks
    /\ Cardinality(b.replays) <= MaxReplays
    /\ Owner \in DOMAIN b.members /\ ~b.members[Owner].revoked
    /\ \A m \in DOMAIN b.members : MemberValid(b, m)
    /\ IssuedBefore(b)
    /\ \A r \in b.replays : ReplayValid(b, r)
    /\ \A t \in DOMAIN b.tasks : TaskValid(b, t)
=============================================================================

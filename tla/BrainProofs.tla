---------------------------- MODULE BrainProofs ----------------------------
(***************************************************************************)
(* What the operations of the Brain keep, for every set of members, tasks  *)
(* and messages and for every limit.  An operation that succeeds takes a   *)
(* good Brain to a good Brain, one that validate accepts, and the new one  *)
(* has grown from the old: nothing is taken away, what changed carries the *)
(* new revision, and nothing was done in the name of a member whose access *)
(* had ended.  One lemma per operation says so; the module about the whole *)
(* collaboration builds on them.                                           *)
(***************************************************************************)
EXTENDS Brain, FiniteSetTheorems, TLAPS

Partial(K, V) == UNION {[S -> V] : S \in SUBSET K}

Brains ==
    [rev : Nat, clock : Nat,
     members : Partial(Members, MemberRecords), invites : Partial(Invites, Nat),
     tasks : Partial(TaskIds, TaskRecords), replays : SUBSET ReplayRecords]

Finite(b) ==
    /\ IsFiniteSet(DOMAIN b.members) /\ IsFiniteSet(DOMAIN b.invites)
    /\ IsFiniteSet(DOMAIN b.tasks) /\ IsFiniteSet(b.replays)

\* A task that the ledger knows is there, and belongs to the member that sent it.
LedgerKept(b) ==
    \A r \in b.replays :
        r.payload \in TaskIds =>
            r.payload \in DOMAIN b.tasks /\ b.tasks[r.payload].creator = r.node

GoodBrain(b) ==
    /\ b \in Brains /\ Finite(b) /\ Valid(b)
    /\ b.members[Owner].device = OwnerDevice
    /\ LedgerKept(b)

\* The part of a member's record that its Node is shown with.
SameNode(x, y) ==
    /\ y.nodeRev = x.nodeRev /\ y.online = x.online
    /\ y.seen = x.seen /\ y.announced = x.announced

MemberGrows(b, c, m) ==
    LET x == b.members[m]
        y == c.members[m] IN
    /\ y.device = x.device /\ y.expires = x.expires
    /\ (y.rev = x.rev /\ y.revoked = x.revoked) \/ (y.rev = c.rev /\ b.rev < c.rev)
    /\ SameNode(x, y) \/ (y.nodeRev = c.rev /\ b.rev < c.rev)
    /\ x.revoked => y = x
    /\ b.clock >= x.expires => y.seen = x.seen /\ y.announced = x.announced

MembersGrow(b, c) ==
    /\ DOMAIN b.members \subseteq DOMAIN c.members
    /\ \A m \in DOMAIN b.members : MemberGrows(b, c, m)
    /\ \A m \in DOMAIN c.members \ DOMAIN b.members :
          c.members[m].rev = c.rev /\ c.members[m].nodeRev = c.rev /\ b.rev < c.rev

TasksGrow(b, c) ==
    /\ DOMAIN b.tasks \subseteq DOMAIN c.tasks
    /\ \A t \in DOMAIN b.tasks :
          /\ c.tasks[t].creator = b.tasks[t].creator
          /\ c.tasks[t] = b.tasks[t] \/ (c.tasks[t].rev = c.rev /\ b.rev < c.rev)
    /\ \A t \in DOMAIN c.tasks \ DOMAIN b.tasks : c.tasks[t].rev = c.rev /\ b.rev < c.rev

\* Only a member with access adds to the ledger.
LedgerGrows(b, c) ==
    /\ b.replays \subseteq c.replays
    /\ \A r \in c.replays \ b.replays : Authorized(b, r.node, b.clock)

Grows(b, c) ==
    /\ b.rev <= c.rev /\ b.clock <= c.clock
    /\ MembersGrow(b, c) /\ TasksGrow(b, c) /\ LedgerGrows(b, c)

\* A good Brain that has grown from b.
Moved(b, c) == GoodBrain(c) /\ Grows(b, c)

\* Neither members nor invitations come or go.
SameRoll(b, c) == DOMAIN c.members = DOMAIN b.members /\ c.invites = b.invites

-----------------------------------------------------------------------------
(***************************************************************************)
(* Functions with a domain that varies.                                    *)
(***************************************************************************)

\* A partial function is one on the set where it is defined.
LEMMA PartialIsFunction ==
    ASSUME NEW K, NEW V, NEW f
    PROVE  f \in Partial(K, V) <=> DOMAIN f \subseteq K /\ f \in [DOMAIN f -> V]
  <1>1. ASSUME f \in Partial(K, V)
        PROVE  DOMAIN f \subseteq K /\ f \in [DOMAIN f -> V]
    <2>1. PICK S \in SUBSET K : f \in [S -> V]
      BY <1>1 DEF Partial
    <2> QED
      BY <2>1
  <1>2. ASSUME DOMAIN f \subseteq K, f \in [DOMAIN f -> V]
        PROVE  f \in Partial(K, V)
    BY <1>2 DEF Partial
  <1> QED
    BY <1>1, <1>2

\* Put adds or replaces one entry.
LEMMA PutPartial ==
    ASSUME NEW K, NEW V, NEW f \in Partial(K, V), NEW k \in K, NEW v \in V
    PROVE  /\ Put(f, k, v) \in Partial(K, V)
           /\ DOMAIN Put(f, k, v) = DOMAIN f \cup {k}
           /\ Put(f, k, v)[k] = v
           /\ \A x \in DOMAIN f \ {k} : Put(f, k, v)[x] = f[x]
  <1>1. DOMAIN f \subseteq K /\ f \in [DOMAIN f -> V]
    BY PartialIsFunction
  <1>2. DOMAIN Put(f, k, v) = DOMAIN f \cup {k}
    BY DEF Put
  <1>3. \A x \in DOMAIN f \cup {k} : Put(f, k, v)[x] = IF x = k THEN v ELSE f[x]
    BY DEF Put
  <1>4. Put(f, k, v) \in [DOMAIN f \cup {k} -> V]
    BY <1>1 DEF Put
  <1> QED
    BY <1>1, <1>2, <1>3, <1>4, PartialIsFunction

\* Only keeps some of the entries.
LEMMA OnlyPartial ==
    ASSUME NEW K, NEW V, NEW f \in Partial(K, V), NEW S
    PROVE  /\ Only(f, S) \in Partial(K, V)
           /\ DOMAIN Only(f, S) = DOMAIN f \cap S
           /\ \A x \in DOMAIN f \cap S : Only(f, S)[x] = f[x]
  <1>1. DOMAIN f \subseteq K /\ f \in [DOMAIN f -> V]
    BY PartialIsFunction
  <1>2. Only(f, S) \in [DOMAIN f \cap S -> V] /\ DOMAIN Only(f, S) = DOMAIN f \cap S
    BY <1>1 DEF Only
  <1> QED
    BY <1>1, <1>2, PartialIsFunction DEF Only

\* The types that a good Brain's parts have.
LEMMA BrainTypes ==
    ASSUME NEW b, b \in Brains
    PROVE  /\ b.rev \in Nat /\ b.clock \in Nat
           /\ b.members \in Partial(Members, MemberRecords)
           /\ DOMAIN b.members \subseteq Members
           /\ b.members \in [DOMAIN b.members -> MemberRecords]
           /\ b.invites \in Partial(Invites, Nat)
           /\ DOMAIN b.invites \subseteq Invites
           /\ b.invites \in [DOMAIN b.invites -> Nat]
           /\ b.tasks \in Partial(TaskIds, TaskRecords)
           /\ DOMAIN b.tasks \subseteq TaskIds
           /\ b.tasks \in [DOMAIN b.tasks -> TaskRecords]
           /\ b.replays \subseteq ReplayRecords
  <1>1. /\ b.rev \in Nat /\ b.clock \in Nat
        /\ b.members \in Partial(Members, MemberRecords)
        /\ b.invites \in Partial(Invites, Nat)
        /\ b.tasks \in Partial(TaskIds, TaskRecords)
        /\ b.replays \subseteq ReplayRecords
    BY DEF Brains
  <1> QED
    BY <1>1, PartialIsFunction

-----------------------------------------------------------------------------
(***************************************************************************)
(* What a good Brain is made of, and when a changed one is good.           *)
(***************************************************************************)

\* The facts of validate, one by one.
LEMMA GoodFacts ==
    ASSUME NEW b, GoodBrain(b)
    PROVE  /\ b \in Brains /\ Finite(b)
           /\ 0 < b.rev /\ b.rev <= MaxRevision
           /\ Cardinality(DOMAIN b.members) <= MaxMembers
           /\ Cardinality(DOMAIN b.invites) <= MaxInvites
           /\ Cardinality(DOMAIN b.tasks) <= MaxTasks
           /\ Cardinality(b.replays) <= MaxReplays
           /\ Owner \in DOMAIN b.members /\ ~b.members[Owner].revoked
           /\ b.members[Owner].device = OwnerDevice
           /\ \A m \in DOMAIN b.members : MemberValid(b, m)
           /\ IssuedBefore(b)
           /\ \A r \in b.replays : ReplayValid(b, r)
           /\ \A t \in DOMAIN b.tasks : TaskValid(b, t)
           /\ LedgerKept(b)
  BY DEF GoodBrain, Valid

\* The limits are numbers.
LEMMA Limits ==
    /\ MaxRevision \in Nat \ {0} /\ MaxMembers \in Nat \ {0}
    /\ MaxInvites \in Nat /\ MaxTasks \in Nat /\ MaxReplays \in Nat
    /\ CredentialTtl \in Nat \ {0} /\ InviteTtl \in Nat \ {0} /\ PresenceTtl \in Nat \ {0}
    /\ Owner \in Members /\ OwnerDevice \in Devices
    /\ None \notin Nat /\ None \notin Members /\ "node" \notin TaskIds
  BY BrainAssumption DEF BrainAssumption

\* A change to records of members only: their number, the invitations, the tasks
\* and the ledger stay.
LEMMA MembersChange ==
    ASSUME NEW b, GoodBrain(b), NEW M \in [DOMAIN b.members -> MemberRecords],
           NEW r \in Nat, b.rev <= r, r <= MaxRevision,
           NEW c, c = [b EXCEPT !.rev = r, !.members = M],
           \A m \in DOMAIN b.members : MemberValid(c, m) /\ MemberGrows(b, c, m),
           ~M[Owner].revoked
    PROVE  Moved(b, c) /\ SameRoll(b, c)
  <1>1. b \in Brains
    BY DEF GoodBrain
  <1>2. M \in Partial(Members, MemberRecords) /\ DOMAIN M = DOMAIN b.members
    BY <1>1, BrainTypes, PartialIsFunction
  <1>3. /\ c.rev = r /\ c.members = M /\ c.clock = b.clock
        /\ c.invites = b.invites /\ c.tasks = b.tasks /\ c.replays = b.replays
    BY <1>1 DEF Brains
  <1>4. c \in Brains
    BY <1>1, <1>2 DEF Brains
  <1>5. Finite(c)
    BY <1>2, <1>3 DEF GoodBrain, Finite
  <1> USE <1>1, <1>2, <1>3, GoodFacts, BrainTypes
  <1>6. Owner \in DOMAIN c.members /\ c.members[Owner].device = OwnerDevice
    BY DEF MemberGrows
  <1>7. IssuedBefore(c)
    BY DEF IssuedBefore, MemberGrows
  <1>8. \A q \in c.replays : ReplayValid(c, q)
    <2> SUFFICES ASSUME NEW q \in c.replays PROVE ReplayValid(c, q)
      OBVIOUS
    <2>1. ReplayValid(b, q) /\ q.rev \in Nat
      BY DEF ReplayRecords
    <2> QED
      BY <2>1 DEF ReplayValid
  <1>9. \A t \in DOMAIN c.tasks : TaskValid(c, t)
    <2> SUFFICES ASSUME NEW t \in DOMAIN c.tasks PROVE TaskValid(c, t)
      OBVIOUS
    <2>1. TaskValid(b, t) /\ b.tasks[t].rev \in Nat
      BY DEF TaskRecords
    <2> QED
      BY <2>1 DEF TaskValid
  <1>10. Valid(c)
    BY <1>6, <1>7, <1>8, <1>9, 0 < r DEF Valid
  <1>11. LedgerKept(c)
    BY DEF LedgerKept
  <1>12. GoodBrain(c)
    BY <1>4, <1>5, <1>6, <1>10, <1>11 DEF GoodBrain
  <1>13. MembersGrow(b, c)
    BY DEF MembersGrow
  <1>14. TasksGrow(b, c) /\ LedgerGrows(b, c)
    BY DEF TasksGrow, LedgerGrows
  <1> QED
    BY <1>12, <1>13, <1>14 DEF Moved, Grows, SameRoll

\* The time may be observed: nothing else changes.
LEMMA ObservedMoves ==
    ASSUME NEW b, GoodBrain(b), NEW now \in Nat, CanObserve(b, now)
    PROVE  /\ Moved(b, Observed(b, now)) /\ SameRoll(b, Observed(b, now))
           /\ Observed(b, now).clock = now
           /\ Observed(b, now) = [b EXCEPT !.clock = now]
  <1> DEFINE c == Observed(b, now)
  <1>1. b \in Brains
    BY DEF GoodBrain
  <1>2. /\ c.clock = now /\ c.rev = b.rev /\ c.members = b.members
        /\ c.invites = b.invites /\ c.tasks = b.tasks /\ c.replays = b.replays
    BY <1>1 DEF Brains, Observed
  <1>3. c \in Brains
    BY <1>1 DEF Brains, Observed
  <1>4. now >= b.clock /\ b.clock \in Nat
    BY <1>1, BrainTypes DEF CanObserve
  <1> HIDE DEF c
  <1> USE <1>1, <1>2, <1>4, GoodFacts, BrainTypes
  <1>5. \A m \in DOMAIN c.members : MemberValid(c, m)
    <2> SUFFICES ASSUME NEW m \in DOMAIN b.members PROVE MemberValid(c, m)
      OBVIOUS
    <2>1. MemberValid(b, m) /\ b.members[m].seen \in Nat \cup {None}
      BY DEF MemberRecords
    <2> QED
      BY <2>1 DEF MemberValid
  <1>6. IssuedBefore(c)
    <2>1. IssuedBefore(b)
      OBVIOUS
    <2>2. \A m \in DOMAIN b.members : b.members[m].expires \in Nat
      BY DEF MemberRecords
    <2>3. \A i \in DOMAIN b.invites : b.invites[i] \in Nat
      OBVIOUS
    <2> QED
      BY <2>1, <2>2, <2>3, Limits DEF IssuedBefore
  <1>7. \A q \in c.replays : ReplayValid(c, q)
    BY DEF ReplayValid
  <1>8. \A t \in DOMAIN c.tasks : TaskValid(c, t)
    BY DEF TaskValid
  <1>9. Valid(c)
    BY <1>5, <1>6, <1>7, <1>8 DEF Valid
  <1>10. Finite(c) /\ LedgerKept(c)
    BY DEF Finite, LedgerKept
  <1>11. GoodBrain(c)
    BY <1>3, <1>9, <1>10 DEF GoodBrain
  <1>12. MembersGrow(b, c) /\ TasksGrow(b, c) /\ LedgerGrows(b, c)
    BY DEF MembersGrow, MemberGrows, SameNode, TasksGrow, LedgerGrows
  <1> QED
    BY <1>11, <1>12 DEF Moved, Grows, SameRoll, c, Observed

\* What grew from the Brain with the time observed grew from the Brain.
LEMMA GrownSinceObserved ==
    ASSUME NEW b, GoodBrain(b), NEW now \in Nat, CanObserve(b, now),
           NEW c, Moved(Observed(b, now), c)
    PROVE  Moved(b, c)
  <1> DEFINE a == Observed(b, now)
  <1>1. b \in Brains /\ c \in Brains
    BY DEF GoodBrain, Moved
  <1>2. /\ a.clock = now /\ a.rev = b.rev /\ a.members = b.members
        /\ a.invites = b.invites /\ a.tasks = b.tasks /\ a.replays = b.replays
    BY <1>1 DEF Brains, Observed
  <1>3. now >= b.clock /\ b.clock \in Nat /\ c.clock \in Nat
    BY <1>1, BrainTypes DEF CanObserve
  <1>4. Grows(a, c)
    BY DEF Moved
  <1> HIDE DEF a
  <1>5. \A m \in DOMAIN b.members : MemberGrows(b, c, m)
    <2> SUFFICES ASSUME NEW m \in DOMAIN b.members PROVE MemberGrows(b, c, m)
      OBVIOUS
    <2>1. MemberGrows(a, c, m)
      BY <1>2, <1>4 DEF Grows, MembersGrow
    <2>2. b.members[m].expires \in Nat
      BY <1>1, BrainTypes DEF MemberRecords
    <2> QED
      BY <1>2, <1>3, <2>1, <2>2 DEF MemberGrows
  <1>6. MembersGrow(b, c)
    BY <1>2, <1>4, <1>5 DEF Grows, MembersGrow
  <1>7. TasksGrow(b, c)
    BY <1>2, <1>4 DEF Grows, TasksGrow
  <1>8. LedgerGrows(b, c)
    <2> SUFFICES ASSUME NEW r \in c.replays \ b.replays PROVE Authorized(b, r.node, b.clock)
      BY <1>2, <1>4 DEF Grows, LedgerGrows
    <2>1. Authorized(a, r.node, now)
      BY <1>2, <1>4 DEF Grows, LedgerGrows
    <2>2. r.node \in DOMAIN b.members => b.members[r.node].expires \in Nat
      BY <1>1, BrainTypes DEF MemberRecords
    <2> QED
      BY <1>2, <1>3, <2>1, <2>2 DEF Authorized
  <1> QED
    BY <1>2, <1>3, <1>4, <1>6, <1>7, <1>8 DEF Moved, Grows

-----------------------------------------------------------------------------
(***************************************************************************)
(* Operations on the records of members.                                   *)
(***************************************************************************)

\* The record a heartbeat leaves is valid, and that of a member with access.
LEMMA PulsedMember ==
    ASSUME NEW b, GoodBrain(b), NEW m, Authorized(b, m, b.clock), HasNextRevision(b),
           NEW y \in MemberRecords,
           y.device = b.members[m].device, y.expires = b.members[m].expires,
           y.rev = b.members[m].rev, y.revoked = b.members[m].revoked,
           y.seen = b.clock, y.online, y.nodeRev = NextRevision(b),
           y.announced = b.members[m].announced \/ y.announced = b.rev,
           NEW c, c = [b EXCEPT !.rev = NextRevision(b), !.members = [@ EXCEPT ![m] = y]]
    PROVE  Moved(b, c) /\ SameRoll(b, c)
  <1>1. b \in Brains /\ m \in DOMAIN b.members /\ ~b.members[m].revoked
        /\ b.clock < b.members[m].expires
    BY DEF GoodBrain, Authorized
  <1> DEFINE M == [b.members EXCEPT ![m] = y]
  <1>2. M \in [DOMAIN b.members -> MemberRecords]
    BY <1>1, BrainTypes
  <1>3. b.rev + 1 \in Nat /\ b.rev <= b.rev + 1 /\ b.rev + 1 <= MaxRevision
    BY <1>1, BrainTypes DEF HasNextRevision
  <1>4. c = [b EXCEPT !.rev = b.rev + 1, !.members = M]
    BY DEF NextRevision
  <1>5. c.rev = b.rev + 1 /\ c.members = M /\ c.clock = b.clock
    BY <1>1, <1>4 DEF Brains
  <1>6. \A x \in DOMAIN b.members : MemberValid(c, x)
    <2> SUFFICES ASSUME NEW x \in DOMAIN b.members PROVE MemberValid(c, x)
      OBVIOUS
    <2>1. MemberValid(b, x) /\ b.members[x] \in MemberRecords
      BY <1>1, GoodFacts, BrainTypes
    <2>2. MemberValid(b, m) /\ b.members[m] \in MemberRecords
      BY <1>1, GoodFacts, BrainTypes
    <2>3. b.rev \in Nat /\ b.clock \in Nat /\ None \notin Nat
      BY <1>1, BrainTypes, Limits
    <2>4. CASE x = m
      <3>1. c.members[x] = y
        BY <1>2, <1>5, <2>4
      <3>2. y.announced # None => y.announced < y.nodeRev
        BY <2>2, <2>3 DEF MemberValid, MemberRecords, NextRevision
      <3>3. 0 < y.rev /\ y.rev <= b.rev + 1 /\ 0 < y.nodeRev /\ y.nodeRev <= b.rev + 1
        BY <2>2, <2>3 DEF MemberValid, MemberRecords, NextRevision
      <3> QED
        BY <1>1, <1>5, <2>3, <3>1, <3>2, <3>3 DEF MemberValid
    <2>5. CASE x # m
      <3>1. c.members[x] = b.members[x]
        BY <1>5, <2>5
      <3> QED
        BY <1>5, <2>1, <2>3, <3>1 DEF MemberValid, MemberRecords
    <2> QED
      BY <2>4, <2>5
  <1>7. \A x \in DOMAIN b.members : MemberGrows(b, c, x)
    <2> SUFFICES ASSUME NEW x \in DOMAIN b.members PROVE MemberGrows(b, c, x)
      OBVIOUS
    <2>1. b.members[m].expires \in Nat /\ b.clock \in Nat /\ b.rev \in Nat
      BY <1>1, BrainTypes DEF MemberRecords
    <2>2. CASE x = m
      <3>1. c.members[x] = y
        BY <1>2, <1>5, <2>2
      <3> QED
        BY <1>1, <1>5, <2>1, <2>2, <3>1 DEF MemberGrows, NextRevision
    <2>3. CASE x # m
      <3>1. c.members[x] = b.members[x]
        BY <1>5, <2>3
      <3> QED
        BY <3>1 DEF MemberGrows, SameNode
    <2> QED
      BY <2>2, <2>3
  <1>8. ~M[Owner].revoked
    BY <1>1, <1>2, GoodFacts
  <1> HIDE DEF M
  <1> QED
    BY <1>2, <1>3, <1>4, <1>6, <1>7, <1>8, MembersChange

\* A heartbeat.
LEMMA HeartbeatMoves ==
    ASSUME NEW b, GoodBrain(b), NEW m, NEW expected,
           Heartbeat(b, m, expected, b.clock).err = "none"
    PROVE  /\ Moved(b, Heartbeat(b, m, expected, b.clock).brain)
           /\ SameRoll(b, Heartbeat(b, m, expected, b.clock).brain)
  <1>1. Authorized(b, m, b.clock) /\ expected = b.rev /\ HasNextRevision(b)
    BY DEF Heartbeat, Fail
  <1> DEFINE y == [b.members[m] EXCEPT !.seen = b.clock, !.online = TRUE,
                                       !.nodeRev = NextRevision(b)]
             c == [b EXCEPT !.rev = NextRevision(b), !.members = [@ EXCEPT ![m] = y]]
  <1>2. Heartbeat(b, m, expected, b.clock).brain = c
    BY <1>1 DEF Heartbeat, Done
  <1>3. b.members[m] \in MemberRecords /\ b.clock \in Nat /\ NextRevision(b) \in Nat
    BY <1>1, BrainTypes DEF GoodBrain, Authorized, NextRevision
  <1>4. /\ y \in MemberRecords /\ y.device = b.members[m].device
        /\ y.expires = b.members[m].expires /\ y.rev = b.members[m].rev
        /\ y.revoked = b.members[m].revoked /\ y.seen = b.clock /\ y.online
        /\ y.nodeRev = NextRevision(b) /\ y.announced = b.members[m].announced
    BY <1>3 DEF MemberRecords
  <1> HIDE DEF y
  <1>5. Moved(b, c) /\ SameRoll(b, c)
    BY <1>1, <1>4, PulsedMember
  <1> QED
    BY <1>2, <1>5

\* The announcement of a Node.
LEMMA AnnounceMoves ==
    ASSUME NEW b, GoodBrain(b), NEW m, NEW msg, msg.rev = b.rev,
           Announce(b, m, msg, b.clock).err = "none"
    PROVE  /\ Moved(b, Announce(b, m, msg, b.clock).brain)
           /\ SameRoll(b, Announce(b, m, msg, b.clock).brain)
           /\ Announce(b, m, msg, b.clock).value = NextRevision(b)
           /\ Announce(b, m, msg, b.clock).brain.rev = NextRevision(b)
           /\ Announce(b, m, msg, b.clock).brain.replays = b.replays
           /\ Announce(b, m, msg, b.clock).brain.tasks = b.tasks
  <1> DEFINE beat == Heartbeat(b, m, msg.rev, b.clock)
             z == [b.members[m] EXCEPT !.seen = b.clock, !.online = TRUE,
                                       !.nodeRev = NextRevision(b)]
             y == [z EXCEPT !.announced = msg.rev]
             c == [b EXCEPT !.rev = NextRevision(b), !.members = [@ EXCEPT ![m] = y]]
  <1>1. beat.err = "none"
    BY DEF Announce
  <1>2. Authorized(b, m, b.clock) /\ HasNextRevision(b)
    BY <1>1 DEF Heartbeat, Fail
  <1>3. beat.brain = [b EXCEPT !.rev = NextRevision(b), !.members = [@ EXCEPT ![m] = z]]
    BY <1>1, <1>2 DEF Heartbeat, Done
  <1>4. b \in Brains /\ m \in DOMAIN b.members
    BY <1>2 DEF GoodBrain, Authorized
  <1>5. b.members \in [DOMAIN b.members -> MemberRecords]
    BY <1>4, BrainTypes
  <1>6. [beat.brain EXCEPT !.members[m].announced = msg.rev] = c
    <2>1. /\ DOMAIN beat.brain = {"rev", "clock", "members", "invites", "tasks", "replays"}
          /\ beat.brain.members = [b.members EXCEPT ![m] = z]
          /\ beat.brain.rev = NextRevision(b) /\ beat.brain.clock = b.clock
          /\ beat.brain.invites = b.invites /\ beat.brain.tasks = b.tasks
          /\ beat.brain.replays = b.replays
      BY <1>3, <1>4 DEF Brains
    <2>2. [beat.brain.members EXCEPT ![m].announced = msg.rev] = [b.members EXCEPT ![m] = y]
      BY <1>4, <1>5, <2>1
    <2> QED
      BY <1>3, <1>4, <2>1, <2>2 DEF Brains
  <1>7. Announce(b, m, msg, b.clock) = Done(c, NextRevision(b))
    BY <1>1, <1>6 DEF Announce
  <1>8. b.members[m] \in MemberRecords /\ b.clock \in Nat /\ NextRevision(b) \in Nat
        /\ msg.rev \in Nat
    BY <1>4, BrainTypes DEF NextRevision
  <1>9. /\ y \in MemberRecords /\ y.device = b.members[m].device
        /\ y.expires = b.members[m].expires /\ y.rev = b.members[m].rev
        /\ y.revoked = b.members[m].revoked /\ y.seen = b.clock /\ y.online
        /\ y.nodeRev = NextRevision(b) /\ y.announced = b.rev
    BY <1>8 DEF MemberRecords
  <1> HIDE DEF y
  <1>10. Moved(b, c) /\ SameRoll(b, c)
    BY <1>2, <1>9, PulsedMember
  <1>11. c.rev = NextRevision(b) /\ c.replays = b.replays /\ c.tasks = b.tasks
    BY <1>4 DEF Brains
  <1>12. /\ Announce(b, m, msg, b.clock).brain = c
         /\ Announce(b, m, msg, b.clock).value = NextRevision(b)
    BY <1>7 DEF Done
  <1> HIDE DEF c
  <1> QED
    BY <1>10, <1>11, <1>12

\* Nodes are taken off line; those that are on line have access or had it.
LEMMA ResetPresenceMoves ==
    ASSUME NEW b, GoodBrain(b), NEW gone \in SUBSET AllOnline(b),
           ResetPresence(b, gone).err = "none"
    PROVE  /\ Moved(b, ResetPresence(b, gone).brain)
           /\ SameRoll(b, ResetPresence(b, gone).brain)
           /\ ResetPresence(b, gone).brain.replays = b.replays
  <1>1. b \in Brains
    BY DEF GoodBrain
  <1>2. CASE gone = {}
    <2>1. ResetPresence(b, gone).brain = b
      BY <1>2 DEF ResetPresence, Done
    <2>2. MembersGrow(b, b) /\ TasksGrow(b, b) /\ LedgerGrows(b, b)
      BY DEF MembersGrow, MemberGrows, SameNode, TasksGrow, LedgerGrows
    <2> QED
      BY <1>1, <2>1, <2>2, BrainTypes DEF Moved, Grows, SameRoll
  <1>3. CASE gone # {}
    <2>1. HasNextRevision(b)
      BY <1>3 DEF ResetPresence, Fail
    <2> DEFINE M == [m \in DOMAIN b.members |->
                       IF m \in gone
                       THEN [b.members[m] EXCEPT !.online = FALSE, !.nodeRev = NextRevision(b)]
                       ELSE b.members[m]]
               c == [b EXCEPT !.rev = NextRevision(b), !.members = M]
    <2>2. ResetPresence(b, gone).brain = c
      BY <1>3, <2>1 DEF ResetPresence, Done
    <2>3. NextRevision(b) \in Nat /\ b.rev <= NextRevision(b) /\ NextRevision(b) <= MaxRevision
          /\ b.rev < NextRevision(b) /\ b.rev \in Nat /\ b.clock \in Nat
      BY <1>1, <2>1, BrainTypes DEF NextRevision, HasNextRevision
    <2>4. \A m \in DOMAIN b.members : b.members[m] \in MemberRecords
      BY <1>1, BrainTypes
    <2>5. M \in [DOMAIN b.members -> MemberRecords]
      BY <2>3, <2>4 DEF MemberRecords
    <2>6. c.rev = NextRevision(b) /\ c.members = M /\ c.clock = b.clock /\ c.replays = b.replays
      BY <1>1 DEF Brains
    <2>a. \A m \in DOMAIN b.members :
            /\ m \in gone => M[m] = [b.members[m] EXCEPT !.online = FALSE,
                                                         !.nodeRev = NextRevision(b)]
            /\ m \notin gone => M[m] = b.members[m]
      OBVIOUS
    <2> HIDE DEF M, c
    <2>7. \A m \in DOMAIN b.members : MemberValid(c, m) /\ MemberGrows(b, c, m)
      <3> SUFFICES ASSUME NEW m \in DOMAIN b.members
                   PROVE  MemberValid(c, m) /\ MemberGrows(b, c, m)
        OBVIOUS
      <3>1. MemberValid(b, m) /\ b.members[m] \in MemberRecords
        BY <2>4, GoodFacts
      <3>2. CASE m \in gone
        <4>1. c.members[m] = [b.members[m] EXCEPT !.online = FALSE, !.nodeRev = NextRevision(b)]
          BY <2>6, <2>a, <3>2
        <4>2. PICK y \in MemberRecords : y = c.members[m]
          BY <2>5, <2>6
        <4>3. /\ y.device = b.members[m].device /\ y.expires = b.members[m].expires
              /\ y.rev = b.members[m].rev /\ y.revoked = b.members[m].revoked
              /\ y.seen = b.members[m].seen /\ ~y.online
              /\ y.nodeRev = NextRevision(b) /\ y.announced = b.members[m].announced
          BY <3>1, <4>1, <4>2 DEF MemberRecords
        <4>4. b.members[m].online /\ ~b.members[m].revoked
          BY <3>1, <3>2 DEF AllOnline, MemberValid
        <4>5. MemberGrows(b, c, m)
          BY <2>3, <2>6, <4>2, <4>3, <4>4 DEF MemberGrows
        <4>6. y.announced # None => y.announced < y.nodeRev
          BY <2>3, <3>1, <4>3, Limits DEF MemberValid, MemberRecords
        <4>7. 0 < y.rev /\ y.rev <= c.rev /\ 0 < y.nodeRev /\ y.nodeRev <= c.rev
          BY <2>3, <2>6, <3>1, <4>3, GoodFacts DEF MemberValid, MemberRecords
        <4> QED
          BY <2>6, <3>1, <4>2, <4>3, <4>5, <4>6, <4>7 DEF MemberValid
      <3>3. CASE m \notin gone
        <4>1. c.members[m] = b.members[m]
          BY <2>6, <2>a, <3>3
        <4>2. MemberValid(c, m)
          BY <2>3, <2>6, <3>1, <4>1 DEF MemberValid, MemberRecords
        <4> QED
          BY <4>1, <4>2 DEF MemberGrows, SameNode
      <3> QED
        BY <3>2, <3>3
    <2>8. ~M[Owner].revoked
      <3>1. Owner \in DOMAIN b.members /\ ~b.members[Owner].revoked
        BY GoodFacts
      <3> QED
        BY <3>1, <2>4, <2>a, ZenonT(40) DEF MemberRecords
    <2>9. Moved(b, c) /\ SameRoll(b, c)
      BY <2>3, <2>5, <2>7, <2>8, MembersChange DEF c
    <2> QED
      BY <2>2, <2>6, <2>9
  <1> QED
    BY <1>2, <1>3

\* A member is revoked, never the owner.
LEMMA RevokeMemberMoves ==
    ASSUME NEW b, GoodBrain(b), NEW m, NEW expected, RevokeMember(b, m, expected).err = "none"
    PROVE  /\ Moved(b, RevokeMember(b, m, expected).brain)
           /\ SameRoll(b, RevokeMember(b, m, expected).brain)
  <1>1. b \in Brains /\ m \in DOMAIN b.members /\ m # Owner /\ expected = b.rev
    BY DEF GoodBrain, RevokeMember, Fail
  <1>2. CASE b.members[m].revoked
    <2>1. RevokeMember(b, m, expected).brain = b
      BY <1>1, <1>2 DEF RevokeMember, Done
    <2>2. MembersGrow(b, b) /\ TasksGrow(b, b) /\ LedgerGrows(b, b)
      BY DEF MembersGrow, MemberGrows, SameNode, TasksGrow, LedgerGrows
    <2> QED
      BY <1>1, <2>1, <2>2, BrainTypes DEF Moved, Grows, SameRoll
  <1>3. CASE ~b.members[m].revoked
    <2>1. HasNextRevision(b)
      BY <1>1, <1>3 DEF RevokeMember, Fail
    <2> DEFINE y == [b.members[m] EXCEPT !.revoked = TRUE, !.online = FALSE,
                                         !.rev = NextRevision(b), !.nodeRev = NextRevision(b)]
               M == [b.members EXCEPT ![m] = y]
               c == [b EXCEPT !.rev = NextRevision(b), !.members = M]
    <2>2. RevokeMember(b, m, expected).brain = c
      BY <1>1, <1>3, <2>1 DEF RevokeMember, Done
    <2>3. NextRevision(b) \in Nat /\ b.rev <= NextRevision(b) /\ NextRevision(b) <= MaxRevision
          /\ b.rev < NextRevision(b) /\ b.rev \in Nat /\ b.clock \in Nat /\ 0 < NextRevision(b)
      BY <1>1, <2>1, BrainTypes DEF NextRevision, HasNextRevision
    <2>4. \A x \in DOMAIN b.members : b.members[x] \in MemberRecords
      BY <1>1, BrainTypes
    <2>5. /\ y \in MemberRecords
          /\ y.device = b.members[m].device /\ y.expires = b.members[m].expires
          /\ y.rev = NextRevision(b) /\ y.revoked
          /\ y.seen = b.members[m].seen /\ ~y.online
          /\ y.nodeRev = NextRevision(b) /\ y.announced = b.members[m].announced
      BY <1>1, <2>3, <2>4 DEF MemberRecords
    <2>6. M \in [DOMAIN b.members -> MemberRecords]
      BY <1>1, <2>5, BrainTypes
    <2>7. c.rev = NextRevision(b) /\ c.members = M /\ c.clock = b.clock
      BY <1>1 DEF Brains
    <2>8. M[m] = y /\ \A x \in DOMAIN b.members \ {m} : M[x] = b.members[x]
      BY <1>1, BrainTypes
    <2> HIDE DEF y, M
    <2>9. \A x \in DOMAIN b.members : MemberValid(c, x) /\ MemberGrows(b, c, x)
      <3> SUFFICES ASSUME NEW x \in DOMAIN b.members
                   PROVE  MemberValid(c, x) /\ MemberGrows(b, c, x)
        OBVIOUS
      <3>1. MemberValid(b, x) /\ b.members[x] \in MemberRecords
        BY <2>4, GoodFacts
      <3>2. CASE x = m
        <4>1. y.announced # None => y.announced < y.nodeRev
          BY <2>3, <2>5, <3>1, <3>2, Limits DEF MemberValid, MemberRecords
        <4>2. MemberValid(c, x)
          BY <2>3, <2>5, <2>7, <2>8, <3>1, <3>2, <4>1 DEF MemberValid
        <4> QED
          BY <1>3, <2>3, <2>5, <2>7, <2>8, <3>2, <4>2 DEF MemberGrows
      <3>3. CASE x # m
        <4>1. c.members[x] = b.members[x]
          BY <2>7, <2>8, <3>3
        <4> QED
          BY <2>3, <2>7, <3>1, <4>1 DEF MemberValid, MemberGrows, SameNode, MemberRecords
      <3> QED
        BY <3>2, <3>3
    <2>10. ~M[Owner].revoked
      BY <1>1, <2>8, GoodFacts
    <2>11. Moved(b, c) /\ SameRoll(b, c)
      BY <2>3, <2>6, <2>9, <2>10, MembersChange
    <2> QED
      BY <2>2, <2>11
  <1> QED
    BY <1>2, <1>3

-----------------------------------------------------------------------------
(***************************************************************************)
(* Invitations and joins.                                                  *)
(***************************************************************************)

\* A change of invitations at a new revision.
LEMMA InvitesChange ==
    ASSUME NEW b, GoodBrain(b), HasNextRevision(b),
           NEW I \in Partial(Invites, Nat), IsFiniteSet(DOMAIN I),
           Cardinality(DOMAIN I) <= MaxInvites,
           \A i \in DOMAIN I : I[i] - InviteTtl <= b.clock,
           NEW c, c = [b EXCEPT !.rev = NextRevision(b), !.invites = I]
    PROVE  Moved(b, c)
  <1>1. b \in Brains
    BY DEF GoodBrain
  <1>2. /\ c.rev = b.rev + 1 /\ c.invites = I /\ c.clock = b.clock
        /\ c.members = b.members /\ c.tasks = b.tasks /\ c.replays = b.replays
    BY <1>1 DEF Brains, NextRevision
  <1>3. b.rev \in Nat /\ b.rev + 1 <= MaxRevision
    BY <1>1, BrainTypes DEF HasNextRevision
  <1>4. c \in Brains
    <2>1. NextRevision(b) \in Nat
      BY <1>3 DEF NextRevision
    <2> QED
      BY <1>1, <2>1 DEF Brains
  <1>5. Finite(c) /\ LedgerKept(c)
    BY <1>2 DEF GoodBrain, Finite, LedgerKept
  <1> USE <1>1, <1>2, <1>3
  <1>6. \A m \in DOMAIN c.members : MemberValid(c, m)
    <2> SUFFICES ASSUME NEW m \in DOMAIN b.members PROVE MemberValid(c, m)
      OBVIOUS
    <2>1. MemberValid(b, m) /\ b.members[m] \in MemberRecords
      BY GoodFacts, BrainTypes
    <2> QED
      BY <2>1 DEF MemberValid, MemberRecords
  <1>7. IssuedBefore(c)
    BY GoodFacts DEF IssuedBefore
  <1>8. \A q \in c.replays : ReplayValid(c, q)
    <2> SUFFICES ASSUME NEW q \in b.replays PROVE ReplayValid(c, q)
      OBVIOUS
    <2>1. ReplayValid(b, q) /\ q.rev \in Nat
      BY GoodFacts, BrainTypes DEF ReplayRecords
    <2> QED
      BY <2>1 DEF ReplayValid
  <1>9. \A t \in DOMAIN c.tasks : TaskValid(c, t)
    <2> SUFFICES ASSUME NEW t \in DOMAIN b.tasks PROVE TaskValid(c, t)
      OBVIOUS
    <2>1. TaskValid(b, t) /\ b.tasks[t].rev \in Nat
      BY GoodFacts, BrainTypes DEF TaskRecords
    <2> QED
      BY <2>1 DEF TaskValid
  <1>10. Valid(c)
    BY <1>6, <1>7, <1>8, <1>9, GoodFacts DEF Valid
  <1>11. GoodBrain(c)
    BY <1>4, <1>5, <1>10, GoodFacts DEF GoodBrain
  <1>12. MembersGrow(b, c) /\ TasksGrow(b, c) /\ LedgerGrows(b, c)
    BY DEF MembersGrow, MemberGrows, SameNode, TasksGrow, LedgerGrows
  <1> QED
    BY <1>11, <1>12, BrainTypes DEF Moved, Grows

\* An invitation is created, and expired ones are dropped.
LEMMA CreateInvitationMoves ==
    ASSUME NEW b, GoodBrain(b), NEW i \in Invites,
           CreateInvitation(b, i, b.clock).err = "none",
           NEW c, c = CreateInvitation(b, i, b.clock).brain
    PROVE  /\ Moved(b, c) /\ c.members = b.members
           /\ i \in DOMAIN c.invites /\ DOMAIN c.invites \subseteq DOMAIN b.invites \cup {i}
           /\ CreateInvitation(b, i, b.clock).value = i
  <1> DEFINE live == LiveInvites(b, b.clock)
             K == Only(b.invites, live)
             I == Put(K, i, b.clock + InviteTtl)
  <1>1. b \in Brains /\ b.clock \in Nat /\ InviteTtl \in Nat /\ MaxInvites \in Nat
    BY BrainTypes, Limits DEF GoodBrain
  <1>2. HasNextRevision(b) /\ ~(Cardinality(live) >= MaxInvites)
    BY DEF CreateInvitation, Fail
  <1>3. /\ c = [b EXCEPT !.rev = NextRevision(b), !.invites = I]
        /\ CreateInvitation(b, i, b.clock).value = i
    BY <1>2 DEF CreateInvitation, Done
  <1>4. live \subseteq DOMAIN b.invites
    BY DEF LiveInvites
  <1>5. K \in Partial(Invites, Nat) /\ DOMAIN K = live /\ \A x \in live : K[x] = b.invites[x]
    <2>1. b.invites \in Partial(Invites, Nat)
      BY <1>1, BrainTypes
    <2>2. /\ Only(b.invites, live) \in Partial(Invites, Nat)
          /\ DOMAIN Only(b.invites, live) = DOMAIN b.invites \cap live
          /\ \A x \in DOMAIN b.invites \cap live : Only(b.invites, live)[x] = b.invites[x]
      <3> HIDE DEF live
      <3>1. PICK f : f = b.invites
        OBVIOUS
      <3>2. f \in Partial(Invites, Nat)
        BY <2>1, <3>1
      <3>3. /\ Only(f, live) \in Partial(Invites, Nat)
            /\ DOMAIN Only(f, live) = DOMAIN f \cap live
            /\ \A x \in DOMAIN f \cap live : Only(f, live)[x] = f[x]
        <4>1. Only(f, live) \in Partial(Invites, Nat)
          BY <3>2, OnlyPartial
        <4> QED
          BY <4>1 DEF Only
      <3> QED
        BY <3>1, <3>3
    <2> HIDE DEF live
    <2> QED
      BY <1>4, <2>2
  <1>6. /\ I \in Partial(Invites, Nat) /\ DOMAIN I = live \cup {i}
        /\ I[i] = b.clock + InviteTtl /\ \A x \in live \ {i} : I[x] = b.invites[x]
    <2> HIDE DEF K
    <2>1. b.clock + InviteTtl \in Nat
      BY <1>1
    <2> QED
      BY <1>5, <2>1, PutPartial
  <1>7. IsFiniteSet(live)
    BY <1>4, FS_Subset DEF GoodBrain, Finite
  <1>8. IsFiniteSet(DOMAIN I) /\ Cardinality(DOMAIN I) <= MaxInvites
    <2>1. Cardinality(live) \in Nat
      BY <1>7, FS_CardinalityType
    <2>2. /\ IsFiniteSet(live \cup {i})
          /\ Cardinality(live \cup {i}) = IF i \in live THEN Cardinality(live)
                                         ELSE Cardinality(live) + 1
      BY <1>7, FS_AddElement
    <2> QED
      BY <1>1, <1>2, <1>6, <2>1, <2>2
  <1> HIDE DEF live, I
  <1>9. \A x \in DOMAIN I : I[x] - InviteTtl <= b.clock
    BY <1>1, <1>4, <1>6, GoodFacts DEF IssuedBefore
  <1>10. Moved(b, c) /\ c.members = b.members /\ c.invites = I
    <2>1. c = [b EXCEPT !.rev = NextRevision(b), !.invites = I]
      BY <1>3
    <2>2. PICK J \in Partial(Invites, Nat) : J = I
      BY <1>6
    <2>3. /\ IsFiniteSet(DOMAIN J) /\ Cardinality(DOMAIN J) <= MaxInvites
          /\ \A x \in DOMAIN J : J[x] - InviteTtl <= b.clock
          /\ c = [b EXCEPT !.rev = NextRevision(b), !.invites = J]
          /\ HasNextRevision(b)
      BY <1>2, <1>8, <1>9, <2>1, <2>2
    <2>4. Moved(b, c)
      BY <2>3, InvitesChange
    <2>5. c.members = b.members /\ c.invites = J
      BY <1>1, <2>3 DEF Brains
    <2> QED
      BY <2>2, <2>4, <2>5
  <1> QED
    BY <1>3, <1>4, <1>6, <1>10

\* An invitation is cancelled.
LEMMA CancelInvitationMoves ==
    ASSUME NEW b, GoodBrain(b), NEW i, CancelInvitation(b, i).err = "none",
           NEW c, c = CancelInvitation(b, i).brain
    PROVE  /\ Moved(b, c) /\ c.members = b.members
           /\ i \in DOMAIN b.invites /\ DOMAIN c.invites = DOMAIN b.invites \ {i}
  <1> DEFINE left == DOMAIN b.invites \ {i}
             I == Only(b.invites, left)
  <1>1. b \in Brains /\ HasNextRevision(b) /\ i \in DOMAIN b.invites
    BY DEF GoodBrain, CancelInvitation, Fail
  <1>2. c = [b EXCEPT !.rev = NextRevision(b), !.invites = I]
    BY <1>1 DEF CancelInvitation, Done
  <1>3. I \in Partial(Invites, Nat) /\ DOMAIN I = left /\ \A x \in left : I[x] = b.invites[x]
    <2>1. b.invites \in Partial(Invites, Nat)
      BY <1>1, BrainTypes
    <2>2. /\ Only(b.invites, left) \in Partial(Invites, Nat)
          /\ DOMAIN Only(b.invites, left) = DOMAIN b.invites \cap left
          /\ \A x \in DOMAIN b.invites \cap left : Only(b.invites, left)[x] = b.invites[x]
      <3> HIDE DEF left
      <3>1. PICK f : f = b.invites
        OBVIOUS
      <3>2. f \in Partial(Invites, Nat)
        BY <2>1, <3>1
      <3>3. /\ Only(f, left) \in Partial(Invites, Nat)
            /\ DOMAIN Only(f, left) = DOMAIN f \cap left
            /\ \A x \in DOMAIN f \cap left : Only(f, left)[x] = f[x]
        <4>1. Only(f, left) \in Partial(Invites, Nat)
          BY <3>2, OnlyPartial
        <4> QED
          BY <4>1 DEF Only
      <3> QED
        BY <3>1, <3>3
    <2>3. DOMAIN b.invites \cap left = left
      OBVIOUS
    <2> QED
      BY <2>2, <2>3
  <1>4. IsFiniteSet(DOMAIN I) /\ Cardinality(DOMAIN I) <= Cardinality(DOMAIN b.invites)
    BY <1>3, FS_Subset DEF GoodBrain, Finite
  <1>5. Cardinality(DOMAIN I) <= MaxInvites
    <2>1. Cardinality(DOMAIN I) \in Nat /\ Cardinality(DOMAIN b.invites) \in Nat
      BY <1>4, FS_CardinalityType DEF GoodBrain, Finite
    <2> QED
      BY <1>4, <2>1, GoodFacts, Limits
  <1> HIDE DEF I
  <1>6. \A x \in DOMAIN I : I[x] - InviteTtl <= b.clock
    BY <1>3, GoodFacts DEF IssuedBefore
  <1>7. Moved(b, c) /\ c.members = b.members /\ c.invites = I
    <2>1. c = [b EXCEPT !.rev = NextRevision(b), !.invites = I]
      BY <1>2
    <2>2. PICK J \in Partial(Invites, Nat) : J = I
      BY <1>3
    <2>3. /\ IsFiniteSet(DOMAIN J) /\ Cardinality(DOMAIN J) <= MaxInvites
          /\ \A x \in DOMAIN J : J[x] - InviteTtl <= b.clock
          /\ c = [b EXCEPT !.rev = NextRevision(b), !.invites = J]
          /\ HasNextRevision(b)
      BY <1>1, <1>4, <1>5, <1>6, <2>1, <2>2
    <2>4. Moved(b, c)
      BY <2>3, InvitesChange
    <2>5. c.members = b.members /\ c.invites = J
      BY <1>1, <2>3 DEF Brains
    <2> QED
      BY <2>2, <2>4, <2>5
  <1> QED
    BY <1>1, <1>3, <1>7

\* An id for a new member: an unused one, or anything once all are used.
FreshMember(b, m) == m \in Members \ DOMAIN b.members \/ Members \subseteq DOMAIN b.members

\* Member m joined on a device, with invitation i.
JoinedWith(b, c, i, m, device) ==
    /\ m \in Members \ DOMAIN b.members /\ DOMAIN c.members = DOMAIN b.members \cup {m}
    /\ c.members[m].device = device
    /\ i \in DOMAIN b.invites /\ DOMAIN c.invites = DOMAIN b.invites \ {i}

\* A join consumes an invitation and creates a member.
LEMMA JoinBrainMoves ==
    ASSUME NEW b, GoodBrain(b), NEW i, NEW device \in Devices, NEW m, FreshMember(b, m),
           JoinBrain(b, i, m, device, b.clock).err = "none",
           NEW c, c = JoinBrain(b, i, m, device, b.clock).brain
    PROVE  /\ Moved(b, c) /\ JoinedWith(b, c, i, m, device)
           /\ JoinBrain(b, i, m, device, b.clock).value = m
  <1> DEFINE left == DOMAIN b.invites \ {i}
             I == Only(b.invites, left)
             y == NewMember(device, NextRevision(b), b.clock)
             M == Put(b.members, m, y)
  <1>1. /\ b \in Brains /\ HasNextRevision(b) /\ i \in LiveInvites(b, b.clock)
        /\ ~(Cardinality(DOMAIN b.members) >= MaxMembers)
    BY DEF GoodBrain, JoinBrain, Fail
  <1>2. /\ c = [b EXCEPT !.rev = NextRevision(b), !.invites = I, !.members = M]
        /\ JoinBrain(b, i, m, device, b.clock).value = m
    BY <1>1 DEF JoinBrain, Done
  <1>3. IsFiniteSet(DOMAIN b.members) /\ Cardinality(DOMAIN b.members) \in Nat
    BY FS_CardinalityType DEF GoodBrain, Finite
  <1>4. m \in Members \ DOMAIN b.members
    <2>1. ASSUME Members \subseteq DOMAIN b.members PROVE FALSE
      <3>1. Members = DOMAIN b.members
        BY <1>1, <2>1, BrainTypes
      <3>2. MaxMembers <= Cardinality(Members) /\ MaxMembers \in Nat
        BY BrainAssumption, Limits DEF BrainAssumption
      <3> QED
        BY <1>1, <1>3, <3>1, <3>2
    <2> QED
      BY <2>1 DEF FreshMember
  <1>5. /\ b.rev \in Nat /\ b.clock \in Nat /\ NextRevision(b) = b.rev + 1
        /\ b.rev + 1 <= MaxRevision /\ None \notin Nat
    BY <1>1, BrainTypes, Limits DEF HasNextRevision, NextRevision
  <1>6. /\ y \in MemberRecords /\ y.device = device /\ ~y.revoked /\ y.rev = b.rev + 1
        /\ y.expires = b.clock + CredentialTtl /\ ~y.online /\ y.seen = None
        /\ y.nodeRev = b.rev + 1 /\ y.announced = None
    BY <1>5, Limits DEF NewMember, MemberRecords
  <1> HIDE DEF y
  <1>7. I \in Partial(Invites, Nat) /\ DOMAIN I = left /\ \A x \in left : I[x] = b.invites[x]
    <2>1. b.invites \in Partial(Invites, Nat)
      BY <1>1, BrainTypes
    <2>2. /\ Only(b.invites, left) \in Partial(Invites, Nat)
          /\ DOMAIN Only(b.invites, left) = DOMAIN b.invites \cap left
          /\ \A x \in DOMAIN b.invites \cap left : Only(b.invites, left)[x] = b.invites[x]
      <3> HIDE DEF left
      <3>1. PICK f : f = b.invites
        OBVIOUS
      <3>2. f \in Partial(Invites, Nat)
        BY <2>1, <3>1
      <3>3. /\ Only(f, left) \in Partial(Invites, Nat)
            /\ DOMAIN Only(f, left) = DOMAIN f \cap left
            /\ \A x \in DOMAIN f \cap left : Only(f, left)[x] = f[x]
        <4>1. Only(f, left) \in Partial(Invites, Nat)
          BY <3>2, OnlyPartial
        <4> QED
          BY <4>1 DEF Only
      <3> QED
        BY <3>1, <3>3
    <2>3. DOMAIN b.invites \cap left = left
      OBVIOUS
    <2> QED
      BY <2>2, <2>3
  <1>8. /\ M \in Partial(Members, MemberRecords) /\ DOMAIN M = DOMAIN b.members \cup {m}
        /\ M[m] = y /\ \A x \in DOMAIN b.members \ {m} : M[x] = b.members[x]
    <2>1. b.members \in Partial(Members, MemberRecords) /\ m \in Members
      BY <1>1, <1>4, BrainTypes
    <2>2. PICK f : f = b.members
      OBVIOUS
    <2>3. f \in Partial(Members, MemberRecords)
      BY <2>1, <2>2
    <2>4. /\ Put(f, m, y) \in Partial(Members, MemberRecords)
          /\ DOMAIN Put(f, m, y) = DOMAIN f \cup {m}
          /\ Put(f, m, y)[m] = y
          /\ \A x \in DOMAIN f \ {m} : Put(f, m, y)[x] = f[x]
      <3>1. Put(f, m, y) \in Partial(Members, MemberRecords)
        BY <1>6, <2>1, <2>3, PutPartial
      <3> QED
        BY <3>1 DEF Put
    <2> QED
      BY <2>2, <2>4
  <1> HIDE DEF I, M
  <1>9. /\ c.rev = b.rev + 1 /\ c.invites = I /\ c.clock = b.clock
        /\ c.members = M /\ c.tasks = b.tasks /\ c.replays = b.replays
    BY <1>1, <1>2, <1>5 DEF Brains
  <1>10. c \in Brains
    <2>1. NextRevision(b) \in Nat
      BY <1>5
    <2> QED
      BY <1>1, <1>2, <1>7, <1>8, <2>1 DEF Brains
  <1>11. IsFiniteSet(DOMAIN I) /\ Cardinality(DOMAIN I) <= MaxInvites
    <2>1. IsFiniteSet(DOMAIN I) /\ Cardinality(DOMAIN I) <= Cardinality(DOMAIN b.invites)
      BY <1>7, FS_Subset DEF GoodBrain, Finite
    <2>2. Cardinality(DOMAIN I) \in Nat /\ Cardinality(DOMAIN b.invites) \in Nat
      BY <2>1, FS_CardinalityType DEF GoodBrain, Finite
    <2> QED
      BY <2>1, <2>2, GoodFacts, Limits
  <1>12. IsFiniteSet(DOMAIN M) /\ Cardinality(DOMAIN M) <= MaxMembers
    <2>1. /\ IsFiniteSet(DOMAIN b.members \cup {m})
          /\ Cardinality(DOMAIN b.members \cup {m}) = Cardinality(DOMAIN b.members) + 1
      BY <1>3, <1>4, FS_AddElement
    <2> QED
      BY <1>1, <1>3, <1>8, <2>1, Limits
  <1>13. Finite(c) /\ LedgerKept(c)
    BY <1>9, <1>11, <1>12 DEF GoodBrain, Finite, LedgerKept
  <1>14. \A x \in DOMAIN c.members : MemberValid(c, x)
    <2> SUFFICES ASSUME NEW x \in DOMAIN M PROVE MemberValid(c, x)
      BY <1>9
    <2>1. CASE x = m
      BY <1>5, <1>6, <1>8, <1>9, <2>1 DEF MemberValid
    <2>2. CASE x \in DOMAIN b.members \ {m}
      <3>1. MemberValid(b, x) /\ b.members[x] \in MemberRecords
        BY <1>1, <2>2, GoodFacts, BrainTypes
      <3>2. c.members[x] = b.members[x]
        BY <1>8, <1>9, <2>2
      <3> QED
        BY <1>5, <1>9, <3>1, <3>2 DEF MemberValid, MemberRecords
    <2> QED
      BY <1>8, <2>1, <2>2
  <1>15. IssuedBefore(c)
    <2>1. \A x \in DOMAIN M : M[x].expires - CredentialTtl <= b.clock
      BY <1>5, <1>6, <1>8, GoodFacts, Limits DEF IssuedBefore
    <2>2. \A x \in DOMAIN I : I[x] - InviteTtl <= b.clock
      BY <1>7, GoodFacts DEF IssuedBefore
    <2> QED
      BY <1>9, <2>1, <2>2 DEF IssuedBefore
  <1>16. \A q \in c.replays : ReplayValid(c, q)
    <2> SUFFICES ASSUME NEW q \in b.replays PROVE ReplayValid(c, q)
      BY <1>9
    <2>1. ReplayValid(b, q) /\ q.rev \in Nat
      BY <1>1, GoodFacts, BrainTypes DEF ReplayRecords
    <2> QED
      BY <1>5, <1>8, <1>9, <2>1 DEF ReplayValid
  <1>17. \A t \in DOMAIN c.tasks : TaskValid(c, t)
    <2> SUFFICES ASSUME NEW t \in DOMAIN b.tasks PROVE TaskValid(c, t)
      BY <1>9
    <2>1. TaskValid(b, t) /\ b.tasks[t].rev \in Nat
      BY <1>1, GoodFacts, BrainTypes DEF TaskRecords
    <2> QED
      BY <1>5, <1>8, <1>9, <2>1 DEF TaskValid
  <1>18. Owner \in DOMAIN b.members /\ Owner # m /\ M[Owner] = b.members[Owner]
    BY <1>4, <1>8, GoodFacts
  <1>19. Valid(c)
    BY <1>5, <1>8, <1>9, <1>11, <1>12, <1>14, <1>15, <1>16, <1>17, <1>18, GoodFacts DEF Valid
  <1>20. GoodBrain(c)
    BY <1>9, <1>10, <1>13, <1>18, <1>19, GoodFacts DEF GoodBrain
  <1>21. MembersGrow(b, c)
    <2>1. \A x \in DOMAIN b.members : c.members[x] = b.members[x]
      BY <1>4, <1>8, <1>9
    <2>2. \A x \in DOMAIN b.members : MemberGrows(b, c, x)
      BY <2>1 DEF MemberGrows, SameNode
    <2> QED
      BY <1>5, <1>6, <1>8, <1>9, <2>2 DEF MembersGrow
  <1>22. TasksGrow(b, c) /\ LedgerGrows(b, c)
    BY <1>9 DEF TasksGrow, LedgerGrows
  <1>23. Moved(b, c)
    BY <1>5, <1>9, <1>20, <1>21, <1>22 DEF Moved, Grows
  <1> QED
    BY <1>1, <1>2, <1>4, <1>6, <1>7, <1>8, <1>9, <1>23 DEF LiveInvites, JoinedWith

-----------------------------------------------------------------------------
(***************************************************************************)
(* Messages and tasks.                                                     *)
(***************************************************************************)
Entry(b, m, msg) ==
    [node |-> m, key |-> msg.key, payload |-> msg.payload, rev |-> NextRevision(b)]

\* A message with a new key makes one more entry, at a revision of its own.
LEMMA NewEntry ==
    ASSUME NEW b, GoodBrain(b), NEW m \in DOMAIN b.members, NEW msg \in Messages,
           Replayed(b, m, msg.key) = {}, ~(Cardinality(b.replays) >= MaxReplays),
           HasNextRevision(b),
           NEW c, c.replays = b.replays \cup {Entry(b, m, msg)}, c.rev = NextRevision(b),
           DOMAIN b.members \subseteq DOMAIN c.members
    PROVE  /\ Entry(b, m, msg) \in ReplayRecords
           /\ IsFiniteSet(c.replays) /\ Cardinality(c.replays) <= MaxReplays
           /\ \A q \in c.replays : ReplayValid(c, q)
  <1> DEFINE e == Entry(b, m, msg)
  <1>1. b \in Brains /\ b.rev \in Nat /\ NextRevision(b) = b.rev + 1 /\ m \in Members
    BY BrainTypes DEF GoodBrain, NextRevision
  <1>2. /\ e \in ReplayRecords /\ e.node = m /\ e.key = msg.key /\ e.rev = b.rev + 1
    BY <1>1 DEF Entry, ReplayRecords, Messages
  <1> HIDE DEF e
  <1>3. IsFiniteSet(c.replays) /\ Cardinality(c.replays) <= MaxReplays
    <2>1. IsFiniteSet(b.replays) /\ Cardinality(b.replays) \in Nat
      BY FS_CardinalityType DEF GoodBrain, Finite
    <2>2. /\ IsFiniteSet(b.replays \cup {e})
          /\ Cardinality(b.replays \cup {e}) = IF e \in b.replays THEN Cardinality(b.replays)
                                              ELSE Cardinality(b.replays) + 1
      BY <2>1, FS_AddElement
    <2>3. c.replays = b.replays \cup {e}
      BY DEF e
    <2>4. PICK n \in Nat : n = Cardinality(b.replays)
      BY <2>1
    <2>5. n < MaxReplays /\ MaxReplays \in Nat
      BY <2>4, Limits
    <2>6. Cardinality(b.replays \cup {e}) = n \/ Cardinality(b.replays \cup {e}) = n + 1
      BY <2>2, <2>4
    <2>7. n <= MaxReplays /\ n + 1 <= MaxReplays
      BY <2>5
    <2>8. Cardinality(c.replays) <= MaxReplays
      <3> HIDE DEF e
      <3>1. CASE Cardinality(b.replays \cup {e}) = n
        BY <2>3, <2>7, <3>1, Zenon
      <3>2. CASE Cardinality(b.replays \cup {e}) = n + 1
        BY <2>3, <2>7, <3>2, Zenon
      <3> QED
        BY <2>6, <3>1, <3>2, Zenon
    <2> QED
      BY <2>2, <2>3, <2>8, Zenon
  <1>4. \A q \in b.replays : /\ q \in ReplayRecords /\ q.rev <= b.rev /\ q.rev # e.rev
                             /\ <<q.node, q.key>> # <<e.node, e.key>>
    <2> SUFFICES ASSUME NEW q \in b.replays
                 PROVE  /\ q \in ReplayRecords /\ q.rev <= b.rev /\ q.rev # e.rev
                        /\ <<q.node, q.key>> # <<e.node, e.key>>
      OBVIOUS
    <2>1. q \in ReplayRecords /\ ReplayValid(b, q)
      BY <1>1, GoodFacts, BrainTypes
    <2>2. q.rev \in Nat /\ q.rev <= b.rev
      BY <2>1 DEF ReplayRecords, ReplayValid
    <2>3. ~(q.node = m /\ q.key = msg.key)
      BY DEF Replayed
    <2> QED
      BY <1>1, <1>2, <2>1, <2>2, <2>3
  <1>5. \A q \in c.replays : ReplayValid(c, q)
    <2> SUFFICES ASSUME NEW q \in c.replays PROVE ReplayValid(c, q)
      OBVIOUS
    <2>1. c.replays = b.replays \cup {e}
      BY DEF e
    <2>2. CASE q = e
      <3>1. \A p \in c.replays \ {q} : p.rev # q.rev /\ <<p.node, p.key>> # <<q.node, q.key>>
        BY <1>4, <2>1, <2>2
      <3> QED
        BY <1>1, <1>2, <2>2, <3>1 DEF ReplayValid
    <2>3. CASE q \in b.replays
      <3>1. ReplayValid(b, q) /\ q.rev \in Nat
        BY <1>4, <2>3, GoodFacts DEF ReplayRecords
      <3>2. \A p \in c.replays \ {q} : p.rev # q.rev /\ <<p.node, p.key>> # <<q.node, q.key>>
        <4> SUFFICES ASSUME NEW p \in c.replays \ {q}
                     PROVE  p.rev # q.rev /\ <<p.node, p.key>> # <<q.node, q.key>>
          OBVIOUS
        <4>1. CASE p = e
          BY <1>4, <2>3, <4>1
        <4>2. CASE p \in b.replays
          BY <3>1, <4>2 DEF ReplayValid
        <4> QED
          BY <2>1, <4>1, <4>2
      <3> QED
        BY <1>1, <3>1, <3>2 DEF ReplayValid
    <2> QED
      BY <2>1, <2>2, <2>3
  <1> QED
    BY <1>2, <1>3, <1>5 DEF e

\* The announcement of a Node, entered in the ledger.
LEMMA AnnounceRecorded ==
    ASSUME NEW b, GoodBrain(b), NEW m, NEW msg \in Messages, Authorized(b, m, b.clock),
           Replayed(b, m, msg.key) = {}, ~(Cardinality(b.replays) >= MaxReplays),
           HasNextRevision(b), msg.rev = b.rev, msg.payload = "node",
           NEW a, Moved(b, a), SameRoll(b, a), a.rev = NextRevision(b),
           a.replays = b.replays, a.tasks = b.tasks,
           NEW c, c = [a EXCEPT !.replays = @ \cup {Entry(b, m, msg)}]
    PROVE  Moved(b, c) /\ SameRoll(b, c)
  <1>1. b \in Brains /\ a \in Brains /\ m \in DOMAIN b.members /\ GoodBrain(a) /\ Grows(b, a)
    BY DEF GoodBrain, Moved, Authorized
  <1>2. /\ c.replays = b.replays \cup {Entry(b, m, msg)} /\ c.rev = NextRevision(b)
        /\ c.clock = a.clock /\ c.members = a.members /\ c.invites = a.invites
        /\ c.tasks = b.tasks /\ c.rev = a.rev /\ c.tasks = a.tasks
    BY <1>1 DEF Brains
  <1>3. DOMAIN c.members = DOMAIN b.members
    BY <1>2 DEF SameRoll
  <1>4. /\ Entry(b, m, msg) \in ReplayRecords
        /\ IsFiniteSet(c.replays) /\ Cardinality(c.replays) <= MaxReplays
        /\ \A q \in c.replays : ReplayValid(c, q)
    BY <1>1, <1>2, <1>3, NewEntry
  <1>5. c \in Brains
    BY <1>1, <1>4 DEF Brains
  <1>6. \A x \in DOMAIN c.members : MemberValid(c, x)
    BY <1>1, <1>2, GoodFacts DEF MemberValid
  <1>7. IssuedBefore(c)
    BY <1>1, <1>2, GoodFacts DEF IssuedBefore
  <1>8. \A t \in DOMAIN c.tasks : TaskValid(c, t)
    <2> SUFFICES ASSUME NEW t \in DOMAIN a.tasks PROVE TaskValid(c, t)
      BY <1>2
    <2>1. TaskValid(a, t)
      BY <1>1, GoodFacts
    <2>2. a.replays \subseteq c.replays
      BY <1>2
    <2> QED
      BY <1>2, <2>1, <2>2 DEF TaskValid
  <1>9. Valid(c)
    BY <1>1, <1>2, <1>4, <1>6, <1>7, <1>8, GoodFacts DEF Valid
  <1>10. Finite(c)
    BY <1>1, <1>2, <1>4 DEF GoodBrain, Finite
  <1>11. LedgerKept(c)
    <2>1. Entry(b, m, msg).payload = "node"
      BY DEF Entry
    <2> QED
      BY <1>1, <1>2, <2>1, GoodFacts, Limits DEF LedgerKept
  <1>12. GoodBrain(c)
    BY <1>1, <1>2, <1>5, <1>9, <1>10, <1>11, GoodFacts DEF GoodBrain
  <1>13. MembersGrow(b, c)
    BY <1>1, <1>2 DEF Grows, MembersGrow, MemberGrows
  <1>14. TasksGrow(b, c)
    BY <1>2 DEF TasksGrow
  <1>15. LedgerGrows(b, c)
    <2>1. Entry(b, m, msg).node = m
      BY DEF Entry
    <2> QED
      BY <1>2, <2>1 DEF LedgerGrows
  <1> QED
    BY <1>1, <1>2, <1>3, <1>12, <1>13, <1>14, <1>15 DEF Moved, Grows, SameRoll

\* A new task, entered in the ledger.
LEMMA TaskRecorded ==
    ASSUME NEW b, GoodBrain(b), NEW m, NEW msg \in Messages, Authorized(b, m, b.clock),
           Replayed(b, m, msg.key) = {}, ~(Cardinality(b.replays) >= MaxReplays),
           HasNextRevision(b), msg.rev = b.rev, msg.payload # "node",
           AddTask(b, m, msg).err = "none",
           NEW c, c = [AddTask(b, m, msg).brain EXCEPT !.replays = @ \cup {Entry(b, m, msg)}]
    PROVE  Moved(b, c) /\ SameRoll(b, c) /\ AddTask(b, m, msg).value = NextRevision(b)
  <1> DEFINE t == msg.payload
             y == [creator |-> m, key |-> msg.key, source |-> msg.rev,
                   status |-> "draft", rev |-> NextRevision(b)]
             T == Put(b.tasks, t, y)
             a == [b EXCEPT !.rev = NextRevision(b), !.tasks = T]
  <1>1. /\ b \in Brains /\ m \in DOMAIN b.members /\ t \in TaskIds /\ t \notin DOMAIN b.tasks
        /\ ~(Cardinality(DOMAIN b.tasks) >= MaxTasks)
    BY DEF GoodBrain, Authorized, AddTask, Fail, Messages, Payloads
  <1>2. AddTask(b, m, msg).brain = a /\ AddTask(b, m, msg).value = NextRevision(b)
    BY <1>1 DEF AddTask, Done
  <1>3. /\ b.rev \in Nat /\ b.clock \in Nat /\ NextRevision(b) = b.rev + 1 /\ m \in Members
        /\ b.rev + 1 <= MaxRevision /\ msg.key \in Keys /\ NextRevision(b) \in Nat
    BY <1>1, BrainTypes DEF NextRevision, HasNextRevision, Messages
  <1>4. /\ y \in TaskRecords /\ y.creator = m /\ y.key = msg.key /\ y.source = b.rev
        /\ y.rev = b.rev + 1
    BY <1>3 DEF TaskRecords, TaskStatuses
  <1> HIDE DEF y
  <1>5. /\ T \in Partial(TaskIds, TaskRecords) /\ DOMAIN T = DOMAIN b.tasks \cup {t}
        /\ T[t] = y /\ \A u \in DOMAIN b.tasks : T[u] = b.tasks[u]
    <2>1. PICK f : f = b.tasks
      OBVIOUS
    <2>2. f \in Partial(TaskIds, TaskRecords)
      BY <1>1, <2>1, BrainTypes
    <2> HIDE DEF t
    <2>3. Put(f, t, y) \in Partial(TaskIds, TaskRecords)
      BY <1>1, <1>4, <2>2, PutPartial
    <2>4. /\ DOMAIN Put(f, t, y) = DOMAIN f \cup {t}
          /\ Put(f, t, y)[t] = y /\ \A u \in DOMAIN f : u # t => Put(f, t, y)[u] = f[u]
      BY DEF Put
    <2> QED
      BY <1>1, <2>1, <2>3, <2>4
  <1> HIDE DEF T
  <1>6. a \in Brains /\ a.replays = b.replays
    BY <1>1, <1>3, <1>5 DEF Brains
  <1>7. c = [a EXCEPT !.replays = @ \cup {Entry(b, m, msg)}]
    BY <1>2
  <1>8. /\ c.replays = b.replays \cup {Entry(b, m, msg)} /\ c.rev = b.rev + 1
        /\ c.clock = b.clock /\ c.members = b.members /\ c.invites = b.invites
        /\ c.tasks = T
    BY <1>1, <1>3, <1>6, <1>7 DEF Brains
  <1>9. /\ Entry(b, m, msg) \in ReplayRecords
        /\ IsFiniteSet(c.replays) /\ Cardinality(c.replays) <= MaxReplays
        /\ \A q \in c.replays : ReplayValid(c, q)
    BY <1>1, <1>3, <1>8, NewEntry
  <1> HIDE DEF a
  <1>10. c \in Brains
    <2>1. a.replays \cup {Entry(b, m, msg)} \subseteq ReplayRecords
      BY <1>1, <1>6, <1>9, BrainTypes
    <2> QED
      BY <1>6, <1>7, <2>1 DEF Brains
  <1>11. IsFiniteSet(DOMAIN T) /\ Cardinality(DOMAIN T) <= MaxTasks
    <2>1. IsFiniteSet(DOMAIN b.tasks) /\ Cardinality(DOMAIN b.tasks) \in Nat
      BY FS_CardinalityType DEF GoodBrain, Finite
    <2>2. PICK n \in Nat : n = Cardinality(DOMAIN b.tasks)
      BY <2>1
    <2>3. /\ IsFiniteSet(DOMAIN b.tasks \cup {t})
          /\ Cardinality(DOMAIN b.tasks \cup {t}) = n + 1
      BY <1>1, <2>1, <2>2, FS_AddElement
    <2>4. n < MaxTasks /\ MaxTasks \in Nat
      BY <1>1, <2>2, Limits
    <2> QED
      BY <1>5, <2>3, <2>4
  <1>12. \A x \in DOMAIN c.members : MemberValid(c, x)
    <2> SUFFICES ASSUME NEW x \in DOMAIN b.members PROVE MemberValid(c, x)
      BY <1>8
    <2>1. MemberValid(b, x) /\ b.members[x] \in MemberRecords
      BY <1>1, GoodFacts, BrainTypes
    <2> QED
      BY <1>3, <1>8, <2>1 DEF MemberValid, MemberRecords
  <1>13. IssuedBefore(c)
    BY <1>8, GoodFacts DEF IssuedBefore
  <1>14. \A u \in DOMAIN c.tasks : TaskValid(c, u)
    <2> SUFFICES ASSUME NEW u \in DOMAIN T PROVE TaskValid(c, u)
      BY <1>8
    <2>1. CASE u = t
      <3>1. Entry(b, m, msg) = [node |-> y.creator, key |-> y.key, payload |-> t,
                                rev |-> y.source + 1]
        BY <1>3, <1>4 DEF Entry
      <3>2. c.tasks[u] = y
        BY <1>5, <1>8, <2>1
      <3>3. y.source < y.rev /\ y.rev <= c.rev
        BY <1>3, <1>4, <1>8
      <3>4. [node |-> y.creator, key |-> y.key, payload |-> u, rev |-> y.source + 1]
              \in c.replays
        BY <1>8, <2>1, <3>1
      <3> QED
        BY <1>1, <1>4, <1>8, <3>2, <3>3, <3>4 DEF TaskValid
    <2>2. CASE u \in DOMAIN b.tasks
      <3>1. TaskValid(b, u) /\ b.tasks[u].rev \in Nat
        BY <1>1, <2>2, GoodFacts, BrainTypes DEF TaskRecords
      <3>2. c.tasks[u] = b.tasks[u] /\ b.replays \subseteq c.replays
        BY <1>5, <1>8, <2>2
      <3> QED
        BY <1>3, <1>8, <3>1, <3>2 DEF TaskValid
    <2> QED
      BY <1>5, <2>1, <2>2
  <1>15. Valid(c)
    <2>1. 0 < c.rev /\ c.rev <= MaxRevision
      BY <1>3, <1>8
    <2>2. /\ Cardinality(DOMAIN c.members) <= MaxMembers
          /\ Cardinality(DOMAIN c.invites) <= MaxInvites
          /\ Cardinality(DOMAIN c.tasks) <= MaxTasks
          /\ Owner \in DOMAIN c.members /\ ~c.members[Owner].revoked
      BY <1>8, <1>11, GoodFacts
    <2> QED
      BY <1>9, <1>12, <1>13, <1>14, <2>1, <2>2 DEF Valid
  <1>16. Finite(c)
    BY <1>8, <1>9, <1>11 DEF GoodBrain, Finite
  <1>17. LedgerKept(c)
    <2> SUFFICES ASSUME NEW r \in c.replays, r.payload \in TaskIds
                 PROVE  r.payload \in DOMAIN T /\ T[r.payload].creator = r.node
      BY <1>8 DEF LedgerKept
    <2>1. CASE r = Entry(b, m, msg)
      <3>1. r.payload = t /\ r.node = m
        BY <2>1 DEF Entry
      <3> QED
        BY <1>4, <1>5, <3>1
    <2>2. CASE r \in b.replays
      <3>1. r.payload \in DOMAIN b.tasks /\ b.tasks[r.payload].creator = r.node
        BY <2>2, GoodFacts DEF LedgerKept
      <3> QED
        BY <1>5, <3>1
    <2> QED
      BY <1>8, <2>1, <2>2
  <1>18. GoodBrain(c)
    BY <1>8, <1>10, <1>15, <1>16, <1>17, GoodFacts DEF GoodBrain
  <1>19. MembersGrow(b, c)
    BY <1>8 DEF MembersGrow, MemberGrows, SameNode
  <1>20. TasksGrow(b, c)
    BY <1>3, <1>4, <1>5, <1>8 DEF TasksGrow
  <1>21. LedgerGrows(b, c)
    <2>1. Entry(b, m, msg).node = m
      BY DEF Entry
    <2> QED
      BY <1>8, <2>1 DEF LedgerGrows
  <1> QED
    BY <1>2, <1>3, <1>8, <1>18, <1>19, <1>20, <1>21 DEF Moved, Grows, SameRoll

\* A message: applied once, entered in the ledger, and answered from it ever after.
LEMMA ApplyMoves ==
    ASSUME NEW b, GoodBrain(b), NEW m, NEW msg \in Messages,
           Apply(b, m, msg, b.clock).err = "none",
           NEW c, c = Apply(b, m, msg, b.clock).brain
    PROVE  /\ Moved(b, c) /\ SameRoll(b, c)
           /\ [node |-> m, key |-> msg.key, payload |-> msg.payload,
               rev |-> Apply(b, m, msg, b.clock).value] \in c.replays
  <1> DEFINE effect == IF msg.payload = "node" THEN Announce(b, m, msg, b.clock)
                       ELSE AddTask(b, m, msg)
  <1>1. Authorized(b, m, b.clock) /\ b \in Brains
    BY DEF Apply, Fail, GoodBrain
  <1>2. CASE Replayed(b, m, msg.key) # {}
    <2> DEFINE previous == CHOOSE r \in Replayed(b, m, msg.key) : TRUE
    <2>1. previous \in Replayed(b, m, msg.key)
      BY <1>2
    <2>2. previous \in b.replays /\ previous.node = m /\ previous.key = msg.key
      BY <2>1 DEF Replayed
    <2>3. previous \in ReplayRecords
      BY <1>1, <2>2, BrainTypes
    <2>4. previous.payload = msg.payload
      BY <1>1, <1>2 DEF Apply, Fail
    <2>5. c = b /\ Apply(b, m, msg, b.clock).value = previous.rev
      BY <1>1, <1>2, <2>4 DEF Apply, Done
    <2> HIDE DEF previous
    <2>6. previous = [node |-> m, key |-> msg.key, payload |-> msg.payload,
                      rev |-> previous.rev]
      BY <2>2, <2>3, <2>4 DEF ReplayRecords
    <2>7. MembersGrow(b, b) /\ TasksGrow(b, b) /\ LedgerGrows(b, b)
      BY DEF MembersGrow, MemberGrows, SameNode, TasksGrow, LedgerGrows
    <2> QED
      BY <1>1, <2>2, <2>5, <2>6, <2>7, BrainTypes DEF Moved, Grows, SameRoll
  <1>3. CASE Replayed(b, m, msg.key) = {}
    <2>1. /\ msg.rev = b.rev /\ ~(Cardinality(b.replays) >= MaxReplays) /\ HasNextRevision(b)
          /\ effect.err = "none"
      BY <1>1, <1>3 DEF Apply, Fail
    <2>2. /\ c = [effect.brain EXCEPT !.replays = @ \cup {Entry(b, m, msg)}]
          /\ Apply(b, m, msg, b.clock).value = effect.value
      BY <1>1, <1>3, <2>1 DEF Apply, Done, Entry
    <2>3. CASE msg.payload = "node"
      <3>1. effect = Announce(b, m, msg, b.clock)
        BY <2>3
      <3> DEFINE a == Announce(b, m, msg, b.clock).brain
      <3>2. /\ Moved(b, a) /\ SameRoll(b, a) /\ effect.value = NextRevision(b)
            /\ a.rev = NextRevision(b) /\ a.replays = b.replays /\ a.tasks = b.tasks
        BY <2>1, <3>1, AnnounceMoves
      <3>3. c = [a EXCEPT !.replays = @ \cup {Entry(b, m, msg)}]
        BY <2>2, <3>1
      <3> HIDE DEF a
      <3>4. Moved(b, c) /\ SameRoll(b, c)
        BY <1>1, <1>3, <2>1, <2>3, <3>2, <3>3, AnnounceRecorded
      <3>5. Entry(b, m, msg) \in c.replays
        BY <3>2, <3>3 DEF Moved, GoodBrain, Brains
      <3> QED
        BY <2>2, <3>2, <3>4, <3>5 DEF Entry
    <2>4. CASE msg.payload # "node"
      <3>1. effect = AddTask(b, m, msg)
        BY <2>4
      <3>2. c = [AddTask(b, m, msg).brain EXCEPT !.replays = @ \cup {Entry(b, m, msg)}]
        BY <2>2, <3>1
      <3>3. Moved(b, c) /\ SameRoll(b, c) /\ effect.value = NextRevision(b)
        BY <1>1, <1>3, <2>1, <2>4, <3>1, <3>2, TaskRecorded
      <3>4. Entry(b, m, msg) \in c.replays
        <4>1. AddTask(b, m, msg).brain = [b EXCEPT !.rev = NextRevision(b),
                 !.tasks = Put(@, msg.payload,
                               [creator |-> m, key |-> msg.key, source |-> msg.rev,
                                status |-> "draft", rev |-> NextRevision(b)])]
          BY <2>1, <3>1 DEF AddTask, Done, Fail
        <4> QED
          BY <1>1, <3>2, <4>1 DEF Brains
      <3> QED
        BY <2>2, <3>3, <3>4 DEF Entry
    <2> QED
      BY <2>3, <2>4
  <1> QED
    BY <1>2, <1>3

\* The coordinator moves a task along.
LEMMA SetTaskStatusMoves ==
    ASSUME NEW b, GoodBrain(b), NEW t, NEW expected, NEW status,
           SetTaskStatus(b, t, expected, status).err = "none",
           NEW c, c = SetTaskStatus(b, t, expected, status).brain
    PROVE  Moved(b, c) /\ SameRoll(b, c)
  <1>1. b \in Brains /\ t \in DOMAIN b.tasks
    BY DEF GoodBrain, SetTaskStatus, Fail
  <1>2. CASE b.tasks[t].status = status
    <2>1. c = b
      BY <1>1, <1>2 DEF SetTaskStatus, Done, Fail
    <2>2. MembersGrow(b, b) /\ TasksGrow(b, b) /\ LedgerGrows(b, b)
      BY DEF MembersGrow, MemberGrows, SameNode, TasksGrow, LedgerGrows
    <2> QED
      BY <1>1, <2>1, <2>2, BrainTypes DEF Moved, Grows, SameRoll
  <1>3. CASE b.tasks[t].status # status
    <2> DEFINE y == [b.tasks[t] EXCEPT !.status = status, !.rev = NextRevision(b)]
               T == [b.tasks EXCEPT ![t] = y]
    <2>1. HasNextRevision(b) /\ <<b.tasks[t].status, status>> \in StatusMoves
      BY <1>1, <1>3 DEF SetTaskStatus, Fail
    <2>2. c = [b EXCEPT !.rev = NextRevision(b), !.tasks = T]
      BY <1>1, <1>3, <2>1 DEF SetTaskStatus, Done, Fail
    <2>3. /\ b.rev \in Nat /\ b.clock \in Nat /\ NextRevision(b) = b.rev + 1
          /\ b.rev + 1 <= MaxRevision /\ NextRevision(b) \in Nat
      BY <1>1, <2>1, BrainTypes DEF NextRevision, HasNextRevision
    <2>4. status \in TaskStatuses
      BY <2>1 DEF StatusMoves, TaskStatuses
    <2>5. b.tasks[t] \in TaskRecords
      BY <1>1, BrainTypes
    <2>6. /\ y \in TaskRecords /\ y.creator = b.tasks[t].creator /\ y.key = b.tasks[t].key
          /\ y.source = b.tasks[t].source /\ y.rev = b.rev + 1
      BY <2>3, <2>4, <2>5 DEF TaskRecords
    <2> HIDE DEF y
    <2>7. /\ T \in [DOMAIN b.tasks -> TaskRecords] /\ T[t] = y
          /\ \A u \in DOMAIN b.tasks : u # t => T[u] = b.tasks[u]
      BY <1>1, <2>6, BrainTypes
    <2> HIDE DEF T
    <2>8. T \in Partial(TaskIds, TaskRecords) /\ DOMAIN T = DOMAIN b.tasks
      BY <1>1, <2>7, BrainTypes, PartialIsFunction
    <2>9. /\ c.rev = b.rev + 1 /\ c.clock = b.clock /\ c.members = b.members
          /\ c.invites = b.invites /\ c.replays = b.replays /\ c.tasks = T
      BY <1>1, <2>2, <2>3 DEF Brains
    <2>10. c \in Brains
      BY <1>1, <2>2, <2>3, <2>8 DEF Brains
    <2>11. \A x \in DOMAIN c.members : MemberValid(c, x)
      <3> SUFFICES ASSUME NEW x \in DOMAIN b.members PROVE MemberValid(c, x)
        BY <2>9
      <3>1. MemberValid(b, x) /\ b.members[x] \in MemberRecords
        BY <1>1, GoodFacts, BrainTypes
      <3> QED
        BY <2>3, <2>9, <3>1 DEF MemberValid, MemberRecords
    <2>12. IssuedBefore(c)
      BY <2>9, GoodFacts DEF IssuedBefore
    <2>13. \A q \in c.replays : ReplayValid(c, q)
      <3> SUFFICES ASSUME NEW q \in b.replays PROVE ReplayValid(c, q)
        BY <2>9
      <3>1. ReplayValid(b, q) /\ q.rev \in Nat
        BY <1>1, GoodFacts, BrainTypes DEF ReplayRecords
      <3> QED
        BY <2>3, <2>9, <3>1 DEF ReplayValid
    <2>14. \A u \in DOMAIN c.tasks : TaskValid(c, u)
      <3> SUFFICES ASSUME NEW u \in DOMAIN b.tasks PROVE TaskValid(c, u)
        BY <2>8, <2>9
      <3>1. TaskValid(b, u) /\ b.tasks[u].rev \in Nat /\ b.tasks[u].source \in Nat
        BY <1>1, GoodFacts, BrainTypes DEF TaskRecords
      <3>2. CASE u = t
        <4>1. /\ y.source < y.rev /\ y.rev <= c.rev /\ y.creator \in DOMAIN b.members
              /\ [node |-> y.creator, key |-> y.key, payload |-> u,
                  rev |-> y.source + 1] \in b.replays
          BY <2>3, <2>6, <2>9, <3>1, <3>2 DEF TaskValid
        <4> QED
          BY <2>7, <2>9, <3>2, <4>1 DEF TaskValid
      <3>3. CASE u # t
        <4>1. c.tasks[u] = b.tasks[u]
          BY <2>7, <2>9, <3>3
        <4> QED
          BY <2>3, <2>9, <3>1, <4>1 DEF TaskValid
      <3> QED
        BY <3>2, <3>3
    <2>15. Valid(c)
      BY <2>3, <2>8, <2>9, <2>11, <2>12, <2>13, <2>14, GoodFacts DEF Valid
    <2>16. Finite(c)
      BY <2>8, <2>9 DEF GoodBrain, Finite
    <2>17. LedgerKept(c)
      BY <2>6, <2>7, <2>8, <2>9, GoodFacts DEF LedgerKept
    <2>18. GoodBrain(c)
      BY <2>9, <2>10, <2>15, <2>16, <2>17, GoodFacts DEF GoodBrain
    <2>19. MembersGrow(b, c) /\ LedgerGrows(b, c)
      BY <2>9 DEF MembersGrow, MemberGrows, SameNode, LedgerGrows
    <2>20. TasksGrow(b, c)
      BY <2>3, <2>6, <2>7, <2>8, <2>9 DEF TasksGrow
    <2> QED
      BY <2>3, <2>9, <2>18, <2>19, <2>20 DEF Moved, Grows, SameRoll
  <1> QED
    BY <1>2, <1>3

\* Reading changes only brings presence up to date.
LEMMA ReconcileMoves ==
    ASSUME NEW b, GoodBrain(b), NEW m, NEW req, Reconcile(b, m, req, b.clock).err = "none",
           NEW c, c = Reconcile(b, m, req, b.clock).brain
    PROVE  Moved(b, c) /\ SameRoll(b, c)
  <1> DEFINE gone == ExpiredOnline(b, b.clock)
  <1>1. gone \in SUBSET AllOnline(b)
    BY DEF ExpiredOnline
  <1>2. ResetPresence(b, gone).err = "none" /\ c = ResetPresence(b, gone).brain
    BY DEF Reconcile, Fail, Done
  <1> HIDE DEF gone
  <1> QED
    BY <1>1, <1>2, ResetPresenceMoves

\* Who reads has access, and the page is one of the Brain that reading leaves.
LEMMA ReconciledPage ==
    ASSUME NEW b, GoodBrain(b), NEW m, NEW req, Reconcile(b, m, req, b.clock).err = "none",
           NEW c, c = Reconcile(b, m, req, b.clock).brain,
           NEW page, page = Reconcile(b, m, req, b.clock).value
    PROVE  /\ page = PageAt(c, m, req) /\ PageValid(page) /\ AtRevision(c, req)
           /\ m \in DOMAIN c.members /\ ~c.members[m].revoked
  <1> DEFINE gone == ExpiredOnline(b, b.clock)
             reset == ResetPresence(b, gone)
  <1>1. /\ Authorized(b, m, b.clock) /\ reset.err = "none" /\ c = reset.brain
        /\ page = PageAt(c, m, req) /\ PageValid(page) /\ AtRevision(c, req)
    BY DEF Reconcile, Fail, Done
  <1>2. m \in DOMAIN b.members /\ ~b.members[m].revoked /\ b.members[m] \in MemberRecords
    BY <1>1, BrainTypes DEF Authorized, GoodBrain
  <1> HIDE DEF gone
  <1>3. m \in DOMAIN c.members /\ c.members[m].revoked = b.members[m].revoked
    <2>1. CASE gone = {}
      BY <1>1, <1>2, <2>1 DEF ResetPresence, Done
    <2>2. CASE gone # {}
      <3>1. c = [b EXCEPT !.rev = NextRevision(b),
                          !.members = [x \in DOMAIN b.members |->
                                         IF x \in gone
                                         THEN [b.members[x] EXCEPT !.online = FALSE,
                                                                   !.nodeRev = NextRevision(b)]
                                         ELSE b.members[x]]]
        BY <1>1, <2>2 DEF ResetPresence, Done, Fail
      <3>2. c.members = [x \in DOMAIN b.members |->
                           IF x \in gone
                           THEN [b.members[x] EXCEPT !.online = FALSE, !.nodeRev = NextRevision(b)]
                           ELSE b.members[x]]
        BY <3>1 DEF GoodBrain, Brains
      <3> QED
        BY <1>2, <3>2 DEF MemberRecords
    <2> QED
      BY <2>1, <2>2
  <1> QED
    BY <1>1, <1>2, <1>3

\* A Brain has grown from itself.
LEMMA Unmoved ==
    ASSUME NEW b, GoodBrain(b)
    PROVE  Moved(b, b) /\ SameRoll(b, b)
  <1>1. MembersGrow(b, b) /\ TasksGrow(b, b) /\ LedgerGrows(b, b)
    BY DEF MembersGrow, MemberGrows, SameNode, TasksGrow, LedgerGrows
  <1>2. b.rev \in Nat /\ b.clock \in Nat
    BY BrainTypes DEF GoodBrain
  <1> QED
    BY <1>1, <1>2 DEF Moved, Grows, SameRoll

\* The Brain that bootstrap writes is good.
LEMMA BootstrapGood == GoodBrain(Bootstrap(0))
  <1> DEFINE b == Bootstrap(0)
             y == NewMember(OwnerDevice, 1, 0)
  <1>1. /\ y \in MemberRecords /\ y.device = OwnerDevice /\ ~y.revoked /\ y.rev = 1
        /\ y.expires = CredentialTtl /\ ~y.online /\ y.seen = None
        /\ y.nodeRev = 1 /\ y.announced = None
    BY Limits DEF NewMember, MemberRecords
  <1>2. /\ b.rev = 1 /\ b.clock = 0 /\ b.members = [m \in {Owner} |-> y]
        /\ b.invites = [i \in {} |-> 0] /\ b.tasks = [t \in {} |-> None] /\ b.replays = {}
    BY DEF Bootstrap
  <1> HIDE DEF y
  <1>3. b.members \in Partial(Members, MemberRecords)
    BY <1>1, <1>2, Limits, PartialIsFunction
  <1>4. b.invites \in Partial(Invites, Nat) /\ b.tasks \in Partial(TaskIds, TaskRecords)
    <2>1. [i \in {} |-> 0] \in Partial(Invites, Nat)
      BY DEF Partial
    <2>2. [t \in {} |-> None] \in Partial(TaskIds, TaskRecords)
      BY DEF Partial
    <2> QED
      BY <1>2, <2>1, <2>2
  <1>5. b \in Brains
    <2>1. b = [rev |-> 1, clock |-> 0, members |-> b.members, invites |-> b.invites,
               tasks |-> b.tasks, replays |-> {}]
      BY DEF Bootstrap
    <2> HIDE DEF b
    <2> QED
      BY <1>3, <1>4, <2>1 DEF Brains
  <1> HIDE DEF b
  <1>6. /\ DOMAIN b.members = {Owner} /\ DOMAIN b.invites = {} /\ DOMAIN b.tasks = {}
        /\ b.members[Owner] = y
    BY <1>2
  <1>7. IsFiniteSet({Owner}) /\ Cardinality({Owner}) = 1
    BY FS_Singleton
  <1>8. IsFiniteSet({}) /\ Cardinality({}) = 0
    BY FS_EmptySet
  <1>9. Finite(b)
    BY <1>2, <1>6, <1>7, <1>8 DEF Finite
  <1>10. MemberValid(b, Owner)
    BY <1>1, <1>2, <1>6, Limits DEF MemberValid
  <1>11. IssuedBefore(b)
    BY <1>1, <1>2, <1>6, Limits DEF IssuedBefore
  <1>12. Valid(b)
    BY <1>1, <1>2, <1>6, <1>7, <1>8, <1>10, <1>11, Limits DEF Valid
  <1>13. LedgerKept(b)
    BY <1>2 DEF LedgerKept
  <1> QED
    BY <1>1, <1>5, <1>6, <1>9, <1>12, <1>13 DEF GoodBrain, b

-----------------------------------------------------------------------------
(***************************************************************************)
(* Pages.  The names of a set have ranks 0, 1, 2 and so on.                *)
(***************************************************************************)

Names == ({"member", "node"} \X Members) \cup ({"task"} \X TaskIds)

\* Every name has a place of its own.
LEMMA NamePlaces ==
    /\ \A n \in Names : Place(n) \in Nat
    /\ \A n, k \in Names : Place(n) = Place(k) => n = k
  <1> DEFINE A == [k \in 1..Len(MemberOrder) |-> <<"member", MemberOrder[k]>>]
             B == [k \in 1..Len(MemberOrder) |-> <<"node", MemberOrder[k]>>]
             C == [k \in 1..Len(TaskOrder) |-> <<"task", TaskOrder[k]>>]
  <1>1. /\ MemberOrder \in Seq(Members) /\ TaskOrder \in Seq(TaskIds)
        /\ Len(MemberOrder) \in Nat /\ Len(TaskOrder) \in Nat
        /\ DOMAIN MemberOrder = 1..Len(MemberOrder) /\ DOMAIN TaskOrder = 1..Len(TaskOrder)
    BY BrainAssumption
  <1>2. /\ A \in Seq(Names) /\ Len(A) = Len(MemberOrder)
        /\ B \in Seq(Names) /\ Len(B) = Len(MemberOrder)
        /\ C \in Seq(Names) /\ Len(C) = Len(TaskOrder)
    <2>1. \A k \in 1..Len(MemberOrder) : MemberOrder[k] \in Members
      BY <1>1
    <2>2. \A k \in 1..Len(TaskOrder) : TaskOrder[k] \in TaskIds
      BY <1>1
    <2>3. A \in [1..Len(MemberOrder) -> Names]
      BY <2>1 DEF Names
    <2>4. B \in [1..Len(MemberOrder) -> Names]
      BY <2>1 DEF Names
    <2>5. C \in [1..Len(TaskOrder) -> Names]
      BY <2>2 DEF Names
    <2> HIDE DEF A, B, C
    <2>6. \A n \in Nat : \A f \in [1..n -> Names] : f \in Seq(Names) /\ Len(f) = n
      OBVIOUS
    <2> QED
      BY <1>1, <2>3, <2>4, <2>5, <2>6
  <1> HIDE DEF A, B, C
  <1>3. NameOrder = A \o B \o C
    BY DEF NameOrder, A, B, C
  <1>4. /\ NameOrder \in Seq(Names) /\ DOMAIN NameOrder = 1..Len(NameOrder)
        /\ Len(NameOrder) = Len(A) + Len(B) + Len(C) /\ Len(NameOrder) \in Nat
    <2>1. A \o B \in Seq(Names) /\ Len(A \o B) = Len(A) + Len(B)
      BY <1>2
    <2>2. NameOrder \in Seq(Names) /\ Len(NameOrder) = Len(A \o B) + Len(C)
      <3>1. PICK D : D = A \o B
        OBVIOUS
      <3>2. D \in Seq(Names) /\ NameOrder = D \o C
        BY <1>3, <2>1, <3>1
      <3>3. \A s, t \in Seq(Names) : s \o t \in Seq(Names) /\ Len(s \o t) = Len(s) + Len(t)
        OBVIOUS
      <3> QED
        BY <1>2, <3>1, <3>2, <3>3, Zenon
    <2>3. DOMAIN NameOrder = 1..Len(NameOrder) /\ Len(NameOrder) \in Nat
      BY <2>2
    <2> QED
      BY <2>1, <2>2, <2>3
  <1>5. /\ \A k \in 1..Len(A) : NameOrder[k] = A[k]
        /\ \A k \in 1..Len(B) : NameOrder[Len(A) + k] = B[k]
        /\ \A k \in 1..Len(C) : NameOrder[Len(A) + Len(B) + k] = C[k]
    BY <1>1, <1>2, <1>3
  <1>6. ASSUME NEW n \in Names PROVE \E k \in DOMAIN NameOrder : NameOrder[k] = n
    <2>1. CASE \E x \in Members : n = <<"member", x>>
      <3>1. PICK x \in Members : n = <<"member", x>>
        BY <2>1
      <3>2. PICK k \in 1..Len(MemberOrder) : MemberOrder[k] = x
        BY <1>1, <3>1, BrainAssumption
      <3>3. A[k] = n
        BY <3>1, <3>2 DEF A
      <3>4. k \in 1..Len(A) /\ k \in DOMAIN NameOrder
        BY <1>1, <1>2, <1>4, <3>2
      <3> QED
        BY <1>5, <3>3, <3>4
    <2>2. CASE \E x \in Members : n = <<"node", x>>
      <3>1. PICK x \in Members : n = <<"node", x>>
        BY <2>2
      <3>2. PICK k \in 1..Len(MemberOrder) : MemberOrder[k] = x
        BY <1>1, <3>1, BrainAssumption
      <3>3. B[k] = n
        BY <3>1, <3>2 DEF B
      <3>4. k \in 1..Len(B) /\ Len(A) + k \in DOMAIN NameOrder
        BY <1>1, <1>2, <1>4, <3>2
      <3> QED
        BY <1>5, <3>3, <3>4
    <2>3. CASE \E x \in TaskIds : n = <<"task", x>>
      <3>1. PICK x \in TaskIds : n = <<"task", x>>
        BY <2>3
      <3>2. PICK k \in 1..Len(TaskOrder) : TaskOrder[k] = x
        BY <1>1, <3>1, BrainAssumption
      <3>3. C[k] = n
        BY <3>1, <3>2 DEF C
      <3>4. k \in 1..Len(C) /\ Len(A) + Len(B) + k \in DOMAIN NameOrder
        BY <1>1, <1>2, <1>4, <3>2
      <3> QED
        BY <1>5, <3>3, <3>4
    <2> QED
      BY <1>6, <2>1, <2>2, <2>3 DEF Names
  <1>7. \A n \in Names : Place(n) \in DOMAIN NameOrder /\ NameOrder[Place(n)] = n
    BY <1>6 DEF Place
  <1>8. \A n \in Names : Place(n) \in Nat
    BY <1>4, <1>7
  <1> QED
    BY <1>7, <1>8

\* What comes before a name of a set.
Ahead(S, name) == {n \in S : Place(n) < Place(name)}

\* Fewer names than there are in the set come before a name of it.
LEMMA RankBounds ==
    ASSUME NEW S, IsFiniteSet(S), S \subseteq Names, NEW n \in S
    PROVE  /\ IsFiniteSet(Ahead(S, n)) /\ Rank(S, n) = Cardinality(Ahead(S, n))
           /\ Rank(S, n) \in Nat /\ Rank(S, n) < Cardinality(S)
  <1>1. Ahead(S, n) \subseteq S /\ n \notin Ahead(S, n)
    BY NamePlaces DEF Ahead
  <1>2. IsFiniteSet(Ahead(S, n)) /\ Cardinality(Ahead(S, n)) <= Cardinality(S)
    BY <1>1, FS_Subset
  <1>3. Cardinality(Ahead(S, n)) \in Nat /\ Cardinality(S) \in Nat
    BY <1>2, FS_CardinalityType
  <1>4. Cardinality(Ahead(S, n)) # Cardinality(S)
    BY <1>1, FS_Subset
  <1>5. Rank(S, n) = Cardinality(Ahead(S, n))
    BY DEF Rank, Ahead
  <1> QED
    BY <1>2, <1>3, <1>4, <1>5

\* A name that comes later has a higher rank.
LEMMA RanksDiffer ==
    ASSUME NEW S, IsFiniteSet(S), S \subseteq Names, NEW n \in S, NEW k \in S,
           Place(n) < Place(k)
    PROVE  Rank(S, n) < Rank(S, k)
  <1>1. Ahead(S, n) \subseteq Ahead(S, k) /\ n \in Ahead(S, k) /\ n \notin Ahead(S, n)
    BY NamePlaces DEF Ahead
  <1>2. IsFiniteSet(Ahead(S, k)) /\ Cardinality(Ahead(S, n)) <= Cardinality(Ahead(S, k))
        /\ Cardinality(Ahead(S, n)) # Cardinality(Ahead(S, k))
    BY <1>1, RankBounds, FS_Subset
  <1>3. /\ Rank(S, n) = Cardinality(Ahead(S, n)) /\ Rank(S, n) \in Nat
        /\ Rank(S, k) = Cardinality(Ahead(S, k)) /\ Rank(S, k) \in Nat
    BY RankBounds
  <1> QED
    BY <1>2, <1>3

\* Every rank below the size of the set belongs to exactly one name.
LEMMA RankHasName ==
    ASSUME NEW S, IsFiniteSet(S), S \subseteq Names
    PROVE  /\ \A n, k \in S : Rank(S, n) = Rank(S, k) => n = k
           /\ \A r \in Nat : r < Cardinality(S) => \E n \in S : Rank(S, n) = r
  <1>1. \A n, k \in S : Rank(S, n) = Rank(S, k) => n = k
    <2> SUFFICES ASSUME NEW n \in S, NEW k \in S, Rank(S, n) = Rank(S, k), n # k PROVE FALSE
      OBVIOUS
    <2>1. Place(n) < Place(k) \/ Place(k) < Place(n)
      BY NamePlaces
    <2>2. Rank(S, n) < Rank(S, k) \/ Rank(S, k) < Rank(S, n)
      BY <2>1, RanksDiffer
    <2> QED
      BY <2>2, RankBounds
  <1> DEFINE f == [n \in S |-> Rank(S, n)]
             T == 0..(Cardinality(S) - 1)
  <1>2. Cardinality(S) \in Nat
    BY FS_CardinalityType
  <1>3. f \in Injection(S, T)
    <2>1. \A n \in S : Rank(S, n) \in T
      BY <1>2, RankBounds
    <2> QED
      BY <1>1, <2>1 DEF Injection, IsInjective
  <1>4. IsFiniteSet(T) /\ Cardinality(T) = Cardinality(S)
    BY <1>2, FS_Interval
  <1>5. f \in Surjection(S, T)
    BY <1>3, <1>4, FS_Injection
  <1>6. \A r \in T : \E n \in S : f[n] = r
    <2> HIDE DEF f, T
    <2> QED
      BY <1>5 DEF Surjection
  <1>7. \A r \in Nat : r < Cardinality(S) => r \in T
    BY <1>2
  <1> QED
    BY <1>1, <1>6, <1>7

=============================================================================
